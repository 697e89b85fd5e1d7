-------------------------------- MODULE Disk --------------------------------
(***************************************************************************)
(* The file system under the program, as far as the calls of               *)
(* InProcessApplicator and of the scan observe it.  This is the kernel and *)
(* the standard library, not code of the repository: modelled from how     *)
(* apply.rs, conversion.rs and filesystem.rs use it.  The program runs as  *)
(* root with umask 022.                                                    *)
(*                                                                         *)
(* A call either fails and leaves the disk alone, or yields a new disk.    *)
(* A symbolic link whose target is not a path of the model dangles; a link *)
(* to a link counts as unresolvable, and the targets of links are not      *)
(* directories with entries of the model in them.                          *)
(***************************************************************************)
EXTENDS FsTypes

CONSTANTS
    LINK_MODE,          \* 0777, the mode lstat reports of a symbolic link
    ZERO_MODE,          \* mode 0
    WithoutSetid        \* the mode without its set-user-ID and set-group-ID bits

ASSUME ModeAssumption ==
    /\ {LINK_MODE, ZERO_MODE} \subseteq Mode
    /\ WithoutSetid \in [Mode -> Mode]

Inode ==
         [ kind: {"Directory", "Fifo", "Socket"}, data: {None},
           mode: Mode, owner: Name, group: Name ]
    \cup [kind: {"File"}, data: Contents, mode: Mode, owner: Name, group: Name]
    \cup [kind: {"Symlink"}, data: Targets, mode: Mode, owner: Name, group: Name]
    \cup [ kind: {"BlockDevice", "CharDevice"}, data: DevNos,
           mode: Mode, owner: Name, group: Name ]

ASSUME InodeAssumption == NoNode \notin Inode

\* NoNode: nothing there.
DiskState == [Path -> Inode \cup {NoNode}]

\* Whatever exists, exists in directories.
WellFormed(disk) ==
    \A p \in Path : disk[p] # NoNode =>
        \A a \in StrictAncestors(p) : disk[a] # NoNode /\ disk[a].kind = "Directory"

NewInode(kind, data, mode) ==
    [kind |-> kind, data |-> data, mode |-> mode, owner |-> ROOT, group |-> ROOT]

IsDir(disk, p) == disk[p] # NoNode /\ disk[p].kind = "Directory"

ASSUME NowhereAssumption == None \notin Path

\* Where a call that follows a final link ends up; None: nowhere.
Resolve(disk, p) ==
    IF disk[p] = NoNode \/ disk[p].kind # "Symlink" THEN p
    ELSE LET t == disk[p].data
         IN IF t \in Path /\ (disk[t] = NoNode \/ disk[t].kind # "Symlink") THEN t ELSE None

Fail(disk)   == [ok |-> FALSE, disk |-> disk]
Ok(disk)     == [ok |-> TRUE, disk |-> disk]

\* create_dir_all on every path of a chain of ancestors.
MakeDirs(disk, dirs) ==
    IF \E a \in dirs : disk[a] # NoNode /\ ~IsDir(disk, a) THEN Fail(disk)
    ELSE Ok([q \in Path |-> IF q \in dirs /\ disk[q] = NoNode
                            THEN NewInode("Directory", None, DEFAULT_DIR_MODE)
                            ELSE disk[q]])

ParentsAreDirs(disk, p) == \A a \in StrictAncestors(p) : IsDir(disk, a)

\* remove_dir or remove_file; a path that cannot be looked up counts as removed.
Unlink(disk, p) ==
    IF IsDir(disk, p) /\ \E q \in Path : p \in StrictAncestors(q) /\ disk[q] # NoNode
    THEN Fail(disk)                                            \* ENOTEMPTY
    ELSE Ok([disk EXCEPT ![p] = NoNode])

\* open(O_CREAT | O_TRUNC) and write: follows a link, keeps an existing inode.  What is
\* neither a file nor missing counts as a failure: a directory and a socket are one, a
\* fifo keeps the program waiting for a reader until it is stopped, and writing to a
\* device is not considered.
WriteFile(disk, p, c) ==
    LET q == Resolve(disk, p)
    IN CASE q = None -> Fail(disk)
         [] q # None /\ disk[q] = NoNode ->
                IF ParentsAreDirs(disk, q)
                THEN Ok([disk EXCEPT ![q] = NewInode("File", c, DEFAULT_FILE_MODE)])
                ELSE Fail(disk)
         [] q # None /\ disk[q] # NoNode ->
                IF disk[q].kind = "File" THEN Ok([disk EXCEPT ![q].data = c]) ELSE Fail(disk)

\* mkfifo, mknod and symlink never replace what is there.
MakeNode(disk, p, inode) ==
    IF disk[p] = NoNode THEN Ok([disk EXCEPT ![p] = inode]) ELSE Fail(disk)

Chmod(disk, p, mode) ==
    LET q == Resolve(disk, p)
    IN IF q = None THEN Fail(disk)
       ELSE IF disk[q] = NoNode THEN Fail(disk) ELSE Ok([disk EXCEPT ![q].mode = mode])

\* Giving a file away drops its set-ID bits, even for root.
Chowned(inode) ==
    IF inode.kind = "File" THEN [inode EXCEPT !.mode = WithoutSetid[@]] ELSE inode

ChownUser(disk, p, n) ==
    LET q == Resolve(disk, p)
    IN IF q = None THEN Fail(disk)
       ELSE IF disk[q] = NoNode THEN Fail(disk)
       ELSE Ok([disk EXCEPT ![q] = [Chowned(@) EXCEPT !.owner = n]])

ChownGroup(disk, p, n) ==
    LET q == Resolve(disk, p)
    IN IF q = None THEN Fail(disk)
       ELSE IF disk[q] = NoNode THEN Fail(disk)
       ELSE Ok([disk EXCEPT ![q] = [Chowned(@) EXCEPT !.group = n]])

=============================================================================
