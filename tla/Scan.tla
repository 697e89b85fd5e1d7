-------------------------------- MODULE Scan --------------------------------
(***************************************************************************)
(* scan_fs (konfigkoll/src/fs_scan.rs): the disk is compared with the      *)
(* package database (check_file, the directory walk, find_missing_files)   *)
(* and the issues found become instructions (convert_issue, from_fs).      *)
(*                                                                         *)
(* Files of different contents are taken to have the size of their         *)
(* content, so a wrong content is a SizeIncorrect or a ChecksumIncorrect;  *)
(* both convert to the same instruction.  What is not a regular file never *)
(* has the size the package database records.  All files are processed     *)
(* (ConfigFiles::Include) and mtimes are not trusted.                      *)
(***************************************************************************)
EXTENDS Diff, Disk

\* The contents a path reads as: open follows links.
ReadContents(disk, p) ==
    LET q == Resolve(disk, p)
    IN IF q # None /\ disk[q] # NoNode /\ disk[q].kind = "File" THEN disk[q].data ELSE None

\* from_fs: the instructions that would recreate what is on disk.
FromFs(disk, p) ==
    LET inode == disk[p]
        tag   == [ File |-> "CreateFile", Directory |-> "CreateDirectory",
                   Symlink |-> "CreateSymlink", Fifo |-> "CreateFifo",
                   BlockDevice |-> "CreateBlockDevice", CharDevice |-> "CreateCharDevice" ]
    IN IF inode.kind = "Socket" THEN {}
       ELSE {Instr(p, tag[inode.kind], inode.data)}
            \cup (IF inode.kind = "Symlink" THEN {} ELSE {Instr(p, "SetMode", inode.mode)})
            \cup {Instr(p, "SetOwner", inode.owner), Instr(p, "SetGroup", inode.group)}

\* check_permissions and check_ownership, converted: what differs, as it is.
WrongField(p, tag, expected, actual) ==
    IF expected = None \/ expected = actual THEN {} ELSE {Instr(p, tag, actual)}

WrongMetadata(disk, p, pkg) ==
         WrongField(p, "SetMode", pkg.mode, disk[p].mode)
    \cup WrongField(p, "SetOwner", pkg.owner, disk[p].owner)
    \cup WrongField(p, "SetGroup", pkg.group, disk[p].group)

\* TypeIncorrect, converted.
TypeConflict(disk, p) == {Instr(p, "Remove", None)} \cup FromFs(disk, p)

\* check_contents, converted; it fails on what cannot be read.
ContentsIssue(disk, p, pkg) ==
    IF disk[p].kind = "File" /\ disk[p].data = pkg.data THEN {}
    ELSE {Instr(p, "CreateFile", ReadContents(disk, p))}

\* check_file on a path that exists, and convert_issue on what it reports.  "Other" is
\* Special: lists of fifos, devices and permissions are those of systemd-tmpfiles, which
\* has no packages and is no file backend of konfigkoll's.
PackagedInstructions(disk, p, pkg) ==
    WrongMetadata(disk, p, pkg)
    \cup CASE pkg.kind = "RegularFile" ->
                 (IF disk[p].kind = "File" THEN {} ELSE TypeConflict(disk, p))
                 \cup ContentsIssue(disk, p, pkg)
           [] pkg.kind = "Symlink" ->
                 IF disk[p].kind # "Symlink" THEN TypeConflict(disk, p)
                 ELSE IF disk[p].data = pkg.data THEN {}
                 ELSE {Instr(p, "CreateSymlink", disk[p].data)}
           [] pkg.kind = "Directory" ->
                 IF disk[p].kind = "Directory" THEN {} ELSE TypeConflict(disk, p)
           [] pkg.kind = "Other" ->
                 IF disk[p].kind \in {"File", "Directory", "Symlink"} THEN TypeConflict(disk, p) ELSE {}
           [] pkg.kind = "Unknown" ->
                 IF disk[p].kind = "File" THEN TypeConflict(disk, p) ELSE {}

Ignored(ignores, p) == \E a \in Ancestors[p] : a \in ignores

\* A mutant: ignore_path has no effect.
ScanEverything(disk, pkgs, ignores, p) ==
    IF disk[p] # NoNode /\ pkgs[p] = None THEN FromFs(disk, p) ELSE {}

\* mismatching_and_unexpected_files and convert_issues_to_fs_instructions, for a path:
\* missing packaged files, packaged files that differ, and files no package owns.
PathInstructions(disk, pkgs, ignores, p) ==
    CASE Ignored(ignores, p) -> {}
      [] ~Ignored(ignores, p) /\ disk[p] = NoNode ->
            IF pkgs[p] = None THEN {} ELSE {Instr(p, "Remove", None)}
      [] OTHER -> IF pkgs[p] = None THEN FromFs(disk, p)
                  ELSE PackagedInstructions(disk, p, pkgs[p])

\* The scan as a whole fails if one file of an expected regular file's path
\* cannot be read: convert_issues_to_fs_instructions gives up on any error.
ScanFails(disk, pkgs, ignores) ==
    \E p \in Path :
        /\ ~Ignored(ignores, p)
        /\ disk[p] # NoNode /\ disk[p].kind # "File"
        /\ pkgs[p] # None /\ pkgs[p].kind = "RegularFile"
        /\ ReadContents(disk, p) = None

ScanInstructions(disk, pkgs, ignores) ==
    UNION {PathInstructions(disk, pkgs, ignores, p) : p \in Path}

=============================================================================
