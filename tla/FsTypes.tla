------------------------------ MODULE FsTypes ------------------------------
(***************************************************************************)
(* The vocabulary shared by every module: paths and their ancestors, the   *)
(* file system instructions (FsOp, FsInstruction) and the nodes that       *)
(* FsEntries keeps (FsEntry, FsNode).                                      *)
(*                                                                         *)
(* Data is abstracted to what diffing and applying can tell apart.  A      *)
(* content, a link target, a device number, a mode and a user or group     *)
(* name are values of constant sets; comments, package references and log  *)
(* messages are left out.                                                  *)
(***************************************************************************)
EXTENDS Naturals, FiniteSets

CONSTANTS
    Path,               \* the paths that are told apart
    Ancestors,          \* Ancestors[p]: what Utf8Path::ancestors yields, p included
    PathRank,           \* the order of Utf8Path, as a number
    Contents,           \* contents of regular files (checksums)
    Targets,            \* targets of symbolic links
    DevNos,             \* (major, minor) pairs
    Mode,               \* permission bits
    DEFAULT_FILE_MODE,  \* 0644
    DEFAULT_DIR_MODE,   \* 0755
    Name,               \* user and group names
    ROOT,               \* "root"
    ArgRank,            \* the order of operands inside one kind of operation
    None,               \* Option::None, and the operand of operations without one
    NoNode              \* FsEntries has no node for a path

Arg == Contents \cup Targets \cup DevNos \cup Mode \cup Name \cup {None}

\* Paths form a tree, and an ancestor sorts before what it contains.
ASSUME PathAssumption ==
    /\ Ancestors \in [Path -> SUBSET Path]
    /\ \A p \in Path : p \in Ancestors[p]
    /\ \A p \in Path : \A a \in Ancestors[p] : Ancestors[a] \subseteq Ancestors[p]
    /\ PathRank \in [Path -> Nat]
    /\ \A p, q \in Path : PathRank[p] = PathRank[q] => p = q
    /\ \A p \in Path : \A a \in Ancestors[p] \ {p} : PathRank[a] < PathRank[p]

ASSUME ValueAssumption ==
    /\ DEFAULT_FILE_MODE \in Mode
    /\ DEFAULT_DIR_MODE \in Mode
    /\ ROOT \in Name
    /\ None \notin Contents \cup Targets \cup DevNos \cup Mode \cup Name
    /\ ArgRank \in [Arg -> Nat]
    /\ \A a, b \in Arg : ArgRank[a] = ArgRank[b] => a = b

StrictAncestors(p) == Ancestors[p] \ {p}

-----------------------------------------------------------------------------
(* Instructions *)

\* The operations in the order FsOp derives its Ord from.
TagRank ==
    [ Remove            |-> 0,
      Restore           |-> 1,
      CreateDirectory   |-> 2,
      CreateFile        |-> 3,
      CreateSymlink     |-> 4,
      CreateFifo        |-> 5,
      CreateBlockDevice |-> 6,
      CreateCharDevice  |-> 7,
      SetMode           |-> 8,
      SetOwner          |-> 9,
      SetGroup          |-> 10,
      Comment           |-> 11 ]

FsInstruction ==
         [path: Path, arg: {None},
          tag: {"Remove", "Restore", "CreateDirectory", "CreateFifo", "Comment"}]
    \cup [path: Path, tag: {"CreateFile"}, arg: Contents]
    \cup [path: Path, tag: {"CreateSymlink"}, arg: Targets]
    \cup [path: Path, tag: {"CreateBlockDevice", "CreateCharDevice"}, arg: DevNos]
    \cup [path: Path, tag: {"SetMode"}, arg: Mode]
    \cup [path: Path, tag: {"SetOwner", "SetGroup"}, arg: Name]

Instr(p, tag, arg) == [path |-> p, tag |-> tag, arg |-> arg]

CreateTags == { "CreateDirectory", "CreateFile", "CreateSymlink", "CreateFifo",
                "CreateBlockDevice", "CreateCharDevice" }

MetaTags == {"SetMode", "SetOwner", "SetGroup"}

\* FsInstruction orders by path, then by operation (kind, then operand).
InstrLeq(i, j) ==
    \/ PathRank[i.path] < PathRank[j.path]
    \/ /\ i.path = j.path
       /\ \/ TagRank[i.tag] < TagRank[j.tag]
          \/ i.tag = j.tag /\ ArgRank[i.arg] <= ArgRank[j.arg]

-----------------------------------------------------------------------------
(* Nodes *)

FsEntry ==
         [kind: {"Removed", "Unchanged", "Directory", "Fifo"}, data: {None}]
    \cup [kind: {"File"}, data: Contents]
    \cup [kind: {"Symlink"}, data: Targets]
    \cup [kind: {"BlockDevice", "CharDevice"}, data: DevNos]

FsNode ==
    [ entry: FsEntry,
      mode:  Mode \cup {None},
      owner: Name \cup {None},
      group: Name \cup {None},
      removed_before_added: BOOLEAN ]

Entry(kind, data) == [kind |-> kind, data |-> data]

Removed   == Entry("Removed", None)
Unchanged == Entry("Unchanged", None)
Directory == Entry("Directory", None)

\* A node as a creating operation leaves it: root's, with the mode given.
FreshNode(entry, mode) ==
    [ entry |-> entry, mode |-> mode, owner |-> ROOT, group |-> ROOT,
      removed_before_added |-> FALSE ]

ASSUME NodeAssumption == NoNode \notin FsNode

=============================================================================
