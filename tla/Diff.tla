-------------------------------- MODULE Diff --------------------------------
(***************************************************************************)
(* state::diff (konfigkoll_core/src/state.rs): the instructions that lead  *)
(* from one FsEntries to another.  It runs in two directions: "Apply", from *)
(* the system to the configuration, and "Save", from the configuration to  *)
(* the system.                                                             *)
(*                                                                         *)
(* The result is a set: both callers sort it before they use it, and the   *)
(* one duplicate the code can push (a second Remove of the same path) does *)
(* nothing when it is carried out.                                         *)
(***************************************************************************)
EXTENDS FsTypes

\* What the package database says of a path (Properties); None: no entry.
\* "Other" stands for the kinds diff cannot restore.
PkgEntry ==
    LET meta == [mode: Mode \cup {None}, owner: Name \cup {None}, group: Name \cup {None}]
        With(kind, data, m) == [ kind |-> kind, data |-> data, mode |-> m.mode,
                                 owner |-> m.owner, group |-> m.group ]
    IN       {With("RegularFile", c, m) : c \in Contents, m \in meta}
        \cup {With("Symlink", t, m) : t \in Targets, m \in {x \in meta : x.mode = None}}
        \cup {With(k, None, m) : k \in {"Directory", "Other", "Unknown"}, m \in meta}

ASSUME PkgAssumption == None \notin PkgEntry

\* fsnode_into_base_instruction!
BaseInstruction(p, entry) ==
    LET tag == [ Removed     |-> "Remove",
                 Directory   |-> "CreateDirectory",
                 File        |-> "CreateFile",
                 Symlink     |-> "CreateSymlink",
                 Fifo        |-> "CreateFifo",
                 BlockDevice |-> "CreateBlockDevice",
                 CharDevice  |-> "CreateCharDevice" ]
    IN IF entry.kind = "Unchanged" THEN {} ELSE {Instr(p, tag[entry.kind], entry.data)}

-----------------------------------------------------------------------------
(* A path both sides know *)

\* A mutant: a field the target leaves open is set all the same.
FieldDiffOpen(p, tag, before, after) ==
    IF before = after THEN {} ELSE {Instr(p, tag, after)}

\* One arm of the match on (before.mode, after.mode), and of its two twins.
FieldDiff(p, tag, before, after) ==
    CASE before = after -> {}
      [] before # after /\ after = None -> {Instr(p, "Comment", None)}
      [] OTHER -> {Instr(p, tag, after)}

MetadataDiff(p, before, after) ==
         FieldDiff(p, "SetMode", before.mode, after.mode)
    \cup FieldDiff(p, "SetOwner", before.owner, after.owner)
    \cup FieldDiff(p, "SetGroup", before.group, after.group)

ReplaceEntry(p, before, after) ==
    (IF before.removed_before_added \/ before.entry.kind # after.entry.kind
     THEN {Instr(p, "Remove", None)} ELSE {})
    \cup BaseInstruction(p, after.entry)

DiffBoth(p, before, after) ==
    (IF before.entry = after.entry THEN {} ELSE ReplaceEntry(p, before, after))
    \cup MetadataDiff(p, before, after)

-----------------------------------------------------------------------------
(* A path only the target state knows: FsNode::into_instruction *)

EntryDefaultMode(kind) ==
    CASE kind = "Directory" -> DEFAULT_DIR_MODE
      [] kind \in {"File", "Fifo", "BlockDevice", "CharDevice"} -> DEFAULT_FILE_MODE
      [] OTHER -> None

\* A mutant: the node's own metadata is forgotten.
BareInstructions(p, node) == BaseInstruction(p, node.entry)

IntoInstructions(p, node) ==
    LET kind == node.entry.kind
    IN  (IF node.removed_before_added /\ kind # "Removed"
         THEN {Instr(p, "Remove", None)} ELSE {})
        \cup BaseInstruction(p, node.entry)
        \cup (IF kind \notin {"Removed", "Symlink"}
                 /\ node.mode \notin {None, EntryDefaultMode(kind)}
              THEN {Instr(p, "SetMode", node.mode)} ELSE {})
        \cup (IF kind # "Removed" /\ node.owner \notin {None, ROOT}
              THEN {Instr(p, "SetOwner", node.owner)} ELSE {})
        \cup (IF kind # "Removed" /\ node.group \notin {None, ROOT}
              THEN {Instr(p, "SetGroup", node.group)} ELSE {})

-----------------------------------------------------------------------------
(* A path only the source state knows *)

\* Back to what the package manager installed.
RestoreEntry(p, pkg) ==
    CASE pkg.kind = "RegularFile" -> {Instr(p, "Restore", None)}
      [] pkg.kind = "Symlink"     -> {Instr(p, "CreateSymlink", pkg.data)}
      [] pkg.kind = "Directory"   -> {Instr(p, "CreateDirectory", None)}
      [] OTHER                    -> {}

RestoreField(p, tag, pkgField, before) ==
    IF pkgField = None \/ before = None \/ pkgField = before
    THEN {} ELSE {Instr(p, tag, pkgField)}

LeftApply(p, before, pkg) ==
    IF pkg = None THEN {Instr(p, "Remove", None)}
    ELSE (IF before.entry = Unchanged THEN {} ELSE RestoreEntry(p, pkg))
         \cup RestoreField(p, "SetMode", pkg.mode, before.mode)
         \cup RestoreField(p, "SetOwner", pkg.owner, before.owner)
         \cup RestoreField(p, "SetGroup", pkg.group, before.group)

-----------------------------------------------------------------------------

\* diff with DiffGoal::Apply; it fails when an entry cannot be restored.
ApplyDiffFails(before, after, pkgs) ==
    \E p \in Path :
        /\ before[p] # NoNode /\ after[p] = NoNode
        /\ before[p].entry # Unchanged
        /\ pkgs[p] # None /\ pkgs[p].kind = "Other"

DiffPath(p, before, after, onlyBefore) ==
    CASE before = NoNode /\ after = NoNode -> {}
      [] before = NoNode /\ after # NoNode -> IntoInstructions(p, after)
      [] before # NoNode /\ after = NoNode -> onlyBefore
      [] OTHER -> DiffBoth(p, before, after)

ApplyDiff(before, after, pkgs) ==
    UNION {DiffPath(p, before[p], after[p],
                    IF before[p] = NoNode THEN {} ELSE LeftApply(p, before[p], pkgs[p]))
              : p \in Path}

\* diff with DiffGoal::Save: what only the configuration has becomes a comment.
SaveDiff(before, after) ==
    UNION {DiffPath(p, before[p], after[p], {Instr(p, "Comment", None)}) : p \in Path}

=============================================================================
