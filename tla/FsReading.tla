----------------------------- MODULE FsReading -----------------------------
(***************************************************************************)
(* What a set of instructions says of each path, read from the set as it   *)
(* is and not in the order it is sorted in: the entry, the memory of a     *)
(* removal and the metadata.  The map that apply_instructions builds       *)
(* (konfigkoll_core/src/state.rs) is to follow it.                         *)
(***************************************************************************)
EXTENDS FsMaps

OnPath(instrs, p, tags) == {i \in instrs : i.path = p /\ i.tag \in tags}

\* Of the instructions of some kinds on its path, i is the last of the sorted stream.
Latest(instrs, i, tags) == \A j \in OnPath(instrs, i.path, tags) : InstrLeq(j, i)

CreatedBelow(instrs, p) == \E i \in instrs : i.tag \in CreateTags /\ p \in StrictAncestors(i.path)

\* What a path's node says it is depends on the set of instructions alone: the
\* last creation wins, over a removal too; a removal wins over changes of
\* metadata; those make an Unchanged node, even where something is created
\* below; and what nothing was said about is a plain directory exactly when
\* something is created below it.
EntryFollows(instrs, m, p) ==
    /\ \A i \in OnPath(instrs, p, CreateTags) :
          m[p] # NoNode /\ (Latest(instrs, i, CreateTags) => m[p].entry = CreatedEntry(i))
    /\ OnPath(instrs, p, CreateTags) = {} /\ OnPath(instrs, p, {"Remove"}) # {} =>
          m[p] # NoNode /\ m[p].entry = Removed
    /\ OnPath(instrs, p, CreateTags \cup {"Remove"}) = {} /\ OnPath(instrs, p, MetaTags) # {} =>
          m[p] # NoNode /\ m[p].entry = Unchanged
    /\ OnPath(instrs, p, CreateTags \cup MetaTags \cup {"Remove"}) = {} =>
          m[p] = IF CreatedBelow(instrs, p) THEN FreshNode(Directory, DEFAULT_DIR_MODE)
                                            ELSE NoNode

\* A node remembers that its path was removed exactly when the set says so,
\* through every later replacement: diff relies on it to remove before it
\* creates (removed_before_added).
RemovalRemembered(instrs, m, p) ==
    m[p] # NoNode => (m[p].removed_before_added <=> OnPath(instrs, p, {"Remove"}) # {})

\* The value of one field of a node: the last operand set, or what the entry implies.
FieldFollows(instrs, p, tag, value, implied) ==
    /\ \A i \in OnPath(instrs, p, {tag}) : Latest(instrs, i, {tag}) => value = i.arg
    /\ OnPath(instrs, p, {tag}) = {} => value = implied

ImpliedMode(entry) ==
    CASE entry = Directory -> DEFAULT_DIR_MODE
      [] entry = Unchanged -> None
      [] OTHER             -> DEFAULT_FILE_MODE

ImpliedName(entry) == IF entry = Unchanged THEN None ELSE ROOT

\* Mode, owner and group of a node are those last set on its path, whichever
\* creation or removal came with them, and the defaults otherwise; a node that
\* only changes metadata says nothing about the fields nobody set.
MetadataFollows(instrs, m, p) ==
    m[p] # NoNode =>
        /\ FieldFollows(instrs, p, "SetMode", m[p].mode, ImpliedMode(m[p].entry))
        /\ FieldFollows(instrs, p, "SetOwner", m[p].owner, ImpliedName(m[p].entry))
        /\ FieldFollows(instrs, p, "SetGroup", m[p].group, ImpliedName(m[p].entry))

=============================================================================
