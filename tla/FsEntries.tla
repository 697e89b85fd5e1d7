----------------------------- MODULE FsEntries -----------------------------
(***************************************************************************)
(* FsEntries::apply_instructions (konfigkoll_core/src/state.rs): a stream  *)
(* of instructions is folded into a map from paths to nodes.  The program  *)
(* builds two such maps, one from what the configuration script asked for  *)
(* and one from what the file system scan found, and diffs them.           *)
(*                                                                         *)
(* The machine consumes a stream one instruction at a time.  Both callers  *)
(* sort the stream first, so a step is enabled only for an instruction no  *)
(* smaller than those consumed.                                            *)
(***************************************************************************)
EXTENDS FsReading

CONSTANT Stream         \* the instructions a caller may pass

ASSUME StreamAssumption == Stream \subseteq FsInstruction

VARIABLES
    fs,                 \* the map built so far
    applied             \* the instructions consumed (history)

vars == <<fs, applied>>

Init ==
    /\ fs = EmptyMap
    /\ applied = {}

\* One iteration of the loop over the sorted stream.
Consume(i, result) ==
    /\ i \in Stream
    /\ \A j \in applied : InstrLeq(j, i)
    /\ fs' = result
    /\ applied' = applied \cup {i}

Create(p, tag, arg) ==
    LET i == Instr(p, tag, arg)
    IN Consume(i, ReplaceNode(fs, p, FreshNode(CreatedEntry(i), DefaultMode(tag))))

Remove(p)               == Consume(Instr(p, "Remove", None), RemoveNode(fs, p))
CreateDirectory(p)      == Create(p, "CreateDirectory", None)
CreateFile(p, c)        == Create(p, "CreateFile", c)
CreateSymlink(p, t)     == Create(p, "CreateSymlink", t)
CreateFifo(p)           == Create(p, "CreateFifo", None)
CreateBlockDevice(p, d) == Create(p, "CreateBlockDevice", d)
CreateCharDevice(p, d)  == Create(p, "CreateCharDevice", d)
SetMode(p, m)           == Consume(Instr(p, "SetMode", m), WithMode(fs, p, m))
SetOwner(p, n)          == Consume(Instr(p, "SetOwner", n), WithOwner(fs, p, n))
SetGroup(p, n)          == Consume(Instr(p, "SetGroup", n), WithGroup(fs, p, n))
Comment(p)              == Consume(Instr(p, "Comment", None), fs)
Restore(p)              == Consume(Instr(p, "Restore", None), fs)

Next ==
    \E p \in Path :
        \/ Remove(p)
        \/ CreateDirectory(p)
        \/ \E c \in Contents : CreateFile(p, c)
        \/ \E t \in Targets : CreateSymlink(p, t)
        \/ CreateFifo(p)
        \/ \E d \in DevNos : CreateBlockDevice(p, d)
        \/ \E d \in DevNos : CreateCharDevice(p, d)
        \/ \E m \in Mode : SetMode(p, m)
        \/ \E n \in Name : SetOwner(p, n)
        \/ \E n \in Name : SetGroup(p, n)
        \/ Comment(p)
        \/ Restore(p)

Spec == Init /\ [][Next]_vars

-----------------------------------------------------------------------------
(* Properties *)

\* The map holds nodes, and what was consumed came from the stream.
TypeOK ==
    /\ fs \in FsMap
    /\ applied \subseteq Stream

\* What each node says it is, is what FsReading reads from the instructions consumed.
EntriesFollowStream == \A p \in Path : EntryFollows(applied, fs, p)

\* Removals are remembered through every later replacement.
RemovalsRemembered == \A p \in Path : RemovalRemembered(applied, fs, p)

\* Mode, owner and group are those last set, or what the entry implies.
MetadataFollowsStream == \A p \in Path : MetadataFollows(applied, fs, p)

\* The fold as an operator, which Reconcile uses, and the state machine agree.
FoldAgrees == fs = BuildMap(applied)

=============================================================================
