-------------------------- MODULE FsEntriesProofs --------------------------
(***************************************************************************)
(* For every set of paths, stream of instructions and set of values, the   *)
(* map that apply_instructions builds from a sorted stream follows the     *)
(* stream: theorems TypeCorrect, EntriesFollow, RemovalsFollow and         *)
(* MetadataFollowsAll; and it is what BuildMap says it is: theorem         *)
(* FoldIsMachine.                                                          *)
(*                                                                         *)
(* The last one carries the others, for FsMapsProofs has proved them of    *)
(* what BuildMap makes of any finite set.  To be inductive it needs that   *)
(* finitely many instructions were consumed, and, as the last one may come *)
(* again, that this changes nothing (FoldInv).                             *)
(***************************************************************************)
EXTENDS FsEntries, FsMapsProofs

FoldInv ==
    /\ IsFiniteSet(applied)
    /\ fs = BuildMap(applied)
    /\ \A i \in applied : (\A j \in applied : InstrLeq(j, i)) => ApplyInstruction(fs, i) = fs

IInv == TypeOK /\ FoldInv

\* Every action applies an instruction that comes in order.
LEMMA StepApplies ==
    ASSUME Next
    PROVE  \E i \in Stream : /\ \A j \in applied : InstrLeq(j, i)
                             /\ fs' = ApplyInstruction(fs, i)
                             /\ applied' = applied \cup {i}
<1>1. PICK p \in Path, tag \in Tags :
         \E arg : Consume(Instr(p, tag, arg), ApplyInstruction(fs, Instr(p, tag, arg)))
  <2>1. PICK p \in Path :
            \/ Remove(p)
            \/ \E tag \in CreateTags : \E arg : Create(p, tag, arg)
            \/ \E m \in Mode : SetMode(p, m)
            \/ \E n \in Name : SetOwner(p, n)
            \/ \E n \in Name : SetGroup(p, n)
            \/ Comment(p) \/ Restore(p)
    BY DEF Next, CreateDirectory, CreateFile, CreateSymlink, CreateFifo, CreateBlockDevice,
           CreateCharDevice, CreateTags
  <2>2. CASE Remove(p)
    BY <2>2, TagRanks DEF Remove, ApplyInstruction, Instr, CreateTags
  <2>3. ASSUME NEW tag \in CreateTags, NEW arg, Create(p, tag, arg)
        PROVE  Consume(Instr(p, tag, arg), ApplyInstruction(fs, Instr(p, tag, arg)))
    BY <2>3 DEF Create, ApplyInstruction, Instr, CreateTags
  <2>4. ASSUME NEW m \in Mode, SetMode(p, m)
        PROVE  Consume(Instr(p, "SetMode", m), ApplyInstruction(fs, Instr(p, "SetMode", m)))
    BY <2>4 DEF SetMode, ApplyInstruction, Instr, CreateTags
  <2>5. ASSUME NEW n \in Name, SetOwner(p, n)
        PROVE  Consume(Instr(p, "SetOwner", n), ApplyInstruction(fs, Instr(p, "SetOwner", n)))
    BY <2>5 DEF SetOwner, ApplyInstruction, Instr, CreateTags
  <2>6. ASSUME NEW n \in Name, SetGroup(p, n)
        PROVE  Consume(Instr(p, "SetGroup", n), ApplyInstruction(fs, Instr(p, "SetGroup", n)))
    BY <2>6 DEF SetGroup, ApplyInstruction, Instr, CreateTags
  <2>7. CASE Comment(p)
    BY <2>7, TagRanks DEF Comment, ApplyInstruction, Instr, CreateTags
  <2>8. CASE Restore(p)
    BY <2>8, TagRanks DEF Restore, ApplyInstruction, Instr, CreateTags
  <2>9. CreateTags \cup MetaTags \subseteq Tags
    BY TagRanks
  <2>. QED  BY <2>1, <2>2, <2>3, <2>4, <2>5, <2>6, <2>7, <2>8, <2>9 DEF MetaTags
<1>. QED  BY <1>1 DEF Consume

\* No instruction, no entry.
LEMMA InitEstablishes == Init => IInv
<1> SUFFICES ASSUME Init PROVE IInv
  OBVIOUS
<1>1. TypeOK
  BY DEF Init, EmptyMap, TypeOK, FsMap
<1>2. FoldInv
  BY NoneSolves, FS_EmptySet DEF Init, FoldInv
<1>. QED  BY <1>1, <1>2 DEF IInv

\* The machine's step is the fold's: it applies the greatest instruction to the map of
\* the others.
LEMMA NextKeeps == IInv /\ [Next]_vars => IInv'
<1> SUFFICES ASSUME IInv, [Next]_vars PROVE IInv'
  OBVIOUS
<1>1. CASE UNCHANGED vars
  BY <1>1 DEF vars, IInv, TypeOK, FoldInv
<1>2. CASE Next
  <2>1. PICK i \in Stream : /\ \A j \in applied : InstrLeq(j, i)
                            /\ fs' = ApplyInstruction(fs, i)
                            /\ applied' = applied \cup {i}
    BY <1>2, StepApplies
  <2>2. applied \in SUBSET FsInstruction /\ i \in FsInstruction /\ fs \in FsMap /\ IsFiniteSet(applied)
    BY StreamAssumption DEF IInv, TypeOK, FoldInv
  <2>3. CASE i \in applied
    <3>1. applied' = applied /\ fs' = fs
      BY <2>1, <2>3 DEF IInv, FoldInv
    <3>. QED  BY <3>1 DEF IInv, TypeOK, FoldInv
  <2>4. CASE i \notin applied
    <3>1. IsFiniteSet(applied')
      BY <2>1, <2>2, FS_AddElement
    <3>2. fs' = BuildMap(applied')
      BY <2>1, <2>2, <2>4, BuildMapStep DEF IInv, FoldInv
    <3>3. ASSUME NEW k \in applied', \A j \in applied' : InstrLeq(j, k)
          PROVE  ApplyInstruction(fs', k) = fs'
      <4>1. k = i
        <5>1. Greatest(applied') = i
          BY <2>1, <2>2, LastIsGreatest
        <5>2. Greatest(applied') = k
          <6>1. applied' \in SUBSET FsInstruction
            BY <2>1, <2>2
          <6>2. k \in FsInstruction /\ applied' \in SUBSET (applied' \cup {k})
            BY <6>1
          <6>. QED  BY <3>3, <6>1, <6>2, LastIsGreatest
        <5>. QED  BY <5>1, <5>2
      <4>. QED  BY <2>1, <2>2, <4>1, AppliedTwice
    <3>4. applied' \subseteq Stream /\ applied' \in SUBSET FsInstruction
      BY <2>1, StreamAssumption DEF IInv, TypeOK
    <3>5. fs' \in FsMap
      BY <3>1, <3>2, <3>4, BuildMapFollows
    <3>. QED  BY <3>1, <3>2, <3>3, <3>4, <3>5 DEF IInv, TypeOK, FoldInv
  <2>. QED  BY <2>3, <2>4
<1>. QED  BY <1>1, <1>2

\* The invariant holds of every state.
THEOREM Invariant == Spec => []IInv
  BY InitEstablishes, NextKeeps, PTL DEF Spec

\* The map holds nodes, and what was consumed came from the stream.
THEOREM TypeCorrect == Spec => []TypeOK
<1>1. IInv => TypeOK
  BY DEF IInv
<1>. QED  BY <1>1, Invariant, PTL

\* The machine and the fold agree: consuming a sorted stream one by one, with repetitions,
\* gives the map that BuildMap makes of the set of its instructions.
THEOREM FoldIsMachine == Spec => []FoldAgrees
<1>1. IInv => FoldAgrees
  BY DEF IInv, FoldInv, FoldAgrees
<1>. QED  BY <1>1, Invariant, PTL

\* Hence the map follows what was consumed.
LEMMA MapFollows == IInv => \A p \in Path : Follows(applied, fs, p)
<1> SUFFICES ASSUME IInv PROVE \A p \in Path : Follows(applied, fs, p)
  OBVIOUS
<1>1. applied \in SUBSET FsInstruction /\ IsFiniteSet(applied) /\ fs = BuildMap(applied)
  BY StreamAssumption DEF IInv, TypeOK, FoldInv
<1>. QED  BY <1>1, BuildMapFollows

\* What every node says it is, is what the sorted stream says of its path: the
\* last creation, else the removal, else a change of metadata, else a directory
\* implied by a creation beneath it.
THEOREM EntriesFollow == Spec => []EntriesFollowStream
<1>1. IInv => EntriesFollowStream
  BY MapFollows DEF Follows, EntriesFollowStream
<1>. QED  BY <1>1, Invariant, PTL

\* A node's removed_before_added is set exactly when its path was removed.
THEOREM RemovalsFollow == Spec => []RemovalsRemembered
<1>1. IInv => RemovalsRemembered
  BY MapFollows DEF Follows, RemovalsRemembered
<1>. QED  BY <1>1, Invariant, PTL

\* A node's mode, owner and group are those last set, else the defaults of its entry.
THEOREM MetadataFollowsAll == Spec => []MetadataFollowsStream
<1>1. IInv => MetadataFollowsStream
  BY MapFollows DEF Follows, MetadataFollowsStream
<1>. QED  BY <1>1, Invariant, PTL

=============================================================================
