--------------------------- MODULE ApplyFilesProofs ---------------------------
(***************************************************************************)
(* For every plan, disk, split into batches and sequence of answers and    *)
(* failures, the apply command keeps to the order of the instructions and  *)
(* to what the user agreed to, and a removal only ever fails on what its   *)
(* batch was not to remove: theorems TypeCorrect, OrderKept,               *)
(* ApprovalRespected and StuckOnOthersOnly.  It changes nothing but what   *)
(* the plan and the packages name, theorem LeavesTheRest, and a run that   *)
(* reports success has achieved all of what the plan is for, theorem       *)
(* SuccessAchieves.                                                        *)
(*                                                                         *)
(* Neither InOrder nor OnlyAsApproved is inductive: both depend on where   *)
(* the batches stand (BatchInv: what was handled already is not in the     *)
(* batch, nor in the next one) and on which chunk an answer is for         *)
(* (ApprovalInv).  The cases of a step are brought to two forms: an        *)
(* instruction is started (Starts), or some are passed over (PassesOver).  *)
(* The theorem on removals has an invariant of its own on top of them,     *)
(* RemovalInv (what a batch that only removed so far removed is gone, and  *)
(* nothing of it was lost): a later instruction may put a path back.       *)
(*                                                                         *)
(* UntouchedElsewhere is not inductive: that writing through a link stays  *)
(* within what the plan explains needs that every link on disk is known    *)
(* (LinkKnown), from before, from a package or from the plan.  Whatever a  *)
(* call changes, it changes one node (OneNode) or makes directories        *)
(* (MadeDirs).                                                             *)
(*                                                                         *)
(* SuccessMeansAchieved follows from what is carried out one by one:       *)
(* PerformEffect says what an instruction that succeeds achieves, and all  *)
(* it may change (MayTurn); LaterKeeps, that nothing that may come after   *)
(* an instruction undoes it.  The latter needs the order of the batch and  *)
(* that the plan has one instruction of a kind for a path, as those of     *)
(* diff do: theorem PlansOfDiff.                                           *)
(***************************************************************************)
EXTENDS ApplyFiles, Diff, FsMapsProofs

BatchInv ==
    /\ stage = "early" => todo \subseteq Batch(FALSE)
    /\ stage = "late" => todo \subseteq Batch(TRUE)
    /\ stage \in {"early", "packages"} => carried \cup skipped \subseteq Batch(FALSE)
    /\ stage = "packages" => todo = {}
    /\ stage # "failed" => (carried \cup skipped) \cap todo = {}

ApprovalInv ==
    /\ approval # "none" => todo # {}
    /\ approval = "all" => Chunk \subseteq shown

ApplyInv ==
    /\ ApplyTypeOK
    /\ BatchInv
    /\ InOrder
    /\ ApprovalInv
    /\ OnlyAsApproved

-----------------------------------------------------------------------------
(* Instructions *)

-----------------------------------------------------------------------------
(* The disk keeps its type *)

\* A disk with one path changed to something that can be there is a disk.
LEMMA OnePath ==
    ASSUME NEW d \in DiskState, NEW p \in Path, NEW node \in Inode \cup {NoNode}
    PROVE  [d EXCEPT ![p] = node] \in DiskState
  BY DEF DiskState

\* What the program creates is an inode.
LEMMA NewInodes ==
    /\ \A m \in Mode, k \in {"Directory", "Fifo", "Socket"} : NewInode(k, None, m) \in Inode
    /\ \A m \in Mode, c \in Contents : NewInode("File", c, m) \in Inode
    /\ \A m \in Mode, t \in Targets : NewInode("Symlink", t, m) \in Inode
    /\ \A m \in Mode, d \in DevNos, k \in {"BlockDevice", "CharDevice"} :
          NewInode(k, d, m) \in Inode
  BY ValueAssumption DEF Inode, NewInode

\* Changing the metadata of an inode, or the contents of a file, leaves an inode.
LEMMA ChangedInodes ==
    ASSUME NEW x \in Inode
    PROVE  /\ \A m \in Mode : [x EXCEPT !.mode = m] \in Inode
           /\ \A n \in Name : [x EXCEPT !.owner = n] \in Inode
           /\ \A n \in Name : [x EXCEPT !.group = n] \in Inode
           /\ Chowned(x) \in Inode
           /\ x.kind = "File" => \A c \in Contents : [x EXCEPT !.data = c] \in Inode
<1>1. x.mode \in Mode /\ x.owner \in Name /\ x.group \in Name
  BY DEF Inode
<1>2. \A m \in Mode : [x EXCEPT !.mode = m] \in Inode
  BY DEF Inode
<1>3. \A n \in Name : [x EXCEPT !.owner = n] \in Inode
  BY DEF Inode
<1>4. \A n \in Name : [x EXCEPT !.group = n] \in Inode
  BY DEF Inode
<1>5. Chowned(x) \in Inode
  BY <1>1, <1>2, ModeAssumption DEF Chowned
<1>6. ASSUME x.kind = "File" PROVE \A c \in Contents : [x EXCEPT !.data = c] \in Inode
  BY <1>6 DEF Inode
<1>. QED  BY <1>2, <1>3, <1>4, <1>5, <1>6

\* The calls that change metadata yield a disk.
LEMMA MetadataCallsTyped ==
    ASSUME NEW d \in DiskState, NEW p \in Path
    PROVE  /\ \A m \in Mode : Chmod(d, p, m).disk \in DiskState
           /\ \A n \in Name : ChownUser(d, p, n).disk \in DiskState
           /\ \A n \in Name : ChownGroup(d, p, n).disk \in DiskState
<1>. DEFINE q == Resolve(d, p)
<1>1. Fail(d).disk = d /\ \A e : Ok(e).disk = e
  BY DEF Fail, Ok
<1>2. CASE q = None
  BY <1>1, <1>2 DEF Chmod, ChownUser, ChownGroup
<1>3. CASE q # None /\ d[q] = NoNode
  BY <1>1, <1>3 DEF Chmod, ChownUser, ChownGroup
<1>4. CASE q # None /\ d[q] # NoNode
  <2>1. q \in Path /\ d[q] \in Inode
    BY <1>4, ResolveType DEF DiskState
  <2>2. ASSUME NEW m \in Mode PROVE Chmod(d, p, m).disk \in DiskState
    <3>1. Chmod(d, p, m).disk = [d EXCEPT ![q] = [d[q] EXCEPT !.mode = m]]
      BY <1>1, <1>4, <2>1 DEF Chmod, DiskState
    <3>. QED  BY <2>1, <3>1, ChangedInodes, OnePath
  <2>3. ASSUME NEW n \in Name PROVE ChownUser(d, p, n).disk \in DiskState
    <3>1. ChownUser(d, p, n).disk = [d EXCEPT ![q] = [Chowned(d[q]) EXCEPT !.owner = n]]
      BY <1>1, <1>4, <2>1 DEF ChownUser, DiskState
    <3>2. [Chowned(d[q]) EXCEPT !.owner = n] \in Inode
      BY <2>1, ChangedInodes
    <3>. QED  BY <2>1, <3>1, <3>2, OnePath
  <2>4. ASSUME NEW n \in Name PROVE ChownGroup(d, p, n).disk \in DiskState
    <3>1. ChownGroup(d, p, n).disk = [d EXCEPT ![q] = [Chowned(d[q]) EXCEPT !.group = n]]
      BY <1>1, <1>4, <2>1 DEF ChownGroup, DiskState
    <3>2. [Chowned(d[q]) EXCEPT !.group = n] \in Inode
      BY <2>1, ChangedInodes
    <3>. QED  BY <2>1, <3>1, <3>2, OnePath
  <2>. QED  BY <2>2, <2>3, <2>4
<1>. QED  BY <1>2, <1>3, <1>4

\* Writing a file yields a disk.
LEMMA WriteFileTyped ==
    ASSUME NEW d \in DiskState, NEW p \in Path, NEW c \in Contents
    PROVE  WriteFile(d, p, c).disk \in DiskState
<1>. DEFINE q == Resolve(d, p)
<1>1. Fail(d).disk = d /\ \A e : Ok(e).disk = e
  BY DEF Fail, Ok
<1>2. CASE q = None
  BY <1>1, <1>2 DEF WriteFile
<1>3. CASE q # None /\ d[q] = NoNode
  <2>1. q \in Path /\ NewInode("File", c, DEFAULT_FILE_MODE) \in Inode
    BY <1>3, ResolveType, NewInodes, ValueAssumption
  <2>2. [d EXCEPT ![q] = NewInode("File", c, DEFAULT_FILE_MODE)] \in DiskState
    BY <2>1, OnePath
  <2>. QED  BY <1>1, <1>3, <2>2 DEF WriteFile
<1>4. CASE q # None /\ d[q] # NoNode
  <2>1. q \in Path /\ d[q] \in Inode
    BY <1>4, ResolveType DEF DiskState
  <2>2. CASE d[q].kind = "File"
    <3>1. WriteFile(d, p, c).disk = [d EXCEPT ![q] = [d[q] EXCEPT !.data = c]]
      BY <1>1, <1>4, <2>1, <2>2 DEF WriteFile, DiskState
    <3>. QED  BY <2>1, <2>2, <3>1, ChangedInodes, OnePath
  <2>3. CASE d[q].kind # "File"
    BY <1>1, <1>4, <2>3 DEF WriteFile
  <2>. QED  BY <2>2, <2>3
<1>. QED  BY <1>2, <1>3, <1>4

\* Making directories, removing a path and making a node yield a disk.
LEMMA OtherCallsTyped ==
    ASSUME NEW d \in DiskState
    PROVE  /\ \A dirs \in SUBSET Path : MakeDirs(d, dirs).disk \in DiskState
           /\ \A p \in Path : Unlink(d, p).disk \in DiskState
           /\ \A p \in Path, x \in Inode : MakeNode(d, p, x).disk \in DiskState
           /\ \A p \in Path, t \in Targets : PutSymlink(d, p, t).disk \in DiskState
<1>1. Fail(d).disk = d /\ \A e : Ok(e).disk = e
  BY DEF Fail, Ok
<1>2. ASSUME NEW dirs \in SUBSET Path PROVE MakeDirs(d, dirs).disk \in DiskState
  <2>1. [q \in Path |-> IF q \in dirs /\ d[q] = NoNode
                        THEN NewInode("Directory", None, DEFAULT_DIR_MODE)
                        ELSE d[q]] \in DiskState
    BY NewInodes, ValueAssumption DEF DiskState
  <2>. QED  BY <1>1, <2>1 DEF MakeDirs
<1>3. ASSUME NEW p \in Path PROVE Unlink(d, p).disk \in DiskState
  BY <1>1, OnePath DEF Unlink
<1>4. ASSUME NEW p \in Path, NEW x \in Inode PROVE MakeNode(d, p, x).disk \in DiskState
  BY <1>1, OnePath DEF MakeNode
<1>5. ASSUME NEW p \in Path, NEW t \in Targets PROVE PutSymlink(d, p, t).disk \in DiskState
  <2>1. NewInode("Symlink", t, LINK_MODE) \in Inode
    BY NewInodes, ModeAssumption
  <2>. QED  BY <1>1, <2>1, OnePath DEF PutSymlink
<1>. QED  BY <1>2, <1>3, <1>4, <1>5

\* Carrying out an instruction yields a disk, whether it succeeds or not.
LEMMA PerformTyped ==
    ASSUME NEW d \in DiskState, NEW i \in FsInstruction, NEW original \in Contents \cup {None}
    PROVE  /\ Parents(d, i).disk \in DiskState
           /\ Perform(d, i, original).disk \in DiskState
<1>1. i.path \in Path /\ Ancestors[i.path] \in SUBSET Path /\ StrictAncestors(i.path) \in SUBSET Path
  BY Operands, PathAssumption DEF StrictAncestors
<1>2. \A e : Ok(e).disk = e /\ Fail(e).disk = e
  BY DEF Ok, Fail
<1>3. Parents(d, i).disk \in DiskState
  BY <1>1, <1>2, OtherCallsTyped DEF Parents
<1>4. ASSUME NEW e \in DiskState PROVE Operate(e, i, original).disk \in DiskState
  <2>1. CASE i.tag = "Remove"
    BY <1>1, <2>1, OtherCallsTyped DEF Operate, RemoveAny
  <2>2. CASE i.tag = "CreateDirectory"
    BY <1>1, <2>2, OtherCallsTyped DEF Operate
  <2>3. CASE i.tag = "CreateFile"
    BY <1>1, <2>3, Operands, WriteFileTyped DEF Operate
  <2>4. CASE i.tag = "CreateSymlink"
    BY <1>1, <2>4, Operands, OtherCallsTyped DEF Operate
  <2>5. CASE i.tag = "CreateFifo"
    BY <1>1, <2>5, NewInodes, ModeAssumption, OtherCallsTyped DEF Operate
  <2>6. CASE i.tag \in {"CreateBlockDevice", "CreateCharDevice"}
    BY <1>1, <2>6, Operands, NewInodes, ModeAssumption, OtherCallsTyped DEF Operate
  <2>7. CASE i.tag = "SetMode"
    BY <1>1, <2>7, Operands, MetadataCallsTyped DEF Operate
  <2>8. CASE i.tag = "SetOwner"
    BY <1>1, <2>8, Operands, MetadataCallsTyped DEF Operate
  <2>9. CASE i.tag = "SetGroup"
    BY <1>1, <2>9, Operands, MetadataCallsTyped DEF Operate
  <2>10. CASE i.tag = "Restore"
    BY <1>1, <1>2, <2>10, WriteFileTyped DEF Operate, RestoreFile
  <2>11. CASE i.tag = "Comment"
    BY <1>2, <2>11 DEF Operate
  <2>. QED
    BY <2>1, <2>2, <2>3, <2>4, <2>5, <2>6, <2>7, <2>8, <2>9, <2>10, <2>11, Operands
       DEF Tags, TagRank
<1>5. Perform(d, i, original).disk \in DiskState
  BY <1>3, <1>4 DEF Perform
<1>. QED  BY <1>3, <1>5

\* What an interrupted instruction leaves is a disk.
LEMMA InterruptedTyped ==
    ASSUME NEW d \in DiskState, NEW i \in FsInstruction
    PROVE  Interrupted(d, i) \subseteq DiskState
<1>. DEFINE made == Parents(d, i)
<1>1. made.disk \in DiskState /\ i.path \in Path
  BY PerformTyped, Operands
<1>2. [made.disk EXCEPT ![i.path] = NoNode] \in DiskState
  BY <1>1, OnePath
<1>3. WriteFile(made.disk, i.path, EMPTY).disk \in DiskState
  BY <1>1, WriteFileTyped, RunAssumption
<1>. QED  BY <1>1, <1>2, <1>3 DEF Interrupted

-----------------------------------------------------------------------------
(* The batch and its first chunk *)

\* Every invocation has an early and a late batch and nothing else.
LEMMA Batches ==
    /\ Batch(FALSE) = {i \in run.instrs : IsEarly(i)}
    /\ Batch(TRUE) = {i \in run.instrs : ~IsEarly(i)}
<1>1. \A i : IsEarly(i) \in BOOLEAN
  BY DEF IsEarly
<1>. QED  BY <1>1 DEF Batch

\* The chunk of what is left of a chunk's batch is what is left of the chunk,
\* unless nothing is.
LEMMA ChunkShrinks ==
    ASSUME NEW b \in SUBSET FsInstruction, NEW rest \in SUBSET b,
           NEW c \in rest, \A j \in b : TagRank[c.tag] <= TagRank[j.tag],
           NEW k \in rest, \A j \in rest : TagRank[k.tag] <= TagRank[j.tag]
    PROVE  \A j \in b : TagRank[k.tag] <= TagRank[j.tag]
<1>1. TagRank[c.tag] \in Nat /\ TagRank[k.tag] \in Nat /\ TagRank[k.tag] <= TagRank[c.tag]
  BY Operands, TagOrder
<1>. SUFFICES ASSUME NEW j \in b PROVE TagRank[k.tag] <= TagRank[j.tag]
  OBVIOUS
<1>2. TagRank[j.tag] \in Nat /\ TagRank[c.tag] <= TagRank[j.tag]
  BY Operands, TagOrder
<1>. QED  BY <1>1, <1>2

\* The instruction that is carried out first must not follow one still waiting.
LEMMA FirstPrecedes ==
    ASSUME ApplyTypeOK, NEW i \in Chunk, IsFirst(i), NEW j \in todo, j # i
    PROVE  ~MustPrecede(j, i)
<1>1. i \in FsInstruction /\ j \in FsInstruction /\ i \in todo
  BY DEF ApplyTypeOK, RunType, Chunk
<1>2. TagRank[i.tag] \in Nat /\ TagRank[j.tag] \in Nat /\ TagRank[i.tag] <= TagRank[j.tag]
  BY <1>1, Operands, TagOrder DEF Chunk
<1>3. ASSUME i.tag = "Remove", j.tag = "Remove" PROVE i.path \notin StrictAncestors(j.path)
  <2>1. j \in Chunk
    BY <1>3 DEF Chunk
  <2>2. InstrLeq(j, i)
    BY <1>3, <2>1 DEF IsFirst
  <2>3. i.path \in Path /\ j.path \in Path
    BY <1>1, Operands
  <2>4. PathRank[i.path] \in Nat /\ PathRank[j.path] \in Nat
    BY <2>3, PathAssumption
  <2>5. PathRank[j.path] <= PathRank[i.path]
    BY <2>2, <2>3, <2>4 DEF InstrLeq
  <2>6. i.path \in StrictAncestors(j.path) => PathRank[i.path] < PathRank[j.path]
    BY <2>3, PathAssumption DEF StrictAncestors
  <2>. QED  BY <2>4, <2>5, <2>6
<1>. QED  BY <1>2, <1>3 DEF MustPrecede

-----------------------------------------------------------------------------
(* The two forms of a step inside a batch *)

\* An instruction of the chunk is started; it succeeds, or the run ends.
Starts(i) ==
    /\ Applying /\ i \in Chunk /\ IsFirst(i) /\ Live
    /\ run.paranoia = "ask" => i \in shown'
    /\ shown \subseteq shown' /\ shown' \subseteq shown \cup {i}
    /\ carried' = carried \cup {i}
    /\ blocked' \subseteq blocked \cup {i}
    /\ disk' \in DiskState
    /\ (Settle(todo \ {i}) /\ stage' = stage) \/ Stop
    /\ UNCHANGED <<run, skipped>>

\* Some of the chunk is dealt with, and nothing is carried out.
PassesOver(instrs) ==
    /\ Applying /\ instrs \subseteq Chunk
    /\ Settle(todo \ instrs)
    /\ shown \subseteq shown' /\ shown' \subseteq shown \cup instrs
    /\ skipped \subseteq skipped' /\ skipped' \subseteq skipped \cup instrs
    /\ UNCHANGED <<run, disk, stage, carried, blocked>>

\* After either form, an answer still covers the chunk it was given for.
LEMMA SettleKeepsApproval ==
    ASSUME ApplyTypeOK, ApprovalInv, NEW instrs \in SUBSET Chunk, Settle(todo \ instrs),
           shown \subseteq shown'
    PROVE  ApprovalInv'
<1>1. todo \in SUBSET FsInstruction
  BY DEF ApplyTypeOK, RunType
<1>2. CASE (todo \ instrs) \cap Chunk = {}
  BY <1>2 DEF Settle, NextApproval, ApprovalInv
<1>3. CASE (todo \ instrs) \cap Chunk # {}
  <2>1. approval' = approval /\ todo' = todo \ instrs /\ todo' # {}
    BY <1>3 DEF Settle, NextApproval
  <2>2. PICK c \in todo' : \A j \in todo : TagRank[c.tag] <= TagRank[j.tag]
    BY <1>3, <2>1 DEF Chunk
  <2>3. ASSUME NEW k \in Chunk' PROVE k \in Chunk
    <3>1. k \in todo' /\ \A j \in todo' : TagRank[k.tag] <= TagRank[j.tag]
      BY DEF Chunk
    <3>2. \A j \in todo : TagRank[k.tag] <= TagRank[j.tag]
      BY <1>1, <2>1, <2>2, <3>1, ChunkShrinks
    <3>. QED  BY <2>1, <3>1, <3>2 DEF Chunk
  <2>. QED  BY <2>1, <2>3 DEF ApprovalInv
<1>. QED  BY <1>2, <1>3

\* Starting an instruction preserves the invariant.
LEMMA StartsPreserves ==
    ASSUME ApplyInv, NEW i, Starts(i)
    PROVE  ApplyInv'
<1>. USE DEF Starts
<1>1. /\ ApplyTypeOK /\ BatchInv /\ InOrder /\ ApprovalInv /\ OnlyAsApproved
      /\ i \in todo /\ i \in run.instrs /\ stage \in {"early", "late"}
      /\ todo' \subseteq todo /\ run' = run
      /\ stage' = stage \/ stage' = "failed"
  BY DEF ApplyInv, ApplyTypeOK, Chunk, Applying, Settle, Stop
<1>2. ApplyTypeOK'
  <2>1. approval' \in {"none", "all", "each"}
    BY <1>1 DEF ApplyTypeOK, Settle, NextApproval, Stop
  <2>2. shown' \subseteq run.instrs /\ carried' \subseteq run.instrs /\ blocked' \subseteq run.instrs
    BY <1>1 DEF ApplyTypeOK
  <2>. QED  BY <1>1, <2>1, <2>2 DEF ApplyTypeOK
<1>3. BatchInv'
  <2>1. \A late : Batch(late)' = Batch(late)
    BY <1>1 DEF Batch, IsEarly
  <2>2. stage' # "failed" => todo' = todo \ {i}
    BY <1>1 DEF Settle, Stop
  <2>. QED  BY <1>1, <2>1, <2>2 DEF BatchInv
<1>4. InOrder'
  <2>1. ASSUME NEW k \in carried', NEW j \in todo' \ carried' PROVE ~MustPrecede(j, k)
    <3>1. CASE k = i
      BY <1>1, <2>1, <3>1, FirstPrecedes
    <3>2. CASE k # i
      BY <1>1, <2>1, <3>2 DEF InOrder
    <3>. QED  BY <3>1, <3>2
  <2>2. \A k, j : MustPrecede(j, k)' = MustPrecede(j, k)
    BY <1>1 DEF MustPrecede, IsEarly
  <2>3. stage' = "early" => \A k \in carried' : IsEarly(k)'
    BY <1>1, Batches DEF InOrder, BatchInv, IsEarly
  <2>. QED  BY <2>1, <2>2, <2>3 DEF InOrder
<1>5. ApprovalInv'
  <2>1. CASE Settle(todo \ {i})
    BY <1>1, <2>1, SettleKeepsApproval
  <2>2. CASE Stop
    <3>1. Chunk' = Chunk
      BY <2>2 DEF Stop, Chunk
    <3>. QED  BY <1>1, <2>2, <3>1 DEF Stop, ApprovalInv
  <2>. QED  BY <2>1, <2>2
<1>6. OnlyAsApproved'
  BY <1>1 DEF OnlyAsApproved, BatchInv, Live
<1>. QED  BY <1>2, <1>3, <1>4, <1>5, <1>6 DEF ApplyInv

\* Passing instructions over preserves the invariant.
LEMMA PassesOverPreserves ==
    ASSUME ApplyInv, NEW instrs, PassesOver(instrs)
    PROVE  ApplyInv'
<1>. USE DEF PassesOver
<1>1. /\ ApplyTypeOK /\ BatchInv /\ InOrder /\ ApprovalInv /\ OnlyAsApproved
      /\ instrs \subseteq todo /\ instrs \subseteq run.instrs /\ stage \in {"early", "late"}
      /\ todo' = todo \ instrs
  BY DEF ApplyInv, ApplyTypeOK, Chunk, Applying, Settle
<1>2. ApplyTypeOK'
  <2>1. approval' \in {"none", "all", "each"}
    BY <1>1 DEF ApplyTypeOK, Settle, NextApproval
  <2>2. shown' \subseteq run.instrs /\ skipped' \subseteq run.instrs
    BY <1>1 DEF ApplyTypeOK
  <2>. QED  BY <1>1, <2>1, <2>2 DEF ApplyTypeOK
<1>3. BatchInv'
  <2>1. \A late : Batch(late)' = Batch(late)
    BY DEF Batch, IsEarly
  <2>. QED  BY <1>1, <2>1 DEF BatchInv
<1>4. InOrder'
  <2>1. \A k, j : MustPrecede(j, k)' = MustPrecede(j, k)
    BY DEF MustPrecede, IsEarly
  <2>2. \A k : IsEarly(k)' = IsEarly(k)
    BY DEF IsEarly
  <2>. QED  BY <1>1, <2>1, <2>2 DEF InOrder
<1>5. ApprovalInv'
  BY <1>1, SettleKeepsApproval
<1>6. OnlyAsApproved'
  BY <1>1 DEF OnlyAsApproved, BatchInv, Live
<1>. QED  BY <1>2, <1>3, <1>4, <1>5, <1>6 DEF ApplyInv

\* The first state satisfies the invariant.
LEMMA InitEstablishes ==
    ASSUME ApplyInit
    PROVE  ApplyInv
<1>1. run \in RunType /\ Batch(FALSE) \subseteq run.instrs
  BY RunAssumption, Batches DEF ApplyInit
<1>2. ApplyTypeOK
  BY <1>1 DEF ApplyInit, ApplyTypeOK, RunType
<1>3. BatchInv /\ InOrder /\ ApprovalInv /\ OnlyAsApproved
  BY DEF ApplyInit, BatchInv, InOrder, ApprovalInv, OnlyAsApproved
<1>. QED  BY <1>2, <1>3 DEF ApplyInv

\* Succeeding, getting stuck and breaking down are forms of Starts.
LEMMA Started ==
    ASSUME ApplyTypeOK, Applying, NEW i \in Chunk, IsFirst(i),
           Succeed(i) \/ GetStuck(i) \/ BreakDown(i),
           shown' = shown \/ shown' = shown \cup {i},
           run.paranoia = "ask" => i \in shown'
    PROVE  Starts(i)
<1>1. i \in FsInstruction /\ disk \in DiskState
  BY DEF ApplyTypeOK, RunType, Chunk
<1>2. run.originals[i.path] \in Contents \cup {None}
  BY <1>1, Operands DEF ApplyTypeOK, RunType
<1>3. disk' \in DiskState
  BY <1>1, <1>2, PerformTyped, InterruptedTyped DEF Succeed, GetStuck, BreakDown
<1>4. /\ Live /\ carried' = carried \cup {i} /\ blocked' \subseteq blocked \cup {i}
      /\ UNCHANGED <<run, skipped>>
      /\ (Settle(todo \ {i}) /\ stage' = stage) \/ Stop
  BY DEF Succeed, GetStuck, BreakDown, ApplyTypeOK
<1>. QED  BY <1>3, <1>4 DEF Starts

\* Every step preserves the invariant.
LEMMA NextPreserves ==
    ASSUME ApplyInv, [ApplyNext]_applyVars
    PROVE  ApplyInv'
<1>. USE DEF ApplyInv
<1>1. CASE UNCHANGED applyVars
  BY <1>1 DEF applyVars, history, ApplyTypeOK, BatchInv, InOrder, ApprovalInv, OnlyAsApproved, Batch,
              IsEarly, Chunk, MustPrecede, Live
<1>2. CASE SkipComments
  <2>1. PassesOver(Chunk)
    BY <1>2 DEF SkipComments, PassesOver, history
  <2>. QED  BY <2>1, PassesOverPreserves
<1>3. CASE CarryOut
  <2>1. CASE Log(Chunk)
    <3>1. PassesOver(Chunk)
      BY <1>3, <2>1 DEF CarryOut, Log, PassesOver
    <3>. QED  BY <3>1, PassesOverPreserves
  <2>2. CASE \E i \in Chunk : IsFirst(i) /\ (Succeed(i) \/ GetStuck(i) \/ BreakDown(i))
    <3>1. PICK i \in Chunk : IsFirst(i) /\ (Succeed(i) \/ GetStuck(i) \/ BreakDown(i))
      BY <2>2
    <3>2. shown' = shown /\ Applying /\ Granted
      BY <1>3 DEF CarryOut
    <3>3. run.paranoia = "ask" => i \in shown
      BY <3>2 DEF Granted, ApprovalInv
    <3>4. Starts(i)
      BY <3>1, <3>2, <3>3, Started
    <3>. QED  BY <3>4, StartsPreserves
  <2>. QED  BY <1>3, <2>1, <2>2 DEF CarryOut
<1>4. CASE AcceptChunk
  <2>1. /\ Applying /\ approval' = "all" /\ shown' = shown \cup Chunk
        /\ UNCHANGED <<run, disk, stage, todo, carried, skipped, blocked>>
    BY <1>4 DEF AcceptChunk, AsksFor
  <2>2. ApplyTypeOK'
    BY <2>1 DEF ApplyTypeOK, Chunk
  <2>3. BatchInv' /\ InOrder'
    BY <2>1 DEF BatchInv, InOrder, Batch, IsEarly, MustPrecede
  <2>4. ApprovalInv'
    BY <2>1 DEF ApprovalInv, Chunk, Applying
  <2>5. OnlyAsApproved'
    BY <2>1 DEF OnlyAsApproved, Live
  <2>. QED  BY <2>2, <2>3, <2>4, <2>5
<1>5. CASE GoThroughChunk
  <2>1. /\ Applying /\ approval' = "each"
        /\ UNCHANGED <<run, disk, stage, todo, shown, carried, skipped, blocked>>
    BY <1>5 DEF GoThroughChunk, AsksFor, history
  <2>2. ApplyTypeOK'
    BY <2>1 DEF ApplyTypeOK
  <2>3. BatchInv' /\ InOrder'
    BY <2>1 DEF BatchInv, InOrder, Batch, IsEarly, MustPrecede
  <2>4. ApprovalInv'
    BY <2>1 DEF ApprovalInv, Applying
  <2>5. OnlyAsApproved'
    BY <2>1 DEF OnlyAsApproved, Live
  <2>. QED  BY <2>2, <2>3, <2>4, <2>5
<1>6. CASE SkipChunk
  <2>1. PassesOver(Chunk)
    BY <1>6 DEF SkipChunk, AsksFor, PassesOver
  <2>. QED  BY <2>1, PassesOverPreserves
<1>7. CASE AcceptOne
  <2>1. PICK i \in Chunk : /\ IsFirst(i)
                           /\ Succeed(i) \/ GetStuck(i) \/ BreakDown(i) \/ Log({i})
                           /\ shown' = shown \cup {i}
    BY <1>7 DEF AcceptOne
  <2>2. Applying
    BY <1>7 DEF AcceptOne, AsksFor
  <2>3. CASE Log({i})
    <3>1. PassesOver({i})
      BY <2>1, <2>2, <2>3 DEF Log, PassesOver
    <3>. QED  BY <3>1, PassesOverPreserves
  <2>4. CASE Succeed(i) \/ GetStuck(i) \/ BreakDown(i)
    <3>1. Starts(i)
      BY <2>1, <2>2, <2>4, Started
    <3>. QED  BY <3>1, StartsPreserves
  <2>. QED  BY <2>1, <2>3, <2>4
<1>8. CASE SkipOne
  <2>1. PICK i \in Chunk : Settle(todo \ {i}) /\ skipped' = skipped \cup {i}
    BY <1>8 DEF SkipOne
  <2>2. PassesOver({i})
    BY <1>8, <2>1 DEF SkipOne, AsksFor, PassesOver
  <2>. QED  BY <2>2, PassesOverPreserves
<1>9. CASE Abort \/ FailPackages
  <2>1. stage' = "failed" /\ UNCHANGED <<run, disk, todo, approval, history>>
    BY <1>9 DEF Abort, FailPackages, Stop
  <2>2. ApplyTypeOK'
    BY <2>1 DEF ApplyTypeOK, history
  <2>3. BatchInv' /\ InOrder'
    BY <2>1 DEF BatchInv, InOrder, IsEarly, MustPrecede, history
  <2>4. ApprovalInv' /\ OnlyAsApproved'
    BY <2>1 DEF ApprovalInv, OnlyAsApproved, Chunk, Live, history
  <2>. QED  BY <2>2, <2>3, <2>4
<1>10. CASE EndBatch
  <2>1. /\ todo = {} /\ UNCHANGED <<run, disk, todo, approval, history>>
        /\ \/ stage = "early" /\ stage' = "packages"
           \/ stage = "late" /\ stage' = "done"
    BY <1>10 DEF EndBatch
  <2>2. ApplyTypeOK'
    BY <2>1 DEF ApplyTypeOK, history
  <2>3. BatchInv' /\ InOrder'
    BY <2>1 DEF BatchInv, InOrder, IsEarly, MustPrecede, Batch, history
  <2>4. ApprovalInv' /\ OnlyAsApproved'
    BY <2>1 DEF ApprovalInv, OnlyAsApproved, Chunk, Live, history
  <2>. QED  BY <2>2, <2>3, <2>4
<1>11. CASE PassPackages \/ InstallPackages
  <2>1. stage = "packages" /\ ToLateBatch /\ (disk' = disk \/ (Live /\ InstallPackages))
    BY <1>11 DEF PassPackages, InstallPackages
  <2>2. /\ stage' = "late" /\ todo' = Batch(TRUE)
        /\ UNCHANGED <<run, approval, shown, carried, skipped, blocked>>
    BY <2>1 DEF ToLateBatch, history
  <2>3. carried \cup skipped \subseteq Batch(FALSE) /\ approval = "none"
    BY <2>1 DEF BatchInv, ApprovalInv, ApplyTypeOK
  <2>4. disk' \in DiskState
    BY <2>1 DEF InstallPackages, ApplyTypeOK, RunType, DiskState
  <2>5. ApplyTypeOK'
    BY <2>2, <2>4, Batches DEF ApplyTypeOK
  <2>6. BatchInv'
    <3>1. \A late : Batch(late)' = Batch(late)
      BY <2>2 DEF Batch, IsEarly
    <3>. QED  BY <2>2, <2>3, <3>1, Batches DEF BatchInv
  <2>7. InOrder'
    BY <2>2, <2>3, Batches DEF InOrder, MustPrecede, IsEarly
  <2>8. ApprovalInv' /\ OnlyAsApproved'
    BY <2>1, <2>2, <2>3 DEF ApprovalInv, OnlyAsApproved, Live
  <2>. QED  BY <2>5, <2>6, <2>7, <2>8
<1>. QED
  BY <1>1, <1>2, <1>3, <1>4, <1>5, <1>6, <1>7, <1>8, <1>9, <1>10, <1>11 DEF ApplyNext

\* The three properties and what they rest on hold in every reachable state.
THEOREM ApplyInvariant == ApplySpec => []ApplyInv
  BY InitEstablishes, NextPreserves, PTL DEF ApplySpec

-----------------------------------------------------------------------------
(* What follows for the program *)

\* Every variable keeps its type: in particular, whatever fails or is cut short,
\* the disk remains one the model can describe.
THEOREM TypeCorrect == ApplySpec => []ApplyTypeOK
<1>1. ApplyInv => ApplyTypeOK
  BY DEF ApplyInv
<1>. QED  BY <1>1, ApplyInvariant, PTL

\* cmd_apply_changes and apply_files: no instruction of any plan is started while
\* one that must precede it waits in its batch, whatever the user leaves out.
THEOREM OrderKept == ApplySpec => []InOrder
<1>1. ApplyInv => InOrder
  BY DEF ApplyInv
<1>. QED  BY <1>1, ApplyInvariant, PTL

\* The applicators: what is carried out was agreed to, what was skipped is not
\* carried out, and a dry run leaves the disk as it was.
THEOREM ApprovalRespected == ApplySpec => []OnlyAsApproved
<1>1. ApplyInv => OnlyAsApproved
  BY DEF ApplyInv
<1>. QED  BY <1>1, ApplyInvariant, PTL

-----------------------------------------------------------------------------
(* What stands in the way of a removal *)

Current == Batch(stage = "late")
OnlyRemovals == \A c \in carried \cap Current : c.tag = "Remove"

\* While a batch has only removed, nothing is where it did.
Gone ==
    (stage \in {"early", "late"} /\ OnlyRemovals) =>
        \A c \in carried \cap Current : disk[c.path] = NoNode

\* Of a batch that is carried out nothing is lost but the comments.
Accounted ==
    (stage \in {"early", "late"} /\ Live) =>
        \A c \in Current : c \in todo \cup carried \cup skipped \/ c.tag = "Comment"

RemovalInv ==
    /\ Gone
    /\ Accounted
    /\ stage # "failed" => blocked = {}
    /\ RemovalBlockedByOthers

\* A chunk is of one kind.
LEMMA OneKind ==
    ASSUME ApplyTypeOK, NEW i \in Chunk, NEW j \in Chunk
    PROVE  i.tag = j.tag
<1>1. i \in FsInstruction /\ j \in FsInstruction /\ i \in todo /\ j \in todo
  BY DEF ApplyTypeOK, RunType, Chunk
<1>2. /\ TagRank[i.tag] \in Nat /\ TagRank[j.tag] \in Nat
      /\ TagRank[i.tag] <= TagRank[j.tag] /\ TagRank[j.tag] <= TagRank[i.tag]
  BY <1>1, Operands, TagOrder DEF Chunk
<1>3. TagRank[i.tag] = TagRank[j.tag]
  BY <1>2
<1>. QED  BY <1>1, <1>3, Operands, TagOrder

\* Until a removal is carried out, its batch carried out nothing else.
LEMMA RemovalsComeFirst ==
    ASSUME ApplyInv, NEW i \in Chunk, i.tag = "Remove", stage \in {"early", "late"}
    PROVE  i \in Current /\ OnlyRemovals
<1>1. i \in todo /\ i \in run.instrs /\ i \notin carried
  BY DEF ApplyInv, ApplyTypeOK, BatchInv, Chunk
<1>2. i \in Current
  <2>1. CASE stage = "early"
    BY <1>1, <2>1 DEF ApplyInv, BatchInv, Current
  <2>2. CASE stage = "late"
    BY <1>1, <2>2 DEF ApplyInv, BatchInv, Current
  <2>. QED  BY <2>1, <2>2
<1>3. ASSUME NEW c \in carried \cap Current PROVE c.tag = "Remove"
  <2>1. c \in FsInstruction /\ (IsEarly(i) <=> IsEarly(c)) /\ ~MustPrecede(i, c)
    BY <1>1, <1>2, <1>3, Batches DEF ApplyInv, ApplyTypeOK, RunType, InOrder, Current
  <2>2. ~(TagRank["Remove"] < TagRank[c.tag])
    BY <2>1 DEF MustPrecede
  <2>3. TagRank["Remove"] = 0 /\ c.tag \in Tags
    BY <2>1, Operands DEF TagRank
  <2>4. TagRank[c.tag] \in Nat /\ "Remove" \in Tags
    BY <2>3, TagOrder DEF TagRank, Tags
  <2>5. TagRank[c.tag] = TagRank["Remove"]
    BY <2>2, <2>3, <2>4
  <2>. QED  BY <2>3, <2>4, <2>5, TagOrder
<1>. QED  BY <1>2, <1>3 DEF OnlyRemovals

\* The batch stays what it is while the stage does.
LEMMA SameBatch ==
    ASSUME run' = run, stage' = stage
    PROVE  Current' = Current
  BY DEF Current, Batch, IsEarly

\* A removal changes nothing but its path, and gets stuck on what is below it.
LEMMA RemovalPerformed ==
    ASSUME NEW d, NEW i, i.tag = "Remove", NEW original
    PROVE  /\ Perform(d, i, original).ok =>
                 Perform(d, i, original).disk = [d EXCEPT ![i.path] = NoNode]
           /\ ~Perform(d, i, original).ok => Perform(d, i, original).disk = d
           /\ ~Perform(d, i, original).ok =>
                 \E q \in Path : i.path \in StrictAncestors(q) /\ d[q] # NoNode
<1>1. Perform(d, i, original) = Unlink(d, i.path)
  <2>1. Parents(d, i) = Ok(d)
    BY DEF Parents, NeedsParent
  <2>2. Operate(d, i, original) = Unlink(d, i.path)
    BY DEF Operate, RemoveAny
  <2>. QED  BY <2>1, <2>2 DEF Perform, Ok
<1>. QED  BY <1>1 DEF Unlink, Ok, Fail

\* When the removal that is due gets stuck, what it is stuck on is not to be
\* removed in its batch: all of those removals were carried out before.
LEMMA StuckOnOthers ==
    ASSUME ApplyInv, RemovalInv, Applying, NEW i \in Chunk, IsFirst(i), i.tag = "Remove", Live,
           NEW q \in Path, i.path \in StrictAncestors(q), disk[q] # NoNode,
           IsEarly(i) <=> q \in run.early
    PROVE  ~IsRemoved(q)
<1>. DEFINE r == Instr(q, "Remove", None)
<1>. SUFFICES ASSUME IsRemoved(q) PROVE FALSE
  OBVIOUS
<1>1. r.path = q /\ r.tag = "Remove" /\ r \in run.instrs /\ r \notin skipped
  BY DEF Instr, IsRemoved
<1>2. stage \in {"early", "late"} /\ ApplyTypeOK
  BY DEF Applying, ApplyInv
<1>3. i \in Current /\ OnlyRemovals
  BY <1>2, RemovalsComeFirst
<1>4. (IsEarly(r) <=> IsEarly(i)) /\ r \in Current
  BY <1>1, <1>2, <1>3, Batches DEF Current, IsEarly
<1>5. r \in todo \cup carried
  BY <1>1, <1>2, <1>4 DEF RemovalInv, Accounted
<1>6. r \notin carried
  BY <1>1, <1>2, <1>3, <1>4 DEF RemovalInv, Gone
<1>7. r # i
  <2>1. i.path # q
    BY DEF StrictAncestors
  <2>. QED  BY <1>1, <2>1
<1>8. MustPrecede(r, i)
  BY <1>1, <1>4 DEF MustPrecede
<1>. QED  BY <1>2, <1>5, <1>6, <1>7, <1>8, FirstPrecedes

\* Carrying out an instruction of the batch preserves what is said of removals.
LEMMA StartsKeepsRemovalInv ==
    ASSUME ApplyInv, RemovalInv, Applying, NEW i \in Chunk, IsFirst(i),
           Succeed(i) \/ GetStuck(i) \/ BreakDown(i)
    PROVE  RemovalInv'
<1>1. /\ ApplyTypeOK /\ stage \in {"early", "late"} /\ blocked = {} /\ i \in todo
      /\ i \in FsInstruction /\ i.path \in Path
  BY Operands DEF ApplyInv, ApplyTypeOK, RunType, RemovalInv, Applying, Chunk
<1>2. CASE Succeed(i)
  <2>1. /\ run' = run /\ stage' = stage /\ blocked' = {} /\ skipped' = skipped
        /\ todo' = todo \ {i} /\ carried' = carried \cup {i}
        /\ Perform(disk, i, run.originals[i.path]).ok
        /\ disk' = Perform(disk, i, run.originals[i.path]).disk
    BY <1>1, <1>2 DEF Succeed, Settle
  <2>2. Current' = Current
    BY <2>1, SameBatch
  <2>3. Gone'
    <3>1. SUFFICES ASSUME OnlyRemovals', NEW c \in carried' \cap Current'
                   PROVE  disk'[c.path] = NoNode
      BY DEF Gone
    <3>2. i \in Current
      BY <1>1 DEF ApplyInv, BatchInv, Current
    <3>3. i.tag = "Remove"
      BY <2>1, <2>2, <3>1, <3>2 DEF OnlyRemovals
    <3>4. disk' = [disk EXCEPT ![i.path] = NoNode] /\ disk \in DiskState
      BY <1>1, <2>1, <3>3, RemovalPerformed DEF ApplyTypeOK
    <3>5. c \in FsInstruction /\ c.path \in Path
      BY <1>1, <2>1, <3>1, Operands DEF ApplyTypeOK, RunType
    <3>6. CASE c = i
      BY <3>4, <3>5, <3>6 DEF DiskState
    <3>7. CASE c # i
      <4>1. c \in carried \cap Current /\ OnlyRemovals
        BY <2>1, <2>2, <3>1, <3>7 DEF OnlyRemovals
      <4>2. disk[c.path] = NoNode
        BY <1>1, <4>1 DEF RemovalInv, Gone
      <4>. QED  BY <3>4, <3>5, <4>2 DEF DiskState
    <3>. QED  BY <3>6, <3>7
  <2>4. Accounted'
    BY <1>1, <2>1, <2>2 DEF RemovalInv, Accounted, Live
  <2>. QED  BY <2>1, <2>3, <2>4 DEF RemovalInv, RemovalBlockedByOthers
<1>3. CASE BreakDown(i)
  <2>1. stage' = "failed" /\ blocked' = {}
    BY <1>1, <1>3 DEF BreakDown, Stop
  <2>. QED  BY <2>1 DEF RemovalInv, Gone, Accounted, RemovalBlockedByOthers
<1>4. CASE GetStuck(i)
  <2>1. /\ stage' = "failed" /\ blocked' = {i} /\ run' = run /\ skipped' = skipped /\ Live
        /\ ~Perform(disk, i, run.originals[i.path]).ok
        /\ disk' = Perform(disk, i, run.originals[i.path]).disk
    BY <1>4 DEF GetStuck, Stop
  <2>2. Gone' /\ Accounted'
    BY <2>1 DEF Gone, Accounted
  <2>3. ASSUME i.tag = "Remove"
        PROVE  \E q \in Path : /\ i.path \in StrictAncestors(q) /\ disk'[q] # NoNode
                               /\ ~IsRemoved(q)' \/ (IsEarly(i)' <=> q \notin run'.early)
    <3>1. PICK q \in Path : i.path \in StrictAncestors(q) /\ disk[q] # NoNode
      BY <2>1, <2>3, RemovalPerformed
    <3>2. disk' = disk
      <4>1. Perform(disk, i, run.originals[i.path]).disk = disk
        BY <2>1, <2>3, RemovalPerformed
      <4>. QED  BY <2>1, <4>1
    <3>3. ASSUME IsEarly(i) <=> q \in run.early PROVE ~IsRemoved(q)
      BY <2>1, <2>3, <3>1, <3>3, StuckOnOthers
    <3>4. (IsRemoved(q)' <=> IsRemoved(q)) /\ (IsEarly(i)' <=> IsEarly(i))
      BY <2>1 DEF IsRemoved, IsEarly
    <3>5. IsEarly(i) \in BOOLEAN
      BY DEF IsEarly
    <3>. QED  BY <2>1, <3>1, <3>2, <3>3, <3>4, <3>5
  <2>4. RemovalBlockedByOthers'
    BY <2>1, <2>3 DEF RemovalBlockedByOthers
  <2>. QED  BY <2>1, <2>2, <2>4 DEF RemovalInv
<1>. QED  BY <1>2, <1>3, <1>4

\* So does passing over some of the batch, if in a live run the user skips them
\* or they are comments.
LEMMA PassingKeepsRemovalInv ==
    ASSUME ApplyInv, RemovalInv, Applying, todo' \subseteq todo, skipped \subseteq skipped',
           Live => \A c \in todo \ todo' : c \in skipped' \/ c.tag = "Comment",
           UNCHANGED <<run, disk, stage, carried, blocked>>
    PROVE  RemovalInv'
<1>1. blocked' = {} /\ Current' = Current
  BY SameBatch DEF RemovalInv, Applying
<1>2. Gone'
  BY <1>1 DEF RemovalInv, Gone, OnlyRemovals
<1>3. Accounted'
  BY <1>1 DEF RemovalInv, Accounted, Live
<1>. QED  BY <1>1, <1>2, <1>3 DEF RemovalInv, RemovalBlockedByOthers

\* Every step preserves what is said of removals.
LEMMA RemovalPreserves ==
    ASSUME ApplyInv, RemovalInv, [ApplyNext]_applyVars
    PROVE  RemovalInv'
<1>. USE DEF history
<1>1. CASE UNCHANGED applyVars
  BY <1>1 DEF applyVars, RemovalInv, Gone, Accounted, RemovalBlockedByOthers, OnlyRemovals, Current,
              Batch, IsEarly, IsRemoved, Live
<1>2. CASE SkipComments
  <2>1. \A c \in Chunk : c.tag = "Comment"
    BY <1>2, OneKind DEF SkipComments, IsComment, ApplyInv
  <2>. QED  BY <1>2, <2>1, PassingKeepsRemovalInv DEF SkipComments, Settle
<1>3. CASE Applying /\ \E i \in Chunk : IsFirst(i) /\ (Succeed(i) \/ GetStuck(i) \/ BreakDown(i))
  BY <1>3, StartsKeepsRemovalInv
<1>4. CASE Applying /\ \E instrs \in SUBSET Chunk : Log(instrs)
  BY <1>4, PassingKeepsRemovalInv DEF Log, Settle
<1>5. CASE CarryOut
  <2>1. Chunk \in SUBSET Chunk /\ Applying
    BY <1>5 DEF CarryOut
  <2>. QED  BY <1>3, <1>4, <1>5, <2>1 DEF CarryOut
<1>6. CASE AcceptOne
  <2>1. Applying /\ \A i \in Chunk : {i} \in SUBSET Chunk
    BY <1>6 DEF AcceptOne, AsksFor
  <2>. QED  BY <1>3, <1>4, <1>6, <2>1 DEF AcceptOne
<1>7. CASE AcceptChunk \/ GoThroughChunk
  <2>1. Applying /\ UNCHANGED <<run, disk, stage, todo, carried, skipped, blocked>>
    BY <1>7 DEF AcceptChunk, GoThroughChunk, AsksFor
  <2>. QED  BY <2>1, PassingKeepsRemovalInv
<1>8. CASE SkipChunk \/ SkipOne
  <2>1. PICK instrs \in SUBSET Chunk : todo' = todo \ instrs /\ skipped' = skipped \cup instrs
    BY <1>8 DEF SkipChunk, SkipOne, Settle
  <2>. QED  BY <1>8, <2>1, PassingKeepsRemovalInv DEF SkipChunk, SkipOne, AsksFor
<1>9. CASE Abort \/ FailPackages
  <2>1. blocked' = {} /\ stage' = "failed"
    BY <1>9 DEF Abort, AsksFor, Applying, FailPackages, Stop, RemovalInv
  <2>. QED  BY <2>1 DEF RemovalInv, Gone, Accounted, RemovalBlockedByOthers
<1>10. CASE EndBatch
  <2>1. blocked' = {} /\ stage' \in {"packages", "done"}
    BY <1>10 DEF EndBatch, RemovalInv
  <2>. QED  BY <2>1 DEF RemovalInv, Gone, Accounted, RemovalBlockedByOthers
<1>11. CASE PassPackages \/ InstallPackages
  <2>1. /\ stage = "packages" /\ stage' = "late" /\ todo' = Batch(TRUE) /\ blocked' = {}
        /\ UNCHANGED <<run, carried, skipped>>
    BY <1>11 DEF PassPackages, InstallPackages, ToLateBatch, RemovalInv
  <2>2. Current' = Batch(TRUE) /\ Batch(TRUE)' = Batch(TRUE)
    BY <2>1 DEF Current, Batch, IsEarly
  <2>3. carried \cap Batch(TRUE) = {}
    BY <2>1, Batches DEF ApplyInv, BatchInv
  <2>4. Gone' /\ Accounted'
    BY <2>1, <2>2, <2>3 DEF Gone, Accounted
  <2>. QED  BY <2>1, <2>4 DEF RemovalInv, RemovalBlockedByOthers
<1>. QED
  BY <1>1, <1>2, <1>5, <1>6, <1>7, <1>8, <1>9, <1>10, <1>11 DEF ApplyNext

\* What is said of removals holds in every reachable state.
LEMMA RemovalInvariant == ApplySpec => []RemovalInv
<1>1. ApplyInit => RemovalInv
  BY DEF ApplyInit, RemovalInv, Gone, Accounted, RemovalBlockedByOthers, Current
<1>. QED  BY <1>1, ApplyInvariant, RemovalPreserves, PTL DEF ApplySpec

\* InProcessApplicator, "we remove contents before the directory they are
\* containers of": in every run, what a removal gets stuck on was not to be
\* removed, or is a matter of the other batch.
THEOREM StuckOnOthersOnly == ApplySpec => []RemovalBlockedByOthers
<1>1. RemovalInv => RemovalBlockedByOthers
  BY DEF RemovalInv
<1>. QED  BY <1>1, RemovalInvariant, PTL

-----------------------------------------------------------------------------
\* What may have become of the path q on the disk d.
Explained(d, q) ==
    \/ \E i \in run.instrs : i.path = q /\ i.tag # "Comment"
    \/ run.installs[q] # NoNode
    \/ /\ run.start[q] = NoNode /\ d[q] = NewInode("Directory", None, DEFAULT_DIR_MODE)
       /\ \E i \in run.instrs : NeedsParent(i) /\ q \in StrictAncestors(i.path)
    \/ /\ \E i \in run.instrs : q \in LinkedFrom(i.path)
       /\ d[q] # NoNode
       /\ run.start[q] # NoNode => d[q].kind = run.start[q].kind

\* A node at p that is a link is one of the known links.
LinkKnown(p, node) ==
    node # NoNode /\ node.kind = "Symlink" /\ node.data \in Path => node.data \in LinkedFrom(p)

Framed(d) ==
    /\ \A q \in Path : d[q] # run.start[q] => Explained(d, q)
    /\ \A p \in Path : LinkKnown(p, d[p])

-----------------------------------------------------------------------------
(* Changes to a disk *)

\* What may be put at p: something else where the plan or a package names p,
\* something of the same type where a link of the plan leads to p.
MayPut(d, p, node) ==
    \/ \E i \in run.instrs : i.path = p /\ i.tag # "Comment"
    \/ run.installs[p] # NoNode
    \/ /\ \E i \in run.instrs : p \in LinkedFrom(i.path)
       /\ node # NoNode
       /\ d[p] # NoNode => node.kind = d[p].kind

\* Putting there what may be put keeps a disk explained.
LEMMA OneNode ==
    ASSUME NEW d \in DiskState, Framed(d), NEW p \in Path, NEW node,
           MayPut(d, p, node), LinkKnown(p, node)
    PROVE  Framed([d EXCEPT ![p] = node])
<1>. DEFINE e == [d EXCEPT ![p] = node]
<1>1. /\ e[p] = node
      /\ \A q \in Path : q # p => e[q] = d[q]
  BY DEF DiskState
<1>2. \A q \in Path : LinkKnown(q, e[q])
  BY <1>1 DEF Framed
<1>3. ASSUME NEW q \in Path, e[q] # run.start[q] PROVE Explained(e, q)
  <2>1. CASE q # p
    <3>1. e[q] = d[q] /\ Explained(d, q)
      BY <1>1, <1>3, <2>1 DEF Framed
    <3>. QED  BY <3>1 DEF Explained
  <2>2. CASE q = p
    <3>1. CASE \/ \E i \in run.instrs : i.path = p /\ i.tag # "Comment"
               \/ run.installs[p] # NoNode
      BY <2>2, <3>1 DEF Explained
    <3>2. CASE /\ \E i \in run.instrs : p \in LinkedFrom(i.path)
               /\ node # NoNode
               /\ d[p] # NoNode => node.kind = d[p].kind
      <4>1. CASE d[p] = run.start[p]
        BY <1>1, <2>2, <3>2, <4>1 DEF Explained
      <4>2. CASE d[p] # run.start[p]
        <5>1. Explained(d, p)
          BY <4>2 DEF Framed
        <5>. QED  BY <1>1, <2>2, <3>2, <5>1 DEF Explained
      <4>. QED  BY <4>1, <4>2
    <3>. QED  BY <3>1, <3>2 DEF MayPut
  <2>. QED  BY <2>1, <2>2
<1>. QED  BY <1>2, <1>3 DEF Framed

\* Making the directories above a path of the plan, or up to one that is to be a
\* directory, keeps a disk explained.
LEMMA MadeDirs ==
    ASSUME NEW d \in DiskState, Framed(d), NEW i \in run.instrs, i.path \in Path,
           NeedsParent(i), NEW dirs \in SUBSET Ancestors[i.path]
    PROVE  Framed(MakeDirs(d, dirs).disk)
<1>. DEFINE new == NewInode("Directory", None, DEFAULT_DIR_MODE)
            e == [q \in Path |-> IF q \in dirs /\ d[q] = NoNode THEN new ELSE d[q]]
<1>1. MakeDirs(d, dirs).disk \in {d, e}
  BY DEF MakeDirs, Fail, Ok
<1>2. \A q \in Path : LinkKnown(q, e[q])
  <2>1. \A q : LinkKnown(q, new)
    BY DEF LinkKnown, NewInode
  <2>. QED  BY <2>1 DEF Framed
<1>3. ASSUME NEW q \in Path, e[q] # run.start[q] PROVE Explained(e, q)
  <2>1. CASE ~(q \in dirs /\ d[q] = NoNode)
    <3>1. e[q] = d[q] /\ Explained(d, q)
      BY <1>3, <2>1 DEF Framed
    <3>. QED  BY <3>1 DEF Explained
  <2>2. CASE q \in dirs /\ d[q] = NoNode
    <3>1. e[q] = new /\ q \in Ancestors[i.path]
      BY <2>2
    <3>2. CASE run.start[q] # NoNode
      <4>1. Explained(d, q)
        BY <2>2, <3>2 DEF Framed
      <4>2. new # NoNode => d[q] # new
        BY <2>2
      <4>. QED  BY <2>2, <3>2, <4>1 DEF Explained
    <3>3. CASE run.start[q] = NoNode
      <4>1. CASE q = i.path
        BY <4>1 DEF Explained, NeedsParent
      <4>2. CASE q # i.path
        <5>1. q \in StrictAncestors(i.path)
          BY <3>1, <4>2 DEF StrictAncestors
        <5>. QED  BY <3>1, <3>3, <5>1 DEF Explained
      <4>. QED  BY <4>1, <4>2
    <3>. QED  BY <3>2, <3>3
  <2>. QED  BY <2>1, <2>2
<1>4. Framed(e)
  BY <1>2, <1>3 DEF Framed
<1>. QED  BY <1>1, <1>4

\* A call that follows links from a path of the plan may put there what it puts
\* where it ends up, as long as the type stays.
LEMMA FollowedLink ==
    ASSUME NEW d \in DiskState, Framed(d), NEW i \in run.instrs, i.path \in Path,
           i.tag # "Comment", Resolve(d, i.path) # None, NEW node, node # NoNode,
           d[Resolve(d, i.path)] # NoNode => node.kind = d[Resolve(d, i.path)].kind
    PROVE  MayPut(d, Resolve(d, i.path), node)
<1>. DEFINE q == Resolve(d, i.path)
<1>1. CASE q = i.path
  BY <1>1 DEF MayPut
<1>2. CASE q # i.path
  <2>1. d[i.path] # NoNode /\ d[i.path].kind = "Symlink" /\ d[i.path].data = q /\ q \in Path
    BY <1>2 DEF Resolve
  <2>2. q \in LinkedFrom(i.path)
    BY <2>1 DEF Framed, LinkKnown
  <2>. QED  BY <2>2 DEF MayPut
<1>. QED  BY <1>1, <1>2

\* Where such a call ends up, there is no link.
LEMMA ResolvedIsNoLink ==
    ASSUME NEW d \in DiskState, NEW p \in Path, Resolve(d, p) # None
    PROVE  d[Resolve(d, p)] = NoNode \/ d[Resolve(d, p)].kind # "Symlink"
  BY DEF Resolve

-----------------------------------------------------------------------------
(* Calls *)

\* Writing to a path of the plan keeps a disk explained.
LEMMA WriteFileFramed ==
    ASSUME NEW d \in DiskState, Framed(d), NEW i \in run.instrs, i.path \in Path,
           i.tag # "Comment", NEW c \in Contents
    PROVE  Framed(WriteFile(d, i.path, c).disk)
<1>. DEFINE q == Resolve(d, i.path)
<1>1. Fail(d).disk = d /\ \A e : Ok(e).disk = e
  BY DEF Fail, Ok
<1>2. CASE q = None
  BY <1>1, <1>2 DEF WriteFile
<1>3. CASE q # None /\ d[q] = NoNode
  <2>. DEFINE node == NewInode("File", c, DEFAULT_FILE_MODE)
  <2>1. q \in Path /\ node \in Inode
    BY <1>3, ResolveType, NewInodes, ValueAssumption
  <2>2. node # NoNode /\ node.kind = "File"
    BY <2>1, InodeAssumption DEF NewInode
  <2>3. MayPut(d, q, node)
    BY <1>3, <2>2, FollowedLink
  <2>4. Framed([d EXCEPT ![q] = node])
    BY <2>1, <2>2, <2>3, OneNode DEF LinkKnown
  <2>. QED  BY <1>1, <1>3, <2>4 DEF WriteFile
<1>4. CASE q # None /\ d[q] # NoNode
  <2>1. q \in Path /\ d[q] \in Inode
    BY <1>4, ResolveType DEF DiskState
  <2>2. CASE d[q].kind = "File"
    <3>. DEFINE node == [d[q] EXCEPT !.data = c]
    <3>1. WriteFile(d, i.path, c).disk = [d EXCEPT ![q] = node]
      BY <1>1, <1>4, <2>1, <2>2 DEF WriteFile, DiskState
    <3>2. node \in Inode /\ node.kind = "File"
      BY <2>1, <2>2, ChangedInodes DEF Inode
    <3>3. MayPut(d, q, node)
      BY <1>4, <2>2, <3>2, InodeAssumption, FollowedLink
    <3>4. LinkKnown(q, node)
      BY <3>2 DEF LinkKnown
    <3>5. Framed([d EXCEPT ![q] = node])
      BY <2>1, <3>3, <3>4, OneNode
    <3>. QED  BY <3>1, <3>5
  <2>3. CASE d[q].kind # "File"
    BY <1>1, <1>4, <2>3 DEF WriteFile
  <2>. QED  BY <2>2, <2>3
<1>. QED  BY <1>2, <1>3, <1>4

\* Changing the metadata of a path of the plan keeps a disk explained.
LEMMA MetadataCallsFramed ==
    ASSUME NEW d \in DiskState, Framed(d), NEW i \in run.instrs, i.path \in Path,
           i.tag # "Comment"
    PROVE  /\ \A m \in Mode : Framed(Chmod(d, i.path, m).disk)
           /\ \A n \in Name : Framed(ChownUser(d, i.path, n).disk)
           /\ \A n \in Name : Framed(ChownGroup(d, i.path, n).disk)
<1>. DEFINE q == Resolve(d, i.path)
<1>1. Fail(d).disk = d /\ \A e : Ok(e).disk = e
  BY DEF Fail, Ok
<1>2. CASE q = None \/ d[q] = NoNode
  BY <1>1, <1>2 DEF Chmod, ChownUser, ChownGroup
<1>3. CASE q # None /\ d[q] # NoNode
  <2>1. q \in Path /\ d[q] \in Inode
    BY <1>3, ResolveType DEF DiskState
  <2>2. d[q].kind # "Symlink"
    BY <1>3, ResolvedIsNoLink
  <2>3. ASSUME NEW node \in Inode, node.kind = d[q].kind PROVE Framed([d EXCEPT ![q] = node])
    <3>1. LinkKnown(q, node)
      BY <2>2, <2>3 DEF LinkKnown
    <3>2. MayPut(d, q, node)
      BY <1>3, <2>3, InodeAssumption, FollowedLink
    <3>. QED  BY <2>1, <3>1, <3>2, OneNode
  <2>4. Chowned(d[q]) \in Inode /\ Chowned(d[q]).kind = d[q].kind
    BY <2>1, ChangedInodes DEF Chowned, Inode
  <2>5. ASSUME NEW m \in Mode PROVE Framed(Chmod(d, i.path, m).disk)
    <3>1. Chmod(d, i.path, m).disk = [d EXCEPT ![q] = [d[q] EXCEPT !.mode = m]]
      BY <1>1, <1>3, <2>1 DEF Chmod, DiskState
    <3>2. [d[q] EXCEPT !.mode = m] \in Inode /\ [d[q] EXCEPT !.mode = m].kind = d[q].kind
      BY <2>1, ChangedInodes DEF Inode
    <3>. QED  BY <2>3, <3>1, <3>2
  <2>6. ASSUME NEW n \in Name PROVE Framed(ChownUser(d, i.path, n).disk)
    <3>. DEFINE node == [Chowned(d[q]) EXCEPT !.owner = n]
    <3>1. ChownUser(d, i.path, n).disk = [d EXCEPT ![q] = node]
      BY <1>1, <1>3, <2>1 DEF ChownUser, DiskState
    <3>2. node \in Inode /\ node.kind = d[q].kind
      BY <2>4, ChangedInodes DEF Inode
    <3>. QED  BY <2>3, <3>1, <3>2
  <2>7. ASSUME NEW n \in Name PROVE Framed(ChownGroup(d, i.path, n).disk)
    <3>. DEFINE node == [Chowned(d[q]) EXCEPT !.group = n]
    <3>1. ChownGroup(d, i.path, n).disk = [d EXCEPT ![q] = node]
      BY <1>1, <1>3, <2>1 DEF ChownGroup, DiskState
    <3>2. node \in Inode /\ node.kind = d[q].kind
      BY <2>4, ChangedInodes DEF Inode
    <3>. QED  BY <2>3, <3>1, <3>2
  <2>. QED  BY <2>5, <2>6, <2>7
<1>. QED  BY <1>2, <1>3

\* Removing a path of the plan, and making a node or a link there, keep a disk
\* explained.
LEMMA OtherCallsFramed ==
    ASSUME NEW d \in DiskState, Framed(d), NEW i \in run.instrs, i.path \in Path,
           i.tag # "Comment"
    PROVE  /\ Framed([d EXCEPT ![i.path] = NoNode])
           /\ Framed(Unlink(d, i.path).disk)
           /\ \A x \in Inode : x.kind # "Symlink" => Framed(MakeNode(d, i.path, x).disk)
           /\ i = Instr(i.path, "CreateSymlink", i.arg) => Framed(PutSymlink(d, i.path, i.arg).disk)
<1>1. Fail(d).disk = d /\ \A e : Ok(e).disk = e
  BY DEF Fail, Ok
<1>2. \A node : MayPut(d, i.path, node)
  BY DEF MayPut
<1>3. Framed([d EXCEPT ![i.path] = NoNode])
  BY <1>2, OneNode DEF LinkKnown
<1>4. Framed(Unlink(d, i.path).disk)
  BY <1>1, <1>3 DEF Unlink
<1>5. ASSUME NEW x \in Inode, x.kind # "Symlink" PROVE Framed(MakeNode(d, i.path, x).disk)
  <2>1. Framed([d EXCEPT ![i.path] = x])
    BY <1>2, <1>5, OneNode DEF LinkKnown
  <2>. QED  BY <1>1, <2>1 DEF MakeNode
<1>6. ASSUME i = Instr(i.path, "CreateSymlink", i.arg)
      PROVE  Framed(PutSymlink(d, i.path, i.arg).disk)
  <2>. DEFINE link == NewInode("Symlink", i.arg, LINK_MODE)
  <2>1. link.data = i.arg
    BY DEF NewInode
  <2>2. LinkKnown(i.path, link)
    BY <1>6, <2>1 DEF LinkKnown, LinkedFrom
  <2>3. Framed([d EXCEPT ![i.path] = link])
    BY <1>2, <2>2, OneNode
  <2>. QED  BY <1>1, <2>3 DEF PutSymlink
<1>. QED  BY <1>3, <1>4, <1>5, <1>6

\* Carrying out an instruction of the plan keeps a disk explained.
LEMMA PerformFramed ==
    ASSUME NEW d \in DiskState, Framed(d), NEW i \in run.instrs, i \in FsInstruction,
           NEW original \in Contents \cup {None}
    PROVE  /\ Framed(Parents(d, i).disk)
           /\ Framed(Perform(d, i, original).disk)
<1>1. i.path \in Path /\ Ancestors[i.path] \in SUBSET Path
  BY Operands, PathAssumption
<1>2. \A e : Ok(e).disk = e /\ Fail(e).disk = e
  BY DEF Ok, Fail
<1>3. Framed(Parents(d, i).disk)
  <2>1. StrictAncestors(i.path) \in SUBSET Ancestors[i.path]
    BY DEF StrictAncestors
  <2>. QED  BY <1>1, <1>2, <2>1, MadeDirs DEF Parents
<1>4. ASSUME NEW e \in DiskState, Framed(e) PROVE Framed(Operate(e, i, original).disk)
  <2>1. CASE i.tag = "Remove"
    BY <1>1, <1>4, <2>1, OtherCallsFramed DEF Operate, RemoveAny
  <2>2. CASE i.tag = "CreateDirectory"
    <3>1. NeedsParent(i)
      BY <2>2 DEF NeedsParent
    <3>. QED  BY <1>1, <1>4, <2>2, <3>1, MadeDirs DEF Operate
  <2>3. CASE i.tag = "CreateFile"
    BY <1>1, <1>4, <2>3, Operands, WriteFileFramed DEF Operate
  <2>4. CASE i.tag = "CreateSymlink"
    <3>1. i = Instr(i.path, "CreateSymlink", i.arg)
      BY <2>4 DEF FsInstruction, Instr
    <3>. QED  BY <1>1, <1>4, <2>4, <3>1, OtherCallsFramed DEF Operate
  <2>5. CASE i.tag \in {"CreateFifo", "CreateBlockDevice", "CreateCharDevice"}
    <3>. DEFINE x == IF i.tag = "CreateFifo" THEN NewInode("Fifo", None, ZERO_MODE)
                     ELSE IF i.tag = "CreateBlockDevice"
                          THEN NewInode("BlockDevice", i.arg, ZERO_MODE)
                     ELSE NewInode("CharDevice", i.arg, ZERO_MODE)
    <3>1. x \in Inode
      BY <2>5, Operands, NewInodes, ModeAssumption
    <3>2. x.kind # "Symlink"
      BY DEF NewInode
    <3>3. Operate(e, i, original) = MakeNode(e, i.path, x)
      BY <2>5 DEF Operate
    <3>. QED  BY <1>1, <1>4, <2>5, <3>1, <3>2, <3>3, OtherCallsFramed
  <2>6. CASE i.tag = "SetMode"
    BY <1>1, <1>4, <2>6, Operands, MetadataCallsFramed DEF Operate
  <2>7. CASE i.tag = "SetOwner"
    BY <1>1, <1>4, <2>7, Operands, MetadataCallsFramed DEF Operate
  <2>8. CASE i.tag = "SetGroup"
    BY <1>1, <1>4, <2>8, Operands, MetadataCallsFramed DEF Operate
  <2>9. CASE i.tag = "Restore"
    BY <1>1, <1>2, <1>4, <2>9, WriteFileFramed DEF Operate, RestoreFile
  <2>10. CASE i.tag = "Comment"
    BY <1>2, <1>4, <2>10 DEF Operate
  <2>. QED
    BY <2>1, <2>2, <2>3, <2>4, <2>5, <2>6, <2>7, <2>8, <2>9, <2>10, Operands
       DEF Tags, TagRank
<1>5. Framed(Perform(d, i, original).disk)
  <2>1. Parents(d, i).disk \in DiskState
    BY PerformTyped
  <2>. QED  BY <1>3, <1>4, <2>1 DEF Perform
<1>. QED  BY <1>3, <1>5

\* So does cutting it short.
LEMMA InterruptedFramed ==
    ASSUME NEW d \in DiskState, Framed(d), NEW i \in run.instrs, i \in FsInstruction,
           NEW e \in Interrupted(d, i)
    PROVE  Framed(e)
<1>. DEFINE made == Parents(d, i)
<1>1. made.disk \in DiskState /\ i.path \in Path /\ Framed(made.disk)
  BY PerformTyped, PerformFramed, Operands
<1>2. CASE e \in {d, made.disk}
  BY <1>1, <1>2
<1>3. CASE i.tag = "CreateSymlink" /\ e = [made.disk EXCEPT ![i.path] = NoNode]
  BY <1>1, <1>3, OtherCallsFramed
<1>4. CASE i.tag \in {"CreateFile", "Restore"} /\ e = WriteFile(made.disk, i.path, EMPTY).disk
  BY <1>1, <1>4, RunAssumption, WriteFileFramed
<1>. QED  BY <1>2, <1>3, <1>4 DEF Interrupted

-----------------------------------------------------------------------------
(* Steps *)

\* The disk before is explained.
LEMMA InitFramed ==
    ASSUME ApplyInit
    PROVE  Framed(disk)
<1>1. disk = run.start
  BY DEF ApplyInit
<1>2. \A p \in Path : LinkKnown(p, run.start[p])
  BY DEF LinkKnown, LinkedFrom
<1>. QED  BY <1>1, <1>2 DEF Framed

\* An instruction that is started, and however it ends, keeps the disk explained.
LEMMA AttemptFramed ==
    ASSUME ApplyTypeOK, Framed(disk), NEW i \in todo, Succeed(i) \/ GetStuck(i) \/ BreakDown(i)
    PROVE  Framed(disk')
<1>1. i \in run.instrs /\ i \in FsInstruction /\ disk \in DiskState
  BY DEF ApplyTypeOK, RunType
<1>2. run.originals[i.path] \in Contents \cup {None}
  BY <1>1, Operands DEF ApplyTypeOK, RunType
<1>3. CASE Succeed(i) \/ GetStuck(i)
  <2>1. disk' = Perform(disk, i, run.originals[i.path]).disk
    BY <1>3 DEF Succeed, GetStuck
  <2>. QED  BY <1>1, <1>2, <2>1, PerformFramed
<1>4. CASE BreakDown(i)
  <2>1. disk' \in Interrupted(disk, i)
    BY <1>4 DEF BreakDown
  <2>. QED  BY <1>1, <2>1, InterruptedFramed
<1>. QED  BY <1>3, <1>4

\* Installing packages keeps the disk explained.
LEMMA InstallFramed ==
    ASSUME ApplyTypeOK, Framed(disk), InstallPackages
    PROVE  Framed(disk')
<1>1. disk' = [p \in Path |-> IF disk[p] = NoNode THEN run.installs[p] ELSE disk[p]]
  BY DEF InstallPackages
<1>2. ASSUME NEW q \in Path, disk'[q] # run.start[q] PROVE Explained(disk', q)
  <2>1. CASE run.installs[q] # NoNode
    BY <2>1 DEF Explained
  <2>2. CASE run.installs[q] = NoNode
    <3>1. disk'[q] = disk[q]
      BY <1>1, <2>2
    <3>2. Explained(disk, q)
      BY <1>2, <3>1 DEF Framed
    <3>. QED  BY <3>1, <3>2 DEF Explained
  <2>. QED  BY <2>1, <2>2
<1>3. ASSUME NEW p \in Path PROVE LinkKnown(p, disk'[p])
  <2>1. LinkKnown(p, run.installs[p])
    BY DEF LinkKnown, LinkedFrom
  <2>2. LinkKnown(p, disk[p])
    BY DEF Framed
  <2>. QED  BY <1>1, <2>1, <2>2
<1>. QED  BY <1>2, <1>3 DEF Framed

\* Every step keeps the disk explained, by the same run.
LEMMA NextFramed ==
    ASSUME ApplyInv, Framed(disk), [ApplyNext]_applyVars
    PROVE  Framed(disk)'
<1>1. ApplyTypeOK /\ run' = run
  BY DEF ApplyInv, ApplyNext, applyVars, SkipComments, CarryOut, Succeed, GetStuck, BreakDown, Log, AcceptChunk,
         GoThroughChunk, SkipChunk, AcceptOne, SkipOne, Abort, EndBatch, PassPackages,
         InstallPackages, FailPackages, ToLateBatch
<1>2. Framed(disk') => Framed(disk)'
  BY <1>1 DEF Framed, Explained, LinkKnown, LinkedFrom
<1>3. CASE disk' = disk
  BY <1>2, <1>3
<1>4. CASE \E i \in todo : Succeed(i) \/ GetStuck(i) \/ BreakDown(i)
  BY <1>1, <1>2, <1>4, AttemptFramed
<1>5. CASE InstallPackages
  BY <1>1, <1>2, <1>5, InstallFramed
<1>6. \/ disk' = disk
      \/ \E i \in todo : Succeed(i) \/ GetStuck(i) \/ BreakDown(i)
      \/ InstallPackages
  BY DEF ApplyNext, applyVars, SkipComments, CarryOut, Log, AcceptChunk, GoThroughChunk, SkipChunk, AcceptOne,
         SkipOne, Abort, EndBatch, PassPackages, FailPackages, Chunk
<1>. QED  BY <1>3, <1>4, <1>5, <1>6

\* apply_files and the applicators: at every moment of every invocation, also
\* after a call failed or the process was killed, what the plan and the packages do
\* not name is as it was: ignored files below a removed directory, say, or the
\* target of a link that is replaced.
THEOREM LeavesTheRest == ApplySpec => []UntouchedElsewhere
<1>1. ApplyInit => Framed(disk)
  BY InitFramed
<1>2. ApplyInv /\ Framed(disk) /\ [ApplyNext]_applyVars => Framed(disk)'
  BY NextFramed
<1>3. Framed(disk) => UntouchedElsewhere
  BY DEF Framed, Explained, UntouchedElsewhere
<1>. QED  BY <1>1, <1>2, <1>3, ApplyInvariant, PTL DEF ApplySpec

-----------------------------------------------------------------------------
(* What an instruction achieves *)

\* Achieved, on the disk d, and what is to have some metadata exists.
Holds(d, i) ==
    LET p == i.path IN
    CASE i.tag = "Remove" ->
            \/ d[p] = NoNode
            \/ \E j \in run.instrs :
                  NeedsParent(j) /\ (p \in Ancestors[j.path] \/ p \in LinkedFrom(j.path))
            \/ \E q \in Path : p \in Ancestors[q] /\ run.installs[q] # NoNode
      [] i.tag = "CreateDirectory" -> IsDir(d, p)
      [] i.tag = "CreateFile" ->
            Plain(p) => d[p] # NoNode /\ d[p].kind = "File" /\ d[p].data = i.arg
      [] i.tag = "Restore" ->
            Plain(p) => d[p] # NoNode /\ d[p].kind = "File" /\ d[p].data = run.originals[p]
      [] i.tag = "CreateSymlink" ->
            d[p] # NoNode /\ d[p].kind = "Symlink" /\ d[p].data = i.arg
      [] i.tag = "CreateFifo"        -> d[p] # NoNode /\ d[p].kind = "Fifo"
      [] i.tag = "CreateBlockDevice" -> d[p] # NoNode /\ d[p].kind = "BlockDevice"
      [] i.tag = "CreateCharDevice"  -> d[p] # NoNode /\ d[p].kind = "CharDevice"
      [] i.tag = "SetMode"  -> (Plain(p) /\ ~LosesSetid(i)) => d[p] # NoNode /\ d[p].mode = i.arg
      [] i.tag = "SetOwner" -> Plain(p) => d[p] # NoNode /\ d[p].owner = i.arg
      [] i.tag = "SetGroup" -> Plain(p) => d[p] # NoNode /\ d[p].group = i.arg
      [] i.tag = "Comment"  -> TRUE

\* Where a call that follows links from a path of the plan ends up.
LEMMA WhereLinksLead ==
    ASSUME NEW d \in DiskState, Framed(d), NEW p \in Path, Resolve(d, p) # None
    PROVE  /\ Resolve(d, p) \in Path
           /\ d[Resolve(d, p)] = NoNode \/ d[Resolve(d, p)].kind # "Symlink"
           /\ Resolve(d, p) # p => Resolve(d, p) \in LinkedFrom(p)
           /\ Plain(p) => Resolve(d, p) = p
<1>. DEFINE q == Resolve(d, p)
<1>1. q \in Path /\ (d[q] = NoNode \/ d[q].kind # "Symlink")
  BY ResolveType, ResolvedIsNoLink
<1>2. ASSUME q # p PROVE q \in LinkedFrom(p)
  <2>1. d[p] # NoNode /\ d[p].kind = "Symlink" /\ d[p].data = q /\ q \in Path
    BY <1>2 DEF Resolve
  <2>. QED  BY <2>1 DEF Framed, LinkKnown
<1>3. Plain(p) => q = p
  BY <1>2 DEF Plain
<1>. QED  BY <1>1, <1>2, <1>3

\* Writing a file.
LEMMA Written ==
    ASSUME NEW d \in DiskState, NEW p \in Path, NEW c \in Contents,
           WriteFile(d, p, c).ok
    PROVE  LET q == Resolve(d, p)
               e == WriteFile(d, p, c).disk
           IN /\ q \in Path /\ q # None
              /\ \A r \in Path \ {q} : e[r] = d[r]
              /\ e[q] # NoNode /\ e[q].kind = "File" /\ e[q].data = c
              /\ d[q] # NoNode => d[q].kind = "File"
<1>. DEFINE q == Resolve(d, p)
            e == WriteFile(d, p, c).disk
<1>1. q \in Path /\ q # None
  BY ResolveType DEF WriteFile, Fail
<1>2. ~Fail(d).ok /\ \A x : Ok(x).disk = x
  BY DEF Fail, Ok
<1>3. CASE d[q] = NoNode
  <2>1. e = [d EXCEPT ![q] = NewInode("File", c, DEFAULT_FILE_MODE)]
    BY <1>2, <1>3 DEF WriteFile
  <2>2. NewInode("File", c, DEFAULT_FILE_MODE) # NoNode
    BY NewInodes, ValueAssumption, InodeAssumption
  <2>. QED  BY <1>1, <1>3, <2>1, <2>2 DEF DiskState, NewInode
<1>4. CASE d[q] # NoNode
  <2>1. d[q].kind = "File" /\ e = [d EXCEPT ![q].data = c]
    BY <1>2, <1>4 DEF WriteFile
  <2>2. e[q] = [d[q] EXCEPT !.data = c] /\ d[q] \in Inode
    BY <1>1, <1>4, <2>1 DEF DiskState
  <2>3. e[q] # NoNode /\ e[q].kind = "File" /\ e[q].data = c
    BY <2>1, <2>2, ChangedInodes, InodeAssumption DEF Inode
  <2>. QED  BY <1>1, <2>1, <2>3 DEF DiskState
<1>. QED  BY <1>3, <1>4

\* A change of metadata: of the three fields those that are not meant stay, but
\* for the set-ID bits, and so do the type and the contents.
MetaOnly(i, x, y) ==
    /\ x # NoNode /\ y # NoNode /\ y.kind = x.kind /\ y.data = x.data
    /\ i.tag = "SetMode"  => y.mode = i.arg /\ y.owner = x.owner /\ y.group = x.group
    /\ i.tag = "SetOwner" => /\ y.mode \in {x.mode, WithoutSetid[x.mode]}
                             /\ y.owner = i.arg /\ y.group = x.group
    /\ i.tag = "SetGroup" => /\ y.mode \in {x.mode, WithoutSetid[x.mode]}
                             /\ y.owner = x.owner /\ y.group = i.arg

\* Changing metadata.
LEMMA MetadataChanged ==
    ASSUME NEW d \in DiskState, NEW i \in FsInstruction, i.tag \in MetaTags,
           NEW original, Operate(d, i, original).ok
    PROVE  LET q == Resolve(d, i.path)
               e == Operate(d, i, original).disk
           IN /\ q \in Path /\ q # None
              /\ \A r \in Path \ {q} : e[r] = d[r]
              /\ MetaOnly(i, d[q], e[q])
<1>. DEFINE q == Resolve(d, i.path)
            e == Operate(d, i, original).disk
<1>1. i.path \in Path
  BY Operands
<1>2. ~Fail(d).ok /\ \A x : Ok(x).disk = x
  BY DEF Fail, Ok
<1>3. q \in Path /\ q # None /\ d[q] # NoNode
  BY <1>1, <1>2, ResolveType DEF Operate, MetaTags, Chmod, ChownUser, ChownGroup
<1>4. d[q] \in Inode
  BY <1>3 DEF DiskState
<1>5. CASE i.tag = "SetMode"
  <2>. DEFINE y == [d[q] EXCEPT !.mode = i.arg]
  <2>1. e = [d EXCEPT ![q] = y]
    BY <1>2, <1>3, <1>5 DEF Operate, Chmod, DiskState
  <2>2. y \in Inode /\ e[q] = y /\ \A r \in Path \ {q} : e[r] = d[r]
    BY <1>3, <1>4, <1>5, <2>1, Operands, ChangedInodes DEF DiskState
  <2>3. MetaOnly(i, d[q], y)
    BY <1>3, <1>4, <1>5, <2>2, InodeAssumption DEF MetaOnly, Inode
  <2>. QED  BY <1>3, <2>2, <2>3
<1>6. CASE i.tag = "SetOwner"
  <2>. DEFINE y == [Chowned(d[q]) EXCEPT !.owner = i.arg]
  <2>1. e = [d EXCEPT ![q] = y]
    BY <1>2, <1>3, <1>6 DEF Operate, ChownUser, DiskState
  <2>2. y \in Inode /\ e[q] = y /\ \A r \in Path \ {q} : e[r] = d[r]
    BY <1>3, <1>4, <1>6, <2>1, Operands, ChangedInodes DEF DiskState
  <2>3. MetaOnly(i, d[q], y)
    BY <1>3, <1>4, <1>6, <2>2, InodeAssumption DEF MetaOnly, Inode, Chowned
  <2>. QED  BY <1>3, <2>2, <2>3
<1>7. CASE i.tag = "SetGroup"
  <2>. DEFINE y == [Chowned(d[q]) EXCEPT !.group = i.arg]
  <2>1. e = [d EXCEPT ![q] = y]
    BY <1>2, <1>3, <1>7 DEF Operate, ChownGroup, DiskState
  <2>2. y \in Inode /\ e[q] = y /\ \A r \in Path \ {q} : e[r] = d[r]
    BY <1>3, <1>4, <1>7, <2>1, Operands, ChangedInodes DEF DiskState
  <2>3. MetaOnly(i, d[q], y)
    BY <1>3, <1>4, <1>7, <2>2, InodeAssumption DEF MetaOnly, Inode, Chowned
  <2>. QED  BY <1>3, <2>2, <2>3
<1>. QED  BY <1>5, <1>6, <1>7 DEF MetaTags

\* Making directories.
LEMMA DirsMade ==
    ASSUME NEW d \in DiskState, NEW dirs \in SUBSET Path, MakeDirs(d, dirs).ok, NEW p \in Path
    PROVE  LET e == MakeDirs(d, dirs).disk
           IN /\ p \in dirs => IsDir(e, p)
              /\ e[p] # d[p] => d[p] = NoNode /\ p \in dirs
<1>. DEFINE new == NewInode("Directory", None, DEFAULT_DIR_MODE)
            e == MakeDirs(d, dirs).disk
<1>1. /\ ~\E a \in dirs : d[a] # NoNode /\ ~IsDir(d, a)
      /\ e = [q \in Path |-> IF q \in dirs /\ d[q] = NoNode THEN new ELSE d[q]]
  BY DEF MakeDirs, Fail, Ok
<1>2. new # NoNode /\ new.kind = "Directory"
  BY NewInodes, ValueAssumption, InodeAssumption DEF NewInode
<1>. QED  BY <1>1, <1>2 DEF IsDir

\* What a successful instruction i may turn the node x at p into: at its own path
\* anything, or metadata alone; above it a new directory; at the end of a link
\* what was nothing, or keeps its type.
MayTurn(i, p, x, y) ==
    \/ y = x
    \/ p = i.path /\ i.tag \in MakerTags \cup {"Remove"}
    \/ p = i.path /\ i.tag \in MetaTags /\ MetaOnly(i, x, y)
    \/ NeedsParent(i) /\ p \in Ancestors[i.path] /\ x = NoNode
    \/ /\ NeedsParent(i) /\ p \in LinkedFrom(i.path)
       /\ x # NoNode => x.kind # "Symlink" /\ y # NoNode /\ y.kind = x.kind

\* What an operation changes, and that it achieves what it is for.
LEMMA OperationEffect ==
    ASSUME NEW d \in DiskState, Framed(d), NEW i \in run.instrs, i \in FsInstruction,
           NEW original \in Contents \cup {None}, original = run.originals[i.path],
           Operate(d, i, original).ok
    PROVE  LET e == Operate(d, i, original).disk
           IN /\ Holds(e, i)
              /\ \A p \in Path : MayTurn(i, p, d[p], e[p])
<1>. DEFINE here == i.path
            e == Operate(d, i, original).disk
<1>1. here \in Path /\ Ancestors[here] \in SUBSET Path /\ here \in Ancestors[here]
  BY Operands, PathAssumption
<1>2. \A x : ~Fail(x).ok /\ Ok(x).disk = x
  BY DEF Fail, Ok
<1>3. CASE i.tag = "Remove"
  <2>1. e = [d EXCEPT ![here] = NoNode]
    BY <1>2, <1>3 DEF Operate, RemoveAny, Unlink
  <2>2. e[here] = NoNode /\ \A p \in Path \ {here} : e[p] = d[p]
    BY <1>1, <2>1 DEF DiskState
  <2>. QED  BY <1>3, <2>2 DEF Holds, MayTurn
<1>4. CASE i.tag = "CreateDirectory"
  <2>1. Operate(d, i, original) = MakeDirs(d, Ancestors[here]) /\ NeedsParent(i)
    BY <1>4 DEF Operate, NeedsParent
  <2>2. IsDir(e, here) /\ \A p \in Path : e[p] # d[p] => d[p] = NoNode /\ p \in Ancestors[here]
    BY <1>1, <2>1, DirsMade
  <2>. QED  BY <1>4, <2>1, <2>2 DEF Holds, MayTurn
<1>5. CASE i.tag \in {"CreateFile", "Restore"}
  <2>. DEFINE q == Resolve(d, here)
              c == IF i.tag = "CreateFile" THEN i.arg ELSE original
  <2>1. Operate(d, i, original) = WriteFile(d, here, c) /\ c \in Contents /\ NeedsParent(i)
    BY <1>2, <1>5, Operands DEF Operate, RestoreFile, NeedsParent
  <2>2. /\ q \in Path /\ q # None /\ \A r \in Path \ {q} : e[r] = d[r]
        /\ e[q] # NoNode /\ e[q].kind = "File" /\ e[q].data = c
        /\ d[q] # NoNode => d[q].kind = "File"
    BY <1>1, <2>1, Written
  <2>3. (q # here => q \in LinkedFrom(here)) /\ (Plain(here) => q = here)
    BY <1>1, <2>2, WhereLinksLead
  <2>4. Holds(e, i)
    BY <1>5, <2>2, <2>3 DEF Holds
  <2>5. ASSUME NEW p \in Path PROVE MayTurn(i, p, d[p], e[p])
    BY <1>5, <2>1, <2>2, <2>3 DEF MayTurn, MakerTags, CreateTags
  <2>. QED  BY <2>4, <2>5
<1>6. CASE i.tag \in {"CreateSymlink", "CreateFifo", "CreateBlockDevice", "CreateCharDevice"}
  <2>. DEFINE x == CASE i.tag = "CreateSymlink" -> NewInode("Symlink", i.arg, LINK_MODE)
                     [] i.tag = "CreateFifo" -> NewInode("Fifo", None, ZERO_MODE)
                     [] i.tag = "CreateBlockDevice" -> NewInode("BlockDevice", i.arg, ZERO_MODE)
                     [] i.tag = "CreateCharDevice" -> NewInode("CharDevice", i.arg, ZERO_MODE)
  <2>1. x # NoNode
    BY <1>6, Operands, NewInodes, ModeAssumption, InodeAssumption
  <2>2. e = [d EXCEPT ![here] = x]
    BY <1>2, <1>6 DEF Operate, PutSymlink, MakeNode
  <2>3. e[here] = x /\ \A p \in Path \ {here} : e[p] = d[p]
    BY <1>1, <2>2 DEF DiskState
  <2>4. Holds(e, i)
    <3>1. CASE i.tag = "CreateSymlink"
      <4>1. x = NewInode("Symlink", i.arg, LINK_MODE)
        BY <3>1
      <4>. QED  BY <2>1, <2>3, <3>1, <4>1 DEF Holds, NewInode
    <3>2. CASE i.tag = "CreateFifo"
      <4>1. x = NewInode("Fifo", None, ZERO_MODE)
        BY <3>2
      <4>. QED  BY <2>1, <2>3, <3>2, <4>1 DEF Holds, NewInode
    <3>3. CASE i.tag = "CreateBlockDevice"
      <4>1. x = NewInode("BlockDevice", i.arg, ZERO_MODE)
        BY <3>3
      <4>. QED  BY <2>1, <2>3, <3>3, <4>1 DEF Holds, NewInode
    <3>4. CASE i.tag = "CreateCharDevice"
      <4>1. x = NewInode("CharDevice", i.arg, ZERO_MODE)
        BY <3>4
      <4>. QED  BY <2>1, <2>3, <3>4, <4>1 DEF Holds, NewInode
    <3>. QED  BY <1>6, <3>1, <3>2, <3>3, <3>4
  <2>. QED  BY <1>6, <2>3, <2>4 DEF MayTurn, MakerTags, CreateTags
<1>7. CASE i.tag \in MetaTags
  <2>. DEFINE q == Resolve(d, here)
  <2>1. /\ q \in Path /\ q # None /\ \A r \in Path \ {q} : e[r] = d[r]
        /\ MetaOnly(i, d[q], e[q])
    BY <1>7, MetadataChanged
  <2>2. /\ q # here => q \in LinkedFrom(here)
        /\ Plain(here) => q = here
        /\ d[q] = NoNode \/ d[q].kind # "Symlink"
    BY <1>1, <2>1, WhereLinksLead
  <2>3. NeedsParent(i)
    BY <1>7 DEF NeedsParent, MetaTags
  <2>4. Holds(e, i)
    BY <1>7, <2>1, <2>2 DEF Holds, MetaOnly, MetaTags
  <2>5. ASSUME NEW p \in Path PROVE MayTurn(i, p, d[p], e[p])
    <3>1. CASE p # q
      BY <2>1, <3>1 DEF MayTurn
    <3>2. CASE p = q /\ q = here
      BY <1>7, <2>1, <3>2 DEF MayTurn
    <3>3. CASE p = q /\ q # here
      BY <2>1, <2>2, <2>3, <3>3 DEF MayTurn, MetaOnly
    <3>. QED  BY <3>1, <3>2, <3>3
  <2>. QED  BY <2>4, <2>5
<1>8. CASE i.tag = "Comment"
  <2>1. e = d
    BY <1>2, <1>8 DEF Operate
  <2>. QED  BY <1>8, <2>1 DEF Holds, MayTurn
<1>. QED
  BY <1>3, <1>4, <1>5, <1>6, <1>7, <1>8, Operands DEF Tags, TagRank, MetaTags

\* The same of a whole instruction, the directories above its path included.
LEMMA PerformEffect ==
    ASSUME NEW d \in DiskState, Framed(d), NEW i \in run.instrs, i \in FsInstruction,
           NEW original \in Contents \cup {None}, original = run.originals[i.path],
           Perform(d, i, original).ok
    PROVE  LET e == Perform(d, i, original).disk
           IN /\ Holds(e, i)
              /\ \A p \in Path : MayTurn(i, p, d[p], e[p])
<1>. DEFINE made == Parents(d, i)
            e == Perform(d, i, original).disk
<1>1. /\ made.ok /\ Operate(made.disk, i, original).ok
      /\ e = Operate(made.disk, i, original).disk
  BY DEF Perform
<1>2. made.disk \in DiskState /\ Framed(made.disk)
  BY PerformTyped, PerformFramed
<1>3. Holds(e, i) /\ \A p \in Path : MayTurn(i, p, made.disk[p], e[p])
  BY <1>1, <1>2, OperationEffect
<1>4. ASSUME NEW p \in Path
      PROVE  \/ made.disk[p] = d[p]
             \/ NeedsParent(i) /\ p \in StrictAncestors(i.path) /\ d[p] = NoNode
  <2>1. CASE NeedsParent(i)
    <3>1. made = MakeDirs(d, StrictAncestors(i.path)) /\ StrictAncestors(i.path) \in SUBSET Path
      BY <2>1, Operands, PathAssumption DEF Parents, StrictAncestors
    <3>. QED  BY <1>1, <2>1, <3>1, DirsMade
  <2>2. CASE ~NeedsParent(i)
    BY <2>2 DEF Parents, Ok
  <2>. QED  BY <2>1, <2>2
<1>5. ASSUME NEW p \in Path PROVE MayTurn(i, p, d[p], e[p])
  <2>1. CASE made.disk[p] = d[p]
    BY <1>3, <2>1
  <2>2. CASE NeedsParent(i) /\ p \in StrictAncestors(i.path) /\ d[p] = NoNode
    BY <2>2 DEF MayTurn, StrictAncestors
  <2>. QED  BY <1>4, <2>1, <2>2
<1>. QED  BY <1>3, <1>5

-----------------------------------------------------------------------------
(* What was achieved lasts *)

\* What an instruction achieved, a later one does not undo.
LEMMA LaterKeeps ==
    ASSUME OnePerPath(run.instrs), NEW i \in run.instrs, NEW j \in run.instrs, i # j,
           i \in FsInstruction, j \in FsInstruction, ~MustPrecede(i, j),
           NEW d, NEW e, Holds(d, j), MayTurn(i, j.path, d[j.path], e[j.path])
    PROVE  Holds(e, j)
<1>. DEFINE p == j.path
<1>1. p \in Path /\ i.path \in Path /\ i.tag \in Tags /\ j.tag \in Tags
  BY Operands
<1>2. CASE e[p] = d[p]
  BY <1>2 DEF Holds, IsDir
<1>3. j.tag \in {"Remove", "Comment"} \cup MakerTags \cup MetaTags
  BY <1>1 DEF Tags, TagRank, MakerTags, CreateTags, MetaTags
<1>4. ASSUME NeedsParent(i), p \in Ancestors[i.path] \/ p \in LinkedFrom(i.path)
      PROVE  j.tag = "Remove" => Holds(e, j)
  BY <1>4 DEF Holds
<1>5. j.tag = "Comment" => Holds(e, j)
  BY DEF Holds
<1>6. CASE NeedsParent(i) /\ p \in Ancestors[i.path] /\ d[p] = NoNode
  <2>1. ASSUME j.tag \in MakerTags PROVE Holds(e, j)
    BY <1>6, <2>1 DEF Holds, IsDir, MakerTags, CreateTags
  <2>2. ASSUME j.tag \in MetaTags PROVE Holds(e, j)
    BY <1>6, <2>2 DEF Holds, MetaTags
  <2>. QED  BY <1>3, <1>4, <1>5, <1>6, <2>1, <2>2
<1>7. CASE /\ NeedsParent(i) /\ p \in LinkedFrom(i.path)
           /\ d[p] # NoNode => d[p].kind # "Symlink" /\ e[p] # NoNode /\ e[p].kind = d[p].kind
  <2>1. ~Plain(p)
    BY <1>1, <1>7 DEF Plain
  <2>2. ASSUME j.tag \in MakerTags PROVE Holds(e, j)
    BY <1>7, <2>1, <2>2 DEF Holds, IsDir, MakerTags, CreateTags
  <2>3. ASSUME j.tag \in MetaTags PROVE Holds(e, j)
    BY <2>1, <2>3 DEF Holds, MetaTags
  <2>. QED  BY <1>3, <1>4, <1>5, <1>7, <2>2, <2>3
<1>8. ASSUME p = i.path
      PROVE  /\ i.tag # j.tag
             /\ TagRank[i.tag] >= TagRank[j.tag]
             /\ ~({i.tag, j.tag} \subseteq MakerTags)
  <2>1. i.tag # j.tag /\ ~({i.tag, j.tag} \subseteq MakerTags)
    BY <1>8 DEF OnePerPath
  <2>2. IsEarly(i) <=> IsEarly(j)
    BY <1>8 DEF IsEarly
  <2>3. ~(TagRank[i.tag] < TagRank[j.tag])
    BY <2>2 DEF MustPrecede
  <2>4. TagRank[i.tag] \in Nat /\ TagRank[j.tag] \in Nat
    BY <1>1, TagOrder
  <2>. QED  BY <2>1, <2>3, <2>4
<1>9. CASE p = i.path /\ i.tag \in MakerTags \cup {"Remove"}
  <2>1. NeedsParent(i) <=> i.tag # "Remove"
    BY <1>9 DEF NeedsParent, MakerTags, CreateTags
  <2>2. i.tag # "Remove"
    <3>1. SUFFICES ASSUME i.tag = "Remove" PROVE FALSE
      OBVIOUS
    <3>2. TagRank[i.tag] = 0 /\ TagRank[j.tag] \in Nat
      BY <1>1, <3>1, TagOrder DEF TagRank
    <3>3. TagRank[i.tag] = TagRank[j.tag]
      BY <1>8, <1>9, <3>2
    <3>. QED  BY <1>1, <1>8, <1>9, <3>3, TagOrder
  <2>3. j.tag \notin MetaTags /\ j.tag # "Comment"
    BY <1>8, <1>9, <2>2 DEF TagRank, MakerTags, CreateTags, MetaTags
  <2>4. p \in Ancestors[i.path]
    BY <1>1, <1>9, PathAssumption
  <2>. QED  BY <1>3, <1>4, <1>8, <1>9, <2>1, <2>2, <2>3, <2>4
<1>10. CASE p = i.path /\ i.tag \in MetaTags /\ MetaOnly(i, d[p], e[p])
  <2>1. NeedsParent(i) /\ p \in Ancestors[i.path]
    BY <1>1, <1>10, PathAssumption DEF NeedsParent, MetaTags
  <2>2. ASSUME j.tag \in MakerTags PROVE Holds(e, j)
    BY <1>10, <2>2 DEF Holds, IsDir, MetaOnly, MakerTags, CreateTags
  <2>3. ASSUME j.tag = "SetMode" PROVE Holds(e, j)
    <3>1. i.tag \in {"SetOwner", "SetGroup"}
      BY <1>8, <1>10, <2>3 DEF MetaTags
    <3>2. Plans(p, "SetOwner") \/ Plans(p, "SetGroup")
      BY <1>10, <3>1 DEF Plans
    <3>3. ~LosesSetid(j) => WithoutSetid[j.arg] = j.arg
      BY <3>2 DEF LosesSetid
    <3>. QED  BY <1>10, <2>3, <3>1, <3>3 DEF Holds, MetaOnly
  <2>4. ASSUME j.tag \in {"SetOwner", "SetGroup"} PROVE Holds(e, j)
    BY <1>8, <1>10, <2>4 DEF Holds, MetaOnly, MetaTags
  <2>. QED  BY <1>3, <1>4, <1>5, <2>1, <2>2, <2>3, <2>4 DEF MetaTags
<1>. QED  BY <1>2, <1>6, <1>7, <1>9, <1>10 DEF MayTurn

\* Nor do the packages that come between the batches.
LEMMA InstallKeeps ==
    ASSUME NEW j \in FsInstruction, Holds(disk, j), InstallPackages
    PROVE  Holds(disk', j)
<1>. DEFINE p == j.path
<1>1. p \in Path /\ p \in Ancestors[p]
  BY Operands, PathAssumption
<1>2. disk'[p] = IF disk[p] = NoNode THEN run.installs[p] ELSE disk[p]
  BY <1>1 DEF InstallPackages
<1>3. CASE disk'[p] = disk[p]
  BY <1>3 DEF Holds, IsDir
<1>4. CASE disk[p] = NoNode /\ run.installs[p] # NoNode
  <2>1. ~Plain(p)
    BY <1>4 DEF Plain
  <2>2. j.tag \in Tags
    BY Operands
  <2>3. j.tag = "Remove" => Holds(disk', j)
    BY <1>1, <1>4 DEF Holds
  <2>4. j.tag # "Remove" => Holds(disk', j)
    BY <1>4, <2>1, <2>2 DEF Holds, IsDir, Tags, TagRank
  <2>. QED  BY <2>3, <2>4
<1>. QED  BY <1>2, <1>3, <1>4

-----------------------------------------------------------------------------
(* Steps *)

\* In a live run, of a batch that is over nothing is lost but the comments.
BatchesDone ==
    LET Dealt(i) == i \in carried \cup skipped \/ i.tag = "Comment" IN
    Live => /\ stage \in {"packages", "late", "done"} => \A i \in Batch(FALSE) : Dealt(i)
            /\ stage = "done" => \A i \in Batch(TRUE) : Dealt(i)

AchievedInv ==
    /\ OnePerPath(run.instrs)
    /\ BatchesDone
    /\ stage # "failed" => \A i \in carried : Holds(disk, i)

\* A step that does not end the run carries out one instruction, installs
\* packages, or leaves the disk alone.
LEMMA KindsOfStep ==
    ASSUME ApplyInv, [ApplyNext]_applyVars, stage' # "failed"
    PROVE  /\ run' = run
           /\ stage # "failed"
           /\ \/ \E i \in Chunk : Applying /\ IsFirst(i) /\ Succeed(i)
              \/ InstallPackages /\ carried' = carried
              \/ disk' = disk /\ carried' = carried
  BY DEF ApplyNext, applyVars, history, SkipComments, CarryOut, Succeed, GetStuck, BreakDown, Stop, Log,
         AcceptChunk, GoThroughChunk, SkipChunk, AcceptOne, SkipOne, Abort, EndBatch,
         PassPackages, InstallPackages, FailPackages, ToLateBatch, AsksFor, Applying

\* What was achieved before a step is achieved after it, and so is what the step
\* carried out.
LEMMA StepKeepsAchieved ==
    ASSUME ApplyInv, Framed(disk), AchievedInv, [ApplyNext]_applyVars, stage' # "failed", NEW j \in carried'
    PROVE  Holds(disk', j)
<1>1. /\ ApplyTypeOK /\ BatchInv /\ InOrder /\ disk \in DiskState /\ stage # "failed"
      /\ carried \subseteq run.instrs /\ run.instrs \subseteq FsInstruction
  BY KindsOfStep DEF ApplyInv, ApplyTypeOK, RunType
<1>2. \A c \in carried : c \in FsInstruction /\ Holds(disk, c)
  BY <1>1 DEF AchievedInv
<1>3. CASE disk' = disk /\ carried' = carried
  BY <1>2, <1>3
<1>4. CASE InstallPackages /\ carried' = carried
  BY <1>2, <1>4, InstallKeeps
<1>5. CASE \E i \in Chunk : Applying /\ IsFirst(i) /\ Succeed(i)
  <2>1. PICK i \in Chunk : Applying /\ IsFirst(i) /\ Succeed(i)
    BY <1>5
  <2>2. i \in todo /\ i \in run.instrs /\ i \in FsInstruction
    BY <1>1, <2>1 DEF Chunk, ApplyTypeOK
  <2>3. run.originals[i.path] \in Contents \cup {None}
    BY <1>1, <2>2, Operands DEF ApplyTypeOK, RunType
  <2>4. /\ Perform(disk, i, run.originals[i.path]).ok
        /\ disk' = Perform(disk, i, run.originals[i.path]).disk
        /\ carried' = carried \cup {i}
    BY <2>1 DEF Succeed
  <2>5. Holds(disk', i) /\ \A p \in Path : MayTurn(i, p, disk[p], disk'[p])
    BY <1>1, <2>2, <2>3, <2>4, PerformEffect
  <2>6. CASE j = i
    BY <2>5, <2>6
  <2>7. CASE j # i
    <3>1. j \in carried /\ j \in run.instrs /\ j \in FsInstruction /\ Holds(disk, j)
      BY <1>1, <1>2, <2>4, <2>7
    <3>2. i \notin carried
      BY <1>1, <2>2 DEF BatchInv
    <3>3. ~MustPrecede(i, j)
      BY <1>1, <2>2, <3>1, <3>2 DEF InOrder
    <3>4. MayTurn(i, j.path, disk[j.path], disk'[j.path])
      BY <2>5, <3>1, Operands
    <3>. QED  BY <2>2, <2>7, <3>1, <3>3, <3>4, LaterKeeps DEF AchievedInv
  <2>. QED  BY <2>6, <2>7
<1>. QED  BY <1>3, <1>4, <1>5, KindsOfStep

\* No step loses an instruction of a batch that is over.
LEMMA StepKeepsBatches ==
    ASSUME ApplyInv, RemovalInv, BatchesDone, [ApplyNext]_applyVars
    PROVE  BatchesDone'
<1>. USE DEF history
<1>1. run' = run /\ carried \subseteq carried' /\ skipped \subseteq skipped'
  BY DEF ApplyNext, applyVars, SkipComments, CarryOut, Succeed, GetStuck, BreakDown, Log, AcceptChunk,
         GoThroughChunk, SkipChunk, AcceptOne, SkipOne, Abort, EndBatch, PassPackages,
         InstallPackages, FailPackages, ToLateBatch
<1>2. Batch(FALSE)' = Batch(FALSE) /\ Batch(TRUE)' = Batch(TRUE) /\ Live' = Live
  BY <1>1 DEF Batch, IsEarly, Live
<1>3. CASE stage' = stage \/ stage' = "failed"
  BY <1>1, <1>2, <1>3 DEF BatchesDone
<1>4. CASE EndBatch
  <2>1. CASE stage = "early"
    <3>1. stage' = "packages" /\ todo = {} /\ carried' = carried /\ skipped' = skipped
      BY <1>4, <2>1 DEF EndBatch
    <3>2. Current = Batch(FALSE)
      BY <2>1 DEF Current
    <3>. QED  BY <1>2, <2>1, <3>1, <3>2 DEF BatchesDone, RemovalInv, Accounted
  <2>2. CASE stage = "late"
    <3>1. stage' = "done" /\ todo = {} /\ carried' = carried /\ skipped' = skipped
      BY <1>4, <2>2 DEF EndBatch
    <3>2. Current = Batch(TRUE)
      BY <2>2 DEF Current
    <3>. QED  BY <1>2, <2>2, <3>1, <3>2 DEF BatchesDone, RemovalInv, Accounted
  <2>. QED  BY <1>4, <2>1, <2>2 DEF EndBatch
<1>5. CASE PassPackages \/ InstallPackages
  <2>1. stage = "packages" /\ stage' = "late"
    BY <1>5 DEF PassPackages, InstallPackages, ToLateBatch
  <2>. QED  BY <1>1, <1>2, <2>1 DEF BatchesDone
<1>6. \/ stage' = stage \/ stage' = "failed"
      \/ EndBatch
      \/ PassPackages \/ InstallPackages
  BY DEF ApplyNext, applyVars, SkipComments, CarryOut, Succeed, GetStuck, BreakDown, Stop, Log, AcceptChunk,
         GoThroughChunk, SkipChunk, AcceptOne, SkipOne, Abort, FailPackages
<1>. QED  BY <1>3, <1>4, <1>5, <1>6

\* apply_files and cmd_apply_changes: for every plan that diff can make, and every
\* disk, split into batches and set of packages, a run that reports success
\* achieved what every instruction is for: no later instruction, of either batch,
\* no directory made above a path, no write through a link and no package undid
\* it.
THEOREM SuccessAchieves == ApplySpec => []SuccessMeansAchieved
<1>1. ApplyInit => AchievedInv
  BY RunAssumption DEF ApplyInit, AchievedInv, BatchesDone
<1>2. ApplyInv /\ Framed(disk) /\ RemovalInv /\ AchievedInv /\ [ApplyNext]_applyVars => AchievedInv'
  <2>1. SUFFICES ASSUME ApplyInv, Framed(disk), RemovalInv, AchievedInv, [ApplyNext]_applyVars
                 PROVE  AchievedInv'
    OBVIOUS
  <2>2. run' = run
    BY <2>1 DEF ApplyNext, applyVars, SkipComments, CarryOut, Succeed, GetStuck, BreakDown, Log, AcceptChunk,
           GoThroughChunk, SkipChunk, AcceptOne, SkipOne, Abort, EndBatch, PassPackages,
           InstallPackages, FailPackages, ToLateBatch
  <2>3. BatchesDone'
    BY <2>1, StepKeepsBatches DEF AchievedInv
  <2>4. ASSUME stage' # "failed", NEW j \in carried' PROVE Holds(disk, j)'
    <3>1. Holds(disk', j)
      BY <2>1, <2>4, StepKeepsAchieved
    <3>. QED  BY <2>2, <3>1 DEF Holds, Plain, LinkedFrom, LosesSetid, Plans
  <2>. QED  BY <2>1, <2>2, <2>3, <2>4 DEF AchievedInv
<1>3. ApplyInv /\ AchievedInv => SuccessMeansAchieved
  <2>1. SUFFICES ASSUME ApplyInv, AchievedInv, stage = "done", Live, skipped = {}, NEW i \in run.instrs
                 PROVE  Achieved(i)
    BY DEF SuccessMeansAchieved
  <2>2. i \in FsInstruction
    BY <2>1 DEF ApplyInv, ApplyTypeOK, RunType
  <2>3. CASE i.tag = "Comment"
    BY <2>3 DEF Achieved
  <2>4. CASE i.tag # "Comment"
    <3>1. i \in Batch(FALSE) \/ i \in Batch(TRUE)
      BY Batches
    <3>2. i \in carried
      BY <2>1, <2>4, <3>1 DEF AchievedInv, BatchesDone
    <3>3. Holds(disk, i) /\ i.tag \in Tags
      BY <2>1, <2>2, <3>2, Operands DEF AchievedInv
    <3>. QED  BY <3>3 DEF Holds, Achieved, Tags, TagRank
  <2>. QED  BY <2>3, <2>4
<1>4. ApplySpec => []Framed(disk)
  <2>1. ApplyInit => Framed(disk)
    BY InitFramed
  <2>2. ApplyInv /\ Framed(disk) /\ [ApplyNext]_applyVars => Framed(disk)'
    BY NextFramed
  <2>. QED  BY <2>1, <2>2, ApplyInvariant, PTL DEF ApplySpec
<1>. QED  BY <1>1, <1>2, <1>3, <1>4, ApplyInvariant, RemovalInvariant, PTL DEF ApplySpec

-----------------------------------------------------------------------------
(* The plans that diff makes *)

\* What diff makes of one path.
LEMMA DiffOfPath ==
    ASSUME NEW p, NEW before \in FsNode \cup {NoNode}, NEW after \in FsNode \cup {NoNode},
           NEW pkg,
           NEW onlyBefore,
           onlyBefore = IF before = NoNode THEN {} ELSE LeftApply(p, before, pkg)
    PROVE  /\ \A i \in DiffPath(p, before, after, onlyBefore) : i.path = p
           /\ OnePerPath(DiffPath(p, before, after, onlyBefore))
<1>1. CASE before = NoNode /\ after = NoNode
  BY <1>1 DEF DiffPath, OnePerPath
<1>2. CASE before = NoNode /\ after # NoNode
  <2>1. DiffPath(p, before, after, onlyBefore) = IntoInstructions(p, after)
    BY <1>2 DEF DiffPath
  <2>2. after.entry \in FsEntry
    BY <1>2 DEF FsNode
  <2>3. \A i \in IntoInstructions(p, after) :
           \/ i \in BaseInstruction(p, after.entry)
           \/ i = Instr(p, "Remove", None)
           \/ i = Instr(p, "SetMode", after.mode)
           \/ i = Instr(p, "SetOwner", after.owner)
           \/ i = Instr(p, "SetGroup", after.group)
    BY DEF IntoInstructions
  <2>. QED  BY <2>1, <2>2, <2>3, BaseOne DEF OnePerPath, MakerTags, CreateTags, Instr
<1>3. CASE before # NoNode /\ after = NoNode
  <2>1. DiffPath(p, before, after, onlyBefore) = LeftApply(p, before, pkg)
    BY <1>3 DEF DiffPath
  <2>2. \A i \in LeftApply(p, before, pkg) :
           \/ i = Instr(p, "Remove", None)
           \/ i \in RestoreEntry(p, pkg)
           \/ i = Instr(p, "SetMode", pkg.mode)
           \/ i = Instr(p, "SetOwner", pkg.owner)
           \/ i = Instr(p, "SetGroup", pkg.group)
    BY DEF LeftApply, RestoreField
  <2>3. /\ \A i, j \in RestoreEntry(p, pkg) : i = j
        /\ \A i \in RestoreEntry(p, pkg) : i.path = p /\ i.tag \in MakerTags
    BY DEF RestoreEntry, Instr, MakerTags, CreateTags
  <2>. QED  BY <2>1, <2>2, <2>3 DEF OnePerPath, MakerTags, CreateTags, Instr
<1>4. CASE before # NoNode /\ after # NoNode
  <2>1. DiffPath(p, before, after, onlyBefore) = DiffBoth(p, before, after)
    BY <1>4 DEF DiffPath
  <2>2. after.entry \in FsEntry
    BY <1>4 DEF FsNode
  <2>3. \A i \in DiffBoth(p, before, after) :
           \/ i \in BaseInstruction(p, after.entry)
           \/ i = Instr(p, "Remove", None)
           \/ i \in MetadataDiff(p, before, after)
    BY DEF DiffBoth, ReplaceEntry
  <2>. QED
    BY <2>1, <2>2, <2>3, BaseOne, MetadataOne DEF OnePerPath, MakerTags, CreateTags, MetaTags, Instr
<1>. QED  BY <1>1, <1>2, <1>3, <1>4

\* state::diff: whatever the two states and the packages are, of a path the plan
\* has at most one instruction of each kind and at most one that puts something
\* there.  So the assumption on Run leaves out no plan of the program.
THEOREM PlansOfDiff ==
    ASSUME NEW before \in [Path -> FsNode \cup {NoNode}],
           NEW after \in [Path -> FsNode \cup {NoNode}], NEW pkgs
    PROVE  OnePerPath(ApplyDiff(before, after, pkgs))
<1>. DEFINE At(p) == DiffPath(p, before[p], after[p],
                        IF before[p] = NoNode THEN {} ELSE LeftApply(p, before[p], pkgs[p]))
<1>1. ASSUME NEW p \in Path PROVE (\A i \in At(p) : i.path = p) /\ OnePerPath(At(p))
  BY DiffOfPath
<1>2. ApplyDiff(before, after, pkgs) = UNION {At(p) : p \in Path}
  BY DEF ApplyDiff
<1>3. ASSUME NEW i \in ApplyDiff(before, after, pkgs), NEW j \in ApplyDiff(before, after, pkgs),
             i.path = j.path, i.tag = j.tag \/ {i.tag, j.tag} \subseteq MakerTags
      PROVE  i = j
  <2>1. PICK p \in Path : i \in At(p)
    BY <1>2
  <2>2. PICK q \in Path : j \in At(q)
    BY <1>2
  <2>3. p = q /\ OnePerPath(At(p))
    BY <1>1, <1>3, <2>1, <2>2
  <2>. QED  BY <1>3, <2>1, <2>2, <2>3 DEF OnePerPath
<1>. QED  BY <1>3 DEF OnePerPath

=============================================================================
