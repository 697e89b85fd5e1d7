--------------------------- MODULE ReconcileProofs ---------------------------
(***************************************************************************)
(* Proofs about whole runs of konfigkoll apply, and runs after runs.  The  *)
(* scan yields instructions that the map of FsEntries is built from, diff  *)
(* makes a plan that is one of those ApplyFiles starts with, and so what   *)
(* ApplyFilesProofs shows of one invocation holds in every run.            *)
(*                                                                         *)
(* On top of that, the plan for each path leads from what the scan found   *)
(* there to what is wanted (PlanLeads), and what is left of it does so at  *)
(* every moment of the run (LeadsInv): an instruction whose turn it is     *)
(* finds what it needs, follows no link, and takes its path one step       *)
(* further.  So nothing gets stuck, what is ignored stays as it is, and a  *)
(* run that reports success has made everything as it is wanted, which is  *)
(* what DesiredState promises.                                             *)
(***************************************************************************)
EXTENDS Reconcile, ApplyFilesProofs

-----------------------------------------------------------------------------
(* The diff *)

\* What diff makes of one path.
DiffAt(before, after, db, p) ==
    DiffPath(p, before[p], after[p],
             IF before[p] = NoNode THEN {} ELSE LeftApply(p, before[p], db[p]))

\* Whatever diff makes of two states are instructions, each at its path.
LEMMA DiffAtTyped ==
    ASSUME NEW before \in FsMap, NEW after \in FsMap, NEW db \in Database, NEW p \in Path
    PROVE  /\ DiffAt(before, after, db, p) \subseteq FsInstruction
           /\ \A i \in DiffAt(before, after, db, p) : i.path = p
<1>. DEFINE b == before[p]
            a == after[p]
            L == IF b = NoNode THEN {} ELSE LeftApply(p, b, db[p])
<1>1. b \in FsNode \cup {NoNode} /\ a \in FsNode \cup {NoNode} /\ db[p] \in PkgEntry \cup {None}
  BY DEF FsMap, Database
<1>2. DiffAt(before, after, db, p) = DiffPath(p, b, a, L)
  BY DEF DiffAt
<1>3. \A i \in DiffPath(p, b, a, L) : i.path = p
  BY <1>1, DiffOfPath
<1>. HIDE DEF b, a
<1>4. ASSUME NEW i \in DiffPath(p, b, a, L) PROVE i \in FsInstruction
  <2>1. CASE b = NoNode /\ a = NoNode
    BY <1>4, <2>1 DEF DiffPath
  <2>2. CASE b = NoNode /\ a # NoNode
    <3>1. i \in IntoInstructions(p, a) /\ a \in FsNode
      BY <1>1, <1>4, <2>2 DEF DiffPath
    <3>2. \/ i = Instr(p, "Remove", None)
          \/ i \in BaseInstruction(p, a.entry)
          \/ i = Instr(p, "SetMode", a.mode) /\ a.mode # None
          \/ i = Instr(p, "SetOwner", a.owner) /\ a.owner # None
          \/ i = Instr(p, "SetGroup", a.group) /\ a.group # None
      BY <3>1 DEF IntoInstructions
    <3>. QED  BY <3>1, <3>2, NodeFields, BaseTyped, Typed
  <2>3. CASE b # NoNode /\ a = NoNode
    <3>1. i \in LeftApply(p, b, db[p]) /\ b \in FsNode
      BY <1>1, <1>4, <2>3 DEF DiffPath
    <3>2. CASE db[p] = None
      BY <3>1, <3>2, Typed DEF LeftApply
    <3>3. CASE db[p] # None
      <4>1. db[p] \in PkgEntry
        BY <1>1, <3>3
      <4>2. \/ i \in RestoreEntry(p, db[p])
            \/ i = Instr(p, "SetMode", db[p].mode) /\ db[p].mode # None
            \/ i = Instr(p, "SetOwner", db[p].owner) /\ db[p].owner # None
            \/ i = Instr(p, "SetGroup", db[p].group) /\ db[p].group # None
        BY <3>1, <3>3 DEF LeftApply, RestoreField
      <4>3. ASSUME i \in RestoreEntry(p, db[p])
            PROVE  \/ i = Instr(p, "Restore", None) \/ i = Instr(p, "CreateDirectory", None)
                   \/ i = Instr(p, "CreateSymlink", db[p].data) /\ db[p].kind = "Symlink"
        BY <4>1, <4>3, PkgFields DEF RestoreEntry
      <4>. QED  BY <4>1, <4>2, <4>3, PkgFields, Typed
    <3>. QED  BY <3>2, <3>3
  <2>4. CASE b # NoNode /\ a # NoNode
    <3>1. i \in DiffBoth(p, b, a) /\ b \in FsNode /\ a \in FsNode
      BY <1>1, <1>4, <2>4 DEF DiffPath
    <3>2. \/ i = Instr(p, "Remove", None)
          \/ i \in BaseInstruction(p, a.entry)
          \/ i \in MetadataDiff(p, b, a)
      BY <3>1 DEF DiffBoth, ReplaceEntry
    <3>3. ASSUME i \in MetadataDiff(p, b, a)
          PROVE  \/ i = Instr(p, "Comment", None)
                 \/ i = Instr(p, "SetMode", a.mode) /\ a.mode # None
                 \/ i = Instr(p, "SetOwner", a.owner) /\ a.owner # None
                 \/ i = Instr(p, "SetGroup", a.group) /\ a.group # None
      BY <3>3 DEF MetadataDiff, FieldDiff
    <3>. QED  BY <3>1, <3>2, <3>3, NodeFields, BaseTyped, Typed
  <2>. QED  BY <2>1, <2>2, <2>3, <2>4
<1>. QED  BY <1>2, <1>3, <1>4

\* The plan is what diff makes of its paths.
LEMMA DiffTyped ==
    ASSUME NEW before \in FsMap, NEW after \in FsMap, NEW db \in Database
    PROVE  /\ ApplyDiff(before, after, db) \subseteq FsInstruction
           /\ \A i \in FsInstruction :
                 i \in ApplyDiff(before, after, db) <=> i \in DiffAt(before, after, db, i.path)
<1>. DEFINE At(p) == DiffAt(before, after, db, p)
<1>1. ApplyDiff(before, after, db) = UNION {At(p) : p \in Path}
  BY DEF ApplyDiff, DiffAt
<1>2. ASSUME NEW p \in Path PROVE \A i \in At(p) : i \in FsInstruction /\ i.path = p
  BY DiffAtTyped
<1>. HIDE DEF At
<1>3. \A i \in FsInstruction : i.path \in Path
  BY Operands
<1>. QED  BY <1>1, <1>2, <1>3 DEF At

-----------------------------------------------------------------------------
(* Whatever exists, exists in directories *)

\* What comes above a path comes above it strictly, and is ordered before it.
LEMMA AboveAbove ==
    ASSUME NEW p \in Path, NEW a \in Ancestors[p], NEW b \in StrictAncestors(a)
    PROVE  b \in StrictAncestors(p) /\ b \in Path /\ a \in Path
<1>1. a \in Path /\ b \in Ancestors[a] /\ b # a /\ b \in Ancestors[p] /\ b \in Path
  BY PathAssumption DEF StrictAncestors
<1>2. PathRank[b] < PathRank[a] /\ (a # p => PathRank[a] < PathRank[p])
  BY <1>1, PathAssumption DEF StrictAncestors
<1>3. PathRank[b] \in Nat /\ PathRank[a] \in Nat /\ PathRank[p] \in Nat
  BY <1>1, PathAssumption
<1>4. b # p
  BY <1>2, <1>3
<1>. QED  BY <1>1, <1>4 DEF StrictAncestors

\* Below what is no directory there is nothing.
LEMMA NothingBelow ==
    ASSUME NEW d \in DiskState, WellFormed(d), NEW p \in Path, ~IsDir(d, p),
           NEW q \in Path, p \in StrictAncestors(q)
    PROVE  d[q] = NoNode
  BY DEF WellFormed, IsDir

\* One node is put somewhere, or taken away.
LEMMA PutKeepsTree ==
    ASSUME NEW d \in DiskState, WellFormed(d), NEW p \in Path, NEW x,
           x # NoNode => ParentsAreDirs(d, p),
           \/ x # NoNode /\ x.kind = "Directory"
           \/ \A q \in Path : p \in StrictAncestors(q) => d[q] = NoNode
    PROVE  WellFormed([d EXCEPT ![p] = x])
<1>. DEFINE e == [d EXCEPT ![p] = x]
<1>1. e[p] = x /\ \A q \in Path : q # p => e[q] = d[q]
  BY DEF DiskState
<1>2. ASSUME NEW q \in Path, e[q] # NoNode, NEW a \in StrictAncestors(q)
      PROVE  e[a] # NoNode /\ e[a].kind = "Directory"
  <2>1. a \in Path /\ a # q
    BY PathAssumption DEF StrictAncestors
  <2>2. CASE q = p
    BY <1>1, <1>2, <2>1, <2>2 DEF ParentsAreDirs, IsDir
  <2>3. CASE q # p
    <3>1. d[q] # NoNode /\ d[a] # NoNode /\ d[a].kind = "Directory"
      BY <1>1, <1>2, <2>3 DEF WellFormed
    <3>. QED  BY <1>1, <1>2, <2>1, <3>1
  <2>. QED  BY <2>2, <2>3
<1>. QED  BY <1>2 DEF WellFormed

\* A node is replaced by one of the same type.
LEMMA ChangeKeepsTree ==
    ASSUME NEW d \in DiskState, WellFormed(d), NEW p \in Path, NEW x,
           d[p] # NoNode, x # NoNode, x.kind = d[p].kind
    PROVE  WellFormed([d EXCEPT ![p] = x])
<1>1. ParentsAreDirs(d, p)
  BY DEF WellFormed, ParentsAreDirs, IsDir
<1>2. ~IsDir(d, p) => \A q \in Path : p \in StrictAncestors(q) => d[q] = NoNode
  BY NothingBelow
<1>. QED  BY <1>1, <1>2, PutKeepsTree DEF IsDir

\* Directories are made where nothing was, with all that is above them.
LEMMA DirsKeepTree ==
    ASSUME NEW d \in DiskState, WellFormed(d), NEW p \in Path,
           NEW dirs, dirs = StrictAncestors(p) \/ dirs = Ancestors[p]
    PROVE  WellFormed(MakeDirs(d, dirs).disk)
<1>. DEFINE e == MakeDirs(d, dirs).disk
<1>1. CASE ~MakeDirs(d, dirs).ok
  BY <1>1 DEF MakeDirs, Fail, Ok
<1>2. CASE MakeDirs(d, dirs).ok
  <2>1. dirs \in SUBSET Path
    BY PathAssumption DEF StrictAncestors
  <2>2. \A q \in Path : /\ q \in dirs => IsDir(e, q)
                        /\ e[q] # d[q] => d[q] = NoNode /\ q \in dirs
    BY <1>2, <2>1, DirsMade
  <2>. HIDE DEF e
  <2>3. ASSUME NEW q \in Path, e[q] # NoNode, NEW a \in StrictAncestors(q) PROVE IsDir(e, a)
    <3>1. a \in Path
      BY PathAssumption DEF StrictAncestors
    <3>2. CASE q \in dirs
      <4>1. a \in dirs
        BY <3>2, AboveAbove DEF StrictAncestors
      <4>. QED  BY <2>2, <3>1, <4>1
    <3>3. CASE q \notin dirs
      <4>1. d[q] # NoNode /\ d[a] # NoNode /\ d[a].kind = "Directory"
        BY <2>2, <2>3, <3>3 DEF WellFormed
      <4>. QED  BY <2>2, <3>1, <4>1 DEF IsDir
    <3>. QED  BY <3>2, <3>3
  <2>. QED  BY <2>3 DEF WellFormed, IsDir, e
<1>. QED  BY <1>1, <1>2

\* A file is written where there is one, or nothing, in a directory.
LEMMA WriteKeepsTree ==
    ASSUME NEW d \in DiskState, WellFormed(d), NEW p \in Path, NEW c \in Contents
    PROVE  WellFormed(WriteFile(d, p, c).disk)
<1>. DEFINE q == Resolve(d, p)
<1>1. ASSUME q = None PROVE WriteFile(d, p, c).disk = d
  BY <1>1 DEF WriteFile, Fail
<1>2. CASE q # None /\ d[q] = NoNode
  <2>. DEFINE x == NewInode("File", c, DEFAULT_FILE_MODE)
  <2>1. q \in Path
    BY <1>2, ResolveType
  <2>2. CASE ParentsAreDirs(d, q)
    <3>1. WriteFile(d, p, c).disk = [d EXCEPT ![q] = x]
      BY <1>2, <2>2 DEF WriteFile, Ok
    <3>2. \A r \in Path : q \in StrictAncestors(r) => d[r] = NoNode
      BY <1>2, <2>1, NothingBelow DEF IsDir
    <3>. QED  BY <2>1, <2>2, <3>1, <3>2, PutKeepsTree
  <2>3. CASE ~ParentsAreDirs(d, q)
    BY <1>2, <2>3 DEF WriteFile, Fail
  <2>. QED  BY <2>2, <2>3
<1>3. CASE q # None /\ d[q] # NoNode
  <2>. DEFINE x == [d[q] EXCEPT !.data = c]
  <2>1. q \in Path /\ d[q] \in Inode
    BY <1>3, ResolveType DEF DiskState
  <2>2. CASE d[q].kind = "File"
    <3>1. WriteFile(d, p, c).disk = [d EXCEPT ![q] = x]
      BY <1>3, <2>2 DEF WriteFile, Ok
    <3>2. x \in Inode /\ x.kind = "File"
      BY <2>1, <2>2, ChangedInodes DEF Inode
    <3>3. x # NoNode /\ x.kind = d[q].kind
      BY <2>2, <3>2, InodeAssumption
    <3>. HIDE DEF x
    <3>4. WellFormed([d EXCEPT ![q] = x])
      BY <1>3, <2>1, <3>3, ChangeKeepsTree
    <3>. QED  BY <3>1, <3>4
  <2>3. CASE d[q].kind # "File"
    BY <1>3, <2>3 DEF WriteFile, Fail
  <2>. QED  BY <2>2, <2>3
<1>. QED  BY <1>1, <1>2, <1>3

\* A change of metadata changes no type.
LEMMA MetadataKeepsTree ==
    ASSUME NEW d \in DiskState, WellFormed(d), NEW i \in FsInstruction, i.tag \in MetaTags, NEW original
    PROVE  WellFormed(Operate(d, i, original).disk)
<1>. DEFINE e == Operate(d, i, original).disk
            q == Resolve(d, i.path)
<1>0. i.path \in Path
  BY Operands
<1>1. CASE ~Operate(d, i, original).ok
  BY <1>1 DEF Operate, MetaTags, Chmod, ChownUser, ChownGroup, Fail, Ok
<1>2. CASE Operate(d, i, original).ok
  <2>1. /\ q \in Path /\ \A r \in Path \ {q} : e[r] = d[r]
        /\ MetaOnly(i, d[q], e[q])
    BY <1>2, MetadataChanged
  <2>2. e \in DiskState
    <3>1. \/ i.tag = "SetMode" /\ i.arg \in Mode /\ e = Chmod(d, i.path, i.arg).disk
          \/ i.tag = "SetOwner" /\ i.arg \in Name /\ e = ChownUser(d, i.path, i.arg).disk
          \/ i.tag = "SetGroup" /\ i.arg \in Name /\ e = ChownGroup(d, i.path, i.arg).disk
      BY Operands DEF Operate, MetaTags
    <3>. QED  BY <1>0, <3>1, MetadataCallsTyped
  <2>. HIDE DEF e
  <2>3. e = [d EXCEPT ![q] = e[q]]
    BY <2>1, <2>2 DEF DiskState
  <2>4. d[q] # NoNode /\ e[q] # NoNode /\ e[q].kind = d[q].kind
    BY <2>1 DEF MetaOnly
  <2>. QED  BY <2>1, <2>3, <2>4, ChangeKeepsTree DEF e
<1>. QED  BY <1>1, <1>2

\* Whatever an operation does, when the directories above its path were made.
LEMMA OperateKeepsTree ==
    ASSUME NEW d \in DiskState, WellFormed(d), NEW i \in FsInstruction,
           NEW original \in Contents \cup {None},
           NeedsParent(i) => ParentsAreDirs(d, i.path)
    PROVE  WellFormed(Operate(d, i, original).disk)
<1>. DEFINE p == i.path
            e == Operate(d, i, original).disk
<1>1. p \in Path /\ i.tag \in Tags
  BY Operands
<1>2. Fail(d).disk = d /\ \A x : Ok(x).disk = x
  BY DEF Fail, Ok
<1>3. ~IsDir(d, p) => \A q \in Path : p \in StrictAncestors(q) => d[q] = NoNode
  BY <1>1, NothingBelow
<1>4. CASE i.tag = "Remove"
  <2>1. CASE e = d
    BY <2>1
  <2>2. CASE e # d
    <3>1. e = [d EXCEPT ![p] = NoNode] /\ \A q \in Path : p \in StrictAncestors(q) => d[q] = NoNode
      BY <1>2, <1>3, <1>4, <2>2 DEF Operate, RemoveAny, Unlink
    <3>. HIDE DEF e
    <3>. QED  BY <1>1, <3>1, PutKeepsTree DEF e
  <2>. QED  BY <2>1, <2>2
<1>5. CASE i.tag = "CreateDirectory"
  <2>1. e = MakeDirs(d, Ancestors[p]).disk
    BY <1>5 DEF Operate
  <2>. QED  BY <1>1, <2>1, DirsKeepTree
<1>6. CASE i.tag = "CreateFile"
  <2>1. e = WriteFile(d, p, i.arg).disk /\ i.arg \in Contents
    BY <1>6, Operands DEF Operate
  <2>. QED  BY <1>1, <2>1, WriteKeepsTree
<1>7. CASE i.tag = "Restore"
  <2>1. e = IF original = None THEN d ELSE WriteFile(d, p, original).disk
    BY <1>2, <1>7 DEF Operate, RestoreFile
  <2>. QED  BY <1>1, <2>1, WriteKeepsTree
<1>8. CASE i.tag \in {"CreateSymlink", "CreateFifo", "CreateBlockDevice", "CreateCharDevice"}
  <2>1. ParentsAreDirs(d, p)
    BY <1>8 DEF NeedsParent
  <2>2. e = d \/ (~IsDir(d, p) /\ \E x : e = [d EXCEPT ![p] = x])
    BY <1>2, <1>8 DEF Operate, PutSymlink, MakeNode, IsDir
  <2>3. CASE e # d
    <3>1. PICK x : e = [d EXCEPT ![p] = x]
      BY <2>2, <2>3
    <3>2. \A q \in Path : p \in StrictAncestors(q) => d[q] = NoNode
      BY <1>3, <2>2, <2>3
    <3>. HIDE DEF e
    <3>. QED  BY <1>1, <2>1, <3>1, <3>2, PutKeepsTree DEF e
  <2>. QED  BY <2>3
<1>9. CASE i.tag \in MetaTags
  BY <1>9, MetadataKeepsTree
<1>10. CASE i.tag = "Comment"
  BY <1>2, <1>10 DEF Operate
<1>. QED
  BY <1>1, <1>4, <1>5, <1>6, <1>7, <1>8, <1>9, <1>10 DEF Tags, TagRank, MetaTags

\* The directories above a path, as an instruction makes them.
LEMMA ParentsMade ==
    ASSUME NEW d \in DiskState, WellFormed(d), NEW i \in FsInstruction
    PROVE  LET made == Parents(d, i) IN
           /\ made.disk \in DiskState /\ WellFormed(made.disk)
           /\ made.ok /\ NeedsParent(i) => ParentsAreDirs(made.disk, i.path)
           /\ ~made.ok => made.disk = d
           /\ \A q \in Path : made.disk[q] # d[q] =>
                 /\ NeedsParent(i) /\ q \in StrictAncestors(i.path)
                 /\ d[q] = NoNode /\ IsDir(made.disk, q)
<1>. DEFINE made == Parents(d, i)
            dirs == StrictAncestors(i.path)
<1>1. i.path \in Path /\ dirs \in SUBSET Path
  BY Operands, PathAssumption DEF StrictAncestors
<1>2. CASE ~NeedsParent(i)
  <2>1. made.disk = d /\ made.ok
    BY <1>2 DEF Parents, Ok
  <2>. QED  BY <1>2, <2>1
<1>3. CASE NeedsParent(i)
  <2>1. made = MakeDirs(d, dirs)
    BY <1>3 DEF Parents
  <2>2. made.disk \in DiskState /\ WellFormed(made.disk)
    BY <1>1, <2>1, DirsKeepTree, OtherCallsTyped
  <2>3. ~made.ok => made.disk = d
    BY <2>1 DEF MakeDirs, Fail, Ok
  <2>4. ASSUME made.ok
        PROVE  \A q \in Path : /\ q \in dirs => IsDir(made.disk, q)
                               /\ made.disk[q] # d[q] => d[q] = NoNode /\ q \in dirs
    BY <1>1, <2>1, <2>4, DirsMade
  <2>. QED  BY <1>1, <1>3, <2>2, <2>3, <2>4 DEF ParentsAreDirs
<1>. QED  BY <1>2, <1>3

\* An instruction leaves a tree behind, whether it succeeds, fails or is cut short.
LEMMA PerformKeepsTree ==
    ASSUME NEW d \in DiskState, WellFormed(d), NEW i \in FsInstruction,
           NEW original \in Contents \cup {None}
    PROVE  /\ WellFormed(Perform(d, i, original).disk)
           /\ \A e \in Interrupted(d, i) : WellFormed(e)
<1>. DEFINE made == Parents(d, i)
            m == made.disk
            p == i.path
<1>1. /\ m \in DiskState /\ WellFormed(m)
      /\ made.ok /\ NeedsParent(i) => ParentsAreDirs(m, p)
  BY ParentsMade
<1>2. p \in Path
  BY Operands
<1>3. WellFormed(Perform(d, i, original).disk)
  <2>1. CASE made.ok
    <3>1. WellFormed(Operate(m, i, original).disk)
      BY <1>1, <2>1, OperateKeepsTree
    <3>. QED  BY <2>1, <3>1 DEF Perform
  <2>2. CASE ~made.ok
    BY <1>1, <2>2 DEF Perform
  <2>. QED  BY <2>1, <2>2
<1>4. ASSUME NEW e \in Interrupted(d, i) PROVE WellFormed(e)
  <2>1. \/ e \in {d, m}
        \/ ~IsDir(m, p) /\ e = [m EXCEPT ![p] = NoNode]
        \/ e = WriteFile(m, p, EMPTY).disk
    BY <1>4 DEF Interrupted
  <2>2. CASE ~IsDir(m, p) /\ e = [m EXCEPT ![p] = NoNode]
    <3>1. \A q \in Path : p \in StrictAncestors(q) => m[q] = NoNode
      BY <1>1, <1>2, <2>2, NothingBelow
    <3>. HIDE DEF m
    <3>. QED  BY <1>1, <1>2, <2>2, <3>1, PutKeepsTree
  <2>3. CASE e = WriteFile(m, p, EMPTY).disk
    BY <1>1, <1>2, <2>3, WriteKeepsTree, RunAssumption
  <2>. QED  BY <1>1, <2>1, <2>2, <2>3
<1>. QED  BY <1>3, <1>4

-----------------------------------------------------------------------------
(* The invariant of chained runs *)

Running == stage \in {"early", "packages", "late", "done", "failed"}

\* What the scan of a disk builds.
Scanned(d) == BuildMap(ScanInstructions(d, pkgs, ignores))

\* The run is one that diff planned, of what the scan found on the disk it started on.
Planned ==
    /\ run.paranoia = "yolo" /\ ~run.force_dry_run
    /\ run.early = early
    /\ run.originals = Originals
    /\ run.installs = [p \in Path |-> NoNode]
    /\ run.start \in DiskState /\ WellFormed(run.start)
    /\ ~ScanFails(run.start, pkgs, ignores)
    /\ run.instrs = ApplyDiff(Scanned(run.start), script_fs, pkgs)
    /\ OnePerPath(run.instrs)

RunInv == Planned /\ skipped = {} /\ ApplyInv /\ RemovalInv /\ BatchesDone

SettingsInv ==
    /\ pkgs \in Packages /\ script \in Scripts
    /\ \E s \in Settings : ignores = s.ignores /\ early = s.early
    /\ script_fs = BuildMap(script)

ReconcileInv ==
    /\ SettingsInv
    /\ TypeOK
    /\ WellFormed(disk)
    /\ stage = "scanned" => ~ScanFails(disk, pkgs, ignores) /\ sys_fs = Scanned(disk)
    /\ Running => RunInv

\* The settings are what the constants allow.
LEMMA SettingsTyped ==
    ASSUME SettingsInv
    PROVE  /\ pkgs \in Database
           /\ script \in SUBSET FsInstruction /\ IsFiniteSet(script)
           /\ \A i \in script : i.tag \in ScriptTags
           /\ ignores \in SUBSET Path /\ early \in SUBSET Path
           /\ script_fs \in FsMap
           /\ \A p \in Path : Follows(script, script_fs, p)
<1>1. /\ pkgs \in Database
      /\ script \in SUBSET FsInstruction /\ IsFiniteSet(script)
      /\ \A i \in script : i.tag \in ScriptTags
      /\ ignores \in SUBSET Path /\ early \in SUBSET Path
  BY ReconcileAssumption DEF SettingsInv, Database
<1>. QED  BY <1>1, BuildMapFollows DEF SettingsInv

\* What a scan that succeeds builds.
LEMMA ScannedFollows ==
    ASSUME SettingsInv, NEW d \in DiskState, ~ScanFails(d, pkgs, ignores)
    PROVE  /\ Scanned(d) \in FsMap
           /\ \A p \in Path : Follows(ScanInstructions(d, pkgs, ignores), Scanned(d), p)
  BY SettingsTyped, ScanTyped, ScanFinite, ReconcileAssumption, BuildMapFollows DEF Scanned

\* A run that begins.
Begins ==
    /\ run \in RunType /\ Planned
    /\ disk = run.start /\ stage = "early" /\ todo = Batch(FALSE) /\ approval = "none"
    /\ shown = {} /\ carried = {} /\ skipped = {} /\ blocked = {}

\* It has the invariants of an invocation.
LEMMA BeginsRight == Begins => RunInv
<1>1. SUFFICES ASSUME Begins PROVE RunInv
  OBVIOUS
<1>2. ApplyTypeOK
  BY <1>1, Batches DEF Begins, ApplyTypeOK, RunType
<1>3. BatchInv /\ InOrder
  BY <1>1 DEF Begins, BatchInv, InOrder
<1>4. ApprovalInv /\ OnlyAsApproved
  BY <1>1 DEF Begins, ApprovalInv, OnlyAsApproved
<1>5. RemovalInv
  BY <1>1 DEF Begins, RemovalInv, Gone, Accounted, RemovalBlockedByOthers, Current
<1>6. BatchesDone
  BY <1>1 DEF Begins, BatchesDone
<1>. QED  BY <1>1, <1>2, <1>3, <1>4, <1>5, <1>6 DEF Begins, RunInv, ApplyInv

\* What a package archive holds of a file is contents.
LEMMA OriginalsTyped ==
    ASSUME pkgs \in Database
    PROVE  Originals \in [Path -> Contents \cup {None}]
<1>1. ASSUME NEW p \in Path, pkgs[p] # None, pkgs[p].kind = "RegularFile" PROVE pkgs[p].data \in Contents
  BY <1>1, PkgFields DEF Database
<1>. QED  BY <1>1 DEF Originals

\* The invariant holds before the first run.
LEMMA InitRight ==
    ASSUME Init
    PROVE  ReconcileInv
<1>1. SettingsInv
  BY DEF Init, SettingsInv
<1>2. disk \in DiskState /\ WellFormed(disk)
  BY ReconcileAssumption DEF Init
<1>3. EmptyMap \in FsMap /\ sys_fs = EmptyMap /\ breakdowns = 0 /\ stage = "idle"
  BY DEF Init, EmptyMap, FsMap
<1>4. run.instrs = {}
  BY DEF Init, Invocation
<1>5. TypeOK
  BY <1>1, <1>2, <1>3, <1>4, SettingsTyped, ReconcileAssumption DEF TypeOK, Database
<1>. QED  BY <1>1, <1>2, <1>3, <1>5 DEF ReconcileInv, Running

\* What a step of a run does to the disk, and that the run goes on.
LEMMA RunStep ==
    ASSUME RunInv, ApplyNext
    PROVE  /\ stage \in {"early", "packages", "late"}
           /\ stage' \in {"early", "packages", "late", "done", "failed"}
           /\ run' = run /\ skipped' = {}
           /\ \/ UNCHANGED <<disk, carried, blocked>>
              \/ \E i \in Chunk :
                    /\ Applying /\ IsFirst(i) /\ i.tag # "Comment"
                    /\ Succeed(i) \/ GetStuck(i) \/ BreakDown(i)
<1>1. run.paranoia = "yolo" /\ skipped = {} /\ ~ChangesPackages
  BY DEF RunInv, Planned, ChangesPackages
<1>2. \/ SkipComments \/ CarryOut \/ EndBatch \/ PassPackages
  BY <1>1 DEF ApplyNext, AcceptChunk, GoThroughChunk, SkipChunk, AcceptOne, SkipOne, Abort, AsksFor,
              InstallPackages, FailPackages
<1>3. CASE SkipComments \/ EndBatch \/ PassPackages
  BY <1>1, <1>3 DEF SkipComments, EndBatch, PassPackages, ToLateBatch, Applying, history
<1>4. CASE CarryOut
  <2>1. Applying /\ ~IsComment
    BY <1>4 DEF CarryOut
  <2>2. CASE Log(Chunk)
    BY <1>1, <2>1, <2>2 DEF Log, Applying
  <2>3. CASE \E i \in Chunk : IsFirst(i) /\ (Succeed(i) \/ GetStuck(i) \/ BreakDown(i))
    <3>1. PICK i \in Chunk : IsFirst(i) /\ (Succeed(i) \/ GetStuck(i) \/ BreakDown(i))
      BY <2>3
    <3>2. run' = run /\ skipped' = {} /\ stage' \in {stage, "failed"}
      BY <1>1, <3>1 DEF Succeed, GetStuck, BreakDown, Stop
    <3>3. i.tag # "Comment"
      BY <2>1 DEF IsComment
    <3>. QED  BY <2>1, <3>1, <3>2, <3>3 DEF Applying
  <2>. QED  BY <1>4, <2>2, <2>3 DEF CarryOut
<1>. QED  BY <1>2, <1>3, <1>4

\* Carrying the plan out keeps the invariant.
LEMMA ContinueRight ==
    ASSUME ReconcileInv, Continue
    PROVE  ReconcileInv'
<1>1. ApplyNext /\ UNCHANGED <<pkgs, script, ignores, early, script_fs, sys_fs>>
  BY DEF Continue, config
<1>2. RunInv
  <2>1. stage \in {"early", "packages", "late"}
    BY <1>1 DEF ApplyNext, SkipComments, CarryOut, AcceptChunk, GoThroughChunk, SkipChunk, AcceptOne, SkipOne,
                Abort, EndBatch, PassPackages, InstallPackages, FailPackages, AsksFor, Applying
  <2>. QED  BY <2>1 DEF ReconcileInv, Running
<1>3. /\ run' = run /\ skipped' = {}
      /\ stage' \in {"early", "packages", "late", "done", "failed"}
  BY <1>1, <1>2, RunStep
<1>4. ApplyInv' /\ RemovalInv' /\ BatchesDone'
  BY <1>1, <1>2, NextPreserves, RemovalPreserves, StepKeepsBatches DEF RunInv
<1>5. SettingsInv'
  BY <1>1 DEF ReconcileInv, SettingsInv
<1>6. Planned'
  BY <1>1, <1>2, <1>3 DEF RunInv, Planned, Scanned, Originals
<1>7. RunInv'
  BY <1>3, <1>4, <1>6 DEF RunInv
<1>8. breakdowns' \in 0..MaxBreakdowns
  BY ReconcileAssumption DEF ReconcileInv, TypeOK, Continue
<1>9. TypeOK'
  BY <1>1, <1>3, <1>4, <1>8 DEF ReconcileInv, TypeOK, ApplyInv, ApplyTypeOK, RunType
<1>10. WellFormed(disk)'
  <2>1. disk \in DiskState /\ WellFormed(disk)
    BY DEF ReconcileInv, TypeOK
  <2>2. CASE disk' = disk
    BY <2>1, <2>2
  <2>3. ASSUME NEW i \in Chunk,
               disk' = Perform(disk, i, run.originals[i.path]).disk \/ disk' \in Interrupted(disk, i)
        PROVE  WellFormed(disk)'
    <3>1. i \in FsInstruction /\ run.originals[i.path] \in Contents \cup {None}
      <4>1. i \in FsInstruction
        BY <1>2 DEF Chunk, RunInv, ApplyInv, ApplyTypeOK, RunType
      <4>. QED  BY <1>2, <4>1, Operands DEF RunInv, ApplyInv, ApplyTypeOK, RunType
    <3>2. WellFormed(disk')
      BY <2>1, <2>3, <3>1, PerformKeepsTree
    <3>. QED  BY <3>2
  <2>. QED  BY <1>1, <1>2, <2>2, <2>3, RunStep DEF Succeed, GetStuck, BreakDown
<1>. QED  BY <1>3, <1>5, <1>7, <1>9, <1>10 DEF ReconcileInv, Running

\* The plan that a scan leads to is one that an invocation can have.
LEMMA PlanBegins ==
    ASSUME ReconcileInv, PlanChanges
    PROVE  Begins' /\ SettingsInv' /\ TypeOK' /\ stage' = "early" /\ UNCHANGED <<disk, breakdowns>>
<1>1. /\ stage = "scanned" /\ sys_fs = Scanned(disk) /\ ~ScanFails(disk, pkgs, ignores)
      /\ disk \in DiskState /\ WellFormed(disk)
      /\ SettingsInv /\ TypeOK
  BY DEF PlanChanges, ReconcileInv, TypeOK
<1>2. UNCHANGED <<pkgs, script, ignores, early, script_fs, breakdowns, disk>>
  BY DEF PlanChanges, config
<1>. DEFINE instrs == ApplyDiff(sys_fs, script_fs, pkgs)
<1>3. /\ run' = Invocation(instrs) /\ todo' = {i \in instrs : i.path \in early}
      /\ stage' = "early" /\ sys_fs' = EmptyMap /\ approval' = "none"
      /\ shown' = {} /\ carried' = {} /\ skipped' = {} /\ blocked' = {}
  BY DEF PlanChanges, Plan
<1>4. sys_fs \in FsMap /\ script_fs \in FsMap /\ pkgs \in Database /\ early \in SUBSET Path
  BY <1>1, ScannedFollows, SettingsTyped
<1>5. instrs \subseteq FsInstruction
  BY <1>4, DiffTyped
<1>6. OnePerPath(instrs)
  BY <1>4, PlansOfDiff DEF FsMap
<1>. HIDE DEF instrs
<1>7. /\ run'.paranoia = "yolo" /\ run'.force_dry_run = FALSE /\ run'.instrs = instrs
      /\ run'.early = early /\ run'.start = disk /\ run'.originals = Originals
      /\ run'.installs = [p \in Path |-> NoNode]
      /\ run' \in RunType
  <2>1. Originals \in [Path -> Contents \cup {None}] /\ [p \in Path |-> NoNode] \in DiskState
    BY <1>4, OriginalsTyped DEF DiskState
  <2>. QED  BY <1>1, <1>3, <1>4, <1>5, <2>1 DEF Invocation, RunType
<1>8. Planned'
  BY <1>1, <1>2, <1>6, <1>7 DEF Planned, Scanned, Originals, instrs
<1>9. Begins'
  <2>1. (Batch(FALSE) = {i \in run.instrs : IsEarly(i)})'
    BY Batches, PTL
  <2>2. todo' = Batch(FALSE)'
    BY <1>3, <1>7, <2>1 DEF IsEarly
  <2>. QED  BY <1>2, <1>3, <1>7, <1>8, <2>2 DEF Begins
<1>10. SettingsInv'
  BY <1>1, <1>2 DEF SettingsInv
<1>11. TypeOK'
  BY <1>1, <1>2, <1>3, <1>5, <1>7 DEF TypeOK, EmptyMap, FsMap
<1>. QED  BY <1>2, <1>3, <1>9, <1>10, <1>11

\* The invariant holds again where a run begins.
LEMMA PlanRight ==
    ASSUME ReconcileInv, PlanChanges
    PROVE  ReconcileInv'
<1>1. Begins' /\ SettingsInv' /\ TypeOK' /\ stage' = "early" /\ disk' = disk
  BY PlanBegins
<1>2. Begins' => RunInv'
  BY BeginsRight, PTL
<1>3. WellFormed(disk)'
  BY <1>1 DEF ReconcileInv
<1>. QED  BY <1>1, <1>2, <1>3 DEF ReconcileInv

\* The invariant is kept by every step.
LEMMA StepRight ==
    ASSUME ReconcileInv, [Next]_vars
    PROVE  ReconcileInv'
<1>1. CASE ScanDisk
  <2>1. /\ ~ScanFails(disk, pkgs, ignores) /\ stage' = "scanned" /\ sys_fs' = Scanned(disk)
        /\ UNCHANGED <<pkgs, script, ignores, early, script_fs, breakdowns, run, disk>>
    BY <1>1 DEF ScanDisk, config, Scanned
  <2>2. SettingsInv' /\ disk \in DiskState /\ WellFormed(disk) /\ SettingsInv
    BY <2>1 DEF ReconcileInv, SettingsInv, TypeOK
  <2>3. sys_fs' \in FsMap
    BY <2>1, <2>2, ScannedFollows
  <2>4. TypeOK'
    BY <2>1, <2>3 DEF ReconcileInv, TypeOK
  <2>. QED  BY <2>1, <2>2, <2>4 DEF ReconcileInv, Running, Scanned
<1>2. CASE PlanChanges
  BY <1>2, PlanRight
<1>3. CASE Refuse
  <2>1. /\ stage' = "refused" /\ sys_fs' = EmptyMap
        /\ UNCHANGED <<pkgs, script, ignores, early, script_fs, breakdowns, run, disk>>
    BY <1>3 DEF Refuse, config
  <2>2. SettingsInv'
    BY <2>1 DEF ReconcileInv, SettingsInv
  <2>3. TypeOK'
    BY <2>1 DEF ReconcileInv, TypeOK, EmptyMap, FsMap
  <2>. QED  BY <2>1, <2>2, <2>3 DEF ReconcileInv, Running
<1>4. CASE Continue
  BY <1>4, ContinueRight
<1>5. CASE UNCHANGED vars
  <2>1. UNCHANGED <<pkgs, script, ignores, early, script_fs, sys_fs, breakdowns>> /\ UNCHANGED applyVars
    BY <1>5 DEF vars, config
  <2>2. UNCHANGED <<run, disk, stage, todo, approval, shown, carried, skipped, blocked>>
    BY <2>1 DEF applyVars, history
  <2>3. SettingsInv'
    BY <2>1 DEF ReconcileInv, SettingsInv
  <2>4. TypeOK'
    BY <2>1, <2>2 DEF ReconcileInv, TypeOK
  <2>5. RunInv => RunInv'
    <3>1. SUFFICES ASSUME RunInv PROVE RunInv'
      OBVIOUS
    <3>2. ApplyInv' /\ RemovalInv' /\ BatchesDone'
      BY <2>1, <3>1, NextPreserves, RemovalPreserves, StepKeepsBatches DEF RunInv
    <3>3. Planned'
      BY <2>1, <2>2, <3>1 DEF RunInv, Planned, Scanned, Originals
    <3>. QED  BY <2>2, <3>1, <3>2, <3>3 DEF RunInv
  <2>6. stage' = "scanned" => (~ScanFails(disk, pkgs, ignores) /\ sys_fs = Scanned(disk))'
    BY <2>1, <2>2 DEF ReconcileInv, Scanned
  <2>. QED  BY <2>2, <2>3, <2>4, <2>5, <2>6 DEF ReconcileInv, Running
<1>. QED  BY <1>1, <1>2, <1>3, <1>4, <1>5 DEF Next

\* The invariant holds in every reachable state.
THEOREM ReconcileInvariant == Spec => []ReconcileInv
  BY InitRight, StepRight, PTL DEF Spec

\* cmd_apply_changes, run after run: what is scanned, folded, diffed and carried out
\* is always a state of its kind; the instructions of the scan have the operands of
\* their operations, so have those of the plan, and no step leaves them.
THEOREM ReconcileTyped == Spec => []TypeOK
<1>1. ReconcileInv => TypeOK
  BY DEF ReconcileInv
<1>. QED  BY <1>1, ReconcileInvariant, PTL

\* apply_single_file, run after run: whatever exists, exists in directories, also
\* after an instruction that failed or was cut short.
THEOREM DiskIsTree == Spec => []WellFormed(disk)
<1>1. ReconcileInv => WellFormed(disk)
  BY DEF ReconcileInv
<1>. QED  BY <1>1, ReconcileInvariant, PTL

-----------------------------------------------------------------------------
(* What the two maps say of a path *)

\* What is ignored is ignored with all that is below it.
LEMMA IgnoredBelow ==
    ASSUME NEW ig, NEW p \in Path, NEW a \in Ancestors[p], Ignored(ig, a)
    PROVE  Ignored(ig, p)
  BY PathAssumption DEF Ignored

\* Of a path that a set of instructions avoids, with all below it, its map has nothing.
LEMMA NothingSaid ==
    ASSUME NEW S, NEW m, NEW p \in Path, Follows(S, m, p), NEW ig, Ignored(ig, p),
           S \subseteq FsInstruction, \A i \in S : ~Ignored(ig, i.path)
    PROVE  m[p] = NoNode
<1>1. OnPath(S, p, CreateTags \cup MetaTags \cup {"Remove"}) = {}
  BY DEF OnPath
<1>2. ~CreatedBelow(S, p)
  <2>1. \A i \in S : p \notin Ancestors[i.path]
    BY IgnoredBelow, Operands
  <2>. QED  BY <2>1 DEF CreatedBelow, StrictAncestors
<1>. QED  BY <1>1, <1>2 DEF Follows, EntryFollows

\* The plan, path by path.
LEMMA PlanAt ==
    ASSUME SettingsInv, Planned
    PROVE  LET b == Scanned(run.start) IN
           /\ b \in FsMap /\ script_fs \in FsMap /\ pkgs \in Database
           /\ run.instrs \subseteq FsInstruction
           /\ \A i \in run.instrs : i.path \in Path /\ i \in DiffAt(b, script_fs, pkgs, i.path)
           /\ \A p \in Path : \A i \in DiffAt(b, script_fs, pkgs, p) : i \in run.instrs /\ i.path = p
           /\ \A p \in Path : \A tags :
                 InPlan(p, tags) <=> \E i \in DiffAt(b, script_fs, pkgs, p) : i.tag \in tags
<1>. DEFINE b == Scanned(run.start)
<1>1. b \in FsMap /\ script_fs \in FsMap /\ pkgs \in Database
  BY ScannedFollows, SettingsTyped DEF Planned
<1>2. run.instrs = ApplyDiff(b, script_fs, pkgs)
  BY DEF Planned
<1>. HIDE DEF b
<1>3. /\ run.instrs \subseteq FsInstruction
      /\ \A i \in FsInstruction : i \in run.instrs <=> i \in DiffAt(b, script_fs, pkgs, i.path)
  BY <1>1, <1>2, DiffTyped
<1>4. \A p \in Path : \A i \in DiffAt(b, script_fs, pkgs, p) : i \in FsInstruction /\ i.path = p
  BY <1>1, DiffAtTyped
<1>5. /\ \A i \in run.instrs : i.path \in Path /\ i \in DiffAt(b, script_fs, pkgs, i.path)
      /\ \A p \in Path : \A i \in DiffAt(b, script_fs, pkgs, p) : i \in run.instrs /\ i.path = p
  BY <1>3, <1>4, Operands
<1>6. ASSUME NEW p \in Path, NEW tags
      PROVE  InPlan(p, tags) <=> \E i \in DiffAt(b, script_fs, pkgs, p) : i.tag \in tags
  BY <1>5 DEF InPlan
<1>. QED  BY <1>1, <1>3, <1>5, <1>6 DEF b

\* The plan has nothing for what is ignored and not mentioned by the script.
LEMMA PlanAvoidsIgnored ==
    ASSUME SettingsInv, Planned, Sensible, NEW p \in Path, Ignored(ignores, p)
    PROVE  /\ script_fs[p] = NoNode /\ Scanned(run.start)[p] = NoNode
           /\ \A i \in run.instrs : i.path # p
<1>. DEFINE S == ScanInstructions(run.start, pkgs, ignores)
            b == Scanned(run.start)
<1>1. script_fs[p] = NoNode
  BY SettingsTyped, NothingSaid DEF Sensible
<1>2. b[p] = NoNode
  <2>1. run.start \in DiskState /\ ~ScanFails(run.start, pkgs, ignores) /\ pkgs \in Database
    BY SettingsTyped DEF Planned
  <2>2. S \subseteq FsInstruction /\ Follows(S, b, p)
    BY <2>1, ScanTyped, ScannedFollows
  <2>3. ASSUME NEW i \in S PROVE ~Ignored(ignores, i.path)
    BY <2>1, <2>2, ScanTyped, PathTyped, Operands
  <2>. HIDE DEF S, b
  <2>. QED  BY <2>2, <2>3, NothingSaid
<1>3. DiffAt(b, script_fs, pkgs, p) = {}
  BY <1>1, <1>2 DEF DiffAt, DiffPath
<1>. QED  BY <1>1, <1>2, <1>3, PlanAt

-----------------------------------------------------------------------------
(* What the scan says of a path *)

\* Below what is no directory the scan finds nothing to create.
LEMMA NoneCreatedBelow ==
    ASSUME NEW d \in DiskState, WellFormed(d), NEW db \in Database, NEW ig, ~ScanFails(d, db, ig),
           NEW p \in Path, ~IsDir(d, p)
    PROVE  ~CreatedBelow(ScanInstructions(d, db, ig), p)
<1>1. SUFFICES ASSUME NEW i \in ScanInstructions(d, db, ig), i.tag \in CreateTags,
                      p \in StrictAncestors(i.path)
               PROVE  FALSE
  BY DEF CreatedBelow
<1>2. i \in FsInstruction /\ i \in PathInstructions(d, db, ig, i.path) /\ i.path \in Path
  BY ScanTyped, Operands
<1>3. d[i.path] = NoNode
  BY <1>1, <1>2, NothingBelow
<1>4. i = Instr(i.path, "Remove", None)
  BY <1>2, <1>3 DEF PathInstructions
<1>5. i.tag = "Remove"
  BY <1>4 DEF Instr
<1>. QED  BY <1>1, <1>5 DEF CreateTags

\* What a script can say of a path.
LEMMA ScriptEntry ==
    ASSUME SettingsInv, NEW p \in Path, script_fs[p] # NoNode
    PROVE  script_fs[p].entry.kind \in {"Removed", "Unchanged", "Directory", "File", "Symlink"}
<1>1. /\ script \in SUBSET FsInstruction /\ IsFiniteSet(script) /\ Follows(script, script_fs, p)
      /\ \A i \in script : i.tag \in ScriptTags
  BY SettingsTyped
<1>2. CASE \E k \in OnPath(script, p, CreateTags) : script_fs[p].entry = CreatedEntry(k)
  <2>1. PICK k \in OnPath(script, p, CreateTags) : script_fs[p].entry = CreatedEntry(k)
    BY <1>2
  <2>2. k.tag \in {"CreateDirectory", "CreateFile", "CreateSymlink"}
    BY <1>1, <2>1 DEF OnPath, ScriptTags, CreateTags, MetaTags
  <2>3. CreatedEntry(k).kind \in {"Directory", "File", "Symlink"}
    BY <2>2 DEF CreatedEntry, Directory, Entry
  <2>. QED  BY <2>1, <2>3
<1>3. CASE script_fs[p].entry \in {Removed, Unchanged}
  BY <1>3 DEF Removed, Unchanged, Entry
<1>4. CASE script_fs[p] = FreshNode(Directory, DEFAULT_DIR_MODE)
  BY <1>4 DEF FreshNode, Directory, Entry
<1>. QED  BY <1>1, <1>2, <1>3, <1>4, EntryFrom

Fair == Sensible /\ Tractable

\* What a package or the script describes is something.
LEMMA DescribedIsSomething ==
    /\ \A pkg \in PkgEntry : FromPackage(pkg) \in Description /\ FromPackage(pkg) # None
    /\ \A x \in FsNode :
          LET said == [ kind |-> x.entry.kind, data |-> x.entry.data, mode |-> x.mode,
                        owner |-> x.owner, group |-> x.group ]
          IN x.entry \notin {Removed, Unchanged} => said \in Description /\ said # None
<1>1. ASSUME NEW pkg \in PkgEntry PROVE FromPackage(pkg) \in Description
  BY PkgFields DEF FromPackage, Description, Arg
<1>2. ASSUME NEW x \in FsNode, x.entry \notin {Removed, Unchanged}
      PROVE  [ kind |-> x.entry.kind, data |-> x.entry.data, mode |-> x.mode,
               owner |-> x.owner, group |-> x.group ] \in Description
  <2>1. x.entry \in FsEntry /\ x.mode \in Mode \cup {None} /\ x.owner \in Name \cup {None}
        /\ x.group \in Name \cup {None}
    BY NodeFields
  <2>2. x.entry.data \in Arg
    BY <2>1 DEF FsEntry, Arg
  <2>3. x.entry.kind \in {"Directory", "File", "Symlink", "Fifo", "BlockDevice", "CharDevice"}
    BY <1>2, <2>1 DEF FsEntry, Removed, Unchanged, Entry
  <2>. QED  BY <2>1, <2>2, <2>3 DEF Description
<1>. QED  BY <1>1, <1>2, ReconcileAssumption

\* What is on disk is of the package's kind and has its contents.
AsPackaged(x, pkg) == pkg.kind \in {"Other", "Unknown"} \/ (x.kind = FromPackage(pkg).kind /\ x.data = pkg.data)

\* The creation that would recreate a path leads to the entry that it is.
LEMMA RecreationEntry ==
    ASSUME NEW d \in DiskState, NEW p \in Path, d[p] # NoNode, d[p].kind # "Socket"
    PROVE  CreatedEntry(Recreation(d, p)) = Entry(d[p].kind, d[p].data)
<1>. DEFINE x == d[p]
<1>1. /\ x.kind \in { "Directory", "Fifo", "File", "Symlink", "BlockDevice", "CharDevice" }
      /\ x.kind \in {"Directory", "Fifo"} => x.data = None
  BY InodeFields DEF DiskState
<1>2. \A t, a : Instr(p, t, a).arg = a /\ Instr(p, t, a).tag = t
  BY DEF Instr
<1>3. CASE x.kind = "File"
  BY <1>2, <1>3 DEF Recreation, CreatedEntry, Directory, Entry
<1>4. CASE x.kind = "Directory"
  BY <1>1, <1>2, <1>4 DEF Recreation, CreatedEntry, Directory, Entry
<1>5. CASE x.kind = "Symlink"
  BY <1>2, <1>5 DEF Recreation, CreatedEntry, Directory, Entry
<1>6. CASE x.kind = "Fifo"
  BY <1>1, <1>2, <1>6 DEF Recreation, CreatedEntry, Directory, Entry
<1>7. CASE x.kind = "BlockDevice"
  BY <1>2, <1>7 DEF Recreation, CreatedEntry, Directory, Entry
<1>8. CASE x.kind = "CharDevice"
  BY <1>2, <1>8 DEF Recreation, CreatedEntry, Directory, Entry
<1>. QED  BY <1>1, <1>3, <1>4, <1>5, <1>6, <1>7, <1>8

\* What the scan says of a path that exists and is not ignored: its metadata as it
\* is, where the package has others; and what it is, unless the package has the same.
LEMMA PathScanned ==
    ASSUME NEW d \in DiskState, NEW db \in Database, NEW ig, ~ScanFails(d, db, ig), NEW p \in Path,
           ~Ignored(ig, p), d[p] # NoNode
    PROVE  LET x == d[p]
               pkg == db[p]
               I == PathInstructions(d, db, ig, p)
               Sets(tag, actual, field) ==
                  /\ \A i \in I : i.tag = tag => i.arg = actual
                  /\ (\A i \in I : i.tag # tag) =>
                        IF pkg = None THEN x.kind = "Socket" ELSE field \in {None, actual}
           IN /\ x.kind # "Symlink" => Sets("SetMode", x.mode, pkg.mode)
              /\ Sets("SetOwner", x.owner, pkg.owner)
              /\ Sets("SetGroup", x.group, pkg.group)
              /\ \A i \in I : i.tag \in MetaTags \cup CreateTags \cup {"Remove"}
              /\ \/ \E k \in I :
                       /\ k.tag \in CreateTags /\ CreatedEntry(k) = Entry(x.kind, x.data)
                       /\ \A j \in I : j.tag \in CreateTags => j = k \/ TagRank[j.tag] < TagRank[k.tag]
                 \/ /\ \A i \in I : i.tag \notin CreateTags
                    /\ IF \E i \in I : i.tag = "Remove" THEN pkg # None /\ x.kind = "Socket"
                       ELSE IF pkg = None THEN x.kind = "Socket" /\ I = {} ELSE AsPackaged(x, pkg)
<1>. DEFINE x == d[p]
            pkg == db[p]
            I == PathInstructions(d, db, ig, p)
            k == Recreation(d, p)
            W == WrongMetadata(d, p, pkg)
            Sets(S, tag, actual, field) ==
               /\ \A i \in S : i.tag = tag => i.arg = actual
               /\ (\A i \in S : i.tag # tag) => field \in {None, actual}
            Kinds == { "Directory", "Fifo", "Socket", "File", "Symlink", "BlockDevice", "CharDevice" }
            Greatest1(i) ==
               /\ i.tag \in CreateTags /\ CreatedEntry(i) = Entry(x.kind, x.data)
               /\ \A j \in I : j.tag \in CreateTags => j = i \/ TagRank[j.tag] < TagRank[i.tag]
<1>1. x \in Inode /\ x.kind \in Kinds
  BY InodeFields DEF DiskState
<1>2. \A t, a : Instr(p, t, a).tag = t /\ Instr(p, t, a).arg = a
  BY DEF Instr
<1>3. FromFs(d, p) = IF x.kind = "Socket" THEN {}
                     ELSE {k} \cup (IF x.kind = "Symlink" THEN {} ELSE {Instr(p, "SetMode", x.mode)})
                          \cup {Instr(p, "SetOwner", x.owner), Instr(p, "SetGroup", x.group)}
  BY FromFsIs
<1>4. x.kind # "Socket" => k.tag \in CreateTags /\ CreatedEntry(k) = Entry(x.kind, x.data)
  BY RecreationTyped, RecreationEntry
<1>5. x.kind = "Symlink" => k = Instr(p, "CreateSymlink", x.data)
  BY DEF Recreation
<1>6. I = IF pkg = None THEN FromFs(d, p) ELSE PackagedInstructions(d, p, pkg)
  BY DEF PathInstructions
<1>7. pkg # None => pkg \in PkgEntry
  BY DEF Database
<1>8. \A a, b : Instr(p, "CreateFile", a).tag \in CreateTags /\ Instr(p, "CreateSymlink", a).tag \in CreateTags
  BY <1>2 DEF CreateTags
<1>. HIDE DEF x, pkg, I, k
<1>11. \A j \in FromFs(d, p) :
          \/ j = k
          \/ (j.tag = "SetMode" /\ j.arg = x.mode)
          \/ (j.tag = "SetOwner" /\ j.arg = x.owner)
          \/ (j.tag = "SetGroup" /\ j.arg = x.group)
  BY <1>2, <1>3
<1>12. \A j \in TypeConflict(d, p) : j.tag = "Remove" \/ j \in FromFs(d, p)
  BY <1>2 DEF TypeConflict
<1>13. x.kind # "Socket" => k \in TypeConflict(d, p)
  BY <1>3 DEF TypeConflict
<1>14. x.kind = "Socket" => TypeConflict(d, p) = {Instr(p, "Remove", None)}
  BY <1>3 DEF TypeConflict
<1>9. CASE pkg = None
  <2>1. I = FromFs(d, p)
    BY <1>6, <1>9
  <2>2. CASE x.kind = "Socket"
    BY <1>2, <1>3, <1>9, <2>1, <2>2 DEF x, pkg, I, k
  <2>3. CASE x.kind # "Socket"
    <3>1. \A i \in I : i = k \/ (i.tag = "SetMode" /\ i.arg = x.mode)
                       \/ (i.tag = "SetOwner" /\ i.arg = x.owner) \/ (i.tag = "SetGroup" /\ i.arg = x.group)
      BY <1>2, <1>3, <2>1, <2>3
    <3>2. /\ k \in I
          /\ x.kind # "Symlink" => \E i \in I : i.tag = "SetMode"
          /\ \E i \in I : i.tag = "SetOwner"
          /\ \E i \in I : i.tag = "SetGroup"
      BY <1>2, <1>3, <2>1, <2>3
    <3>. QED  BY <1>4, <1>9, <2>3, <3>1, <3>2 DEF x, pkg, I, MetaTags, CreateTags
  <2>. QED  BY <2>2, <2>3
<1>10. CASE pkg # None
  <2>1. pkg.kind \in {"RegularFile", "Symlink", "Directory", "Other", "Unknown"}
    BY <1>7, <1>10, PkgFields
  <2>. DEFINE T == CASE pkg.kind = "RegularFile" ->
                          (IF x.kind = "File" THEN {} ELSE TypeConflict(d, p)) \cup ContentsIssue(d, p, pkg)
                     [] pkg.kind = "Symlink" ->
                          IF x.kind # "Symlink" THEN TypeConflict(d, p)
                          ELSE IF x.data = pkg.data THEN {} ELSE {Instr(p, "CreateSymlink", x.data)}
                     [] pkg.kind = "Directory" -> IF x.kind = "Directory" THEN {} ELSE TypeConflict(d, p)
                     [] pkg.kind = "Other" ->
                          IF x.kind \in {"File", "Directory", "Symlink"} THEN TypeConflict(d, p) ELSE {}
                     [] pkg.kind = "Unknown" -> IF x.kind = "File" THEN TypeConflict(d, p) ELSE {}
  <2>2. I = W \cup T
    BY <1>6, <1>10 DEF PackagedInstructions, x, pkg
  <2>3. /\ \A i \in W : \/ i.tag = "SetMode" /\ i.arg = x.mode
                        \/ i.tag = "SetOwner" /\ i.arg = x.owner
                        \/ i.tag = "SetGroup" /\ i.arg = x.group
        /\ pkg.mode \in {None, x.mode} \/ \E i \in W : i.tag = "SetMode"
        /\ pkg.owner \in {None, x.owner} \/ \E i \in W : i.tag = "SetOwner"
        /\ pkg.group \in {None, x.group} \/ \E i \in W : i.tag = "SetGroup"
    BY <1>2 DEF WrongMetadata, WrongField, x, pkg
  <2>4. T \in { {}, TypeConflict(d, p), ContentsIssue(d, p, pkg),
                TypeConflict(d, p) \cup ContentsIssue(d, p, pkg), {Instr(p, "CreateSymlink", x.data)} }
    BY <2>1
  <2>13. /\ pkg.kind = "RegularFile" /\ x.kind = "File" => T = ContentsIssue(d, p, pkg)
         /\ pkg.kind = "RegularFile" /\ x.kind # "File" => T = TypeConflict(d, p) \cup ContentsIssue(d, p, pkg)
         /\ pkg.kind = "Symlink" /\ x.kind = "Symlink" =>
               T = IF x.data = pkg.data THEN {} ELSE {Instr(p, "CreateSymlink", x.data)}
         /\ (\/ pkg.kind = "Symlink" /\ x.kind # "Symlink"
             \/ pkg.kind = "Directory" /\ x.kind # "Directory"
             \/ pkg.kind = "Other" /\ x.kind \in {"File", "Directory", "Symlink"}
             \/ pkg.kind = "Unknown" /\ x.kind = "File") => T = TypeConflict(d, p)
         /\ (\/ pkg.kind = "Other" /\ x.kind \notin {"File", "Directory", "Symlink"}
             \/ pkg.kind = "Directory" /\ x.kind = "Directory"
             \/ pkg.kind = "Unknown" /\ x.kind # "File") => T = {}
    OBVIOUS
  <2>. HIDE DEF T, Greatest1, W
  <2>5. \A i \in T : \/ i.tag = "Remove" \/ i.tag \in CreateTags
                     \/ i.tag = "SetMode" /\ i.arg = x.mode
                     \/ i.tag = "SetOwner" /\ i.arg = x.owner
                     \/ i.tag = "SetGroup" /\ i.arg = x.group
    <3>1. \A i \in TypeConflict(d, p) :
             \/ i.tag = "Remove" \/ i.tag \in CreateTags
             \/ i.tag = "SetMode" /\ i.arg = x.mode
             \/ i.tag = "SetOwner" /\ i.arg = x.owner
             \/ i.tag = "SetGroup" /\ i.arg = x.group
      <4>1. ASSUME x.kind = "Socket", NEW i \in TypeConflict(d, p) PROVE i.tag = "Remove"
        BY <1>2, <1>14, <4>1
      <4>. QED  BY <1>4, <1>11, <1>12, <4>1
    <3>2. \A i \in ContentsIssue(d, p, pkg) : i.tag \in CreateTags
      BY <1>8 DEF ContentsIssue
    <3>. QED  BY <1>8, <2>4, <3>1, <3>2
  <2>6. ASSUME NEW i \in I, i.tag \in CreateTags PROVE i \in T
    BY <2>2, <2>3, <2>6 DEF CreateTags
  <2>7. TagRank["CreateFile"] < TagRank["CreateSymlink"]
    BY TagRanks
  <2>8. \/ \E i \in T : Greatest1(i)
        \/ /\ \A i \in T : i.tag \notin CreateTags
           /\ IF \E i \in T : i.tag = "Remove" THEN x.kind = "Socket" ELSE AsPackaged(x, pkg)
    <3>1. ASSUME T = TypeConflict(d, p)
          PROVE  IF x.kind = "Socket" THEN T = {Instr(p, "Remove", None)} ELSE k \in T /\ Greatest1(k)
      <4>1. ASSUME NEW j \in T, j.tag \in CreateTags PROVE j = k
        BY <1>11, <1>12, <3>1, <4>1 DEF CreateTags
      <4>. QED  BY <1>4, <1>13, <1>14, <2>6, <3>1, <4>1 DEF Greatest1
    <3>2. CASE pkg.kind = "RegularFile" /\ x.kind = "File"
      <4>1. T = ContentsIssue(d, p, pkg)
        BY <2>13, <3>2
      <4>2. CASE x.data = pkg.data
        BY <3>2, <4>1, <4>2 DEF ContentsIssue, AsPackaged, FromPackage, x
      <4>3. CASE x.data # pkg.data
        <5>1. T = {Instr(p, "CreateFile", ReadContents(d, p))}
          BY <3>2, <4>1, <4>3 DEF ContentsIssue, x
        <5>2. ReadContents(d, p) = x.data
          <6>1. Resolve(d, p) = p
            BY <3>2 DEF Resolve, x
          <6>. QED  BY <3>2, <6>1, NowhereAssumption DEF ReadContents, x
        <5>3. CreatedEntry(Instr(p, "CreateFile", x.data)) = Entry("File", x.data)
          BY <1>2 DEF CreatedEntry
        <5>. QED  BY <1>8, <2>6, <3>2, <5>1, <5>2, <5>3 DEF Greatest1
      <4>. QED  BY <4>2, <4>3
    <3>3. CASE pkg.kind = "RegularFile" /\ x.kind # "File"
      <4>1. x.kind = "Symlink"
        <5>1. ReadContents(d, p) # None
          BY <1>10, <3>3 DEF ScanFails, x, pkg
        <5>2. Resolve(d, p) # p
          BY <3>3, <5>1 DEF ReadContents, x
        <5>. QED  BY <5>2 DEF Resolve, x
      <4>2. T = TypeConflict(d, p) \cup {Instr(p, "CreateFile", ReadContents(d, p))}
        BY <2>13, <3>3 DEF ContentsIssue, x
      <4>3. k \in T
        BY <1>13, <4>1, <4>2
      <4>4. ASSUME NEW j \in T, j.tag \in CreateTags PROVE j = k \/ j.tag = "CreateFile"
        BY <1>2, <1>11, <1>12, <4>2, <4>4 DEF CreateTags
      <4>5. k.tag = "CreateSymlink" /\ k.tag \in CreateTags /\ CreatedEntry(k) = Entry(x.kind, x.data)
        BY <1>2, <1>4, <1>5, <4>1
      <4>6. Greatest1(k)
        BY <2>6, <2>7, <4>4, <4>5 DEF Greatest1
      <4>. QED  BY <4>3, <4>6
    <3>4. CASE pkg.kind = "Symlink" /\ x.kind = "Symlink"
      <4>1. T = IF x.data = pkg.data THEN {} ELSE {k}
        BY <1>5, <2>13, <3>4
      <4>. QED  BY <1>4, <2>6, <3>4, <4>1 DEF AsPackaged, FromPackage, Greatest1
    <3>5. CASE \/ pkg.kind = "Symlink" /\ x.kind # "Symlink"
               \/ pkg.kind = "Directory" /\ x.kind # "Directory"
               \/ pkg.kind = "Other" /\ x.kind \in {"File", "Directory", "Symlink"}
               \/ pkg.kind = "Unknown" /\ x.kind = "File"
      <4>1. T = TypeConflict(d, p)
        BY <2>13, <3>5
      <4>. QED  BY <1>2, <3>1, <4>1 DEF CreateTags
    <3>6. CASE \/ pkg.kind = "Other" /\ x.kind \notin {"File", "Directory", "Symlink"}
               \/ pkg.kind = "Unknown" /\ x.kind # "File"
      BY <2>13, <3>6 DEF AsPackaged
    <3>7. CASE pkg.kind = "Directory" /\ x.kind = "Directory"
      <4>1. pkg.data = None /\ x.data = None
        BY <1>1, <1>7, <1>10, <3>7, InodeFields, PkgFields
      <4>. QED  BY <2>13, <3>7, <4>1 DEF AsPackaged, FromPackage
    <3>. QED  BY <2>1, <3>2, <3>3, <3>4, <3>5, <3>6, <3>7
  <2>9. (\E i \in I : i.tag = "Remove") <=> \E i \in T : i.tag = "Remove"
    BY <2>2, <2>3
  <2>10. \A i \in I : i.tag \in MetaTags \cup CreateTags \cup {"Remove"}
    BY <2>2, <2>3, <2>5 DEF MetaTags
  <2>11. Sets(I, "SetMode", x.mode, pkg.mode) /\ Sets(I, "SetOwner", x.owner, pkg.owner)
         /\ Sets(I, "SetGroup", x.group, pkg.group)
    BY <2>2, <2>3, <2>5 DEF CreateTags
  <2>12. \/ \E i \in I : Greatest1(i)
         \/ /\ \A i \in I : i.tag \notin CreateTags
            /\ IF \E i \in I : i.tag = "Remove" THEN x.kind = "Socket" ELSE AsPackaged(x, pkg)
    BY <2>2, <2>6, <2>8, <2>9
  <2>. QED  BY <1>10, <2>10, <2>11, <2>12 DEF x, pkg, I, Greatest1
<1>. QED  BY <1>9, <1>10

\* How the node that the scan leads to speaks of what is on disk: what the node says of
\* a field is so, or nothing was said, as the package has no other value.
ScanField(said, actual, pkg, packaged, implied) ==
    said = actual \/ (pkg # None /\ packaged \in {None, actual} /\ said = implied)

ScanSays(b, x, pkg) ==
    IF x = NoNode
    THEN IF pkg = None THEN b = NoNode ELSE b # NoNode /\ b.entry = Removed
    ELSE IF b = NoNode
    THEN IF pkg = None THEN x.kind = "Socket"
         ELSE /\ AsPackaged(x, pkg)
              /\ x.kind # "Symlink" => pkg.mode \in {None, x.mode}
              /\ pkg.owner \in {None, x.owner} /\ pkg.group \in {None, x.group}
    ELSE /\ b.entry = Unchanged => pkg # None /\ AsPackaged(x, pkg)
         /\ b.entry = Removed => x.kind = "Socket"
         /\ b.entry \notin {Removed, Unchanged} => b.entry = Entry(x.kind, x.data)
         /\ x.kind # "Symlink" => ScanField(b.mode, x.mode, pkg, pkg.mode, ImpliedMode(b.entry))
         /\ ScanField(b.owner, x.owner, pkg, pkg.owner, ImpliedName(b.entry))
         /\ ScanField(b.group, x.group, pkg, pkg.group, ImpliedName(b.entry))

\* The map that the scan builds speaks so of every path that is not ignored.
LEMMA ScanReads ==
    ASSUME SettingsInv, NEW d \in DiskState, WellFormed(d), ~ScanFails(d, pkgs, ignores),
           NEW p \in Path, ~Ignored(ignores, p)
    PROVE  ScanSays(Scanned(d)[p], d[p], pkgs[p])
<1>. DEFINE m == Scanned(d)
            b == m[p]
            x == d[p]
            pkg == pkgs[p]
            S == ScanInstructions(d, pkgs, ignores)
            I == PathInstructions(d, pkgs, ignores, p)
<1>1. pkgs \in Database /\ S \in SUBSET FsInstruction /\ Follows(S, m, p) /\ I = {i \in S : i.path = p}
  BY SettingsTyped, ScannedFollows, ScanTyped, ScanAt
<1>2. ~IsDir(d, p) => ~CreatedBelow(S, p)
  BY <1>1, NoneCreatedBelow
<1>3. \A t, a : Instr(p, t, a).tag = t
  BY DEF Instr
<1>4. I = IF x = NoNode THEN (IF pkg = None THEN {} ELSE {Instr(p, "Remove", None)})
          ELSE IF pkg = None THEN FromFs(d, p) ELSE PackagedInstructions(d, p, pkg)
  BY DEF PathInstructions
<1>. DEFINE fresh == FreshNode(Directory, DEFAULT_DIR_MODE)
            Is(tag) == \E i \in I : i.tag = tag
<1>5. fresh # NoNode /\ fresh.entry = Directory
  BY NodeTypes, ValueAssumption DEF FreshNode
<1>6. /\ Removed # Unchanged /\ Directory \notin {Removed, Unchanged}
      /\ ImpliedMode(Directory) = DEFAULT_DIR_MODE /\ ImpliedName(Directory) = ROOT
  BY DEF Removed, Unchanged, Directory, Entry, ImpliedMode, ImpliedName
<1>. HIDE DEF m, I, S
<1>7. CASE x = NoNode
  <2>1. ~CreatedBelow(S, p)
    BY <1>2, <1>7 DEF IsDir
  <2>2. CASE pkg = None
    <3>1. I = {}
      BY <1>4, <1>7, <2>2
    <3>2. b = NoNode
      BY <1>1, <2>1, <3>1, NodeRead
    <3>. QED  BY <1>7, <2>2, <3>2 DEF ScanSays, m
  <2>3. CASE pkg # None
    <3>1. I = {Instr(p, "Remove", None)}
      BY <1>4, <1>7, <2>3
    <3>2. b # NoNode /\ b.entry = Removed
      BY <1>1, <1>3, <3>1, NodeRead DEF CreateTags
    <3>. QED  BY <1>7, <2>3, <3>2 DEF ScanSays, m
  <2>. QED  BY <2>2, <2>3
<1>8. CASE x # NoNode
  <2>. DEFINE Sets(tag, actual, field) ==
                /\ \A i \in I : i.tag = tag => i.arg = actual
                /\ (\A i \in I : i.tag # tag) =>
                      IF pkg = None THEN x.kind = "Socket" ELSE field \in {None, actual}
              Last(k) == /\ k.tag \in CreateTags
                         /\ \A j \in I : j.tag \in CreateTags => j = k \/ TagRank[j.tag] < TagRank[k.tag]
  <2>1. /\ x.kind # "Symlink" => Sets("SetMode", x.mode, pkg.mode)
        /\ Sets("SetOwner", x.owner, pkg.owner)
        /\ Sets("SetGroup", x.group, pkg.group)
        /\ \A i \in I : i.tag \in MetaTags \cup CreateTags \cup {"Remove"}
        /\ \/ \E k \in I : Last(k) /\ CreatedEntry(k) = Entry(x.kind, x.data)
           \/ /\ \A i \in I : i.tag \notin CreateTags
              /\ IF Is("Remove") THEN pkg # None /\ x.kind = "Socket"
                 ELSE IF pkg = None THEN x.kind = "Socket" /\ I = {} ELSE AsPackaged(x, pkg)
    BY <1>1, <1>8, PathScanned DEF I
  <2>2. pkg # None => pkg \in PkgEntry
    BY <1>1 DEF Database
  <2>3. x \in Inode
    BY <1>8 DEF DiskState
  <2>4. /\ x.kind \notin {"Removed", "Unchanged"}
        /\ Entry(x.kind, x.data).kind = x.kind /\ Removed.kind = "Removed" /\ Unchanged.kind = "Unchanged"
    BY <2>3, InodeFields DEF Entry, Removed, Unchanged
  <2>5. /\ \A k \in I : Last(k) => b # NoNode /\ b.entry = CreatedEntry(k)
        /\ (\A i \in I : i.tag \notin CreateTags) /\ Is("Remove") => b # NoNode /\ b.entry = Removed
        /\ (\A i \in I : i.tag \notin CreateTags \cup {"Remove"}) /\ (\E i \in I : i.tag \in MetaTags) =>
              b # NoNode /\ b.entry = Unchanged
        /\ (\A i \in I : i.tag \notin CreateTags \cup MetaTags \cup {"Remove"}) =>
              b = IF CreatedBelow(S, p) THEN fresh ELSE NoNode
    BY <1>1, NodeRead
  <2>. HIDE DEF x, pkg, Last, fresh
  <2>6. ASSUME b # NoNode
        PROVE  /\ b.entry = Unchanged => pkg # None /\ AsPackaged(x, pkg)
               /\ b.entry = Removed => x.kind = "Socket"
               /\ b.entry \notin {Removed, Unchanged} => b.entry = Entry(x.kind, x.data)
    <3>1. CASE \E k \in I : Last(k) /\ CreatedEntry(k) = Entry(x.kind, x.data)
      <4>1. b.entry = Entry(x.kind, x.data)
        BY <2>5, <3>1
      <4>. QED  BY <2>4, <4>1
    <3>2. CASE /\ \A i \in I : i.tag \notin CreateTags
               /\ IF Is("Remove") THEN pkg # None /\ x.kind = "Socket"
                  ELSE IF pkg = None THEN x.kind = "Socket" /\ I = {} ELSE AsPackaged(x, pkg)
      <4>1. CASE Is("Remove")
        BY <1>6, <2>5, <3>2, <4>1
      <4>2. CASE ~Is("Remove") /\ \E i \in I : i.tag \in MetaTags
        <5>1. b.entry = Unchanged
          BY <2>5, <3>2, <4>2
        <5>. QED  BY <1>6, <3>2, <4>2, <5>1
      <4>3. CASE ~Is("Remove") /\ ~\E i \in I : i.tag \in MetaTags
        <5>1. CreatedBelow(S, p) /\ b = fresh
          BY <2>5, <2>6, <3>2, <4>3
        <5>2. x.kind = "Directory"
          BY <1>2, <5>1 DEF IsDir, x
        <5>3. x.data = None
          BY <2>3, <5>2, InodeFields
        <5>4. b.entry = Entry(x.kind, x.data)
          BY <1>5, <5>1, <5>2, <5>3 DEF Directory
        <5>. QED  BY <2>4, <5>4
      <4>. QED  BY <4>1, <4>2, <4>3
    <3>. QED  BY <2>1, <3>1, <3>2
  <2>7. ASSUME b # NoNode
        PROVE  /\ x.kind # "Symlink" => ScanField(b.mode, x.mode, pkg, pkg.mode, ImpliedMode(b.entry))
               /\ ScanField(b.owner, x.owner, pkg, pkg.owner, ImpliedName(b.entry))
               /\ ScanField(b.group, x.group, pkg, pkg.group, ImpliedName(b.entry))
    <3>1. /\ FieldFollows(S, p, "SetMode", b.mode, ImpliedMode(b.entry))
          /\ FieldFollows(S, p, "SetOwner", b.owner, ImpliedName(b.entry))
          /\ FieldFollows(S, p, "SetGroup", b.group, ImpliedName(b.entry))
      BY <1>1, <2>7 DEF Follows, MetadataFollows
    <3>2. ~(pkg = None /\ x.kind = "Socket")
      <4>1. SUFFICES ASSUME pkg = None, x.kind = "Socket" PROVE FALSE
        OBVIOUS
      <4>2. I = {}
        BY <1>1, <1>4, <1>8, <4>1, FromFsIs DEF x, pkg
      <4>3. ~CreatedBelow(S, p)
        BY <1>2, <4>1 DEF IsDir, x
      <4>. QED  BY <2>5, <2>7, <4>2, <4>3
    <3>3. ASSUME NEW tag, NEW actual, NEW field, Sets(tag, actual, field), NEW said, NEW implied,
                 FieldFollows(S, p, tag, said, implied)
          PROVE  ScanField(said, actual, pkg, field, implied)
      <4>1. /\ \A i \in I : i.tag = tag => said = i.arg
            /\ (\A i \in I : i.tag # tag) => said = implied
        BY <1>1, <3>3, FieldRead
      <4>. QED  BY <3>2, <3>3, <4>1 DEF ScanField
    <3>. HIDE DEF Sets
    <3>. QED  BY <2>1, <3>1, <3>3
  <2>8. CASE b = NoNode
    <3>1. ~Is("Remove") /\ ~\E k \in I : Last(k)
      BY <2>1, <2>5, <2>8
    <3>2. IF pkg = None THEN x.kind = "Socket" /\ I = {} ELSE AsPackaged(x, pkg)
      BY <2>1, <3>1
    <3>3. I = {}
      <4>1. \A i \in I : i.tag \notin CreateTags
        BY <2>1, <3>1
      <4>2. ~\E i \in I : i.tag \in MetaTags
        BY <2>5, <2>8, <3>1, <4>1
      <4>. QED  BY <2>1, <3>1, <4>1, <4>2
    <3>. QED  BY <1>8, <2>1, <2>8, <3>2, <3>3 DEF ScanSays, x, pkg, m
  <2>. QED  BY <1>8, <2>6, <2>7, <2>8 DEF ScanSays, x, pkg, m
<1>. QED  BY <1>7, <1>8

-----------------------------------------------------------------------------
(* What a plan aims at *)

\* The instruction makes what is wanted.
MakesWanted(i, w, original) ==
    \/ i.tag = "CreateDirectory" /\ w.kind = "Directory" /\ w.data = None
    \/ i.tag = "CreateFile" /\ w.kind = "File" /\ w.data = i.arg
    \/ i.tag = "CreateSymlink" /\ w.kind = "Symlink" /\ w.data = i.arg
    \/ i.tag = "Restore" /\ w.kind = "File" /\ w.data = original /\ original # None

\* Some of the instructions are of these kinds.
Has(instrs, tags) == \E i \in instrs : i.tag \in tags

\* The node is not the one that there will be.
Goes(x, instrs) == x = NoNode \/ Has(instrs, {"Remove"})
Anew(x, instrs) == x = NoNode \/ Has(instrs, {"Remove", "CreateSymlink"})

\* A field is set to what is wanted, or left as it is wanted.
SetRight(instrs, tag, value) == \A i \in instrs : i.tag = tag => value \in {None, i.arg}
LeftRight(instrs, tag, value, actual) == ~Has(instrs, {tag}) => value \in {None, actual}

\* What diff makes of a path, for a node x to become what is wanted.
Aims(instrs, x, w, original) ==
    IF w = None
    THEN /\ ~Has(instrs, MakerTags)
         /\ x = NoNode \/ x.kind = "Socket" \/ Has(instrs, {"Remove"})
    ELSE /\ \A i \in instrs : i.tag \in MakerTags => MakesWanted(i, w, original)
         /\ Goes(x, instrs) => Has(instrs, MakerTags)
         /\ ~Goes(x, instrs) /\ ~Has(instrs, MakerTags) => x.kind = w.kind /\ x.data = w.data
         /\ SetRight(instrs, "SetMode", w.mode)
         /\ SetRight(instrs, "SetOwner", w.owner)
         /\ SetRight(instrs, "SetGroup", w.group)
         /\ ~Anew(x, instrs) =>
               /\ w.kind # "Symlink" => LeftRight(instrs, "SetMode", w.mode, x.mode)
               /\ LeftRight(instrs, "SetOwner", w.owner, x.owner)
               /\ LeftRight(instrs, "SetGroup", w.group, x.group)

\* The plan for a path.
PlanFor(p) == DiffAt(Scanned(run.start), script_fs, pkgs, p)

\* The setting of a path that is not ignored.
PathCase(p) ==
    SettingsInv /\ Planned /\ Fair /\ p \in Path /\ ~Ignored(ignores, p)

\* What the cases below start from.
LEMMA PlanFacts ==
    ASSUME NEW p, PathCase(p)
    PROVE  LET b == Scanned(run.start)[p]
               s == script_fs[p]
               x == run.start[p]
               pkg == pkgs[p]
           IN /\ b \in FsNode \cup {NoNode} /\ s \in FsNode \cup {NoNode}
              /\ x \in Inode \cup {NoNode} /\ pkg \in PkgEntry \cup {None}
              /\ PlanFor(p) = DiffPath(p, b, s, IF b = NoNode THEN {} ELSE LeftApply(p, b, pkg))
              /\ ScanSays(b, x, pkg)
              /\ \A tags : InPlan(p, tags) <=> Has(PlanFor(p), tags)
<1>1. /\ Scanned(run.start) \in FsMap /\ script_fs \in FsMap /\ pkgs \in Database
      /\ \A tags : InPlan(p, tags) <=> Has(PlanFor(p), tags)
  BY PlanAt DEF PathCase, PlanFor, Has
<1>2. /\ run.start \in DiskState /\ WellFormed(run.start) /\ ~ScanFails(run.start, pkgs, ignores)
  BY DEF PathCase, Planned
<1>3. ScanSays(Scanned(run.start)[p], run.start[p], pkgs[p])
  BY <1>2, ScanReads DEF PathCase
<1>4. run.start[p] \in Inode \cup {NoNode}
  BY <1>2 DEF PathCase, DiskState
<1>5. PlanFor(p) = DiffPath(p, Scanned(run.start)[p], script_fs[p],
                     IF Scanned(run.start)[p] = NoNode THEN {} ELSE LeftApply(p, Scanned(run.start)[p], pkgs[p]))
  BY DEF PlanFor, DiffAt
<1>. QED  BY <1>1, <1>3, <1>4, <1>5 DEF PathCase, FsMap, Database

\* A path that the script is silent about.
LEMMA AimsUntold ==
    ASSUME NEW p, PathCase(p), script_fs[p] = NoNode
    PROVE  Aims(PlanFor(p), run.start[p], Wanted(p), Originals[p])
<1>. DEFINE D == PlanFor(p)
            b == Scanned(run.start)[p]
            x == run.start[p]
            pkg == pkgs[p]
            w == Wanted(p)
<1>1. /\ b \in FsNode \cup {NoNode} /\ x \in Inode \cup {NoNode} /\ pkg \in PkgEntry \cup {None}
      /\ D = IF b = NoNode THEN {} ELSE LeftApply(p, b, pkg)
      /\ ScanSays(b, x, pkg)
      /\ \A tags : InPlan(p, tags) <=> Has(D, tags)
  BY PlanFacts DEF DiffPath
<1>2. w = IF pkg = None THEN None ELSE FromPackage(pkg)
  BY DEF Wanted
<1>3. \A t, a : Instr(p, t, a).tag = t /\ Instr(p, t, a).arg = a
  BY DEF Instr
<1>4. ~Unrestorable(p) /\ ~WrongTypeInPlace(p)
  BY DEF PathCase, Fair, Tractable
<1>. HIDE DEF D, b, x, w
<1>5. CASE pkg = None
  <2>1. w = None
    BY <1>2, <1>5
  <2>2. CASE b = NoNode
    <3>1. D = {}
      BY <1>1, <2>2
    <3>2. x = NoNode \/ x.kind = "Socket"
      BY <1>1, <1>5, <2>2 DEF ScanSays
    <3>. QED  BY <2>1, <3>1, <3>2 DEF Aims, Has, D, x, w
  <2>3. CASE b # NoNode
    <3>1. D = {Instr(p, "Remove", None)}
      BY <1>1, <1>5, <2>3 DEF LeftApply
    <3>2. Has(D, {"Remove"}) /\ ~Has(D, MakerTags)
      BY <1>3, <3>1 DEF Has, MakerTags, CreateTags
    <3>. QED  BY <2>1, <3>2 DEF Aims, D, x, w
  <2>. QED  BY <2>2, <2>3
<1>6. CASE pkg # None
  <2>1. /\ pkg \in PkgEntry /\ w = FromPackage(pkg) /\ w # None
        /\ pkg.kind \in {"RegularFile", "Symlink", "Directory"}
    <3>1. pkg \in PkgEntry /\ w = FromPackage(pkg)
      BY <1>1, <1>2, <1>6
    <3>2. pkg.kind \notin {"Other", "Unknown"}
      BY <1>4, <1>6 DEF Unrestorable
    <3>. QED  BY <3>1, <3>2, PkgFields, DescribedIsSomething
  <2>2. /\ w.kind = (IF pkg.kind = "RegularFile" THEN "File" ELSE pkg.kind) /\ w.data = pkg.data
        /\ w.mode = pkg.mode /\ w.owner = pkg.owner /\ w.group = pkg.group
    BY <2>1 DEF FromPackage
  <2>3. x # NoNode => x \in Inode /\ x.mode # None /\ x.owner # None /\ x.group # None
    BY <1>1, InodeFields, ValueAssumption
  <2>. HIDE DEF pkg
  <2>4. CASE b = NoNode
    <3>1. /\ D = {} /\ x # NoNode /\ AsPackaged(x, pkg)
          /\ x.kind # "Symlink" => pkg.mode \in {None, x.mode}
          /\ pkg.owner \in {None, x.owner} /\ pkg.group \in {None, x.group}
      BY <1>1, <1>6, <2>4 DEF ScanSays
    <3>2. x.kind = w.kind /\ x.data = w.data
      BY <2>1, <2>2, <3>1 DEF AsPackaged
    <3>3. \A tags : ~Has(D, tags)
      BY <3>1 DEF Has
    <3>4. \A tag, value : SetRight(D, tag, value)
      BY <3>1 DEF SetRight
    <3>5. ~Goes(x, D)
      BY <3>1, <3>3 DEF Goes
    <3>6. /\ w.kind # "Symlink" => LeftRight(D, "SetMode", w.mode, x.mode)
          /\ LeftRight(D, "SetOwner", w.owner, x.owner)
          /\ LeftRight(D, "SetGroup", w.group, x.group)
      BY <2>2, <3>1, <3>2 DEF LeftRight
    <3>7. \A i \in D : MakesWanted(i, w, Originals[p])
      BY <3>1
    <3>. QED  BY <2>1, <3>2, <3>3, <3>4, <3>5, <3>6, <3>7 DEF Aims, D, x, w
  <2>5. CASE b # NoNode
    <3>. DEFINE R == IF b.entry = Unchanged THEN {} ELSE RestoreEntry(p, pkg)
                mode == RestoreField(p, "SetMode", pkg.mode, b.mode)
                owner == RestoreField(p, "SetOwner", pkg.owner, b.owner)
                group == RestoreField(p, "SetGroup", pkg.group, b.group)
    <3>1. D = R \cup mode \cup owner \cup group
      BY <1>1, <1>6, <2>5 DEF LeftApply
    <3>2. /\ \A i \in R : i.tag \in {"Restore", "CreateSymlink", "CreateDirectory"} /\ MakesWanted(i, w, Originals[p])
          /\ b.entry # Unchanged => R # {}
      <4>1. CASE pkg.kind = "RegularFile"
        <5>1. RestoreEntry(p, pkg) = {Instr(p, "Restore", None)}
          BY <4>1 DEF RestoreEntry
        <5>2. Originals[p] = pkg.data
          BY <1>6, <4>1 DEF Originals, PathCase, pkg
        <5>3. pkg.data # None
          BY <2>1, <4>1, PkgFields, ValueAssumption
        <5>. QED  BY <1>3, <2>2, <4>1, <5>1, <5>2, <5>3 DEF MakesWanted
      <4>2. CASE pkg.kind = "Symlink"
        <5>1. RestoreEntry(p, pkg) = {Instr(p, "CreateSymlink", pkg.data)}
          BY <4>2 DEF RestoreEntry
        <5>. QED  BY <1>3, <2>2, <4>2, <5>1 DEF MakesWanted
      <4>3. CASE pkg.kind = "Directory"
        <5>1. RestoreEntry(p, pkg) = {Instr(p, "CreateDirectory", None)}
          BY <4>3 DEF RestoreEntry
        <5>2. pkg.data = None
          BY <2>1, <4>3, PkgFields
        <5>. QED  BY <1>3, <2>2, <4>3, <5>1, <5>2 DEF MakesWanted
      <4>. QED  BY <2>1, <4>1, <4>2, <4>3
    <3>3. /\ \A i \in mode : i.tag = "SetMode"
          /\ \A i \in owner : i.tag = "SetOwner"
          /\ \A i \in group : i.tag = "SetGroup"
      BY <1>3 DEF RestoreField
    <3>. HIDE DEF R, mode, owner, group
    <3>4. /\ \A i \in D : i.tag = "SetMode" => i \in mode
          /\ \A i \in D : i.tag = "SetOwner" => i \in owner
          /\ \A i \in D : i.tag = "SetGroup" => i \in group
          /\ \A i \in D : i.tag \in MakerTags => i \in R
          /\ ~Has(D, {"Remove"})
      BY <3>1, <3>2, <3>3 DEF MakerTags, CreateTags, Has
    <3>5. /\ SetRight(D, "SetMode", w.mode) /\ SetRight(D, "SetOwner", w.owner) /\ SetRight(D, "SetGroup", w.group)
      BY <1>3, <2>2, <3>4 DEF SetRight, RestoreField, mode, owner, group
    <3>6. R # {} => Has(D, MakerTags)
      BY <3>1, <3>2 DEF Has, MakerTags, CreateTags
    <3>7. x = NoNode => R # {}
      BY <1>1, <2>5, <3>2 DEF ScanSays, Removed, Unchanged, Entry
    <3>8. ASSUME x # NoNode, ~Has(D, MakerTags)
          PROVE  x.kind = w.kind /\ x.data = w.data
      <4>1. b.entry = Unchanged
        BY <3>2, <3>6, <3>8
      <4>2. AsPackaged(x, pkg)
        BY <1>1, <2>5, <3>8, <4>1 DEF ScanSays
      <4>. QED  BY <2>1, <2>2, <4>2 DEF AsPackaged
    <3>9. ASSUME ~Anew(x, D)
          PROVE  /\ w.kind # "Symlink" => LeftRight(D, "SetMode", w.mode, x.mode)
                 /\ LeftRight(D, "SetOwner", w.owner, x.owner)
                 /\ LeftRight(D, "SetGroup", w.group, x.group)
      <4>1. x # NoNode /\ ~Has(D, {"CreateSymlink"})
        BY <3>9 DEF Anew, Has
      <4>2. x.kind # "Symlink" => ScanField(b.mode, x.mode, pkg, pkg.mode, ImpliedMode(b.entry))
        BY <1>1, <2>5, <4>1 DEF ScanSays
      <4>3. ScanField(b.owner, x.owner, pkg, pkg.owner, ImpliedName(b.entry))
            /\ ScanField(b.group, x.group, pkg, pkg.group, ImpliedName(b.entry))
        BY <1>1, <2>5, <4>1 DEF ScanSays
      <4>4. ASSUME w.kind # "Symlink" PROVE x.kind # "Symlink"
        <5>1. CASE R = {}
          BY <3>2, <3>4, <3>8, <4>1, <4>4, <5>1 DEF Has
        <5>2. CASE R # {}
          <6>1. PICK i \in R : i.tag \in {"Restore", "CreateSymlink", "CreateDirectory"}
            BY <3>2, <5>2
          <6>2. i.tag \in {"Restore", "CreateDirectory"} /\ Has(D, {i.tag})
            BY <3>1, <4>1, <6>1 DEF Has
          <6>3. Found(p, {"File"}) \/ Found(p, {"Directory"})
            BY <1>1, <1>4, <3>4, <4>1, <6>2 DEF WrongTypeInPlace, InPlan, Has, x
          <6>. QED  BY <6>3 DEF Found, x
        <5>. QED  BY <5>1, <5>2
      <4>5. \A tag, packaged, said, actual, implied :
               (/\ ~Has(D, {tag}) /\ RestoreField(p, tag, packaged, said) \subseteq D /\ actual # None
                /\ ScanField(said, actual, pkg, packaged, implied)) => packaged \in {None, actual}
        BY <1>3 DEF RestoreField, Has, ScanField
      <4>6. mode \subseteq D /\ owner \subseteq D /\ group \subseteq D
        BY <3>1
      <4>. QED  BY <2>2, <2>3, <4>1, <4>2, <4>3, <4>4, <4>5, <4>6 DEF LeftRight, mode, owner, group
    <3>. QED  BY <2>1, <3>2, <3>4, <3>5, <3>6, <3>7, <3>8, <3>9 DEF Aims, Goes, D, x, w
  <2>. QED  BY <2>4, <2>5
<1>. QED  BY <1>5, <1>6

\* A path that the script removes.
LEMMA AimsRemoved ==
    ASSUME NEW p, PathCase(p), script_fs[p] # NoNode, script_fs[p].entry = Removed
    PROVE  Aims(PlanFor(p), run.start[p], Wanted(p), Originals[p])
<1>. DEFINE D == PlanFor(p)
            b == Scanned(run.start)[p]
            s == script_fs[p]
            x == run.start[p]
            w == Wanted(p)
<1>1. /\ D = IF b = NoNode THEN IntoInstructions(p, s) ELSE DiffBoth(p, b, s)
      /\ ScanSays(b, x, pkgs[p])
  BY PlanFacts DEF DiffPath
<1>2. s.entry.kind = "Removed" /\ s.entry # Unchanged
  BY DEF Removed, Unchanged, Entry
<1>3. w = None
  BY <1>2 DEF Wanted
<1>4. \A t, a : Instr(p, t, a).tag = t
  BY DEF Instr
<1>5. BaseInstruction(p, s.entry) = {Instr(p, "Remove", s.entry.data)}
  BY <1>2 DEF BaseInstruction
<1>. HIDE DEF D, b, x, w, s
<1>6. CASE b = NoNode
  <2>1. D = {Instr(p, "Remove", s.entry.data)}
    BY <1>1, <1>2, <1>5, <1>6 DEF IntoInstructions
  <2>2. Has(D, {"Remove"}) /\ ~Has(D, MakerTags)
    BY <1>4, <2>1 DEF Has, MakerTags, CreateTags
  <2>. QED  BY <1>3, <2>2 DEF Aims, D, x, w
<1>7. CASE b # NoNode
  <2>1. \A i \in MetadataDiff(p, b, s) : i.tag \in MetaTags \cup {"Comment"}
    BY MetadataOne
  <2>2. D = (IF b.entry = s.entry THEN {} ELSE ReplaceEntry(p, b, s)) \cup MetadataDiff(p, b, s)
    BY <1>1, <1>7 DEF DiffBoth
  <2>3. \A i \in ReplaceEntry(p, b, s) : i.tag = "Remove"
    BY <1>4, <1>5 DEF ReplaceEntry
  <2>4. ~Has(D, MakerTags)
    BY <2>1, <2>2, <2>3 DEF Has, MakerTags, CreateTags, MetaTags
  <2>5. CASE b.entry = s.entry
    <3>1. x = NoNode \/ x.kind = "Socket"
      BY <1>1, <1>7, <2>5 DEF ScanSays, s
    <3>. QED  BY <1>3, <2>4, <3>1 DEF Aims, D, x, w
  <2>6. CASE b.entry # s.entry
    <3>1. Instr(p, "Remove", s.entry.data) \in D
      BY <1>5, <2>2, <2>6 DEF ReplaceEntry
    <3>2. Has(D, {"Remove"})
      BY <1>4, <3>1 DEF Has
    <3>. QED  BY <1>3, <2>4, <3>2 DEF Aims, D, x, w
  <2>. QED  BY <2>5, <2>6
<1>. QED  BY <1>6, <1>7

\* A path's metadata is set to what one node says where another says something else;
\* what only the other says is commented on.
SetsMetadata(D, before, after) ==
    /\ SetRight(D, "SetMode", after.mode)
    /\ SetRight(D, "SetOwner", after.owner)
    /\ SetRight(D, "SetGroup", after.group)
    /\ ~Has(D, {"SetMode"}) => after.mode = None \/ before.mode = after.mode
    /\ ~Has(D, {"SetOwner"}) => after.owner = None \/ before.owner = after.owner
    /\ ~Has(D, {"SetGroup"}) => after.group = None \/ before.group = after.group
    /\ ~Has(D, {"Comment"}) => /\ after.mode = None => before.mode = None
                               /\ after.owner = None => before.owner = None
                               /\ after.group = None => before.group = None

\* The metadata that diff sets, of a path that both sides know.
LEMMA MetadataSet ==
    ASSUME NEW p, NEW before, NEW after, NEW D, MetadataDiff(p, before, after) \subseteq D,
           \A i \in D : i.tag \in MetaTags \cup {"Comment"} => i \in MetadataDiff(p, before, after)
    PROVE  SetsMetadata(D, before, after)
<1>. DEFINE mode == FieldDiff(p, "SetMode", before.mode, after.mode)
            owner == FieldDiff(p, "SetOwner", before.owner, after.owner)
            group == FieldDiff(p, "SetGroup", before.group, after.group)
<1>1. \A t, a : Instr(p, t, a).tag = t /\ Instr(p, t, a).arg = a
  BY DEF Instr
<1>2. ASSUME NEW tag, NEW f, NEW g
      PROVE  FieldDiff(p, tag, f, g) = IF f = g THEN {} ELSE IF g = None THEN {Instr(p, "Comment", None)}
                                       ELSE {Instr(p, tag, g)}
  BY DEF FieldDiff
<1>3. MetadataDiff(p, before, after) = mode \cup owner \cup group
  BY DEF MetadataDiff
<1>4. \A i \in D : i.tag \in MetaTags => i \in mode \cup owner \cup group
  BY <1>3
<1>5. /\ \A i \in mode : i.tag \in {"SetMode", "Comment"}
      /\ \A i \in owner : i.tag \in {"SetOwner", "Comment"}
      /\ \A i \in group : i.tag \in {"SetGroup", "Comment"}
  BY <1>1, <1>2
<1>6. mode \subseteq D /\ owner \subseteq D /\ group \subseteq D
  BY <1>3
<1>. HIDE DEF mode, owner, group
<1>7. /\ \A i \in D : i.tag = "SetMode" => i \in mode
      /\ \A i \in D : i.tag = "SetOwner" => i \in owner
      /\ \A i \in D : i.tag = "SetGroup" => i \in group
  BY <1>4, <1>5 DEF MetaTags
<1>8. /\ SetRight(D, "SetMode", after.mode)
      /\ SetRight(D, "SetOwner", after.owner)
      /\ SetRight(D, "SetGroup", after.group)
  BY <1>1, <1>2, <1>7 DEF SetRight, mode, owner, group
<1>9. /\ ~Has(D, {"SetMode"}) => after.mode = None \/ before.mode = after.mode
      /\ ~Has(D, {"SetOwner"}) => after.owner = None \/ before.owner = after.owner
      /\ ~Has(D, {"SetGroup"}) => after.group = None \/ before.group = after.group
  BY <1>1, <1>2, <1>6 DEF Has, mode, owner, group
<1>10. ~Has(D, {"Comment"}) => /\ after.mode = None => before.mode = None
                               /\ after.owner = None => before.owner = None
                               /\ after.group = None => before.group = None
  BY <1>1, <1>2, <1>6 DEF Has, mode, owner, group
<1>. QED  BY <1>8, <1>9, <1>10 DEF SetsMetadata

\* A path that the script only changes the metadata of.
LEMMA AimsChanged ==
    ASSUME NEW p, PathCase(p), script_fs[p] # NoNode, script_fs[p].entry = Unchanged
    PROVE  Aims(PlanFor(p), run.start[p], Wanted(p), Originals[p])
<1>. DEFINE D == PlanFor(p)
            b == Scanned(run.start)[p]
            s == script_fs[p]
            x == run.start[p]
            pkg == pkgs[p]
            w == Wanted(p)
<1>1. /\ D = IF b = NoNode THEN IntoInstructions(p, s) ELSE DiffBoth(p, b, s)
      /\ ScanSays(b, x, pkg)
      /\ b \in FsNode \cup {NoNode} /\ s \in FsNode /\ x \in Inode \cup {NoNode} /\ pkg \in PkgEntry \cup {None}
      /\ \A tags : InPlan(p, tags) <=> Has(D, tags)
  BY PlanFacts DEF DiffPath
<1>2. s.entry.kind = "Unchanged" /\ s.entry # Removed /\ Says(p, {"Unchanged"})
  BY DEF Removed, Unchanged, Entry, Says
<1>3. w # None /\ w.kind # "Symlink"
  <2>1. /\ script \in SUBSET FsInstruction /\ IsFiniteSet(script) /\ Follows(script, script_fs, p) /\ p \in Path
    BY SettingsTyped DEF PathCase
  <2>2. OnPath(script, p, MetaTags) # {}
    <3>1. \A k \in OnPath(script, p, CreateTags) : s.entry # CreatedEntry(k)
      BY <2>1, CreatedEntries DEF OnPath
    <3>2. script_fs[p] # FreshNode(Directory, DEFAULT_DIR_MODE)
      BY <1>2 DEF FreshNode, Directory, Entry
    <3>. QED  BY <1>2, <2>1, <3>1, <3>2, EntryFrom
  <2>. QED  BY <2>2 DEF PathCase, Fair, Sensible, OnPath
<1>4. pkg # None
  BY <1>2, <1>3 DEF Wanted
<1>5. w = [FromPackage(pkg) EXCEPT !.mode = Or(s.mode, @), !.owner = Or(s.owner, @), !.group = Or(s.group, @)]
  <2>1. FromPackage(pkg) # None
    BY <1>1, <1>4, DescribedIsSomething
  <2>. QED  BY <1>2, <1>4, <2>1 DEF Wanted
<1>6. /\ w.kind = FromPackage(pkg).kind /\ w.data = pkg.data
      /\ w.mode = Or(s.mode, pkg.mode) /\ w.owner = Or(s.owner, pkg.owner) /\ w.group = Or(s.group, pkg.group)
  BY <1>5 DEF FromPackage
<1>7. pkg.kind \notin {"Other", "Unknown"}
  BY <1>2, <1>4 DEF PathCase, Fair, Tractable, Unrestorable
<1>8. ~Has(D, {"Remove"})
  BY <1>1, <1>2 DEF PathCase, Fair, Tractable, RemovedForMetadata
<1>9. /\ ~Has(D, {"Comment"})
      /\ ~Has(D, {"SetOwner"}) => s.owner # ROOT \/ pkg.owner = ROOT
      /\ ~Has(D, {"SetGroup"}) => s.group # ROOT \/ pkg.group = ROOT
  BY <1>1, <1>2 DEF PathCase, Fair, Tractable, LeavesMetadata
<1>10. \A t, a : Instr(p, t, a).tag = t /\ Instr(p, t, a).arg = a
  BY DEF Instr
<1>11. BaseInstruction(p, s.entry) = {}
  BY <1>2 DEF BaseInstruction
<1>12. x # NoNode => x.mode # None /\ x.owner # None /\ x.group # None
  BY <1>1, InodeFields, ValueAssumption
<1>. HIDE DEF D, b, x, w, s, pkg
<1>13. SUFFICES /\ x # NoNode /\ AsPackaged(x, pkg)
                /\ ~Has(D, MakerTags)
                /\ SetRight(D, "SetMode", w.mode) /\ SetRight(D, "SetOwner", w.owner)
                /\ SetRight(D, "SetGroup", w.group)
                /\ w.kind # "Symlink" => LeftRight(D, "SetMode", w.mode, x.mode)
                /\ LeftRight(D, "SetOwner", w.owner, x.owner)
                /\ LeftRight(D, "SetGroup", w.group, x.group)
  <2>1. ~Has(D, MakerTags) => \A i \in D : i.tag \notin MakerTags
    BY DEF Has
  <2>2. x # NoNode /\ AsPackaged(x, pkg) => ~Goes(x, D) /\ x.kind = w.kind /\ x.data = w.data
    BY <1>6, <1>7, <1>8 DEF Goes, AsPackaged
  <2>. QED  BY <1>3, <2>1, <2>2 DEF Aims, D, x, w
<1>14. CASE b = NoNode
  <2>1. /\ x # NoNode /\ AsPackaged(x, pkg)
        /\ x.kind # "Symlink" => pkg.mode \in {None, x.mode}
        /\ pkg.owner \in {None, x.owner} /\ pkg.group \in {None, x.group}
    BY <1>1, <1>4, <1>14 DEF ScanSays
  <2>2. x.kind = w.kind
    BY <1>6, <1>7, <2>1 DEF AsPackaged
  <2>. DEFINE mode == IF s.mode # None THEN {Instr(p, "SetMode", s.mode)} ELSE {}
              owner == IF s.owner \notin {None, ROOT} THEN {Instr(p, "SetOwner", s.owner)} ELSE {}
              group == IF s.group \notin {None, ROOT} THEN {Instr(p, "SetGroup", s.group)} ELSE {}
  <2>3. D = mode \cup owner \cup group
    <3>1. ~(s.removed_before_added /\ s.entry.kind # "Removed")
      <4>1. SUFFICES ASSUME s.removed_before_added PROVE Instr(p, "Remove", None) \in D
        BY <1>8, <1>10 DEF Has
      <4>. QED  BY <1>1, <1>2, <1>14, <4>1 DEF IntoInstructions
    <3>2. EntryDefaultMode(s.entry.kind) = None
      BY <1>2 DEF EntryDefaultMode
    <3>. QED  BY <1>1, <1>2, <1>11, <1>14, <3>1, <3>2 DEF IntoInstructions
  <2>4. \A i \in D : /\ i.tag \in MetaTags
                     /\ i.tag = "SetMode" => i.arg = s.mode /\ s.mode # None
                     /\ i.tag = "SetOwner" => i.arg = s.owner /\ s.owner # None
                     /\ i.tag = "SetGroup" => i.arg = s.group /\ s.group # None
    BY <1>10, <2>3 DEF MetaTags
  <2>5. /\ ~Has(D, {"SetMode"}) => s.mode = None
        /\ ~Has(D, {"SetOwner"}) => s.owner \in {None, ROOT}
        /\ ~Has(D, {"SetGroup"}) => s.group \in {None, ROOT}
    BY <1>10, <2>3 DEF Has
  <2>6. ~Has(D, MakerTags)
    BY <2>4 DEF Has, MakerTags, CreateTags, MetaTags
  <2>7. /\ SetRight(D, "SetMode", w.mode) /\ SetRight(D, "SetOwner", w.owner) /\ SetRight(D, "SetGroup", w.group)
    BY <1>6, <2>4 DEF SetRight, Or
  <2>8. w.kind # "Symlink" => LeftRight(D, "SetMode", w.mode, x.mode)
    BY <1>6, <2>1, <2>2, <2>5 DEF LeftRight, Or
  <2>9. LeftRight(D, "SetOwner", w.owner, x.owner) /\ LeftRight(D, "SetGroup", w.group, x.group)
    <3>1. ROOT # None
      BY ValueAssumption
    <3>. QED  BY <1>6, <1>9, <2>1, <2>5, <3>1 DEF LeftRight, Or
  <2>. QED  BY <2>1, <2>6, <2>7, <2>8, <2>9
<1>15. CASE b # NoNode
  <2>1. D = (IF b.entry = s.entry THEN {} ELSE ReplaceEntry(p, b, s)) \cup MetadataDiff(p, b, s)
    BY <1>1, <1>15 DEF DiffBoth
  <2>2. b.entry = s.entry
    <3>1. SUFFICES ASSUME b.entry # s.entry PROVE Instr(p, "Remove", None) \in D
      BY <1>8, <1>10 DEF Has
    <3>2. b.entry.kind # s.entry.kind
      <4>1. b.entry \in FsEntry /\ s.entry \in FsEntry
        BY <1>1, <1>15, NodeFields
      <4>. QED  BY <1>2, <3>1, <4>1 DEF FsEntry
    <3>. QED  BY <2>1, <3>1, <3>2 DEF ReplaceEntry
  <2>3. b.entry = Unchanged
    BY <2>2 DEF s
  <2>4. /\ x # NoNode /\ AsPackaged(x, pkg)
        /\ x.kind # "Symlink" => ScanField(b.mode, x.mode, pkg, pkg.mode, None)
        /\ ScanField(b.owner, x.owner, pkg, pkg.owner, None)
        /\ ScanField(b.group, x.group, pkg, pkg.group, None)
    <3>1. ImpliedMode(Unchanged) = None /\ ImpliedName(Unchanged) = None /\ Unchanged # Removed
      BY DEF ImpliedMode, ImpliedName, Unchanged, Removed, Directory, Entry
    <3>. QED  BY <1>1, <1>4, <1>15, <2>3, <3>1 DEF ScanSays
  <2>5. D = MetadataDiff(p, b, s)
    BY <2>1, <2>2
  <2>6. \A i \in D : i.tag \in MetaTags \cup {"Comment"}
    BY <2>5, MetadataOne
  <2>7. ~Has(D, MakerTags)
    BY <2>6 DEF Has, MakerTags, CreateTags, MetaTags
  <2>8. /\ SetRight(D, "SetMode", s.mode)
        /\ SetRight(D, "SetOwner", s.owner)
        /\ SetRight(D, "SetGroup", s.group)
        /\ ~Has(D, {"SetMode"}) => s.mode = None \/ b.mode = s.mode
        /\ ~Has(D, {"SetOwner"}) => s.owner = None \/ b.owner = s.owner
        /\ ~Has(D, {"SetGroup"}) => s.group = None \/ b.group = s.group
        /\ s.mode = None => b.mode = None
        /\ s.owner = None => b.owner = None
        /\ s.group = None => b.group = None
    <3>1. SetsMetadata(D, b, s)
      BY <2>5, MetadataSet
    <3>. QED  BY <1>9, <3>1 DEF SetsMetadata
  <2>9. x.kind = w.kind
    BY <1>6, <1>7, <2>4 DEF AsPackaged
  <2>10. /\ ~Has(D, {"SetMode"}) => b.mode = s.mode
         /\ ~Has(D, {"SetOwner"}) => b.owner = s.owner
         /\ ~Has(D, {"SetGroup"}) => b.group = s.group
    BY <2>8
  <2>11. \A said, actual, packaged :
            actual # None /\ ScanField(said, actual, pkg, packaged, None) => Or(said, packaged) \in {None, actual}
    BY DEF ScanField, Or
  <2>12. /\ SetRight(D, "SetMode", w.mode) /\ SetRight(D, "SetOwner", w.owner) /\ SetRight(D, "SetGroup", w.group)
    <3>1. /\ \A i \in D : i.tag = "SetMode" => i.arg = s.mode /\ s.mode # None
          /\ \A i \in D : i.tag = "SetOwner" => i.arg = s.owner /\ s.owner # None
          /\ \A i \in D : i.tag = "SetGroup" => i.arg = s.group /\ s.group # None
      BY <1>10, <2>5 DEF MetadataDiff, FieldDiff
    <3>. QED  BY <1>6, <3>1 DEF SetRight, Or
  <2>13. w.kind # "Symlink" => LeftRight(D, "SetMode", w.mode, x.mode)
    BY <1>6, <1>12, <2>4, <2>9, <2>10, <2>11 DEF LeftRight
  <2>14. LeftRight(D, "SetOwner", w.owner, x.owner) /\ LeftRight(D, "SetGroup", w.group, x.group)
    BY <1>6, <1>12, <2>4, <2>10, <2>11 DEF LeftRight
  <2>. QED  BY <2>4, <2>7, <2>12, <2>13, <2>14
<1>. QED  BY <1>14, <1>15

\* A path that the script makes.
LEMMA AimsMade ==
    ASSUME NEW p, PathCase(p), script_fs[p] # NoNode, script_fs[p].entry \notin {Removed, Unchanged}
    PROVE  Aims(PlanFor(p), run.start[p], Wanted(p), Originals[p])
<1>. DEFINE D == PlanFor(p)
            b == Scanned(run.start)[p]
            s == script_fs[p]
            x == run.start[p]
            pkg == pkgs[p]
            w == Wanted(p)
            kind == s.entry.kind
            tag == [Directory |-> "CreateDirectory", File |-> "CreateFile", Symlink |-> "CreateSymlink"]
            k == Instr(p, tag[kind], s.entry.data)
<1>1. /\ D = IF b = NoNode THEN IntoInstructions(p, s) ELSE DiffBoth(p, b, s)
      /\ ScanSays(b, x, pkg)
      /\ b \in FsNode \cup {NoNode} /\ s \in FsNode /\ x \in Inode \cup {NoNode} /\ pkg \in PkgEntry \cup {None}
      /\ \A tags : InPlan(p, tags) <=> Has(D, tags)
  BY PlanFacts DEF DiffPath
<1>2. s.entry \in FsEntry /\ kind \in {"Directory", "File", "Symlink"}
  <2>1. s.entry \in FsEntry
    BY <1>1, NodeFields
  <2>2. kind = "Removed" => s.entry = Removed
    BY <2>1 DEF FsEntry, Removed, Entry
  <2>3. kind = "Unchanged" => s.entry = Unchanged
    BY <2>1 DEF FsEntry, Unchanged, Entry
  <2>4. SettingsInv /\ p \in Path
    BY DEF PathCase
  <2>5. kind \in {"Removed", "Unchanged", "Directory", "File", "Symlink"}
    BY <2>4, ScriptEntry
  <2>. QED  BY <2>1, <2>2, <2>3, <2>5
<1>3. w = [ kind |-> kind, data |-> s.entry.data, mode |-> s.mode, owner |-> s.owner, group |-> s.group ]
  BY DEF Wanted
<1>4. /\ w.kind = kind /\ w.data = s.entry.data /\ w.mode = s.mode /\ w.owner = s.owner /\ w.group = s.group
      /\ w # None
  BY <1>1, <1>3, DescribedIsSomething
<1>5. /\ \A t, a : Instr(p, t, a).tag = t /\ Instr(p, t, a).arg = a
  BY DEF Instr
<1>6. BaseInstruction(p, s.entry) = {k}
  BY <1>2 DEF BaseInstruction
<1>7. /\ k.tag \in {"CreateDirectory", "CreateFile", "CreateSymlink"} /\ (k.tag = "CreateSymlink" <=> kind = "Symlink")
      /\ MakesWanted(k, w, Originals[p])
  <2>1. k.tag = tag[kind] /\ k.arg = s.entry.data
    BY <1>5
  <2>2. kind = "Directory" => s.entry.data = None
    BY <1>2 DEF FsEntry
  <2>3. CASE kind = "Directory"
    BY <1>4, <2>1, <2>2, <2>3 DEF MakesWanted
  <2>4. CASE kind = "File"
    BY <1>4, <2>1, <2>4 DEF MakesWanted
  <2>5. CASE kind = "Symlink"
    BY <1>4, <2>1, <2>5 DEF MakesWanted
  <2>. QED  BY <1>2, <2>3, <2>4, <2>5
<1>8. ASSUME ~Has(D, {"Remove"}), x # NoNode, x.kind = kind, pkg # None, kind = "Symlink" => ~Has(D, {"CreateSymlink"})
      PROVE  /\ kind # "Symlink" => pkg.mode = DefaultModeOf(kind)
             /\ pkg.owner = ROOT /\ pkg.group = ROOT
  <2>1. ~KeepsMetadata(p)
    BY DEF PathCase, Fair, Tractable
  <2>2. Says(p, {kind}) /\ Found(p, {kind})
    BY <1>8 DEF Says, Found
  <2>3. /\ kind \in {"File", "Directory"} =>
              <<pkg.mode, pkg.owner, pkg.group>> = <<DefaultModeOf(kind), ROOT, ROOT>>
        /\ kind = "Symlink" => <<pkg.owner, pkg.group>> = <<ROOT, ROOT>>
    BY <1>1, <1>8, <2>1, <2>2 DEF KeepsMetadata
  <2>. QED  BY <1>2, <2>3
<1>9. /\ DefaultModeOf(kind) \in Mode /\ ROOT # None /\ DefaultModeOf(kind) # None
  BY ValueAssumption DEF DefaultModeOf
<1>10. x # NoNode => x.mode # None /\ x.owner # None /\ x.group # None
  BY <1>1, InodeFields, ValueAssumption
<1>11. ~WrongTypeInPlace(p)
  BY DEF PathCase, Fair, Tractable
<1>. HIDE DEF D, b, x, w, s, pkg, k, kind
<1>12. SUFFICES /\ \A i \in D : i.tag \in MakerTags => i = k
                /\ Goes(x, D) => k \in D
                /\ ~Goes(x, D) /\ k \notin D => x.kind = kind /\ x.data = s.entry.data
                /\ SetRight(D, "SetMode", s.mode) /\ SetRight(D, "SetOwner", s.owner)
                /\ SetRight(D, "SetGroup", s.group)
                /\ ~Anew(x, D) =>
                      /\ kind # "Symlink" => LeftRight(D, "SetMode", s.mode, x.mode)
                      /\ LeftRight(D, "SetOwner", s.owner, x.owner)
                      /\ LeftRight(D, "SetGroup", s.group, x.group)
  <2>1. k \in D => Has(D, MakerTags)
    BY <1>7 DEF Has, MakerTags, CreateTags
  <2>. QED  BY <1>4, <1>7, <1>12, <2>1 DEF Aims, D, x, w
<1>13. CASE b = NoNode
  <2>. DEFINE rem == IF s.removed_before_added THEN {Instr(p, "Remove", None)} ELSE {}
              mode == IF kind # "Symlink" /\ s.mode \notin {None, DefaultModeOf(kind)}
                      THEN {Instr(p, "SetMode", s.mode)} ELSE {}
              owner == IF s.owner \notin {None, ROOT} THEN {Instr(p, "SetOwner", s.owner)} ELSE {}
              group == IF s.group \notin {None, ROOT} THEN {Instr(p, "SetGroup", s.group)} ELSE {}
  <2>1. D = rem \cup {k} \cup mode \cup owner \cup group
    <3>1. kind # "Symlink" => EntryDefaultMode(kind) = DefaultModeOf(kind)
      BY <1>2 DEF EntryDefaultMode, DefaultModeOf
    <3>. QED  BY <1>1, <1>2, <1>6, <1>13, <3>1 DEF IntoInstructions, kind
  <2>2. \A i \in D : /\ i.tag \in MakerTags => i = k
                     /\ i.tag = "SetMode" => i.arg = s.mode
                     /\ i.tag = "SetOwner" => i.arg = s.owner
                     /\ i.tag = "SetGroup" => i.arg = s.group
    BY <1>5, <1>7, <2>1 DEF MakerTags, CreateTags
  <2>3. k \in D
    BY <2>1
  <2>4. /\ ~Has(D, {"SetMode"}) /\ kind # "Symlink" => s.mode \in {None, DefaultModeOf(kind)}
        /\ ~Has(D, {"SetOwner"}) => s.owner \in {None, ROOT}
        /\ ~Has(D, {"SetGroup"}) => s.group \in {None, ROOT}
    BY <1>5, <2>1 DEF Has
  <2>5. ASSUME ~Anew(x, D)
        PROVE  /\ x.owner = ROOT /\ x.group = ROOT /\ kind # "Symlink" /\ x.mode = DefaultModeOf(kind)
    <3>1. x # NoNode /\ ~Has(D, {"Remove"}) /\ ~Has(D, {"CreateSymlink"})
      BY <2>5 DEF Anew, Has
    <3>2. kind # "Symlink" /\ Has(D, {k.tag})
      BY <1>7, <2>3, <3>1 DEF Has
    <3>3. k.tag = (IF kind = "Directory" THEN "CreateDirectory" ELSE "CreateFile")
      BY <1>2, <1>5, <3>2 DEF k, kind
    <3>4. x.kind = kind
      <4>1. kind = "Directory" => InPlan(p, {"CreateDirectory"})
        BY <1>1, <3>2, <3>3
      <4>2. kind = "File" => InPlan(p, {"CreateFile", "Restore"})
        BY <1>1, <3>2, <3>3 DEF Has
      <4>3. Found(p, {kind})
        BY <1>1, <1>2, <1>11, <3>1, <3>2, <4>1, <4>2 DEF WrongTypeInPlace, x
      <4>. QED  BY <4>3 DEF Found, x
    <3>5. /\ pkg # None
          /\ x.kind # "Symlink" => pkg.mode \in {None, x.mode}
          /\ pkg.owner \in {None, x.owner} /\ pkg.group \in {None, x.group}
      BY <1>1, <1>2, <1>13, <3>1, <3>4 DEF ScanSays
    <3>. QED  BY <1>8, <1>9, <3>1, <3>2, <3>4, <3>5
  <2>6. SetRight(D, "SetMode", s.mode) /\ SetRight(D, "SetOwner", s.owner) /\ SetRight(D, "SetGroup", s.group)
    BY <2>2 DEF SetRight
  <2>. QED  BY <2>2, <2>3, <2>4, <2>5, <2>6 DEF LeftRight
<1>14. CASE b # NoNode
  <2>. DEFINE R == IF b.entry = s.entry THEN {} ELSE ReplaceEntry(p, b, s)
  <2>1. D = R \cup MetadataDiff(p, b, s)
    BY <1>1, <1>14 DEF DiffBoth
  <2>2. \A i \in MetadataDiff(p, b, s) : i.tag \in MetaTags \cup {"Comment"}
    BY MetadataOne
  <2>3. /\ \A i \in R : i.tag = "Remove" \/ i = k
        /\ b.entry # s.entry => k \in R
        /\ b.entry.kind # kind => Instr(p, "Remove", None) \in R
    BY <1>5, <1>6 DEF ReplaceEntry, kind
  <2>. HIDE DEF R
  <2>4. \A i \in D : i.tag \in MetaTags \cup {"Comment"} => i \in MetadataDiff(p, b, s)
    BY <1>7, <2>1, <2>3 DEF MetaTags
  <2>5. /\ SetRight(D, "SetMode", s.mode)
        /\ SetRight(D, "SetOwner", s.owner)
        /\ SetRight(D, "SetGroup", s.group)
        /\ ~Has(D, {"SetMode"}) => s.mode = None \/ b.mode = s.mode
        /\ ~Has(D, {"SetOwner"}) => s.owner = None \/ b.owner = s.owner
        /\ ~Has(D, {"SetGroup"}) => s.group = None \/ b.group = s.group
    <3>1. MetadataDiff(p, b, s) \subseteq D
      BY <2>1
    <3>2. SetsMetadata(D, b, s)
      BY <2>4, <3>1, MetadataSet
    <3>. QED  BY <3>2 DEF SetsMetadata
  <2>6. \A i \in D : i.tag \in MakerTags => i = k
    BY <2>1, <2>2, <2>3 DEF MakerTags, CreateTags, MetaTags
  <2>7. s.entry \notin {Removed, Unchanged}
    BY DEF s
  <2>8. x = NoNode => k \in D
    <3>1. SUFFICES ASSUME x = NoNode PROVE b.entry = Removed
      BY <2>1, <2>3, <2>7
    <3>. QED  BY <1>1, <1>14, <3>1 DEF ScanSays
  <2>9. Has(D, {"Remove"}) => k \in D
    <3>1. SUFFICES ASSUME NEW i \in D, i.tag = "Remove" PROVE k \in D
      BY DEF Has
    <3>2. i \in R
      BY <2>1, <2>2, <3>1 DEF MetaTags
    <3>3. b.entry # s.entry
      BY <3>2 DEF R
    <3>. QED  BY <2>1, <2>3, <3>3
  <2>10. ASSUME x # NoNode, b.entry.kind = kind PROVE b.entry = Entry(x.kind, x.data) /\ x.kind = kind
    <3>1. b.entry \notin {Removed, Unchanged}
      BY <1>2, <2>10 DEF Removed, Unchanged, Entry
    <3>2. b.entry = Entry(x.kind, x.data)
      BY <1>1, <1>14, <2>10, <3>1 DEF ScanSays
    <3>. QED  BY <2>10, <3>2 DEF Entry
  <2>11. ASSUME ~Goes(x, D), k \notin D PROVE x.kind = kind /\ x.data = s.entry.data
    <3>1. b.entry = s.entry
      BY <2>1, <2>3, <2>11
    <3>. QED  BY <2>10, <2>11, <3>1 DEF Goes, Entry, kind
  <2>12. ASSUME ~Anew(x, D)
         PROVE  /\ kind # "Symlink" => LeftRight(D, "SetMode", s.mode, x.mode)
                /\ LeftRight(D, "SetOwner", s.owner, x.owner)
                /\ LeftRight(D, "SetGroup", s.group, x.group)
    <3>1. x # NoNode /\ ~Has(D, {"Remove"}) /\ ~Has(D, {"CreateSymlink"})
      BY <2>12 DEF Anew, Has
    <3>2. b.entry.kind = kind
      BY <1>5, <2>1, <2>3, <3>1 DEF Has
    <3>3. b.entry = Entry(x.kind, x.data) /\ x.kind = kind
      BY <2>10, <3>1, <3>2
    <3>4. /\ kind # "Symlink" => ImpliedMode(b.entry) = DefaultModeOf(kind)
          /\ ImpliedName(b.entry) = ROOT
      <4>1. b.entry # Unchanged
        BY <1>2, <3>2 DEF Unchanged, Entry
      <4>2. b.entry = Directory <=> kind = "Directory"
        <5>1. x.kind = "Directory" => x.data = None
          BY <1>1, <3>1, InodeFields
        <5>. QED  BY <3>3, <5>1 DEF Directory, Entry
      <4>. QED  BY <1>2, <4>1, <4>2 DEF ImpliedMode, ImpliedName, DefaultModeOf
    <3>5. /\ kind # "Symlink" => ScanField(b.mode, x.mode, pkg, pkg.mode, DefaultModeOf(kind))
          /\ ScanField(b.owner, x.owner, pkg, pkg.owner, ROOT)
          /\ ScanField(b.group, x.group, pkg, pkg.group, ROOT)
      BY <1>1, <1>14, <3>1, <3>3, <3>4 DEF ScanSays
    <3>6. pkg # None => /\ kind # "Symlink" => pkg.mode = DefaultModeOf(kind)
                        /\ pkg.owner = ROOT /\ pkg.group = ROOT
      BY <1>8, <3>1, <3>3
    <3>7. \A said, actual, packaged, implied :
             (/\ ScanField(said, actual, pkg, packaged, implied)
              /\ pkg # None => packaged = implied
              /\ implied # None) => said = actual
      BY DEF ScanField
    <3>8. (kind # "Symlink" => b.mode = x.mode) /\ b.owner = x.owner /\ b.group = x.group
      BY <1>9, <3>5, <3>6, <3>7
    <3>. QED  BY <2>5, <3>8 DEF LeftRight
  <2>. QED  BY <2>5, <2>6, <2>8, <2>9, <2>11, <2>12 DEF Goes
<1>. QED  BY <1>13, <1>14

\* The plan for a path aims at what is wanted there.
LEMMA PlanAims ==
    ASSUME NEW p, PathCase(p)
    PROVE  Aims(PlanFor(p), run.start[p], Wanted(p), Originals[p])
  BY AimsUntold, AimsRemoved, AimsChanged, AimsMade

-----------------------------------------------------------------------------
(* From what a path is to what it is wanted to be *)

\* The instruction finds what it needs at its path.
Suits(i, x) ==
    /\ i.tag = "CreateDirectory" => x = NoNode \/ x.kind = "Directory"
    /\ i.tag \in {"CreateFile", "Restore"} => x = NoNode \/ x.kind = "File"
    /\ i.tag = "CreateSymlink" => x = NoNode \/ x.kind # "Directory"
    /\ i.tag \in MetaTags => x # NoNode /\ x.kind # "Symlink"

\* What it makes of it.
Effect(i, x, original) ==
    LET contents == IF i.tag = "Restore" THEN original ELSE i.arg IN
    CASE i.tag = "CreateDirectory" ->
            IF x = NoNode THEN NewInode("Directory", None, DEFAULT_DIR_MODE) ELSE x
      [] i.tag \in {"CreateFile", "Restore"} ->
            IF x = NoNode THEN NewInode("File", contents, DEFAULT_FILE_MODE)
            ELSE [x EXCEPT !.data = contents]
      [] i.tag = "CreateSymlink" -> NewInode("Symlink", i.arg, LINK_MODE)
      [] i.tag = "SetMode"  -> [x EXCEPT !.mode = i.arg]
      [] i.tag = "SetOwner" -> [Chowned(x) EXCEPT !.owner = i.arg]
      [] i.tag = "SetGroup" -> [Chowned(x) EXCEPT !.group = i.arg]
      [] OTHER -> NoNode

\* The instructions lead from what is there to what is wanted, and none of them gets
\* stuck: they aim at it; they do not follow links; and what is made anew gets all
\* the metadata it does not have by itself, and keeps it.
Leads(instrs, x, w, original) ==
    /\ Aims(instrs, x, w, original)
    /\ w = None => ~Has(instrs, MetaTags)
    /\ w # None =>
          /\ ~Goes(x, instrs) => \A i \in instrs : i.tag \in MakerTags => Suits(i, x)
          /\ w.kind = "Symlink" => ~Has(instrs, MetaTags)
          /\ Anew(x, instrs) =>
                /\ w.kind # "Symlink" => LeftRight(instrs, "SetMode", w.mode, DefaultModeOf(w.kind))
                /\ LeftRight(instrs, "SetOwner", w.owner, ROOT)
                /\ LeftRight(instrs, "SetGroup", w.group, ROOT)
          /\ w.mode # None /\ Has(instrs, {"SetOwner", "SetGroup"}) => WithoutSetid[w.mode] = w.mode

\* So does a plan that none of the known hard cases applies to.
LEMMA PlanLeads ==
    ASSUME NEW p, PathCase(p)
    PROVE  Leads(PlanFor(p), run.start[p], Wanted(p), Originals[p])
<1>. DEFINE D == PlanFor(p)
            x == run.start[p]
            w == Wanted(p)
<1>1. \A tags : InPlan(p, tags) <=> Has(D, tags)
  BY PlanFacts
<1>2. /\ ~WrongTypeInPlace(p) /\ ~LosesMetadata(p) /\ ~LosesSetidBits(p)
      /\ ~MetadataOfNothing(p) /\ ~MetadataOfLink(p)
  BY DEF PathCase, Fair, Tractable
<1>3. Aims(D, x, w, Originals[p])
  BY PlanAims
<1>. HIDE DEF D
<1>4. w = None => ~Has(D, MetaTags)
  BY <1>1, <1>2 DEF MetadataOfNothing
<1>5. ASSUME w # None, ~Goes(x, D), NEW i \in D, i.tag \in MakerTags
      PROVE  Suits(i, x)
  <2>1. MakesWanted(i, w, Originals[p])
    BY <1>3, <1>5 DEF Aims
  <2>2. InPlan(p, {i.tag}) /\ i.tag \in {"CreateDirectory", "CreateFile", "CreateSymlink", "Restore"}
    BY <1>1, <1>5, <2>1 DEF MakesWanted, Has
  <2>3. x # NoNode /\ ~InPlan(p, {"Remove"})
    BY <1>1, <1>5 DEF Goes
  <2>4. /\ i.tag \in {"CreateFile", "Restore"} => InPlan(p, {"CreateFile", "Restore"})
        /\ i.tag = "CreateDirectory" => InPlan(p, {"CreateDirectory"})
        /\ i.tag = "CreateSymlink" => InPlan(p, {"CreateSymlink"})
    BY <2>2 DEF InPlan
  <2>. QED  BY <1>2, <2>2, <2>3, <2>4 DEF WrongTypeInPlace, Found, Suits, MetaTags
<1>6. ASSUME w # None PROVE w.kind = "Symlink" => ~Has(D, MetaTags)
  BY <1>1, <1>2, <1>6 DEF MetadataOfLink
<1>7. ASSUME w # None, Anew(x, D)
      PROVE  /\ w.kind # "Symlink" => LeftRight(D, "SetMode", w.mode, DefaultModeOf(w.kind))
             /\ LeftRight(D, "SetOwner", w.owner, ROOT)
             /\ LeftRight(D, "SetGroup", w.group, ROOT)
  BY <1>1, <1>2, <1>7 DEF LosesMetadata, Anew, LeftRight
<1>8. ASSUME w # None, w.mode # None, Has(D, {"SetOwner", "SetGroup"})
      PROVE  WithoutSetid[w.mode] = w.mode
  BY <1>1, <1>2, <1>8 DEF LosesSetidBits
<1>. QED  BY <1>3, <1>4, <1>5, <1>6, <1>7, <1>8 DEF Leads, D

\* When nothing is left to do, what is there is what is wanted.
LEMMA LeadsThere ==
    ASSUME NEW instrs, NEW x \in Inode \cup {NoNode}, NEW w, NEW original,
           Leads(instrs, x, w, original), \A i \in instrs : i.tag = "Comment"
    PROVE  Matches(x, w)
<1>1. /\ ~Has(instrs, MakerTags) /\ ~Has(instrs, {"Remove"}) /\ ~Has(instrs, {"CreateSymlink"})
      /\ ~Has(instrs, {"SetMode"}) /\ ~Has(instrs, {"SetOwner"}) /\ ~Has(instrs, {"SetGroup"})
  BY DEF Has, MakerTags, CreateTags
<1>2. CASE w = None
  BY <1>1, <1>2 DEF Leads, Aims, Matches
<1>3. CASE w # None
  <2>1. ~Goes(x, instrs)
    BY <1>1, <1>3 DEF Leads, Aims
  <2>2. ~Anew(x, instrs)
    BY <1>1, <2>1 DEF Goes, Anew, Has
  <2>3. /\ x # NoNode /\ x.kind = w.kind /\ x.data = w.data
        /\ w.kind # "Symlink" => w.mode \in {None, x.mode}
        /\ w.owner \in {None, x.owner} /\ w.group \in {None, x.group}
    BY <1>1, <1>3, <2>1, <2>2 DEF Leads, Aims, Goes, LeftRight
  <2>. QED  BY <1>3, <2>3 DEF Matches, Or
<1>. QED  BY <1>2, <1>3

\* A directory that is made above something is one that is wanted.
LEMMA LeadsBelow ==
    ASSUME NEW instrs, NEW w, NEW original, Leads(instrs, NoNode, w, original),
           w # None, w.kind = "Directory"
    PROVE  Leads(instrs, NewInode("Directory", None, DEFAULT_DIR_MODE), w, original)
<1>. DEFINE x == NewInode("Directory", None, DEFAULT_DIR_MODE)
<1>1. /\ x # NoNode /\ x.kind = "Directory" /\ x.mode = DefaultModeOf(w.kind) /\ x.owner = ROOT /\ x.group = ROOT
  BY NewInodes, ValueAssumption, InodeAssumption DEF NewInode, DefaultModeOf
<1>2. Goes(NoNode, instrs) /\ Anew(NoNode, instrs)
  BY DEF Goes, Anew
<1>3. \A i \in instrs : i.tag \in MakerTags => MakesWanted(i, w, original) /\ i.tag = "CreateDirectory"
  BY DEF Leads, Aims, MakesWanted
<1>4. Has(instrs, MakerTags)
  BY <1>2 DEF Leads, Aims
<1>. HIDE DEF x
<1>5. \A i \in instrs : i.tag \in MakerTags => Suits(i, x)
  BY <1>1, <1>3 DEF Suits
<1>6. /\ w.kind # "Symlink" => LeftRight(instrs, "SetMode", w.mode, x.mode)
      /\ LeftRight(instrs, "SetOwner", w.owner, x.owner)
      /\ LeftRight(instrs, "SetGroup", w.group, x.group)
  BY <1>1, <1>2 DEF Leads
<1>. QED  BY <1>2, <1>3, <1>4, <1>5, <1>6 DEF Leads, Aims, x

\* What comes first at a path: whatever waits there is of a later kind.
ComesFirst(i, instrs) ==
    \A j \in instrs \ {i} :
        TagRank[i.tag] < TagRank[j.tag] /\ ~({i.tag, j.tag} \subseteq MakerTags)

\* The instruction that comes first finds what it needs, and the others lead on from
\* what it makes.
LEMMA LeadsOn ==
    ASSUME NEW instrs \in SUBSET FsInstruction, NEW x \in Inode \cup {NoNode}, NEW w,
           NEW original \in Contents \cup {None}, Leads(instrs, x, w, original),
           NEW i \in instrs, i.tag # "Comment", ComesFirst(i, instrs)
    PROVE  /\ i.tag \in {"Remove", "CreateDirectory", "CreateFile", "CreateSymlink", "Restore"} \cup MetaTags
           /\ i.tag # "Remove" => w # None
           /\ Suits(i, x)
           /\ i.tag = "Restore" => original # None
           /\ Leads(instrs \ {i}, Effect(i, x, original), w, original)
<1>. DEFINE rest == instrs \ {i}
            y == Effect(i, x, original)
<1>1. \A j \in rest : /\ j.tag \in Tags /\ i.tag \in Tags
                      /\ TagRank[i.tag] < TagRank[j.tag] /\ ~(i.tag \in MakerTags /\ j.tag \in MakerTags)
  BY Operands DEF ComesFirst
<1>2. i.tag \in Tags /\ i \in FsInstruction
  BY Operands
<1>3. /\ i.tag \in MakerTags \cup MetaTags => ~Has(instrs, {"Remove"})
      /\ i.tag \in MakerTags => ~Has(rest, MakerTags)
      /\ i.tag \in MetaTags => ~Has(instrs, MakerTags) /\ ~Has(instrs, {"CreateSymlink"})
      /\ ~Has(rest, {i.tag})
      /\ i.tag \in {"SetOwner", "SetGroup"} => ~Has(instrs, {"SetMode"})
      /\ i.tag = "SetGroup" => ~Has(instrs, {"SetOwner"})
  BY <1>1, <1>2, TagRanks, TagOrder DEF Has, MakerTags, CreateTags, MetaTags
<1>4. \A tags : /\ Has(rest, tags) => Has(instrs, tags)
                /\ i.tag \notin tags => (Has(rest, tags) <=> Has(instrs, tags))
  BY DEF Has
<1>5. i.tag \in {"Remove"} \cup MakerTags \cup MetaTags
  BY <1>2, TagRanks DEF MakerTags
<1>6. x # NoNode => x.mode # None /\ x.owner # None /\ x.group # None
  BY InodeFields, ValueAssumption
<1>7. /\ Has(instrs, {i.tag})
      /\ i.tag \in MakerTags => Has(instrs, MakerTags)
      /\ i.tag \in MetaTags => Has(instrs, MetaTags)
  BY DEF Has
<1>8. \A tag, value : SetRight(instrs, tag, value) => SetRight(rest, tag, value)
  BY DEF SetRight
<1>9. w # None =>
         /\ \A j \in rest : j.tag \in MakerTags => MakesWanted(j, w, original)
         /\ SetRight(rest, "SetMode", w.mode) /\ SetRight(rest, "SetOwner", w.owner)
         /\ SetRight(rest, "SetGroup", w.group)
         /\ w.kind = "Symlink" => ~Has(rest, MetaTags)
         /\ w.mode # None /\ Has(rest, {"SetOwner", "SetGroup"}) => WithoutSetid[w.mode] = w.mode
  BY <1>4, <1>8 DEF Leads, Aims
<1>. HIDE DEF rest, y
<1>10. CASE i.tag = "Remove"
  <2>1. y = NoNode
    BY <1>10 DEF y, Effect, MetaTags
  <2>2. Goes(x, instrs) /\ Anew(x, instrs)
    BY <1>7, <1>10 DEF Goes, Anew, Has
  <2>3. CASE w = None
    <3>1. ~Has(rest, MakerTags) /\ ~Has(rest, MetaTags)
      BY <1>4, <2>3 DEF Leads, Aims
    <3>. QED  BY <1>10, <2>1, <2>3, <3>1 DEF Leads, Aims, Suits, MetaTags, rest, y
  <2>4. CASE w # None
    <3>1. Has(rest, MakerTags)
      BY <1>4, <1>10, <2>2, <2>4 DEF Leads, Aims, MakerTags, CreateTags
    <3>2. \A tag, value, actual : tag # "Remove" /\ LeftRight(instrs, tag, value, actual) => LeftRight(rest, tag, value, actual)
      BY <1>4, <1>10 DEF LeftRight
    <3>3. /\ w.kind # "Symlink" => LeftRight(rest, "SetMode", w.mode, DefaultModeOf(w.kind))
          /\ LeftRight(rest, "SetOwner", w.owner, ROOT)
          /\ LeftRight(rest, "SetGroup", w.group, ROOT)
      BY <2>2, <2>4, <3>2 DEF Leads
    <3>4. Goes(y, rest) /\ Anew(y, rest)
      BY <2>1 DEF Goes, Anew
    <3>. QED  BY <1>9, <1>10, <2>4, <3>1, <3>3, <3>4 DEF Leads, Aims, Suits, MetaTags, rest, y
  <2>. QED  BY <2>3, <2>4
<1>11. CASE i.tag \in MakerTags
  <2>1. w # None /\ MakesWanted(i, w, original)
    BY <1>7, <1>11 DEF Leads, Aims
  <2>2. i.tag \in {"CreateDirectory", "CreateFile", "CreateSymlink", "Restore"}
    BY <2>1 DEF MakesWanted
  <2>3. Suits(i, x)
    <3>1. CASE x = NoNode
      BY <2>2, <3>1 DEF Suits, MetaTags
    <3>2. CASE x # NoNode
      <4>1. ~Goes(x, instrs)
        BY <1>3, <1>11, <3>2 DEF Goes
      <4>. QED  BY <1>11, <2>1, <4>1 DEF Leads
    <3>. QED  BY <3>1, <3>2
  <2>4. i.tag = "Restore" => original # None
    BY <2>1 DEF MakesWanted
  <2>5. y # NoNode /\ y.kind = w.kind /\ y.data = w.data
    <3>1. i.tag = "CreateFile" => i.arg \in Contents
      BY <1>2, Operands
    <3>2. i.tag = "CreateSymlink" => i.arg \in Targets
      BY <1>2, Operands
    <3>3. CASE i.tag = "CreateDirectory"
      <4>1. w.kind = "Directory" /\ w.data = None
        BY <2>1, <3>3 DEF MakesWanted
      <4>2. y = IF x = NoNode THEN NewInode("Directory", None, DEFAULT_DIR_MODE) ELSE x
        BY <3>3 DEF y, Effect
      <4>3. NewInode("Directory", None, DEFAULT_DIR_MODE) # NoNode
        BY NewInodes, ValueAssumption, InodeAssumption
      <4>4. x # NoNode => x.kind = "Directory" /\ x.data = None
        BY <2>3, <3>3, InodeFields DEF Suits
      <4>. QED  BY <4>1, <4>2, <4>3, <4>4 DEF NewInode
    <3>4. CASE i.tag \in {"CreateFile", "Restore"}
      <4>. DEFINE c == IF i.tag = "Restore" THEN original ELSE i.arg
      <4>1. w.kind = "File" /\ w.data = c /\ c \in Contents
        BY <2>1, <2>4, <3>1, <3>4 DEF MakesWanted
      <4>2. y = IF x = NoNode THEN NewInode("File", c, DEFAULT_FILE_MODE) ELSE [x EXCEPT !.data = c]
        BY <3>4 DEF y, Effect
      <4>. HIDE DEF c
      <4>3. CASE x = NoNode
        <5>1. NewInode("File", c, DEFAULT_FILE_MODE) # NoNode
          BY <4>1, NewInodes, ValueAssumption, InodeAssumption
        <5>. QED  BY <4>1, <4>2, <4>3, <5>1 DEF NewInode
      <4>4. CASE x # NoNode
        <5>1. x.kind = "File" /\ x \in Inode
          BY <2>3, <3>4, <4>4 DEF Suits
        <5>2. [x EXCEPT !.data = c] \in Inode
          BY <4>1, <5>1, ChangedInodes
        <5>3. [x EXCEPT !.data = c].kind = "File" /\ [x EXCEPT !.data = c].data = c
          BY <5>1 DEF Inode
        <5>. QED  BY <4>1, <4>2, <4>4, <5>2, <5>3, InodeAssumption
      <4>. QED  BY <4>3, <4>4
    <3>5. CASE i.tag = "CreateSymlink"
      <4>1. w.kind = "Symlink" /\ w.data = i.arg
        BY <2>1, <3>5 DEF MakesWanted
      <4>2. y = NewInode("Symlink", i.arg, LINK_MODE)
        BY <3>5 DEF y, Effect
      <4>3. y # NoNode
        BY <3>2, <3>5, <4>2, NewInodes, ModeAssumption, InodeAssumption
      <4>. QED  BY <4>1, <4>2, <4>3 DEF NewInode
    <3>. QED  BY <2>2, <3>3, <3>4, <3>5
  <2>6. /\ Anew(x, instrs) => y.owner = ROOT /\ y.group = ROOT /\ (w.kind # "Symlink" => y.mode = DefaultModeOf(w.kind))
        /\ ~Anew(x, instrs) => y.owner = x.owner /\ y.group = x.group /\ y.mode = x.mode
    <3>1. CASE i.tag = "CreateSymlink"
      <4>1. Anew(x, instrs) /\ w.kind = "Symlink"
        BY <2>1, <3>1 DEF Anew, Has, MakesWanted
      <4>. QED  BY <3>1, <4>1 DEF y, Effect, NewInode
    <3>2. CASE i.tag # "CreateSymlink" /\ x = NoNode
      <4>1. Anew(x, instrs)
        BY <3>2 DEF Anew
      <4>2. /\ i.tag = "CreateDirectory" => y.mode = DEFAULT_DIR_MODE /\ y.owner = ROOT /\ y.group = ROOT
            /\ i.tag \in {"CreateFile", "Restore"} => y.mode = DEFAULT_FILE_MODE /\ y.owner = ROOT /\ y.group = ROOT
        BY <3>2 DEF y, Effect, NewInode
      <4>3. /\ i.tag = "CreateDirectory" => w.kind = "Directory"
            /\ i.tag \in {"CreateFile", "Restore"} => w.kind = "File"
        BY <2>1 DEF MakesWanted
      <4>. QED  BY <2>2, <3>2, <4>1, <4>2, <4>3 DEF DefaultModeOf
    <3>3. CASE i.tag # "CreateSymlink" /\ x # NoNode
      <4>1. ~Has(instrs, {"CreateSymlink"}) /\ ~Has(instrs, {"Remove"})
        <5>1. ~Has(rest, {"CreateSymlink"})
          BY <1>3, <1>11 DEF Has, MakerTags, CreateTags
        <5>2. Has(rest, {"CreateSymlink"}) <=> Has(instrs, {"CreateSymlink"})
          BY <1>4, <3>3
        <5>. QED  BY <1>3, <1>11, <5>1, <5>2
      <4>2. ~Anew(x, instrs)
        BY <3>3, <4>1 DEF Anew, Has
      <4>3. /\ i.tag = "CreateDirectory" => y = x
            /\ i.tag = "CreateFile" => y = [x EXCEPT !.data = i.arg]
            /\ i.tag = "Restore" => y = [x EXCEPT !.data = original]
        BY <3>3 DEF y, Effect
      <4>4. y.owner = x.owner /\ y.group = x.group /\ y.mode = x.mode
        <5>1. x \in Inode
          BY <3>3
        <5>. QED  BY <2>2, <3>3, <4>3, <5>1 DEF Inode
      <4>. QED  BY <4>2, <4>4
    <3>. QED  BY <3>1, <3>2, <3>3
  <2>7. ~Has(rest, MakerTags) /\ ~Has(rest, {"Remove"}) /\ ~Has(rest, {"CreateSymlink"})
    BY <1>3, <1>4, <1>11 DEF Has, MakerTags, CreateTags
  <2>8. ~Goes(y, rest) /\ ~Anew(y, rest)
    BY <2>5, <2>7 DEF Goes, Anew, Has
  <2>9. \A tag, value, actual : tag \in MetaTags /\ LeftRight(instrs, tag, value, actual) => LeftRight(rest, tag, value, actual)
    <3>1. i.tag \notin MetaTags
      BY <1>11 DEF MakerTags, CreateTags, MetaTags
    <3>2. \A tag : tag \in MetaTags => i.tag \notin {tag}
      BY <3>1
    <3>. QED  BY <1>4, <3>2 DEF LeftRight
  <2>10. /\ w.kind # "Symlink" => LeftRight(rest, "SetMode", w.mode, y.mode)
         /\ LeftRight(rest, "SetOwner", w.owner, y.owner)
         /\ LeftRight(rest, "SetGroup", w.group, y.group)
    <3>1. CASE Anew(x, instrs)
      BY <2>1, <2>6, <2>9, <3>1 DEF Leads, MetaTags
    <3>2. CASE ~Anew(x, instrs)
      BY <2>1, <2>6, <2>9, <3>2 DEF Leads, Aims, MetaTags
    <3>. QED  BY <3>1, <3>2
  <2>11. \A j \in rest : j.tag \notin MakerTags
    BY <2>7 DEF Has
  <2>12. Leads(rest, y, w, original)
    BY <1>9, <2>1, <2>5, <2>8, <2>10, <2>11 DEF Leads, Aims
  <2>. QED  BY <2>1, <2>2, <2>3, <2>4, <2>12 DEF rest, y
<1>12. CASE i.tag \in MetaTags
  <2>1. w # None
    BY <1>7, <1>12 DEF Leads
  <2>2. w.kind # "Symlink"
    BY <1>7, <1>12, <2>1 DEF Leads
  <2>3. ~Goes(x, instrs) /\ ~Anew(x, instrs) /\ ~Has(instrs, MakerTags)
    <3>1. ~Goes(x, instrs)
      BY <1>3, <1>12, <2>1 DEF Leads, Aims
    <3>. QED  BY <1>3, <1>12, <3>1 DEF Goes, Anew, Has
  <2>4. /\ x \in Inode /\ x # NoNode /\ x.kind = w.kind /\ x.data = w.data
    BY <2>1, <2>3 DEF Leads, Aims, Goes
  <2>5. Suits(i, x)
    BY <1>12, <2>2, <2>4 DEF Suits, MetaTags
  <2>6. /\ LeftRight(instrs, "SetMode", w.mode, x.mode)
        /\ LeftRight(instrs, "SetOwner", w.owner, x.owner)
        /\ LeftRight(instrs, "SetGroup", w.group, x.group)
        /\ SetRight(instrs, "SetMode", w.mode) /\ SetRight(instrs, "SetOwner", w.owner)
        /\ SetRight(instrs, "SetGroup", w.group)
    BY <2>1, <2>2, <2>3 DEF Leads, Aims
  <2>7. /\ y \in Inode /\ y.kind = w.kind /\ y.data = w.data
        /\ w.mode \in {None, y.mode} \/ Has(rest, {"SetMode"})
        /\ w.owner \in {None, y.owner} \/ Has(rest, {"SetOwner"})
        /\ w.group \in {None, y.group} \/ Has(rest, {"SetGroup"})
    <3>1. CASE i.tag = "SetMode"
      <4>1. y = [x EXCEPT !.mode = i.arg] /\ i.arg \in Mode
        BY <1>2, <3>1, Operands DEF y, Effect
      <4>2. y \in Inode
        BY <2>4, <4>1, ChangedInodes
      <4>3. y.mode = i.arg /\ y.kind = x.kind /\ y.data = x.data /\ y.owner = x.owner /\ y.group = x.group
        BY <2>4, <4>1 DEF Inode
      <4>4. w.mode \in {None, i.arg}
        BY <2>6, <3>1 DEF SetRight
      <4>5. /\ Has(rest, {"SetOwner"}) <=> Has(instrs, {"SetOwner"})
            /\ Has(rest, {"SetGroup"}) <=> Has(instrs, {"SetGroup"})
        BY <1>4, <3>1
      <4>. QED  BY <2>4, <2>6, <4>2, <4>3, <4>4, <4>5 DEF LeftRight
    <3>2. ASSUME i.tag \in {"SetOwner", "SetGroup"}
          PROVE  /\ Chowned(x) \in Inode
                 /\ Chowned(x).kind = x.kind /\ Chowned(x).data = x.data
                 /\ Chowned(x).owner = x.owner /\ Chowned(x).group = x.group
                 /\ w.mode \in {None, Chowned(x).mode}
      <4>1. Chowned(x) \in Inode
        BY <2>4, ChangedInodes
      <4>2. w.mode \in {None, x.mode}
        BY <1>3, <2>6, <3>2 DEF LeftRight
      <4>3. w.mode # None => WithoutSetid[w.mode] = w.mode
        BY <1>7, <2>1, <3>2 DEF Leads, Has
      <4>4. Chowned(x) = IF x.kind = "File" THEN [x EXCEPT !.mode = WithoutSetid[x.mode]] ELSE x
        BY <2>4 DEF Chowned, Inode
      <4>5. /\ Chowned(x).mode = IF x.kind = "File" THEN WithoutSetid[x.mode] ELSE x.mode
            /\ Chowned(x).kind = x.kind /\ Chowned(x).data = x.data
            /\ Chowned(x).owner = x.owner /\ Chowned(x).group = x.group
        BY <2>4, <4>4 DEF Inode
      <4>. QED  BY <4>1, <4>2, <4>3, <4>5
    <3>3. CASE i.tag = "SetOwner"
      <4>1. y = [Chowned(x) EXCEPT !.owner = i.arg] /\ i.arg \in Name
        BY <1>2, <3>3, Operands DEF y, Effect, MetaTags
      <4>2. y \in Inode
        BY <3>2, <3>3, <4>1, ChangedInodes
      <4>3. y.owner = i.arg /\ y.kind = x.kind /\ y.data = x.data /\ y.group = x.group /\ w.mode \in {None, y.mode}
        BY <3>2, <3>3, <4>1 DEF Inode
      <4>4. w.owner \in {None, i.arg}
        BY <2>6, <3>3 DEF SetRight
      <4>5. Has(rest, {"SetGroup"}) <=> Has(instrs, {"SetGroup"})
        BY <1>4, <3>3
      <4>. QED  BY <2>4, <2>6, <4>2, <4>3, <4>4, <4>5 DEF LeftRight
    <3>4. CASE i.tag = "SetGroup"
      <4>1. y = [Chowned(x) EXCEPT !.group = i.arg] /\ i.arg \in Name
        BY <1>2, <3>4, Operands DEF y, Effect, MetaTags
      <4>2. y \in Inode
        BY <3>2, <3>4, <4>1, ChangedInodes
      <4>3. y.group = i.arg /\ y.kind = x.kind /\ y.data = x.data /\ y.owner = x.owner /\ w.mode \in {None, y.mode}
        BY <3>2, <3>4, <4>1 DEF Inode
      <4>4. w.group \in {None, i.arg}
        BY <2>6, <3>4 DEF SetRight
      <4>5. w.owner \in {None, x.owner}
        BY <1>3, <2>6, <3>4 DEF LeftRight
      <4>. QED  BY <2>4, <4>2, <4>3, <4>4, <4>5
    <3>. QED  BY <1>12, <3>1, <3>3, <3>4 DEF MetaTags
  <2>8. y # NoNode /\ ~Has(rest, MakerTags) /\ ~Has(rest, {"Remove"}) /\ ~Has(rest, {"CreateSymlink"})
    BY <1>3, <1>4, <1>12, <2>7, InodeAssumption
  <2>9. ~Goes(y, rest) /\ ~Anew(y, rest)
    BY <2>8 DEF Goes, Anew, Has
  <2>10. \A j \in rest : j.tag \notin MakerTags
    BY <2>8 DEF Has
  <2>11. Leads(rest, y, w, original)
    BY <1>9, <2>1, <2>7, <2>9, <2>10 DEF Leads, Aims, LeftRight
  <2>12. i.tag # "Restore" /\ i.tag # "Remove"
    BY <1>12 DEF MetaTags
  <2>. QED  BY <1>12, <2>1, <2>5, <2>11, <2>12 DEF rest, y
<1>. QED  BY <1>5, <1>10, <1>11, <1>12

-----------------------------------------------------------------------------
(* What an instruction leaves alone *)

\* The instructions that act on what a link at their path leads to.
Followers == {"CreateFile", "Restore"} \cup MetaTags

IsLink(d, p) == d[p] # NoNode /\ d[p].kind = "Symlink"

\* The directories above a path and the path itself apart, an instruction changes
\* only what a link at its path leads to.
LEMMA OperateLeavesAlone ==
    ASSUME NEW d \in DiskState, NEW i \in FsInstruction, i.tag \in Followers => ~IsLink(d, i.path),
           NEW original \in Contents \cup {None}, NEW p \in Path, p \notin Ancestors[i.path]
    PROVE  Operate(d, i, original).disk[p] = d[p]
<1>. DEFINE here == i.path
            e == Operate(d, i, original).disk
<1>1. here \in Path /\ i.tag \in Tags /\ p # here /\ Ancestors[here] \in SUBSET Path
  BY Operands, PathAssumption
<1>2. Fail(d).disk = d /\ \A x : Ok(x).disk = x
  BY DEF Fail, Ok
<1>3. ASSUME e = d \/ \E x : e = [d EXCEPT ![here] = x] PROVE e[p] = d[p]
  BY <1>1, <1>3 DEF DiskState
<1>4. CASE i.tag \in {"Remove", "CreateSymlink", "CreateFifo", "CreateBlockDevice", "CreateCharDevice"}
  <2>1. e = d \/ \E x : e = [d EXCEPT ![here] = x]
    BY <1>2, <1>4 DEF Operate, RemoveAny, Unlink, PutSymlink, MakeNode
  <2>. QED  BY <1>3, <2>1
<1>5. CASE i.tag = "CreateDirectory"
  <2>1. e = MakeDirs(d, Ancestors[here]).disk
    BY <1>5 DEF Operate
  <2>. QED  BY <1>1, <1>2, <2>1 DEF MakeDirs
<1>6. CASE i.tag \in Followers
  <2>1. Resolve(d, here) = here
    BY <1>6 DEF Resolve, IsLink
  <2>2. CASE i.tag \in MetaTags
    <3>1. CASE i.tag = "SetMode"
      <4>1. e = d \/ e = [d EXCEPT ![here] = [d[here] EXCEPT !.mode = i.arg]]
        BY <1>2, <2>1, <3>1 DEF Operate, Chmod
      <4>. QED  BY <1>3, <4>1
    <3>2. CASE i.tag = "SetOwner"
      <4>1. e = d \/ e = [d EXCEPT ![here] = [Chowned(d[here]) EXCEPT !.owner = i.arg]]
        BY <1>2, <2>1, <3>2 DEF Operate, ChownUser
      <4>. QED  BY <1>3, <4>1
    <3>3. CASE i.tag = "SetGroup"
      <4>1. e = d \/ e = [d EXCEPT ![here] = [Chowned(d[here]) EXCEPT !.group = i.arg]]
        BY <1>2, <2>1, <3>3 DEF Operate, ChownGroup
      <4>. QED  BY <1>3, <4>1
    <3>. QED  BY <2>2, <3>1, <3>2, <3>3 DEF MetaTags
  <2>3. CASE i.tag \in {"CreateFile", "Restore"}
    <3>1. e = d \/ \E c : e = WriteFile(d, here, c).disk
      BY <1>2, <2>3 DEF Operate, RestoreFile
    <3>2. ASSUME NEW c
          PROVE  LET w == WriteFile(d, here, c).disk
                     x == NewInode("File", c, DEFAULT_FILE_MODE)
                     y == [d[here] EXCEPT !.data = c]
                 IN w = d \/ w = [d EXCEPT ![here] = x] \/ w = [d EXCEPT ![here] = y]
      BY <1>2, <2>1 DEF WriteFile
    <3>. QED  BY <1>3, <3>1, <3>2
  <2>. QED  BY <1>6, <2>2, <2>3 DEF Followers
<1>7. CASE i.tag = "Comment"
  BY <1>2, <1>7 DEF Operate
<1>. QED  BY <1>1, <1>4, <1>5, <1>6, <1>7 DEF Tags, TagRank, Followers, MetaTags

\* The same of a whole instruction, succeeding, failing or cut short.
LEMMA PerformLeavesAlone ==
    ASSUME NEW d \in DiskState, WellFormed(d), NEW i \in FsInstruction,
           i.tag \in Followers => ~IsLink(d, i.path),
           NEW original \in Contents \cup {None}, NEW p \in Path, p \notin Ancestors[i.path]
    PROVE  /\ Perform(d, i, original).disk[p] = d[p]
           /\ \A e \in Interrupted(d, i) : e[p] = d[p]
<1>. DEFINE made == Parents(d, i)
            m == made.disk
            here == i.path
<1>1. /\ m \in DiskState
      /\ \A q \in Path : m[q] # d[q] => q \in StrictAncestors(here)
  BY ParentsMade
<1>2. here \in Path /\ p # here
  BY Operands, PathAssumption
<1>3. m[p] = d[p] /\ m[here] = d[here]
  BY <1>1, <1>2 DEF StrictAncestors
<1>4. i.tag \in Followers => ~IsLink(m, here)
  BY <1>3 DEF IsLink
<1>5. Perform(d, i, original).disk[p] = d[p]
  BY <1>1, <1>3, <1>4, OperateLeavesAlone DEF Perform
<1>6. ASSUME NEW e \in Interrupted(d, i) PROVE e[p] = d[p]
  <2>1. \/ e \in {d, m}
        \/ e = [m EXCEPT ![here] = NoNode]
        \/ i.tag \in {"CreateFile", "Restore"} /\ e = WriteFile(m, here, EMPTY).disk
    BY <1>6 DEF Interrupted
  <2>2. CASE e = [m EXCEPT ![here] = NoNode]
    BY <1>1, <1>2, <1>3, <2>2 DEF DiskState
  <2>3. CASE i.tag \in {"CreateFile", "Restore"} /\ e = WriteFile(m, here, EMPTY).disk
    <3>. DEFINE x == WriteFile(m, here, EMPTY).disk
    <3>1. Resolve(m, here) = here
      BY <1>4, <2>3 DEF Resolve, IsLink, Followers
    <3>2. x = m \/ \E y : x = [m EXCEPT ![here] = y]
      BY <3>1 DEF WriteFile, Ok, Fail
    <3>. QED  BY <1>1, <1>2, <1>3, <2>3, <3>2 DEF DiskState
  <2>. QED  BY <1>3, <2>1, <2>2, <2>3
<1>. QED  BY <1>5, <1>6

\* An instruction that finds what it needs, at its path and above it, succeeds; it
\* has its effect, and makes the directories that were missing above it.
LEMMA Performed ==
    ASSUME NEW d \in DiskState, NEW i \in FsInstruction, NEW original \in Contents \cup {None},
           i.tag \in {"CreateDirectory", "CreateFile", "CreateSymlink", "Restore"} \cup MetaTags,
           Suits(i, d[i.path]), i.tag = "Restore" => original # None,
           \A a \in StrictAncestors(i.path) : d[a] = NoNode \/ IsDir(d, a)
    PROVE  LET result == Perform(d, i, original) IN
           /\ result.ok
           /\ result.disk[i.path] = Effect(i, d[i.path], original)
           /\ \A q \in Path \ {i.path} :
                 result.disk[q] = IF q \in StrictAncestors(i.path) /\ d[q] = NoNode
                                  THEN NewInode("Directory", None, DEFAULT_DIR_MODE) ELSE d[q]
<1>. DEFINE here == i.path
            new == NewInode("Directory", None, DEFAULT_DIR_MODE)
            m == [q \in Path |-> IF q \in StrictAncestors(here) /\ d[q] = NoNode THEN new ELSE d[q]]
            x == d[here]
            done == Operate(m, i, original)
<1>1. /\ here \in Path /\ here # None /\ Ancestors[here] \in SUBSET Path
      /\ Ancestors[here] = StrictAncestors(here) \cup {here} /\ here \notin StrictAncestors(here)
  BY Operands, PathAssumption, NowhereAssumption DEF StrictAncestors
<1>2. new # NoNode /\ new.kind = "Directory"
  BY NewInodes, ValueAssumption, InodeAssumption DEF NewInode
<1>3. Perform(d, i, original) = done
  <2>1. NeedsParent(i)
    BY DEF NeedsParent, MetaTags
  <2>2. Parents(d, i) = Ok(m)
    BY <2>1 DEF Parents, MakeDirs, IsDir
  <2>. HIDE DEF m, done
  <2>3. Ok(m).ok /\ Ok(m).disk = m
    BY DEF Ok
  <2>. QED  BY <2>2, <2>3 DEF Perform, done
<1>4. /\ m[here] = x
      /\ \A q \in Path : m[q] = IF q \in StrictAncestors(here) /\ d[q] = NoNode THEN new ELSE d[q]
      /\ \A a \in StrictAncestors(here) : IsDir(m, a)
  BY <1>1, <1>2 DEF IsDir
<1>5. DOMAIN m = Path /\ m = [q \in Path |-> m[q]]
  OBVIOUS
<1>6. \A e : Ok(e).ok /\ Ok(e).disk = e
  BY DEF Ok
<1>. HIDE DEF m, new, x, done
<1>7. ASSUME NEW y, done = Ok([m EXCEPT ![here] = y]), y = Effect(i, x, original)
      PROVE  /\ done.ok /\ done.disk[here] = Effect(i, x, original)
             /\ \A q \in Path \ {here} : done.disk[q] = m[q]
  <2>. DEFINE e == [m EXCEPT ![here] = y]
  <2>1. e[here] = y /\ \A q \in Path \ {here} : e[q] = m[q]
    BY <1>1, <1>5
  <2>. HIDE DEF e
  <2>2. done = Ok(e)
    BY <1>7 DEF e
  <2>3. done.ok /\ done.disk = e
    BY <1>6, <2>2
  <2>. QED  BY <1>7, <2>1, <2>3
<1>8. /\ done.ok /\ done.disk[here] = Effect(i, x, original)
      /\ \A q \in Path \ {here} : done.disk[q] = m[q]
  <2>1. CASE i.tag = "CreateDirectory"
    <3>1. done = MakeDirs(m, Ancestors[here])
      BY <2>1 DEF Operate, done
    <3>2. x = NoNode \/ IsDir(m, here)
      BY <1>4, <2>1 DEF Suits, IsDir, x
    <3>3. ~\E a \in Ancestors[here] : m[a] # NoNode /\ ~IsDir(m, a)
      BY <1>1, <1>4, <3>2
    <3>4. done = Ok([q \in Path |-> IF q \in Ancestors[here] /\ m[q] = NoNode THEN new ELSE m[q]])
      BY <3>1, <3>3 DEF MakeDirs, new
    <3>5. \A a \in StrictAncestors(here) : m[a] # NoNode
      BY <1>4 DEF IsDir
    <3>6. \A q \in Path : done.disk[q] = IF q = here /\ x = NoNode THEN new ELSE m[q]
      BY <1>1, <1>4, <1>6, <3>4, <3>5
    <3>7. Effect(i, x, original) = IF x = NoNode THEN new ELSE x
      BY <2>1 DEF Effect, new
    <3>. QED  BY <1>1, <1>4, <1>6, <3>4, <3>6, <3>7
  <2>2. CASE i.tag \in {"CreateFile", "Restore"}
    <3>. DEFINE c == IF i.tag = "Restore" THEN original ELSE i.arg
    <3>1. done = WriteFile(m, here, c)
      BY <2>2 DEF Operate, RestoreFile, done
    <3>2. Effect(i, x, original) = IF x = NoNode THEN NewInode("File", c, DEFAULT_FILE_MODE)
                                   ELSE [x EXCEPT !.data = c]
      BY <2>2 DEF Effect
    <3>. HIDE DEF c
    <3>3. x = NoNode \/ x.kind = "File"
      BY <2>2 DEF Suits, x
    <3>4. Resolve(m, here) = here
      BY <1>4, <3>3 DEF Resolve
    <3>5. ParentsAreDirs(m, here)
      BY <1>4 DEF ParentsAreDirs
    <3>6. CASE x = NoNode
      <4>1. done = Ok([m EXCEPT ![here] = NewInode("File", c, DEFAULT_FILE_MODE)])
        BY <1>1, <1>4, <3>1, <3>4, <3>5, <3>6 DEF WriteFile
      <4>. QED  BY <1>7, <3>2, <3>6, <4>1
    <3>7. CASE x # NoNode
      <4>1. done = Ok([m EXCEPT ![here] = [x EXCEPT !.data = c]])
        BY <1>1, <1>4, <1>5, <3>1, <3>3, <3>4, <3>7 DEF WriteFile
      <4>. QED  BY <1>7, <3>2, <3>7, <4>1
    <3>. QED  BY <3>6, <3>7
  <2>3. CASE i.tag = "CreateSymlink"
    <3>1. ~IsDir(m, here)
      BY <1>4, <2>3 DEF Suits, IsDir, x
    <3>2. done = Ok([m EXCEPT ![here] = NewInode("Symlink", i.arg, LINK_MODE)])
      BY <2>3, <3>1 DEF Operate, PutSymlink, done
    <3>3. Effect(i, x, original) = NewInode("Symlink", i.arg, LINK_MODE)
      BY <2>3 DEF Effect
    <3>. QED  BY <1>7, <3>2, <3>3
  <2>4. CASE i.tag \in MetaTags
    <3>1. x # NoNode /\ Resolve(m, here) = here
      BY <1>4, <2>4 DEF Suits, Resolve, x
    <3>2. CASE i.tag = "SetMode"
      <4>1. done = Ok([m EXCEPT ![here] = [x EXCEPT !.mode = i.arg]])
        BY <1>1, <1>4, <1>5, <3>1, <3>2 DEF Operate, Chmod, done
      <4>2. Effect(i, x, original) = [x EXCEPT !.mode = i.arg]
        BY <3>2 DEF Effect
      <4>. QED  BY <1>7, <4>1, <4>2
    <3>3. CASE i.tag = "SetOwner"
      <4>1. done = Ok([m EXCEPT ![here] = [Chowned(x) EXCEPT !.owner = i.arg]])
        BY <1>1, <1>4, <1>5, <3>1, <3>3 DEF Operate, ChownUser, done
      <4>2. Effect(i, x, original) = [Chowned(x) EXCEPT !.owner = i.arg]
        BY <3>3 DEF Effect
      <4>. QED  BY <1>7, <4>1, <4>2
    <3>4. CASE i.tag = "SetGroup"
      <4>1. done = Ok([m EXCEPT ![here] = [Chowned(x) EXCEPT !.group = i.arg]])
        BY <1>1, <1>4, <1>5, <3>1, <3>4 DEF Operate, ChownGroup, done
      <4>2. Effect(i, x, original) = [Chowned(x) EXCEPT !.group = i.arg]
        BY <3>4 DEF Effect
      <4>. QED  BY <1>7, <4>1, <4>2
    <3>. QED  BY <2>4, <3>2, <3>3, <3>4 DEF MetaTags
  <2>. QED  BY <2>1, <2>2, <2>3, <2>4
<1>. QED  BY <1>3, <1>4, <1>8 DEF x, new

-----------------------------------------------------------------------------
(* The plan is carried out *)

\* What is still to be done at a path.
Pending(p) == {i \in run.instrs \ carried : i.path = p}

Active == stage \in {"early", "packages", "late", "done"}

\* What is there was there before and is not removed yet, or was made.
Explains(done, q) ==
    \/ run.start[q] # NoNode /\ \A r \in done : r.tag = "Remove" => r.path # q
    \/ \E j \in done : NeedsParent(j) /\ q \in Ancestors[j.path]

\* What is left of the plan leads from what is there to what is wanted.
LeadsInv ==
    (Active /\ Fair) =>
        /\ \A p \in Path : ~Ignored(ignores, p) => Leads(Pending(p), disk[p], Wanted(p), run.originals[p])
        /\ \A q \in Path : disk[q] # NoNode => Explains(carried, q)

\* An instruction that is about to be carried out.
Due(i) ==
    /\ RunInv /\ SettingsInv /\ disk \in DiskState
    /\ Fair /\ LeadsInv
    /\ Applying /\ i \in Chunk /\ IsFirst(i) /\ i.tag # "Comment"

\* What holds of it.
LEMMA DueFacts ==
    ASSUME NEW i, Due(i)
    PROVE  /\ ApplyTypeOK /\ BatchInv /\ InOrder /\ Accounted /\ BatchesDone /\ skipped = {} /\ Live
           /\ stage \in {"early", "late"} /\ Active
           /\ run.instrs \subseteq FsInstruction /\ OnePerPath(run.instrs)
           /\ i \in todo /\ i \in run.instrs /\ i \in FsInstruction /\ i \notin carried
           /\ i \in Current /\ i.path \in Path
           /\ run.originals[i.path] \in Contents \cup {None}
           /\ Planned /\ Sensible /\ Tractable
<1>1. /\ ApplyTypeOK /\ BatchInv /\ InOrder /\ Accounted /\ BatchesDone /\ skipped = {} /\ Live
      /\ Planned /\ Sensible /\ Tractable
  BY DEF Due, RunInv, ApplyInv, RemovalInv, Planned, Live, Fair
<1>2. stage \in {"early", "late"} /\ Active /\ i \in todo
  BY DEF Due, Applying, Active, Chunk
<1>3. run.instrs \subseteq FsInstruction /\ OnePerPath(run.instrs) /\ i \in run.instrs /\ i \in FsInstruction
  BY <1>1, <1>2 DEF ApplyTypeOK, RunType, Planned
<1>4. i \notin carried /\ i \in Current
  BY <1>1, <1>2 DEF BatchInv, Current
<1>5. i.path \in Path
  BY <1>3, Operands
<1>6. run.originals[i.path] \in Contents \cup {None}
  BY <1>1, <1>5 DEF ApplyTypeOK, RunType
<1>. QED  BY <1>1, <1>2, <1>3, <1>4, <1>5, <1>6

\* What is still to be done in its batch does not have to precede it, and an early
\* instruction is not still to be done late.
LEMMA DuePrecedes ==
    ASSUME NEW i, Due(i), NEW j \in run.instrs \ carried, j.tag # "Comment", j # i
    PROVE  /\ IsEarly(j) <=> IsEarly(i) => j \in todo /\ ~MustPrecede(j, i)
           /\ IsEarly(j) => IsEarly(i)
<1>1. /\ ApplyTypeOK /\ BatchInv /\ Accounted /\ BatchesDone /\ skipped = {} /\ Live
      /\ stage \in {"early", "late"} /\ i \in Chunk /\ IsFirst(i) /\ i \in Current
  BY DueFacts DEF Due
<1>2. ASSUME IsEarly(j) <=> IsEarly(i)
      PROVE  j \in todo /\ ~MustPrecede(j, i)
  <2>1. j \in Current
    BY <1>1, <1>2, Batches DEF Current
  <2>2. j \in todo
    BY <1>1, <2>1 DEF Accounted
  <2>. QED  BY <1>1, <2>2, FirstPrecedes
<1>3. ASSUME IsEarly(j), ~IsEarly(i)
      PROVE  FALSE
  <2>1. stage = "late"
    BY <1>1, <1>3, Batches DEF Current
  <2>2. j \in Batch(FALSE)
    BY <1>3, Batches
  <2>. QED  BY <1>1, <2>1, <2>2 DEF BatchesDone
<1>. QED  BY <1>2, <1>3

\* It comes first at its path.
LEMMA DueFirst ==
    ASSUME NEW i, Due(i)
    PROVE  ComesFirst(i, Pending(i.path))
<1>1. SUFFICES ASSUME NEW j \in Pending(i.path), j # i
               PROVE  TagRank[i.tag] < TagRank[j.tag] /\ ~({i.tag, j.tag} \subseteq MakerTags)
  BY DEF ComesFirst
<1>2. /\ run.instrs \subseteq FsInstruction /\ OnePerPath(run.instrs) /\ i \in run.instrs
      /\ i \in FsInstruction /\ i \in Chunk /\ i.tag # "Comment"
  BY DueFacts DEF Due
<1>3. /\ j \in run.instrs \ carried /\ j.path = i.path /\ j \in FsInstruction
      /\ i.tag \in Tags /\ j.tag \in Tags
  BY <1>1, <1>2, InstructionFields DEF Pending
<1>4. i.tag # j.tag /\ ~({i.tag, j.tag} \subseteq MakerTags)
  BY <1>1, <1>2, <1>3 DEF OnePerPath
<1>5. TagRank[i.tag] \in Nat /\ TagRank[j.tag] \in Nat /\ TagRank[i.tag] # TagRank[j.tag]
  BY <1>3, <1>4, TagOrder
<1>6. CASE j.tag = "Comment"
  BY <1>2, <1>3, <1>4, <1>6, TagRanks DEF CreateTags, MetaTags
<1>7. CASE j.tag # "Comment"
  <2>1. j \in todo
    BY <1>1, <1>3, <1>7, DuePrecedes DEF IsEarly
  <2>. QED  BY <1>2, <1>4, <1>5, <2>1 DEF Chunk
<1>. QED  BY <1>6, <1>7

\* What is above it is, or is about to become, a directory, and is wanted to be one.
LEMMA DueAbove ==
    ASSUME NEW i, Due(i), NeedsParent(i), Wanted(i.path) # None,
           NEW a \in StrictAncestors(i.path)
    PROVE  /\ disk[a] = NoNode \/ IsDir(disk, a)
           /\ Wanted(a) # None /\ Wanted(a).kind = "Directory"
<1>1. /\ run.instrs \subseteq FsInstruction /\ i \in run.instrs /\ i.path \in Path /\ Active
      /\ Planned /\ Sensible /\ Tractable /\ SettingsInv /\ i \in FsInstruction
  BY DueFacts DEF Due
<1>2. a \in Path /\ a \in Ancestors[i.path]
  BY <1>1, PathAssumption DEF StrictAncestors
<1>3. ~Ignored(ignores, i.path)
  BY <1>1, PlanAvoidsIgnored
<1>4. ~Ignored(ignores, a)
  BY <1>1, <1>2, <1>3, IgnoredBelow
<1>5. Wanted(a) # None /\ Wanted(a).kind = "Directory"
  BY <1>1 DEF Sensible
<1>6. Leads(Pending(a), disk[a], Wanted(a), run.originals[a])
  BY <1>1, <1>2, <1>4 DEF Due, LeadsInv
<1>7. ~Has(Pending(a), {"Remove"})
  <2>1. SUFFICES ASSUME NEW r \in run.instrs \ carried, r.path = a, r.tag = "Remove"
                 PROVE  FALSE
    BY DEF Has, Pending
  <2>2. r # i
    BY <2>1 DEF NeedsParent
  <2>3. TagRank["Remove"] < TagRank[i.tag]
    BY <1>1, TagRanks, InstructionFields DEF NeedsParent, CreateTags, MetaTags
  <2>4. ~(IsEarly(r) <=> IsEarly(i))
    BY <2>1, <2>2, <2>3, DuePrecedes DEF MustPrecede
  <2>5. IsEarly(i) /\ ~IsEarly(r)
    BY <2>1, <2>2, <2>4, DuePrecedes
  <2>6. InPlan(a, {"Remove"}) /\ a \notin early
    BY <1>1, <2>1, <2>5 DEF InPlan, IsEarly, Planned
  <2>7. RemovedTooLate(a)
    BY <1>1, <2>5, <2>6 DEF RemovedTooLate
  <2>. QED  BY <1>1, <1>2, <2>7 DEF Tractable
<1>8. ASSUME disk[a] # NoNode
      PROVE  IsDir(disk, a)
  <2>1. ~Goes(disk[a], Pending(a))
    BY <1>7, <1>8 DEF Goes
  <2>2. Aims(Pending(a), disk[a], Wanted(a), run.originals[a])
    BY <1>6 DEF Leads
  <2>3. CASE Has(Pending(a), MakerTags)
    <3>1. PICK k \in Pending(a) : k.tag \in MakerTags
      BY <2>3 DEF Has
    <3>2. MakesWanted(k, Wanted(a), run.originals[a])
      BY <1>5, <2>2, <3>1 DEF Aims
    <3>3. Suits(k, disk[a])
      BY <1>5, <1>6, <2>1, <3>1 DEF Leads
    <3>. QED  BY <1>5, <1>8, <3>2, <3>3 DEF MakesWanted, Suits, IsDir
  <2>4. CASE ~Has(Pending(a), MakerTags)
    BY <1>5, <1>8, <2>1, <2>2, <2>4 DEF Aims, IsDir
  <2>. QED  BY <2>3, <2>4
<1>. QED  BY <1>5, <1>8

\* A removal that is due succeeds: nothing that exists below it was made by this
\* run, and what was there before is removed by now.
LEMMA DueRemoval ==
    ASSUME NEW i, Due(i), i.tag = "Remove"
    PROVE  Perform(disk, i, run.originals[i.path]).ok
<1>1. /\ run.instrs \subseteq FsInstruction /\ i \in run.instrs /\ i.path \in Path /\ Active /\ i \in todo
      /\ i \notin carried /\ carried \subseteq run.instrs /\ InOrder /\ BatchInv /\ i \in Current
      /\ stage \in {"early", "late"}
      /\ Planned /\ Tractable /\ SettingsInv
  BY DueFacts DEF ApplyTypeOK, Due
<1>. DEFINE result == Perform(disk, i, run.originals[i.path])
<1>2. SUFFICES ASSUME NEW q \in Path, i.path \in StrictAncestors(q), disk[q] # NoNode
               PROVE  FALSE
  <2>1. ~result.ok => \E q \in Path : i.path \in StrictAncestors(q) /\ disk[q] # NoNode
    BY RemovalPerformed
  <2>. QED  BY <2>1
<1>3. Explains(carried, q)
  BY <1>1, <1>2 DEF Due, LeadsInv
<1>4. InPlan(i.path, {"Remove"})
  BY <1>1 DEF InPlan
<1>5. ASSUME NEW j \in carried, NeedsParent(j), q \in Ancestors[j.path]
      PROVE  FALSE
  <2>1. j \in run.instrs /\ j \in FsInstruction /\ j.path \in Path
    BY <1>1, <1>5, Operands
  <2>2. i.path \in StrictAncestors(j.path)
    BY <1>2, <1>5, <2>1, AboveAbove
  <2>3. TagRank[i.tag] < TagRank[j.tag]
    BY <1>5, <2>1, TagRanks, InstructionFields DEF NeedsParent, CreateTags, MetaTags
  <2>4. ~(IsEarly(i) <=> IsEarly(j))
    BY <1>1, <1>5, <2>3 DEF InOrder, MustPrecede
  <2>5. IsEarly(j) /\ ~IsEarly(i)
    BY <1>1, <1>5, <2>4, Batches DEF InOrder, Current
  <2>6. RemovedTooLate(i.path)
    BY <1>1, <1>4, <1>5, <2>1, <2>2, <2>5 DEF RemovedTooLate, IsEarly, Planned
  <2>. QED  BY <1>1, <2>6 DEF Tractable
<1>6. ASSUME run.start[q] # NoNode, \A r \in carried : r.tag = "Remove" => r.path # q
      PROVE  FALSE
  <2>1. IsDir(run.start, i.path)
    BY <1>1, <1>2, <1>6, NothingBelow DEF Planned
  <2>2. Found(i.path, {"Directory"})
    BY <2>1 DEF Found, IsDir
  <2>3. InPlan(q, {"Remove"}) /\ ~(i.path \in early /\ q \notin early)
    BY <1>1, <1>2, <1>4, <1>6, <2>2 DEF Tractable, RemovedWithContents
  <2>4. PICK r \in run.instrs : r.path = q /\ r.tag = "Remove"
    BY <2>3 DEF InPlan
  <2>5. r \notin carried /\ r # i
    BY <1>2, <1>6, <2>4 DEF StrictAncestors
  <2>6. (IsEarly(r) <=> q \in early) /\ (IsEarly(i) <=> i.path \in early)
    BY <1>1, <2>4 DEF IsEarly, Planned
  <2>7. IsEarly(r) <=> IsEarly(i)
    BY <2>3, <2>4, <2>5, <2>6, DuePrecedes
  <2>8. MustPrecede(r, i)
    BY <1>2, <2>4, <2>7 DEF MustPrecede
  <2>. QED  BY <2>4, <2>5, <2>7, <2>8, DuePrecedes
<1>. QED  BY <1>3, <1>5, <1>6 DEF Explains

\* What is left to do at a path when more is done.
Left(done, p) == {j \in run.instrs \ done : j.path = p}

\* An instruction that is due succeeds, and the rest of the plan leads on from what it
\* made, at its path, above it and everywhere else.
LEMMA DueSucceeds ==
    ASSUME NEW i, Due(i)
    PROVE  LET result == Perform(disk, i, run.originals[i.path])
               done == carried \cup {i}
           IN /\ result.ok /\ Suits(i, disk[i.path])
              /\ \A p \in Path : ~Ignored(ignores, p) =>
                    Leads(Left(done, p), result.disk[p], Wanted(p), run.originals[p])
              /\ \A q \in Path : result.disk[q] # NoNode => Explains(done, q)
<1>. DEFINE here == i.path
            x == disk[here]
            w == Wanted(here)
            original == run.originals[here]
            result == Perform(disk, i, original)
            done == carried \cup {i}
            new == NewInode("Directory", None, DEFAULT_DIR_MODE)
<1>1. /\ run.instrs \subseteq FsInstruction /\ i \in run.instrs /\ here \in Path /\ Active
      /\ i \notin carried /\ i \in FsInstruction /\ original \in Contents \cup {None}
      /\ Planned /\ Sensible /\ SettingsInv /\ disk \in DiskState
  BY DueFacts DEF Due
<1>2. /\ \A p \in Path : ~Ignored(ignores, p) => Leads(Pending(p), disk[p], Wanted(p), run.originals[p])
      /\ \A q \in Path : disk[q] # NoNode => Explains(carried, q)
  BY <1>1 DEF Due, LeadsInv
<1>3. /\ Left(done, here) = Pending(here) \ {i}
      /\ \A p \in Path \ {here} : Left(done, p) = Pending(p)
  BY DEF Left, Pending
<1>4. ~Ignored(ignores, here)
  BY <1>1, PlanAvoidsIgnored
<1>5. /\ i.tag \in {"Remove", "CreateDirectory", "CreateFile", "CreateSymlink", "Restore"} \cup MetaTags
      /\ i.tag # "Remove" => w # None
      /\ Suits(i, x)
      /\ i.tag = "Restore" => original # None
      /\ Leads(Pending(here) \ {i}, Effect(i, x, original), w, original)
  <2>1. Pending(here) \in SUBSET FsInstruction /\ i \in Pending(here)
    BY <1>1 DEF Pending
  <2>2. x \in Inode \cup {NoNode}
    BY <1>1 DEF DiskState
  <2>3. i.tag # "Comment" /\ ComesFirst(i, Pending(here))
    BY DueFirst DEF Due
  <2>4. Leads(Pending(here), x, w, original)
    BY <1>1, <1>2, <1>4
  <2>. HIDE DEF x, w, original, here
  <2>. QED  BY <1>1, <2>1, <2>2, <2>3, <2>4, LeadsOn
<1>6. ASSUME NEW q \in Path, disk[q] # NoNode, i.tag = "Remove" => i.path # q
      PROVE  Explains(done, q)
  BY <1>2, <1>6 DEF Explains
<1>7. CASE i.tag = "Remove"
  <2>1. result.ok /\ result.disk = [disk EXCEPT ![here] = NoNode]
    BY <1>7, DueRemoval, RemovalPerformed
  <2>2. /\ result.disk[here] = NoNode
        /\ \A q \in Path \ {here} : result.disk[q] = disk[q]
    BY <1>1, <2>1 DEF DiskState
  <2>3. Effect(i, x, original) = NoNode
    BY <1>7 DEF Effect, MetaTags
  <2>4. \A p \in Path : ~Ignored(ignores, p) =>
            Leads(Left(done, p), result.disk[p], Wanted(p), run.originals[p])
    BY <1>2, <1>3, <1>5, <2>2, <2>3
  <2>5. \A q \in Path : result.disk[q] # NoNode => Explains(done, q)
    BY <1>6, <2>2
  <2>. QED  BY <1>5, <2>1, <2>4, <2>5
<1>8. CASE i.tag # "Remove"
  <2>1. NeedsParent(i) /\ w # None
    BY <1>5, <1>8 DEF NeedsParent, MetaTags
  <2>2. \A a \in StrictAncestors(here) :
           /\ disk[a] = NoNode \/ IsDir(disk, a)
           /\ Wanted(a) # None /\ Wanted(a).kind = "Directory"
    BY <2>1, DueAbove
  <2>3. /\ result.ok
        /\ result.disk[here] = Effect(i, x, original)
        /\ \A q \in Path \ {here} :
              result.disk[q] = IF q \in StrictAncestors(here) /\ disk[q] = NoNode THEN new ELSE disk[q]
    <3>1. i.tag \in {"CreateDirectory", "CreateFile", "CreateSymlink", "Restore"} \cup MetaTags
      BY <1>5, <1>8
    <3>. QED  BY <1>1, <1>5, <2>2, <3>1, Performed
  <2>. HIDE DEF result, new
  <2>4. ASSUME NEW p \in Path, ~Ignored(ignores, p)
        PROVE  Leads(Left(done, p), result.disk[p], Wanted(p), run.originals[p])
    <3>1. CASE p = here
      BY <1>3, <1>5, <2>3, <3>1
    <3>2. CASE p # here /\ p \in StrictAncestors(here) /\ disk[p] = NoNode
      <4>1. Leads(Pending(p), NoNode, Wanted(p), run.originals[p])
        BY <1>2, <2>4, <3>2
      <4>2. Leads(Pending(p), new, Wanted(p), run.originals[p])
        BY <2>2, <3>2, <4>1, LeadsBelow DEF new
      <4>. QED  BY <1>3, <2>3, <3>2, <4>2
    <3>3. CASE p # here /\ ~(p \in StrictAncestors(here) /\ disk[p] = NoNode)
      BY <1>2, <1>3, <2>3, <2>4, <3>3
    <3>. QED  BY <3>1, <3>2, <3>3
  <2>5. ASSUME NEW q \in Path, result.disk[q] # NoNode
        PROVE  Explains(done, q)
    <3>1. CASE q \in Ancestors[here]
      BY <2>1, <3>1 DEF Explains
    <3>2. CASE q \notin Ancestors[here]
      <4>1. q # here /\ q \notin StrictAncestors(here)
        BY <1>1, <3>2, PathAssumption DEF StrictAncestors
      <4>. QED  BY <1>6, <1>8, <2>3, <2>5, <4>1
    <3>. QED  BY <3>1, <3>2
  <2>. QED  BY <1>5, <2>3, <2>4, <2>5 DEF result
<1>. QED  BY <1>7, <1>8

\* What is asked of a configuration and its plan stays as it is during a run.
LEMMA FairStays ==
    ASSUME UNCHANGED <<pkgs, script, ignores, early, script_fs, run>>
    PROVE  Fair' <=> Fair
<1>1. \A p : Wanted(p)' = Wanted(p)
  BY DEF Wanted
<1>2. \A p, tags : InPlan(p, tags)' <=> InPlan(p, tags)
  BY DEF InPlan
<1>3. \A p, kinds : (Says(p, kinds)' <=> Says(p, kinds)) /\ (Found(p, kinds)' <=> Found(p, kinds))
  BY DEF Says, Found
<1>4. Sensible' <=> Sensible
  BY <1>1 DEF Sensible
<1>5. ASSUME NEW p \in Path
      PROVE  /\ Unrestorable(p)' <=> Unrestorable(p)
             /\ WrongTypeInPlace(p)' <=> WrongTypeInPlace(p)
             /\ KeepsMetadata(p)' <=> KeepsMetadata(p)
             /\ LosesMetadata(p)' <=> LosesMetadata(p)
             /\ LosesSetidBits(p)' <=> LosesSetidBits(p)
             /\ RemovedWithContents(p)' <=> RemovedWithContents(p)
             /\ RemovedTooLate(p)' <=> RemovedTooLate(p)
             /\ RemovedForMetadata(p)' <=> RemovedForMetadata(p)
             /\ LeavesMetadata(p)' <=> LeavesMetadata(p)
             /\ MetadataOfNothing(p)' <=> MetadataOfNothing(p)
             /\ MetadataOfLink(p)' <=> MetadataOfLink(p)
  <2>1. Unrestorable(p)' <=> Unrestorable(p)
    BY <1>3 DEF Unrestorable
  <2>2. WrongTypeInPlace(p)' <=> WrongTypeInPlace(p)
    BY <1>2, <1>3 DEF WrongTypeInPlace
  <2>3. KeepsMetadata(p)' <=> KeepsMetadata(p)
    BY <1>2, <1>3 DEF KeepsMetadata
  <2>4. LosesMetadata(p)' <=> LosesMetadata(p)
    BY <1>1, <1>2 DEF LosesMetadata
  <2>5. LosesSetidBits(p)' <=> LosesSetidBits(p)
    BY <1>1, <1>2 DEF LosesSetidBits
  <2>6. RemovedWithContents(p)' <=> RemovedWithContents(p)
    BY <1>2, <1>3 DEF RemovedWithContents
  <2>7. RemovedTooLate(p)' <=> RemovedTooLate(p)
    BY <1>2 DEF RemovedTooLate, IsEarly
  <2>8. RemovedForMetadata(p)' <=> RemovedForMetadata(p)
    BY <1>2, <1>3 DEF RemovedForMetadata
  <2>9. LeavesMetadata(p)' <=> LeavesMetadata(p)
    BY <1>2, <1>3 DEF LeavesMetadata
  <2>10. MetadataOfNothing(p)' <=> MetadataOfNothing(p)
    BY <1>1, <1>2 DEF MetadataOfNothing
  <2>11. MetadataOfLink(p)' <=> MetadataOfLink(p)
    BY <1>1, <1>2 DEF MetadataOfLink
  <2>. QED  BY <2>1, <2>2, <2>3, <2>4, <2>5, <2>6, <2>7, <2>8, <2>9, <2>10, <2>11
<1>6. Tractable' <=> Tractable
  BY <1>5 DEF Tractable
<1>. QED  BY <1>4, <1>6 DEF Fair

\* At first the whole plan for a path is still to be done, on the disk it was made for.
LEMMA LeadsAtFirst ==
    Begins /\ SettingsInv => LeadsInv
<1>1. SUFFICES ASSUME Begins, SettingsInv, Fair PROVE LeadsInv
  BY DEF LeadsInv
<1>2. Planned /\ disk = run.start /\ carried = {} /\ run.originals = Originals
  BY <1>1 DEF Begins, Planned
<1>3. ASSUME NEW p \in Path, ~Ignored(ignores, p)
      PROVE  Leads(Pending(p), disk[p], Wanted(p), run.originals[p])
  <2>1. PathCase(p)
    BY <1>1, <1>2, <1>3 DEF PathCase
  <2>2. Pending(p) = PlanFor(p)
    BY <1>1, <1>2, PlanAt DEF Pending, PlanFor
  <2>. QED  BY <1>2, <2>1, <2>2, PlanLeads
<1>. QED  BY <1>2, <1>3 DEF LeadsInv, Explains

\* Every step keeps it, and nothing gets stuck.
ConformInv ==
    /\ LeadsInv
    /\ blocked # {} => ~Fair

LEMMA ConformKept ==
    ASSUME ReconcileInv, ConformInv, [Next]_vars
    PROVE  ConformInv'
<1>1. CASE ScanDisk \/ Refuse
  <2>1. UNCHANGED <<pkgs, script, ignores, early, script_fs, run, blocked>> /\ stage' \in {"scanned", "refused"}
    BY <1>1 DEF ScanDisk, Refuse, config
  <2>2. Fair' <=> Fair
    BY <2>1, FairStays
  <2>. QED  BY <2>1, <2>2 DEF ConformInv, LeadsInv, Active
<1>2. CASE PlanChanges
  <2>1. Begins' /\ SettingsInv' /\ blocked' = {}
    BY <1>2, PlanBegins DEF PlanChanges
  <2>2. Begins' /\ SettingsInv' => LeadsInv'
    BY LeadsAtFirst, PTL
  <2>. QED  BY <2>1, <2>2 DEF ConformInv
<1>3. CASE Continue
  <2>1. ApplyNext /\ UNCHANGED <<pkgs, script, ignores, early, script_fs>>
    BY <1>3 DEF Continue, config
  <2>2. RunInv /\ SettingsInv /\ disk \in DiskState
    <3>1. stage \in {"early", "packages", "late"}
      BY <2>1 DEF ApplyNext, SkipComments, CarryOut, AcceptChunk, GoThroughChunk, SkipChunk, AcceptOne, SkipOne,
                  Abort, EndBatch, PassPackages, InstallPackages, FailPackages, AsksFor, Applying
    <3>. QED  BY <3>1 DEF ReconcileInv, Running, TypeOK
  <2>3. /\ stage \in {"early", "packages", "late"} /\ run' = run
        /\ \/ UNCHANGED <<disk, carried, blocked>>
           \/ \E i \in Chunk :
                 /\ Applying /\ IsFirst(i) /\ i.tag # "Comment"
                 /\ Succeed(i) \/ GetStuck(i) \/ BreakDown(i)
    BY <2>1, <2>2, RunStep
  <2>4. Fair' <=> Fair
    BY <2>1, <2>3, FairStays
  <2>5. SUFFICES ASSUME Fair PROVE ConformInv'
    BY <2>4 DEF ConformInv, LeadsInv
  <2>6. blocked = {} /\ Active
    BY <2>3, <2>5 DEF ConformInv, Active
  <2>7. \A p : Wanted(p)' = Wanted(p)
    BY <2>1 DEF Wanted
  <2>8. CASE UNCHANGED <<disk, carried, blocked>>
    BY <2>1, <2>3, <2>5, <2>6, <2>7, <2>8 DEF ConformInv, LeadsInv, Pending, Explains
  <2>9. ASSUME NEW i \in Chunk, Applying, IsFirst(i), i.tag # "Comment",
               Succeed(i) \/ GetStuck(i) \/ BreakDown(i)
        PROVE  ConformInv'
    <3>. DEFINE result == Perform(disk, i, run.originals[i.path])
                done == carried \cup {i}
    <3>1. Due(i)
      BY <2>2, <2>5, <2>9 DEF Due, ConformInv
    <3>2. /\ result.ok
          /\ \A p \in Path : ~Ignored(ignores, p) =>
                Leads(Left(done, p), result.disk[p], Wanted(p), run.originals[p])
          /\ \A q \in Path : result.disk[q] # NoNode => Explains(done, q)
      BY <3>1, DueSucceeds
    <3>3. CASE Succeed(i)
      <4>1. disk' = result.disk /\ carried' = done /\ blocked' = {}
        BY <2>6, <3>3 DEF Succeed
      <4>2. \A p : Pending(p)' = Left(done, p)
        BY <2>3, <4>1 DEF Pending, Left
      <4>3. \A q : Explains(done, q) => Explains(carried, q)'
        BY <2>3, <4>1 DEF Explains
      <4>4. LeadsInv'
        <5>. HIDE DEF result, done
        <5>. QED  BY <2>1, <2>3, <2>7, <3>2, <4>1, <4>2, <4>3 DEF LeadsInv
      <4>. QED  BY <4>1, <4>4 DEF ConformInv
    <3>4. CASE GetStuck(i)
      BY <3>2, <3>4 DEF GetStuck
    <3>5. CASE BreakDown(i)
      BY <2>6, <3>5 DEF BreakDown, Stop, ConformInv, LeadsInv, Active
    <3>. QED  BY <2>9, <3>3, <3>4, <3>5
  <2>. QED  BY <2>3, <2>8, <2>9
<1>4. CASE UNCHANGED vars
  <2>1. UNCHANGED <<pkgs, script, ignores, early, script_fs, run, disk, stage, carried, blocked>>
    BY <1>4 DEF vars, config, applyVars, history
  <2>2. Fair' <=> Fair
    BY <2>1, FairStays
  <2>3. \A p : Wanted(p)' = Wanted(p)
    BY <2>1 DEF Wanted
  <2>. QED  BY <2>1, <2>2, <2>3 DEF ConformInv, LeadsInv, Active, Pending, Explains
<1>. QED  BY <1>1, <1>2, <1>3, <1>4 DEF Next

\* It holds in every reachable state.
LEMMA ConformInvariant == Spec => [](ReconcileInv /\ ConformInv)
<1>1. Init => ReconcileInv /\ ConformInv
  BY InitRight DEF Init, ConformInv, LeadsInv, Active
<1>2. ReconcileInv /\ ConformInv /\ [Next]_vars => (ReconcileInv /\ ConformInv)'
  BY StepRight, ConformKept
<1>. QED  BY <1>1, <1>2, PTL DEF Spec

\* main, run after run: every instruction of a plan finds what it needs when its turn
\* comes, its directories, its type of node, an empty directory to remove.
THEOREM NeverGetsStuck == Spec => []NeverStuck
<1>1. ReconcileInv /\ ConformInv => NeverStuck
  BY DEF ConformInv, NeverStuck, Hard, Fair
<1>. QED  BY <1>1, ConformInvariant, PTL

\* At the end of a run nothing but comments is left of the plan.
LEMMA InvConforms == ReconcileInv /\ ConformInv => Conformity
<1>1. SUFFICES ASSUME ReconcileInv, ConformInv, stage = "done", ~Hard,
                      NEW p \in Path, ~Ignored(ignores, p)
               PROVE  Matches(disk[p], Wanted(p))
  BY DEF Conformity, Conforms
<1>2. Fair /\ RunInv /\ Active /\ disk \in DiskState
  BY <1>1 DEF Hard, Fair, ReconcileInv, Running, Active, TypeOK
<1>3. Leads(Pending(p), disk[p], Wanted(p), run.originals[p])
  BY <1>1, <1>2 DEF ConformInv, LeadsInv
<1>4. \A i \in Pending(p) : i.tag = "Comment"
  BY <1>1, <1>2, Batches DEF RunInv, Planned, BatchesDone, Live, Pending
<1>5. disk[p] \in Inode \cup {NoNode}
  BY <1>1, <1>2 DEF DiskState
<1>. QED  BY <1>3, <1>4, <1>5, LeadsThere

\* main, run after run: a run that reports success leaves every path that is not ignored
\* as the script and the packages say.
THEOREM RunsConform == Spec => []Conformity
  BY InvConforms, ConformInvariant, PTL

\* No step changes a path that is ignored: the plan does not reach it, and whatever is
\* due follows no link.
LEMMA IgnoredStays ==
    ASSUME ReconcileInv, ConformInv, Next, Fair, NEW p \in Path, Ignored(ignores, p)
    PROVE  disk'[p] = disk[p]
<1>1. CASE ScanDisk \/ PlanChanges \/ Refuse
  BY <1>1 DEF ScanDisk, PlanChanges, Refuse
<1>2. CASE Continue
  <2>1. ApplyNext
    BY <1>2 DEF Continue
  <2>2. stage \in {"early", "packages", "late"}
    BY <2>1 DEF ApplyNext, SkipComments, CarryOut, AcceptChunk, GoThroughChunk, SkipChunk, AcceptOne, SkipOne,
                Abort, EndBatch, PassPackages, InstallPackages, FailPackages, AsksFor, Applying
  <2>3. RunInv /\ SettingsInv /\ disk \in DiskState /\ WellFormed(disk) /\ Sensible
    BY <2>2 DEF ReconcileInv, Running, TypeOK, Fair
  <2>4. CASE disk' = disk
    BY <2>4
  <2>5. ASSUME NEW i \in Chunk, Applying, IsFirst(i), i.tag # "Comment",
               \/ disk' = Perform(disk, i, run.originals[i.path]).disk
               \/ disk' \in Interrupted(disk, i)
        PROVE  disk'[p] = disk[p]
    <3>1. i \in run.instrs /\ i \in FsInstruction /\ i.path \in Path
      BY <2>3, Operands DEF RunInv, ApplyInv, ApplyTypeOK, RunType, Chunk
    <3>2. run.originals[i.path] \in Contents \cup {None}
      BY <2>3, <3>1 DEF RunInv, ApplyInv, ApplyTypeOK, RunType
    <3>3. i.tag \in Followers => ~IsLink(disk, i.path)
      <4>1. Due(i)
        BY <2>3, <2>5 DEF Due, ConformInv
      <4>. QED  BY <4>1, DueSucceeds DEF Suits, Followers, IsLink
    <3>4. p \notin Ancestors[i.path]
      <4>1. SUFFICES ASSUME p \in Ancestors[i.path] PROVE FALSE
        OBVIOUS
      <4>2. Ignored(ignores, i.path)
        BY <3>1, <4>1, IgnoredBelow
      <4>. QED  BY <2>3, <3>1, <4>2, PlanAvoidsIgnored DEF RunInv
    <3>. QED  BY <2>3, <2>5, <3>1, <3>2, <3>3, <3>4, PerformLeavesAlone
  <2>. QED  BY <2>1, <2>3, <2>4, <2>5, RunStep DEF Succeed, GetStuck, BreakDown
<1>. QED  BY <1>1, <1>2 DEF Next

\* ignore_path: whatever the configuration says, as long as it makes sense and does
\* not ask for one of the known impossible things, no run ever changes a path that
\* is ignored, not even one that is cut short.
THEOREM IgnoredIsUntouched == Spec => IgnoredUntouched
<1>. DEFINE Unchanging == ~Hard => \A p \in Path : Ignored(ignores, p) => disk'[p] = disk[p]
<1>1. ReconcileInv /\ ConformInv /\ [Next]_vars => [Unchanging]_vars
  BY IgnoredStays DEF Hard, Fair
<1>. QED  BY <1>1, ConformInvariant, PTL DEF Spec, IgnoredUntouched


-----------------------------------------------------------------------------
(* What it looks like from outside *)

\* What a path is wanted to be is something that can be described.
LEMMA WantedTyped ==
    ASSUME SettingsInv, NEW p \in Path
    PROVE  Wanted(p) \in Description \cup {None}
<1>1. pkgs[p] \in PkgEntry \cup {None} /\ script_fs[p] \in FsNode \cup {NoNode}
  BY SettingsTyped DEF Database, FsMap
<1>. DEFINE Packaged == IF pkgs[p] = None THEN None ELSE FromPackage(pkgs[p])
            said == [Packaged EXCEPT !.mode = Or(script_fs[p].mode, @), !.owner = Or(script_fs[p].owner, @),
                                     !.group = Or(script_fs[p].group, @)]
<1>2. Packaged \in Description \cup {None}
  BY <1>1, DescribedIsSomething
<1>3. CASE script_fs[p] = NoNode
  BY <1>2, <1>3 DEF Wanted
<1>4. CASE script_fs[p] # NoNode
  <2>1. /\ script_fs[p] \in FsNode /\ script_fs[p].mode \in Mode \cup {None}
        /\ script_fs[p].owner \in Name \cup {None} /\ script_fs[p].group \in Name \cup {None}
    BY <1>1, <1>4 DEF FsNode
  <2>2. Packaged # None => said \in Description
    <3>. HIDE DEF Packaged
    <3>. QED  BY <1>2, <2>1 DEF Description, Or
  <2>3. Removed # Unchanged
    BY DEF Removed, Unchanged, Entry
  <2>4. CASE script_fs[p].entry = Removed
    BY <1>4, <2>3, <2>4 DEF Wanted
  <2>5. CASE script_fs[p].entry = Unchanged
    BY <1>2, <1>4, <2>2, <2>3, <2>5 DEF Wanted, Packaged
  <2>6. CASE script_fs[p].entry \notin {Removed, Unchanged}
    BY <1>4, <2>1, <2>6, DescribedIsSomething DEF Wanted
  <2>. QED  BY <2>4, <2>5, <2>6
<1>. QED  BY <1>3, <1>4

\* A configuration is what it is from the start.
LEMMA ConfigStays ==
    ASSUME UNCHANGED config
    PROVE  UNCHANGED Desired!config
<1>1. \A p \in Path : Wanted(p)' = Wanted(p)
  BY DEF config, Wanted
<1>2. [p \in Path |-> Wanted(p)]' = [p \in Path |-> Wanted(p)]
  BY <1>1
<1>3. {p \in Path : Ignored(ignores, p)}' = {p \in Path : Ignored(ignores, p)}
  BY DEF config
<1>. QED  BY <1>2, <1>3 DEF Desired!config

\* What a step of a run does to the disk is what the promise lets it do.
LEMMA ContinueChanges ==
    ASSUME ReconcileInv, ConformInv, ReconcileInv', Continue, run' = run
    PROVE  Desired!Change
<1>1. UNCHANGED config
  BY DEF Continue
<1>2. Fair' <=> Fair
  BY <1>1, FairStays DEF config
<1>3. disk' \in [Path -> Inode \cup {NoNode}]
  BY DEF ReconcileInv, TypeOK, DiskState
<1>4. Fair => \A p \in {q \in Path : Ignored(ignores, q)} : disk'[p] = disk[p]
  BY IgnoredStays DEF Next
<1>. QED  BY <1>1, <1>2, <1>3, <1>4, ConfigStays DEF Desired!Change, Fair

\* Every step is one of those of the promise, or does not show.
LEMMA StepAsPromised ==
    ASSUME ReconcileInv, ConformInv, ReconcileInv', ConformInv', [Next]_vars
    PROVE  [Desired!Next]_Desired!vars
<1>1. CASE ScanDisk
  <2>1. Between /\ stage' = "scanned" /\ UNCHANGED <<disk, breakdowns, run, config>>
    BY <1>1 DEF ScanDisk
  <2>2. (Fair' <=> Fair) /\ UNCHANGED Desired!config
    BY <2>1, FairStays, ConfigStays DEF config
  <2>3. Desired!Between /\ Phase' = "observed"
    BY <2>1 DEF Between, Desired!Between, Phase
  <2>4. Desired!Observe
    BY <2>1, <2>2, <2>3 DEF Desired!Observe, Fair
  <2>. QED  BY <2>4 DEF Desired!Next
<1>2. CASE Refuse
  <2>1. /\ Between \/ stage = "scanned"
        /\ stage' = "refused" /\ UNCHANGED <<disk, breakdowns, run, config>>
    BY <1>2 DEF Refuse
  <2>2. (Fair' <=> Fair) /\ UNCHANGED Desired!config
    BY <2>1, FairStays, ConfigStays DEF config
  <2>3. (Desired!Between \/ Phase = "observed") /\ Phase' = "refused"
    BY <2>1 DEF Between, Desired!Between, Phase
  <2>4. Desired!Decline
    BY <2>1, <2>2, <2>3 DEF Desired!Decline, Fair
  <2>. QED  BY <2>4 DEF Desired!Next
<1>3. CASE PlanChanges
  <2>1. stage = "scanned" /\ stage' = "early" /\ UNCHANGED <<disk, breakdowns, config>>
    BY <1>3 DEF PlanChanges, Plan
  <2>2. UNCHANGED Desired!config
    BY <2>1, ConfigStays
  <2>3. Phase = "observed" /\ Phase' = "acting"
    BY <2>1 DEF Phase
  <2>4. Desired!Decide
    BY <2>1, <2>2, <2>3 DEF Desired!Decide
  <2>. QED  BY <2>4 DEF Desired!Next
<1>4. CASE Continue
  <2>1. RunInv
    <3>1. stage \in {"early", "packages", "late"}
      BY <1>4 DEF Continue, ApplyNext, SkipComments, CarryOut, AcceptChunk, GoThroughChunk, SkipChunk,
                  AcceptOne, SkipOne, Abort, EndBatch, PassPackages, InstallPackages, FailPackages,
                  AsksFor, Applying
    <3>. QED  BY <3>1 DEF ReconcileInv, Running
  <2>2. /\ stage \in {"early", "packages", "late"} /\ run' = run
        /\ stage' \in {"early", "packages", "late", "done", "failed"}
        /\ \/ UNCHANGED <<disk, carried, blocked>>
           \/ \E i \in Chunk : Succeed(i) \/ GetStuck(i) \/ BreakDown(i)
    BY <1>4, <2>1, RunStep DEF Continue
  <2>3. Phase = "acting"
    BY <2>2 DEF Phase
  <2>4. Desired!Change
    BY <1>4, <2>2, ContinueChanges
  <2>5. UNCHANGED config /\ (Fair' <=> Fair)
    BY <1>4, <2>2, FairStays DEF Continue, config
  <2>6. CASE stage' \in {"early", "packages", "late"}
    <3>1. Phase' = "acting" /\ breakdowns' = breakdowns
      BY <1>4, <2>6 DEF Phase, Continue
    <3>. QED  BY <2>3, <2>4, <3>1 DEF Desired!Next, Desired!Act
  <2>7. CASE stage' = "done"
    <3>1. Phase' = "done" /\ breakdowns' = breakdowns
      BY <1>4, <2>7 DEF Phase, Continue
    <3>2. disk' = disk
      BY <2>2, <2>7 DEF Succeed, GetStuck, BreakDown, Stop
    <3>3. ReconcileInv' /\ ConformInv' => Conformity'
      BY InvConforms, PTL
    <3>4. Fair => \A p \in Path : ~Ignored(ignores, p) => Matches(disk[p], Wanted(p))
      <4>1. \A p \in Path : Wanted(p)' = Wanted(p)
        BY <2>5 DEF config, Wanted
      <4>2. Fair => Conforms'
        BY <2>5, <2>7, <3>3 DEF Conformity, Hard, Fair
      <4>. QED  BY <2>5, <3>2, <4>1, <4>2 DEF Conforms, config
    <3>5. UNCHANGED Desired!config
      BY <2>5, ConfigStays
    <3>6. Fair => \A p \in Path \ {q \in Path : Ignored(ignores, q)} :
                     Matches(disk[p], [q \in Path |-> Wanted(q)][p])
      BY <3>4
    <3>7. Desired!Finish
      BY <2>3, <2>5, <3>1, <3>2, <3>5, <3>6 DEF Desired!Finish, Fair
    <3>. QED  BY <3>7 DEF Desired!Next
  <2>8. CASE stage' = "failed"
    <3>1. Phase' = "failed"
      BY <2>8 DEF Phase
    <3>2. CASE blocked' = {}
      <4>1. breakdowns' = breakdowns + 1
        BY <1>4, <2>8, <3>2 DEF Continue
      <4>. QED  BY <2>3, <2>4, <3>1, <4>1 DEF Desired!Next, Desired!BreakDown
    <3>3. CASE blocked' # {}
      <4>1. breakdowns' = breakdowns /\ ~Fair
        BY <1>4, <2>5, <3>3 DEF Continue, ConformInv
      <4>. QED  BY <2>3, <2>4, <3>1, <4>1 DEF Desired!Next, Desired!GiveUp, Fair
    <3>. QED  BY <3>2, <3>3
  <2>. QED  BY <2>2, <2>6, <2>7, <2>8
<1>5. CASE UNCHANGED vars
  <2>1. UNCHANGED <<disk, breakdowns, run, stage, config>>
    BY <1>5 DEF vars, applyVars
  <2>2. (Fair' <=> Fair) /\ UNCHANGED Desired!config /\ Phase' = Phase
    BY <2>1, FairStays, ConfigStays DEF config, Phase
  <2>. QED  BY <2>1, <2>2 DEF Desired!vars, Fair
<1>. QED  BY <1>1, <1>2, <1>3, <1>4, <1>5 DEF Next

\* konfigkoll apply implements what it promises: a run that is able to do what is
\* asked for leaves alone what is ignored, fails only when it is cut short, and when it
\* reports success has made everything else as it is wanted.
THEOREM KeepsItsPromise == Spec => ImplementsDesired
<1>1. Init => Desired!Init
  <2>1. SUFFICES ASSUME Init PROVE Desired!Init
    OBVIOUS
  <2>2. ReconcileInv
    BY <2>1, InitRight
  <2>3. [p \in Path |-> Wanted(p)] \in [Path -> Description \cup {None}]
    BY <2>2, WantedTyped DEF ReconcileInv
  <2>4. disk \in [Path -> Inode \cup {NoNode}]
    BY <2>2 DEF ReconcileInv, TypeOK, DiskState
  <2>5. Phase = "idle" /\ breakdowns = 0
    BY <2>1 DEF Init, Phase
  <2>6. (Sensible /\ Tractable) \in BOOLEAN
    OBVIOUS
  <2>. QED  BY <2>3, <2>4, <2>5, <2>6 DEF Desired!Init
<1>2. /\ ReconcileInv /\ ConformInv /\ (ReconcileInv /\ ConformInv)' /\ [Next]_vars
      => [Desired!Next]_Desired!vars
  BY StepAsPromised
<1>. QED  BY <1>1, <1>2, ConformInvariant, PTL DEF Spec, Desired!Spec, ImplementsDesired

=============================================================================
