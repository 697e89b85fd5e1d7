----------------------------- MODULE ApplyFiles -----------------------------
(***************************************************************************)
(* The apply command once the changes are known: cmd_apply_changes         *)
(* (konfigkoll/src/main.rs) splits them into an early and a late batch     *)
(* with the packages between them, apply_files groups a batch into chunks  *)
(* of one kind of operation, and an applicator (konfigkoll_core/src/       *)
(* apply.rs) carries a chunk out: at once (yolo), after asking (ask), or   *)
(* not at all (dry-run, and --debug-force-dry-run under the other two).    *)
(*                                                                         *)
(* The program is sequential; what is concurrent with it is the user who   *)
(* answers, and the environment that makes a call fail, or the process     *)
(* stop, at any point.  There is no rollback: what was done stays done.    *)
(***************************************************************************)
EXTENDS Disk

CONSTANTS
    EMPTY,              \* the contents of a file that was truncated
    Run                 \* the invocations to start with, see RunType

\* paranoia, force_dry_run: the options; instrs: the changes to the file system;
\* early: the paths that early_configs matches; start: the disk before;
\* originals: what the package archives hold; installs: the files that the
\* changes to the packages bring (nowhere a node: no such changes).
RunType ==
    [ paranoia: {"yolo", "ask", "dry-run"}, force_dry_run: BOOLEAN,
      instrs: SUBSET FsInstruction, early: SUBSET Path, start: DiskState,
      originals: [Path -> Contents \cup {None}], installs: DiskState ]

\* The instructions that put something at their path.
MakerTags == CreateTags \cup {"Restore"}

\* What diff comes up with for a path: at most one instruction of each kind, and
\* at most one that puts something there.
OnePerPath(instrs) ==
    \A i, j \in instrs :
        (i.path = j.path /\ (i.tag = j.tag \/ {i.tag, j.tag} \subseteq MakerTags)) => i = j

ASSUME RunAssumption ==
    /\ EMPTY \in Contents
    /\ Run \subseteq RunType
    /\ \A r \in Run : OnePerPath(r.instrs)

-----------------------------------------------------------------------------
(* InProcessApplicator::apply_single_file *)

NeedsParent(i) == i.tag \notin {"Remove", "Comment"}

Parents(disk, i) ==
    IF NeedsParent(i) THEN MakeDirs(disk, StrictAncestors(i.path)) ELSE Ok(disk)

\* A mutant: remove_dir_all.
RemoveAll(disk, p) == Ok([q \in Path |-> IF p \in Ancestors[q] THEN NoNode ELSE disk[q]])

RemoveAny(disk, p) == Unlink(disk, p)

\* A mutant: a link that exists is good enough.
KeepLink(disk, p, t) ==
    IF disk[p] = NoNode THEN MakeNode(disk, p, NewInode("Symlink", t, LINK_MODE)) ELSE Ok(disk)

\* symlink, and once more after remove_file when something is there.
PutSymlink(disk, p, t) ==
    IF IsDir(disk, p) THEN Fail(disk)
    ELSE Ok([disk EXCEPT ![p] = NewInode("Symlink", t, LINK_MODE)])

\* A mutant: the result of looking up the original is not checked.
RestoreUnchecked(disk, p, original) == WriteFile(disk, p, original)

RestoreFile(disk, p, original) ==
    IF original = None THEN Fail(disk) ELSE WriteFile(disk, p, original)

Operate(disk, i, original) ==
    CASE i.tag = "Remove"            -> RemoveAny(disk, i.path)
      [] i.tag = "CreateDirectory"   -> MakeDirs(disk, Ancestors[i.path])
      [] i.tag = "CreateFile"        -> WriteFile(disk, i.path, i.arg)
      [] i.tag = "CreateSymlink"     -> PutSymlink(disk, i.path, i.arg)
      [] i.tag = "CreateFifo"        -> MakeNode(disk, i.path, NewInode("Fifo", None, ZERO_MODE))
      [] i.tag = "CreateBlockDevice" ->
            MakeNode(disk, i.path, NewInode("BlockDevice", i.arg, ZERO_MODE))
      [] i.tag = "CreateCharDevice"  ->
            MakeNode(disk, i.path, NewInode("CharDevice", i.arg, ZERO_MODE))
      [] i.tag = "SetMode"           -> Chmod(disk, i.path, i.arg)
      [] i.tag = "SetOwner"          -> ChownUser(disk, i.path, i.arg)
      [] i.tag = "SetGroup"          -> ChownGroup(disk, i.path, i.arg)
      [] i.tag = "Restore"           -> RestoreFile(disk, i.path, original)
      [] i.tag = "Comment"           -> Ok(disk)

Perform(disk, i, original) ==
    LET made == Parents(disk, i) IN IF made.ok THEN Operate(made.disk, i, original) ELSE made

\* What is on disk when an instruction is cut short: nothing happened yet, the
\* parents were made, the old link is gone, or the file was truncated.
Interrupted(disk, i) ==
    LET made == Parents(disk, i)
    IN {disk, made.disk}
       \cup (IF made.ok /\ i.tag = "CreateSymlink" /\ ~IsDir(made.disk, i.path)
             THEN {[made.disk EXCEPT ![i.path] = NoNode]} ELSE {})
       \cup (IF made.ok /\ i.tag \in {"CreateFile", "Restore"}
             THEN {WriteFile(made.disk, i.path, EMPTY).disk} ELSE {})

-----------------------------------------------------------------------------
(* The state machine *)

VARIABLES
    run,                \* this invocation
    disk,
    stage,              \* "early", "packages", "late", "done" or "failed"
    todo,               \* what is left of the current batch
    approval,           \* the user's answer for the current chunk: "none", "all", "each"
    \* history
    shown,              \* the instructions the user said yes to
    carried,            \* the instructions that were started
    skipped,            \* the instructions the user skipped
    blocked             \* the instruction whose own failure ended the run, if one did

history == <<shown, carried, skipped, blocked>>
applyVars == <<run, disk, stage, todo, approval, history>>

IsEarly(i) == i.path \in run.early
Batch(late) == {i \in run.instrs : IsEarly(i) # late}

Live == run.paranoia # "dry-run" /\ ~run.force_dry_run

ApplyInit ==
    /\ run \in Run
    /\ disk = run.start
    /\ stage = "early"
    /\ todo = Batch(FALSE)
    /\ approval = "none"
    /\ shown = {} /\ carried = {} /\ skipped = {} /\ blocked = {}

\* chunk_by_mut on the batch sorted by kind: all that is left of the first kind.
Chunk == {i \in todo : \A j \in todo : TagRank[i.tag] <= TagRank[j.tag]}

\* A mutant: removals are carried out in the order of the paths, too.
IsFirstUnreversed(i) == i \in Chunk /\ \A j \in Chunk : InstrLeq(i, j)

\* The chunk is in the order of its paths, and reversed for removals.
IsFirst(i) ==
    /\ i \in Chunk
    /\ \A j \in Chunk : IF i.tag = "Remove" THEN InstrLeq(j, i) ELSE InstrLeq(i, j)

Applying  == stage \in {"early", "late"} /\ todo # {}
IsComment == \E i \in Chunk : i.tag = "Comment"

\* A mutant: one answer counts for all the chunks that follow.
KeepAsking(rest) == approval

\* The answer is for one chunk.
NextApproval(rest) == IF rest \cap Chunk = {} THEN "none" ELSE approval

Settle(rest) ==
    /\ todo' = rest
    /\ approval' = NextApproval(rest)

Stop ==
    /\ stage' = "failed"
    /\ UNCHANGED <<todo, approval>>

\* A mutant: the chunk of comments is not passed over.
KeepComments == Applying /\ IsComment /\ UNCHANGED applyVars

SkipComments ==
    /\ Applying /\ IsComment
    /\ Settle(todo \ Chunk)
    /\ UNCHANGED <<run, disk, stage, history>>

-----------------------------------------------------------------------------
(* InProcessApplicator and NoopApplicator, for instructions they were given *)

\* A mutant: what was done stays in the chunk.
SucceedAgain(i) ==
    LET result == Perform(disk, i, run.originals[i.path])
    IN /\ Live /\ result.ok
       /\ disk' = result.disk
       /\ carried' = carried \cup {i}
       /\ UNCHANGED <<run, stage, todo, approval, skipped, blocked>>

Succeed(i) ==
    LET result == Perform(disk, i, run.originals[i.path])
    IN /\ Live /\ result.ok
       /\ disk' = result.disk
       /\ Settle(todo \ {i})
       /\ carried' = carried \cup {i}
       /\ UNCHANGED <<run, stage, skipped, blocked>>

GetStuck(i) ==
    LET result == Perform(disk, i, run.originals[i.path])
    IN /\ Live /\ ~result.ok
       /\ disk' = result.disk
       /\ Stop
       /\ carried' = carried \cup {i}
       /\ blocked' = {i}
       /\ UNCHANGED <<run, skipped>>

\* A call fails for a reason of its own, or the process is killed.
BreakDown(i) ==
    /\ Live
    /\ disk' \in Interrupted(disk, i)
    /\ Stop
    /\ carried' = carried \cup {i}
    /\ UNCHANGED <<run, skipped, blocked>>

Log(instrs) ==
    /\ ~Live
    /\ Settle(todo \ instrs)
    /\ UNCHANGED <<run, disk, stage, carried, skipped, blocked>>

Granted == run.paranoia # "ask" \/ approval = "all"

CarryOut ==
    /\ Applying /\ ~IsComment /\ Granted
    /\ \/ \E i \in Chunk : IsFirst(i) /\ (Succeed(i) \/ GetStuck(i) \/ BreakDown(i))
       \/ Log(Chunk)
    /\ UNCHANGED shown

-----------------------------------------------------------------------------
(* InteractiveApplicator::apply_files: one question for the chunk *)

AsksFor(answer) == Applying /\ ~IsComment /\ run.paranoia = "ask" /\ approval = answer

AcceptChunk ==
    /\ AsksFor("none")
    /\ approval' = "all"
    /\ shown' = shown \cup Chunk
    /\ UNCHANGED <<run, disk, stage, todo, carried, skipped, blocked>>

GoThroughChunk ==
    /\ AsksFor("none")
    /\ approval' = "each"
    /\ UNCHANGED <<run, disk, stage, todo, history>>

SkipChunk ==
    /\ AsksFor("none")
    /\ Settle(todo \ Chunk)
    /\ skipped' = skipped \cup Chunk
    /\ UNCHANGED <<run, disk, stage, shown, carried, blocked>>

\* interactive_apply_single_file: one question for an instruction.  Showing the
\* diff asks again.
AcceptOne ==
    /\ AsksFor("each")
    /\ \E i \in Chunk :
          /\ IsFirst(i)
          /\ Succeed(i) \/ GetStuck(i) \/ BreakDown(i) \/ Log({i})
          /\ shown' = shown \cup {i}

SkipOne ==
    /\ AsksFor("each")
    /\ \E i \in Chunk :
          /\ IsFirst(i)
          /\ Settle(todo \ {i})
          /\ skipped' = skipped \cup {i}
    /\ UNCHANGED <<run, disk, stage, shown, carried, blocked>>

\* The user aborts, the prompt cannot be read, or the diff cannot be shown.
Abort ==
    /\ AsksFor("none") \/ AsksFor("each")
    /\ Stop
    /\ UNCHANGED <<run, disk, history>>

-----------------------------------------------------------------------------
(* cmd_apply_changes: the early files, the packages, the other files *)

EndBatch ==
    /\ todo = {}
    /\ \/ stage = "early" /\ stage' = "packages"
       \/ stage = "late" /\ stage' = "done"
    /\ UNCHANGED <<run, disk, todo, approval, history>>

ChangesPackages == \E p \in Path : run.installs[p] # NoNode

ToLateBatch ==
    /\ stage' = "late"
    /\ todo' = Batch(TRUE)
    /\ UNCHANGED <<run, approval, history>>

\* Nothing to install, only shown, or skipped by the user.
PassPackages ==
    /\ stage = "packages"
    /\ ~ChangesPackages \/ ~Live \/ run.paranoia = "ask"
    /\ ToLateBatch
    /\ UNCHANGED disk

\* External: a package manager installs over directories it shares only.
InstallPackages ==
    /\ stage = "packages" /\ ChangesPackages /\ Live
    /\ \A p \in Path : run.installs[p] # NoNode =>
          /\ disk[p] = NoNode \/ (IsDir(disk, p) /\ run.installs[p].kind = "Directory")
          /\ \A a \in StrictAncestors(p) : IsDir(disk, a) \/ run.installs[a] # NoNode
    /\ disk' = [p \in Path |-> IF disk[p] = NoNode THEN run.installs[p] ELSE disk[p]]
    /\ ToLateBatch

\* The transaction fails, or the user aborts.
FailPackages ==
    /\ stage = "packages" /\ ChangesPackages /\ (Live \/ run.paranoia = "ask")
    /\ Stop
    /\ UNCHANGED <<run, disk, history>>

ApplyNext ==
    \/ SkipComments \/ CarryOut
    \/ AcceptChunk \/ GoThroughChunk \/ SkipChunk \/ AcceptOne \/ SkipOne \/ Abort
    \/ EndBatch
    \/ PassPackages \/ InstallPackages \/ FailPackages

\* One thread, and a user who answers in the end.
ApplySpec == ApplyInit /\ [][ApplyNext]_applyVars /\ WF_applyVars(ApplyNext)

-----------------------------------------------------------------------------
(* Properties *)

ApplyTypeOK ==
    /\ run \in RunType
    /\ disk \in DiskState
    /\ stage \in {"early", "packages", "late", "done", "failed"}
    /\ todo \subseteq run.instrs
    /\ approval \in {"none", "all", "each"}
    /\ shown \subseteq run.instrs
    /\ carried \subseteq run.instrs
    /\ skipped \subseteq run.instrs
    /\ blocked \subseteq run.instrs

\* What must be carried out before what, inside a batch: kinds in the order of
\* FsOp, and the contents of a directory before the directory is removed.
MustPrecede(i, j) ==
    /\ IsEarly(i) <=> IsEarly(j)
    /\ \/ TagRank[i.tag] < TagRank[j.tag]
       \/ i.tag = "Remove" /\ j.tag = "Remove" /\ j.path \in StrictAncestors(i.path)

\* Whatever was left out by the user or cut short on the way, an instruction is
\* never started while one that must precede it waits in the batch, nor an early
\* one after the early batch.
InOrder ==
    /\ \A i \in carried, j \in todo \ carried : ~MustPrecede(j, i)
    /\ stage = "early" => \A i \in carried : IsEarly(i)

\* Nothing happens that the user was not shown and agreed to: an answer covers
\* its own chunk or instruction and never what comes later, what was skipped
\* stays undone, and without a live run the disk is left as it was.
OnlyAsApproved ==
    /\ run.paranoia = "ask" => carried \subseteq shown
    /\ carried \cap skipped = {}
    /\ ~Live => carried = {} /\ disk = run.start

LinkedFrom(p) ==
    {q \in Path : \/ run.start[p] # NoNode /\ run.start[p].kind = "Symlink" /\ run.start[p].data = q
                  \/ run.installs[p] # NoNode /\ run.installs[p].kind = "Symlink"
                        /\ run.installs[p].data = q
                  \/ Instr(p, "CreateSymlink", q) \in run.instrs}

\* At every moment, also after a failure, the disk differs from what it was
\* before at most at the paths of the plan, at directories made above them, at
\* what the packages bring, and, since writing and chmod follow links, inside
\* files that a link of the plan points to, which never disappear or change
\* their type.  In particular the files below a removed directory that are not
\* in the plan (ignored ones, say) survive.
UntouchedElsewhere ==
    \A q \in Path : disk[q] # run.start[q] =>
        \/ \E i \in run.instrs : i.path = q /\ i.tag # "Comment"
        \/ run.installs[q] # NoNode
        \/ /\ run.start[q] = NoNode /\ disk[q] = NewInode("Directory", None, DEFAULT_DIR_MODE)
           /\ \E i \in run.instrs : NeedsParent(i) /\ q \in StrictAncestors(i.path)
        \/ /\ \E i \in run.instrs : q \in LinkedFrom(i.path)
           /\ disk[q] # NoNode
           /\ run.start[q] # NoNode => disk[q].kind = run.start[q].kind

IsRemoved(q) == Instr(q, "Remove", None) \in run.instrs \ skipped
IsMade(q)    == \E i \in run.instrs : NeedsParent(i) /\ q \in Ancestors[i.path]

\* When a directory of the plan cannot be removed, something is in it that no
\* removal was due for: the plan or the user leaves it there, or it is a matter
\* of the other batch.
RemovalBlockedByOthers ==
    \A b \in blocked : b.tag = "Remove" =>
        \E q \in Path :
            /\ b.path \in StrictAncestors(q) /\ disk[q] # NoNode
            /\ \/ ~IsRemoved(q)
               \/ IsEarly(b) <=> q \notin run.early

\* The comment in apply_files promises it without the last way out: "we remove
\* contents before the directory they are containers of".
ContentsRemovedFirst ==
    \A b \in blocked : b.tag = "Remove" =>
        \E q \in Path :
            /\ b.path \in StrictAncestors(q) /\ disk[q] # NoNode
            /\ (~IsRemoved(q) \/ IsMade(q) \/ run.installs[q] # NoNode)

Plans(p, tag) == \E i \in run.instrs : i.path = p /\ i.tag = tag

\* Chowning a file takes the set-ID bits away that SetMode just gave it.
LosesSetid(i) ==
    /\ WithoutSetid[i.arg] # i.arg
    /\ Plans(i.path, "SetOwner") \/ Plans(i.path, "SetGroup")

\* No link leads into the path or out of it, and no package brings it.
Plain(p) ==
    /\ run.installs[p] = NoNode
    /\ LinkedFrom(p) = {}
    /\ \A q \in Path : p \notin LinkedFrom(q)
    /\ \A t \in Targets : Instr(p, "CreateSymlink", t) \notin run.instrs

\* What an instruction is to achieve.
Achieved(i) ==
    LET p == i.path IN
    CASE i.tag = "Remove" ->
            \/ disk[p] = NoNode
            \/ \E j \in run.instrs :
                  NeedsParent(j) /\ (p \in Ancestors[j.path] \/ p \in LinkedFrom(j.path))
            \/ \E q \in Path : p \in Ancestors[q] /\ run.installs[q] # NoNode
      [] i.tag = "CreateDirectory" -> IsDir(disk, p)
      [] i.tag = "CreateFile" ->
            Plain(p) => disk[p] # NoNode /\ disk[p].kind = "File" /\ disk[p].data = i.arg
      [] i.tag = "Restore" ->
            Plain(p) => disk[p] # NoNode /\ disk[p].kind = "File"
                           /\ disk[p].data = run.originals[p]
      [] i.tag = "CreateSymlink" ->
            disk[p] # NoNode /\ disk[p].kind = "Symlink" /\ disk[p].data = i.arg
      [] i.tag = "CreateFifo"        -> disk[p] # NoNode /\ disk[p].kind = "Fifo"
      [] i.tag = "CreateBlockDevice" -> disk[p] # NoNode /\ disk[p].kind = "BlockDevice"
      [] i.tag = "CreateCharDevice"  -> disk[p] # NoNode /\ disk[p].kind = "CharDevice"
      [] i.tag = "SetMode"  -> (Plain(p) /\ ~LosesSetid(i)) => disk[p].mode = i.arg
      [] i.tag = "SetOwner" -> Plain(p) => disk[p].owner = i.arg
      [] i.tag = "SetGroup" -> Plain(p) => disk[p].group = i.arg
      [] i.tag = "Comment"  -> TRUE

\* A run that reports success achieved the whole plan: no instruction undid what
\* an earlier one did, in either batch.  The exceptions are those of Achieved.
SuccessMeansAchieved ==
    (stage = "done" /\ Live /\ skipped = {}) => \A i \in run.instrs : Achieved(i)

\* "Set all permissions at once": chown, chgrp and chmod of one file together
\* leave it with the mode that was asked for.
PermissionsAllSet ==
    (stage = "done" /\ Live /\ skipped = {}) =>
        \A i \in run.instrs : (i.tag = "SetMode" /\ Plain(i.path)) => disk[i.path].mode = i.arg

\* Every invocation ends: no chunk is asked about, carried out or passed over
\* for ever, and the packages do not hold up the late batch.
Ends == <>(stage \in {"done", "failed"})

=============================================================================
