----------------------------- MODULE Reconcile -----------------------------
(***************************************************************************)
(* konfigkoll apply from end to end (konfigkoll/src/main.rs): what the     *)
(* script asked for and what the file system scan found are folded into    *)
(* two FsEntries, diffed, and the difference is carried out.  A run may    *)
(* break down anywhere; the user starts the next one, which scans again.   *)
(*                                                                         *)
(* ApplyFiles is the second half of a run; this module adds the first and  *)
(* chains runs, so that Run, the invocations ApplyFiles starts with by     *)
(* itself, has no part in it.  The runs are unattended (yolo) and no       *)
(* packages change.                                                        *)
(***************************************************************************)
EXTENDS FsMaps, Scan, ApplyFiles

CONSTANTS
    Packages,           \* the package databases: functions [Path -> PkgEntry \cup {None}]
    Scripts,            \* the instructions a script can end with, after the Main phase
    Disks,              \* the disks a run can find
    Settings,           \* what ignore_path leaves out, and what early_configs matches
    MaxBreakdowns       \* bound on the runs that are cut short

\* The operations that the commands of a script queue.
ScriptTags == {"Remove", "CreateDirectory", "CreateFile", "CreateSymlink"} \cup MetaTags

\* What a path can be wanted to be.
Description ==
    [ kind: { "Directory", "File", "Symlink", "Fifo", "BlockDevice", "CharDevice", "Other",
              "Unknown" },
      data: Arg, mode: Mode \cup {None}, owner: Name \cup {None}, group: Name \cup {None} ]

ASSUME ReconcileAssumption ==
    /\ IsFiniteSet(Path)
    /\ None \notin Description
    /\ Packages \subseteq [Path -> PkgEntry \cup {None}]
    /\ \A actions \in Scripts :
          /\ IsFiniteSet(actions) /\ actions \subseteq FsInstruction
          /\ \A i \in actions : i.tag \in ScriptTags
    /\ \A found \in Disks : found \in DiskState /\ WellFormed(found)
    /\ Settings \subseteq [ignores: SUBSET Path, early: SUBSET Path]
    /\ MaxBreakdowns \in Nat

VARIABLES
    pkgs, script,               \* the package database, the script
    ignores, early,             \* the settings
    script_fs,                  \* the FsEntries of the script
    sys_fs,                     \* the FsEntries of the scan, until they are diffed
    breakdowns                  \* runs cut short so far

config == <<pkgs, script, ignores, early, script_fs>>
vars == <<config, sys_fs, breakdowns, applyVars>>

Originals ==
    [p \in Path |-> IF pkgs[p] = None THEN None
                    ELSE IF pkgs[p].kind = "RegularFile" THEN pkgs[p].data ELSE None]

Invocation(instrs) ==
    [ paranoia |-> "yolo", force_dry_run |-> FALSE, instrs |-> instrs,
      early |-> early, start |-> disk, originals |-> Originals,
      installs |-> [p \in Path |-> NoNode] ]

Init ==
    /\ pkgs \in Packages /\ script \in Scripts
    /\ \E s \in Settings : ignores = s.ignores /\ early = s.early
    /\ disk \in Disks
    /\ script_fs = BuildMap(script)
    /\ sys_fs = EmptyMap
    /\ breakdowns = 0
    /\ run = Invocation({})
    /\ stage = "idle"
    /\ todo = {} /\ approval = "none"
    /\ shown = {} /\ carried = {} /\ skipped = {} /\ blocked = {}

Between == stage \in {"idle", "refused", "failed", "done"}

\* A run begins with the scan.
ScanDisk ==
    /\ Between /\ ~ScanFails(disk, pkgs, ignores)
    /\ sys_fs' = BuildMap(ScanInstructions(disk, pkgs, ignores))
    /\ stage' = "scanned"
    /\ UNCHANGED <<config, breakdowns, run, disk, todo, approval, shown, carried, skipped, blocked>>

\* The diff makes the plan.
Plan(instrs) ==
    /\ run' = Invocation(instrs)
    /\ todo' = {i \in instrs : i.path \in early}
    /\ stage' = "early"

PlanChanges ==
    /\ stage = "scanned" /\ ~ApplyDiffFails(sys_fs, script_fs, pkgs)
    /\ Plan(ApplyDiff(sys_fs, script_fs, pkgs))
    /\ sys_fs' = EmptyMap
    /\ approval' = "none"
    /\ shown' = {} /\ carried' = {} /\ skipped' = {} /\ blocked' = {}
    /\ UNCHANGED <<config, breakdowns, disk>>

\* The scan or the diff gives up, before anything is changed.
Refuse ==
    /\ \/ Between /\ ScanFails(disk, pkgs, ignores)
       \/ stage = "scanned" /\ ApplyDiffFails(sys_fs, script_fs, pkgs)
    /\ stage' = "refused"
    /\ sys_fs' = EmptyMap
    /\ UNCHANGED <<config, breakdowns, run, disk, todo, approval, shown, carried, skipped, blocked>>

\* The rest of the run.
Continue ==
    /\ ApplyNext
    /\ stage' = "failed" /\ blocked' = {} => breakdowns < MaxBreakdowns
    /\ breakdowns' = IF stage' = "failed" /\ blocked' = {} THEN breakdowns + 1 ELSE breakdowns
    /\ UNCHANGED <<config, sys_fs>>

Next == ScanDisk \/ PlanChanges \/ Refuse \/ Continue

\* A run goes on by itself, and the user tries again after one that failed.
Spec == Init /\ [][Next]_vars /\ WF_vars(Next)

-----------------------------------------------------------------------------
(* What a configuration asks for *)

FromPackage(pkg) ==
    [ kind |-> IF pkg.kind = "RegularFile" THEN "File" ELSE pkg.kind, data |-> pkg.data,
      mode |-> pkg.mode, owner |-> pkg.owner, group |-> pkg.group ]

Or(value, default) == IF value = None THEN default ELSE value

\* What the script and the packages together say a path is; None: nothing there.
Wanted(p) ==
    LET node     == script_fs[p]
        Packaged == IF pkgs[p] = None THEN None ELSE FromPackage(pkgs[p])
    IN CASE node = NoNode -> Packaged
         [] node # NoNode /\ node.entry = Removed -> None
         [] node # NoNode /\ node.entry = Unchanged ->
               IF Packaged = None THEN None
               ELSE [Packaged EXCEPT !.mode = Or(node.mode, @), !.owner = Or(node.owner, @),
                                     !.group = Or(node.group, @)]
         [] OTHER -> [ kind |-> node.entry.kind, data |-> node.entry.data, mode |-> node.mode,
                       owner |-> node.owner, group |-> node.group ]

\* A symbolic link has no mode of its own; sockets come and go with services and
\* are not managed.
Matches(inode, wanted) ==
    IF wanted = None \/ inode = NoNode
    THEN wanted = None /\ (inode = NoNode \/ inode.kind = "Socket")
    ELSE /\ inode.kind = wanted.kind /\ inode.data = wanted.data
         /\ inode.kind # "Symlink" => inode.mode = Or(wanted.mode, inode.mode)
         /\ inode.owner = Or(wanted.owner, inode.owner)
         /\ inode.group = Or(wanted.group, inode.group)

Conforms == \A p \in Path : ~Ignored(ignores, p) => Matches(disk[p], Wanted(p))

\* The configuration makes sense: it describes a tree, it does not chmod or
\* chown links, what it only changes the metadata of is in a package, and it
\* says nothing of ignored paths.
Sensible ==
    /\ \A p \in Path : Wanted(p) # None =>
          \A a \in StrictAncestors(p) : Wanted(a) # None /\ Wanted(a).kind = "Directory"
    /\ \A i \in script : i.tag \in MetaTags =>
          Wanted(i.path) # None /\ Wanted(i.path).kind # "Symlink"
    /\ \A i \in script : ~Ignored(ignores, i.path)

-----------------------------------------------------------------------------
(* The plans that do not lead to what the configuration asks for *)

InPlan(p, tags) == \E i \in run.instrs : i.path = p /\ i.tag \in tags

Says(p, kinds) == script_fs[p] # NoNode /\ script_fs[p].entry.kind \in kinds

Found(p, kinds) == run.start[p] # NoNode /\ run.start[p].kind \in kinds

\* Something of another type stands where the plan creates or restores a file
\* or a directory, and is not removed first: diff trusts the scan to have
\* reported it, and restores a packaged file without looking.  A link is then
\* written through; anything else is in the way.
WrongTypeInPlace(p) ==
    /\ run.start[p] # NoNode /\ ~InPlan(p, {"Remove"})
    /\ \/ InPlan(p, {"CreateFile", "Restore"}) /\ ~Found(p, {"File"})
       \/ InPlan(p, {"CreateDirectory"}) /\ ~Found(p, {"Directory"})
       \/ InPlan(p, {"CreateSymlink"}) /\ Found(p, {"Directory"})

\* What a path has when it is created, before its metadata is set.
DefaultModeOf(kind) == IF kind = "Directory" THEN DEFAULT_DIR_MODE ELSE DEFAULT_FILE_MODE

\* The script's file, directory or link takes the place of a packaged one, whose
\* metadata it keeps: the scan had nothing to report of that.
KeepsMetadata(p) ==
    /\ pkgs[p] # None /\ ~InPlan(p, {"Remove"})
    /\ \/ \E kind \in {"File", "Directory"} :
             /\ Says(p, {kind}) /\ Found(p, {kind})
             /\ <<pkgs[p].mode, pkgs[p].owner, pkgs[p].group>> # <<DefaultModeOf(kind), ROOT, ROOT>>
       \/ /\ Says(p, {"Symlink"}) /\ Found(p, {"Symlink"}) /\ ~InPlan(p, {"CreateSymlink"})
          /\ <<pkgs[p].owner, pkgs[p].group>> # <<ROOT, ROOT>>

\* What is made anew is not given the metadata that the node before it had, or
\* that diff takes the new one to have.
LosesMetadata(p) ==
    LET wanted == Wanted(p)
        Lost(tag, value, created) == ~InPlan(p, {tag}) /\ value \notin {None, created}
    IN /\ wanted # None
       /\ run.start[p] = NoNode \/ InPlan(p, {"Remove", "CreateSymlink"})
       /\ \/ /\ wanted.kind # "Symlink"
             /\ Lost("SetMode", wanted.mode, DefaultModeOf(wanted.kind))
          \/ Lost("SetOwner", wanted.owner, ROOT)
          \/ Lost("SetGroup", wanted.group, ROOT)

\* Giving a set-ID program to somebody takes the bits away that it has or was just
\* given.
LosesSetidBits(p) ==
    /\ Wanted(p) # None /\ Wanted(p).mode # None
    /\ WithoutSetid[Wanted(p).mode] # Wanted(p).mode
    /\ InPlan(p, {"SetOwner", "SetGroup"})

\* A directory is removed, to make way for something else or for the directory that
\* the script says it is, and something in it stays, or stays till the late batch:
\* the scan had nothing to report of it.
RemovedWithContents(p) ==
    /\ InPlan(p, {"Remove"}) /\ Found(p, {"Directory"})
    /\ \E q \in Path :
          /\ p \in StrictAncestors(q) /\ run.start[q] # NoNode
          /\ ~InPlan(q, {"Remove"}) \/ (p \in early /\ q \notin early)

\* Something below a path is made early, when what is to be removed there still is
\* there.
RemovedTooLate(p) ==
    /\ InPlan(p, {"Remove"}) /\ p \notin early
    /\ \E i \in run.instrs : NeedsParent(i) /\ IsEarly(i) /\ p \in StrictAncestors(i.path)

\* What the script only changes the metadata of differs from the package in
\* more than that: it is removed, and not created again.
RemovedForMetadata(p) == Says(p, {"Unchanged"}) /\ InPlan(p, {"Remove"})

\* What the script only changes the metadata of differs from the package in
\* metadata the script is silent about, which diff only comments on; or it is the
\* package's owner that the script changes to root, which is never set.
LeavesMetadata(p) ==
    /\ Says(p, {"Unchanged"})
    /\ \/ InPlan(p, {"Comment"})
       \/ ~InPlan(p, {"SetOwner"}) /\ script_fs[p].owner = ROOT /\ pkgs[p].owner # ROOT
       \/ ~InPlan(p, {"SetGroup"}) /\ script_fs[p].group = ROOT /\ pkgs[p].group # ROOT

\* What is not to be there is to get the metadata of a removed node.
MetadataOfNothing(p) == Wanted(p) = None /\ InPlan(p, MetaTags)

\* A link has the wrong owner, or a mode from before it was a link; chown and chmod
\* follow it, and what it points to is given the metadata.
MetadataOfLink(p) == Wanted(p) # None /\ Wanted(p).kind = "Symlink" /\ InPlan(p, MetaTags)

\* The package has something that diff does not know how to restore.
Unrestorable(p) ==
    /\ pkgs[p] # None /\ pkgs[p].kind \in {"Other", "Unknown"}
    /\ script_fs[p] = NoNode \/ Says(p, {"Unchanged"})

Tractable ==
    \A p \in Path :
        /\ ~Unrestorable(p)
        /\ ~WrongTypeInPlace(p)
        /\ ~KeepsMetadata(p)
        /\ ~LosesMetadata(p)
        /\ ~LosesSetidBits(p)
        /\ ~RemovedWithContents(p)
        /\ ~RemovedTooLate(p)
        /\ ~RemovedForMetadata(p)
        /\ ~LeavesMetadata(p)
        /\ ~MetadataOfNothing(p)
        /\ ~MetadataOfLink(p)

Hard == ~Sensible \/ ~Tractable \/ stage = "refused"

-----------------------------------------------------------------------------
(* Properties *)

TypeOK ==
    /\ pkgs \in [Path -> PkgEntry \cup {None}]
    /\ script \subseteq FsInstruction
    /\ ignores \subseteq Path /\ early \subseteq Path
    /\ script_fs \in FsMap /\ sys_fs \in FsMap
    /\ breakdowns \in 0..MaxBreakdowns
    /\ disk \in DiskState
    /\ run.instrs \subseteq FsInstruction
    /\ stage \in {"idle", "refused", "scanned", "early", "packages", "late", "done", "failed"}

\* The configuration is total: after a run that reports success, every path that
\* is not ignored is what the script says and otherwise what the packages say,
\* contents and metadata, whatever was found there and wherever earlier runs
\* broke down.  The plans that fail to achieve it are those named in Tractable.
Conformity == stage = "done" /\ ~Hard => Conforms

\* No plan contradicts itself: apart from failures from outside, every instruction
\* finds what it needs when its turn comes, also on a disk an earlier run left
\* half changed.
NeverStuck == blocked # {} => Hard

\* What is ignored and not mentioned by the script is left alone.
IgnoredUntouched ==
    [][~Hard => \A p \in Path : Ignored(ignores, p) => disk'[p] = disk[p]]_vars

\* The whole of it as it looks from outside: a run decides what to do, is able to do
\* it or not, and changes the disk.
Phase ==
    CASE stage = "scanned" -> "observed"
      [] stage \in {"early", "packages", "late"} -> "acting"
      [] OTHER -> stage

Desired ==
    INSTANCE DesiredState
        WITH Node   <- Inode \cup {NoNode},
             Wish   <- Description \cup {None},
             wanted <- [p \in Path |-> Wanted(p)],
             kept   <- {p \in Path : Ignored(ignores, p)},
             phase  <- Phase,
             able   <- Sensible /\ Tractable

\* konfigkoll does what it promises.  A run whose plan is none of those named in
\* Tractable leaves alone what is ignored, whatever it does and wherever it is cut
\* short; it does not fail unless it is cut short; and when it reports success
\* everything else is as the script and the packages say.
ImplementsDesired == Desired!Spec

\* Running again after every run that fails leads to the state the configuration
\* asks for: runs keep ending, and from some point on all of them end there.  (Not
\* that nothing changes any more: a script's file over a packaged one of another
\* mode is removed and created again by every run.)
Converges == <>Hard \/ ([]<>Between /\ <>[](Between => Conforms))

\* The comment diff puts on a removal: "Removed (and later recreated) due to file
\* type conflict".  What a plan removes and the configuration wants is created
\* again by the same plan.
RemovedIsRecreated ==
    \A p \in Path :
        (stage = "early" /\ Sensible /\ Wanted(p) # None /\ InPlan(p, {"Remove"}))
            => InPlan(p, CreateTags \cup {"Restore"})

\* diff: "Generate a stream of instructions to go from state before to state
\* after".  A file that a successful run created anew has the mode the script
\* gives it.
CreatedHasMode ==
    \A p \in Path :
        (stage = "done" /\ Sensible /\ Says(p, {"File"})
                       /\ InPlan(p, {"Remove"}) /\ InPlan(p, {"CreateFile"}))
            => disk[p].mode = script_fs[p].mode

=============================================================================
