------------------------------ MODULE Packages ------------------------------
(***************************************************************************)
(* konfigkoll apply as a pipeline (run_main in konfigkoll/src/main.rs):    *)
(* the installed packages are loaded once; the file system scan runs in    *)
(* the background while the script's phases go on and the packages that    *)
(* the script needs are installed early; the rest of the packages follows  *)
(* when the scan is done, and the files that the scan found wrong last.    *)
(*                                                                         *)
(* Everything is decided by what was loaded in the beginning (pkgs_sys,    *)
(* package_maps), however the packages changed since.  A run may be        *)
(* followed by another one.                                                *)
(*                                                                         *)
(* A package stands for one file it owns; what is done to files besides    *)
(* packages is the matter of Reconcile and ApplyFiles.                     *)
(***************************************************************************)
EXTENDS Naturals, Sequences, FiniteSetsExt

CONSTANTS
    NativePkg,          \* the packages of the distribution
    Flatpak,            \* the applications and runtimes of flatpak
    Requires,           \* Requires[p]: what p depends on, directly or not
    Systems,            \* what can be installed at first: functions [Pkg -> Reason]
    Scripts,            \* the calls a script makes, see ScriptType
    Natives,            \* the distribution's package managers considered
    Paranoia,           \* the --confirm options considered
    MaxBreakdowns       \* bound on the calls that fail for reasons of their own

Pkg == NativePkg \cup Flatpak

Reason == {"absent", "dependency", "explicit"}

Call == [op: {"add", "remove"}, pkg: Pkg]

ScriptType == [script_dependencies: Seq(Call), main: Seq(Call)]

Installed(s) == {p \in Pkg : s[p] # "absent"}
Explicit(s)  == {p \in Pkg : s[p] = "explicit"}

\* What is installed at first has all it requires: package managers see to that.
ASSUME PackagesAssumption ==
    /\ NativePkg \cap Flatpak = {}
    /\ Requires \in [Pkg -> SUBSET Pkg]
    /\ \A p \in Pkg : p \notin Requires[p] /\ \A q \in Requires[p] : Requires[q] \subseteq Requires[p]
    /\ Systems \subseteq [Pkg -> Reason]
    /\ \A s \in Systems, p \in Pkg : s[p] # "absent" => Requires[p] \subseteq Installed(s)
    /\ Scripts \subseteq ScriptType
    /\ Natives \subseteq {"pacman", "apt"}
    /\ Paranoia \subseteq {"yolo", "ask", "dry-run"}
    /\ MaxBreakdowns \in Nat

VARIABLES
    native, script, paranoia,       \* the host, its configuration and the option
    sys,                            \* what is installed, and why
    files,                          \* the native packages whose file is on disk
    phase,                          \* where the main thread is
    package_actions,                \* Commands::package_actions
    pkgs_sys,                       \* the explicitly installed packages, as loaded
    package_maps,                   \* the installed packages, as loaded
    pending,                        \* the package managers apply_packages has yet to call
    step,                           \* where apply_pkgs is with the current one
    scan,                           \* the background scan
    \* history
    changed_early,                  \* what early packages installed or removed, this run
    blocked,                        \* "none", or why the program itself ended the run
    breakdowns                      \* calls that failed for reasons of their own

config == <<native, script, paranoia>>
loaded == <<pkgs_sys, package_maps>>
vars == << config, sys, files, phase, package_actions, loaded, pending, step, scan,
           changed_early, blocked, breakdowns >>

Manager(p) == IF p \in NativePkg THEN native ELSE "flatpak"

-----------------------------------------------------------------------------
(* The package managers *)

\* An install pulls in what is required.  pacman -S leaves the reason of a package
\* that is already installed alone, apt-get install does not.
InstallAll(s, pkgs) ==
    [p \in Pkg |->
        IF p \in pkgs
        THEN IF s[p] = "absent" \/ Manager(p) = "apt" THEN "explicit" ELSE s[p]
        ELSE IF s[p] = "absent" /\ \E q \in pkgs : p \in Requires[q] THEN "dependency" ELSE s[p]]

MarkAll(s, pkgs, reason) ==
    [p \in Pkg |-> IF p \in pkgs /\ s[p] # "absent" THEN reason ELSE s[p]]

\* pacman -D rejects what is not installed, apt-mark only complains.
MarkFails(s, pkgs) == native = "pacman" /\ \E p \in pkgs : s[p] = "absent"

\* pacman -R of what pacman -Qttdq lists, again and again, and apt-get autoremove.
RemoveUnused(s, m) ==
    [p \in Pkg |->
        IF /\ Manager(p) = m /\ s[p] = "dependency"
           /\ \A q \in Explicit(s) : p \notin Requires[q]
        THEN "absent" ELSE s[p]]

-----------------------------------------------------------------------------
(* Commands::add_pkg and remove_pkg *)

\* Both are meant to ignore package managers that are not enabled; remove_pkg asks
\* whether the package manager is the one that files come from.  (The native
\* package manager is enabled for both, flatpak for packages.)
IgnoresCall(call) == call.op = "remove" /\ Manager(call.pkg) # native

\* Of the calls about a package the last one counts (package_actions is a map), and
\* what the phases before left is kept otherwise.
RunPhase(actions, calls) ==
    [p \in Pkg |->
        LET about == {k \in DOMAIN calls : calls[k].pkg = p /\ ~IgnoresCall(calls[k])}
        IN IF about = {} THEN actions[p]
           ELSE IF calls[Max(about)].op = "add" THEN "Install" ELSE "Uninstall"]

-----------------------------------------------------------------------------
(* package_diff, and what apply makes of it *)

\* comm joins by package and operation, and what is loaded is all Install.
OnlyLoaded(actions)   == {p \in pkgs_sys : actions[p] # "Install"}
OnlyScripted(actions) == {p \in Pkg : actions[p] = "Uninstall"
                                         \/ (actions[p] = "Install" /\ p \notin pkgs_sys)}

Scripted(actions) == {<<p, actions[p]>> : p \in OnlyScripted(actions)}

\* A mutant: the early packages are diffed like the others.
EarlyChangesBothWays(actions) ==
    Scripted(actions) \cup {<<p, "Uninstall">> : p \in OnlyLoaded(actions)}

\* Early, only what the script asks for counts.
EarlyChanges(actions) == Scripted(actions)

LateChanges(actions) ==
    Scripted(actions) \cup {<<p, "Uninstall">> : p \in OnlyLoaded(actions)}

Changes == IF phase = "early" THEN EarlyChanges(package_actions) ELSE LateChanges(package_actions)

ManagersOf(changes) == {Manager(c[1]) : c \in changes}

\* A mutant: what is to be installed is thought to be there.
MarkOnly(m) ==
    LET Of(op) == {p \in Pkg : Manager(p) = m /\ <<p, op>> \in Changes}
    IN [install |-> {}, mark_as_manual |-> Of("Install"), uninstall |-> Of("Uninstall")]

\* A mutant: what is installed already is left as it is.
LeaveReasons(m) ==
    LET Of(op) == {p \in Pkg : Manager(p) = m /\ <<p, op>> \in Changes}
    IN [install |-> Of("Install") \ package_maps, mark_as_manual |-> {}, uninstall |-> Of("Uninstall")]

\* apply_packages sorts the changes of a package manager by what was loaded.
Operations(m) ==
    LET Of(op) == {p \in Pkg : Manager(p) = m /\ <<p, op>> \in Changes}
    IN [ install        |-> Of("Install") \ package_maps,
         mark_as_manual |-> Of("Install") \cap package_maps,
         uninstall      |-> Of("Uninstall") ]

-----------------------------------------------------------------------------
(* A run *)

NoScan == [ state |-> "none", listed |-> {}, unvisited |-> {}, unexpected |-> {}, missing |-> {} ]

NoStep == [manager |-> "none", next |-> "none"]

NoActions == [p \in Pkg |-> "none"]

Init ==
    /\ native \in Natives /\ script \in Scripts /\ paranoia \in Paranoia
    /\ sys \in Systems
    /\ files = Installed(sys) \cap NativePkg
    /\ phase = "idle"
    /\ package_actions = NoActions
    /\ pkgs_sys = {} /\ package_maps = {}
    /\ pending = {} /\ step = NoStep
    /\ scan = NoScan
    /\ changed_early = {} /\ blocked = "none" /\ breakdowns = 0

Between == phase \in {"idle", "done", "failed"}

\* load_packages; then the scan is spawned, and the script's second phase runs.
Load ==
    /\ Between
    /\ pkgs_sys' = Explicit(sys)
    /\ package_maps' = Installed(sys)
    /\ scan' = [NoScan EXCEPT !.state = "spawned"]
    /\ package_actions' = RunPhase(NoActions, script.script_dependencies)
    /\ phase' = "load"
    /\ changed_early' = {} /\ blocked' = "none"
    /\ UNCHANGED <<config, sys, files, pending, step, breakdowns>>

ApplyEarlyPackages ==
    /\ phase = "load"
    /\ phase' = "early"
    /\ pending' = ManagersOf(EarlyChanges(package_actions))
    /\ UNCHANGED << config, sys, files, package_actions, loaded, step, scan,
                    changed_early, blocked, breakdowns >>

RunMainPhase ==
    /\ phase = "early" /\ pending = {}
    /\ phase' = "main"
    /\ package_actions' = RunPhase(package_actions, script.main)
    /\ UNCHANGED << config, sys, files, loaded, pending, step, scan,
                    changed_early, blocked, breakdowns >>

\* The results of the scan are awaited.
ApplyPackages ==
    /\ phase = "main" /\ scan.state = "done"
    /\ phase' = "late"
    /\ pending' = ManagersOf(LateChanges(package_actions))
    /\ UNCHANGED << config, sys, files, package_actions, loaded, step, scan,
                    changed_early, blocked, breakdowns >>

\* The files found wrong by the scan: those no package owned are removed, those
\* that were missing are restored.  Asked, the user may say no to some.
ApplyFileChanges ==
    /\ phase = "late" /\ pending = {}
    /\ \E unexpected \in SUBSET scan.unexpected, missing \in SUBSET scan.missing :
          /\ paranoia = "yolo" => unexpected = scan.unexpected /\ missing = scan.missing
          /\ paranoia = "dry-run" => unexpected = {} /\ missing = {}
          /\ files' = (files \ unexpected) \cup missing
    /\ phase' = "done"
    /\ UNCHANGED << config, sys, package_actions, loaded, pending, step, scan,
                    changed_early, blocked, breakdowns >>

-----------------------------------------------------------------------------
(* apply_pkgs of the applicators, for one package manager after the other *)

\* What a transaction does to the packages and their files.
Transact(s) ==
    LET arrived == Installed(s) \ Installed(sys)
        gone    == Installed(sys) \ Installed(s)
    IN /\ sys' = s
       /\ files' = (files \cup (arrived \cap NativePkg)) \ gone
       /\ changed_early' = IF phase = "early" THEN changed_early \cup arrived \cup gone
                                              ELSE changed_early

GoOn(m, next) ==
    /\ step' = [manager |-> m, next |-> next]
    /\ UNCHANGED <<phase, pending, scan, blocked>>

\* A mutant: the step is not reset.
ForgetStep(m) ==
    /\ pending' = pending \ {m}
    /\ UNCHANGED <<phase, step, scan, blocked>>

\* The map from package managers to operations has no order.
Finish(m) ==
    /\ pending' = pending \ {m}
    /\ step' = NoStep
    /\ UNCHANGED <<phase, scan, blocked>>

Quit(why) ==
    /\ phase' = "failed"
    /\ pending' = {} /\ step' = NoStep
    /\ scan' = NoScan
    /\ blocked' = why

AtStart(m)    == phase \in {"early", "late"} /\ step = NoStep /\ m \in pending
At(m, next)   == step = [manager |-> m, next |-> next]
NoTransaction == UNCHANGED <<sys, files, changed_early>>

\* Asked, the user may say no; in a dry run nothing is asked and nothing done.
PassOver(m) ==
    /\ AtStart(m) /\ paranoia # "yolo"
    /\ Finish(m)
    /\ NoTransaction
    /\ UNCHANGED <<config, package_actions, loaded, breakdowns>>

Abort(m) ==
    /\ AtStart(m) /\ paranoia = "ask"
    /\ Quit("none")
    /\ NoTransaction
    /\ UNCHANGED <<config, package_actions, loaded, breakdowns>>

Install(m) ==
    /\ AtStart(m) /\ paranoia # "dry-run"
    /\ Transact(InstallAll(sys, Operations(m).install))
    /\ GoOn(m, "mark_manual")
    /\ UNCHANGED <<config, package_actions, loaded, breakdowns>>

\* flatpak rejects even this call, so that the way apply_pkgs has around marking
\* what is to be uninstalled is never reached.
MarkManual(m) ==
    LET pkgs == Operations(m).mark_as_manual
    IN /\ At(m, "mark_manual")
       /\ IF m = "flatpak" THEN Quit("unsupported") /\ NoTransaction
          ELSE /\ Transact(MarkAll(sys, pkgs, "explicit"))
               /\ IF MarkFails(sys, pkgs) THEN Quit("not installed") ELSE GoOn(m, "mark_unwanted")
       /\ UNCHANGED <<config, package_actions, loaded, breakdowns>>

MarkUnwanted(m) ==
    LET pkgs == Operations(m).uninstall
    IN /\ At(m, "mark_unwanted")
       /\ Transact(MarkAll(sys, pkgs, "dependency"))
       /\ IF MarkFails(sys, pkgs) THEN Quit("not installed") ELSE GoOn(m, "remove_unused")
       /\ UNCHANGED <<config, package_actions, loaded, breakdowns>>

RemoveUnwanted(m) ==
    /\ At(m, "remove_unused")
    /\ Transact(RemoveUnused(sys, m))
    /\ Finish(m)
    /\ UNCHANGED <<config, package_actions, loaded, breakdowns>>

\* A package manager, or the script, fails for reasons of its own, having done its
\* work or not, or the process is killed.
BreakDown ==
    /\ breakdowns < MaxBreakdowns
    /\ breakdowns' = breakdowns + 1
    /\ \/ phase \in {"load", "early", "main"} /\ pending = {} /\ NoTransaction
       \/ \E m \in pending : /\ AtStart(m) /\ paranoia # "dry-run"
                             /\ Transact(InstallAll(sys, Operations(m).install))
       \/ \E m \in pending : /\ At(m, "mark_unwanted") \/ At(m, "remove_unused")
                             /\ NoTransaction
       \/ /\ phase = "late" /\ pending = {} /\ paranoia # "dry-run"
          /\ \E U \in SUBSET scan.unexpected, M \in SUBSET scan.missing :
                files' = (files \ U) \cup M
          /\ UNCHANGED <<sys, changed_early>>
    /\ Quit("none")
    /\ UNCHANGED <<config, package_actions, loaded>>

-----------------------------------------------------------------------------
(* The scan *)

\* A mutant: only what is installed explicitly is looked up.
ListExplicit == pkgs_sys

\* What files a package should have comes from the package database as it is by
\* then (files), or from the archives of the packages loaded in the beginning
\* (files_from_archives).
Listing == IF native = "apt" THEN package_maps \cap NativePkg ELSE Installed(sys) \cap NativePkg

ScanOnly == UNCHANGED << config, sys, files, phase, package_actions, loaded, pending, step,
                         changed_early, blocked, breakdowns >>

ListFiles ==
    /\ scan.state = "spawned"
    /\ scan' = [scan EXCEPT !.state = "walking", !.listed = Listing, !.unvisited = NativePkg]
    /\ ScanOnly

\* do_walk and find_missing_files: a file is seen or not when its turn comes.
Visit(p) ==
    /\ scan.state = "walking" /\ p \in scan.unvisited
    /\ scan' = [scan EXCEPT
                  !.unvisited = @ \ {p},
                  !.unexpected = IF p \in files \ scan.listed THEN @ \cup {p} ELSE @,
                  !.missing = IF p \in scan.listed \ files THEN @ \cup {p} ELSE @]
    /\ ScanOnly

FinishScan ==
    /\ scan.state = "walking" /\ scan.unvisited = {}
    /\ scan' = [scan EXCEPT !.state = "done"]
    /\ ScanOnly

-----------------------------------------------------------------------------

MainThread ==
    \/ Load \/ ApplyEarlyPackages \/ RunMainPhase \/ ApplyPackages \/ ApplyFileChanges
    \/ \E m \in pending :
          \/ PassOver(m) \/ Abort(m)
          \/ Install(m) \/ MarkManual(m) \/ MarkUnwanted(m) \/ RemoveUnwanted(m)
    \/ BreakDown

Scanner == ListFiles \/ FinishScan \/ \E p \in NativePkg : Visit(p)

Next == MainThread \/ Scanner

\* Both threads get their turns, and the user answers and starts the next run.
Spec == Init /\ [][Next]_vars /\ WF_vars(MainThread) /\ WF_vars(Scanner)

-----------------------------------------------------------------------------
(* Properties *)

Op == {"none", "Install", "Uninstall"}

Step == [manager: {native, "flatpak"}, next: {"mark_manual", "mark_unwanted", "remove_unused"}]

TypeOK ==
    /\ native \in Natives /\ script \in Scripts /\ paranoia \in Paranoia
    /\ sys \in [Pkg -> Reason]
    /\ files \subseteq NativePkg
    /\ phase \in {"idle", "load", "early", "main", "late", "done", "failed"}
    /\ package_actions \in [Pkg -> Op]
    /\ pkgs_sys \subseteq package_maps /\ package_maps \subseteq Pkg
    /\ pending \subseteq {native, "flatpak"}
    /\ step \in Step \cup {NoStep} /\ (step # NoStep => step.manager \in pending)
    /\ scan \in [ state: {"none", "spawned", "walking", "done"}, listed: SUBSET NativePkg,
                  unvisited: SUBSET NativePkg, unexpected: SUBSET NativePkg,
                  missing: SUBSET NativePkg ]
    /\ changed_early \subseteq Pkg
    /\ blocked \in {"none", "not installed", "unsupported"}
    /\ breakdowns \in 0..MaxBreakdowns

AskedEarly == RunPhase(NoActions, script.script_dependencies)
AskedInAll == RunPhase(AskedEarly, script.main)

\* Until the script's main phase was heard, no package the user installed is taken
\* away or becomes removable, unless the script's early phase asked for that.
NothingLostEarly ==
    phase \in {"load", "early", "main"} =>
        \A p \in pkgs_sys : sys[p] = "explicit" \/ AskedEarly[p] = "Uninstall"

\* After a run that reports success, what is installed explicitly is what the
\* script adds, each with all it requires.  Only what the early packages changed
\* after it was loaded may be missing: what the script removes early and adds later
\* is taken for still installed, what they took away stays away, and what came with
\* them as a dependency is not marked by pacman.
SuccessMeansWanted ==
    (phase = "done" /\ paranoia = "yolo") =>
        /\ \A p \in Explicit(sys) : AskedInAll[p] = "Install" /\ Requires[p] \subseteq Installed(sys)
        /\ \A p \in Pkg : AskedInAll[p] = "Install" /\ sys[p] # "explicit" =>
              IF p \in pkgs_sys THEN AskedEarly[p] = "Uninstall" ELSE p \in changed_early

\* The run ends itself only where the script removes a package that is not
\* installed (any more), where a package it adds was taken away as unused by the
\* early packages, or where flatpak has to change something.
BlockedOnlyWhere ==
    /\ blocked = "unsupported" => \E p \in Flatpak : package_actions[p] # "none" \/ p \in pkgs_sys
    /\ blocked = "not installed" =>
          \E p \in NativePkg :
              /\ sys[p] = "absent"
              /\ package_actions[p] = "Uninstall" \/ p \in package_maps \cap changed_early

\* Every file that is not the script's is as the packages have it: the file of a
\* package is there exactly while the package is installed.
FilesFollowPackages ==
    (phase = "done" /\ paranoia = "yolo") =>
        \A p \in NativePkg : p \in files <=> sys[p] # "absent"

\* In whatever order the scan and the main thread went on, the plan spoils the files
\* of no package but those the early packages changed beneath the scan, and those
\* whose file was wrong and which are then installed or removed.
FilesFollowUnlessChanged ==
    (phase = "done" /\ paranoia = "yolo") =>
        \A p \in NativePkg \ changed_early :
            \/ p \in files <=> sys[p] # "absent"
            \/ p \in scan.missing /\ sys[p] = "absent"
            \/ p \in scan.unexpected \ package_maps /\ sys[p] # "absent"

Conforms ==
    /\ Explicit(sys) = {p \in Pkg : AskedInAll[p] = "Install"}
    /\ \A p \in NativePkg : p \in files <=> sys[p] # "absent"

\* A script that removes early what it adds later undoes its own work.
ChangesItsMind == \E p \in Pkg : AskedEarly[p] = "Uninstall" /\ AskedInAll[p] = "Install"

\* Run again and again, whatever the earlier runs and the races within them left
\* behind, apply reaches what the script asks for and stays there, unless it keeps
\* ending itself (see BlockedOnlyWhere).
Converges ==
    \/ paranoia # "yolo" \/ ChangesItsMind
    \/ []<>(blocked # "none")
    \/ []<>(phase = "done") /\ <>[](phase = "done" => Conforms)

=============================================================================
