--------------------------- MODULE PackagesProofs ---------------------------
(***************************************************************************)
(* For all packages, dependencies, scripts and installed packages, in any  *)
(* order of the two threads and with any number of failures: the state is  *)
(* well-formed (TypeCorrect), no package is lost before the script's main  *)
(* phase was heard (EarlySafe), and the program ends a run itself only for *)
(* the named reasons (BlockedExplained).                                   *)
(*                                                                         *)
(* What is missing from the latter two to be inductive: that the actions   *)
(* are those of the first phase as long as the early packages are dealt    *)
(* with (EarlyActions), where apply_pkgs can be (StepInv), why flatpak is  *)
(* called at all (FlatpakInv), and that a native package that was loaded   *)
(* and is gone, with its manager still to be called, was taken away early  *)
(* (AbsentInv).                                                            *)
(*                                                                         *)
(* A run that succeeds spoils the files of no package that the early       *)
(* packages left alone, theorem FilesFollow; and, whatever earlier runs    *)
(* left behind, it has made the packages what the script asks for, theorem *)
(* GoalReached.                                                            *)
(*                                                                         *)
(* The inductive invariant of the first (ScanInv) says of such a package:  *)
(* until the late phase it is installed as it was loaded, and what the     *)
(* scan noted of it is what the disk and what was loaded differ in         *)
(* (Noted); from then on that is so still, or a late transaction put its   *)
(* file right.                                                             *)
(*                                                                         *)
(* SuccessMeansWanted speaks of the end of a run.  The inductive invariant *)
(* GoalInv follows it to there: every explicit package was loaded as such  *)
(* or is in the actions (Asked), what was not loaded and is there came     *)
(* early (Arrived), and in the late transactions each step of apply_pkgs   *)
(* settles some of the packages (Settling).  That an explicit package has  *)
(* all it requires is kept by every call to a package manager (Complete).  *)
(***************************************************************************)
EXTENDS Packages, TLAPS

EarlyActions == phase \in {"load", "early"} => package_actions = AskedEarly

StepInv ==
    /\ pending # {} => phase \in {"early", "late"}
    /\ step # NoStep /\ step.next # "mark_manual" => step.manager = native

FlatpakInv ==
    "flatpak" \in pending => \E p \in Flatpak : package_actions[p] # "none" \/ p \in pkgs_sys

AbsentInv ==
    phase \in {"load", "early", "main"} \/ native \in pending =>
        \A p \in NativePkg \cap package_maps : sys[p] = "absent" => p \in changed_early

BlockedPhase == blocked # "none" => phase = "failed"

IInv ==
    /\ TypeOK
    /\ EarlyActions
    /\ StepInv
    /\ FlatpakInv
    /\ AbsentInv
    /\ BlockedPhase
    /\ NothingLostEarly
    /\ BlockedOnlyWhere

-----------------------------------------------------------------------------
(* The package managers *)

\* flatpak is none of the distribution's package managers, and has its own packages.
LEMMA Managers ==
    ASSUME TypeOK
    PROVE  /\ native # "flatpak"
           /\ \A p \in Pkg : Manager(p) \in {native, "flatpak"}
           /\ \A p \in Pkg : Manager(p) = native => p \in NativePkg
           /\ \A p \in Pkg : Manager(p) = "flatpak" => p \in Flatpak
  BY PackagesAssumption DEF TypeOK, Manager, Pkg

\* An installation takes no package away, and none that is explicit stops to be.
LEMMA InstallReasons ==
    ASSUME NEW s \in [Pkg -> Reason], NEW pkgs
    PROVE  /\ InstallAll(s, pkgs) \in [Pkg -> Reason]
           /\ \A p \in Pkg : InstallAll(s, pkgs)[p] = "absent" => s[p] = "absent"
           /\ \A p \in Pkg : s[p] = "explicit" => InstallAll(s, pkgs)[p] = "explicit"
  BY DEF InstallAll, Reason

\* A mark adds and removes no package, and concerns only those it is put on.
LEMMA MarkReasons ==
    ASSUME NEW s \in [Pkg -> Reason], NEW pkgs, NEW r \in {"dependency", "explicit"}
    PROVE  /\ MarkAll(s, pkgs, r) \in [Pkg -> Reason]
           /\ \A p \in Pkg : MarkAll(s, pkgs, r)[p] = "absent" <=> s[p] = "absent"
           /\ \A p \in Pkg : s[p] = "explicit" /\ (r = "explicit" \/ p \notin pkgs) =>
                                MarkAll(s, pkgs, r)[p] = "explicit"
  BY DEF MarkAll, Reason

\* The removal of what is not needed spares what is explicit.
LEMMA RemoveReasons ==
    ASSUME NEW s \in [Pkg -> Reason], NEW m
    PROVE  /\ RemoveUnused(s, m) \in [Pkg -> Reason]
           /\ \A p \in Pkg : s[p] = "explicit" => RemoveUnused(s, m)[p] = "explicit"
  BY DEF RemoveUnused, Reason

\* Packages, their files and what changed early keep their types.
LEMMA TransactTypes ==
    ASSUME TypeOK, NEW s \in [Pkg -> Reason], Transact(s)
    PROVE  /\ sys' \in [Pkg -> Reason]
           /\ files' \subseteq NativePkg
           /\ changed_early' \subseteq Pkg
           /\ changed_early \subseteq changed_early'
           /\ phase = "early" =>
                 \A p \in Pkg : sys[p] # "absent" /\ s[p] = "absent" => p \in changed_early'
  BY DEF TypeOK, Transact, Installed, Pkg

\* The actions of a phase are actions.
LEMMA ActionTypes ==
    ASSUME NEW actions \in [Pkg -> Op], NEW calls
    PROVE  NoActions \in [Pkg -> Op] /\ RunPhase(actions, calls) \in [Pkg -> Op]
<1>1. NoActions \in [Pkg -> Op]
  BY DEF NoActions, Op
<1>2. RunPhase(actions, calls) \in [Pkg -> Op]
  BY DEF RunPhase, Op
<1>. QED  BY <1>1, <1>2

\* A change is of a package that the script mentions or that is loaded.
LEMMA ChangeOf ==
    ASSUME NEW c \in LateChanges(package_actions), TypeOK
    PROVE  /\ c[1] \in Pkg
           /\ package_actions[c[1]] # "none" \/ c[1] \in pkgs_sys
<1>1. CASE c \in Scripted(package_actions)
  <2>1. PICK p \in OnlyScripted(package_actions) : c = <<p, package_actions[p]>>
    BY <1>1 DEF Scripted
  <2>2. p \in Pkg /\ package_actions[p] # "none"
    BY <2>1 DEF OnlyScripted
  <2>. QED  BY <2>1, <2>2
<1>2. CASE c \in {<<p, "Uninstall">> : p \in OnlyLoaded(package_actions)}
  <2>1. PICK p \in OnlyLoaded(package_actions) : c = <<p, "Uninstall">>
    BY <1>2
  <2>2. p \in Pkg /\ p \in pkgs_sys
    BY <2>1 DEF OnlyLoaded, TypeOK
  <2>. QED  BY <2>1, <2>2
<1>. QED  BY <1>1, <1>2 DEF LateChanges

\* What is changed early would be changed late as well.
LEMMA EarlyIsLate == EarlyChanges(package_actions) \subseteq LateChanges(package_actions)
  BY DEF EarlyChanges, LateChanges

\* The package managers that are called, and why flatpak is.
LEMMA CalledManagers ==
    ASSUME TypeOK, NEW changes \in SUBSET LateChanges(package_actions)
    PROVE  /\ ManagersOf(changes) \subseteq {native, "flatpak"}
           /\ "flatpak" \in ManagersOf(changes) =>
                 \E p \in Flatpak : package_actions[p] # "none" \/ p \in pkgs_sys
  BY ChangeOf, Managers DEF ManagersOf

-----------------------------------------------------------------------------
(* apply_pkgs *)

\* What the script asks for early does not change during a run.
LEMMA AskedEarlyKept ==
    ASSUME UNCHANGED config
    PROVE  AskedEarly' = AskedEarly
  BY DEF config, AskedEarly, NoActions, RunPhase, IgnoresCall, Manager

\* Why the program ends a run while the packages of m are dealt with.
Explained(m, s, why) ==
    /\ why \in {"none", "unsupported", "not installed"}
    /\ why = "unsupported" => m = "flatpak"
    /\ why = "not installed" =>
          \E p \in NativePkg :
              /\ s[p] = "absent"
              /\ package_actions[p] = "Uninstall" \/ p \in package_maps \cap changed_early

\* How a call to a package manager ends.
Outcome(m, s) ==
    \/ \E next \in {"mark_manual", "mark_unwanted", "remove_unused"} :
          GoOn(m, next) /\ (next # "mark_manual" => m = native)
    \/ Finish(m)
    \/ \E why : Quit(why) /\ Explained(m, s, why)

\* What a call to a package manager must respect: early on, what is explicit and not
\* to be removed; always, that only the last step for the native packages removes.
Respects(m, s) ==
    /\ phase = "early" =>
          \A p \in pkgs_sys :
              sys[p] = "explicit" /\ package_actions[p] # "Uninstall" => s[p] = "explicit"
    /\ \/ \A p \in NativePkg : s[p] = "absent" => sys[p] = "absent"
       \/ m = native /\ Finish(m)

\* A call that does nothing is a transaction as well.
LEMMA NoTransactionIsOne == NoTransaction => Transact(sys)
  BY DEF NoTransaction, Transact, Installed

\* A call to a package manager keeps the types.
LEMMA CallTypes ==
    ASSUME IInv, NEW m \in pending, NEW s \in [Pkg -> Reason], Transact(s), Outcome(m, s),
           UNCHANGED <<config, package_actions, loaded>>, breakdowns' \in 0..MaxBreakdowns
    PROVE  TypeOK'
<1>1. TypeOK
  BY DEF IInv
<1>2. /\ sys' \in [Pkg -> Reason]
      /\ files' \subseteq NativePkg
      /\ changed_early' \subseteq Pkg
  BY <1>1, TransactTypes
<1>3. /\ phase' \in {phase, "failed"}
      /\ pending' \subseteq pending
      /\ blocked' \in {blocked, "none", "unsupported", "not installed"}
      /\ scan' \in {scan, NoScan}
  BY DEF Outcome, GoOn, Finish, Quit, Explained
<1>4. step' \in Step \cup {NoStep} /\ (step' # NoStep => step'.manager \in pending')
  <2>1. CASE \E next \in {"mark_manual", "mark_unwanted", "remove_unused"} : GoOn(m, next)
    <3>1. PICK next \in {"mark_manual", "mark_unwanted", "remove_unused"} :
             step' = [manager |-> m, next |-> next] /\ pending' = pending
      BY <2>1 DEF GoOn
    <3>2. m \in {native, "flatpak"}
      BY <1>1 DEF TypeOK
    <3>. QED  BY <3>1, <3>2 DEF Step
  <2>2. CASE Finish(m) \/ \E why : Quit(why)
    BY <2>2 DEF Finish, Quit
  <2>. QED  BY <2>1, <2>2 DEF Outcome
<1>5. NoScan \in [ state: {"none", "spawned", "walking", "done"}, listed: SUBSET NativePkg,
                   unvisited: SUBSET NativePkg, unexpected: SUBSET NativePkg,
                   missing: SUBSET NativePkg ]
  BY DEF NoScan
<1>. QED  BY <1>1, <1>2, <1>3, <1>4, <1>5 DEF TypeOK, config, loaded, Step, NoStep

\* A call to a package manager keeps the invariant.
LEMMA CallKeeps ==
    ASSUME IInv, NEW m \in pending, NEW s \in [Pkg -> Reason], Transact(s), Outcome(m, s),
           Respects(m, s),
           UNCHANGED <<config, package_actions, loaded>>, breakdowns' \in 0..MaxBreakdowns
    PROVE  IInv'
<1>1. TypeOK /\ phase \in {"early", "late"} /\ blocked = "none"
  BY DEF IInv, StepInv, BlockedPhase
<1>2. TypeOK'
  BY CallTypes
<1>3. /\ sys' = s
      /\ changed_early \subseteq changed_early'
      /\ phase = "early" =>
            \A p \in Pkg : sys[p] # "absent" /\ s[p] = "absent" => p \in changed_early'
  BY <1>1, TransactTypes DEF Transact
<1>4. \/ phase' = phase /\ blocked' = blocked /\ pending' \subseteq pending
      \/ phase' = "failed" /\ pending' = {}
  BY DEF Outcome, GoOn, Finish, Quit
<1>5. EarlyActions'
  BY <1>1, <1>4, AskedEarlyKept DEF EarlyActions, IInv
<1>6. StepInv'
  <2>1. pending' # {} => phase' \in {"early", "late"}
    BY <1>1, <1>4
  <2>2. step' # NoStep /\ step'.next # "mark_manual" => step'.manager = native'
    BY DEF Outcome, GoOn, Finish, Quit, NoStep, config
  <2>. QED  BY <2>1, <2>2 DEF StepInv, NoStep
<1>7. FlatpakInv'
  BY <1>4 DEF FlatpakInv, IInv, loaded
<1>8. AbsentInv'
  <2>1. SUFFICES ASSUME phase' \in {"load", "early", "main"} \/ native' \in pending',
                        NEW p \in NativePkg \cap package_maps, s[p] = "absent"
                 PROVE  p \in changed_early'
    BY <1>3 DEF AbsentInv, loaded
  <2>2. p \in Pkg /\ (sys[p] = "absent" => p \in changed_early)
    BY <1>1, <1>4, <2>1 DEF AbsentInv, IInv, config, Pkg
  <2>3. CASE phase = "early"
    BY <1>3, <2>1, <2>2, <2>3
  <2>4. CASE phase = "late"
    <3>1. ~Finish(native)
      BY <1>1, <1>4, <2>1, <2>4 DEF Finish, config
    <3>2. sys[p] = "absent"
      BY <2>1, <3>1 DEF Respects
    <3>. QED  BY <1>3, <2>2, <3>2
  <2>. QED  BY <1>1, <2>3, <2>4
<1>9. BlockedPhase'
  BY <1>1, <1>4 DEF BlockedPhase
<1>10. NothingLostEarly'
  <2>1. SUFFICES ASSUME phase' = "early", phase = "early", NEW p \in pkgs_sys,
                        AskedEarly[p] # "Uninstall"
                 PROVE  s[p] = "explicit"
    BY <1>1, <1>3, <1>4, AskedEarlyKept DEF NothingLostEarly, loaded
  <2>. QED  BY <2>1 DEF Respects, IInv, NothingLostEarly, EarlyActions
<1>11. BlockedOnlyWhere'
  <2>1. CASE blocked' = "none"
    BY <2>1 DEF BlockedOnlyWhere
  <2>2. CASE blocked' = "unsupported"
    <3>1. m = "flatpak"
      BY <1>1, <2>2 DEF Outcome, GoOn, Finish, Quit, Explained
    <3>. QED  BY <2>2, <3>1 DEF BlockedOnlyWhere, FlatpakInv, IInv, loaded
  <2>3. CASE blocked' = "not installed"
    <3>1. PICK p \in NativePkg :
             /\ s[p] = "absent"
             /\ package_actions[p] = "Uninstall" \/ p \in package_maps \cap changed_early
      BY <1>1, <2>3 DEF Outcome, GoOn, Finish, Quit, Explained
    <3>. QED  BY <1>3, <2>3, <3>1 DEF BlockedOnlyWhere, loaded
  <2>. QED  BY <1>2, <2>1, <2>2, <2>3 DEF TypeOK
<1>. QED  BY <1>2, <1>5, <1>6, <1>7, <1>8, <1>9, <1>10, <1>11 DEF IInv

\* What pacman cannot mark is what the script removes, or was taken away early.
LEMMA Unmarkable ==
    ASSUME TypeOK, AbsentInv, native \in pending,
           NEW p \in Operations(native).mark_as_manual \cup Operations(native).uninstall,
           sys[p] = "absent"
    PROVE  /\ p \in NativePkg
           /\ package_actions[p] = "Uninstall" \/ p \in package_maps \cap changed_early
<1>1. p \in Pkg /\ Manager(p) = native
  BY DEF Operations
<1>2. p \in NativePkg
  BY <1>1, Managers
<1>3. p \in package_maps => p \in changed_early
  BY <1>2 DEF AbsentInv
<1>4. CASE p \in Operations(native).mark_as_manual
  BY <1>2, <1>3, <1>4 DEF Operations
<1>5. CASE p \in Operations(native).uninstall
  <2>1. <<p, "Uninstall">> \in LateChanges(package_actions)
    BY <1>5, EarlyIsLate DEF Operations, Changes
  <2>2. package_actions[p] = "Uninstall" \/ p \in pkgs_sys
    BY <2>1 DEF LateChanges, Scripted, OnlyScripted, OnlyLoaded
  <2>. QED  BY <1>2, <1>3, <2>2 DEF TypeOK
<1>. QED  BY <1>2, <1>4, <1>5

\* Early on, only what the script removes is marked as unwanted.
LEMMA UnwantedEarly ==
    ASSUME phase = "early", NEW m, NEW p \in Operations(m).uninstall
    PROVE  package_actions[p] = "Uninstall"
  BY DEF Operations, Changes, EarlyChanges, Scripted

\* A package manager that the user passes over, or refuses.
LEMMA PassOverKeeps ==
    ASSUME IInv, NEW m \in pending, PassOver(m) \/ Abort(m)
    PROVE  IInv'
<1>1. TypeOK /\ sys \in [Pkg -> Reason]
  BY DEF IInv, TypeOK
<1>2. Transact(sys)
  BY NoTransactionIsOne DEF PassOver, Abort
<1>3. Outcome(m, sys)
  <2>1. CASE PassOver(m)
    BY <2>1 DEF PassOver, Outcome
  <2>2. CASE Abort(m)
    <3>1. Quit("none") /\ Explained(m, sys, "none")
      BY <2>2 DEF Abort, Explained
    <3>. QED  BY <3>1 DEF Outcome
  <2>. QED  BY <2>1, <2>2
<1>4. Respects(m, sys)
  BY DEF Respects
<1>5. /\ UNCHANGED <<config, package_actions, loaded>>
      /\ breakdowns' \in 0..MaxBreakdowns
  BY <1>1 DEF PassOver, Abort, TypeOK
<1>. QED  BY <1>1, <1>2, <1>3, <1>4, <1>5, CallKeeps

\* The installation of a manager's packages.
LEMMA InstallKeeps ==
    ASSUME IInv, NEW m \in pending, Install(m)
    PROVE  IInv'
<1> DEFINE s == InstallAll(sys, Operations(m).install)
<1>1. TypeOK /\ sys \in [Pkg -> Reason] /\ s \in [Pkg -> Reason]
  BY InstallReasons DEF IInv, TypeOK
<1>2. Transact(s) /\ Outcome(m, s)
  BY DEF Install, Outcome
<1>3. Respects(m, s)
  <2>1. /\ \A p \in Pkg : s[p] = "absent" => sys[p] = "absent"
        /\ \A p \in Pkg : sys[p] = "explicit" => s[p] = "explicit"
    BY <1>1, InstallReasons
  <2>2. pkgs_sys \subseteq Pkg /\ NativePkg \subseteq Pkg
    BY <1>1 DEF TypeOK, Pkg
  <2>. HIDE DEF s
  <2>. QED  BY <2>1, <2>2 DEF Respects
<1>4. /\ UNCHANGED <<config, package_actions, loaded>>
      /\ breakdowns' \in 0..MaxBreakdowns
  BY <1>1 DEF Install, TypeOK
<1>. HIDE DEF s
<1>. QED  BY <1>1, <1>2, <1>3, <1>4, CallKeeps

\* Marking as manual.
LEMMA MarkManualKeeps ==
    ASSUME IInv, NEW m \in pending, MarkManual(m)
    PROVE  IInv'
<1> DEFINE pkgs == Operations(m).mark_as_manual
           marked == MarkAll(sys, pkgs, "explicit")
<1>1. /\ TypeOK /\ sys \in [Pkg -> Reason] /\ marked \in [Pkg -> Reason]
      /\ m \in {native, "flatpak"}
  BY MarkReasons DEF IInv, TypeOK
<1>2. /\ UNCHANGED <<config, package_actions, loaded>>
      /\ breakdowns' \in 0..MaxBreakdowns
  BY <1>1 DEF MarkManual, TypeOK
<1>5. /\ \A p \in NativePkg : marked[p] = "absent" <=> sys[p] = "absent"
      /\ \A p \in pkgs_sys : sys[p] = "explicit" => marked[p] = "explicit"
  <2>1. pkgs_sys \subseteq Pkg /\ NativePkg \subseteq Pkg
    BY <1>1 DEF TypeOK, Pkg
  <2>. QED  BY <1>1, <2>1, MarkReasons
<1>3. CASE m = "flatpak"
  <2>1. Quit("unsupported") /\ NoTransaction /\ Explained(m, sys, "unsupported")
    BY <1>3 DEF MarkManual, Explained
  <2>2. Transact(sys) /\ Outcome(m, sys) /\ Respects(m, sys)
    BY <2>1, NoTransactionIsOne DEF Outcome, Respects
  <2>. QED  BY <1>1, <1>2, <2>2, CallKeeps
<1>4. CASE m # "flatpak"
  <2>1. m = native
    BY <1>1, <1>4
  <2>2. Transact(marked)
    BY <1>4 DEF MarkManual
  <2>3. Outcome(m, marked)
    <3>1. CASE MarkFails(sys, pkgs)
      <4>1. PICK p \in pkgs : sys[p] = "absent"
        BY <3>1 DEF MarkFails
      <4>2. /\ p \in NativePkg
            /\ package_actions[p] = "Uninstall" \/ p \in package_maps \cap changed_early
        BY <2>1, <4>1, Unmarkable DEF IInv
      <4>3. marked[p] = "absent"
        BY <1>5, <4>1, <4>2
      <4>4. Quit("not installed")
        BY <1>4, <3>1 DEF MarkManual
      <4>. QED  BY <4>2, <4>3, <4>4 DEF Outcome, Explained
    <3>2. CASE ~MarkFails(sys, pkgs)
      BY <1>4, <2>1, <3>2 DEF MarkManual, Outcome
    <3>. QED  BY <3>1, <3>2
  <2>4. Respects(m, marked)
    BY <1>5 DEF Respects
  <2>. HIDE DEF marked
  <2>. QED  BY <1>1, <1>2, <2>2, <2>3, <2>4, CallKeeps
<1>. QED  BY <1>3, <1>4

\* Marking as a dependency.
LEMMA MarkUnwantedKeeps ==
    ASSUME IInv, NEW m \in pending, MarkUnwanted(m)
    PROVE  IInv'
<1> DEFINE pkgs == Operations(m).uninstall
           marked == MarkAll(sys, pkgs, "dependency")
<1>1. /\ TypeOK /\ sys \in [Pkg -> Reason] /\ marked \in [Pkg -> Reason]
      /\ m = native
  BY MarkReasons DEF IInv, TypeOK, StepInv, MarkUnwanted, At, NoStep
<1>2. /\ UNCHANGED <<config, package_actions, loaded>>
      /\ breakdowns' \in 0..MaxBreakdowns
  BY <1>1 DEF MarkUnwanted, TypeOK
<1>3. Transact(marked)
  BY DEF MarkUnwanted
<1>6. /\ \A p \in NativePkg : marked[p] = "absent" <=> sys[p] = "absent"
      /\ \A p \in pkgs_sys : sys[p] = "explicit" /\ p \notin pkgs => marked[p] = "explicit"
  <2>1. pkgs_sys \subseteq Pkg /\ NativePkg \subseteq Pkg
    BY <1>1 DEF TypeOK, Pkg
  <2>. QED  BY <1>1, <2>1, MarkReasons
<1>4. Outcome(m, marked)
  <2>1. CASE MarkFails(sys, pkgs)
    <3>1. PICK p \in pkgs : sys[p] = "absent"
      BY <2>1 DEF MarkFails
    <3>2. /\ p \in NativePkg
          /\ package_actions[p] = "Uninstall" \/ p \in package_maps \cap changed_early
      BY <1>1, <3>1, Unmarkable DEF IInv
    <3>3. marked[p] = "absent"
      BY <1>6, <3>1, <3>2
    <3>4. Quit("not installed")
      BY <2>1 DEF MarkUnwanted
    <3>. QED  BY <3>2, <3>3, <3>4 DEF Outcome, Explained
  <2>2. CASE ~MarkFails(sys, pkgs)
    BY <1>1, <2>2 DEF MarkUnwanted, Outcome
  <2>. QED  BY <2>1, <2>2
<1>5. Respects(m, marked)
  <2>1. phase = "early" =>
           \A p \in pkgs : package_actions[p] = "Uninstall"
    BY UnwantedEarly
  <2>. QED  BY <1>6, <2>1 DEF Respects
<1>. HIDE DEF marked
<1>. QED  BY <1>1, <1>2, <1>3, <1>4, <1>5, CallKeeps

\* The removal of what nothing requires.
LEMMA RemoveUnwantedKeeps ==
    ASSUME IInv, NEW m \in pending, RemoveUnwanted(m)
    PROVE  IInv'
<1> DEFINE s == RemoveUnused(sys, m)
<1>1. TypeOK /\ sys \in [Pkg -> Reason] /\ s \in [Pkg -> Reason] /\ m = native
  BY RemoveReasons DEF IInv, TypeOK, StepInv, RemoveUnwanted, At, NoStep
<1>2. Transact(s) /\ Outcome(m, s)
  BY DEF RemoveUnwanted, Outcome
<1>3. Respects(m, s)
  <2>1. \A p \in Pkg : sys[p] = "explicit" => s[p] = "explicit"
    BY <1>1, RemoveReasons
  <2>2. pkgs_sys \subseteq Pkg /\ Finish(m)
    BY <1>1 DEF TypeOK, RemoveUnwanted
  <2>. HIDE DEF s
  <2>. QED  BY <1>1, <2>1, <2>2 DEF Respects
<1>4. /\ UNCHANGED <<config, package_actions, loaded>>
      /\ breakdowns' \in 0..MaxBreakdowns
  BY <1>1 DEF RemoveUnwanted, TypeOK
<1>. HIDE DEF s
<1>. QED  BY <1>1, <1>2, <1>3, <1>4, CallKeeps

-----------------------------------------------------------------------------
(* The main thread *)

\* Between two calls to a package manager nothing is under way.
LEMMA NothingPending ==
    ASSUME IInv, pending = {}
    PROVE  step = NoStep
  BY DEF IInv, TypeOK

\* A run that ends for other reasons than its own.
LEMMA QuitKeeps ==
    ASSUME IInv, Quit("none"), files' \subseteq NativePkg, breakdowns' \in 0..MaxBreakdowns,
           UNCHANGED <<config, sys, package_actions, loaded, changed_early>>
    PROVE  IInv'
<1>1. TypeOK'
  BY DEF IInv, TypeOK, Quit, NoScan, NoStep, config, loaded, Step
<1>. QED
  BY <1>1 DEF IInv, Quit, EarlyActions, StepInv, FlatpakInv, AbsentInv, BlockedPhase,
              NothingLostEarly, BlockedOnlyWhere

\* Loading the packages.
LEMMA LoadKeeps ==
    ASSUME IInv, Load
    PROVE  IInv'
<1>1. TypeOK /\ pending = {} /\ step = NoStep
  BY NothingPending DEF Load, Between, IInv, StepInv
<1>2. package_actions' \in [Pkg -> Op]
  <2>1. NoActions \in [Pkg -> Op]
    BY DEF NoActions, Op
  <2>2. package_actions' = RunPhase(NoActions, script.script_dependencies)
    BY DEF Load
  <2>. QED  BY <2>1, <2>2, ActionTypes
<1>3. TypeOK'
  BY <1>1, <1>2 DEF TypeOK, Load, Installed, Explicit, NoScan, NoStep, config, Step
<1>4. EarlyActions'
  BY AskedEarlyKept DEF Load, EarlyActions, AskedEarly
<1>5. AbsentInv' /\ NothingLostEarly'
  BY DEF AbsentInv, NothingLostEarly, Load, Installed, Explicit
<1>. QED
  BY <1>1, <1>3, <1>4, <1>5
     DEF IInv, Load, StepInv, FlatpakInv, BlockedPhase, BlockedOnlyWhere

\* The step to the early packages.
LEMMA ApplyEarlyPackagesKeeps ==
    ASSUME IInv, ApplyEarlyPackages
    PROVE  IInv'
<1>1. TypeOK /\ pending = {} /\ step = NoStep
  BY NothingPending DEF ApplyEarlyPackages, IInv, StepInv
<1>2. /\ pending' \subseteq {native, "flatpak"}
      /\ "flatpak" \in pending' =>
            \E p \in Flatpak : package_actions[p] # "none" \/ p \in pkgs_sys
  BY <1>1, CalledManagers, EarlyIsLate DEF ApplyEarlyPackages
<1>3. TypeOK'
  BY <1>1, <1>2 DEF TypeOK, ApplyEarlyPackages, NoStep, config, loaded, Step
<1>4. EarlyActions' /\ NothingLostEarly'
  BY AskedEarlyKept
     DEF IInv, ApplyEarlyPackages, EarlyActions, NothingLostEarly, config, loaded
<1>. QED
  BY <1>1, <1>2, <1>3, <1>4
     DEF IInv, ApplyEarlyPackages, StepInv, FlatpakInv, AbsentInv, BlockedPhase,
         BlockedOnlyWhere, config, loaded

\* The script's main phase.
LEMMA RunMainPhaseKeeps ==
    ASSUME IInv, RunMainPhase
    PROVE  IInv'
<1>1. TypeOK /\ pending = {} /\ step = NoStep /\ blocked = "none"
  BY NothingPending DEF RunMainPhase, IInv, BlockedPhase
<1>2. package_actions' \in [Pkg -> Op]
  BY <1>1, ActionTypes DEF RunMainPhase, TypeOK
<1>3. TypeOK'
  BY <1>1, <1>2 DEF TypeOK, RunMainPhase, NoStep, config, loaded, Step
<1>4. NothingLostEarly'
  BY AskedEarlyKept DEF IInv, RunMainPhase, NothingLostEarly, loaded
<1>. QED
  BY <1>1, <1>3, <1>4
     DEF IInv, RunMainPhase, EarlyActions, StepInv, FlatpakInv, AbsentInv, BlockedPhase,
         BlockedOnlyWhere, config, loaded

\* The step to the packages.
LEMMA ApplyPackagesKeeps ==
    ASSUME IInv, ApplyPackages
    PROVE  IInv'
<1>1. TypeOK /\ pending = {} /\ step = NoStep
  BY NothingPending DEF ApplyPackages, IInv, StepInv
<1>2. /\ pending' \subseteq {native, "flatpak"}
      /\ "flatpak" \in pending' =>
            \E p \in Flatpak : package_actions[p] # "none" \/ p \in pkgs_sys
  BY <1>1, CalledManagers DEF ApplyPackages
<1>3. TypeOK'
  BY <1>1, <1>2 DEF TypeOK, ApplyPackages, NoStep, config, loaded, Step
<1>. QED
  BY <1>1, <1>2, <1>3
     DEF IInv, ApplyPackages, EarlyActions, NothingLostEarly, StepInv, FlatpakInv, AbsentInv,
         BlockedPhase, BlockedOnlyWhere, config, loaded

\* The step to the files.
LEMMA ApplyFileChangesKeeps ==
    ASSUME IInv, ApplyFileChanges
    PROVE  IInv'
<1>1. TypeOK /\ pending = {} /\ step = NoStep /\ blocked = "none"
  BY NothingPending DEF ApplyFileChanges, IInv, BlockedPhase
<1>2. files' \subseteq NativePkg
  <2>1. files \subseteq NativePkg /\ scan.missing \subseteq NativePkg
    BY <1>1 DEF TypeOK
  <2>. QED  BY <2>1 DEF ApplyFileChanges
<1>3. TypeOK'
  BY <1>1, <1>2 DEF TypeOK, ApplyFileChanges, NoStep, config, loaded, Step
<1>. QED
  BY <1>1, <1>3
     DEF IInv, ApplyFileChanges, EarlyActions, NothingLostEarly, StepInv, FlatpakInv, AbsentInv,
         BlockedPhase, BlockedOnlyWhere, config, loaded

\* A failure anywhere.
LEMMA BreakDownKeeps ==
    ASSUME IInv, BreakDown
    PROVE  IInv'
<1>1. TypeOK /\ sys \in [Pkg -> Reason] /\ files \subseteq NativePkg
  BY DEF IInv, TypeOK
<1>2. /\ Quit("none")
      /\ UNCHANGED <<config, package_actions, loaded>>
      /\ breakdowns' \in 0..MaxBreakdowns
  <2>1. breakdowns \in 0..MaxBreakdowns /\ breakdowns < MaxBreakdowns
    BY <1>1 DEF TypeOK, BreakDown
  <2>2. breakdowns' = breakdowns + 1
    BY DEF BreakDown
  <2>3. breakdowns' \in 0..MaxBreakdowns
    BY <2>1, <2>2, PackagesAssumption
  <2>. QED  BY <2>3 DEF BreakDown
<1>3. CASE NoTransaction
  BY <1>1, <1>2, <1>3, QuitKeeps DEF NoTransaction
<1>4. CASE \E m \in pending : Transact(InstallAll(sys, Operations(m).install))
  <2>1. PICK m \in pending : Transact(InstallAll(sys, Operations(m).install))
    BY <1>4
  <2> DEFINE s == InstallAll(sys, Operations(m).install)
  <2>2. /\ s \in [Pkg -> Reason]
        /\ \A p \in Pkg : s[p] = "absent" => sys[p] = "absent"
        /\ \A p \in Pkg : sys[p] = "explicit" => s[p] = "explicit"
    BY <1>1, InstallReasons
  <2>3. pkgs_sys \subseteq Pkg /\ NativePkg \subseteq Pkg
    BY <1>1 DEF TypeOK, Pkg
  <2>4. Transact(s)
    BY <2>1
  <2>. HIDE DEF s
  <2>5. Respects(m, s)
    BY <2>2, <2>3 DEF Respects
  <2>6. Outcome(m, s)
    <3>1. Explained(m, s, "none")
      BY DEF Explained
    <3>. QED  BY <1>2, <3>1 DEF Outcome
  <2>. QED  BY <1>2, <2>2, <2>4, <2>5, <2>6, CallKeeps
<1>5. CASE /\ \E U \in SUBSET scan.unexpected, M \in SUBSET scan.missing :
                 files' = (files \ U) \cup M
           /\ UNCHANGED <<sys, changed_early>>
  <2>1. scan.missing \subseteq NativePkg
    BY <1>1 DEF TypeOK
  <2>2. files' \subseteq NativePkg
    BY <1>1, <1>5, <2>1
  <2>. QED  BY <1>2, <1>5, <2>2, QuitKeeps
<1>. QED  BY <1>3, <1>4, <1>5 DEF BreakDown

-----------------------------------------------------------------------------
(* The theorems *)

\* The scan changes nothing but itself.
LEMMA ScannerKeeps ==
    ASSUME IInv, Scanner
    PROVE  IInv'
<1>1. TypeOK
  BY DEF IInv
<1>2. ScanOnly
  BY DEF Scanner, ListFiles, FinishScan, Visit
<1>3. scan' \in [ state: {"none", "spawned", "walking", "done"}, listed: SUBSET NativePkg,
                  unvisited: SUBSET NativePkg, unexpected: SUBSET NativePkg,
                  missing: SUBSET NativePkg ]
  <2>1. CASE ListFiles
    <3>1. Listing \subseteq NativePkg
      BY DEF Listing
    <3>. QED  BY <1>1, <2>1, <3>1 DEF TypeOK, ListFiles
  <2>2. CASE FinishScan
    BY <1>1, <2>2 DEF TypeOK, FinishScan
  <2>3. CASE \E p \in NativePkg : Visit(p)
    <3>1. PICK p \in NativePkg : Visit(p)
      BY <2>3
    <3>2. scan \in [ state: {"none", "spawned", "walking", "done"}, listed: SUBSET NativePkg,
                     unvisited: SUBSET NativePkg, unexpected: SUBSET NativePkg,
                     missing: SUBSET NativePkg ]
      BY <1>1 DEF TypeOK
    <3> DEFINE unexpected == IF p \in files \ scan.listed
                             THEN scan.unexpected \cup {p} ELSE scan.unexpected
               missing == IF p \in scan.listed \ files
                          THEN scan.missing \cup {p} ELSE scan.missing
    <3>3. /\ scan.unvisited \ {p} \in SUBSET NativePkg
          /\ unexpected \in SUBSET NativePkg /\ missing \in SUBSET NativePkg
      BY <3>2
    <3>4. scan' = [scan EXCEPT !.unvisited = @ \ {p}, !.unexpected = unexpected,
                               !.missing = missing]
      BY <3>1 DEF Visit
    <3>. HIDE DEF unexpected, missing
    <3>. QED  BY <3>2, <3>3, <3>4
  <2>. QED  BY <2>1, <2>2, <2>3 DEF Scanner
<1>4. TypeOK'
  BY <1>1, <1>2, <1>3 DEF TypeOK, ScanOnly, config, loaded, Step, NoStep
<1>5. AskedEarly' = AskedEarly
  BY <1>2, AskedEarlyKept DEF ScanOnly
<1>. QED
  BY <1>2, <1>4, <1>5
     DEF IInv, ScanOnly, EarlyActions, StepInv, FlatpakInv, AbsentInv, BlockedPhase,
         NothingLostEarly, BlockedOnlyWhere, config, loaded

\* The first state satisfies the invariant.
LEMMA InitHolds == Init => IInv
<1> SUFFICES ASSUME Init PROVE IInv
  OBVIOUS
<1>1. NoActions \in [Pkg -> Op] /\ sys \in [Pkg -> Reason]
  BY PackagesAssumption DEF NoActions, Op, Init
<1>2. MaxBreakdowns \in Nat
  BY PackagesAssumption
<1>3. TypeOK
  BY <1>1, <1>2 DEF Init, TypeOK, NoStep, NoScan, Installed
<1>. QED
  BY <1>3 DEF IInv, Init, EarlyActions, StepInv, FlatpakInv, AbsentInv, BlockedPhase,
              NothingLostEarly, BlockedOnlyWhere

\* Every step preserves it.
LEMMA NextKeeps == IInv /\ [Next]_vars => IInv'
<1> SUFFICES ASSUME IInv, [Next]_vars PROVE IInv'
  OBVIOUS
<1>1. CASE MainThread
  BY <1>1, LoadKeeps, ApplyEarlyPackagesKeeps, RunMainPhaseKeeps, ApplyPackagesKeeps,
     ApplyFileChangesKeeps, BreakDownKeeps, PassOverKeeps, InstallKeeps, MarkManualKeeps,
     MarkUnwantedKeeps, RemoveUnwantedKeeps
     DEF MainThread
<1>2. CASE Scanner
  BY <1>2, ScannerKeeps
<1>3. CASE UNCHANGED vars
  <2>1. AskedEarly' = AskedEarly
    BY <1>3, AskedEarlyKept DEF vars
  <2>2. TypeOK'
    BY <1>3, ZenonT(40) DEF vars, IInv, TypeOK, config, loaded, Step, NoStep
  <2>. QED
    BY <1>3, <2>1, <2>2
       DEF vars, IInv, EarlyActions, StepInv, FlatpakInv, AbsentInv, BlockedPhase,
           NothingLostEarly, BlockedOnlyWhere, config, loaded
<1>. QED  BY <1>1, <1>2, <1>3 DEF Next

\* In every state of every behaviour the inductive invariant holds.
THEOREM Invariant == Spec => []IInv
<1>. QED  BY InitHolds, NextKeeps, PTL DEF Spec

\* Whatever the script, the installed packages, the answers of the user and the
\* failures: the variables of the pipeline of run_main have their types.
THEOREM TypeCorrect == Spec => []TypeOK
<1>1. IInv => TypeOK
  BY DEF IInv
<1>. QED  BY <1>1, Invariant, PTL

\* Until the script's main phase was heard, no package that was installed explicitly
\* is taken away or becomes removable, unless the script's early phase asked for it:
\* apply_early_packages never acts on what the script has not said yet.
THEOREM EarlySafe == Spec => []NothingLostEarly
<1>1. IInv => NothingLostEarly
  BY DEF IInv
<1>. QED  BY <1>1, Invariant, PTL

\* apply ends a run itself only where flatpak has something to do, or where a package
\* that the script removes, or that the early packages took away, is not installed.
THEOREM BlockedExplained == Spec => []BlockedOnlyWhere
<1>1. IInv => BlockedOnlyWhere
  BY DEF IInv
<1>. QED  BY <1>1, Invariant, PTL

-----------------------------------------------------------------------------
(* The scan *)

EarlyPhase == phase \in {"load", "early", "main"}

ScanPhase ==
    /\ phase = "late" => scan.state = "done"
    /\ scan.state \in {"spawned", "walking"} => EarlyPhase
    /\ scan.state \in {"none", "spawned"} => scan.unexpected = {} /\ scan.missing = {}
    /\ scan.state = "done" => scan.unvisited = {}

AsLoaded(p) == p \in package_maps <=> sys[p] # "absent"

Follows(p) == p \in files <=> sys[p] # "absent"

Noted(p) ==
    /\ p \in scan.unexpected <=> p \in files \ package_maps
    /\ p \in scan.missing <=> p \in package_maps \ files

FileInv(p) ==
    /\ p \in scan.unexpected => p \notin package_maps
    /\ p \in scan.missing => p \in package_maps
    /\ EarlyPhase => AsLoaded(p)
    /\ scan.state = "walking" =>
          /\ p \in scan.listed <=> p \in package_maps
          /\ p \in scan.unvisited => p \notin scan.unexpected \cup scan.missing
    /\ EarlyPhase /\ scan.state \in {"walking", "done"} /\ p \notin scan.unvisited => Noted(p)
    /\ phase = "late" => Follows(p) \/ (AsLoaded(p) /\ Noted(p))

ScanInv ==
    /\ ScanPhase
    /\ \A p \in NativePkg \ changed_early : FileInv(p)
    /\ FilesFollowUnlessChanged

-----------------------------------------------------------------------------
(* Transactions *)

\* What a transaction does to a package that the early packages leave alone.
LEMMA TransactOn ==
    ASSUME TypeOK, NEW s \in [Pkg -> Reason], Transact(s), NEW p \in NativePkg \ changed_early'
    PROVE  /\ p \notin changed_early
           /\ \/ (sys'[p] # "absent" <=> sys[p] # "absent") /\ (p \in files' <=> p \in files)
              \/ phase # "early" /\ (p \in files' <=> sys'[p] # "absent")
<1>1. p \in Pkg /\ sys' = s /\ files \subseteq NativePkg
  BY DEF Pkg, Transact, TypeOK
<1>. DEFINE arrived == Installed(s) \ Installed(sys)
            gone    == Installed(sys) \ Installed(s)
<1>2. /\ p \in arrived <=> s[p] # "absent" /\ sys[p] = "absent"
      /\ p \in gone <=> s[p] = "absent" /\ sys[p] # "absent"
  BY <1>1 DEF Installed
<1>3. p \in files' <=> (p \in files \/ p \in arrived) /\ p \notin gone
  BY <1>1 DEF Transact
<1>4. p \notin changed_early /\ (phase = "early" => p \notin arrived \cup gone)
  BY DEF Transact
<1>. QED  BY <1>1, <1>2, <1>3, <1>4

\* A transaction, in either phase, after which the run goes on.
LEMMA TransactScans ==
    ASSUME TypeOK, ScanInv, NEW s \in [Pkg -> Reason], Transact(s),
           phase \in {"early", "late"}, UNCHANGED <<phase, scan, package_maps>>
    PROVE  ScanInv'
<1>1. ScanPhase' /\ FilesFollowUnlessChanged'
  BY DEF ScanInv, ScanPhase, EarlyPhase, FilesFollowUnlessChanged
<1>2. ASSUME NEW p \in NativePkg \ changed_early' PROVE FileInv(p)'
  <2>1. /\ p \notin changed_early
        /\ \/ (sys'[p] # "absent" <=> sys[p] # "absent") /\ (p \in files' <=> p \in files)
           \/ phase # "early" /\ (p \in files' <=> sys'[p] # "absent")
    BY TransactOn
  <2>2. FileInv(p)
    BY <2>1 DEF ScanInv
  <2>3. CASE (sys'[p] # "absent" <=> sys[p] # "absent") /\ (p \in files' <=> p \in files)
    BY <2>2, <2>3 DEF FileInv, EarlyPhase, AsLoaded, Noted, Follows
  <2>4. CASE phase = "late" /\ (p \in files' <=> sys'[p] # "absent")
    <3>1. scan.state = "done"
      BY <2>4 DEF ScanInv, ScanPhase
    <3>. QED  BY <2>2, <2>4, <3>1 DEF FileInv, EarlyPhase, Follows
  <2>. QED  BY <2>1, <2>3, <2>4
<1>. QED  BY <1>1, <1>2 DEF ScanInv

\* A run that ends early, whatever its last call did, leaves no scan behind.
LEMMA QuitScans ==
    ASSUME NEW why, Quit(why)
    PROVE  ScanInv'
  BY DEF Quit, NoScan, ScanInv, ScanPhase, EarlyPhase, FileInv, FilesFollowUnlessChanged

\* A step of apply_pkgs.
LEMMA CallScans ==
    ASSUME IInv, ScanInv, NEW m \in pending,
           PassOver(m) \/ Abort(m) \/ Install(m) \/ MarkManual(m) \/ MarkUnwanted(m) \/ RemoveUnwanted(m)
    PROVE  ScanInv'
<1>1. TypeOK /\ phase \in {"early", "late"} /\ sys \in [Pkg -> Reason]
  BY DEF IInv, TypeOK, StepInv
<1>2. CASE \E why : Quit(why)
  BY <1>2, QuitScans
<1>3. CASE ~\E why : Quit(why)
  <2>1. UNCHANGED <<phase, scan, package_maps>>
    BY <1>3 DEF PassOver, Abort, Install, MarkManual, MarkUnwanted, RemoveUnwanted, GoOn, Finish, loaded
  <2>2. \E s \in [Pkg -> Reason] : Transact(s)
    <3>1. CASE PassOver(m) \/ Abort(m)
      BY <1>1, <3>1, NoTransactionIsOne DEF PassOver, Abort
    <3>2. CASE Install(m)
      BY <1>1, <3>2, InstallReasons DEF Install
    <3>3. CASE MarkManual(m)
      BY <1>1, <1>3, <3>3, MarkReasons DEF MarkManual
    <3>4. CASE MarkUnwanted(m)
      BY <1>1, <3>4, MarkReasons DEF MarkUnwanted
    <3>5. CASE RemoveUnwanted(m)
      BY <1>1, <3>5, RemoveReasons DEF RemoveUnwanted
    <3>. QED  BY <3>1, <3>2, <3>3, <3>4, <3>5
  <2>. QED  BY <1>1, <2>1, <2>2, TransactScans
<1>. QED  BY <1>2, <1>3

-----------------------------------------------------------------------------
(* The other steps *)

\* Loading starts the run and its scan.
LEMMA LoadScans ==
    ASSUME Load
    PROVE  ScanInv'
<1>1. /\ scan' = [NoScan EXCEPT !.state = "spawned"] /\ phase' = "load"
      /\ sys' = sys /\ package_maps' = Installed(sys)
  BY DEF Load
<1>2. scan'.state = "spawned" /\ scan'.unexpected = {} /\ scan'.missing = {}
  BY <1>1 DEF NoScan
<1>3. ScanPhase' /\ FilesFollowUnlessChanged'
  BY <1>1, <1>2 DEF ScanPhase, EarlyPhase, FilesFollowUnlessChanged
<1>4. \A p \in NativePkg : AsLoaded(p)'
  BY <1>1 DEF AsLoaded, Installed, Pkg
<1>. QED  BY <1>1, <1>2, <1>3, <1>4 DEF ScanInv, FileInv, EarlyPhase

\* The phases go on while packages and files stay as they are.
LEMMA PhaseScans ==
    ASSUME ScanInv, ApplyEarlyPackages \/ RunMainPhase \/ ApplyPackages
    PROVE  ScanInv'
<1>1. /\ UNCHANGED <<sys, files, scan, changed_early, package_maps>>
      /\ EarlyPhase
      /\ phase' \in {"early", "main"} \/ (phase' = "late" /\ scan.state = "done")
  BY DEF ApplyEarlyPackages, RunMainPhase, ApplyPackages, loaded, EarlyPhase
<1>2. ScanPhase' /\ FilesFollowUnlessChanged'
  BY <1>1 DEF ScanInv, ScanPhase, EarlyPhase, FilesFollowUnlessChanged
<1>3. ASSUME NEW p \in NativePkg \ changed_early PROVE FileInv(p)'
  <2>1. FileInv(p) /\ AsLoaded(p)
    BY <1>1 DEF ScanInv, FileInv
  <2>2. scan.state = "done" => Noted(p)
    BY <1>1, <2>1 DEF ScanInv, ScanPhase, FileInv
  <2>3. /\ AsLoaded(p)' <=> AsLoaded(p)
        /\ Noted(p)' <=> Noted(p)
    BY <1>1 DEF AsLoaded, Noted
  <2>. QED  BY <1>1, <2>1, <2>2, <2>3 DEF FileInv, EarlyPhase
<1>. QED  BY <1>1, <1>2, <1>3 DEF ScanInv

\* The file changes end the run; what the scan found was true.
LEMMA ApplyFileChangesScans ==
    ASSUME IInv, ScanInv, ApplyFileChanges
    PROVE  ScanInv'
<1>1. /\ UNCHANGED <<sys, scan, changed_early, package_maps, paranoia>>
      /\ phase = "late" /\ phase' = "done" /\ scan.state = "done"
  BY DEF ApplyFileChanges, loaded, config, ScanInv, ScanPhase
<1>2. ScanPhase'
  BY <1>1 DEF ScanInv, ScanPhase
<1>3. ASSUME NEW p \in NativePkg \ changed_early PROVE FileInv(p)'
  BY <1>1 DEF ScanInv, FileInv, EarlyPhase
<1>4. ASSUME paranoia = "yolo", NEW p \in NativePkg \ changed_early
      PROVE  \/ Follows(p)'
             \/ p \in scan.missing /\ sys[p] = "absent"
             \/ p \in scan.unexpected \ package_maps /\ sys[p] # "absent"
  <2>1. FileInv(p) /\ (Follows(p) \/ (AsLoaded(p) /\ Noted(p)))
    BY <1>1 DEF ScanInv, FileInv
  <2>2. p \in files' <=> (p \in files /\ p \notin scan.unexpected) \/ p \in scan.missing
    BY <1>4 DEF ApplyFileChanges
  <2>3. CASE Follows(p)
    BY <1>1, <2>1, <2>2, <2>3 DEF Follows, FileInv
  <2>4. CASE AsLoaded(p) /\ Noted(p)
    BY <1>1, <2>2, <2>4 DEF Follows, AsLoaded, Noted
  <2>. QED  BY <2>1, <2>3, <2>4
<1>5. FilesFollowUnlessChanged'
  BY <1>1, <1>4 DEF FilesFollowUnlessChanged, Follows
<1>. QED  BY <1>1, <1>2, <1>3, <1>5 DEF ScanInv

\* The scan notes what it sees, when it sees it.
LEMMA ScannerScans ==
    ASSUME IInv, ScanInv, Scanner
    PROVE  ScanInv'
<1>1. UNCHANGED <<native, sys, files, phase, package_maps, changed_early, paranoia>>
  BY DEF Scanner, ListFiles, FinishScan, Visit, ScanOnly, config, loaded
<1>2. /\ scan \in [ state: {"none", "spawned", "walking", "done"}, listed: SUBSET NativePkg,
                    unvisited: SUBSET NativePkg, unexpected: SUBSET NativePkg,
                    missing: SUBSET NativePkg ]
      /\ scan.state \in {"spawned", "walking"} /\ EarlyPhase
  BY DEF IInv, TypeOK, ScanInv, ScanPhase, Scanner, ListFiles, FinishScan, Visit
<1>3. EarlyPhase' /\ FilesFollowUnlessChanged'
  BY <1>1, <1>2 DEF EarlyPhase, FilesFollowUnlessChanged
<1>4. \A p \in NativePkg : AsLoaded(p)' <=> AsLoaded(p)
  BY <1>1 DEF AsLoaded
<1>5. CASE ListFiles
  <2>1. /\ scan'.state = "walking" /\ scan'.listed = Listing /\ scan'.unvisited = NativePkg
        /\ scan'.unexpected = {} /\ scan'.missing = {}
    BY <1>2, <1>5 DEF ListFiles, ScanInv, ScanPhase
  <2>2. ASSUME NEW p \in NativePkg \ changed_early PROVE FileInv(p)'
    <3>1. AsLoaded(p)
      BY <1>2 DEF ScanInv, FileInv
    <3>2. p \in Listing <=> p \in package_maps
      BY <3>1 DEF AsLoaded, Listing, Installed, Pkg
    <3>. QED  BY <1>1, <1>2, <1>4, <2>1, <3>1, <3>2 DEF FileInv, EarlyPhase
  <2>3. ScanPhase'
    BY <1>1, <1>2, <1>3, <2>1 DEF ScanPhase, EarlyPhase
  <2>. QED  BY <1>1, <1>3, <2>2, <2>3 DEF ScanInv
<1>6. CASE FinishScan
  <2>1. /\ scan.state = "walking" /\ scan.unvisited = {} /\ scan'.state = "done"
        /\ scan'.unvisited = {}
        /\ scan'.unexpected = scan.unexpected /\ scan'.missing = scan.missing
    BY <1>2, <1>6 DEF FinishScan
  <2>2. ASSUME NEW p \in NativePkg \ changed_early PROVE FileInv(p)'
    <3>1. FileInv(p) /\ Noted(p) /\ AsLoaded(p)
      BY <1>2, <2>1 DEF ScanInv, FileInv
    <3>. QED  BY <1>1, <1>2, <1>4, <2>1, <3>1 DEF FileInv, Noted, EarlyPhase
  <2>3. ScanPhase'
    BY <1>1, <1>2, <1>3, <2>1 DEF ScanPhase, EarlyPhase
  <2>. QED  BY <1>1, <1>3, <2>2, <2>3 DEF ScanInv
<1>7. ASSUME NEW p \in NativePkg, Visit(p) PROVE ScanInv'
  <2>1. /\ scan.state = "walking" /\ p \in scan.unvisited
        /\ scan'.state = "walking" /\ scan'.listed = scan.listed
        /\ scan'.unvisited = scan.unvisited \ {p}
    BY <1>2, <1>7 DEF Visit
  <2>2. /\ scan'.unexpected = IF p \in files \ scan.listed
                              THEN scan.unexpected \cup {p} ELSE scan.unexpected
        /\ scan'.missing = IF p \in scan.listed \ files
                           THEN scan.missing \cup {p} ELSE scan.missing
    BY <1>2, <1>7 DEF Visit
  <2>3. ASSUME NEW q \in NativePkg \ changed_early PROVE FileInv(q)'
    <3>1. FileInv(q)
      BY DEF ScanInv
    <3>2. CASE q = p
      <4>1. /\ p \notin scan.unexpected \cup scan.missing
            /\ p \in scan.listed <=> p \in package_maps
        BY <2>1, <3>1, <3>2 DEF FileInv
      <4>2. Noted(p)'
        BY <1>1, <2>2, <4>1 DEF Noted
      <4>. QED  BY <1>1, <1>2, <1>4, <2>1, <3>1, <3>2, <4>1, <4>2 DEF FileInv, EarlyPhase, Noted
    <3>3. CASE q # p
      <4>1. /\ q \in scan'.unexpected <=> q \in scan.unexpected
            /\ q \in scan'.missing <=> q \in scan.missing
        BY <2>2, <3>3
      <4>. QED  BY <1>1, <1>2, <1>4, <2>1, <3>1, <3>3, <4>1 DEF FileInv, EarlyPhase, Noted
    <3>. QED  BY <3>2, <3>3
  <2>4. ScanPhase'
    BY <1>1, <1>2, <1>3, <2>1 DEF ScanPhase, EarlyPhase
  <2>. QED  BY <1>1, <1>3, <2>3, <2>4 DEF ScanInv
<1>. QED  BY <1>5, <1>6, <1>7 DEF Scanner

\* The first state satisfies the invariant.
LEMMA InitScans ==
    ASSUME Init
    PROVE  ScanInv
  BY DEF Init, NoScan, ScanInv, ScanPhase, EarlyPhase, FileInv, FilesFollowUnlessChanged

\* Every step preserves it.
LEMMA NextScans ==
    ASSUME IInv, ScanInv, [Next]_vars
    PROVE  ScanInv'
<1>1. CASE Load
  BY <1>1, LoadScans
<1>2. CASE ApplyEarlyPackages \/ RunMainPhase \/ ApplyPackages
  BY <1>2, PhaseScans
<1>3. CASE ApplyFileChanges
  BY <1>3, ApplyFileChangesScans
<1>4. CASE \E m \in pending :
              \/ PassOver(m) \/ Abort(m)
              \/ Install(m) \/ MarkManual(m) \/ MarkUnwanted(m) \/ RemoveUnwanted(m)
  BY <1>4, CallScans
<1>5. CASE BreakDown
  BY <1>5, QuitScans DEF BreakDown
<1>6. CASE Scanner
  BY <1>6, ScannerScans
<1>7. CASE UNCHANGED vars
  BY <1>7 DEF vars, config, loaded, ScanInv, ScanPhase, EarlyPhase, FileInv, AsLoaded, Noted, Follows,
              FilesFollowUnlessChanged
<1>. QED  BY <1>1, <1>2, <1>3, <1>4, <1>5, <1>6, <1>7 DEF Next, MainThread

\* run_main with its scan in the background: in whatever order the two threads went
\* on, whatever earlier runs left behind, a run that succeeds leaves the file of
\* every package the early packages did not touch as the package has it, but for
\* files that were wrong before of packages that are then installed or removed.
THEOREM FilesFollow == Spec => []FilesFollowUnlessChanged
<1>1. Init => ScanInv
  BY InitScans
<1>2. IInv /\ ScanInv /\ [Next]_vars => ScanInv'
  BY NextScans
<1>3. ScanInv => FilesFollowUnlessChanged
  BY DEF ScanInv
<1>. QED  BY <1>1, <1>2, <1>3, Invariant, PTL DEF Spec

-----------------------------------------------------------------------------
(* The goal *)

\* What is explicit, or of the distribution, has all it requires.  (A dependency of
\* flatpak's may lose what only it requires to the other package manager.)
Complete(s) ==
    \A p \in Pkg :
        s[p] = "explicit" \/ (p \in NativePkg /\ s[p] # "absent") => Requires[p] \subseteq Installed(s)

AllActions == phase \in {"main", "late"} => package_actions = AskedInAll

Asked(p) == sys[p] = "explicit" => p \in pkgs_sys \/ package_actions[p] # "none"

Arrived(p) == p \notin package_maps /\ sys[p] # "absent" => p \in changed_early

Wanted(p) == package_actions[p] = "Install"

AsWanted(p) ==
    Wanted(p) /\ sys[p] # "explicit" =>
        IF p \in pkgs_sys THEN AskedEarly[p] = "Uninstall" ELSE p \in changed_early

Settled(p) == AsWanted(p) /\ (sys[p] = "explicit" => Wanted(p))

\* How far the late transactions have come with a package.
Settling(p) ==
    /\ p \in pkgs_sys => AsWanted(p)
    /\ Manager(p) \notin pending => Settled(p)
    /\ p \in NativePkg =>
          /\ step = NoStep /\ native \in pending => Arrived(p)
          /\ At(native, "mark_manual") /\ p \notin package_maps => AsWanted(p)
          /\ At(native, "mark_unwanted") => AsWanted(p)
          /\ At(native, "remove_unused") => Settled(p)

GoalInv ==
    /\ AllActions
    /\ Complete(sys)
    /\ phase \in {"load", "early", "main", "late"} => \A p \in Pkg : Asked(p)
    /\ phase \in {"load", "early", "main"} => \A p \in Pkg : Arrived(p)
    /\ phase = "late" /\ paranoia = "yolo" => \A p \in Pkg : Settling(p)
    /\ SuccessMeansWanted

-----------------------------------------------------------------------------
(* Completeness *)

\* What is installed brings all it requires.
LEMMA InstallCompletes ==
    ASSUME NEW s \in [Pkg -> Reason], NEW pkgs \in SUBSET Pkg, Complete(s)
    PROVE  Complete(InstallAll(s, pkgs))
<1> DEFINE t == InstallAll(s, pkgs)
<1>1. SUFFICES ASSUME NEW p \in Pkg, t[p] = "explicit" \/ (p \in NativePkg /\ t[p] # "absent"),
                      NEW q \in Requires[p]
               PROVE  t[q] # "absent" /\ q \in Pkg
  BY DEF Complete, Installed
<1>2. q \in Pkg /\ Requires[p] \in SUBSET Pkg
  BY <1>1, PackagesAssumption
<1>3. /\ \A r \in Pkg : s[r] # "absent" => t[r] # "absent"
      /\ \A r \in Pkg : t[r] # "absent" => \/ r \in pkgs
                                          \/ t[r] = s[r]
                                          \/ \E x \in pkgs : r \in Requires[x]
      /\ \A x \in pkgs : \A r \in Requires[x] : r \in Pkg => t[r] # "absent"
  BY DEF InstallAll, Reason
<1>4. CASE p \in pkgs
  BY <1>1, <1>2, <1>3, <1>4
<1>5. CASE t[p] = s[p]
  BY <1>1, <1>2, <1>3, <1>5 DEF Complete, Installed
<1>6. CASE \E x \in pkgs : p \in Requires[x]
  <2>1. PICK x \in pkgs : p \in Requires[x]
    BY <1>6
  <2>2. q \in Requires[x]
    BY <1>1, <2>1, PackagesAssumption
  <2>. QED  BY <1>2, <1>3, <2>1, <2>2
<1>7. t[p] # "absent"
  BY <1>1
<1>. QED  BY <1>1, <1>3, <1>4, <1>5, <1>6, <1>7

\* Marks add and remove nothing, and only native packages are marked.
LEMMA MarkCompletes ==
    ASSUME NEW s \in [Pkg -> Reason], NEW pkgs \in SUBSET NativePkg, Complete(s),
           NEW r \in {"dependency", "explicit"}
    PROVE  Complete(MarkAll(s, pkgs, r))
<1> DEFINE t == MarkAll(s, pkgs, r)
<1>1. /\ \A p \in Pkg : t[p] = "absent" <=> s[p] = "absent"
      /\ \A p \in Pkg \ NativePkg : t[p] = s[p]
  BY DEF MarkAll, Reason
<1>2. Installed(t) = Installed(s)
  BY <1>1 DEF Installed
<1>. QED  BY <1>1, <1>2 DEF Complete

\* What is removed is required by nothing that stays.
LEMMA RemoveCompletes ==
    ASSUME TypeOK, NEW s \in [Pkg -> Reason], Complete(s)
    PROVE  Complete(RemoveUnused(s, native))
<1> DEFINE t == RemoveUnused(s, native)
<1>1. SUFFICES ASSUME NEW p \in Pkg, t[p] = "explicit" \/ (p \in NativePkg /\ t[p] # "absent"),
                      NEW q \in Requires[p]
               PROVE  t[q] # "absent" /\ q \in Pkg
  BY DEF Complete, Installed
<1>2. q \in Pkg /\ t[p] = s[p] /\ t[p] # "absent"
  BY <1>1, PackagesAssumption DEF RemoveUnused
<1>3. s[q] # "absent"
  BY <1>1, <1>2 DEF Complete, Installed
<1>4. \E r \in Explicit(s) : q \in Requires[r]
  <2>1. CASE s[p] = "explicit"
    BY <1>1, <2>1 DEF Explicit
  <2>2. CASE p \in NativePkg /\ s[p] # "explicit"
    <3>1. Manager(p) = native /\ s[p] = "dependency"
      BY <1>2, <2>2 DEF Manager, Reason
    <3>2. PICK r \in Explicit(s) : p \in Requires[r]
      BY <1>2, <3>1 DEF RemoveUnused
    <3>3. r \in Pkg
      BY DEF Explicit
    <3>4. q \in Requires[r]
      BY <1>1, <3>2, <3>3, PackagesAssumption
    <3>. QED  BY <3>4
  <2>. QED  BY <1>1, <1>2, <2>1, <2>2
<1>5. t[q] = s[q]
  BY <1>2, <1>4 DEF RemoveUnused
<1>. QED  BY <1>2, <1>3, <1>5

-----------------------------------------------------------------------------
(* What the calls are for *)

\* Of the packages of a package manager, those it is called for.
LEMMA CalledFor ==
    ASSUME TypeOK, NEW m, phase \in {"early", "late"}
    PROVE  /\ \A p \in Operations(m).install : /\ p \in Pkg /\ Manager(p) = m
                                               /\ Wanted(p) /\ p \notin package_maps
           /\ \A p \in Operations(m).mark_as_manual : /\ p \in Pkg /\ Manager(p) = m
                                                      /\ Wanted(p) /\ p \in package_maps
           /\ \A p \in Operations(m).uninstall : p \in Pkg /\ Manager(p) = m /\ ~Wanted(p)
<1>1. ASSUME NEW p \in Pkg, NEW op, <<p, op>> \in Changes
      PROVE  /\ op = "Install" => Wanted(p)
             /\ op = "Uninstall" => ~Wanted(p)
  BY <1>1 DEF Changes, EarlyChanges, LateChanges, Scripted, OnlyScripted, OnlyLoaded, Wanted
<1>. QED  BY <1>1 DEF Operations

\* Late, every package that is not as the script wants it is changed.
LEMMA LateCalls ==
    ASSUME TypeOK, phase = "late", NEW p \in Pkg
    PROVE  /\ Wanted(p) /\ p \notin pkgs_sys =>
                 p \in Operations(Manager(p)).install \cup Operations(Manager(p)).mark_as_manual
           /\ ~Wanted(p) /\ (p \in pkgs_sys \/ package_actions[p] # "none") =>
                 p \in Operations(Manager(p)).uninstall
<1>1. package_actions[p] \in Op
  BY DEF TypeOK
<1>2. Wanted(p) /\ p \notin pkgs_sys => <<p, "Install">> \in Changes
  BY DEF Changes, LateChanges, Scripted, OnlyScripted, Wanted
<1>3. ~Wanted(p) /\ (p \in pkgs_sys \/ package_actions[p] # "none") => <<p, "Uninstall">> \in Changes
  BY <1>1 DEF Changes, LateChanges, Scripted, OnlyScripted, OnlyLoaded, Wanted, Op
<1>. QED  BY <1>2, <1>3 DEF Operations

-----------------------------------------------------------------------------
(* apply_pkgs *)

\* What the script asks for does not change during a run.
LEMMA AskedKept ==
    ASSUME UNCHANGED config
    PROVE  AskedEarly' = AskedEarly /\ AskedInAll' = AskedInAll
  BY DEF config, AskedEarly, AskedInAll, NoActions, RunPhase, IgnoresCall, Manager

\* A call that ends the run leaves only the packages as they are by then.
LEMMA QuitGoal ==
    ASSUME NEW why, Quit(why), Complete(sys)'
    PROVE  GoalInv'
  BY DEF Quit, GoalInv, AllActions, SuccessMeansWanted

\* While a run goes on, a transaction keeps what is said of all the packages.
LEMMA TransactGoal ==
    ASSUME TypeOK, GoalInv, phase \in {"early", "late"}, NEW s \in [Pkg -> Reason], Transact(s),
           Complete(s), UNCHANGED <<config, phase, package_actions, loaded>>,
           \A p \in Pkg : s[p] = "explicit" => sys[p] = "explicit" \/ Wanted(p),
           phase = "late" /\ paranoia = "yolo" => \A p \in Pkg : Settling(p)'
    PROVE  GoalInv'
<1>1. AskedEarly' = AskedEarly /\ AskedInAll' = AskedInAll
  BY AskedKept
<1>2. sys' = s
  BY DEF Transact
<1>3. AllActions'
  BY <1>1 DEF GoalInv, AllActions
<1>4. Complete(sys)'
  BY <1>2, PackagesAssumption DEF Complete, Installed
<1>5. \A p \in Pkg : Asked(p)'
  BY <1>2 DEF GoalInv, Asked, Wanted, loaded
<1>6. phase = "early" => \A p \in Pkg : Arrived(p)'
  BY <1>2 DEF GoalInv, Arrived, Transact, Installed, loaded
<1>7. SuccessMeansWanted'
  BY DEF SuccessMeansWanted
<1>. QED  BY <1>3, <1>4, <1>5, <1>6, <1>7 DEF GoalInv, config

\* The package managers know each their own packages.
LEMMA OneOf ==
    ASSUME TypeOK, NEW p \in Pkg
    PROVE  /\ p \in NativePkg <=> Manager(p) = native
           /\ Manager(p) \in {native, "flatpak"} /\ native # "flatpak"
  BY Managers DEF Manager

\* An installation brings what is wanted closer.
LEMMA InstallGoal ==
    ASSUME IInv, GoalInv, NEW m \in pending, Install(m)
    PROVE  GoalInv'
<1> DEFINE s == InstallAll(sys, Operations(m).install)
<1>1. /\ TypeOK /\ phase \in {"early", "late"} /\ m \in {native, "flatpak"}
      /\ sys \in [Pkg -> Reason] /\ s \in [Pkg -> Reason] /\ pkgs_sys \subseteq package_maps
      /\ sys' = s /\ changed_early \subseteq changed_early'
  BY InstallReasons DEF IInv, TypeOK, StepInv, Install, Transact
<1>2. /\ Transact(s)
      /\ UNCHANGED <<config, phase, package_actions, loaded>>
      /\ pending' = pending /\ step' = [manager |-> m, next |-> "mark_manual"]
      /\ step = NoStep
  BY DEF Install, GoOn, AtStart
<1>3. /\ \A p \in Operations(m).install : /\ p \in Pkg /\ Manager(p) = m
                                          /\ Wanted(p) /\ p \notin package_maps
      /\ Complete(s)
  <2>1. Operations(m).install \subseteq Pkg
    BY DEF Operations
  <2>. QED  BY <1>1, <2>1, CalledFor, InstallCompletes DEF GoalInv
<1>4. ASSUME NEW p \in Pkg
      PROVE  /\ s[p] = "explicit" => sys[p] = "explicit" \/ (p \in Operations(m).install /\ Wanted(p))
             /\ sys[p] = "explicit" => s[p] = "explicit"
             /\ p \in Operations(m).install /\ sys[p] = "absent" => s[p] = "explicit"
  BY <1>1, <1>3 DEF InstallAll
<1>5. ASSUME phase = "late", paranoia = "yolo", NEW p \in Pkg
      PROVE  Settling(p)'
  <2>1. Settling(p) /\ Manager(p)' = Manager(p) /\ native' = native
    BY <1>2, <1>5 DEF GoalInv, Manager, config
  <2>2. AskedEarly' = AskedEarly
    BY <1>2, AskedKept
  <2>3. AsWanted(p) => AsWanted(p)'
    BY <1>1, <1>2, <1>4, <2>2 DEF AsWanted, Wanted, loaded
  <2>4. Manager(p) \notin pending => Settled(p)'
    BY <1>3, <1>1, <1>2, <1>4, <2>1, <2>3 DEF Settling, Settled, Wanted
  <2>5. ASSUME m = native, p \in NativePkg, p \notin package_maps PROVE AsWanted(p)'
    <3>1. Arrived(p)
      BY <1>2, <2>1, <2>5 DEF Settling
    <3>2. p \notin pkgs_sys
      BY <1>1, <2>5
    <3>3. Wanted(p) => p \in Operations(m).install
      BY <1>1, <1>3, <1>5, <2>5, <3>2, OneOf, LateCalls, CalledFor
    <3>. QED  BY <1>1, <1>2, <1>4, <2>5, <3>1, <3>2, <3>3 DEF AsWanted, Arrived, Wanted, loaded
  <2>. HIDE DEF s
  <2>. QED  BY <1>1, <1>2, <2>1, <2>3, <2>4, <2>5 DEF Settling, At, NoStep, loaded
<1>. HIDE DEF s
<1>. QED  BY <1>1, <1>2, <1>3, <1>4, <1>5, TransactGoal

\* Nothing is settled by what is not done, but then the run is not one of those that count.
LEMMA PassOverGoal ==
    ASSUME IInv, GoalInv, NEW m \in pending, PassOver(m) \/ Abort(m)
    PROVE  GoalInv'
<1>1. /\ TypeOK /\ phase \in {"early", "late"} /\ paranoia # "yolo" /\ sys \in [Pkg -> Reason]
      /\ NoTransaction /\ UNCHANGED <<config, package_actions, loaded>>
  BY DEF IInv, TypeOK, PassOver, Abort, AtStart
<1>2. CASE PassOver(m)
  BY <1>1, <1>2, NoTransactionIsOne, TransactGoal DEF PassOver, Finish, GoalInv
<1>3. CASE Abort(m)
  <2>1. Complete(sys)'
    BY <1>1, PackagesAssumption DEF NoTransaction, GoalInv, Complete, Installed
  <2>. QED  BY <1>3, <2>1, QuitGoal DEF Abort
<1>. QED  BY <1>2, <1>3

\* Only native packages are ever marked.
LEMMA MarkedAreNative ==
    ASSUME TypeOK, phase \in {"early", "late"}
    PROVE  /\ Operations(native).mark_as_manual \subseteq NativePkg
           /\ Operations(native).uninstall \subseteq NativePkg
  BY CalledFor, OneOf

\* Marking as manual changes reasons only, of what is wanted.
LEMMA MarkManualGoal ==
    ASSUME IInv, GoalInv, NEW m \in pending, MarkManual(m)
    PROVE  GoalInv'
<1> DEFINE pkgs == Operations(native).mark_as_manual
           s == MarkAll(sys, pkgs, "explicit")
<1>1. /\ TypeOK /\ phase \in {"early", "late"} /\ m \in {native, "flatpak"} /\ native # "flatpak"
      /\ sys \in [Pkg -> Reason] /\ s \in [Pkg -> Reason]
      /\ UNCHANGED <<config, package_actions, loaded>>
      /\ step = [manager |-> m, next |-> "mark_manual"]
  BY MarkReasons, Managers DEF IInv, TypeOK, StepInv, MarkManual, At
<1>2. Complete(s)
  BY <1>1, MarkedAreNative, MarkCompletes DEF GoalInv
<1>3. CASE \E why : Quit(why)
  <2>1. sys' = sys \/ sys' = s
    BY <1>1, <1>3 DEF MarkManual, NoTransaction, Transact
  <2>2. Complete(sys)'
    BY <2>1, <1>2, PackagesAssumption DEF GoalInv, Complete, Installed
  <2>. QED  BY <1>3, <2>2, QuitGoal
<1>4. CASE ~\E why : Quit(why)
  <2>1. /\ m = native /\ Transact(s) /\ ~MarkFails(sys, pkgs) /\ sys' = s
        /\ UNCHANGED <<phase, pending>> /\ step' = [manager |-> native, next |-> "mark_unwanted"]
        /\ changed_early \subseteq changed_early'
    BY <1>1, <1>4 DEF MarkManual, GoOn, Transact
  <2>2. \A p \in pkgs : p \in Pkg /\ Wanted(p) /\ p \in package_maps
    BY <1>1, CalledFor
  <2>3. ASSUME NEW p \in Pkg
        PROVE  /\ s[p] = "explicit" => sys[p] = "explicit" \/ Wanted(p)
               /\ sys[p] = "explicit" => s[p] = "explicit"
               /\ p \in pkgs /\ sys[p] # "absent" => s[p] = "explicit"
    BY <1>1, <2>2 DEF MarkAll
  <2>4. ASSUME phase = "late", paranoia = "yolo", NEW p \in Pkg
        PROVE  Settling(p)'
    <3>1. Settling(p) /\ Manager(p)' = Manager(p) /\ native' = native
      BY <1>1, <2>4 DEF GoalInv, Manager, config
    <3>2. AskedEarly' = AskedEarly
      BY <1>1, AskedKept
    <3>3. AsWanted(p) => AsWanted(p)'
      BY <1>1, <2>1, <2>3, <3>2 DEF AsWanted, Wanted, loaded
    <3>4. Manager(p) \notin pending => Settled(p)'
      <4>1. Manager(p) \notin pending => p \notin pkgs
        BY <2>1, <1>1, CalledFor
      <4>2. p \notin pkgs => s[p] = sys[p]
        BY <1>1 DEF MarkAll
      <4>. QED  BY <1>1, <2>1, <3>1, <3>3, <4>1, <4>2 DEF Settling, Settled, Wanted
    <3>5. ASSUME p \in NativePkg PROVE AsWanted(p)'
      <4>1. CASE p \in pkgs_sys \/ p \notin package_maps
        BY <1>1, <2>1, <3>1, <3>3, <3>5, <4>1 DEF Settling, At
      <4>2. CASE p \notin pkgs_sys /\ p \in package_maps
        <5>1. Wanted(p) => p \in pkgs
          BY <1>1, <2>4, <3>5, <4>2, OneOf, LateCalls, CalledFor
        <5>2. sys[p] = "absent" => p \in changed_early
          BY <2>1, <3>5, <4>2 DEF IInv, AbsentInv
        <5>. QED  BY <1>1, <2>1, <2>3, <4>2, <5>1, <5>2 DEF AsWanted, Wanted, loaded
      <4>. QED  BY <4>1, <4>2
    <3>. HIDE DEF s
    <3>. QED  BY <1>1, <2>1, <3>1, <3>3, <3>4, <3>5 DEF Settling, At, NoStep, loaded
  <2>. HIDE DEF s, pkgs
  <2>. QED  BY <1>1, <1>2, <2>1, <2>3, <2>4, TransactGoal
<1>. QED  BY <1>3, <1>4

\* Marking as a dependency changes reasons only, of what is not wanted.
LEMMA MarkUnwantedGoal ==
    ASSUME IInv, GoalInv, NEW m \in pending, MarkUnwanted(m)
    PROVE  GoalInv'
<1> DEFINE pkgs == Operations(native).uninstall
           s == MarkAll(sys, pkgs, "dependency")
<1>1. /\ TypeOK /\ phase \in {"early", "late"} /\ m = native
      /\ sys \in [Pkg -> Reason] /\ s \in [Pkg -> Reason]
      /\ UNCHANGED <<config, package_actions, loaded>>
      /\ step = [manager |-> native, next |-> "mark_unwanted"]
      /\ Transact(s) /\ sys' = s /\ changed_early \subseteq changed_early'
  BY MarkReasons DEF IInv, TypeOK, StepInv, MarkUnwanted, At, NoStep, Transact
<1>2. Complete(s)
  BY <1>1, MarkedAreNative, MarkCompletes DEF GoalInv
<1>3. CASE \E why : Quit(why)
  <2>1. Complete(sys)'
    BY <1>1, <1>2, PackagesAssumption DEF Complete, Installed
  <2>. QED  BY <1>3, <2>1, QuitGoal
<1>4. CASE ~\E why : Quit(why)
  <2>1. UNCHANGED <<phase, pending>> /\ step' = [manager |-> native, next |-> "remove_unused"]
    BY <1>1, <1>4 DEF MarkUnwanted, GoOn
  <2>2. \A p \in pkgs : p \in Pkg /\ Manager(p) = native /\ ~Wanted(p)
    BY <1>1, CalledFor
  <2>3. ASSUME NEW p \in Pkg
        PROVE  /\ s[p] = "explicit" <=> sys[p] = "explicit" /\ p \notin pkgs
               /\ p \notin pkgs => s[p] = sys[p]
    BY <1>1 DEF MarkAll
  <2>4. ASSUME phase = "late", paranoia = "yolo", NEW p \in Pkg
        PROVE  Settling(p)'
    <3>1. Settling(p) /\ Manager(p)' = Manager(p) /\ native' = native
      BY <1>1, <2>4 DEF GoalInv, Manager, config
    <3>2. AskedEarly' = AskedEarly
      BY <1>1, AskedKept
    <3>3. AsWanted(p) => AsWanted(p)'
      BY <1>1, <2>2, <2>3, <3>2 DEF AsWanted, Wanted, loaded
    <3>4. Manager(p) \notin pending => Settled(p)'
      BY <1>1, <2>1, <2>2, <2>3, <3>1, <3>3 DEF Settling, Settled, Wanted
    <3>5. ASSUME p \in NativePkg PROVE Settled(p)'
      <4>1. AsWanted(p)'
        BY <1>1, <3>1, <3>3, <3>5 DEF Settling, At
      <4>2. s[p] = "explicit" => Wanted(p)
        <5>1. sys[p] = "explicit" => p \in pkgs_sys \/ package_actions[p] # "none"
          BY <2>4 DEF GoalInv, Asked
        <5>. QED  BY <1>1, <2>3, <2>4, <3>5, <5>1, OneOf, LateCalls
      <4>. QED  BY <1>1, <4>1, <4>2 DEF Settled, Wanted
    <3>. HIDE DEF s
    <3>. QED  BY <1>1, <2>1, <3>1, <3>3, <3>4, <3>5 DEF Settling, Settled, At, NoStep, loaded
  <2>. HIDE DEF s, pkgs
  <2>. QED  BY <1>1, <1>2, <2>1, <2>3, <2>4, TransactGoal
<1>. QED  BY <1>3, <1>4

\* A removal takes away nothing that is wanted.
LEMMA RemoveUnwantedGoal ==
    ASSUME IInv, GoalInv, NEW m \in pending, RemoveUnwanted(m)
    PROVE  GoalInv'
<1> DEFINE s == RemoveUnused(sys, native)
<1>1. /\ TypeOK /\ phase \in {"early", "late"} /\ m = native
      /\ sys \in [Pkg -> Reason] /\ s \in [Pkg -> Reason]
      /\ UNCHANGED <<config, phase, package_actions, loaded>>
      /\ step = [manager |-> native, next |-> "remove_unused"]
      /\ Transact(s) /\ sys' = s /\ changed_early \subseteq changed_early'
      /\ pending' = pending \ {native} /\ step' = NoStep
  BY RemoveReasons DEF IInv, TypeOK, StepInv, RemoveUnwanted, At, NoStep, Transact, Finish
<1>2. Complete(s)
  BY <1>1, RemoveCompletes DEF GoalInv
<1>3. \A p \in Pkg : s[p] = "explicit" <=> sys[p] = "explicit"
  BY <1>1 DEF RemoveUnused
<1>4. ASSUME phase = "late", paranoia = "yolo", NEW p \in Pkg
      PROVE  Settling(p)'
  <2>1. Settling(p) /\ Manager(p)' = Manager(p) /\ native' = native
    BY <1>1, <1>4 DEF GoalInv, Manager, config
  <2>2. AskedEarly' = AskedEarly
    BY <1>1, AskedKept
  <2>3. /\ AsWanted(p) => AsWanted(p)'
        /\ Settled(p) => Settled(p)'
    BY <1>1, <1>3, <2>2 DEF AsWanted, Settled, Wanted, loaded
  <2>4. Manager(p) \notin pending' => Settled(p)
    BY <1>1, <2>1, OneOf DEF Settling, At
  <2>. HIDE DEF s
  <2>. QED  BY <1>1, <2>1, <2>3, <2>4 DEF Settling, At, NoStep, loaded
<1>. HIDE DEF s
<1>. QED  BY <1>1, <1>2, <1>3, <1>4, TransactGoal

-----------------------------------------------------------------------------
(* The main thread *)

\* What one phase asks for, the next one only replaces.
LEMMA PhaseAsks ==
    ASSUME NEW actions \in [Pkg -> Op], NEW calls, NEW p \in Pkg, actions[p] # "none"
    PROVE  RunPhase(actions, calls)[p] # "none"
  BY DEF RunPhase

\* What is loaded first is asked for or arrived by having been loaded.
LEMMA LoadGoal ==
    ASSUME IInv, GoalInv, Load
    PROVE  GoalInv'
<1>1. Complete(sys)'
  BY PackagesAssumption DEF Load, GoalInv, Complete, Installed
<1>. QED
  BY <1>1 DEF Load, GoalInv, AllActions, Asked, Arrived, Explicit, Installed, SuccessMeansWanted

\* The early packages are those the script has asked for first.
LEMMA ApplyEarlyPackagesGoal ==
    ASSUME IInv, GoalInv, ApplyEarlyPackages
    PROVE  GoalInv'
<1>1. Complete(sys)'
  BY PackagesAssumption DEF ApplyEarlyPackages, GoalInv, Complete, Installed
<1>. QED
  BY <1>1 DEF ApplyEarlyPackages, GoalInv, AllActions, Asked, Arrived, SuccessMeansWanted, loaded

\* The main phase adds to what is wanted, or changes its mind.
LEMMA RunMainPhaseGoal ==
    ASSUME IInv, GoalInv, RunMainPhase
    PROVE  GoalInv'
<1>1. /\ phase = "early" /\ phase' = "main"
      /\ package_actions' = RunPhase(package_actions, script.main)
      /\ UNCHANGED <<config, sys, loaded, changed_early>>
      /\ package_actions \in [Pkg -> Op]
  BY DEF RunMainPhase, IInv, TypeOK
<1>2. Complete(sys)'
  BY <1>1, PackagesAssumption DEF GoalInv, Complete, Installed
<1>3. AllActions'
  <2>1. package_actions = AskedEarly /\ AskedInAll' = AskedInAll
    BY <1>1, AskedKept DEF IInv, EarlyActions
  <2>. QED  BY <1>1, <2>1 DEF AllActions, AskedInAll
<1>4. \A p \in Pkg : Asked(p)'
  BY <1>1, PhaseAsks DEF GoalInv, Asked, loaded
<1>5. \A p \in Pkg : Arrived(p)'
  BY <1>1 DEF GoalInv, Arrived, loaded
<1>. QED  BY <1>1, <1>2, <1>3, <1>4, <1>5 DEF GoalInv, SuccessMeansWanted

\* Before the late transactions, nothing the user installed was lost that the script
\* did not give up, and the package managers that are not called have nothing to do.
LEMMA ApplyPackagesGoal ==
    ASSUME IInv, GoalInv, ApplyPackages
    PROVE  GoalInv'
<1>1. /\ phase = "main" /\ phase' = "late" /\ TypeOK
      /\ pending' = ManagersOf(LateChanges(package_actions))
      /\ UNCHANGED <<config, sys, package_actions, loaded, step, changed_early>>
      /\ step = NoStep
  BY NothingPending DEF ApplyPackages, IInv, StepInv
<1>2. Complete(sys)'
  BY <1>1, PackagesAssumption DEF GoalInv, Complete, Installed
<1>3. AskedEarly' = AskedEarly /\ AskedInAll' = AskedInAll
  BY <1>1, AskedKept
<1>4. ASSUME NEW p \in Pkg
      PROVE  Asked(p)' /\ Settling(p)'
  <2>1. Asked(p) /\ Arrived(p) /\ Manager(p)' = Manager(p) /\ native' = native
    BY <1>1 DEF GoalInv, Manager, config
  <2>2. Asked(p)' /\ Arrived(p)'
    BY <1>1, <2>1 DEF Asked, Arrived, loaded
  <2>3. p \in pkgs_sys => AsWanted(p)'
    BY <1>1, <1>3 DEF IInv, NothingLostEarly, AsWanted, Wanted, loaded
  <2>4. ASSUME Manager(p) \notin pending' PROVE Settled(p)'
    <3>1. \A op : <<p, op>> \notin LateChanges(package_actions)
      <4>1. ASSUME NEW op, <<p, op>> \in LateChanges(package_actions)
            PROVE  Manager(p) \in ManagersOf(LateChanges(package_actions))
        <5>1. <<p, op>>[1] = p
          OBVIOUS
        <5>. QED  BY <4>1, <5>1 DEF ManagersOf
      <4>. QED  BY <1>1, <2>4, <4>1
    <3>2. Wanted(p) => p \in pkgs_sys
      BY <3>1 DEF Wanted, LateChanges, Scripted, OnlyScripted
    <3>3. ~Wanted(p) => p \notin pkgs_sys /\ package_actions[p] = "none"
      <4>1. package_actions[p] \in Op
        BY <1>1 DEF TypeOK
      <4>. QED  BY <3>1, <4>1 DEF Wanted, LateChanges, Scripted, OnlyScripted, OnlyLoaded, Op
    <3>4. AsWanted(p)'
      BY <1>1, <2>3, <3>2 DEF AsWanted, Wanted
    <3>. QED  BY <1>1, <2>1, <3>3, <3>4 DEF Settled, Asked, Wanted
  <2>. QED  BY <1>1, <2>1, <2>2, <2>3, <2>4 DEF Settling, At, NoStep, loaded
<1>. QED  BY <1>1, <1>2, <1>3, <1>4 DEF GoalInv, AllActions, SuccessMeansWanted

\* When nothing is pending any more, all packages are settled.
LEMMA ApplyFileChangesGoal ==
    ASSUME IInv, GoalInv, ApplyFileChanges
    PROVE  GoalInv'
<1>1. /\ phase = "late" /\ phase' = "done" /\ pending = {}
      /\ UNCHANGED <<config, sys, package_actions, loaded, changed_early>>
  BY DEF ApplyFileChanges
<1>2. Complete(sys)'
  BY <1>1, PackagesAssumption DEF GoalInv, Complete, Installed
<1>3. /\ AskedEarly' = AskedEarly /\ AskedInAll' = AskedInAll
      /\ package_actions = AskedInAll /\ paranoia' = paranoia
  BY <1>1, AskedKept DEF GoalInv, AllActions, config
<1>4. SuccessMeansWanted'
  <2>1. SUFFICES ASSUME paranoia = "yolo" PROVE SuccessMeansWanted'
    BY <1>3 DEF SuccessMeansWanted
  <2>2. \A p \in Pkg : Settled(p)
    BY <1>1, <2>1 DEF GoalInv, Settling
  <2>3. \A p \in Explicit(sys)' : AskedInAll[p] = "Install"
    BY <1>1, <1>3, <2>2 DEF Settled, Wanted, Explicit
  <2>4. \A p \in Explicit(sys)' : Requires[p] \subseteq Installed(sys)'
    BY <1>1, <1>2 DEF Complete, Explicit
  <2>5. \A p \in Pkg : AskedInAll[p] = "Install" /\ sys[p] # "explicit" =>
           IF p \in pkgs_sys THEN AskedEarly[p] = "Uninstall" ELSE p \in changed_early
    BY <1>3, <2>2 DEF Settled, AsWanted, Wanted
  <2>. QED  BY <1>1, <1>3, <2>3, <2>4, <2>5, PackagesAssumption DEF SuccessMeansWanted, loaded
<1>. QED  BY <1>1, <1>2, <1>4 DEF GoalInv, AllActions

\* A run that broke down has not ended well.
LEMMA BreakDownGoal ==
    ASSUME IInv, GoalInv, BreakDown
    PROVE  GoalInv'
<1>1. Quit("none") /\ sys \in [Pkg -> Reason] /\ Complete(sys)
  BY DEF BreakDown, IInv, TypeOK, GoalInv
<1>2. CASE sys' = sys
  BY <1>1, <1>2, QuitGoal, PackagesAssumption DEF Complete, Installed
<1>3. CASE \E m \in pending : Transact(InstallAll(sys, Operations(m).install))
  <2>1. PICK m \in pending : Transact(InstallAll(sys, Operations(m).install))
    BY <1>3
  <2> DEFINE s == InstallAll(sys, Operations(m).install)
  <2>2. Operations(m).install \subseteq Pkg
    BY DEF Operations
  <2>3. Complete(s) /\ sys' = s
    BY <1>1, <2>1, <2>2, InstallCompletes DEF Transact
  <2>. HIDE DEF s
  <2>4. Complete(sys)'
    BY <2>3, PackagesAssumption DEF Complete, Installed
  <2>. QED  BY <1>1, <2>4, QuitGoal
<1>. QED  BY <1>2, <1>3 DEF BreakDown, NoTransaction

-----------------------------------------------------------------------------
(* The theorem *)

\* Nothing GoalInv speaks of is changed by the scan.
LEMMA ScanGoal ==
    ASSUME GoalInv,
           UNCHANGED <<config, sys, phase, package_actions, loaded, pending, step, changed_early>>
    PROVE  GoalInv'
<1>1. AskedEarly' = AskedEarly /\ AskedInAll' = AskedInAll
  BY AskedKept
<1>2. Complete(sys)'
  BY PackagesAssumption DEF GoalInv, Complete, Installed
<1>3. \A p \in Pkg : Asked(p) <=> Asked(p)'
  BY DEF Asked, loaded
<1>4. \A p \in Pkg : Arrived(p) <=> Arrived(p)'
  BY DEF Arrived, loaded
<1>5. \A p \in Pkg : AsWanted(p) <=> AsWanted(p)'
  BY <1>1 DEF AsWanted, Wanted, loaded
<1>6. \A p \in Pkg : Settled(p) <=> Settled(p)'
  BY <1>5 DEF Settled, Wanted
<1>7. ASSUME phase = "late", paranoia = "yolo", NEW p \in Pkg
      PROVE  Settling(p)'
  <2>1. Settling(p) /\ Manager(p)' = Manager(p) /\ native' = native
    BY <1>7 DEF GoalInv, Manager, config
  <2>. QED  BY <1>4, <1>5, <1>6, <2>1 DEF Settling, At, NoStep, loaded
<1>8. SuccessMeansWanted'
  BY <1>1, PackagesAssumption DEF GoalInv, SuccessMeansWanted, Explicit, Installed, config, loaded
<1>9. AllActions'
  BY <1>1 DEF GoalInv, AllActions
<1>. QED  BY <1>2, <1>3, <1>4, <1>7, <1>8, <1>9 DEF GoalInv, config

\* The first state satisfies the invariant.
LEMMA GoalAtFirst == Init => GoalInv
<1> SUFFICES ASSUME Init PROVE GoalInv
  OBVIOUS
<1>1. Complete(sys)
  BY PackagesAssumption DEF Init, Complete, Reason
<1>. QED  BY <1>1 DEF Init, GoalInv, AllActions, SuccessMeansWanted

\* Every step preserves it.
LEMMA NextGoal == IInv /\ GoalInv /\ [Next]_vars => GoalInv'
<1> SUFFICES ASSUME IInv, GoalInv, [Next]_vars PROVE GoalInv'
  OBVIOUS
<1>1. CASE MainThread
  BY <1>1, LoadGoal, ApplyEarlyPackagesGoal, RunMainPhaseGoal, ApplyPackagesGoal,
     ApplyFileChangesGoal, BreakDownGoal, PassOverGoal, InstallGoal, MarkManualGoal,
     MarkUnwantedGoal, RemoveUnwantedGoal
     DEF MainThread
<1>2. CASE Scanner
  BY <1>2, ScanGoal DEF Scanner, ListFiles, FinishScan, Visit, ScanOnly
<1>3. CASE UNCHANGED vars
  BY <1>3, ScanGoal DEF vars
<1>. QED  BY <1>1, <1>2, <1>3 DEF Next

\* After a run of apply that reports success, what is installed explicitly is what the
\* script adds, each with all it requires, and what the script adds is installed
\* explicitly, except for what the early packages changed after it was loaded.
THEOREM GoalReached == Spec => []SuccessMeansWanted
<1>1. GoalInv => SuccessMeansWanted
  BY DEF GoalInv
<1>. QED  BY <1>1, Invariant, GoalAtFirst, NextGoal, PTL DEF Spec

=============================================================================
