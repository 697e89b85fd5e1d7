---------------------------- MODULE DesiredState ----------------------------
(***************************************************************************)
(* What konfigkoll apply promises (konfigkoll/src/main.rs), without saying *)
(* how: the user states what every path is wanted to be and which paths    *)
(* are to be kept out of it; a run looks at the disk, declines or decides  *)
(* what to do, and changes the disk piece by piece.                        *)
(*                                                                         *)
(* Not everything that can be asked for can be achieved.  Whether this is  *)
(* so is settled when the run decides what to do, before it changes        *)
(* anything; from then on a run that is able to do what is asked for       *)
(* leaves alone what is kept, fails only when it is cut short, and ends    *)
(* with everything as it is wanted.  Of a run that is not able nothing is  *)
(* promised.                                                               *)
(***************************************************************************)
EXTENDS Naturals

CONSTANTS
    Path,
    Node,               \* what can be at a path
    Wish,               \* what a path can be wanted to be
    Matches(_, _)       \* whether what is there is what is wanted

VARIABLES
    disk,
    wanted, kept,       \* the configuration: the wishes, the paths that are left out
    phase,              \* of the current run, or how the last one ended
    able,               \* whether the current run can do what is asked for
    breakdowns          \* runs cut short so far

config == <<wanted, kept>>
vars == <<disk, config, phase, able, breakdowns>>

Init ==
    /\ disk \in [Path -> Node]
    /\ wanted \in [Path -> Wish] /\ kept \subseteq Path
    /\ phase = "idle"
    /\ able \in BOOLEAN
    /\ breakdowns = 0

Between == phase \in {"idle", "refused", "failed", "done"}

Observe ==
    /\ Between
    /\ phase' = "observed"
    /\ UNCHANGED <<disk, config, able, breakdowns>>

\* Before anything is changed.
Decline ==
    /\ Between \/ phase = "observed"
    /\ phase' = "refused"
    /\ UNCHANGED <<disk, config, able, breakdowns>>

Decide ==
    /\ phase = "observed"
    /\ phase' = "acting"
    /\ able' \in BOOLEAN
    /\ UNCHANGED <<disk, config, breakdowns>>

\* Whatever is done to the disk, what is kept stays as it is.
Change ==
    /\ disk' \in [Path -> Node]
    /\ able => \A p \in kept : disk'[p] = disk[p]
    /\ UNCHANGED <<config, able>>

Act ==
    /\ phase = "acting"
    /\ Change
    /\ UNCHANGED <<phase, breakdowns>>

\* The run is cut short.
BreakDown ==
    /\ phase = "acting"
    /\ Change
    /\ phase' = "failed"
    /\ breakdowns' = breakdowns + 1

\* The run finds that it cannot go on.
GiveUp ==
    /\ phase = "acting" /\ ~able
    /\ Change
    /\ phase' = "failed"
    /\ UNCHANGED breakdowns

\* The run reports success.
Finish ==
    /\ phase = "acting"
    /\ able => \A p \in Path \ kept : Matches(disk[p], wanted[p])
    /\ phase' = "done"
    /\ UNCHANGED <<disk, config, able, breakdowns>>

Next == Observe \/ Decline \/ Decide \/ Act \/ BreakDown \/ GiveUp \/ Finish

Spec == Init /\ [][Next]_vars

=============================================================================
