---------------------------- MODULE FileBackends ----------------------------
(***************************************************************************)
(* The backends that know of files (ConcreteBackend::create_files in       *)
(* paketkoll_core/src/backend.rs) side by side: one command is run with    *)
(* one of them.  That of apt also serves konfigkoll; systemd-tmpfiles      *)
(* serves paketkoll alone, and answers for files without a package.        *)
(*                                                                         *)
(* The backends share no state.  What the other one keeps is left at one   *)
(* of its initial values, so a behaviour follows either.                   *)
(***************************************************************************)
EXTENDS ExpectedFiles, Tmpfiles

VARIABLE backend        \* ConcreteBackend: "apt" or "systemd-tmpfiles"

vars == <<backend, expectedVars, tmpfilesVars>>

AptInit ==
    /\ backend = "apt"
    /\ ExpectedInit
    /\ TmpfilesStart(CHOOSE lines \in TmpfilesConfigs : TRUE)

SystemdTmpfilesInit ==
    /\ backend = "systemd-tmpfiles"
    /\ program = "paketkoll"
    /\ db = CHOOSE d \in DOMAIN Databases : TRUE
    /\ ExpectedStart
    /\ \E lines \in TmpfilesConfigs : TmpfilesStart(lines)

Init == AptInit \/ SystemdTmpfilesInit

AptNext ==
    /\ backend = "apt"
    /\ ExpectedNext
    /\ UNCHANGED <<backend, tmpfilesVars>>

SystemdTmpfilesNext ==
    /\ backend = "systemd-tmpfiles"
    /\ TmpfilesNext
    /\ UNCHANGED <<backend, expectedVars>>

Next == AptNext \/ SystemdTmpfilesNext

Spec == Init /\ [][Next]_vars

TypeOK ==
    /\ backend \in {"apt", "systemd-tmpfiles"}
    /\ ExpectedTypeOK /\ TmpfilesTypeOK
=============================================================================
