--------------------------- MODULE ScriptPlugins ---------------------------
(***************************************************************************)
(* What a script does: it makes the contents of its files with konfigkoll's*)
(* plugins, patching a file with the line editor and then building the     *)
(* users of the system, and it makes its calls, in konfigkoll save.  A     *)
(* script is one thread: a call ends before the next one begins, and a     *)
(* panic ends the program.  The calls take a text as it is, so a behaviour *)
(* follows either the plugins or the calls.                                *)
(***************************************************************************)
EXTENDS LineEdit, Passwd, Save

VARIABLE statement      \* what the script is at: "patch", "users" or "calls"

scriptVars == <<editVars, passwdVars, saveVars, statement>>

\* Where a behaviour follows the plugins, the calls are those of any one configuration.
ScriptInit ==
    \/ /\ statement = "patch"
       /\ EditInit /\ PasswdInit
       /\ system = CHOOSE h \in Hosted : TRUE
       /\ LET c == CHOOSE c \in Configs : TRUE IN script = c.script /\ config_files = c.files
       /\ SaveInit
    \/ /\ statement = "calls"
       /\ host = CHOOSE h \in Hosts : TRUE
       /\ lib = 1 /\ input = <<>> /\ line_number = 0 /\ pattern_space = EmptySpace
       /\ output = <<>> /\ mode = "done" /\ frames = <<>>
       /\ PasswdInit /\ SaveInit

Patch ==
    /\ statement = "patch"
    /\ EditNext
    /\ UNCHANGED <<passwdVars, saveVars, statement>>

\* The text goes to Commands::write, and the editor is dropped; that its variables
\* get fixed values says that nothing depends on them any more.
NextStatement ==
    /\ statement = "patch"
    /\ mode = "done"
    /\ statement' = "users"
    /\ lib' = 1
    /\ input' = <<>>
    /\ line_number' = 0
    /\ pattern_space' = EmptySpace
    /\ output' = <<>>
    /\ UNCHANGED <<mode, frames, passwdVars, saveVars>>

BuildUsers ==
    /\ statement = "users"
    /\ PasswdNext
    /\ UNCHANGED <<editVars, saveVars, statement>>

MakeCalls ==
    /\ statement = "calls"
    /\ SaveNext
    /\ UNCHANGED <<editVars, passwdVars, statement>>

ScriptNext == Patch \/ NextStatement \/ BuildUsers \/ MakeCalls

\* The editor is a loop of the program; what a script calls next is up to the script.
ScriptSpec == ScriptInit /\ [][ScriptNext]_scriptVars /\ WF_scriptVars(Patch)

TypeOK ==
    /\ EditTypeOK /\ PasswdTypeOK /\ SaveTypeOK
    /\ statement \in {"patch", "users", "calls"}
=============================================================================
