------------------------------ MODULE Commands ------------------------------
(***************************************************************************)
(* A script while konfigkoll runs it (konfigkoll_script: engine.rs,        *)
(* plugins/command.rs, settings.rs, systemd.rs, package_managers.rs): the  *)
(* calls of a phase, one after the other, each checking its phase and its  *)
(* arguments and queueing what it asks for.                                *)
(*                                                                         *)
(* A script is a sequence of calls per phase.  It hands on every error (`?`*)
(* in Rune), so the first one ends the run.  A path that verify_path turns *)
(* down is one that is not in Path.                                        *)
(***************************************************************************)
EXTENDS FsTypes, SequencesExt

CONSTANTS
    Backend,        \* the backends that Backend::from_str knows
    PkgIdent,       \* [manager, name]: the packages of those, and of others
    UnitLinks,      \* UnitLinks[c]: what the [Install] section of a file of contents c
                    \* asks for, [aliases, wanted_by]: sets of paths; None: not a unit
    UnitFiles,      \* UnitFiles[p]: the contents of the packaged file p, None: no such file
    UsrTwin,        \* UsrTwin[p]: p with /usr in front, or without it
    DEV_NULL        \* "/dev/null"

ASSUME CommandsAssumption ==
    /\ UnitLinks \in [Contents -> [aliases: SUBSET Path, wanted_by: SUBSET Path] \cup {None}]
    /\ UnitFiles \in [Path -> Contents \cup {None}]
    /\ UsrTwin \in [Path -> Path]
    /\ DEV_NULL \in Targets

\* Phase derives its order.
SystemDiscovery == 1
Ignores == 2
ScriptDependencies == 3
Main == 4

\* The calls a script of phase p can make: each has the arguments of its types, and only
\* phase_system_discovery is given the Settings.
Makes(p, call) ==
    /\ call.call \in {"set_file_backend", "enable_pkg_backend", "early_config", "sensitive_config"}
          => p = SystemDiscovery
    /\ call.call \in {"add_pkg", "remove_pkg"} => call.id \in PkgIdent
    /\ call.call = "rm" => call.path \in Path
    /\ call.call = "write" => call.contents \in Contents
    /\ call.call = "ln" => call.target \in Targets
    /\ call.call \in {"chown", "chgrp"} => call.name \in Name
    /\ call.call = "perms" => call.owner \in Name /\ call.group \in Name
    /\ call.call \in {"enable_file", "enable_pkg"} =>
          /\ call.path \in Path \cap Targets
          /\ call.aliases \in BOOLEAN /\ call.wanted_by \in BOOLEAN

VARIABLES
    script,             \* phase -> calls
    config_files,       \* the files/ directory beside it: path -> contents
    phase, pc,          \* the phase that runs, and the call it is at
    progress,           \* "idle", "running", "failed", "panicked", "folded" or "saved"
    settings, fs_ignores, fs_actions, package_actions

config == <<script, config_files>>
engine == <<settings, fs_ignores, fs_actions, package_actions>>
commandVars == <<config, phase, pc, progress, engine>>

\* EngineState::new, with the default Settings.
FreshSettings == [file_backend |-> None, pkg_backends |-> {}, early |-> {}, sensitive |-> {}]

NewEngine ==
    /\ settings' = FreshSettings
    /\ fs_ignores' = {}
    /\ fs_actions' = <<>>
    /\ package_actions' = [id \in PkgIdent |-> None]

Call == script[phase][pc]

At(names) ==
    /\ progress = "running"
    /\ pc <= Len(script[phase])
    /\ Call.call \in names

Return == pc' = pc + 1 /\ UNCHANGED <<config, phase, progress>>

\* The phase returns the error and run_main ends with it.
Error == progress' = "failed" /\ UNCHANGED <<config, phase, pc, engine>>

-----------------------------------------------------------------------------
(* Settings *)

SetFileBackend ==
    /\ At({"set_file_backend"})
    /\ IF Call.name \in Backend
       THEN /\ settings' = [settings EXCEPT !.file_backend = Call.name]
            /\ Return
            /\ UNCHANGED <<fs_ignores, fs_actions, package_actions>>
       ELSE Error

EnablePkgBackend ==
    /\ At({"enable_pkg_backend"})
    /\ IF Call.name \in Backend
       THEN /\ settings' = [settings EXCEPT !.pkg_backends = @ \cup {Call.name}]
            /\ Return
            /\ UNCHANGED <<fs_ignores, fs_actions, package_actions>>
       ELSE Error

MarkConfig ==
    /\ At({"early_config", "sensitive_config"})
    /\ settings' = IF Call.call = "early_config"
                   THEN [settings EXCEPT !.early = @ \cup {Call.path}]
                   ELSE [settings EXCEPT !.sensitive = @ \cup {Call.path}]
    /\ Return
    /\ UNCHANGED <<fs_ignores, fs_actions, package_actions>>

-----------------------------------------------------------------------------
(* Commands *)

IgnorePath ==
    /\ At({"ignore_path"})
    /\ IF phase = Ignores
       THEN /\ fs_ignores' = fs_ignores \cup {Call.path}
            /\ Return
            /\ UNCHANGED <<settings, fs_actions, package_actions>>
       ELSE Error

\* The later call wins; one for a package manager that is not enabled is skipped.
\* (remove_pkg asks whether the manager is the file backend.)
SetPackage(op, enabled) ==
    IF phase < ScriptDependencies \/ Call.id.manager \notin Backend THEN Error
    ELSE /\ package_actions' = IF Call.id.manager \in enabled
                               THEN [package_actions EXCEPT ![Call.id] = op]
                               ELSE package_actions
         /\ Return
         /\ UNCHANGED <<settings, fs_ignores, fs_actions>>

AddPkg == At({"add_pkg"}) /\ SetPackage("Install", settings.pkg_backends)

RemovePkg == At({"remove_pkg"}) /\ SetPackage("Uninstall", {settings.file_backend})

Queue(valid, instrs) ==
    IF phase = Main /\ valid
    THEN /\ fs_actions' = fs_actions \o instrs
         /\ Return
         /\ UNCHANGED <<settings, fs_ignores, package_actions>>
    ELSE Error

\* rm alone does not verify its path.
Rm == At({"rm"}) /\ Queue(TRUE, <<Instr(Call.path, "Remove", None)>>)

\* copy(path) is copy_from(path, path).
SourceFile(path) == IF path \in Path THEN config_files[path] ELSE None

CopyFrom ==
    /\ At({"copy_from"})
    /\ Queue(Call.path \in Path /\ SourceFile(Call.src) # None,
             <<Instr(Call.path, "CreateFile", SourceFile(Call.src))>>)

Write ==
    /\ At({"write"})
    /\ Queue(Call.path \in Path, <<Instr(Call.path, "CreateFile", Call.contents)>>)

Ln == At({"ln"}) /\ Queue(Call.path \in Path, <<Instr(Call.path, "CreateSymlink", Call.target)>>)

Mkdir == At({"mkdir"}) /\ Queue(Call.path \in Path, <<Instr(Call.path, "CreateDirectory", None)>>)

\* A mutant: the arm for the group was copied from the owner's.
OwnershipAsOwner(call) ==
    IF call.call \in {"chown", "chgrp"} THEN <<Instr(call.path, "SetOwner", call.name)>> ELSE <<>>

Ownership(call) ==
    CASE call.call = "chown" -> <<Instr(call.path, "SetOwner", call.name)>>
      [] call.call = "chgrp" -> <<Instr(call.path, "SetGroup", call.name)>>

Chown == At({"chown", "chgrp"}) /\ Queue(Call.path \in Path, Ownership(Call))

\* A mode that is no number and does not parse is an error.
ChangeMode ==
    /\ At({"chmod"})
    /\ Queue(Call.path \in Path /\ Call.mode \in Mode, <<Instr(Call.path, "SetMode", Call.mode)>>)

\* chown, chgrp and chmod in turn: the first two are queued when the mode is wrong.
Perms ==
    /\ At({"perms"})
    /\ LET owned == << Instr(Call.path, "SetOwner", Call.owner),
                       Instr(Call.path, "SetGroup", Call.group) >>
       IN IF phase = Main /\ Call.path \in Path /\ Call.mode \notin Mode
          THEN /\ fs_actions' = fs_actions \o owned
               /\ progress' = "failed"
               /\ UNCHANGED <<config, phase, pc, settings, fs_ignores, package_actions>>
          ELSE Queue(Call.path \in Path, Append(owned, Instr(Call.path, "SetMode", Call.mode)))

-----------------------------------------------------------------------------
(* systemd units *)

\* Commands::file_contents: the last call for the path, whatever sorting makes of it.
FileContents(path) ==
    LET written == {i \in DOMAIN fs_actions : /\ fs_actions[i].path = path
                                              /\ fs_actions[i].tag = "CreateFile"}
    IN IF written = {} THEN None ELSE fs_actions[Max(written)].arg

\* PackageManager::file_contents; only the file backend has files.
PackagedFile(manager, path) == IF manager = settings.file_backend THEN UnitFiles[path] ELSE None

\* Unit::contents: with and without /usr, as the distribution may not have merged it.
UnitContents(call) ==
    IF call.call = "enable_file" THEN FileContents(call.path)
    ELSE LET there == PackagedFile(call.manager, call.path)
         IN IF there # None THEN there ELSE PackagedFile(call.manager, UsrTwin[call.path])

UnitLinksOf(call, install) ==
    (IF call.aliases THEN install.aliases ELSE {})
    \cup (IF call.wanted_by THEN install.wanted_by ELSE {})

Enable ==
    /\ At({"enable_file", "enable_pkg"})
    /\ LET c == UnitContents(Call) IN
       IF c = None \/ UnitLinks[c] = None THEN Error
       ELSE Queue(TRUE, SetToSeq({Instr(l, "CreateSymlink", Call.path) : l \in UnitLinksOf(Call, UnitLinks[c])}))

Mask == At({"mask"}) /\ Queue(Call.path \in Path, <<Instr(Call.path, "CreateSymlink", DEV_NULL)>>)

\* The virtual machine knows no such function.
UnknownCall == At({"mkfifo", "mknod"}) /\ Error

RunCall ==
    \/ SetFileBackend \/ EnablePkgBackend \/ MarkConfig \/ IgnorePath \/ AddPkg \/ RemovePkg
    \/ Rm \/ CopyFrom \/ Write \/ Ln \/ Mkdir \/ Chown \/ ChangeMode \/ Perms \/ Enable \/ Mask
    \/ UnknownCall
=============================================================================
