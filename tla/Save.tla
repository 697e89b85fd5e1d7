-------------------------------- MODULE Save --------------------------------
(***************************************************************************)
(* konfigkoll save (run_main and cmd_save_changes in konfigkoll/src/main.rs*)
(* konfigkoll_core/src/save.rs, konfigkoll/src/save.rs): a run of the      *)
(* script, the scan of the system, and the calls that would have to be     *)
(* added to the script for it to describe the system, written to           *)
(* unsorted.rn.  The user merges them, all or some, and saves again.       *)
(*                                                                         *)
(* The system does not change meanwhile; nothing that save does touches    *)
(* it.  DryRun, a filter and the sensitive files decide which contents are *)
(* copied to files/, not which calls are written.                          *)
(***************************************************************************)
EXTENDS Commands, FsMaps, Scan

CONSTANTS
    FileBackend,        \* the backends create_files succeeds for, and those that
    PkgBackend,         \* create_packages succeeds for
    Hosted,             \* the systems: [disk, pkgs, explicit]
    Configs,            \* the configurations at first: [script, files]
    Filters,            \* the --filter options considered; None: no filter
    MaxSaves            \* bound on the runs

ASSUME SaveAssumption ==
    /\ IsFiniteSet(Path)
    /\ None \notin FileBackend
    /\ \A h \in Hosted :
          /\ h.disk \in DiskState
          /\ h.pkgs \in [Path -> PkgEntry \cup {None}]
          /\ h.explicit \subseteq PkgIdent /\ IsFiniteSet(h.explicit)
    /\ \A c \in Configs :
          /\ c.files \in [Path -> Contents \cup {None}]
          /\ DOMAIN c.script = SystemDiscovery .. Main
          /\ \A p \in SystemDiscovery .. Main :
                /\ c.script[p] \in Seq(ToSet(c.script[p]))
                /\ \A call \in ToSet(c.script[p]) : Makes(p, call)
    /\ MaxSaves \in Nat
    /\ None \notin {"Install", "Uninstall"}

VARIABLES
    system,
    pkgs_sys,           \* the packages that were found installed
    script_fs, sys_fs,
    unsorted,           \* [additions, removals]: the calls in unsorted.rn
    unsaved,            \* the paths whose contents were not saved with them
    saves,
    merged              \* everything that was written has been merged

saveVars == << commandVars, system, pkgs_sys, script_fs, sys_fs, unsorted, unsaved, saves, merged >>

Nothing == [additions |-> {}, removals |-> {}]

SaveInit ==
    /\ system \in Hosted
    /\ \E c \in Configs : script = c.script /\ config_files = c.files
    /\ phase = SystemDiscovery /\ pc = 1
    /\ progress = "idle"
    /\ settings = FreshSettings
    /\ fs_ignores = {} /\ fs_actions = <<>>
    /\ package_actions = [id \in PkgIdent |-> None]
    /\ pkgs_sys = {}
    /\ script_fs = EmptyMap /\ sys_fs = EmptyMap
    /\ unsorted = Nothing /\ unsaved = {}
    /\ saves = 0
    /\ merged = FALSE

StartRun ==
    /\ progress = "idle"
    /\ NewEngine
    /\ phase' = SystemDiscovery /\ pc' = 1
    /\ progress' = "running"
    /\ UNCHANGED <<config, system, pkgs_sys, script_fs, sys_fs, unsorted, unsaved, saves, merged>>

CallReturns ==
    /\ RunCall
    /\ UNCHANGED <<system, pkgs_sys, script_fs, sys_fs, unsorted, unsaved, saves, merged>>

-----------------------------------------------------------------------------
(* Between the phases *)

Finished(p) == progress = "running" /\ phase = p /\ pc > Len(script[p])

Enter(p) == phase' = p /\ pc' = 1 /\ UNCHANGED progress

\* load_packages: from every backend that is enabled, the packages that are installed.
LoadPackages(backends) == {id \in system.explicit : id.manager \in backends}

\* A file backend must be set, and the backends are created; the installed packages are
\* loaded from then on.
AfterSystemDiscovery ==
    /\ Finished(SystemDiscovery)
    /\ IF settings.file_backend \in FileBackend /\ settings.pkg_backends \subseteq PkgBackend
       THEN /\ Enter(Ignores)
            /\ pkgs_sys' = LoadPackages(settings.pkg_backends)
       ELSE progress' = "failed" /\ UNCHANGED <<phase, pc, pkgs_sys>>
    /\ UNCHANGED <<config, engine, system, script_fs, sys_fs, unsorted, unsaved, saves, merged>>

\* "No matching package backend?", a panic; then the scan starts in the background.
AfterIgnores ==
    /\ Finished(Ignores)
    /\ IF settings.file_backend \in settings.pkg_backends THEN Enter(ScriptDependencies)
       ELSE progress' = "panicked" /\ UNCHANGED <<phase, pc>>
    /\ UNCHANGED <<config, engine, system, pkgs_sys, script_fs, sys_fs, unsorted, unsaved, saves, merged>>

\* Only apply installs packages now.
AfterScriptDependencies ==
    /\ Finished(ScriptDependencies)
    /\ Enter(Main)
    /\ UNCHANGED <<config, engine, system, pkgs_sys, script_fs, sys_fs, unsorted, unsaved, saves, merged>>

AfterMain ==
    /\ Finished(Main)
    /\ IF ScanFails(system.disk, system.pkgs, fs_ignores)
       THEN progress' = "failed" /\ UNCHANGED <<script_fs, sys_fs>>
       ELSE /\ progress' = "folded"
            /\ script_fs' = BuildMap(ToSet(fs_actions))
            /\ sys_fs' = BuildMap(ScanInstructions(system.disk, system.pkgs, fs_ignores))
    /\ UNCHANGED <<config, phase, pc, engine, system, pkgs_sys, unsorted, unsaved, saves, merged>>

-----------------------------------------------------------------------------
(* Saving *)

\* save_packages.
PkgLine(op, id) == [call |-> IF op = "Install" THEN "add_pkg" ELSE "remove_pkg", id |-> id]

\* package_diff compares identifier and operation: what differs counts on both sides.
PkgAdditions == {PkgLine("Install", id) : id \in {i \in pkgs_sys : package_actions[i] # "Install"}}

\* The script's own, inverted.
PkgRemovals ==
    {PkgLine(IF package_actions[id] = "Install" THEN "Uninstall" ELSE "Install", id) :
        id \in {i \in PkgIdent : \/ package_actions[i] = "Uninstall"
                                 \/ package_actions[i] = "Install" /\ i \notin pkgs_sys}}

FsChanges == SaveDiff(script_fs, sys_fs)

\* save_fs_changes; comments and what cannot be saved become no calls.
LineFor(i) ==
    LET p == i.path
    IN CASE i.tag = "Remove"            -> [call |-> "rm", path |-> p]
         [] i.tag = "CreateFile"        -> [call |-> "copy_from", path |-> p, src |-> p]
         [] i.tag = "CreateSymlink"     -> [call |-> "ln", path |-> p, target |-> i.arg]
         [] i.tag = "CreateDirectory"   -> [call |-> "mkdir", path |-> p]
         [] i.tag = "CreateFifo"        -> [call |-> "mkfifo", path |-> p]
         [] i.tag = "CreateBlockDevice" -> [call |-> "mknod", path |-> p, type |-> "b"]
         [] i.tag = "CreateCharDevice"  -> [call |-> "mknod", path |-> p, type |-> "c"]
         [] i.tag = "SetMode"           -> [call |-> "chmod", path |-> p, mode |-> i.arg]
         [] i.tag = "SetOwner"          -> [call |-> "chown", path |-> p, name |-> i.arg]
         [] i.tag = "SetGroup"          -> [call |-> "chgrp", path |-> p, name |-> i.arg]

Additions == {i \in FsChanges : i.tag \notin {"Comment", "Restore"}}

\* Whose contents stay where they are: the closure that cmd_save_changes hands to
\* save_fs_changes.
Withheld(path, filter, dry) ==
    \/ path \in settings.sensitive
    \/ dry
    \/ filter # None /\ filter \notin Ancestors[path]

\* file_data_saver writes the contents to files/, and the others nothing: an instruction
\* holds the contents of the file, or where on the system they are.
FilesWith(copied) ==
    [p \in Path |-> IF \E i \in copied : i.path = p
                    THEN (CHOOSE i \in copied : i.path = p).arg ELSE config_files[p]]

SaveChanges ==
    /\ progress = "folded"
    /\ saves < MaxSaves
    /\ \E filter \in Filters, dry \in BOOLEAN :
         LET created == {i \in Additions : i.tag = "CreateFile"}
             copied  == {i \in created : ~Withheld(i.path, filter, dry)}
         IN /\ config_files' = FilesWith(copied)
            /\ unsaved' = {i.path : i \in created \ copied}
    /\ unsorted' = [additions |-> PkgAdditions \cup {LineFor(i) : i \in Additions},
                    removals  |-> PkgRemovals]
    /\ progress' = "saved"
    /\ saves' = saves + 1
    /\ merged' = FALSE
    /\ UNCHANGED <<script, phase, pc, engine, system, pkgs_sys, script_fs, sys_fs>>

-----------------------------------------------------------------------------
(* The user merges what was written; not code of the repository *)

IsFsCall(call) == call.call \notin {"add_pkg", "remove_pkg"}

\* A queued instruction, as a call of its own.
PlainCall(i) ==
    IF i.tag = "CreateFile" THEN [call |-> "write", path |-> i.path, contents |-> i.arg]
    ELSE LineFor(i)

EntryTags == CreateTags \cup {"Remove"}

\* What the configuration said of a path before, where a line says otherwise.
Superseded(i, taken) ==
    \E j \in taken : j.path = i.path /\ (j.tag = i.tag \/ {i.tag, j.tag} \subseteq EntryTags)

\* A sequence of the members of a finite set.
Listed(S) ==
    LET list[T \in SUBSET S] ==
            IF T = {} THEN <<>>
            ELSE LET l == CHOOSE l \in T : TRUE IN Append(list[T \ {l}], l)
    IN list[S]

Unknown(i) == i.tag \in {"CreateFifo", "CreateBlockDevice", "CreateCharDevice"}

\* All lines, or those for one path: the calls they contradict are taken out, as the
\* order of the calls would not decide between them, and the lines are appended.
Merge ==
    /\ progress = "saved"
    /\ \E taken \in {Additions} \cup {{i \in Additions : i.path = p} : p \in Path} :
         /\ LET others == [n \in DOMAIN script[Main] |->
                    IF IsFsCall(script[Main][n]) THEN <<>> ELSE <<script[Main][n]>>]
                kept == [n \in DOMAIN fs_actions |->
                    IF Superseded(fs_actions[n], taken) THEN <<>> ELSE <<PlainCall(fs_actions[n])>>]
                lines == PkgAdditions \cup {LineFor(i) : i \in taken}
            IN script' = [script EXCEPT ![Main] =
                             (FlattenSeq(others) \o FlattenSeq(kept)) \o Listed(lines)]
         /\ merged' = (/\ taken = Additions /\ unsaved = {}
                       /\ \A i \in Additions : ~Unknown(i))
    /\ progress' = "idle"
    /\ UNCHANGED << config_files, phase, pc, engine, system, pkgs_sys, script_fs, sys_fs,
                    unsorted, unsaved, saves >>

SaveNext ==
    \/ StartRun \/ CallReturns \/ AfterSystemDiscovery \/ AfterIgnores
    \/ AfterScriptDependencies \/ AfterMain \/ SaveChanges \/ Merge

SaveSpec == SaveInit /\ [][SaveNext]_saveVars

-----------------------------------------------------------------------------
(* Properties *)

SaveTypeOK ==
    /\ DOMAIN script = SystemDiscovery .. Main
    /\ config_files \in [Path -> Contents \cup {None}]
    /\ phase \in SystemDiscovery .. Main
    /\ progress # "idle" => pc \in 1 .. (Len(script[phase]) + 1)
    /\ progress \in {"idle", "running", "failed", "panicked", "folded", "saved"}
    /\ settings.file_backend \in Backend \cup {None}
    /\ settings.pkg_backends \subseteq Backend
    /\ ToSet(fs_actions) \subseteq FsInstruction
    /\ package_actions \in [PkgIdent -> {"Install", "Uninstall", None}]
    /\ pkgs_sys \subseteq system.explicit
    /\ script_fs \in FsMap /\ sys_fs \in FsMap
    /\ unsaved \subseteq Path
    /\ saves \in 0 .. MaxSaves

\* The scan found only other metadata for a packaged path of which the configuration
\* says what it is.  diff takes that for a change of type: the line is an rm.
TakenForRemoved(p) ==
    /\ sys_fs[p] # NoNode /\ sys_fs[p].entry = Unchanged
    /\ script_fs[p] # NoNode /\ script_fs[p].entry # Unchanged

\* The owner or the group of a packaged path was changed to root: into_instruction leaves
\* root out, which is right for what it creates and wrong for what is there already.  Once
\* the configuration says anything else of the path, the next save has the missing line.
RootLeftOut(p) ==
    /\ sys_fs[p].entry = Unchanged
    /\ script_fs[p] # NoNode => script_fs[p].entry = Unchanged
    /\ \/ sys_fs[p].owner = ROOT /\ (script_fs[p] # NoNode => script_fs[p].owner = None)
       \/ sys_fs[p].group = ROOT /\ (script_fs[p] # NoNode => script_fs[p].group = None)

\* A link in place of a packaged file: the scan reports the mode of the link itself,
\* which the line for the link does not give and the next save asks for.
ModeOfLink(i) == i.tag = "SetMode" /\ sys_fs[i.path].entry.kind = "Symlink"

\* In place of something packaged is a socket.  No instruction makes one, the line is an rm.
SocketThere(p) == system.disk[p] # NoNode /\ system.disk[p].kind = "Socket"

\* The configuration had a directory only for what it makes in it, and was given lines for
\* its metadata.  Now that is all it says of the path, which is another type for diff.
OnTheWay(p) ==
    /\ script_fs[p] # NoNode /\ script_fs[p].entry = Unchanged
    /\ sys_fs[p] # NoNode /\ sys_fs[p].entry = Directory

LineRemoves(p) == [call |-> "rm", path |-> p] \in unsorted.additions

\* It had one for what a line has it remove.
NothingLeftIn(p) ==
    script_fs[p] = NoNode /\ \E q \in Path : p \in StrictAncestors(q) /\ LineRemoves(q)

HardCase(p) == TakenForRemoved(p) \/ SocketThere(p) \/ OnTheWay(p) \/ NothingLeftIn(p)

\* A directory in place of a file, or a file in place of a directory, of the mode that is
\* the other's default: diff sees no difference, and what is made anew gets its own default.
ModeOfOther(i) ==
    /\ i.tag = "SetMode" /\ i.arg \in {DEFAULT_FILE_MODE, DEFAULT_DIR_MODE}
    /\ LineRemoves(i.path)

\* Once everything that save wrote is merged, saving again runs the script without an
\* error and has no more lines to write: the calls it wrote exist, mean what they
\* were written for, find their contents, and win against the calls there were.
MergedIsUpToDate ==
    merged =>
        /\ progress # "failed"
        /\ progress = "folded" =>
              /\ PkgAdditions = {}
              /\ \A i \in Additions :
                    \/ HardCase(i.path)
                    \/ i.arg = ROOT /\ RootLeftOut(i.path)
                    \/ ModeOfLink(i) \/ ModeOfOther(i)

\* What the scan found out about a path is what an instruction of this kind changes.
Reported(p, tag) ==
    CASE tag = "SetMode"  -> sys_fs[p].mode # None
      [] tag = "SetOwner" -> sys_fs[p].owner # None
      [] tag = "SetGroup" -> sys_fs[p].group # None
      [] tag = "Comment"  -> FALSE
      [] OTHER            -> sys_fs[p].entry # Unchanged

\* Once everything is merged, apply leaves what the scan reported as it is: it neither
\* puts it back to what the package says nor changes it to something else.
MergedIsKept ==
    merged /\ progress = "folded" =>
        \A p \in Path : sys_fs[p] # NoNode /\ ~HardCase(p) /\ ~RootLeftOut(p) =>
            \A i \in DiffPath(p, sys_fs[p], script_fs[p], LeftApply(p, sys_fs[p], system.pkgs[p])) :
                ~Reported(p, i.tag) \/ ModeOfLink(i) \/ ModeOfOther(i)
=============================================================================
