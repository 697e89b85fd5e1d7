----------------------------- MODULE SaveProofs -----------------------------
(***************************************************************************)
(* For every set of packages, paths and values, every configuration and    *)
(* every number of runs, saves and merges: the variables of konfigkoll     *)
(* save keep their types, theorem SaveTyped, and with those of the editor  *)
(* and of the users and groups, theorem ScriptTyped; what was written and  *)
(* merged is up to date, theorem MergedUpToDate, and stays on the system,  *)
(* theorem MergedKept.                                                     *)
(*                                                                         *)
(* The script is an unbounded sequence that the user edits between two     *)
(* runs, so its calls are part of the invariant (SaveInv): they are calls  *)
(* the engine has, with arguments it can convert. That needs what one call *)
(* does, whichever it is (CallOutcome), what is written to unsorted.rn     *)
(* (SavedTyped), and of the merged script that its calls are those that    *)
(* were no calls for files, the instructions that are not contradicted,    *)
(* and the lines (MergedMembers): lists that are made of finite sets, and  *)
(* lists of lists put together, whose members are found by induction on    *)
(* sets (ListedIs, MembersOfAll).                                          *)
(*                                                                         *)
(* What was merged is two arguments. One has no steps (MergedMaps): of a   *)
(* configuration F and the lines A that save wrote of it, folding F        *)
(* without what A contradicts, and A, gives a map that differs from the    *)
(* scan in the hard cases only; field by field (FieldMerged), then for the *)
(* entry (MergedEntry). The other is that a run of the merged script folds *)
(* just that: while it runs, the engine holds what its calls so far amount *)
(* to (RunRead), each of them returns (MergeRight, MergedCall), the scan   *)
(* leaves out what it did before, and the last word on each installed      *)
(* package is that it be installed (MergedWins).                           *)
(***************************************************************************)
EXTENDS ScriptPluginsProofs, FsMapsProofs
-----------------------------------------------------------------------------
(* What save writes of a path *)

\* Additions, of any two maps.
SavedFrom(s, y) == {i \in SaveDiff(s, y) : i.tag \notin {"Comment", "Restore"}}

\* What the merged calls ask for.
Updated(F, A) == {i \in F : ~Superseded(i, A)} \cup A

\* The fields of an instruction that is spelt out.
LEMMA InstrFields ==
    ASSUME NEW p, NEW tag, NEW arg
    PROVE  /\ Instr(p, tag, arg).path = p /\ Instr(p, tag, arg).tag = tag
           /\ Instr(p, tag, arg).arg = arg
  BY DEF Instr

\* The instructions of a path.
SavedAt(p, x, y) ==
    {i \in DiffPath(p, x, y, {Instr(p, "Comment", None)}) : i.tag \notin {"Comment", "Restore"}}

\* What save writes of a path: which instructions, for a path the configuration does
\* not know and for one it does.
LEMMA SavedAtIs ==
    ASSUME NEW p \in Path, NEW x \in FsNode \cup {NoNode}, NEW y \in FsNode \cup {NoNode}
    PROVE  /\ y = NoNode => SavedAt(p, x, y) = {}
           /\ y # NoNode /\ x = NoNode => SavedAt(p, x, y) = IntoInstructions(p, y)
           /\ y # NoNode /\ x # NoNode =>
                 SavedAt(p, x, y) =
                    (IF x.entry = y.entry THEN {} ELSE ReplaceEntry(p, x, y))
                    \cup {i \in MetadataDiff(p, x, y) : i.tag # "Comment"}
           /\ \A i \in SavedAt(p, x, y) :
                 /\ i \in FsInstruction /\ i.path = p
                 /\ i.tag = "Remove" => i = Instr(p, "Remove", None)
           /\ IsFiniteSet(SavedAt(p, x, y))
<1>. DEFINE D == DiffPath(p, x, y, {Instr(p, "Comment", None)})
<1>0. /\ SavedAt(p, x, y) = {i \in D : i.tag \notin {"Comment", "Restore"}}
      /\ \A t, a : Instr(p, t, a).path = p /\ Instr(p, t, a).tag = t
      /\ \A S, T : IsFiniteSet(S) /\ T \subseteq S => IsFiniteSet(T)
      /\ \A S, T : IsFiniteSet(S) /\ IsFiniteSet(T) => IsFiniteSet(S \cup T)
      /\ \A a : IsFiniteSet({a})
      /\ IsFiniteSet({})
  BY FS_Subset, FS_Union, FS_Singleton, FS_EmptySet DEF SavedAt, Instr
<1>1. CASE y = NoNode
  <2>1. \A i \in D : i.tag = "Comment"
    BY <1>0, <1>1 DEF DiffPath
  <2>2. SavedAt(p, x, y) = {}
    BY <1>0, <2>1
  <2>. QED  BY <1>0, <1>1, <2>2
<1>2. ASSUME y # NoNode
      PROVE  /\ y \in FsNode /\ y.entry \in FsEntry
             /\ BaseInstruction(p, y.entry) \subseteq FsInstruction
             /\ \A i \in BaseInstruction(p, y.entry) :
                   /\ i.path = p /\ i.tag \notin {"Comment", "Restore"}
                   /\ i.tag = "Remove" => i = Instr(p, "Remove", None)
             /\ IsFiniteSet(BaseInstruction(p, y.entry))
  <2>1. y \in FsNode /\ y.entry \in FsEntry
    BY <1>2, NodeFields
  <2>2. /\ \A i, j \in BaseInstruction(p, y.entry) : i = j
        /\ \A i \in BaseInstruction(p, y.entry) :
              /\ i.path = p
              /\ i.tag \in CreateTags \cup {"Remove"}
              /\ i.tag = "Remove" => i = Instr(p, "Remove", None)
    BY <2>1, BaseOne
  <2>3. IsFiniteSet(BaseInstruction(p, y.entry))
    <3>. DEFINE B == BaseInstruction(p, y.entry)
    <3>1. CASE B = {}
      BY <1>0, <3>1
    <3>2. CASE B # {}
      <4>1. PICK b \in B : TRUE
        BY <3>2
      <4>2. B \subseteq {b}
        BY <2>2
      <4>. HIDE DEF B
      <4>3. IsFiniteSet(B)
        BY <1>0, <4>2
      <4>. QED  BY <4>3 DEF B
    <3>. QED  BY <3>1, <3>2
  <2>. QED  BY <2>1, <2>2, <2>3, BaseTyped DEF CreateTags
<1>3. CASE y # NoNode /\ x = NoNode
  <2>. DEFINE I == IntoInstructions(p, y)
              B == BaseInstruction(p, y.entry)
              R == {Instr(p, "Remove", None), Instr(p, "SetMode", y.mode),
                    Instr(p, "SetOwner", y.owner), Instr(p, "SetGroup", y.group)}
  <2>1. I \subseteq B \cup R
    BY DEF IntoInstructions
  <2>2. ASSUME NEW i \in I
        PROVE  /\ i \in FsInstruction /\ i.path = p /\ i.tag \notin {"Comment", "Restore"}
               /\ i.tag = "Remove" => i = Instr(p, "Remove", None)
    <3>1. CASE i \in B
      BY <1>2, <1>3, <3>1
    <3>2. CASE i = Instr(p, "Remove", None)
      BY <1>0, <3>2, Typed
    <3>3. CASE i \notin B /\ i # Instr(p, "Remove", None)
      <4>1. \/ i = Instr(p, "SetMode", y.mode) /\ y.mode # None
            \/ i = Instr(p, "SetOwner", y.owner) /\ y.owner # None
            \/ i = Instr(p, "SetGroup", y.group) /\ y.group # None
        BY <3>3 DEF IntoInstructions
      <4>2. y.mode \in Mode \cup {None} /\ y.owner \in Name \cup {None} /\ y.group \in Name \cup {None}
        BY <1>2, <1>3, NodeFields
      <4>. QED  BY <1>0, <4>1, <4>2, Typed
    <3>. QED  BY <3>1, <3>2, <3>3
  <2>3. D = I
    BY <1>3 DEF DiffPath
  <2>4. SavedAt(p, x, y) = I
    BY <1>0, <2>2, <2>3
  <2>5. IsFiniteSet(I)
    <3>1. IsFiniteSet(R)
      <4>1. R = ({Instr(p, "Remove", None)} \cup {Instr(p, "SetMode", y.mode)})
                \cup ({Instr(p, "SetOwner", y.owner)} \cup {Instr(p, "SetGroup", y.group)})
        OBVIOUS
      <4>. HIDE DEF R
      <4>. QED  BY <1>0, <4>1
    <3>. HIDE DEF R, B, I
    <3>2. IsFiniteSet(B)
      BY <1>2, <1>3 DEF B
    <3>3. IsFiniteSet(B \cup R)
      BY <1>0, <3>1, <3>2
    <3>. QED  BY <1>0, <2>1, <3>3
  <2>. HIDE DEF I
  <2>. QED  BY <1>3, <2>2, <2>4, <2>5 DEF I
<1>4. CASE y # NoNode /\ x # NoNode
  <2>. DEFINE B == BaseInstruction(p, y.entry)
              R == IF x.entry = y.entry THEN {} ELSE ReplaceEntry(p, x, y)
              M == MetadataDiff(p, x, y)
              N == {i \in M : i.tag # "Comment"}
              W == {Instr(p, "Comment", None), Instr(p, "SetMode", y.mode),
                    Instr(p, "SetOwner", y.owner), Instr(p, "SetGroup", y.group)}
  <2>1. D = R \cup M
    BY <1>4 DEF DiffPath, DiffBoth
  <2>2. R \subseteq B \cup {Instr(p, "Remove", None)}
    BY DEF ReplaceEntry
  <2>3. ASSUME NEW i \in R
        PROVE  /\ i \in FsInstruction /\ i.path = p /\ i.tag \notin {"Comment", "Restore"}
               /\ i.tag = "Remove" => i = Instr(p, "Remove", None)
    <3>. HIDE DEF R
    <3>. QED  BY <1>0, <1>2, <1>4, <2>2, Typed
  <2>4. M \subseteq W
    BY DEF MetadataDiff, FieldDiff
  <2>5. ASSUME NEW i \in N
        PROVE  i \in FsInstruction /\ i.path = p /\ i.tag \in MetaTags
    <3>1. /\ i.path = p /\ i.tag \in MetaTags \cup {"Comment"}
      BY MetadataOne
    <3>2. \/ i = Instr(p, "SetMode", y.mode) /\ y.mode # None
          \/ i = Instr(p, "SetOwner", y.owner) /\ y.owner # None
          \/ i = Instr(p, "SetGroup", y.group) /\ y.group # None
      BY <1>0 DEF MetadataDiff, FieldDiff
    <3>3. y.mode \in Mode \cup {None} /\ y.owner \in Name \cup {None} /\ y.group \in Name \cup {None}
      BY <1>2, <1>4, NodeFields
    <3>. QED  BY <3>1, <3>2, <3>3, Typed
  <2>6. \A i \in N : i.tag \notin {"Comment", "Restore", "Remove"}
    BY <2>5 DEF MetaTags
  <2>7. \A i \in M : i.tag # "Restore"
    BY MetadataOne DEF MetaTags
  <2>8. SavedAt(p, x, y) = R \cup N
    <3>. HIDE DEF R, M
    <3>. QED  BY <1>0, <2>1, <2>3, <2>7
  <2>9. IsFiniteSet(R \cup N)
    <3>1. IsFiniteSet(W)
      <4>1. W = ({Instr(p, "Comment", None)} \cup {Instr(p, "SetMode", y.mode)})
                \cup ({Instr(p, "SetOwner", y.owner)} \cup {Instr(p, "SetGroup", y.group)})
        OBVIOUS
      <4>. HIDE DEF W
      <4>. QED  BY <1>0, <4>1
    <3>2. IsFiniteSet(B) /\ IsFiniteSet({Instr(p, "Remove", None)})
      BY <1>0, <1>2, <1>4
    <3>. HIDE DEF W, B, R, M
    <3>3. IsFiniteSet(B \cup {Instr(p, "Remove", None)})
      BY <1>0, <3>2
    <3>4. IsFiniteSet(R) /\ IsFiniteSet(N)
      <4>1. N \subseteq W
        BY <2>4
      <4>. HIDE DEF N
      <4>. QED  BY <1>0, <2>2, <3>1, <3>3, <4>1
    <3>. HIDE DEF N
    <3>. QED  BY <1>0, <3>4
  <2>. HIDE DEF R, M
  <2>10. \A i \in SavedAt(p, x, y) :
                 /\ i \in FsInstruction /\ i.path = p
                 /\ i.tag = "Remove" => i = Instr(p, "Remove", None)
    BY <2>3, <2>5, <2>6, <2>8
  <2>. QED  BY <1>4, <2>8, <2>9, <2>10 DEF R, M
<1>. QED  BY <1>1, <1>3, <1>4

\* The instructions that save writes, path by path.
LEMMA SavedTyped ==
    ASSUME IsFiniteSet(Path), NEW s \in FsMap, NEW y \in FsMap
    PROVE  /\ SavedFrom(s, y) \in SUBSET FsInstruction
           /\ IsFiniteSet(SavedFrom(s, y))
           /\ \A p \in Path : {i \in SavedFrom(s, y) : i.path = p} = SavedAt(p, s[p], y[p])
<1>. DEFINE D(p) == DiffPath(p, s[p], y[p], {Instr(p, "Comment", None)})
            AtP(p) == SavedAt(p, s[p], y[p])
            T == {AtP(p) : p \in Path}
            f == [p \in Path |-> AtP(p)]
            W == SavedFrom(s, y)
<1>1. \A p \in Path : AtP(p) = {i \in D(p) : i.tag \notin {"Comment", "Restore"}}
  BY DEF SavedAt
<1>2. W = {i \in UNION {D(p) : p \in Path} : i.tag \notin {"Comment", "Restore"}}
  BY DEF SavedFrom, SaveDiff
<1>3. \A p \in Path : s[p] \in FsNode \cup {NoNode} /\ y[p] \in FsNode \cup {NoNode}
  BY DEF FsMap
<1>4. \A p \in Path : IsFiniteSet(AtP(p)) /\ \A i \in AtP(p) : i \in FsInstruction /\ i.path = p
  BY <1>3, SavedAtIs
<1>. HIDE DEF D, AtP, W
<1>5. W = UNION T
  BY <1>1, <1>2
<1>6. f \in Surjection(Path, T)
  BY DEF Surjection
<1>7. IsFiniteSet(T)
  BY <1>6, FS_Surjection
<1>8. \A S \in T : IsFiniteSet(S)
  BY <1>4
<1>9. IsFiniteSet(W)
  BY <1>5, <1>7, <1>8, FS_UNION
<1>10. \A p \in Path : {i \in W : i.path = p} = AtP(p)
  BY <1>4, <1>5
<1>11. W \in SUBSET FsInstruction
  BY <1>4, <1>5
<1>. QED  BY <1>9, <1>10, <1>11 DEF W, AtP

-----------------------------------------------------------------------------
(* One call of the script *)

\* What a call can queue.
Queued ==
    {i \in FsInstruction :
        i.tag \notin {"Comment", "Restore", "CreateFifo", "CreateBlockDevice", "CreateCharDevice"}}

\* Those instructions, by what they are made of.
LEMMA QueuedTyped ==
    ASSUME NEW p \in Path
    PROVE  /\ Instr(p, "Remove", None) \in Queued
           /\ Instr(p, "CreateDirectory", None) \in Queued
           /\ \A c \in Contents : Instr(p, "CreateFile", c) \in Queued
           /\ \A t \in Targets : Instr(p, "CreateSymlink", t) \in Queued
           /\ \A m \in Mode : Instr(p, "SetMode", m) \in Queued
           /\ \A n \in Name : /\ Instr(p, "SetOwner", n) \in Queued
                              /\ Instr(p, "SetGroup", n) \in Queued
  BY Typed, InstrFields DEF Queued

SettingsFields == {"file_backend", "pkg_backends", "early", "sensitive"}

\* The calls that return whenever they are made, for good or not to be told apart.
FineAnywhere(p, c) ==
    \/ c.call \in {"set_file_backend", "enable_pkg_backend"} /\ c.name \in Backend
    \/ c.call \in {"early_config", "sensitive_config"}
    \/ c.call = "ignore_path" /\ p = Ignores
    \/ c.call \in {"add_pkg", "remove_pkg"} /\ p >= ScriptDependencies /\ c.id.manager \in Backend

\* The calls that queue one instruction, and which one.
Meaning(c) ==
    CASE c.call = "rm"        -> Instr(c.path, "Remove", None)
      [] c.call = "copy_from" -> Instr(c.path, "CreateFile", SourceFile(c.src))
      [] c.call = "write"     -> Instr(c.path, "CreateFile", c.contents)
      [] c.call = "ln"        -> Instr(c.path, "CreateSymlink", c.target)
      [] c.call = "mkdir"     -> Instr(c.path, "CreateDirectory", None)
      [] c.call = "chmod"     -> Instr(c.path, "SetMode", c.mode)
      [] c.call = "chown"     -> Instr(c.path, "SetOwner", c.name)
      [] c.call = "chgrp"     -> Instr(c.path, "SetGroup", c.name)

PlainCalls == {"rm", "copy_from", "write", "ln", "mkdir", "chmod", "chown", "chgrp"}

PlainFine(c) ==
    /\ c.call \in PlainCalls
    /\ c.path \in Path
    /\ c.call = "copy_from" => SourceFile(c.src) # None
    /\ c.call = "chmod" => c.mode \in Mode

Fine(p, c) == FineAnywhere(p, c) \/ (p = Main /\ PlainFine(c))

\* A call for a package that has an effect, and which.
PkgCall(c) == c.call \in {"add_pkg", "remove_pkg"}

Effective(c) ==
    \/ c.call = "add_pkg" /\ c.id.manager \in settings.pkg_backends
    \/ c.call = "remove_pkg" /\ c.id.manager = settings.file_backend

\* What can be said of every call that returned.
Right(p, c) == Fine(p, c) \/ (p = Main /\ ~PkgCall(c) /\ c.call # "ignore_path")

Failed ==
    /\ progress' = "failed" /\ pc' = pc
    /\ UNCHANGED <<settings, fs_ignores, package_actions>>
    /\ ~Fine(phase, Call)

Returned ==
    /\ progress' = progress /\ pc' = pc + 1
    /\ Right(phase, Call)
    /\ settings'.file_backend = IF Call.call = "set_file_backend" THEN Call.name ELSE settings.file_backend
    /\ settings'.pkg_backends = IF Call.call = "enable_pkg_backend"
                                THEN settings.pkg_backends \cup {Call.name} ELSE settings.pkg_backends
    /\ fs_ignores' = IF Call.call = "ignore_path" THEN fs_ignores \cup {Call.path} ELSE fs_ignores
    /\ package_actions' =
          IF PkgCall(Call) /\ Effective(Call)
          THEN [package_actions EXCEPT ![Call.id] = IF Call.call = "add_pkg" THEN "Install" ELSE "Uninstall"]
          ELSE package_actions
    /\ IF Call.call \in PlainCalls THEN fs_actions' = Append(fs_actions, Meaning(Call))
       ELSE FineAnywhere(phase, Call) => fs_actions' = fs_actions

Outcome ==
    /\ UNCHANGED <<script, config_files, phase>>
    /\ DOMAIN settings' = SettingsFields
    /\ fs_actions' \in Seq(Queued)
    /\ progress = "running" /\ pc \in DOMAIN script[phase]
    /\ Failed \/ Returned

\* The types of what the script works on.
CallsTyped ==
    /\ DOMAIN script = SystemDiscovery .. Main
    /\ \A p \in SystemDiscovery .. Main :
          /\ script[p] \in Seq(ToSet(script[p]))
          /\ \A call \in ToSet(script[p]) : Makes(p, call)
    /\ config_files \in [Path -> Contents \cup {None}]
    /\ phase \in SystemDiscovery .. Main
    /\ progress # "idle" => pc \in 1 .. (Len(script[phase]) + 1)
    /\ DOMAIN settings = SettingsFields
    /\ fs_actions \in Seq(Queued)
    /\ package_actions \in [PkgIdent -> {"Install", "Uninstall", None}]

\* The call that is made next is one the script may hold.
LEMMA CallOf ==
    ASSUME CallsTyped, NEW names, At(names)
    PROVE  /\ progress = "running" /\ pc \in DOMAIN script[phase] /\ pc \in Nat
           /\ Call.call \in names /\ Makes(phase, Call) /\ Call \in ToSet(script[phase])
           /\ pc + 1 \in 1 .. (Len(script[phase]) + 1)
<1>1. phase \in SystemDiscovery .. Main /\ script[phase] \in Seq(ToSet(script[phase]))
  BY DEF CallsTyped
<1>2. Len(script[phase]) \in Nat /\ DOMAIN script[phase] = 1 .. Len(script[phase])
  BY <1>1, LenProperties
<1>3. progress = "running" /\ pc <= Len(script[phase]) /\ Call.call \in names
  BY DEF At
<1>4. pc \in 1 .. Len(script[phase])
  BY <1>2, <1>3 DEF CallsTyped
<1>5. Call \in ToSet(script[phase])
  BY <1>2, <1>4 DEF Call, ToSet
<1>. QED  BY <1>1, <1>2, <1>3, <1>4, <1>5 DEF CallsTyped

\* A call that fails.
LEMMA ErrorOutcome ==
    ASSUME CallsTyped, NEW names, At(names), Error, ~Fine(phase, Call)
    PROVE  Outcome
  BY CallOf DEF Outcome, Failed, Error, CallsTyped, config, engine

\* A call that queues the one instruction it means, if it is right.
LEMMA QueueOutcome ==
    ASSUME CallsTyped, NEW names, At(names), names \subseteq PlainCalls,
           NEW valid, Queue(valid, <<Meaning(Call)>>), valid \in BOOLEAN,
           Fine(phase, Call) => phase = Main /\ valid,
           phase = Main /\ valid => Meaning(Call) \in Queued
    PROVE  Outcome
<1>1. CASE phase = Main /\ valid
  <2>1. /\ fs_actions' = fs_actions \o <<Meaning(Call)>> /\ Return
        /\ UNCHANGED <<settings, fs_ignores, package_actions>>
    BY <1>1 DEF Queue
  <2>2. fs_actions \o <<Meaning(Call)>> = Append(fs_actions, Meaning(Call))
        /\ Append(fs_actions, Meaning(Call)) \in Seq(Queued)
    BY <1>1, AppendIsConcat, AppendProperties DEF CallsTyped
  <2>3. /\ Call.call \in PlainCalls /\ ~PkgCall(Call)
        /\ Call.call \notin {"set_file_backend", "enable_pkg_backend", "ignore_path"}
    BY CallOf DEF PlainCalls, PkgCall
  <2>. QED  BY <1>1, <2>1, <2>2, <2>3, CallOf DEF Outcome, Returned, Right, Return, CallsTyped, config
<1>2. CASE ~(phase = Main /\ valid)
  BY <1>2, ErrorOutcome DEF Queue
<1>. QED  BY <1>1, <1>2

\* The settings.
LEMMA SettingsOutcome ==
    ASSUME CallsTyped, SetFileBackend \/ EnablePkgBackend \/ MarkConfig
    PROVE  Outcome
<1>1. CASE SetFileBackend
  <2>1. At({"set_file_backend"}) /\ Call.call = "set_file_backend"
    BY <1>1, CallOf DEF SetFileBackend
  <2>2. CASE Call.name \in Backend
    BY <1>1, <2>1, <2>2, CallOf
       DEF SetFileBackend, Outcome, Returned, Right, Return, CallsTyped, config, SettingsFields, PkgCall,
           PlainCalls, Fine, FineAnywhere
  <2>3. CASE Call.name \notin Backend
    <3>1. ~Fine(phase, Call) /\ Error
      BY <1>1, <2>1, <2>3 DEF SetFileBackend, Fine, FineAnywhere, PlainFine, PlainCalls
    <3>. QED  BY <2>1, <3>1, ErrorOutcome
  <2>. QED  BY <2>2, <2>3
<1>2. CASE EnablePkgBackend
  <2>1. At({"enable_pkg_backend"}) /\ Call.call = "enable_pkg_backend"
    BY <1>2, CallOf DEF EnablePkgBackend
  <2>2. CASE Call.name \in Backend
    BY <1>2, <2>1, <2>2, CallOf
       DEF EnablePkgBackend, Outcome, Returned, Right, Return, CallsTyped, config, SettingsFields, PkgCall,
           PlainCalls, Fine, FineAnywhere
  <2>3. CASE Call.name \notin Backend
    <3>1. ~Fine(phase, Call) /\ Error
      BY <1>2, <2>1, <2>3 DEF EnablePkgBackend, Fine, FineAnywhere, PlainFine, PlainCalls
    <3>. QED  BY <2>1, <3>1, ErrorOutcome
  <2>. QED  BY <2>2, <2>3
<1>3. CASE MarkConfig
  <2>1. Call.call \in {"early_config", "sensitive_config"} /\ progress = "running" /\ pc \in DOMAIN script[phase]
    BY <1>3, CallOf DEF MarkConfig
  <2>2. /\ DOMAIN settings' = SettingsFields
        /\ settings'.file_backend = settings.file_backend
        /\ settings'.pkg_backends = settings.pkg_backends
    BY <1>3 DEF MarkConfig, CallsTyped, SettingsFields
  <2>. QED  BY <1>3, <2>1, <2>2
       DEF MarkConfig, Outcome, Returned, Right, Return, CallsTyped, config, PkgCall, PlainCalls, Fine, FineAnywhere
<1>. QED  BY <1>1, <1>2, <1>3

\* ignore_path.
LEMMA IgnoreOutcome ==
    ASSUME CallsTyped, IgnorePath
    PROVE  Outcome
<1>1. At({"ignore_path"}) /\ Call.call = "ignore_path"
  BY CallOf DEF IgnorePath
<1>2. CASE phase = Ignores
  BY <1>1, <1>2, CallOf
     DEF IgnorePath, Outcome, Returned, Right, Return, CallsTyped, config, PkgCall, PlainCalls, Fine, FineAnywhere
<1>3. CASE phase # Ignores
  <2>1. ~Fine(phase, Call) /\ Error
    BY <1>1, <1>3 DEF IgnorePath, Fine, FineAnywhere, PlainFine, PlainCalls
  <2>. QED  BY <1>1, <2>1, ErrorOutcome
<1>. QED  BY <1>2, <1>3

\* add_pkg and remove_pkg.
LEMMA PackageOutcome ==
    ASSUME CallsTyped, AddPkg \/ RemovePkg
    PROVE  Outcome
<1>1. ASSUME NEW name \in {"add_pkg", "remove_pkg"}, At({name}),
             NEW op, op = IF name = "add_pkg" THEN "Install" ELSE "Uninstall",
             NEW enabled, SetPackage(op, enabled),
             Call.id.manager \in enabled <=> Effective(Call)
      PROVE  Outcome
  <2>1. Call.call = name /\ PkgCall(Call)
    BY <1>1, CallOf DEF PkgCall
  <2>2. CASE phase < ScriptDependencies \/ Call.id.manager \notin Backend
    <3>1. ~(phase >= ScriptDependencies) \/ Call.id.manager \notin Backend
      BY <2>2 DEF CallsTyped, ScriptDependencies, SystemDiscovery, Main
    <3>2. ~Fine(phase, Call) /\ Error
      BY <1>1, <2>1, <2>2, <3>1 DEF SetPackage, Fine, FineAnywhere, PlainFine, PlainCalls
    <3>. QED  BY <1>1, <3>2, ErrorOutcome
  <2>3. CASE ~(phase < ScriptDependencies \/ Call.id.manager \notin Backend)
    <3>1. phase >= ScriptDependencies /\ Call.id.manager \in Backend
      BY <2>3 DEF CallsTyped, ScriptDependencies, SystemDiscovery, Main
    <3>2. Fine(phase, Call)
      BY <1>1, <2>1, <3>1 DEF Fine, FineAnywhere
    <3>3. /\ package_actions' = IF Call.id.manager \in enabled
                                THEN [package_actions EXCEPT ![Call.id] = op] ELSE package_actions
          /\ Return /\ UNCHANGED <<settings, fs_ignores, fs_actions>>
      BY <1>1, <2>3 DEF SetPackage
    <3>4. package_actions' =
             IF PkgCall(Call) /\ Effective(Call)
             THEN [package_actions EXCEPT ![Call.id] = IF Call.call = "add_pkg" THEN "Install" ELSE "Uninstall"]
             ELSE package_actions
      BY <1>1, <2>1, <3>3
    <3>5. /\ Call.call \notin PlainCalls
          /\ Call.call \notin {"set_file_backend", "enable_pkg_backend", "ignore_path"}
      BY <1>1, <2>1 DEF PlainCalls
    <3>. QED  BY <1>1, <2>1, <3>2, <3>3, <3>4, <3>5, CallOf DEF Outcome, Returned, Right, Return, CallsTyped, config
  <2>. QED  BY <2>2, <2>3
<1>2. CASE AddPkg
  <2>1. At({"add_pkg"}) /\ SetPackage("Install", settings.pkg_backends) /\ Call.call = "add_pkg"
    BY <1>2, CallOf DEF AddPkg
  <2>. QED  BY <1>1, <2>1 DEF Effective
<1>3. CASE RemovePkg
  <2>1. At({"remove_pkg"}) /\ SetPackage("Uninstall", {settings.file_backend}) /\ Call.call = "remove_pkg"
    BY <1>3, CallOf DEF RemovePkg
  <2>. QED  BY <1>1, <2>1 DEF Effective
<1>. QED  BY <1>2, <1>3

\* The calls that queue one instruction.
LEMMA PlainOutcome ==
    ASSUME CallsTyped, Rm \/ CopyFrom \/ Write \/ Ln \/ Mkdir \/ Chown \/ ChangeMode
    PROVE  Outcome
<1>1. \A c : Fine(phase, c) /\ c.call \in PlainCalls => phase = Main /\ PlainFine(c)
  BY DEF Fine, FineAnywhere, PlainCalls
<1>2. CASE Rm
  <2>0. At({"rm"}) /\ Call.call = "rm" /\ Makes(phase, Call)
    BY <1>2, CallOf DEF Rm
  <2>1. At({"rm"}) /\ Call.call = "rm" /\ Makes(phase, Call) /\ Queue(TRUE, <<Meaning(Call)>>)
    BY <1>2, <2>0 DEF Rm, Meaning
  <2>2. Meaning(Call) \in Queued
    BY <2>1, QueuedTyped DEF Makes, Meaning
  <2>. QED  BY <1>1, <2>1, <2>2, QueueOutcome DEF PlainCalls
<1>3. CASE CopyFrom
  <2>. DEFINE valid == Call.path \in Path /\ SourceFile(Call.src) # None
  <2>1. At({"copy_from"}) /\ Call.call = "copy_from" /\ Queue(valid, <<Meaning(Call)>>)
    BY <1>3, CallOf DEF CopyFrom, Meaning
  <2>2. valid => Meaning(Call) \in Queued
    <3>1. SourceFile(Call.src) \in Contents \cup {None}
      BY DEF SourceFile, CallsTyped
    <3>. QED  BY <2>1, <3>1, QueuedTyped DEF Meaning
  <2>3. Fine(phase, Call) => phase = Main /\ valid
    BY <1>1, <2>1 DEF PlainFine, PlainCalls
  <2>4. {"copy_from"} \subseteq PlainCalls /\ valid \in BOOLEAN
    BY DEF PlainCalls
  <2>. HIDE DEF valid
  <2>. QED  BY <2>1, <2>2, <2>3, <2>4, QueueOutcome
<1>4. CASE Write
  <2>. DEFINE valid == Call.path \in Path
  <2>1. At({"write"}) /\ Call.call = "write" /\ Makes(phase, Call) /\ Queue(valid, <<Meaning(Call)>>)
    BY <1>4, CallOf DEF Write, Meaning
  <2>2. valid => Meaning(Call) \in Queued
    BY <2>1, QueuedTyped DEF Makes, Meaning
  <2>3. {"write"} \subseteq PlainCalls /\ valid \in BOOLEAN /\ (Fine(phase, Call) => phase = Main /\ valid)
    BY <1>1, <2>1 DEF PlainCalls, PlainFine
  <2>. HIDE DEF valid
  <2>. QED  BY <2>1, <2>2, <2>3, QueueOutcome
<1>5. CASE Ln
  <2>. DEFINE valid == Call.path \in Path
  <2>1. At({"ln"}) /\ Call.call = "ln" /\ Makes(phase, Call) /\ Queue(valid, <<Meaning(Call)>>)
    BY <1>5, CallOf DEF Ln, Meaning
  <2>2. valid => Meaning(Call) \in Queued
    BY <2>1, QueuedTyped DEF Makes, Meaning
  <2>3. {"ln"} \subseteq PlainCalls /\ valid \in BOOLEAN /\ (Fine(phase, Call) => phase = Main /\ valid)
    BY <1>1, <2>1 DEF PlainCalls, PlainFine
  <2>. HIDE DEF valid
  <2>. QED  BY <2>1, <2>2, <2>3, QueueOutcome
<1>6. CASE Mkdir
  <2>. DEFINE valid == Call.path \in Path
  <2>1. At({"mkdir"}) /\ Call.call = "mkdir" /\ Queue(valid, <<Meaning(Call)>>)
    BY <1>6, CallOf DEF Mkdir, Meaning
  <2>2. valid => Meaning(Call) \in Queued
    BY <2>1, QueuedTyped DEF Meaning
  <2>3. {"mkdir"} \subseteq PlainCalls /\ valid \in BOOLEAN /\ (Fine(phase, Call) => phase = Main /\ valid)
    BY <1>1, <2>1 DEF PlainCalls, PlainFine
  <2>. HIDE DEF valid
  <2>. QED  BY <2>1, <2>2, <2>3, QueueOutcome
<1>7. CASE Chown
  <2>. DEFINE valid == Call.path \in Path
  <2>1. /\ At({"chown", "chgrp"}) /\ Call.call \in {"chown", "chgrp"} /\ Makes(phase, Call)
        /\ Queue(valid, Ownership(Call))
    BY <1>7, CallOf DEF Chown
  <2>2. Ownership(Call) = <<Meaning(Call)>>
    BY <2>1 DEF Ownership, Meaning
  <2>3. valid => Meaning(Call) \in Queued
    BY <2>1, QueuedTyped DEF Makes, Meaning
  <2>4. {"chown", "chgrp"} \subseteq PlainCalls /\ (Fine(phase, Call) => phase = Main /\ valid) /\ valid \in BOOLEAN
    BY <1>1, <2>1 DEF PlainCalls, PlainFine
  <2>. HIDE DEF valid
  <2>. QED  BY <2>1, <2>2, <2>3, <2>4, QueueOutcome
<1>8. CASE ChangeMode
  <2>. DEFINE valid == Call.path \in Path /\ Call.mode \in Mode
  <2>1. At({"chmod"}) /\ Call.call = "chmod" /\ Queue(valid, <<Meaning(Call)>>)
    BY <1>8, CallOf DEF ChangeMode, Meaning
  <2>2. valid => Meaning(Call) \in Queued
    BY <2>1, QueuedTyped DEF Meaning
  <2>3. Fine(phase, Call) => phase = Main /\ valid
    BY <1>1, <2>1 DEF PlainFine, PlainCalls
  <2>4. {"chmod"} \subseteq PlainCalls /\ valid \in BOOLEAN
    BY DEF PlainCalls
  <2>. HIDE DEF valid
  <2>. QED  BY <2>1, <2>2, <2>3, <2>4, QueueOutcome
<1>. QED  BY <1>2, <1>3, <1>4, <1>5, <1>6, <1>7, <1>8

\* Calls that queue several instructions, or others, and calls that there are none.
LEMMA QueuedOutcome ==
    ASSUME CallsTyped, NEW names, At(names), names \cap PlainCalls = {},
           names \cap {"set_file_backend", "enable_pkg_backend", "early_config", "sensitive_config",
                       "ignore_path", "add_pkg", "remove_pkg"} = {},
           NEW instrs, NEW valid, Queue(valid, instrs), phase = Main /\ valid => instrs \in Seq(Queued)
    PROVE  Outcome
<1>1. /\ Call.call \notin PlainCalls /\ ~PkgCall(Call) /\ ~FineAnywhere(phase, Call)
      /\ Call.call \notin {"set_file_backend", "enable_pkg_backend", "early_config", "sensitive_config",
                           "ignore_path", "add_pkg", "remove_pkg"}
  BY CallOf DEF PkgCall, FineAnywhere
<1>2. CASE phase = Main /\ valid
  <2>1. /\ fs_actions' = fs_actions \o instrs /\ Return
        /\ UNCHANGED <<settings, fs_ignores, package_actions>>
    BY <1>2 DEF Queue
  <2>2. fs_actions \o instrs \in Seq(Queued)
    BY <1>2, ConcatProperties DEF CallsTyped
  <2>. QED  BY <1>1, <1>2, <2>1, <2>2, CallOf DEF Outcome, Returned, Right, Return, CallsTyped, config
<1>3. CASE ~(phase = Main /\ valid)
  <2>1. ~Fine(phase, Call) /\ Error
    BY <1>1, <1>3 DEF Queue, Fine, FineAnywhere, PlainFine
  <2>. QED  BY <2>1, ErrorOutcome
<1>. QED  BY <1>2, <1>3

\* A sequence of the members of a finite set.
LEMMA AsSequence ==
    ASSUME NEW S, IsFiniteSet(S)
    PROVE  SetToSeq(S) \in Seq(S)
<1>1. Cardinality(S) \in Nat /\ \E f : IsInjective(f) /\ f \in [1 .. Cardinality(S) -> S]
  <2>1. PICK f \in Bijection(1 .. Cardinality(S), S) : TRUE
    BY FS_CardinalityType DEF ExistsBijection
  <2>2. f \in [1 .. Cardinality(S) -> S] /\ IsInjective(f)
    BY DEF Bijection, Injection, IsInjective
  <2>. QED  BY <2>2, FS_CardinalityType
<1>2. SetToSeq(S) \in [1 .. Cardinality(S) -> S]
  BY <1>1 DEF SetToSeq
<1>. QED  BY <1>1, <1>2

\* The calls that are made to test for and to change something else.
LEMMA OtherOutcome ==
    ASSUME IsFiniteSet(Path), CallsTyped, Perms \/ Enable \/ Mask \/ UnknownCall
    PROVE  Outcome
<1>1. CASE Perms
  <2>. DEFINE owned == << Instr(Call.path, "SetOwner", Call.owner),
                          Instr(Call.path, "SetGroup", Call.group) >>
              all == Append(owned, Instr(Call.path, "SetMode", Call.mode))
  <2>1. At({"perms"}) /\ Call.call = "perms" /\ Makes(phase, Call) /\ progress = "running"
        /\ pc \in DOMAIN script[phase]
    BY <1>1, CallOf DEF Perms
  <2>2. Call.path \in Path => owned \in Seq(Queued)
    BY <2>1, QueuedTyped DEF Makes
  <2>3. Call.path \in Path /\ Call.mode \in Mode => all \in Seq(Queued)
    <3>. HIDE DEF owned
    <3>. QED  BY <2>2, QueuedTyped, AppendProperties
  <2>4. CASE phase = Main /\ Call.path \in Path /\ Call.mode \notin Mode
    <3>1. /\ fs_actions' = fs_actions \o owned /\ progress' = "failed"
          /\ UNCHANGED <<config, phase, pc, settings, fs_ignores, package_actions>>
      BY <1>1, <2>4 DEF Perms
    <3>2. fs_actions \o owned \in Seq(Queued)
      <4>. HIDE DEF owned
      <4>. QED  BY <2>2, <2>4, ConcatProperties DEF CallsTyped
    <3>3. ~Fine(phase, Call)
      BY <2>1 DEF Fine, FineAnywhere, PlainFine, PlainCalls
    <3>. HIDE DEF owned
    <3>. QED  BY <2>1, <3>1, <3>2, <3>3 DEF Outcome, Failed, CallsTyped, config
  <2>5. CASE ~(phase = Main /\ Call.path \in Path /\ Call.mode \notin Mode)
    <3>1. Queue(Call.path \in Path, all)
      BY <1>1, <2>5 DEF Perms
    <3>2. phase = Main /\ Call.path \in Path => all \in Seq(Queued)
      BY <2>3, <2>5
    <3>. HIDE DEF all
    <3>. DEFINE valid == Call.path \in Path
    <3>3. Queue(valid, all) /\ (phase = Main /\ valid => all \in Seq(Queued))
      BY <3>1, <3>2
    <3>. HIDE DEF valid
    <3>. QED  BY <2>1, <3>3, QueuedOutcome DEF PlainCalls
  <2>. QED  BY <2>4, <2>5
<1>2. CASE Enable
  <2>. DEFINE c == UnitContents(Call)
              links == UnitLinksOf(Call, UnitLinks[c])
              I == {Instr(l, "CreateSymlink", Call.path) : l \in links}
  <2>1. /\ At({"enable_file", "enable_pkg"}) /\ Call.call \in {"enable_file", "enable_pkg"}
        /\ Makes(phase, Call)
    BY <1>2, CallOf DEF Enable
  <2>2. CASE c = None \/ UnitLinks[c] = None
    <3>1. ~Fine(phase, Call) /\ Error
      BY <1>2, <2>1, <2>2 DEF Enable, Fine, FineAnywhere, PlainFine, PlainCalls
    <3>. QED  BY <2>1, <3>1, ErrorOutcome
  <2>3. CASE ~(c = None \/ UnitLinks[c] = None)
    <3>1. Queue(TRUE, SetToSeq(I))
      BY <1>2, <2>3 DEF Enable
    <3>2. c \in Contents
      <4>1. \A m, q : q \in Path => PackagedFile(m, q) \in Contents \cup {None}
        BY CommandsAssumption DEF PackagedFile
      <4>2. \A q : FileContents(q) \in Contents \cup {None}
        <5>. SUFFICES ASSUME NEW q, FileContents(q) # None PROVE FileContents(q) \in Contents
          OBVIOUS
        <5>. DEFINE W == {i \in DOMAIN fs_actions : fs_actions[i].path = q /\ fs_actions[i].tag = "CreateFile"}
        <5>1. W # {} /\ FileContents(q) = fs_actions[Max(W)].arg
          BY DEF FileContents
        <5>2. Len(fs_actions) \in Nat /\ DOMAIN fs_actions = 1 .. Len(fs_actions)
          BY LenProperties DEF CallsTyped
        <5>. DEFINE k == Max(W)
                    n == Len(fs_actions)
        <5>3. W \in SUBSET (0 .. n)
          BY <5>2
        <5>. HIDE DEF W, n
        <5>4. k \in W
          BY <5>1, <5>2, <5>3, GreatestOf DEF n
        <5>. HIDE DEF k
        <5>5. fs_actions[k] \in FsInstruction /\ fs_actions[k].tag = "CreateFile"
          BY <5>2, <5>4 DEF CallsTyped, W, Queued
        <5>. QED  BY <5>1, <5>5, Operands DEF k
      <4>3. Call.path \in Path /\ UsrTwin[Call.path] \in Path
        BY <2>1, CommandsAssumption DEF Makes
      <4>4. c \in Contents \cup {None}
        BY <4>1, <4>2, <4>3 DEF UnitContents
      <4>. QED  BY <2>3, <4>4
    <3>3. UnitLinks[c].aliases \subseteq Path /\ UnitLinks[c].wanted_by \subseteq Path
      BY <2>3, <3>2, CommandsAssumption
    <3>4. links \subseteq Path
      BY <3>3 DEF UnitLinksOf
    <3>5. Call.path \in Targets
      BY <2>1 DEF Makes
    <3>. HIDE DEF links
    <3>6. I \subseteq Queued
      BY <3>4, <3>5, QueuedTyped
    <3>7. IsFiniteSet(I)
      <4>. DEFINE f == [l \in links |-> Instr(l, "CreateSymlink", Call.path)]
      <4>1. f \in Surjection(links, I)
        BY DEF Surjection
      <4>2. IsFiniteSet(links)
        BY <3>4, FS_Subset
      <4>. QED  BY <4>1, <4>2, FS_Surjection
    <3>. HIDE DEF I
    <3>8. SetToSeq(I) \in Seq(Queued)
      BY <3>6, <3>7, AsSequence, SeqMonotonic
    <3>. QED  BY <2>1, <3>1, <3>8, QueuedOutcome DEF PlainCalls
  <2>. QED  BY <2>2, <2>3
<1>3. CASE Mask
  <2>. DEFINE valid == Call.path \in Path
              instrs == <<Instr(Call.path, "CreateSymlink", DEV_NULL)>>
  <2>1. At({"mask"}) /\ Queue(valid, instrs)
    BY <1>3 DEF Mask
  <2>2. valid => instrs \in Seq(Queued)
    BY QueuedTyped, CommandsAssumption
  <2>. HIDE DEF valid, instrs
  <2>. QED  BY <2>1, <2>2, QueuedOutcome DEF PlainCalls
<1>4. CASE UnknownCall
  <2>1. At({"mkfifo", "mknod"}) /\ Call.call \in {"mkfifo", "mknod"} /\ Error
    BY <1>4, CallOf DEF UnknownCall
  <2>2. ~Fine(phase, Call)
    BY <2>1 DEF Fine, FineAnywhere, PlainFine, PlainCalls
  <2>. QED  BY <2>1, <2>2, ErrorOutcome
<1>. QED  BY <1>1, <1>2, <1>3, <1>4

\* What a call does: it fails, or it returns and has its effect.
LEMMA CallOutcome ==
    ASSUME IsFiniteSet(Path), CallsTyped, RunCall
    PROVE  Outcome
  BY SettingsOutcome, IgnoreOutcome, PackageOutcome, PlainOutcome, OtherOutcome DEF RunCall

-----------------------------------------------------------------------------
(* Sequences of the members of a set *)

\* The recursion by which Listed is defined.
OneIn(T) == CHOOSE l \in T : TRUE

Lists(S, f) == f = [T \in SUBSET S |-> IF T = {} THEN <<>> ELSE Append(f[T \ {OneIn(T)}], OneIn(T))]

ListStep(f, T) ==
    /\ T = {} => f[T] = <<>>
    /\ T # {} => /\ f[T] = Append(f[T \ {OneIn(T)}], OneIn(T))
                 /\ OneIn(T) \in T /\ T \ {OneIn(T)} \in SUBSET T /\ T \ {OneIn(T)} # T

\* What such a list is at a set, and at the set without one member.
LEMMA ListAt ==
    ASSUME NEW S, NEW f, Lists(S, f), NEW T \in SUBSET S
    PROVE  ListStep(f, T)
<1>. DEFINE Value(R) == IF R = {} THEN <<>> ELSE Append(f[R \ {OneIn(R)}], OneIn(R))
<1>1. f = [R \in SUBSET S |-> Value(R)]
  BY DEF Lists
<1>. HIDE DEF Value
<1>2. f[T] = Value(T)
  BY <1>1
<1>3. T # {} => OneIn(T) \in T
  BY DEF OneIn
<1>. QED  BY <1>2, <1>3 DEF Value, ListStep

\* Solutions agree where they are defined.
LEMMA OneList ==
    ASSUME NEW R, NEW S, NEW f, NEW g, Lists(R, f), Lists(S, g),
           NEW T \in SUBSET R, T \in SUBSET S, IsFiniteSet(T)
    PROVE  f[T] = g[T]
<1>. DEFINE bad == {Q \in FiniteSubsetsOf(T) : f[Q] # g[Q]}
<1>1. bad = {}
  <2>1. SUFFICES ASSUME bad # {} PROVE FALSE
    OBVIOUS
  <2>2. PICK Q \in bad : \A P \in bad : P \subseteq Q => P = Q
    <3>1. bad \subseteq FiniteSubsetsOf(T)
      OBVIOUS
    <3>. HIDE DEF bad
    <3>. QED  BY <2>1, <3>1, SmallestSet
  <2>3. Q \subseteq T /\ IsFiniteSet(Q) /\ Q \in SUBSET R /\ Q \in SUBSET S /\ f[Q] # g[Q]
    BY DEF FiniteSubsetsOf
  <2>0. ListStep(f, Q) /\ ListStep(g, Q)
    BY <2>3, ListAt
  <2>4. Q # {}
    BY <2>0, <2>3 DEF ListStep
  <2>. DEFINE P == Q \ {OneIn(Q)}
  <2>5. /\ f[Q] = Append(f[P], OneIn(Q)) /\ g[Q] = Append(g[P], OneIn(Q))
        /\ P # Q /\ P \subseteq Q
    BY <2>0, <2>4 DEF ListStep
  <2>. HIDE DEF P
  <2>6. P \in FiniteSubsetsOf(T)
    BY <2>3, <2>5, FS_Subset DEF FiniteSubsetsOf
  <2>7. f[P] = g[P]
    BY <2>2, <2>5, <2>6
  <2>. QED  BY <2>3, <2>5, <2>7
<1>2. T \in FiniteSubsetsOf(T)
  BY DEF FiniteSubsetsOf
<1>. QED  BY <1>1, <1>2

\* There is a solution.
LEMMA HasList ==
    ASSUME NEW S, IsFiniteSet(S)
    PROVE  \E f : Lists(S, f)
<1>. DEFINE bad == {R \in FiniteSubsetsOf(S) : ~\E f : Lists(R, f)}
<1>1. bad = {}
  <2>1. SUFFICES ASSUME bad # {} PROVE FALSE
    OBVIOUS
  <2>2. PICK R \in bad : \A Q \in bad : Q \subseteq R => Q = R
    <3>1. bad \subseteq FiniteSubsetsOf(S)
      OBVIOUS
    <3>. HIDE DEF bad
    <3>. QED  BY <2>1, <3>1, SmallestSet
  <2>. DEFINE h(T) == CHOOSE f : Lists(T, f)
              g == [T \in SUBSET R |-> IF T = {} THEN <<>> ELSE Append(h(T \ {OneIn(T)})[T \ {OneIn(T)}], OneIn(T))]
  <2>3. ASSUME NEW T \in SUBSET R, T # R PROVE Lists(T, h(T)) /\ IsFiniteSet(T)
    <3>1. T \in FiniteSubsetsOf(S) /\ IsFiniteSet(T)
      BY FS_Subset DEF FiniteSubsetsOf
    <3>2. \E f : Lists(T, f)
      BY <2>2, <2>3, <3>1
    <3>. QED  BY <3>1, <3>2
  <2>4. ASSUME NEW Q \in SUBSET R, Q # R PROVE g[Q] = h(Q)[Q]
    <3>1. Lists(Q, h(Q)) /\ IsFiniteSet(Q)
      BY <2>3, <2>4
    <3>0. ListStep(h(Q), Q)
      <4>. DEFINE f == h(Q)
      <4>1. Lists(Q, f) /\ Q \in SUBSET Q
        BY <3>1
      <4>. HIDE DEF f
      <4>2. ListStep(f, Q)
        BY <4>1, ListAt
      <4>. QED  BY <4>2 DEF f
    <3>2. CASE Q = {}
      <4>1. g[Q] = <<>>
        BY <3>2
      <4>. HIDE DEF g, h
      <4>. QED  BY <3>0, <3>2, <4>1 DEF ListStep
    <3>3. CASE Q # {}
      <4>. DEFINE P == Q \ {OneIn(Q)}
      <4>1. g[Q] = Append(h(P)[P], OneIn(Q))
        BY <3>3
      <4>. HIDE DEF g, h
      <4>2. h(Q)[Q] = Append(h(Q)[P], OneIn(Q)) /\ P \in SUBSET Q
        BY <3>0, <3>3 DEF ListStep
      <4>3. P \in SUBSET R /\ P # R
        BY <2>4
      <4>. HIDE DEF P
      <4>4. Lists(P, h(P)) /\ IsFiniteSet(P)
        BY <2>3, <4>3
      <4>5. h(P)[P] = h(Q)[P]
        BY <3>1, <4>2, <4>4, OneList
      <4>. QED  BY <4>1, <4>2, <4>5
    <3>. QED  BY <3>2, <3>3
  <2>. DEFINE Value(T) == IF T = {} THEN <<>> ELSE Append(g[T \ {OneIn(T)}], OneIn(T))
  <2>5. ASSUME NEW T \in SUBSET R PROVE g[T] = Value(T)
    <3>1. T # {} => T \ {OneIn(T)} \in SUBSET R /\ T \ {OneIn(T)} # R
      BY DEF OneIn
    <3>2. T # {} => g[T \ {OneIn(T)}] = h(T \ {OneIn(T)})[T \ {OneIn(T)}]
      <4>. HIDE DEF g, h
      <4>. QED  BY <2>4, <3>1
    <3>. HIDE DEF h
    <3>. QED  BY <3>2
  <2>6. g = [T \in SUBSET R |-> g[T]]
    OBVIOUS
  <2>. HIDE DEF g
  <2>7. g = [T \in SUBSET R |-> Value(T)]
    BY <2>5, <2>6
  <2>8. Lists(R, g)
    BY <2>7 DEF Lists
  <2>. QED  BY <2>8
<1>2. S \in FiniteSubsetsOf(S)
  BY DEF FiniteSubsetsOf
<1>. QED  BY <1>1, <1>2

\* What a sequence has, and what two have one after the other.
LEMMA Members ==
    ASSUME NEW S, NEW s \in Seq(S)
    PROVE  /\ ToSet(s) \subseteq S /\ s \in Seq(ToSet(s)) /\ IsFiniteSet(ToSet(s))
           /\ Len(s) \in Nat /\ DOMAIN s = 1 .. Len(s)
           /\ \A k \in 1 .. Len(s) : s[k] \in ToSet(s)
           /\ \A x \in ToSet(s) : \E k \in 1 .. Len(s) : x = s[k]
<1>1. Len(s) \in Nat /\ DOMAIN s = 1 .. Len(s) /\ s \in [1 .. Len(s) -> S]
  BY LenProperties
<1>2. ToSet(s) = {s[k] : k \in 1 .. Len(s)}
  BY <1>1 DEF ToSet
<1>3. s \in [1 .. Len(s) -> ToSet(s)]
  BY <1>1, <1>2
<1>4. s \in Surjection(1 .. Len(s), ToSet(s))
  BY <1>2, <1>3 DEF Surjection
<1>5. IsFiniteSet(ToSet(s))
  <2>1. IsFiniteSet(1 .. Len(s))
    BY <1>1, FS_Interval
  <2>. QED  BY <1>4, <2>1, FS_Surjection
<1>6. s \in Seq(ToSet(s))
  BY <1>1, <1>3
<1>. QED  BY <1>1, <1>2, <1>5, <1>6

\* What one sequence after the other has.
LEMMA MembersOfBoth ==
    ASSUME NEW S, NEW s \in Seq(S), NEW t \in Seq(S)
    PROVE  s \o t \in Seq(S) /\ ToSet(s \o t) = ToSet(s) \cup ToSet(t)
<1>1. /\ s \o t \in Seq(S) /\ Len(s \o t) = Len(s) + Len(t)
      /\ \A i \in 1 .. Len(s) + Len(t) : (s \o t)[i] = IF i <= Len(s) THEN s[i] ELSE t[i - Len(s)]
  BY ConcatProperties
<1>. DEFINE m == Len(s)
            n == Len(t)
            u == s \o t
<1>2. m \in Nat /\ n \in Nat /\ Len(u) = m + n
  BY <1>1, LenProperties
<1>3. /\ \A x : x \in ToSet(s) <=> \E k \in 1 .. m : x = s[k]
      /\ \A x : x \in ToSet(t) <=> \E k \in 1 .. n : x = t[k]
      /\ \A x : x \in ToSet(u) <=> \E k \in 1 .. m + n : x = u[k]
  <2>1. u \in Seq(S)
    BY <1>1
  <2>. HIDE DEF u
  <2>2. \A x : x \in ToSet(u) <=> \E k \in 1 .. Len(u) : x = u[k]
    BY <2>1, Members
  <2>3. \A x : x \in ToSet(s) <=> \E k \in 1 .. Len(s) : x = s[k]
    BY Members
  <2>4. \A x : x \in ToSet(t) <=> \E k \in 1 .. Len(t) : x = t[k]
    BY Members
  <2>. QED  BY <1>2, <2>2, <2>3, <2>4
<1>. HIDE DEF u, m, n
<1>4. \A i \in 1 .. m + n : u[i] = IF i <= m THEN s[i] ELSE t[i - m]
  BY <1>1 DEF u, m, n
<1>5. ASSUME NEW x \in ToSet(s) PROVE x \in ToSet(u)
  <2>1. PICK k \in 1 .. m : x = s[k]
    BY <1>3
  <2>2. k \in 1 .. m + n /\ k <= m
    BY <1>2
  <2>. QED  BY <1>3, <1>4, <2>1, <2>2
<1>6. ASSUME NEW x \in ToSet(t) PROVE x \in ToSet(u)
  <2>1. PICK k \in 1 .. n : x = t[k]
    BY <1>3
  <2>2. m + k \in 1 .. m + n /\ ~(m + k <= m) /\ (m + k) - m = k
    BY <1>2
  <2>. QED  BY <1>3, <1>4, <2>1, <2>2
<1>7. ASSUME NEW x \in ToSet(u) PROVE x \in ToSet(s) \cup ToSet(t)
  <2>1. PICK k \in 1 .. m + n : x = u[k]
    BY <1>3
  <2>2. k <= m => k \in 1 .. m
    OBVIOUS
  <2>3. ~(k <= m) => k - m \in 1 .. n
    BY <1>2
  <2>. QED  BY <1>3, <1>4, <2>1, <2>2, <2>3
<1>. QED  BY <1>1, <1>5, <1>6, <1>7 DEF u

\* What a sequence with one more at its end has.
LEMMA MembersOfOneMore ==
    ASSUME NEW S, NEW s \in Seq(S), NEW x \in S
    PROVE  Append(s, x) \in Seq(S) /\ ToSet(Append(s, x)) = ToSet(s) \cup {x}
<1>. DEFINE t == <<x>>
<1>1. Append(s, x) = s \o t /\ t \in Seq(S)
  BY AppendIsConcat
<1>2. ToSet(t) = {x}
  BY DEF ToSet
<1>. HIDE DEF t
<1>. QED  BY <1>1, <1>2, MembersOfBoth

\* Listed has the members of its set and no other.
LEMMA ListedIs ==
    ASSUME NEW S, IsFiniteSet(S)
    PROVE  Listed(S) \in Seq(S) /\ ToSet(Listed(S)) = S
<1>1. Listed(S) = (CHOOSE f : Lists(S, f))[S]
  BY DEF Listed, Lists, OneIn
<1>2. PICK f : Lists(S, f) /\ Listed(S) = f[S]
  BY <1>1, HasList
<1>. DEFINE Good(T) == f[T] \in Seq(S) /\ ToSet(f[T]) = T
            bad == {T \in FiniteSubsetsOf(S) : ~Good(T)}
<1>3. bad = {}
  <2>1. SUFFICES ASSUME bad # {} PROVE FALSE
    OBVIOUS
  <2>2. PICK Q \in bad : \A P \in bad : P \subseteq Q => P = Q
    <3>1. bad \subseteq FiniteSubsetsOf(S)
      OBVIOUS
    <3>. HIDE DEF bad
    <3>. QED  BY <2>1, <3>1, SmallestSet
  <2>3. Q \in SUBSET S /\ IsFiniteSet(Q) /\ ~Good(Q)
    BY DEF FiniteSubsetsOf
  <2>0. ListStep(f, Q)
    BY <1>2, <2>3, ListAt
  <2>4. CASE Q = {}
    <3>1. f[Q] = <<>>
      BY <2>0, <2>4 DEF ListStep
    <3>2. ToSet(<<>>) = {}
      BY DEF ToSet
    <3>. QED  BY <2>3, <2>4, <3>1, <3>2
  <2>5. CASE Q # {}
    <3>. DEFINE P == Q \ {OneIn(Q)}
    <3>1. f[Q] = Append(f[P], OneIn(Q)) /\ OneIn(Q) \in Q /\ P # Q /\ P \subseteq Q
      BY <2>0, <2>5 DEF ListStep
    <3>2. P \cup {OneIn(Q)} = Q
      BY <3>1
    <3>. HIDE DEF P
    <3>3. P \in FiniteSubsetsOf(S)
      BY <2>3, <3>1, FS_Subset DEF FiniteSubsetsOf
    <3>4. Good(P)
      BY <2>2, <3>1, <3>3
    <3>5. OneIn(Q) \in S
      BY <2>3, <3>1
    <3>. DEFINE s == f[P]
                x == OneIn(Q)
    <3>6. s \in Seq(S) /\ ToSet(s) = P /\ x \in S /\ f[Q] = Append(s, x) /\ P \cup {x} = Q
      BY <3>1, <3>2, <3>4, <3>5
    <3>. HIDE DEF s, x
    <3>7. Append(s, x) \in Seq(S) /\ ToSet(Append(s, x)) = ToSet(s) \cup {x}
      BY <3>6, MembersOfOneMore
    <3>8. Good(Q)
      BY <3>6, <3>7
    <3>. QED  BY <2>3, <3>8
  <2>. QED  BY <2>4, <2>5
<1>4. S \in FiniteSubsetsOf(S)
  BY DEF FiniteSubsetsOf
<1>. QED  BY <1>2, <1>3, <1>4

\* What sequences have, one after the other.
LEMMA MembersOfAll ==
    ASSUME NEW S, NEW n \in Nat, NEW s \in [1 .. n -> Seq(S)]
    PROVE  /\ FlattenSeq(s) \in Seq(S)
           /\ \A x : x \in ToSet(FlattenSeq(s)) <=> \E k \in 1 .. n : x \in ToSet(s[k])
<1>. DEFINE Has(k) == \A x : x \in ToSet(Flat(s, k)) <=> \E j \in 1 .. k : x \in ToSet(s[j])
            T == {k \in 0 .. n : Has(k)}
<1>1. \A k \in 0 .. n : FlatAt(S, s, k)
  BY Flattened
<1>2. 0 \in T
  <2>0. FlatAt(S, s, 0)
    BY <1>1
  <2>1. Flat(s, 0) = <<>>
    BY <2>0 DEF FlatAt
  <2>2. ToSet(<<>>) = {}
    BY DEF ToSet
  <2>3. Has(0)
    BY <2>1, <2>2
  <2>. QED  BY <2>3
<1>3. ASSUME NEW k \in 0 .. n - 1, k \in T PROVE k + 1 \in T
  <2>. DEFINE j == k + 1
              a == Flat(s, k)
              b == s[j]
  <2>1. j \in 1 .. n /\ j \in 0 .. n /\ j > 0 /\ j - 1 = k /\ k \in 0 .. n /\ 1 .. j = (1 .. k) \cup {j}
    <3>1. j \in 1 .. n /\ j \in 0 .. n /\ j > 0 /\ j - 1 = k /\ k \in 0 .. n
      OBVIOUS
    <3>2. 1 .. j = (1 .. k) \cup {j}
      BY k \in Nat
    <3>. QED  BY <3>1, <3>2
  <2>2. FlatAt(S, s, j) /\ FlatAt(S, s, k)
    <3>. HIDE DEF j
    <3>. QED  BY <1>1, <2>1
  <2>3. a \in Seq(S) /\ Flat(s, j) = a \o b /\ b \in Seq(S)
    <3>. HIDE DEF j
    <3>. QED  BY <2>1, <2>2 DEF FlatAt
  <2>4. Has(k)
    BY <1>3
  <2>. HIDE DEF a, b
  <2>5. ToSet(Flat(s, j)) = ToSet(a) \cup ToSet(b)
    BY <2>3, MembersOfBoth
  <2>. HIDE DEF j
  <2>6. Has(j)
    <3>1. \A x : x \in ToSet(a) <=> \E i \in 1 .. k : x \in ToSet(s[i])
      BY <2>4 DEF a
    <3>2. ASSUME NEW x
          PROVE  x \in ToSet(Flat(s, j)) <=> \E i \in 1 .. j : x \in ToSet(s[i])
      <4>1. x \in ToSet(Flat(s, j)) <=> x \in ToSet(a) \/ x \in ToSet(s[j])
        BY <2>5 DEF b
      <4>2. (\E i \in 1 .. j : x \in ToSet(s[i])) <=> (\E i \in 1 .. k : x \in ToSet(s[i])) \/ x \in ToSet(s[j])
        BY ONLY <2>1
      <4>. QED  BY <3>1, <4>1, <4>2
    <3>. QED  BY <3>2
  <2>7. j \in T
    BY <2>1, <2>6
  <2>. QED  BY <2>7 DEF j
<1>4. n \in T
  <2>. HIDE DEF T
  <2>1. \A k \in 0 .. n : k \in T
    BY <1>2, <1>3, UpTo
  <2>. QED  BY <2>1
<1>5. Flat(s, n) = FlattenSeq(s)
  <2>1. [i \in 1 .. n |-> s[i]] = s
    OBVIOUS
  <2>. QED  BY <2>1 DEF Flat
<1>6. FlattenSeq(s) \in Seq(S)
  <2>1. FlatAt(S, s, n)
    BY <1>1
  <2>. QED  BY <1>5, <2>1 DEF FlatAt
<1>7. Has(n)
  BY <1>4
<1>. QED  BY <1>5, <1>6, <1>7

-----------------------------------------------------------------------------
(* Types *)

SaveInv ==
    /\ CallsTyped
    /\ system \in Hosted
    /\ progress \in {"idle", "running", "failed", "panicked", "folded", "saved"}
    /\ settings.file_backend \in Backend \cup {None}
    /\ settings.pkg_backends \subseteq Backend
    /\ pkgs_sys \subseteq system.explicit
    /\ script_fs \in FsMap /\ sys_fs \in FsMap
    /\ unsaved \subseteq Path
    /\ saves \in 0 .. MaxSaves

\* An instruction as a line and as a call of its own.
WrittenAs(i) ==
    /\ Makes(Main, LineFor(i)) /\ Makes(Main, PlainCall(i))
    /\ LineFor(i).path = i.path /\ PlainCall(i).path = i.path
    /\ ~PkgCall(LineFor(i)) /\ ~PkgCall(PlainCall(i))
    /\ LineFor(i).call = "rm" <=> i.tag = "Remove"
    /\ LineFor(i).call = "copy_from" <=> i.tag = "CreateFile"
    /\ i.tag = "CreateFile" => LineFor(i).src = i.path
    /\ ~Unknown(i) =>
          /\ PlainFine(PlainCall(i)) /\ Meaning(PlainCall(i)) = i
          /\ i.tag # "CreateFile" => PlainFine(LineFor(i)) /\ Meaning(LineFor(i)) = i

\* Every instruction that is written is written as a call that makes it, or one that does not exist.
LEMMA LineMakes ==
    ASSUME NEW i \in FsInstruction, i.tag \notin {"Comment", "Restore"}
    PROVE  WrittenAs(i)
<1>. DEFINE p == i.path
            a == i.arg
<1>1. /\ i.tag \in {"Remove", "CreateDirectory", "CreateFifo", "CreateFile", "CreateSymlink",
                   "CreateBlockDevice", "CreateCharDevice", "SetMode", "SetOwner", "SetGroup"}
      /\ p \in Path
      /\ i = Instr(p, i.tag, a)
      /\ i.tag \in {"Remove", "CreateDirectory", "CreateFifo"} => a = None
      /\ i.tag = "CreateFile" => a \in Contents
      /\ i.tag = "CreateSymlink" => a \in Targets
      /\ i.tag = "SetMode" => a \in Mode
      /\ i.tag \in {"SetOwner", "SetGroup"} => a \in Name
  BY DEF FsInstruction, Instr
<1>. HIDE DEF p, a
<1>2. CASE i.tag = "Remove"
  BY <1>1, <1>2 DEF WrittenAs, LineFor, PlainCall, Makes, Unknown, PkgCall, PlainCalls, PlainFine, Meaning, p, a
<1>3. CASE i.tag = "CreateDirectory"
  BY <1>1, <1>3 DEF WrittenAs, LineFor, PlainCall, Makes, Unknown, PkgCall, PlainCalls, PlainFine, Meaning, p, a
<1>4. CASE i.tag = "CreateFifo"
  BY <1>1, <1>4 DEF WrittenAs, LineFor, PlainCall, Makes, Unknown, PkgCall, PlainCalls, PlainFine, Meaning, p, a
<1>5. CASE i.tag = "CreateFile"
  BY <1>1, <1>5 DEF WrittenAs, LineFor, PlainCall, Makes, Unknown, PkgCall, PlainCalls, PlainFine, Meaning, p, a
<1>6. CASE i.tag = "CreateSymlink"
  BY <1>1, <1>6 DEF WrittenAs, LineFor, PlainCall, Makes, Unknown, PkgCall, PlainCalls, PlainFine, Meaning, p, a
<1>7. CASE i.tag = "CreateBlockDevice"
  BY <1>1, <1>7 DEF WrittenAs, LineFor, PlainCall, Makes, Unknown, PkgCall, PlainCalls, PlainFine, Meaning, p, a
<1>8. CASE i.tag = "CreateCharDevice"
  BY <1>1, <1>8 DEF WrittenAs, LineFor, PlainCall, Makes, Unknown, PkgCall, PlainCalls, PlainFine, Meaning, p, a
<1>9. CASE i.tag = "SetMode"
  BY <1>1, <1>9 DEF WrittenAs, LineFor, PlainCall, Makes, Unknown, PkgCall, PlainCalls, PlainFine, Meaning, p, a
<1>10. CASE i.tag = "SetOwner"
  BY <1>1, <1>10 DEF WrittenAs, LineFor, PlainCall, Makes, Unknown, PkgCall, PlainCalls, PlainFine, Meaning, p, a
<1>11. CASE i.tag = "SetGroup"
  BY <1>1, <1>11 DEF WrittenAs, LineFor, PlainCall, Makes, Unknown, PkgCall, PlainCalls, PlainFine, Meaning, p, a
<1>. QED  BY <1>1, <1>2, <1>3, <1>4, <1>5, <1>6, <1>7, <1>8, <1>9, <1>10, <1>11

-----------------------------------------------------------------------------
(* The merged script *)

Spelt == {i \in FsInstruction : i.tag \notin {"Comment", "Restore"}}

Others(s) == [n \in DOMAIN s |-> IF IsFsCall(s[n]) THEN <<>> ELSE <<s[n]>>]

KeptCalls(f, taken) == [n \in DOMAIN f |-> IF Superseded(f[n], taken) THEN <<>> ELSE <<PlainCall(f[n])>>]

CallsFor(taken) == PkgAdditions \cup {LineFor(i) : i \in taken}

MergedCalls(taken) ==
    (FlattenSeq(Others(script[Main])) \o FlattenSeq(KeptCalls(fs_actions, taken))) \o Listed(CallsFor(taken))

\* The lines are finitely many.
LEMMA LinesFinite ==
    ASSUME SaveInv, NEW taken \in SUBSET Spelt, IsFiniteSet(taken)
    PROVE  IsFiniteSet(CallsFor(taken))
<1>. DEFINE ids == {i \in pkgs_sys : package_actions[i] # "Install"}
            P == {PkgLine("Install", id) : id \in ids}
            f == [id \in ids |-> PkgLine("Install", id)]
            L == {LineFor(i) : i \in taken}
            g == [i \in taken |-> LineFor(i)]
<1>1. P = PkgAdditions
  BY DEF PkgAdditions
<1>2. IsFiniteSet(ids)
  <2>1. IsFiniteSet(system.explicit) /\ ids \subseteq system.explicit
    BY SaveAssumption DEF SaveInv
  <2>. QED  BY <2>1, FS_Subset
<1>. HIDE DEF ids
<1>3. f \in Surjection(ids, P) /\ g \in Surjection(taken, L)
  BY DEF Surjection
<1>. HIDE DEF f, g, P, L
<1>4. IsFiniteSet(P) /\ IsFiniteSet(L)
  BY <1>2, <1>3, FS_Surjection
<1>. QED  BY <1>1, <1>4, FS_Union DEF CallsFor, L

\* The calls of the merged script are those for packages, what was queued and no line
\* contradicts, and the lines.
LEMMA MergedMembers ==
    ASSUME SaveInv, NEW taken \in SUBSET Spelt, IsFiniteSet(taken)
    PROVE  /\ \A c : c \in ToSet(MergedCalls(taken)) <=>
                 \/ c \in ToSet(script[Main]) /\ PkgCall(c)
                 \/ \E i \in ToSet(fs_actions) : ~Superseded(i, taken) /\ c = PlainCall(i)
                 \/ c \in CallsFor(taken)
           /\ MergedCalls(taken) \in Seq(ToSet(MergedCalls(taken)))
           /\ FlattenSeq(Others(script[Main])) \in Seq(ToSet(script[Main]))
           /\ FlattenSeq(KeptCalls(fs_actions, taken)) \in Seq({PlainCall(i) : i \in ToSet(fs_actions)})
<1>. DEFINE s == script[Main]
            m == Len(s)
            n == Len(fs_actions)
            U == ToSet(s)
            K == {PlainCall(i) : i \in ToSet(fs_actions)}
            o == Others(s)
            k == KeptCalls(fs_actions, taken)
            L == CallsFor(taken)
<1>1. s \in Seq(U) /\ fs_actions \in Seq(Queued)
  BY DEF SaveInv, CallsTyped, SystemDiscovery, Main
<1>2. /\ m \in Nat /\ DOMAIN s = 1 .. m /\ \A j \in 1 .. m : s[j] \in U
      /\ n \in Nat /\ DOMAIN fs_actions = 1 .. n /\ \A j \in 1 .. n : fs_actions[j] \in ToSet(fs_actions)
      /\ \A x \in U : \E j \in 1 .. m : x = s[j]
      /\ \A x \in ToSet(fs_actions) : \E j \in 1 .. n : x = fs_actions[j]
  BY <1>1, Members
<1>3. o \in [1 .. m -> Seq(U)] /\ k \in [1 .. n -> Seq(K)]
  <2>. HIDE DEF s, m, n
  <2>1. \A j \in 1 .. m : <<s[j]>> \in Seq(U) /\ <<>> \in Seq(U)
    BY <1>2
  <2>2. \A j \in 1 .. n : <<PlainCall(fs_actions[j])>> \in Seq(K) /\ <<>> \in Seq(K)
    BY <1>2
  <2>. HIDE DEF U, K
  <2>. QED  BY <1>2, <2>1, <2>2 DEF Others, KeptCalls
<1>4. \A x, j : j \in 1 .. m => (x \in ToSet(o[j]) <=> ~IsFsCall(s[j]) /\ x = s[j])
  <2>. HIDE DEF s, m
  <2>1. \A c : ToSet(<<c>>) = {c}
    BY DEF ToSet
  <2>2. ToSet(<<>>) = {}
    BY DEF ToSet
  <2>. QED  BY <1>2, <2>1, <2>2 DEF Others
<1>5. \A x, j : j \in 1 .. n =>
         (x \in ToSet(k[j]) <=> ~Superseded(fs_actions[j], taken) /\ x = PlainCall(fs_actions[j]))
  <2>. HIDE DEF n
  <2>1. \A c : ToSet(<<c>>) = {c}
    BY DEF ToSet
  <2>2. ToSet(<<>>) = {}
    BY DEF ToSet
  <2>. QED  BY <1>2, <2>1, <2>2 DEF KeptCalls
<1>6. IsFiniteSet(L)
  BY LinesFinite
<1>. DEFINE a == FlattenSeq(o)
            b == FlattenSeq(k)
            c == Listed(L)
            V == (U \cup K) \cup L
<1>. HIDE DEF o, k, m, n, U, K, L
<1>7. /\ a \in Seq(U) /\ \A x : x \in ToSet(a) <=> \E j \in 1 .. m : x \in ToSet(o[j])
      /\ b \in Seq(K) /\ \A x : x \in ToSet(b) <=> \E j \in 1 .. n : x \in ToSet(k[j])
  BY <1>2, <1>3, MembersOfAll
<1>8. c \in Seq(L) /\ ToSet(c) = L
  BY <1>6, ListedIs
<1>. HIDE DEF a, b, c
<1>9. a \in Seq(V) /\ b \in Seq(V) /\ c \in Seq(V)
  BY <1>7, <1>8, SeqMonotonic
<1>. HIDE DEF V
<1>10. a \o b \in Seq(V) /\ ToSet(a \o b) = ToSet(a) \cup ToSet(b)
  BY <1>9, MembersOfBoth
<1>. DEFINE ab == a \o b
<1>11. ab \in Seq(V) /\ ToSet(ab) = ToSet(a) \cup ToSet(b)
  BY <1>10
<1>12. MergedCalls(taken) = ab \o c
  BY DEF MergedCalls, a, b, c, o, k, L
<1>. HIDE DEF ab
<1>. DEFINE all == ab \o c
<1>13. all \in Seq(V) /\ ToSet(all) = ToSet(ab) \cup ToSet(c)
  BY <1>9, <1>11, MembersOfBoth
<1>. HIDE DEF all
<1>14. all \in Seq(ToSet(all))
  BY <1>13, Members
<1>15. \A x : x \in ToSet(a) <=> x \in ToSet(s) /\ ~IsFsCall(x)
  <2>. HIDE DEF s
  <2>1. ASSUME NEW x \in ToSet(a) PROVE x \in ToSet(s) /\ ~IsFsCall(x)
    <3>1. PICK j \in 1 .. m : x \in ToSet(o[j])
      BY <1>7
    <3>2. x = s[j] /\ ~IsFsCall(s[j])
      BY <1>4, <3>1
    <3>3. s[j] \in ToSet(s)
      BY <1>2 DEF U
    <3>. QED  BY <3>2, <3>3
  <2>2. ASSUME NEW x \in ToSet(s), ~IsFsCall(x) PROVE x \in ToSet(a)
    <3>1. PICK j \in 1 .. m : x = s[j]
      BY <1>2 DEF U
    <3>2. x \in ToSet(o[j])
      BY <1>4, <2>2, <3>1
    <3>. QED  BY <1>7, <3>2
  <2>. QED  BY <2>1, <2>2
<1>16. \A x : x \in ToSet(b) <=> \E i \in ToSet(fs_actions) : ~Superseded(i, taken) /\ x = PlainCall(i)
  <2>. HIDE DEF s
  <2>1. ASSUME NEW x \in ToSet(b)
        PROVE  \E i \in ToSet(fs_actions) : ~Superseded(i, taken) /\ x = PlainCall(i)
    <3>1. PICK j \in 1 .. n : x \in ToSet(k[j])
      BY <1>7
    <3>. QED  BY <1>2, <1>5, <3>1
  <2>2. ASSUME NEW i \in ToSet(fs_actions), ~Superseded(i, taken) PROVE PlainCall(i) \in ToSet(b)
    <3>1. PICK j \in 1 .. n : i = fs_actions[j]
      BY <1>2
    <3>2. PlainCall(i) \in ToSet(k[j])
      BY <1>5, <2>2, <3>1
    <3>. QED  BY <1>7, <3>2
  <2>. QED  BY <2>1, <2>2
<1>17. \A x : PkgCall(x) <=> ~IsFsCall(x)
  BY DEF PkgCall, IsFsCall
<1>18. \A x : x \in ToSet(all) <=> \/ x \in ToSet(s) /\ PkgCall(x)
                                   \/ \E i \in ToSet(fs_actions) : ~Superseded(i, taken) /\ x = PlainCall(i)
                                   \/ x \in CallsFor(taken)
  <2>. HIDE DEF s
  <2>. QED  BY <1>8, <1>11, <1>13, <1>15, <1>16, <1>17 DEF L
<1>. QED  BY <1>7, <1>12, <1>14, <1>18 DEF all, a, b, o, k, U, K

-----------------------------------------------------------------------------
(* The types are kept *)

\* What is written about files: finitely many instructions that are spelt out.
LEMMA AdditionsAre ==
    ASSUME SaveInv
    PROVE  /\ Additions = SavedFrom(script_fs, sys_fs)
           /\ Additions \in SUBSET Spelt /\ IsFiniteSet(Additions)
           /\ \A p \in Path : {i \in Additions : i.path = p} = SavedAt(p, script_fs[p], sys_fs[p])
<1>1. Additions = SavedFrom(script_fs, sys_fs)
  BY DEF Additions, SavedFrom, FsChanges
<1>2. script_fs \in FsMap /\ sys_fs \in FsMap /\ IsFiniteSet(Path)
  BY SaveAssumption DEF SaveInv
<1>3. /\ SavedFrom(script_fs, sys_fs) \in SUBSET FsInstruction
      /\ IsFiniteSet(SavedFrom(script_fs, sys_fs))
      /\ \A p \in Path : {i \in SavedFrom(script_fs, sys_fs) : i.path = p} = SavedAt(p, script_fs[p], sys_fs[p])
  BY <1>2, SavedTyped
<1>4. SavedFrom(script_fs, sys_fs) \in SUBSET Spelt
  BY <1>3 DEF SavedFrom, Spelt
<1>. QED  BY <1>1, <1>3, <1>4

\* The configurations there are at first.
LEMMA SaveInitHolds == SaveInit => SaveInv
<1>. SUFFICES ASSUME SaveInit PROVE SaveInv
  OBVIOUS
<1>1. PICK c \in Configs : script = c.script /\ config_files = c.files
  BY DEF SaveInit
<1>2. EmptyMap \in FsMap
  BY DEF EmptyMap, FsMap
<1>3. /\ FreshSettings.file_backend = None /\ FreshSettings.pkg_backends = {}
      /\ DOMAIN FreshSettings = SettingsFields
  BY DEF FreshSettings, SettingsFields
<1>4. CallsTyped
  BY <1>1, <1>3, SaveAssumption DEF SaveInit, CallsTyped, SystemDiscovery, Main
<1>. QED  BY <1>2, <1>3, <1>4, SaveAssumption DEF SaveInit, SaveInv

\* The user puts only calls into the script that the engine could make.
LEMMA MergeTyped == SaveInv /\ Merge => SaveInv'
<1>. SUFFICES ASSUME SaveInv, Merge PROVE SaveInv'
  OBVIOUS
<1>1. PICK taken \in {Additions} \cup {{i \in Additions : i.path = p} : p \in Path} :
         script' = [script EXCEPT ![Main] = MergedCalls(taken)]
  BY DEF Merge, MergedCalls, Others, KeptCalls, CallsFor
<1>2. taken \in SUBSET Spelt /\ IsFiniteSet(taken)
  <2>1. taken \subseteq Additions
    BY <1>1
  <2>. QED  BY <2>1, AdditionsAre, FS_Subset
<1>. DEFINE new == MergedCalls(taken)
<1>3. /\ new \in Seq(ToSet(new))
      /\ \A c \in ToSet(new) : \/ c \in ToSet(script[Main])
                               \/ \E i \in ToSet(fs_actions) : c = PlainCall(i)
                               \/ c \in CallsFor(taken)
  BY <1>2, MergedMembers
<1>4. ASSUME NEW c \in ToSet(new) PROVE Makes(Main, c)
  <2>1. CASE c \in ToSet(script[Main])
    BY <2>1 DEF SaveInv, CallsTyped, SystemDiscovery, Main
  <2>2. CASE \E i \in ToSet(fs_actions) : c = PlainCall(i)
    <3>1. ToSet(fs_actions) \subseteq Queued
      BY Members DEF SaveInv, CallsTyped
    <3>. QED  BY <2>2, <3>1, LineMakes DEF Queued, WrittenAs
  <2>3. CASE c \in PkgAdditions
    <3>1. PICK id \in pkgs_sys : c = PkgLine("Install", id)
      BY <2>3 DEF PkgAdditions
    <3>2. id \in PkgIdent
      BY SaveAssumption DEF SaveInv
    <3>. QED  BY <3>1, <3>2 DEF PkgLine, Makes
  <2>4. CASE \E i \in taken : c = LineFor(i)
    BY <1>2, <2>4, LineMakes DEF Spelt, WrittenAs
  <2>. QED  BY <1>3, <2>1, <2>2, <2>3, <2>4 DEF CallsFor
<1>. HIDE DEF new
<1>5. /\ DOMAIN script' = DOMAIN script
      /\ \A p \in SystemDiscovery .. Main : script'[p] = IF p = Main THEN new ELSE script[p]
  BY <1>1 DEF SaveInv, CallsTyped, new
<1>6. /\ UNCHANGED <<config_files, phase, pc, engine, system, pkgs_sys, script_fs, sys_fs, unsaved, saves>>
      /\ progress' = "idle"
  BY DEF Merge
<1>7. \A p \in SystemDiscovery .. Main :
         /\ script'[p] \in Seq(ToSet(script'[p]))
         /\ \A call \in ToSet(script'[p]) : Makes(p, call)
  <2>. SUFFICES ASSUME NEW p \in SystemDiscovery .. Main
                PROVE  /\ script'[p] \in Seq(ToSet(script'[p]))
                       /\ \A call \in ToSet(script'[p]) : Makes(p, call)
    OBVIOUS
  <2>1. CASE p = Main
    BY <1>3, <1>4, <1>5, <2>1
  <2>2. CASE p # Main
    BY <1>5, <2>2 DEF SaveInv, CallsTyped
  <2>. QED  BY <2>1, <2>2
<1>8. CallsTyped'
  BY <1>5, <1>6, <1>7 DEF CallsTyped, SaveInv, engine
<1>. QED  BY <1>6, <1>8 DEF SaveInv, engine

\* A run begins anew.
LEMMA StartTyped == SaveInv /\ StartRun => SaveInv'
<1>. SUFFICES ASSUME SaveInv, StartRun PROVE SaveInv'
  OBVIOUS
<1>1. /\ settings' = FreshSettings /\ fs_actions' = <<>>
      /\ package_actions' = [id \in PkgIdent |-> None]
      /\ phase' = SystemDiscovery /\ pc' = 1 /\ progress' = "running"
      /\ UNCHANGED <<script, config_files, system, pkgs_sys, script_fs, sys_fs, unsaved, saves>>
  BY DEF StartRun, NewEngine, config
<1>2. /\ FreshSettings.file_backend = None /\ FreshSettings.pkg_backends = {}
      /\ DOMAIN FreshSettings = SettingsFields
  BY DEF FreshSettings, SettingsFields
<1>3. 1 \in 1 .. (Len(script[SystemDiscovery]) + 1)
  <2>1. script[SystemDiscovery] \in Seq(ToSet(script[SystemDiscovery]))
    BY DEF SaveInv, CallsTyped, SystemDiscovery, Main
  <2>. QED  BY <2>1, LenProperties
<1>4. CallsTyped'
  BY <1>1, <1>2, <1>3 DEF SaveInv, CallsTyped, SystemDiscovery, Main
<1>. QED  BY <1>1, <1>2, <1>4 DEF SaveInv

\* One call.
LEMMA CallTyped == SaveInv /\ CallReturns => SaveInv' /\ Outcome
<1>. SUFFICES ASSUME SaveInv, CallReturns PROVE SaveInv' /\ Outcome
  OBVIOUS
<1>1. Outcome
  BY CallOutcome, SaveAssumption DEF CallReturns, SaveInv
<1>2. UNCHANGED <<system, pkgs_sys, script_fs, sys_fs, unsaved, saves>>
  BY DEF CallReturns
<1>3. CASE Failed
  <2>1. CallsTyped'
    BY <1>1, <1>3 DEF Outcome, Failed, SaveInv, CallsTyped
  <2>. QED  BY <1>1, <1>2, <1>3, <2>1 DEF Outcome, Failed, SaveInv
<1>4. CASE Returned
  <2>1. phase \in SystemDiscovery .. Main /\ script[phase] \in Seq(ToSet(script[phase])) /\ pc \in DOMAIN script[phase]
    BY <1>1 DEF Outcome, SaveInv, CallsTyped
  <2>2. pc + 1 \in 1 .. (Len(script[phase]) + 1)
    <3>1. pc \in 1 .. Len(script[phase]) /\ Len(script[phase]) \in Nat
      BY <2>1, LenProperties
    <3>. QED  BY <3>1
  <2>3. Call \in ToSet(script[phase]) /\ Makes(phase, Call)
    BY <2>1 DEF ToSet, Call, SaveInv, CallsTyped
  <2>4. package_actions' \in [PkgIdent -> {"Install", "Uninstall", None}]
    <3>1. package_actions \in [PkgIdent -> {"Install", "Uninstall", None}]
      BY DEF SaveInv, CallsTyped
    <3>2. CASE PkgCall(Call) /\ Effective(Call)
      <4>1. package_actions' = [package_actions EXCEPT ![Call.id] =
                                   IF Call.call = "add_pkg" THEN "Install" ELSE "Uninstall"]
        BY <1>4, <3>2 DEF Returned
      <4>. QED  BY <3>1, <4>1
    <3>3. CASE ~(PkgCall(Call) /\ Effective(Call))
      BY <1>4, <3>1, <3>3 DEF Returned
    <3>. QED  BY <3>2, <3>3
  <2>5. CallsTyped'
    BY <1>1, <1>4, <2>2, <2>4 DEF Outcome, Returned, SaveInv, CallsTyped
  <2>6. Call.call \in {"set_file_backend", "enable_pkg_backend"} => Call.name \in Backend
    <3>1. Call.call \in {"set_file_backend", "enable_pkg_backend"} => phase # Main
      BY <2>3 DEF Makes, SystemDiscovery, Main
    <3>2. Call.call \in {"set_file_backend", "enable_pkg_backend"} => Fine(phase, Call)
      BY <1>4, <3>1 DEF Returned, Right
    <3>. QED  BY <3>2 DEF Fine, FineAnywhere, PlainFine, PlainCalls
  <2>. QED  BY <1>1, <1>2, <1>4, <2>5, <2>6 DEF Outcome, Returned, SaveInv
<1>. QED  BY <1>1, <1>3, <1>4 DEF Outcome

\* What the scan finds, and what the script asks for, as maps.
LEMMA MapsTyped ==
    ASSUME SaveInv
    PROVE  /\ ToSet(fs_actions) \in SUBSET FsInstruction /\ IsFiniteSet(ToSet(fs_actions))
           /\ BuildMap(ToSet(fs_actions)) \in FsMap
           /\ \A p \in Path : Follows(ToSet(fs_actions), BuildMap(ToSet(fs_actions)), p)
           /\ \A ig : ~ScanFails(system.disk, system.pkgs, ig) =>
                 BuildMap(ScanInstructions(system.disk, system.pkgs, ig)) \in FsMap
<1>1. fs_actions \in Seq(Queued) /\ Queued \subseteq FsInstruction
  BY DEF SaveInv, CallsTyped, Queued
<1>2. ToSet(fs_actions) \in SUBSET FsInstruction /\ IsFiniteSet(ToSet(fs_actions))
  BY <1>1, Members
<1>. DEFINE d == system.disk
            db == system.pkgs
<1>3. d \in DiskState /\ db \in Database /\ IsFiniteSet(Path)
  BY SaveAssumption DEF SaveInv, Database
<1>4. ASSUME NEW ig, ~ScanFails(d, db, ig) PROVE BuildMap(ScanInstructions(d, db, ig)) \in FsMap
  <2>. HIDE DEF d, db
  <2>1. ScanInstructions(d, db, ig) \in SUBSET FsInstruction /\ IsFiniteSet(ScanInstructions(d, db, ig))
    BY <1>3, <1>4, ScanTyped, ScanFinite
  <2>. QED  BY <2>1, BuildMapFollows
<1>. QED  BY <1>2, <1>4, BuildMapFollows

\* Between the phases.
LEMMA BetweenTyped ==
    SaveInv /\ (AfterSystemDiscovery \/ AfterIgnores \/ AfterScriptDependencies \/ AfterMain) => SaveInv'
<1>1. \A p \in SystemDiscovery .. Main : 1 \in 1 .. (Len(script[p]) + 1) \/ ~SaveInv
  <2>1. ASSUME SaveInv, NEW p \in SystemDiscovery .. Main PROVE 1 \in 1 .. (Len(script[p]) + 1)
    <3>1. script[p] \in Seq(ToSet(script[p]))
      BY <2>1 DEF SaveInv, CallsTyped
    <3>. QED  BY <3>1, LenProperties
  <2>. QED  BY <2>1
<1>2. ASSUME SaveInv, UNCHANGED <<config, engine, system, unsaved, saves>>,
             phase' \in SystemDiscovery .. Main,
             (phase' = phase /\ pc' = pc /\ progress # "idle") \/ pc' = 1
      PROVE  CallsTyped'
  BY <1>1, <1>2 DEF SaveInv, CallsTyped, config, engine
<1>3. ASSUME SaveInv, AfterSystemDiscovery PROVE SaveInv'
  <2>1. CallsTyped'
    BY <1>2, <1>3 DEF AfterSystemDiscovery, Enter, Finished, SaveInv, CallsTyped, SystemDiscovery, Ignores, Main
  <2>2. LoadPackages(settings.pkg_backends) \subseteq system.explicit
    BY DEF LoadPackages
  <2>. QED  BY <1>3, <2>1, <2>2 DEF AfterSystemDiscovery, Enter, Finished, SaveInv, engine
<1>4. ASSUME SaveInv, AfterIgnores PROVE SaveInv'
  <2>0. /\ UNCHANGED <<config, engine, system, unsaved, saves>> /\ progress # "idle"
        /\ \/ phase' = ScriptDependencies /\ pc' = 1
           \/ phase' = phase /\ pc' = pc
    BY <1>4 DEF AfterIgnores, Enter, Finished
  <2>1. CallsTyped'
    <3>1. phase' \in SystemDiscovery .. Main
      BY <1>4, <2>0 DEF SaveInv, CallsTyped, SystemDiscovery, ScriptDependencies, Main
    <3>. QED  BY <1>2, <1>4, <2>0, <3>1
  <2>. QED  BY <1>4, <2>1 DEF AfterIgnores, Enter, Finished, SaveInv, engine
<1>5. ASSUME SaveInv, AfterScriptDependencies PROVE SaveInv'
  <2>1. CallsTyped'
    BY <1>2, <1>5 DEF AfterScriptDependencies, Enter, Finished, SaveInv, CallsTyped, SystemDiscovery, Main
  <2>. QED  BY <1>5, <2>1 DEF AfterScriptDependencies, Enter, Finished, SaveInv, engine
<1>6. ASSUME SaveInv, AfterMain PROVE SaveInv'
  <2>1. CallsTyped'
    BY <1>2, <1>6 DEF AfterMain, Finished, SaveInv, CallsTyped
  <2>2. /\ UNCHANGED <<system, settings, pkgs_sys, unsaved, saves>> /\ progress' \in {"failed", "folded"}
        /\ script_fs' \in FsMap /\ sys_fs' \in FsMap
    BY <1>6, MapsTyped DEF AfterMain, SaveInv, engine
  <2>. QED  BY <1>6, <2>1, <2>2 DEF SaveInv
<1>. QED  BY <1>3, <1>4, <1>5, <1>6

\* What save copies to files/ is the contents of files.
LEMMA SavingTyped == SaveInv /\ SaveChanges => SaveInv'
<1>. SUFFICES ASSUME SaveInv, SaveChanges PROVE SaveInv'
  OBVIOUS
<1>1. PICK filter \in Filters, dry \in BOOLEAN :
         LET created == {i \in Additions : i.tag = "CreateFile"}
             copied  == {i \in created : ~Withheld(i.path, filter, dry)}
         IN config_files' = FilesWith(copied) /\ unsaved' = {i.path : i \in created \ copied}
  BY DEF SaveChanges
<1>. DEFINE created == {i \in Additions : i.tag = "CreateFile"}
            copied  == {i \in created : ~Withheld(i.path, filter, dry)}
<1>2. config_files' = FilesWith(copied) /\ unsaved' = {i.path : i \in created \ copied}
  BY <1>1
<1>3. \A i \in created : i.path \in Path /\ i.arg \in Contents
  BY AdditionsAre, Operands DEF Spelt
<1>4. copied \subseteq created
  OBVIOUS
<1>. HIDE DEF created, copied
<1>5. FilesWith(copied) \in [Path -> Contents \cup {None}]
  BY <1>3, <1>4 DEF FilesWith, SaveInv, CallsTyped
<1>6. unsaved' \subseteq Path
  BY <1>2, <1>3
<1>7. /\ UNCHANGED <<script, phase, pc, engine, system, pkgs_sys, script_fs, sys_fs>>
      /\ progress' = "saved" /\ saves' = saves + 1 /\ saves < MaxSaves /\ progress = "folded"
  BY DEF SaveChanges
<1>8. CallsTyped'
  BY <1>2, <1>5, <1>7 DEF SaveInv, CallsTyped, engine
<1>9. saves' \in 0 .. MaxSaves
  BY <1>7, SaveAssumption DEF SaveInv
<1>. QED  BY <1>6, <1>7, <1>8, <1>9 DEF SaveInv, engine

\* Every step keeps the invariant.
LEMMA SaveStep == SaveInv /\ [SaveNext]_saveVars => SaveInv'
<1>1. ASSUME SaveInv, UNCHANGED saveVars PROVE SaveInv'
  BY <1>1 DEF SaveInv, CallsTyped, saveVars, commandVars, config, engine
<1>. QED  BY <1>1, StartTyped, CallTyped, BetweenTyped, SavingTyped, MergeTyped DEF SaveNext

\* The invariant has the types.
LEMMA SaveInvTypes == SaveInv => SaveTypeOK
<1>. SUFFICES ASSUME SaveInv PROVE SaveTypeOK
  OBVIOUS
<1>1. ToSet(fs_actions) \subseteq FsInstruction
  BY MapsTyped
<1>. QED  BY <1>1 DEF SaveInv, CallsTyped, SaveTypeOK

\* The calls are made by steps of Save, or the variables stay.
LEMMA ScriptSaves ==
    /\ ScriptInit => SaveInit
    /\ [ScriptNext]_scriptVars => [SaveNext]_saveVars
<1>1. ScriptInit => SaveInit
  BY DEF ScriptInit
<1>2. ASSUME [ScriptNext]_scriptVars PROVE [SaveNext]_saveVars
  <2>1. CASE UNCHANGED scriptVars
    BY <2>1 DEF scriptVars
  <2>2. CASE Patch
    BY <2>2 DEF Patch
  <2>3. CASE NextStatement
    BY <2>3 DEF NextStatement
  <2>4. CASE BuildUsers
    BY <2>4 DEF BuildUsers
  <2>5. CASE MakeCalls
    BY <2>5 DEF MakeCalls
  <2>. QED  BY <1>2, <2>1, <2>2, <2>3, <2>4, <2>5 DEF ScriptNext
<1>. QED  BY <1>1, <1>2

\* konfigkoll save keeps the types of its variables, over any number of runs, saves and
\* merges: the script stays one of calls that exist, the engine's queue and settings, the
\* maps that are compared and the files of the configuration stay what they are.
THEOREM SaveTyped == ScriptSpec => []SaveTypeOK
<1>1. ScriptInit => SaveInv
  BY ScriptSaves, SaveInitHolds
<1>2. SaveInv /\ [ScriptNext]_scriptVars => SaveInv'
  BY ScriptSaves, SaveStep
<1>. QED  BY <1>1, <1>2, SaveInvTypes, PTL DEF ScriptSpec

\* TypeOK of the run: the line editor, the users and groups, and the calls.
THEOREM ScriptTyped == ScriptSpec => []TypeOK
<1>. DEFINE Statements == statement \in {"patch", "users", "calls"}
<1>1. ScriptInit => Statements
  BY DEF ScriptInit
<1>2. Statements /\ [ScriptNext]_scriptVars => Statements'
  BY DEF ScriptNext, Patch, NextStatement, BuildUsers, MakeCalls, scriptVars
<1>3. EditTypeOK /\ PasswdTypeOK /\ SaveTypeOK /\ Statements => TypeOK
  BY DEF TypeOK
<1>. HIDE DEF Statements
<1>. QED  BY <1>1, <1>2, <1>3, EditTyped, UsersTyped, SaveTyped, PTL DEF ScriptSpec

-----------------------------------------------------------------------------
(* What the merged lines make of the map of the configuration *)

\* The kinds of entries.
LEMMA EntryKinds ==
    ASSUME NEW e \in FsEntry
    PROVE  /\ e.kind \in {"Removed", "Unchanged", "Directory", "File", "Symlink", "Fifo",
                          "BlockDevice", "CharDevice"}
           /\ e.kind \in {"Removed", "Unchanged", "Directory", "Fifo"} => e.data = None
           /\ e.kind = "File" => e.data \in Contents
           /\ e.kind = "Symlink" => e.data \in Targets
           /\ e.kind \in {"BlockDevice", "CharDevice"} => e.data \in DevNos
           /\ e = Entry(e.kind, e.data)
           /\ e.kind = "Removed" <=> e = Removed
           /\ e.kind = "Unchanged" <=> e = Unchanged
           /\ e.kind = "Directory" <=> e = Directory
  BY DEF FsEntry, Entry, Removed, Unchanged, Directory

\* The base instruction of an entry makes that entry.
LEMMA BaseMakes ==
    ASSUME NEW p \in Path, NEW e \in FsEntry
    PROVE  /\ e = Unchanged => BaseInstruction(p, e) = {}
           /\ e = Removed => BaseInstruction(p, e) = {Instr(p, "Remove", None)}
           /\ e \notin {Unchanged, Removed} =>
                \E i \in FsInstruction :
                    /\ BaseInstruction(p, e) = {i} /\ i.path = p /\ i.tag \in CreateTags
                    /\ CreatedEntry(i) = e
<1>1. CASE e = Unchanged
  BY <1>1 DEF BaseInstruction, Unchanged, Removed, Entry
<1>2. CASE e = Removed
  BY <1>2 DEF BaseInstruction, Unchanged, Removed, Entry
<1>3. CASE e \notin {Unchanged, Removed}
  <2>. DEFINE tag == [ Removed     |-> "Remove",
                       Directory   |-> "CreateDirectory",
                       File        |-> "CreateFile",
                       Symlink     |-> "CreateSymlink",
                       Fifo        |-> "CreateFifo",
                       BlockDevice |-> "CreateBlockDevice",
                       CharDevice  |-> "CreateCharDevice" ][e.kind]
              i == Instr(p, tag, e.data)
  <2>1. /\ e.kind \in {"Directory", "File", "Symlink", "Fifo", "BlockDevice", "CharDevice"}
        /\ e = Entry(e.kind, e.data)
    BY <1>3, EntryKinds
  <2>2. BaseInstruction(p, e) = {i}
    BY <2>1 DEF BaseInstruction
  <2>3. i \in FsInstruction
    BY <2>2, BaseTyped
  <2>4. i.path = p /\ i.tag = tag /\ i.arg = e.data /\ tag \in CreateTags
    BY <2>1 DEF Instr, CreateTags
  <2>5. CreatedEntry(i) = e
    <3>1. CASE e.kind = "Directory"
      BY <2>1, <2>4, <3>1, EntryKinds DEF CreatedEntry
    <3>2. CASE e.kind = "Fifo"
      BY <2>1, <2>4, <3>2, EntryKinds DEF CreatedEntry
    <3>3. CASE e.kind \in {"File", "Symlink", "BlockDevice", "CharDevice"}
      BY <2>1, <2>4, <3>3 DEF CreatedEntry
    <3>. QED  BY <2>1, <3>1, <3>2, <3>3
  <2>. QED  BY <1>3, <2>2, <2>3, <2>4, <2>5
<1>. QED  BY <1>1, <1>2, <1>3 DEF Unchanged, Removed, Entry

\* Of one path: the instructions of one field.
LEMMA FieldOne ==
    ASSUME NEW p, NEW tag, NEW before, NEW after, tag \in MetaTags
    PROVE  /\ \A i \in FieldDiff(p, tag, before, after) :
                 i.path = p /\ i.tag \in {tag, "Comment"} /\ (i.tag = tag => i = Instr(p, tag, after))
           /\ before # after /\ after # None => FieldDiff(p, tag, before, after) = {Instr(p, tag, after)}
           /\ before = after \/ after = None => \A i \in FieldDiff(p, tag, before, after) : i.tag = "Comment"
<1>1. "Comment" \notin MetaTags
  BY DEF MetaTags
<1>. QED  BY <1>1, InstrFields DEF FieldDiff

-----------------------------------------------------------------------------
(* The merged configuration, path by path *)

\* A line takes the place of what the configuration said of the entry, or of that field.
LEMMA UpdatedAt ==
    ASSUME NEW F \in SUBSET FsInstruction, NEW A \in SUBSET FsInstruction, NEW p \in Path
    PROVE  /\ (\E i \in A : i.path = p /\ i.tag \in EntryTags) =>
                 \A tags : tags \subseteq EntryTags => OnPath(Updated(F, A), p, tags) = OnPath(A, p, tags)
           /\ (\A i \in A : i.path = p => i.tag \notin EntryTags) =>
                 \A tags : tags \subseteq EntryTags => OnPath(Updated(F, A), p, tags) = OnPath(F, p, tags)
           /\ \A tag \in MetaTags :
                 /\ (\E i \in A : i.path = p /\ i.tag = tag) =>
                       OnPath(Updated(F, A), p, {tag}) = OnPath(A, p, {tag})
                 /\ (\A i \in A : i.path = p => i.tag # tag) =>
                       OnPath(Updated(F, A), p, {tag}) = OnPath(F, p, {tag})
<1>1. ASSUME NEW i \in A, i.path = p, i.tag \in EntryTags, NEW j \in F, j.path = p, j.tag \in EntryTags
      PROVE  Superseded(j, A)
  BY <1>1 DEF Superseded
<1>2. ASSUME NEW i \in A, i.path = p, NEW j \in F, j.path = p, j.tag = i.tag
      PROVE  Superseded(j, A)
  BY <1>2 DEF Superseded
<1>3. ASSUME NEW j \in F, j.path = p, Superseded(j, A)
      PROVE  \E i \in A : i.path = p /\ (i.tag = j.tag \/ (i.tag \in EntryTags /\ j.tag \in EntryTags))
  BY <1>3 DEF Superseded
<1>4. \A tag \in MetaTags : tag \notin EntryTags
  BY DEF MetaTags, EntryTags, CreateTags
<1>5. ASSUME \E i \in A : i.path = p /\ i.tag \in EntryTags, NEW tags, tags \subseteq EntryTags
      PROVE  OnPath(Updated(F, A), p, tags) = OnPath(A, p, tags)
  BY <1>1, <1>5 DEF OnPath, Updated
<1>6. ASSUME \A i \in A : i.path = p => i.tag \notin EntryTags, NEW tags, tags \subseteq EntryTags
      PROVE  OnPath(Updated(F, A), p, tags) = OnPath(F, p, tags)
  BY <1>3, <1>6 DEF OnPath, Updated
<1>7. ASSUME NEW tag \in MetaTags, \E i \in A : i.path = p /\ i.tag = tag
      PROVE  OnPath(Updated(F, A), p, {tag}) = OnPath(A, p, {tag})
  BY <1>2, <1>7 DEF OnPath, Updated
<1>8. ASSUME NEW tag \in MetaTags, \A i \in A : i.path = p => i.tag # tag
      PROVE  OnPath(Updated(F, A), p, {tag}) = OnPath(F, p, {tag})
  BY <1>3, <1>4, <1>8 DEF OnPath, Updated
<1>. QED  BY <1>5, <1>6, <1>7, <1>8

\* What the lines have to say of a field: one value, or nothing.
LinesSet(A, p, tag, v) == \A i \in A : i.path = p /\ i.tag = tag => i.arg = v

NoLine(A, p, tag) == \A i \in A : i.path = p => i.tag # tag

\* A field is as the lines say, or else as it was, or as the entry implies.
LEMMA FieldAfter ==
    ASSUME NEW F \in SUBSET FsInstruction, IsFiniteSet(F), NEW A \in SUBSET FsInstruction, NEW p \in Path,
           NEW tag \in MetaTags, NEW x, NEW t, NEW impx, NEW impt, NEW v,
           FieldFollows(F, p, tag, x, impx), FieldFollows(Updated(F, A), p, tag, t, impt),
           LinesSet(A, p, tag, v)
    PROVE  /\ ~NoLine(A, p, tag) => t = v
           /\ NoLine(A, p, tag) => t = x \/ (x = impx /\ t = impt)
<1>. DEFINE G == Updated(F, A)
            O == OnPath(F, p, {tag})
<1>1. G \in SUBSET FsInstruction
  BY DEF Updated
<1>2. ASSUME NEW i \in A, i.path = p, i.tag = tag PROVE t = v
  <2>1. OnPath(G, p, {tag}) = OnPath(A, p, {tag})
    BY <1>2, UpdatedAt
  <2>. DEFINE I == {j \in G : j.path = p}
  <2>2. \A j \in I : j.tag = tag => j.arg = v
    BY <2>1 DEF OnPath, LinesSet
  <2>3. i \in I
    BY <1>2 DEF Updated
  <2>4. I = {j \in G : j.path = p} /\ FieldFollows(G, p, tag, t, impt)
    OBVIOUS
  <2>5. \A j, k \in I : j.tag = tag /\ k.tag = tag => j.arg = k.arg
    BY <2>2
  <2>. HIDE DEF G, I
  <2>6. \A j \in I : j.tag = tag => t = j.arg
    BY <1>1, <2>4, <2>5, FieldRead
  <2>. QED  BY <1>2, <2>2, <2>3, <2>6
<1>3. ASSUME \A i \in A : i.path = p => i.tag # tag PROVE t = x \/ (x = impx /\ t = impt)
  <2>1. OnPath(G, p, {tag}) = O
    BY <1>3, UpdatedAt
  <2>2. CASE O = {}
    BY <2>1, <2>2 DEF FieldFollows
  <2>3. CASE O # {}
    <3>1. O \in SUBSET FsInstruction /\ IsFiniteSet(O)
      BY FS_Subset DEF OnPath
    <3>. DEFINE k == Greatest(O)
    <3>2. k \in O /\ \A j \in O : InstrLeq(j, k)
      BY <2>3, <3>1, HasGreatest
    <3>3. k.path = p
      BY <3>2 DEF OnPath
    <3>. HIDE DEF k, G
    <3>4. Latest(F, k, {tag}) /\ Latest(G, k, {tag})
      BY <2>1, <3>2, <3>3 DEF Latest
    <3>5. t = k.arg /\ x = k.arg
      BY <2>1, <3>2, <3>4 DEF FieldFollows, G
    <3>. QED  BY <3>5
  <2>. QED  BY <2>2, <2>3
<1>. QED  BY <1>2, <1>3 DEF NoLine

\* What is known of a field of a path: of the merged configuration it is tf or as implied,
\* of the scan yf, and of the configuration before, if it knew the path, xf or as implied.
FieldKnown(F, A, p, tag, tf, impt, yf, known, xf, impx) ==
    /\ FieldFollows(Updated(F, A), p, tag, tf, impt)
    /\ IF known THEN FieldFollows(F, p, tag, xf, impx) ELSE \A v : FieldFollows(F, p, tag, v, v)
    /\ LinesSet(A, p, tag, yf)
    /\ known /\ NoLine(A, p, tag) => xf = yf \/ yf = None

\* It is as the scan has it, which may have nothing of it, or there is no line for it and
\* both are what the entries imply.
LEMMA FieldMerged ==
    ASSUME NEW F \in SUBSET FsInstruction, IsFiniteSet(F), NEW A \in SUBSET FsInstruction, NEW p \in Path,
           NEW tag \in MetaTags, NEW tf, NEW impt, NEW yf, NEW known \in BOOLEAN, NEW xf, NEW impx,
           FieldKnown(F, A, p, tag, tf, impt, yf, known, xf, impx)
    PROVE  \/ yf = None
           \/ tf = yf
           \/ NoLine(A, p, tag) /\ tf = impt /\ (known => yf = impx)
<1>. DEFINE x0 == IF known THEN xf ELSE impt
            i0 == IF known THEN impx ELSE impt
<1>1. FieldFollows(F, p, tag, x0, i0) /\ FieldFollows(Updated(F, A), p, tag, tf, impt) /\ LinesSet(A, p, tag, yf)
  BY DEF FieldKnown
<1>. HIDE DEF x0, i0
<1>2. /\ ~NoLine(A, p, tag) => tf = yf
      /\ NoLine(A, p, tag) => tf = x0 \/ (x0 = i0 /\ tf = impt)
  BY <1>1, FieldAfter
<1>. QED  BY <1>2 DEF x0, i0, FieldKnown

\* The entry of a path after the merge, by what the lines and the configuration say of it.
LEMMA EntryAfter ==
    ASSUME NEW F \in SUBSET FsInstruction, NEW A \in SUBSET FsInstruction, NEW p \in Path,
           NEW t, Follows(Updated(F, A), t, p)
    PROVE  /\ \A b \in A :
                 /\ b.path = p /\ b.tag \in CreateTags
                 /\ \A j \in A : j.path = p /\ j.tag \in CreateTags => j = b
                 => t[p] # NoNode /\ t[p].entry = CreatedEntry(b)
           /\ /\ \E b \in A : b.path = p /\ b.tag = "Remove"
              /\ \A j \in A : j.path = p => j.tag \notin CreateTags
              => t[p] # NoNode /\ t[p].entry = Removed
           /\ (\A j \in A : j.path = p => j.tag \notin EntryTags) =>
                 /\ \A k \in OnPath(F, p, CreateTags) :
                       Latest(F, k, CreateTags) => t[p] # NoNode /\ t[p].entry = CreatedEntry(k)
                 /\ OnPath(F, p, CreateTags) = {} /\ OnPath(F, p, {"Remove"}) # {} =>
                       t[p] # NoNode /\ t[p].entry = Removed
                 /\ OnPath(F, p, EntryTags) = {} =>
                       /\ (\E j \in A \cup F : j.path = p /\ j.tag \in MetaTags) =>
                             t[p] # NoNode /\ t[p].entry = Unchanged
                       /\ (\A j \in A \cup F : j.path = p => j.tag \notin MetaTags) =>
                             t[p] = IF CreatedBelow(Updated(F, A), p)
                                    THEN FreshNode(Directory, DEFAULT_DIR_MODE) ELSE NoNode
<1>. DEFINE G == Updated(F, A)
            I == {i \in G : i.path = p}
<1>1. G \in SUBSET FsInstruction /\ A \subseteq G
  BY DEF Updated
<1>2. EntryFollows(G, t, p)
  BY DEF Follows
<1>3. /\ CreateTags \subseteq EntryTags /\ {"Remove"} \subseteq EntryTags
      /\ EntryTags = CreateTags \cup {"Remove"}
      /\ CreateTags \cup MetaTags \cup {"Remove"} = EntryTags \cup MetaTags
  BY DEF EntryTags
<1>4. I = {i \in G : i.path = p}
  OBVIOUS
<1>5. Follows(G, t, p)
  OBVIOUS
<1>6. /\ (\E i \in A : i.path = p /\ i.tag \in EntryTags) =>
            \A tags : tags \subseteq EntryTags => OnPath(G, p, tags) = OnPath(A, p, tags)
      /\ (\A i \in A : i.path = p => i.tag \notin EntryTags) =>
            \A tags : tags \subseteq EntryTags => OnPath(G, p, tags) = OnPath(F, p, tags)
      /\ \A tag \in MetaTags :
            /\ (\E i \in A : i.path = p /\ i.tag = tag) => OnPath(G, p, {tag}) = OnPath(A, p, {tag})
            /\ (\A i \in A : i.path = p => i.tag # tag) => OnPath(G, p, {tag}) = OnPath(F, p, {tag})
  BY UpdatedAt
<1>7. \A S, tags : \A j : j \in OnPath(S, p, tags) <=> j \in S /\ j.path = p /\ j.tag \in tags
  BY DEF OnPath
<1>. HIDE DEF G, I
<1>10. ASSUME NEW b \in A, b.path = p, b.tag \in CreateTags,
              \A j \in A : j.path = p /\ j.tag \in CreateTags => j = b
       PROVE  t[p] # NoNode /\ t[p].entry = CreatedEntry(b)
  <2>1. OnPath(G, p, CreateTags) = OnPath(A, p, CreateTags)
    BY <1>3, <1>6, <1>10
  <2>2. b \in I /\ \A j \in I : j.tag \in CreateTags => j = b
    BY <1>1, <1>4, <1>7, <1>10, <2>1
  <2>. QED  BY <1>1, <1>4, <1>5, <1>10, <2>2, NodeRead
<1>11. ASSUME NEW b \in A, b.path = p, b.tag = "Remove",
              \A j \in A : j.path = p => j.tag \notin CreateTags
       PROVE  t[p] # NoNode /\ t[p].entry = Removed
  <2>1. /\ OnPath(G, p, CreateTags) = OnPath(A, p, CreateTags)
        /\ OnPath(G, p, {"Remove"}) = OnPath(A, p, {"Remove"})
    BY <1>3, <1>6, <1>11
  <2>2. OnPath(G, p, CreateTags) = {} /\ OnPath(G, p, {"Remove"}) # {}
    BY <1>7, <1>11, <2>1
  <2>. QED  BY <1>2, <2>2 DEF EntryFollows
<1>12. ASSUME \A j \in A : j.path = p => j.tag \notin EntryTags
       PROVE  /\ OnPath(G, p, CreateTags) = OnPath(F, p, CreateTags)
              /\ OnPath(G, p, {"Remove"}) = OnPath(F, p, {"Remove"})
              /\ OnPath(G, p, EntryTags) = OnPath(F, p, EntryTags)
  BY <1>3, <1>6, <1>12
<1>13. ASSUME \A j \in A : j.path = p => j.tag \notin EntryTags, NEW k \in OnPath(F, p, CreateTags),
              Latest(F, k, CreateTags)
       PROVE  t[p] # NoNode /\ t[p].entry = CreatedEntry(k)
  <2>1. k \in OnPath(G, p, CreateTags) /\ k.path = p
    BY <1>7, <1>12, <1>13
  <2>2. Latest(G, k, CreateTags)
    BY <1>12, <1>13, <2>1 DEF Latest
  <2>. QED  BY <1>2, <2>1, <2>2 DEF EntryFollows
<1>14. ASSUME \A j \in A : j.path = p => j.tag \notin EntryTags,
              OnPath(F, p, CreateTags) = {}, OnPath(F, p, {"Remove"}) # {}
       PROVE  t[p] # NoNode /\ t[p].entry = Removed
  BY <1>2, <1>12, <1>14 DEF EntryFollows
<1>15. ASSUME \A j \in A : j.path = p => j.tag \notin EntryTags, OnPath(F, p, EntryTags) = {},
              NEW j \in A \cup F, j.path = p, j.tag \in MetaTags
       PROVE  t[p] # NoNode /\ t[p].entry = Unchanged
  <2>1. OnPath(G, p, CreateTags \cup {"Remove"}) = {}
    BY <1>3, <1>12, <1>15
  <2>2. OnPath(G, p, {j.tag}) # {}
    <3>1. CASE \E i \in A : i.path = p /\ i.tag = j.tag
      BY <1>6, <1>7, <1>15, <3>1
    <3>2. CASE \A i \in A : i.path = p => i.tag # j.tag
      BY <1>6, <1>7, <1>15, <3>2
    <3>. QED  BY <3>1, <3>2
  <2>3. OnPath(G, p, MetaTags) # {}
    BY <1>7, <1>15, <2>2
  <2>. QED  BY <1>2, <2>1, <2>3 DEF EntryFollows
<1>16. ASSUME \A j \in A : j.path = p => j.tag \notin EntryTags, OnPath(F, p, EntryTags) = {},
              \A j \in A \cup F : j.path = p => j.tag \notin MetaTags
       PROVE  t[p] = IF CreatedBelow(G, p) THEN FreshNode(Directory, DEFAULT_DIR_MODE) ELSE NoNode
  <2>1. \A j \in G : j.path = p => j.tag \notin MetaTags
    BY <1>16 DEF G, Updated
  <2>2. OnPath(G, p, CreateTags \cup MetaTags \cup {"Remove"}) = {}
    <3>1. OnPath(G, p, EntryTags) = {}
      BY <1>12, <1>16
    <3>2. ASSUME NEW j \in OnPath(G, p, CreateTags \cup MetaTags \cup {"Remove"}) PROVE FALSE
      <4>1. j \in G /\ j.path = p /\ (j.tag \in MetaTags \/ j.tag \in EntryTags)
        BY <1>3, <1>7, <3>2
      <4>. QED  BY <1>7, <2>1, <3>1, <4>1
    <3>. QED  BY <3>2
  <2>. QED  BY <1>2, <2>2 DEF EntryFollows
<1>. QED  BY <1>10, <1>11, <1>13, <1>14, <1>15, <1>16 DEF G

\* The lines of a path: the creation or removal it takes, a removal before it, metadata.
LEMMA LinesOf ==
    ASSUME NEW p \in Path, NEW x \in FsNode \cup {NoNode}, NEW y \in FsNode
    PROVE  /\ \A i \in SavedAt(p, x, y) :
                 \/ i \in BaseInstruction(p, y.entry)
                 \/ i = Instr(p, "Remove", None)
                 \/ i \in {Instr(p, "SetMode", y.mode), Instr(p, "SetOwner", y.owner),
                           Instr(p, "SetGroup", y.group)}
           /\ x = NoNode \/ x.entry # y.entry => BaseInstruction(p, y.entry) \subseteq SavedAt(p, x, y)
           /\ x # NoNode /\ x.entry = y.entry => \A i \in SavedAt(p, x, y) : i.tag \in MetaTags
           /\ x # NoNode /\ x.entry.kind # y.entry.kind => Instr(p, "Remove", None) \in SavedAt(p, x, y)
<1>1. y # NoNode
  BY NodeAssumption
<1>2. CASE x = NoNode
  <2>1. SavedAt(p, x, y) = IntoInstructions(p, y)
    BY <1>1, <1>2, SavedAtIs
  <2>. QED  BY <1>2, <2>1 DEF IntoInstructions
<1>3. CASE x # NoNode
  <2>1. SavedAt(p, x, y) = (IF x.entry = y.entry THEN {} ELSE ReplaceEntry(p, x, y))
                           \cup {i \in MetadataDiff(p, x, y) : i.tag # "Comment"}
    BY <1>1, <1>3, SavedAtIs
  <2>2. ASSUME NEW i \in MetadataDiff(p, x, y), i.tag # "Comment"
        PROVE  /\ i.tag \in MetaTags
               /\ i \in {Instr(p, "SetMode", y.mode), Instr(p, "SetOwner", y.owner),
                         Instr(p, "SetGroup", y.group)}
    <3>1. i.tag \in MetaTags
      BY <2>2, MetadataOne
    <3>. QED  BY <2>2, <3>1, InstrFields DEF MetadataDiff, FieldDiff
  <2>3. x.entry.kind # y.entry.kind => x.entry # y.entry
    OBVIOUS
  <2>4. /\ ReplaceEntry(p, x, y) \subseteq {Instr(p, "Remove", None)} \cup BaseInstruction(p, y.entry)
        /\ BaseInstruction(p, y.entry) \subseteq ReplaceEntry(p, x, y)
        /\ x.entry.kind # y.entry.kind => Instr(p, "Remove", None) \in ReplaceEntry(p, x, y)
    BY DEF ReplaceEntry
  <2>. QED  BY <1>3, <2>1, <2>2, <2>3, <2>4, Zenon
<1>. QED  BY <1>2, <1>3

\* Parts of what is said of a path.
LEMMA SaidOf ==
    ASSUME NEW S, NEW p
    PROVE  /\ OnPath(S, p, CreateTags \cup MetaTags \cup {"Remove"}) = {} =>
                 OnPath(S, p, EntryTags) = {} /\ \A j \in S : j.path = p => j.tag \notin MetaTags
           /\ OnPath(S, p, CreateTags \cup {"Remove"}) = OnPath(S, p, EntryTags)
           /\ OnPath(S, p, MetaTags) # {} => \E j \in S : j.path = p /\ j.tag \in MetaTags
<1>1. OnPath(S, p, CreateTags \cup MetaTags \cup {"Remove"}) = {} =>
         OnPath(S, p, EntryTags) = {} /\ \A j \in S : j.path = p => j.tag \notin MetaTags
  BY DEF OnPath, EntryTags
<1>2. OnPath(S, p, CreateTags \cup {"Remove"}) = OnPath(S, p, EntryTags)
  BY DEF OnPath, EntryTags
<1>3. OnPath(S, p, MetaTags) # {} => \E j \in S : j.path = p /\ j.tag \in MetaTags
  BY DEF OnPath
<1>. QED  BY <1>1, <1>2, <1>3

\* What the merged configuration has of a path that the scan says something of: its entry,
\* or one of the hard cases.
LEMMA MergedEntry ==
    ASSUME NEW F \in SUBSET FsInstruction, IsFiniteSet(F), NEW p \in Path,
           NEW s, Follows(F, s, p), s[p] \in FsNode \cup {NoNode},
           NEW y \in FsNode, y.entry = Unchanged => ~y.removed_before_added,
           NEW A \in SUBSET FsInstruction, {i \in A : i.path = p} = SavedAt(p, s[p], y),
           \A i \in A : i.tag = "Remove" => i = Instr(i.path, "Remove", None),
           NEW t, Follows(Updated(F, A), t, p)
    PROVE  \/ t[p] = NoNode /\ s[p] = NoNode /\ IntoInstructions(p, y) = {}
           \/ t[p] = NoNode /\ \E q \in Path : p \in StrictAncestors(q) /\ Instr(q, "Remove", None) \in A
           \/ t[p] # NoNode /\ y.entry = Unchanged /\ t[p].entry # Unchanged
           \/ t[p] # NoNode /\ t[p].entry = Unchanged /\ y.entry = Directory
           \/ /\ t[p] # NoNode /\ t[p].entry = y.entry
              /\ y.entry = Unchanged => s[p] = NoNode \/ s[p].entry = Unchanged
<1>. DEFINE x == s[p]
            L == SavedAt(p, s[p], y)
            B == BaseInstruction(p, y.entry)
            R == Instr(p, "Remove", None)
            G == Updated(F, A)
<1>1. \A j : j \in A /\ j.path = p <=> j \in L
  OBVIOUS
<1>2. /\ y.entry \in FsEntry
      /\ x # NoNode => x.entry \in FsEntry
  BY NodeFields
<1>3. /\ \A i \in L :
            \/ i \in B
            \/ i = R
            \/ i \in {Instr(p, "SetMode", y.mode), Instr(p, "SetOwner", y.owner),
                      Instr(p, "SetGroup", y.group)}
      /\ x = NoNode \/ x.entry # y.entry => B \subseteq L
      /\ x # NoNode /\ x.entry = y.entry => \A i \in L : i.tag \in MetaTags
      /\ x # NoNode /\ x.entry.kind # y.entry.kind => R \in L
  BY LinesOf
<1>4. /\ R.path = p /\ R.tag = "Remove"
      /\ \A i : i \in {Instr(p, "SetMode", y.mode), Instr(p, "SetOwner", y.owner),
                       Instr(p, "SetGroup", y.group)} => i.tag \in MetaTags /\ i.path = p
      /\ \A tag \in MetaTags : tag \notin EntryTags /\ tag \notin CreateTags /\ tag # "Remove"
      /\ "Remove" \notin CreateTags
      /\ "Remove" \in EntryTags /\ CreateTags \subseteq EntryTags
      /\ EntryTags = CreateTags \cup {"Remove"}
  BY InstrFields DEF MetaTags, EntryTags, CreateTags
<1>5. /\ \A b \in A :
           /\ b.path = p /\ b.tag \in CreateTags
           /\ \A j \in A : j.path = p /\ j.tag \in CreateTags => j = b
           => t[p] # NoNode /\ t[p].entry = CreatedEntry(b)
      /\ /\ \E b \in A : b.path = p /\ b.tag = "Remove"
         /\ \A j \in A : j.path = p => j.tag \notin CreateTags
         => t[p] # NoNode /\ t[p].entry = Removed
      /\ (\A j \in A : j.path = p => j.tag \notin EntryTags) =>
            /\ \A k \in OnPath(F, p, CreateTags) :
                  Latest(F, k, CreateTags) => t[p] # NoNode /\ t[p].entry = CreatedEntry(k)
            /\ OnPath(F, p, CreateTags) = {} /\ OnPath(F, p, {"Remove"}) # {} =>
                  t[p] # NoNode /\ t[p].entry = Removed
            /\ OnPath(F, p, EntryTags) = {} =>
                  /\ (\E j \in A \cup F : j.path = p /\ j.tag \in MetaTags) =>
                        t[p] # NoNode /\ t[p].entry = Unchanged
                  /\ (\A j \in A \cup F : j.path = p => j.tag \notin MetaTags) =>
                        t[p] = IF CreatedBelow(G, p) THEN FreshNode(Directory, DEFAULT_DIR_MODE) ELSE NoNode
  BY EntryAfter
<1>6. /\ FreshNode(Directory, DEFAULT_DIR_MODE) # NoNode
      /\ FreshNode(Directory, DEFAULT_DIR_MODE).entry = Directory
      /\ Directory # Unchanged /\ Removed # Unchanged /\ Removed # Directory
  BY CreatedEntries, NodeTypes, ValueAssumption DEF FreshNode, Directory, Unchanged, Removed, Entry
<1>7. \A S, tags : \A j : j \in OnPath(S, p, tags) <=> j \in S /\ j.path = p /\ j.tag \in tags
  BY DEF OnPath
<1>8. /\ y.entry = Unchanged => B = {}
      /\ y.entry = Removed => B = {R}
      /\ y.entry \notin {Unchanged, Removed} =>
           \E i \in FsInstruction :
               B = {i} /\ i.path = p /\ i.tag \in CreateTags /\ CreatedEntry(i) = y.entry
  BY <1>2, BaseMakes
<1>. HIDE DEF x, L, B, R, G
<1>9. CASE y.entry \notin {Unchanged, Removed} /\ (x = NoNode \/ x.entry # y.entry)
  <2>1. PICK b : B = {b} /\ b.path = p /\ b.tag \in CreateTags /\ CreatedEntry(b) = y.entry
    BY <1>8, <1>9
  <2>2. b \in A /\ \A j \in A : j.path = p /\ j.tag \in CreateTags => j = b
    BY <1>1, <1>3, <1>4, <1>9, <2>1
  <2>3. t[p] # NoNode /\ t[p].entry = y.entry
    BY <1>5, <2>1, <2>2
  <2>. QED  BY <1>6, <1>9, <2>3
<1>10. CASE y.entry = Removed /\ (x = NoNode \/ x.entry # y.entry)
  <2>1. R \in L /\ B = {R}
    BY <1>3, <1>8, <1>10
  <2>2. \A j \in A : j.path = p => j.tag \notin CreateTags
    BY <1>1, <1>3, <1>4, <2>1
  <2>3. t[p] # NoNode /\ t[p].entry = Removed
    BY <1>1, <1>4, <1>5, <2>1, <2>2
  <2>. QED  BY <1>6, <1>10, <2>3
<1>11. CASE y.entry = Unchanged /\ x # NoNode /\ x.entry # y.entry
  <2>1. x.entry.kind # y.entry.kind
    <3>1. /\ x.entry.kind = "Unchanged" <=> x.entry = Unchanged
          /\ y.entry.kind = "Unchanged" <=> y.entry = Unchanged
      BY <1>2, <1>11, EntryKinds
    <3>. QED  BY <1>11, <3>1
  <2>2. R \in L /\ B = {}
    BY <1>3, <1>8, <1>11, <2>1
  <2>3. \A j \in A : j.path = p => j.tag \notin CreateTags
    BY <1>1, <1>3, <1>4, <2>2
  <2>4. t[p] # NoNode /\ t[p].entry = Removed
    BY <1>1, <1>4, <1>5, <2>2, <2>3
  <2>. QED  BY <1>6, <1>11, <2>4

<1>12. CASE y.entry = Unchanged /\ x = NoNode
  <2>1. \A j \in L : j.tag \in MetaTags
    <3>1. L = IntoInstructions(p, y)
      BY <1>12, SavedAtIs, NodeAssumption DEF x, L
    <3>2. ~y.removed_before_added
      BY <1>12
    <3>3. ASSUME NEW j \in IntoInstructions(p, y) PROVE j.tag \in MetaTags
      <4>1. \/ j \in BaseInstruction(p, y.entry)
            \/ j \in {Instr(p, "SetMode", y.mode), Instr(p, "SetOwner", y.owner),
                      Instr(p, "SetGroup", y.group)}
        BY <3>2 DEF IntoInstructions
      <4>. QED  BY <1>4, <1>8, <1>12, <4>1 DEF B
    <3>. QED  BY <3>1, <3>3
  <2>2. OnPath(F, p, CreateTags \cup MetaTags \cup {"Remove"}) = {}
    BY <1>12, EntryFrom DEF x
  <2>3. OnPath(F, p, EntryTags) = {} /\ \A j \in F : j.path = p => j.tag \notin MetaTags
    BY <2>2, SaidOf
  <2>4. \A j \in A : j.path = p => j.tag \notin EntryTags
    BY <1>1, <1>4, <2>1
  <2>5. CASE L = {}
    <3>1. \A j \in A \cup F : j.path = p => j.tag \notin MetaTags
      BY <1>1, <2>3, <2>5
    <3>2. t[p] = IF CreatedBelow(G, p) THEN FreshNode(Directory, DEFAULT_DIR_MODE) ELSE NoNode
      BY <1>5, <2>3, <2>4, <3>1
    <3>3. IntoInstructions(p, y) = {}
      BY <1>12, <2>5, SavedAtIs, NodeAssumption DEF x, L
    <3>. QED  BY <1>6, <1>12, <3>2, <3>3 DEF x
  <2>6. CASE L # {}
    <3>1. \E j \in A \cup F : j.path = p /\ j.tag \in MetaTags
      BY <1>1, <2>1, <2>6
    <3>2. t[p] # NoNode /\ t[p].entry = Unchanged
      BY <1>5, <2>3, <2>4, <3>1
    <3>. QED  BY <1>12, <3>2 DEF x
  <2>. QED  BY <2>5, <2>6
<1>13. CASE x # NoNode /\ x.entry = y.entry
  <2>1. \A j \in L : j.tag \in MetaTags
    BY <1>3, <1>13
  <2>2. \A j \in A : j.path = p => j.tag \notin EntryTags
    BY <1>1, <1>4, <2>1
  <2>3. \/ \E k \in OnPath(F, p, CreateTags) : Latest(F, k, CreateTags) /\ x.entry = CreatedEntry(k)
        \/ x.entry = Removed /\ OnPath(F, p, CreateTags) = {} /\ OnPath(F, p, {"Remove"}) # {}
        \/ /\ x.entry = Unchanged
           /\ OnPath(F, p, CreateTags \cup {"Remove"}) = {} /\ OnPath(F, p, MetaTags) # {}
        \/ /\ x = FreshNode(Directory, DEFAULT_DIR_MODE)
           /\ OnPath(F, p, CreateTags \cup MetaTags \cup {"Remove"}) = {} /\ CreatedBelow(F, p)
    <3>1. s[p] # NoNode
      BY <1>13 DEF x
    <3>2. \/ \E k \in OnPath(F, p, CreateTags) : Latest(F, k, CreateTags) /\ s[p].entry = CreatedEntry(k)
          \/ s[p].entry = Removed /\ OnPath(F, p, CreateTags) = {} /\ OnPath(F, p, {"Remove"}) # {}
          \/ /\ s[p].entry = Unchanged
             /\ OnPath(F, p, CreateTags \cup {"Remove"}) = {} /\ OnPath(F, p, MetaTags) # {}
          \/ /\ s[p] = FreshNode(Directory, DEFAULT_DIR_MODE)
             /\ OnPath(F, p, CreateTags \cup MetaTags \cup {"Remove"}) = {} /\ CreatedBelow(F, p)
      BY <3>1, EntryFrom, Zenon
    <3>. QED  BY <3>2 DEF x
  <2>4. CASE \E k \in OnPath(F, p, CreateTags) : Latest(F, k, CreateTags) /\ x.entry = CreatedEntry(k)
    <3>1. t[p] # NoNode /\ t[p].entry = x.entry
      BY <1>5, <2>2, <2>4
    <3>. QED  BY <1>13, <3>1 DEF x
  <2>5. CASE x.entry = Removed /\ OnPath(F, p, CreateTags) = {} /\ OnPath(F, p, {"Remove"}) # {}
    <3>1. t[p] # NoNode /\ t[p].entry = x.entry
      BY <1>5, <2>2, <2>5
    <3>. QED  BY <1>13, <3>1 DEF x
  <2>6. CASE /\ x.entry = Unchanged
             /\ OnPath(F, p, CreateTags \cup {"Remove"}) = {} /\ OnPath(F, p, MetaTags) # {}
    <3>1. OnPath(F, p, EntryTags) = {} /\ \E j \in A \cup F : j.path = p /\ j.tag \in MetaTags
      BY <2>6, SaidOf
    <3>2. t[p] # NoNode /\ t[p].entry = x.entry
      BY <1>5, <2>2, <2>6, <3>1
    <3>. QED  BY <1>13, <3>2 DEF x
  <2>7. CASE /\ x = FreshNode(Directory, DEFAULT_DIR_MODE)
             /\ OnPath(F, p, CreateTags \cup MetaTags \cup {"Remove"}) = {} /\ CreatedBelow(F, p)
    <3>1. OnPath(F, p, EntryTags) = {} /\ \A j \in F : j.path = p => j.tag \notin MetaTags
      BY <2>7, SaidOf
    <3>2. y.entry = Directory
      BY <1>6, <1>13, <2>7
    <3>3. CASE L # {}
      <4>1. \E j \in A \cup F : j.path = p /\ j.tag \in MetaTags
        BY <1>1, <2>1, <3>3
      <4>2. t[p] # NoNode /\ t[p].entry = Unchanged
        BY <1>5, <2>2, <3>1, <4>1
      <4>. QED  BY <3>2, <4>2
    <3>4. CASE L = {} /\ CreatedBelow(G, p)
      <4>1. \A j \in A \cup F : j.path = p => j.tag \notin MetaTags
        BY <1>1, <3>1, <3>4
      <4>2. t[p] = FreshNode(Directory, DEFAULT_DIR_MODE)
        BY <1>5, <2>2, <3>1, <3>4, <4>1
      <4>. QED  BY <1>6, <3>2, <4>2
    <3>5. CASE L = {} /\ ~CreatedBelow(G, p)
      <4>1. \A j \in A \cup F : j.path = p => j.tag \notin MetaTags
        BY <1>1, <3>1, <3>5
      <4>2. t[p] = NoNode
        BY <1>5, <2>2, <3>1, <3>5, <4>1
      <4>3. PICK k \in F : k.tag \in CreateTags /\ p \in StrictAncestors(k.path)
        BY <2>7 DEF CreatedBelow
      <4>4. Superseded(k, A)
        BY <3>5, <4>3 DEF CreatedBelow, G, Updated
      <4>5. PICK j \in A : j.path = k.path /\ (j.tag = k.tag \/ {k.tag, j.tag} \subseteq EntryTags)
        BY <4>4 DEF Superseded
      <4>6. j.tag \in EntryTags /\ j.tag \notin CreateTags
        BY <1>4, <3>5, <4>3, <4>5 DEF CreatedBelow, G, Updated
      <4>7. j = Instr(k.path, "Remove", None) /\ k.path \in Path
        BY <1>4, <4>5, <4>6, Operands
      <4>. QED  BY <4>2, <4>3, <4>7
    <3>. QED  BY <3>3, <3>4, <3>5
  <2>. QED  BY <2>3, <2>4, <2>5, <2>6, <2>7
<1>. QED  BY <1>9, <1>10, <1>11, <1>12, <1>13

\* Of two nodes of a path of the same entry: the metadata agree where the scan has any, but
\* for the mode of a link, a mode that is the default of what was there before, and root.
FieldsMerged(p, y, t, A) ==
    /\ \/ y.mode = None \/ t.mode = y.mode \/ y.entry.kind = "Symlink"
       \/ /\ Instr(p, "Remove", None) \in A
          /\ {y.mode, t.mode} \subseteq {DEFAULT_FILE_MODE, DEFAULT_DIR_MODE}
    /\ y.owner \in {None, t.owner} \/ (y.entry = Unchanged /\ y.owner = ROOT /\ t.owner = None)
    /\ y.group \in {None, t.group} \/ (y.entry = Unchanged /\ y.group = ROOT /\ t.group = None)

\* They do in the map of the merged configuration.
LEMMA MergedFields ==
    ASSUME NEW F \in SUBSET FsInstruction, IsFiniteSet(F), NEW p \in Path,
           NEW s, Follows(F, s, p), s[p] \in FsNode \cup {NoNode},
           NEW y \in FsNode,
           y.entry = Removed => y.mode = DEFAULT_FILE_MODE /\ y.owner = ROOT /\ y.group = ROOT,
           NEW A \in SUBSET FsInstruction, {i \in A : i.path = p} = SavedAt(p, s[p], y),
           NEW t, Follows(Updated(F, A), t, p),
           t[p] # NoNode, t[p].entry = y.entry,
           y.entry = Unchanged => s[p] = NoNode \/ s[p].entry = Unchanged
    PROVE  FieldsMerged(p, y, t[p], A)
<1>. DEFINE x == s[p]
            n == t[p]
            L == SavedAt(p, s[p], y)
            R == Instr(p, "Remove", None)
            G == Updated(F, A)
<1>1. \A j : j \in A /\ j.path = p <=> j \in L
  OBVIOUS
<1>2. /\ y.entry \in FsEntry
      /\ x # NoNode => x \in FsNode /\ x.entry \in FsEntry
  BY NodeFields
<1>3. /\ FieldFollows(G, p, "SetMode", n.mode, ImpliedMode(n.entry))
      /\ FieldFollows(G, p, "SetOwner", n.owner, ImpliedName(n.entry))
      /\ FieldFollows(G, p, "SetGroup", n.group, ImpliedName(n.entry))
  BY DEF Follows, MetadataFollows
<1>4. x # NoNode =>
        /\ FieldFollows(F, p, "SetMode", x.mode, ImpliedMode(x.entry))
        /\ FieldFollows(F, p, "SetOwner", x.owner, ImpliedName(x.entry))
        /\ FieldFollows(F, p, "SetGroup", x.group, ImpliedName(x.entry))
  BY DEF Follows, MetadataFollows
<1>5. x = NoNode => \A tag \in MetaTags : \A v : FieldFollows(F, p, tag, v, v)
  <2>1. ASSUME x = NoNode PROVE \A tag \in MetaTags : OnPath(F, p, {tag}) = {}
    <3>1. OnPath(F, p, CreateTags \cup MetaTags \cup {"Remove"}) = {}
      BY <2>1, EntryFrom
    <3>. QED  BY <3>1 DEF OnPath
  <2>. QED  BY <2>1 DEF FieldFollows
<1>6. /\ {"SetMode", "SetOwner", "SetGroup"} = MetaTags
      /\ \A i \in L : /\ i.tag = "SetMode" => i.arg = y.mode
                      /\ i.tag = "SetOwner" => i.arg = y.owner
                      /\ i.tag = "SetGroup" => i.arg = y.group
  <2>1. \A i \in L :
           \/ i \in BaseInstruction(p, y.entry)
           \/ i = Instr(p, "Remove", None)
           \/ i \in {Instr(p, "SetMode", y.mode), Instr(p, "SetOwner", y.owner),
                     Instr(p, "SetGroup", y.group)}
    BY LinesOf
  <2>2. \A i \in BaseInstruction(p, y.entry) : i.tag \in CreateTags \cup {"Remove"}
    BY <1>2, BaseOne
  <2>. QED  BY <2>1, <2>2, InstrFields DEF MetaTags, CreateTags
<1>7. x # NoNode =>
        /\ NoLine(A, p, "SetMode") => x.mode = y.mode \/ y.mode = None
        /\ NoLine(A, p, "SetOwner") => x.owner = y.owner \/ y.owner = None
        /\ NoLine(A, p, "SetGroup") => x.group = y.group \/ y.group = None
  <2>1. ASSUME x # NoNode, NEW tag \in MetaTags, NEW xf, NEW yf, xf # yf, yf # None,
               FieldDiff(p, tag, xf, yf) \subseteq MetadataDiff(p, x, y)
        PROVE  ~NoLine(A, p, tag)
    <3>1. Instr(p, tag, yf) \in MetadataDiff(p, x, y)
      BY <2>1, FieldOne
    <3>2. Instr(p, tag, yf) \in L
      <4>1. Instr(p, tag, yf).tag # "Comment"
        BY InstrFields DEF MetaTags
      <4>. QED  BY <2>1, <3>1, <4>1, SavedAtIs, NodeAssumption
    <3>. QED  BY <1>1, <3>2, InstrFields DEF NoLine
  <2>2. /\ FieldDiff(p, "SetMode", x.mode, y.mode) \subseteq MetadataDiff(p, x, y)
        /\ FieldDiff(p, "SetOwner", x.owner, y.owner) \subseteq MetadataDiff(p, x, y)
        /\ FieldDiff(p, "SetGroup", x.group, y.group) \subseteq MetadataDiff(p, x, y)
    BY DEF MetadataDiff
  <2>. QED  BY <1>6, <2>1, <2>2
<1>8. x = NoNode =>
        /\ NoLine(A, p, "SetMode") => \/ y.entry.kind \in {"Removed", "Symlink"}
                            \/ y.mode \in {None, EntryDefaultMode(y.entry.kind)}
        /\ NoLine(A, p, "SetOwner") => y.entry.kind = "Removed" \/ y.owner \in {None, ROOT}
        /\ NoLine(A, p, "SetGroup") => y.entry.kind = "Removed" \/ y.group \in {None, ROOT}
  <2>1. ASSUME x = NoNode PROVE L = IntoInstructions(p, y)
    BY <2>1, SavedAtIs, NodeAssumption
  <2>. HIDE DEF L
  <2>2. ASSUME x = NoNode, NoLine(A, p, "SetMode"), y.entry.kind \notin {"Removed", "Symlink"},
               y.mode \notin {None, EntryDefaultMode(y.entry.kind)}
        PROVE  FALSE
    <3>1. Instr(p, "SetMode", y.mode) \in L
      BY <2>1, <2>2 DEF IntoInstructions
    <3>. QED  BY <1>1, <2>2, <3>1, InstrFields DEF NoLine
  <2>3. ASSUME x = NoNode, NoLine(A, p, "SetOwner"), y.entry.kind # "Removed", y.owner \notin {None, ROOT}
        PROVE  FALSE
    <3>1. Instr(p, "SetOwner", y.owner) \in L
      BY <2>1, <2>3 DEF IntoInstructions
    <3>. QED  BY <1>1, <2>3, <3>1, InstrFields DEF NoLine
  <2>4. ASSUME x = NoNode, NoLine(A, p, "SetGroup"), y.entry.kind # "Removed", y.group \notin {None, ROOT}
        PROVE  FALSE
    <3>1. Instr(p, "SetGroup", y.group) \in L
      BY <2>1, <2>4 DEF IntoInstructions
    <3>. QED  BY <1>1, <2>4, <3>1, InstrFields DEF NoLine
  <2>. QED  BY <2>2, <2>3, <2>4
<1>10. /\ \/ y.mode = None \/ n.mode = y.mode
          \/ /\ NoLine(A, p, "SetMode") /\ n.mode = ImpliedMode(n.entry)
             /\ x # NoNode => y.mode = ImpliedMode(x.entry)
       /\ \/ y.owner = None \/ n.owner = y.owner
          \/ /\ NoLine(A, p, "SetOwner") /\ n.owner = ImpliedName(n.entry)
             /\ x # NoNode => y.owner = ImpliedName(x.entry)
       /\ \/ y.group = None \/ n.group = y.group
          \/ /\ NoLine(A, p, "SetGroup") /\ n.group = ImpliedName(n.entry)
             /\ x # NoNode => y.group = ImpliedName(x.entry)
  <2>. DEFINE known == x # NoNode
              Known(tag, tf, impt, yf, xf, impx) ==
                 FieldKnown(F, A, p, tag, tf, impt, yf, known, xf, impx)
  <2>1. /\ LinesSet(A, p, "SetMode", y.mode)
        /\ LinesSet(A, p, "SetOwner", y.owner)
        /\ LinesSet(A, p, "SetGroup", y.group)
    BY <1>1, <1>6 DEF LinesSet
  <2>2. known \in BOOLEAN
    OBVIOUS
  <2>. HIDE DEF x, n, L, FieldFollows, NoLine, LinesSet
  <2>3. /\ Known("SetMode", n.mode, ImpliedMode(n.entry), y.mode, x.mode, ImpliedMode(x.entry))
        /\ Known("SetOwner", n.owner, ImpliedName(n.entry), y.owner, x.owner, ImpliedName(x.entry))
        /\ Known("SetGroup", n.group, ImpliedName(n.entry), y.group, x.group, ImpliedName(x.entry))
    BY <1>3, <1>4, <1>5, <1>6, <1>7, <2>1 DEF FieldKnown
  <2>. HIDE DEF known
  <2>4. \/ y.mode = None \/ n.mode = y.mode
        \/ /\ NoLine(A, p, "SetMode") /\ n.mode = ImpliedMode(n.entry)
           /\ known => y.mode = ImpliedMode(x.entry)
    BY <1>6, <2>2, <2>3, FieldMerged
  <2>5. \/ y.owner = None \/ n.owner = y.owner
        \/ /\ NoLine(A, p, "SetOwner") /\ n.owner = ImpliedName(n.entry)
           /\ known => y.owner = ImpliedName(x.entry)
    BY <1>6, <2>2, <2>3, FieldMerged
  <2>6. \/ y.group = None \/ n.group = y.group
        \/ /\ NoLine(A, p, "SetGroup") /\ n.group = ImpliedName(n.entry)
           /\ known => y.group = ImpliedName(x.entry)
    BY <1>6, <2>2, <2>3, FieldMerged
  <2>. QED  BY <2>4, <2>5, <2>6 DEF known
<1>11. /\ y.entry.kind = "Removed" <=> y.entry = Removed
       /\ y.entry.kind = "Unchanged" <=> y.entry = Unchanged
       /\ y.entry.kind = "Directory" <=> y.entry = Directory
       /\ y.entry.kind \in {"Removed", "Unchanged", "Directory", "File", "Symlink", "Fifo",
                            "BlockDevice", "CharDevice"}
       /\ Directory # Unchanged /\ Removed # Unchanged /\ Removed # Directory
  BY <1>2, EntryKinds DEF Directory, Unchanged, Removed, Entry
<1>12. x # NoNode => /\ x.entry.kind = "Unchanged" <=> x.entry = Unchanged
                     /\ x.entry.kind = "Directory" <=> x.entry = Directory
  BY <1>2, EntryKinds
<1>13. n.entry = y.entry
  OBVIOUS
<1>14. \/ y.mode = None \/ n.mode = y.mode \/ y.entry.kind = "Symlink"
       \/ R \in A /\ {y.mode, n.mode} \subseteq {DEFAULT_FILE_MODE, DEFAULT_DIR_MODE}
  <2>1. CASE x = NoNode
    <3>1. y.entry.kind \notin {"Removed", "Symlink"} => EntryDefaultMode(y.entry.kind) = ImpliedMode(y.entry)
      BY <1>11 DEF EntryDefaultMode, ImpliedMode
    <3>2. y.entry = Removed => y.mode = ImpliedMode(y.entry)
      BY <1>11 DEF ImpliedMode
    <3>. HIDE DEF x, n
    <3>. QED  BY <1>8, <1>10, <1>11, <1>13, <2>1, <3>1, <3>2
  <2>2. CASE x # NoNode
    <3>1. x.entry.kind = y.entry.kind => ImpliedMode(x.entry) = ImpliedMode(y.entry)
      BY <1>11, <1>12, <2>2 DEF ImpliedMode
    <3>2. x.entry.kind # y.entry.kind => R \in A
      BY <1>1, <2>2, LinesOf
    <3>3. /\ x.entry = Unchanged => ImpliedMode(x.entry) = None
          /\ x.entry # Unchanged => ImpliedMode(x.entry) \in {DEFAULT_FILE_MODE, DEFAULT_DIR_MODE}
          /\ y.entry # Unchanged => ImpliedMode(y.entry) \in {DEFAULT_FILE_MODE, DEFAULT_DIR_MODE}
      BY <1>11 DEF ImpliedMode
    <3>4. y.entry = Unchanged => x.entry = Unchanged
      BY <2>2
    <3>. HIDE DEF x, n, R
    <3>. QED  BY <1>10, <1>13, <2>2, <3>1, <3>2, <3>3, <3>4
  <2>. QED  BY <2>1, <2>2
<1>15. /\ y.entry = Unchanged => ImpliedName(y.entry) = None
       /\ y.entry # Unchanged => ImpliedName(y.entry) = ROOT
       /\ x.entry = Unchanged => ImpliedName(x.entry) = None
       /\ x.entry # Unchanged => ImpliedName(x.entry) = ROOT
  BY DEF ImpliedName
<1>16. x # NoNode /\ y.entry = Unchanged => x.entry = Unchanged
  OBVIOUS
<1>17. y.entry = Removed => y.owner = ROOT /\ y.group = ROOT
  OBVIOUS
<1>18. y.owner \in {None, n.owner} \/ (y.entry = Unchanged /\ y.owner = ROOT /\ n.owner = None)
  <2>. HIDE DEF x, n
  <2>1. CASE x = NoNode
    BY <1>8, <1>10, <1>11, <1>13, <1>15, <1>17, <2>1
  <2>2. CASE x # NoNode
    BY <1>10, <1>13, <1>15, <1>16, <2>2
  <2>. QED  BY <2>1, <2>2
<1>19. y.group \in {None, n.group} \/ (y.entry = Unchanged /\ y.group = ROOT /\ n.group = None)
  <2>. HIDE DEF x, n
  <2>1. CASE x = NoNode
    BY <1>8, <1>10, <1>11, <1>13, <1>15, <1>17, <2>1
  <2>2. CASE x # NoNode
    BY <1>10, <1>13, <1>15, <1>16, <2>2
  <2>. QED  BY <2>1, <2>2
<1>. QED  BY <1>14, <1>18, <1>19 DEF FieldsMerged

-----------------------------------------------------------------------------
(* The merged configuration and the scan *)

\* A scan that finds something missing says no more of it, unless a socket is in its place.
LEMMA ScanMissing ==
    ASSUME NEW d \in DiskState, NEW db \in Database, NEW ig, NEW p \in Path,
           ~(d[p] # NoNode /\ d[p].kind = "Socket"),
           NEW i \in PathInstructions(d, db, ig, p), i.tag = "Remove",
           \A j \in PathInstructions(d, db, ig, p) : j.tag \notin CreateTags
    PROVE  \A j \in PathInstructions(d, db, ig, p) : j.tag = "Remove"
<1>. DEFINE I == PathInstructions(d, db, ig, p)
<1>1. ~Ignored(ig, p)
  BY DEF PathInstructions
<1>2. CASE d[p] = NoNode
  BY <1>1, <1>2, InstrFields DEF PathInstructions
<1>3. CASE d[p] # NoNode
  <2>1. Recreation(d, p) \in FromFs(d, p) /\ Recreation(d, p).tag \in CreateTags
    BY <1>3, FromFsIs, RecreationTyped
  <2>2. db[p] # None /\ db[p] \in PkgEntry /\ I = PackagedInstructions(d, p, db[p])
    <3>1. ~(FromFs(d, p) \subseteq I)
      BY <2>1
    <3>2. I = IF db[p] = None THEN FromFs(d, p) ELSE PackagedInstructions(d, p, db[p])
      BY <1>1, <1>3 DEF PathInstructions
    <3>. HIDE DEF I
    <3>. QED  BY <3>1, <3>2 DEF Database
  <2>3. ~(TypeConflict(d, p) \subseteq I)
    BY <2>1 DEF TypeConflict
  <2>4. \A j \in WrongMetadata(d, p, db[p]) : j.tag \in MetaTags
    BY <1>3, <2>2, WrongMetadataTyped
  <2>5. \A j \in ContentsIssue(d, p, db[p]) : j.tag = "CreateFile"
    BY InstrFields DEF ContentsIssue
  <2>6. Instr(p, "CreateSymlink", d[p].data).tag = "CreateSymlink" /\ "Remove" \notin MetaTags
    BY InstrFields DEF MetaTags
  <2>7. i \in PackagedInstructions(d, p, db[p]) /\ ~(TypeConflict(d, p) \subseteq PackagedInstructions(d, p, db[p]))
    BY <2>2, <2>3
  <2>8. i \in WrongMetadata(d, p, db[p]) \cup ContentsIssue(d, p, db[p]) \cup {Instr(p, "CreateSymlink", d[p].data)}
    <3>. HIDE DEF I
    <3>1. db[p].kind \in {"RegularFile", "Symlink", "Directory", "Other", "Unknown"}
      BY <2>2, PkgFields
    <3>2. CASE db[p].kind = "RegularFile"
      BY <2>7, <3>2 DEF PackagedInstructions
    <3>3. CASE db[p].kind = "Symlink"
      BY <2>7, <3>3 DEF PackagedInstructions
    <3>4. CASE db[p].kind = "Directory"
      BY <2>7, <3>4 DEF PackagedInstructions
    <3>5. CASE db[p].kind = "Other"
      BY <2>7, <3>5 DEF PackagedInstructions
    <3>6. CASE db[p].kind = "Unknown"
      BY <2>7, <3>6 DEF PackagedInstructions
    <3>. QED  BY <3>1, <3>2, <3>3, <3>4, <3>5, <3>6
  <2>. QED  BY <2>4, <2>5, <2>6, <2>8
<1>. QED  BY <1>2, <1>3

\* The nodes of the scan: what it found nothing but metadata of was not removed, and what
\* it missed has the defaults.
LEMMA ScanDefaults ==
    ASSUME IsFiniteSet(Path), NEW d \in DiskState, NEW db \in Database, NEW ig, ~ScanFails(d, db, ig),
           NEW p \in Path, NEW y, y = BuildMap(ScanInstructions(d, db, ig)), y[p] # NoNode
    PROVE  /\ y[p] \in FsNode
           /\ y[p].entry = Unchanged => ~y[p].removed_before_added
           /\ y[p].entry = Removed /\ ~(d[p] # NoNode /\ d[p].kind = "Socket") =>
                 y[p].mode = DEFAULT_FILE_MODE /\ y[p].owner = ROOT /\ y[p].group = ROOT
<1>. DEFINE S == ScanInstructions(d, db, ig)
            I == PathInstructions(d, db, ig, p)
<1>1. S \in SUBSET FsInstruction /\ IsFiniteSet(S)
  BY ScanTyped, ScanFinite
<1>2. I = {i \in S : i.path = p}
  BY ScanAt
<1>. HIDE DEF S, I
<1>3. y \in FsMap /\ Follows(S, y, p)
  <2>1. y = BuildMap(S)
    BY DEF S
  <2>. QED  BY <1>1, <2>1, BuildMapFollows
<1>4. y[p] \in FsNode
  BY <1>3 DEF FsMap
<1>5. \A tags : \A j : j \in OnPath(S, p, tags) <=> j \in I /\ j.tag \in tags
  BY <1>2 DEF OnPath
<1>6. /\ Directory # Unchanged /\ Removed # Unchanged /\ Removed # Directory
      /\ FreshNode(Directory, DEFAULT_DIR_MODE).entry = Directory
      /\ \A k \in FsInstruction : k.tag \in CreateTags => CreatedEntry(k) \notin {Removed, Unchanged}
  BY DEF FreshNode, Directory, Unchanged, Removed, Entry, CreatedEntry, CreateTags
<1>7. \/ \E k \in OnPath(S, p, CreateTags) : Latest(S, k, CreateTags) /\ y[p].entry = CreatedEntry(k)
      \/ y[p].entry = Removed /\ OnPath(S, p, CreateTags) = {} /\ OnPath(S, p, {"Remove"}) # {}
      \/ y[p].entry = Unchanged /\ OnPath(S, p, CreateTags \cup {"Remove"}) = {}
      \/ y[p] = FreshNode(Directory, DEFAULT_DIR_MODE)
  BY <1>1, <1>3, EntryFrom, Zenon
<1>8. \A k \in OnPath(S, p, CreateTags) : k \in FsInstruction /\ k.tag \in CreateTags
  BY <1>1 DEF OnPath
<1>9. ASSUME y[p].entry = Unchanged PROVE ~y[p].removed_before_added
  <2>1. OnPath(S, p, CreateTags \cup {"Remove"}) = {}
    BY <1>6, <1>7, <1>8, <1>9
  <2>2. OnPath(S, p, {"Remove"}) = {}
    BY <1>5, <2>1
  <2>. QED  BY <1>3, <2>2 DEF Follows, RemovalRemembered
<1>10. ASSUME y[p].entry = Removed, ~(d[p] # NoNode /\ d[p].kind = "Socket")
       PROVE  y[p].mode = DEFAULT_FILE_MODE /\ y[p].owner = ROOT /\ y[p].group = ROOT
  <2>1. OnPath(S, p, CreateTags) = {} /\ OnPath(S, p, {"Remove"}) # {}
    BY <1>6, <1>7, <1>8, <1>10
  <2>2. PICK i \in I : i.tag = "Remove"
    BY <1>5, <2>1
  <2>3. \A j \in I : j.tag = "Remove"
    <3>1. \A j \in I : j.tag \notin CreateTags
      BY <1>5, <2>1
    <3>. QED  BY <1>10, <2>2, <3>1, ScanMissing DEF I
  <2>4. \A tag \in MetaTags : OnPath(S, p, {tag}) = {}
    BY <1>5, <2>3 DEF MetaTags
  <2>5. /\ ImpliedMode(Removed) = DEFAULT_FILE_MODE /\ ImpliedName(Removed) = ROOT
        /\ "SetMode" \in MetaTags /\ "SetOwner" \in MetaTags /\ "SetGroup" \in MetaTags
    BY <1>6 DEF ImpliedMode, ImpliedName, MetaTags
  <2>6. MetadataFollows(S, y, p)
    BY <1>3 DEF Follows
  <2>. QED  BY <1>10, <2>4, <2>5, <2>6 DEF MetadataFollows, FieldFollows
<1>. QED  BY <1>4, <1>9, <1>10

\* What becomes of a path that the scan says something of.
NodeMerged(p, y, t, A) ==
    \/ t = NoNode /\ IntoInstructions(p, y) = {}
    \/ t = NoNode /\ \E q \in Path : p \in StrictAncestors(q) /\ Instr(q, "Remove", None) \in A
    \/ t # NoNode /\ y.entry = Unchanged /\ t.entry # Unchanged
    \/ t # NoNode /\ t.entry = Unchanged /\ y.entry = Directory
    \/ t # NoNode /\ t.entry = y.entry /\ FieldsMerged(p, y, t, A)

\* Entry and metadata together.
LEMMA MergedNode ==
    ASSUME NEW F \in SUBSET FsInstruction, IsFiniteSet(F), NEW p \in Path,
           NEW s, Follows(F, s, p), s[p] \in FsNode \cup {NoNode},
           NEW y \in FsNode, y.entry = Unchanged => ~y.removed_before_added,
           y.entry = Removed => y.mode = DEFAULT_FILE_MODE /\ y.owner = ROOT /\ y.group = ROOT,
           NEW A \in SUBSET FsInstruction, {i \in A : i.path = p} = SavedAt(p, s[p], y),
           \A i \in A : i.tag = "Remove" => i = Instr(i.path, "Remove", None),
           NEW t, Follows(Updated(F, A), t, p)
    PROVE  NodeMerged(p, y, t[p], A)
<1>1. \/ t[p] = NoNode /\ s[p] = NoNode /\ IntoInstructions(p, y) = {}
      \/ t[p] = NoNode /\ \E q \in Path : p \in StrictAncestors(q) /\ Instr(q, "Remove", None) \in A
      \/ t[p] # NoNode /\ y.entry = Unchanged /\ t[p].entry # Unchanged
      \/ t[p] # NoNode /\ t[p].entry = Unchanged /\ y.entry = Directory
      \/ /\ t[p] # NoNode /\ t[p].entry = y.entry
         /\ y.entry = Unchanged => s[p] = NoNode \/ s[p].entry = Unchanged
  BY MergedEntry
<1>2. CASE /\ t[p] # NoNode /\ t[p].entry = y.entry
           /\ y.entry = Unchanged => s[p] = NoNode \/ s[p].entry = Unchanged
  <2>1. FieldsMerged(p, y, t[p], A)
    BY <1>2, MergedFields
  <2>. QED  BY <1>2, <2>1 DEF NodeMerged
<1>. QED  BY <1>1, <1>2 DEF NodeMerged

\* Root was left out of the lines for what was there already.
RootMissing(y, t) ==
    /\ y.entry = Unchanged /\ t.entry = Unchanged
    /\ \/ y.owner = ROOT /\ t.owner = None
       \/ y.group = ROOT /\ t.group = None

\* The lines that save would write once more.
LEMMA SavedAgain ==
    ASSUME NEW p \in Path, NEW y \in FsNode, NEW t \in FsNode \cup {NoNode}, NEW A,
           NodeMerged(p, y, t, A), NEW i \in SavedAt(p, t, y)
    PROVE  \/ t = NoNode /\ \E q \in Path : p \in StrictAncestors(q) /\ Instr(q, "Remove", None) \in A
           \/ t # NoNode /\ y.entry = Unchanged /\ t.entry # Unchanged
           \/ t # NoNode /\ t.entry = Unchanged /\ y.entry = Directory
           \/ t # NoNode /\ i.arg = ROOT /\ RootMissing(y, t)
           \/ i.tag = "SetMode" /\ y.entry.kind = "Symlink"
           \/ /\ i.tag = "SetMode" /\ i.arg \in {DEFAULT_FILE_MODE, DEFAULT_DIR_MODE}
              /\ Instr(p, "Remove", None) \in A
<1>. DEFINE R == Instr(p, "Remove", None) \in A
<1>1. y # NoNode
  BY NodeAssumption
<1>2. CASE t = NoNode
  <2>1. IntoInstructions(p, y) # {}
    BY <1>1, <1>2, SavedAtIs
  <2>. QED  BY <1>2, <2>1 DEF NodeMerged
<1>3. CASE t # NoNode /\ t.entry = y.entry /\ FieldsMerged(p, y, t, A)
  <2>1. i \in MetadataDiff(p, t, y) /\ i.tag # "Comment"
    BY <1>1, <1>3, SavedAtIs
  <2>2. \/ i = Instr(p, "SetMode", y.mode) /\ y.mode # None /\ t.mode # y.mode
        \/ i = Instr(p, "SetOwner", y.owner) /\ y.owner # None /\ t.owner # y.owner
        \/ i = Instr(p, "SetGroup", y.group) /\ y.group # None /\ t.group # y.group
    BY <2>1, InstrFields DEF MetadataDiff, FieldDiff
  <2>3. i.tag = "SetMode" => y.entry.kind = "Symlink" \/ (R /\ i.arg \in {DEFAULT_FILE_MODE, DEFAULT_DIR_MODE})
    BY <1>3, <2>2, InstrFields DEF FieldsMerged
  <2>4. i.tag = "SetMode" \/ (i.arg = ROOT /\ RootMissing(y, t))
    BY <1>3, <2>2, InstrFields DEF FieldsMerged, RootMissing
  <2>. QED  BY <1>3, <2>3, <2>4
<1>. QED  BY <1>2, <1>3 DEF NodeMerged

\* Why an instruction of apply is not one that undoes what the scan found.
Harmless(p, y, t, A, i) ==
    \/ t = NoNode /\ \E q \in Path : p \in StrictAncestors(q) /\ Instr(q, "Remove", None) \in A
    \/ t # NoNode /\ y.entry = Unchanged /\ t.entry # Unchanged
    \/ t # NoNode /\ t.entry = Unchanged /\ y.entry = Directory
    \/ t = NoNode /\ y.entry = Unchanged /\ (y.owner = ROOT \/ y.group = ROOT)
    \/ i.tag = "Comment"
    \/ i.tag = "Remove" /\ y.entry = Unchanged
    \/ i.tag = "SetMode" /\ y.mode = None
    \/ i.tag = "SetOwner" /\ y.owner = None
    \/ i.tag = "SetGroup" /\ y.group = None
    \/ i.path = p /\ i.tag = "SetMode" /\ y.entry.kind = "Symlink"
    \/ /\ i.path = p /\ i.tag = "SetMode" /\ i.arg \in {DEFAULT_FILE_MODE, DEFAULT_DIR_MODE}
       /\ Instr(p, "Remove", None) \in A

\* What apply would do to what the scan found.
LEMMA AppliedAgain ==
    ASSUME NEW p \in Path, NEW y \in FsNode, NEW t \in FsNode \cup {NoNode}, NEW A, NEW pkg,
           NodeMerged(p, y, t, A), NEW i \in DiffPath(p, y, t, LeftApply(p, y, pkg))
    PROVE  Harmless(p, y, t, A, i)
<1>. DEFINE R == Instr(p, "Remove", None) \in A
<1>1. y # NoNode /\ y.entry \in FsEntry
  BY NodeFields
<1>2. CASE t = NoNode /\ IntoInstructions(p, y) = {}
  <2>1. i \in LeftApply(p, y, pkg)
    BY <1>1, <1>2 DEF DiffPath
  <2>2. y.entry = Unchanged
    <3>1. BaseInstruction(p, y.entry) = {}
      BY <1>2 DEF IntoInstructions
    <3>. QED  BY <1>1, <3>1, BaseMakes
  <2>3. y.entry.kind = "Unchanged"
    BY <2>2 DEF Unchanged, Entry
  <2>4. y.mode = None /\ y.owner \in {None, ROOT} /\ y.group \in {None, ROOT}
    <3>1. /\ y.entry.kind \notin {"Removed", "Symlink"} /\ y.entry.kind # "Removed"
          /\ EntryDefaultMode(y.entry.kind) = None
      BY <2>3 DEF EntryDefaultMode
    <3>. QED  BY <1>2, <3>1 DEF IntoInstructions
  <2>5. CASE y.owner = None /\ y.group = None
    <3>1. i = Instr(p, "Remove", None)
      BY <2>1, <2>2, <2>4, <2>5 DEF LeftApply, RestoreField
    <3>. QED  BY <2>2, <3>1, InstrFields DEF Harmless
  <2>. QED  BY <1>2, <2>2, <2>4, <2>5 DEF Harmless
<1>3. CASE t # NoNode /\ t.entry = y.entry /\ FieldsMerged(p, y, t, A)
  <2>1. i \in MetadataDiff(p, y, t)
    BY <1>1, <1>3 DEF DiffPath, DiffBoth
  <2>2. \/ i = Instr(p, "SetMode", t.mode) /\ t.mode # None /\ t.mode # y.mode
        \/ i = Instr(p, "SetOwner", t.owner) /\ t.owner # None /\ t.owner # y.owner
        \/ i = Instr(p, "SetGroup", t.group) /\ t.group # None /\ t.group # y.group
        \/ i.tag = "Comment"
    BY <2>1, InstrFields DEF MetadataDiff, FieldDiff
  <2>3. i.tag = "SetMode" => \/ y.mode = None \/ y.entry.kind = "Symlink"
                             \/ R /\ i.arg \in {DEFAULT_FILE_MODE, DEFAULT_DIR_MODE}
    BY <1>3, <2>2, InstrFields DEF FieldsMerged
  <2>4. i.tag = "SetOwner" => y.owner = None
    BY <1>3, <2>2, InstrFields DEF FieldsMerged
  <2>5. i.tag = "SetGroup" => y.group = None
    BY <1>3, <2>2, InstrFields DEF FieldsMerged
  <2>6. i.tag \in {"SetMode", "SetOwner", "SetGroup", "Comment"} /\ (i.tag = "SetMode" => i.path = p)
    BY <2>2, InstrFields
  <2>. QED  BY <2>3, <2>4, <2>5, <2>6 DEF Harmless
<1>. QED  BY <1>2, <1>3 DEF NodeMerged, Harmless

\* What a scan of the system finds.
Scanned(ig) == BuildMap(ScanInstructions(system.disk, system.pkgs, ig))

\* Saving or applying once more, when the maps are those of a merged configuration.
LEMMA MergedMaps ==
    ASSUME SaveInv, NEW F \in SUBSET FsInstruction, IsFiniteSet(F),
           NEW ig, ~ScanFails(system.disk, system.pkgs, ig), sys_fs = Scanned(ig),
           NEW A, A = SavedFrom(BuildMap(F), sys_fs), script_fs = BuildMap(Updated(F, A)),
           \A q \in Path : Instr(q, "Remove", None) \in A => LineRemoves(q)
    PROVE  /\ \A i \in Additions :
                 \/ HardCase(i.path)
                 \/ i.arg = ROOT /\ RootLeftOut(i.path)
                 \/ ModeOfLink(i) \/ ModeOfOther(i)
           /\ \A p \in Path : sys_fs[p] # NoNode /\ ~HardCase(p) /\ ~RootLeftOut(p) =>
                 \A i \in DiffPath(p, sys_fs[p], script_fs[p], LeftApply(p, sys_fs[p], system.pkgs[p])) :
                    ~Reported(p, i.tag) \/ ModeOfLink(i) \/ ModeOfOther(i)
<1>. DEFINE s == BuildMap(F)
            G == Updated(F, A)
<1>1. s \in FsMap /\ \A p \in Path : Follows(F, s, p)
  BY BuildMapFollows
<1>2. /\ system.disk \in DiskState /\ system.pkgs \in Database /\ IsFiniteSet(Path)
      /\ script_fs \in FsMap /\ sys_fs \in FsMap
  BY SaveAssumption DEF SaveInv, Database
<1>. HIDE DEF s, G
<1>3. /\ A \in SUBSET FsInstruction /\ IsFiniteSet(A)
      /\ \A p \in Path : {i \in A : i.path = p} = SavedAt(p, s[p], sys_fs[p])
  <2>1. A = SavedFrom(s, sys_fs)
    BY DEF s
  <2>. QED  BY <1>1, <1>2, <2>1, SavedTyped
<1>4. \A i \in A : i.tag = "Remove" => i = Instr(i.path, "Remove", None)
  <2>1. ASSUME NEW i \in A, i.tag = "Remove" PROVE i = Instr(i.path, "Remove", None)
    <3>. DEFINE p == i.path
    <3>1. p \in Path
      BY <1>3, Operands
    <3>2. i \in SavedAt(p, s[p], sys_fs[p])
      <4>1. i \in {j \in A : j.path = p}
        OBVIOUS
      <4>. QED  BY <1>3, <3>1, <4>1
    <3>3. s[p] \in FsNode \cup {NoNode} /\ sys_fs[p] \in FsNode \cup {NoNode}
      BY <1>1, <1>2, <3>1 DEF FsMap
    <3>. QED  BY <2>1, <3>1, <3>2, <3>3, SavedAtIs
  <2>. QED  BY <2>1
<1>5. G \in SUBSET FsInstruction /\ IsFiniteSet(G)
  <2>1. {i \in F : ~Superseded(i, A)} \subseteq F
    OBVIOUS
  <2>2. IsFiniteSet({i \in F : ~Superseded(i, A)})
    BY <2>1, FS_Subset
  <2>3. IsFiniteSet({i \in F : ~Superseded(i, A)} \cup A)
    BY <1>3, <2>2, FS_Union
  <2>. QED  BY <1>3, <2>3 DEF G, Updated
<1>6. \A p \in Path : Follows(G, script_fs, p)
  <2>1. script_fs = BuildMap(G)
    BY DEF G
  <2>. QED  BY <1>5, <2>1, BuildMapFollows
<1>7. ASSUME NEW p \in Path, sys_fs[p] # NoNode, ~SocketThere(p)
      PROVE  NodeMerged(p, sys_fs[p], script_fs[p], A) /\ sys_fs[p] \in FsNode
  <2>. DEFINE d == system.disk
              db == system.pkgs
              y == sys_fs[p]
  <2>1. /\ y \in FsNode
        /\ y.entry = Unchanged => ~y.removed_before_added
        /\ y.entry = Removed => y.mode = DEFAULT_FILE_MODE /\ y.owner = ROOT /\ y.group = ROOT
    <3>1. ~(d[p] # NoNode /\ d[p].kind = "Socket")
      BY <1>7 DEF SocketThere
    <3>2. sys_fs = BuildMap(ScanInstructions(d, db, ig)) /\ ~ScanFails(d, db, ig)
      BY DEF Scanned
    <3>3. d \in DiskState /\ db \in Database
      BY <1>2
    <3>. HIDE DEF d, db
    <3>. QED  BY <1>2, <1>7, <3>1, <3>2, <3>3, ScanDefaults
  <2>2. Follows(F, s, p) /\ s[p] \in FsNode \cup {NoNode} /\ {i \in A : i.path = p} = SavedAt(p, s[p], y)
    BY <1>1, <1>3 DEF FsMap
  <2>3. Follows(Updated(F, A), script_fs, p)
    BY <1>6 DEF G
  <2>. HIDE DEF y
  <2>4. NodeMerged(p, y, script_fs[p], A)
    BY <1>3, <1>4, <2>1, <2>2, <2>3, MergedNode
  <2>. QED  BY <2>1, <2>4 DEF y
<1>8. ASSUME NEW p \in Path, sys_fs[p] # NoNode
      PROVE  /\ \/ script_fs[p] = NoNode /\ \E q \in Path : p \in StrictAncestors(q) /\ Instr(q, "Remove", None) \in A
                \/ script_fs[p] # NoNode /\ sys_fs[p].entry = Unchanged /\ script_fs[p].entry # Unchanged
                \/ script_fs[p] # NoNode /\ script_fs[p].entry = Unchanged /\ sys_fs[p].entry = Directory
                => HardCase(p)
             /\ script_fs[p] # NoNode /\ RootMissing(sys_fs[p], script_fs[p]) => RootLeftOut(p)
  <2>1. (\E q \in Path : p \in StrictAncestors(q) /\ Instr(q, "Remove", None) \in A) =>
           \E q \in Path : p \in StrictAncestors(q) /\ LineRemoves(q)
    OBVIOUS
  <2>. QED  BY <1>8, <2>1 DEF HardCase, NothingLeftIn, TakenForRemoved, OnTheWay, RootMissing, RootLeftOut
<1>9. ASSUME NEW i \in Additions
      PROVE  \/ HardCase(i.path)
             \/ i.arg = ROOT /\ RootLeftOut(i.path)
             \/ ModeOfLink(i) \/ ModeOfOther(i)
  <2>. DEFINE p == i.path
  <2>1. p \in Path /\ i \in SavedAt(p, script_fs[p], sys_fs[p]) /\ sys_fs[p] # NoNode
    <3>1. i \in FsInstruction /\ \A q \in Path : {j \in Additions : j.path = q} = SavedAt(q, script_fs[q], sys_fs[q])
      BY AdditionsAre DEF Spelt
    <3>2. p \in Path
      BY <3>1, Operands
    <3>3. i \in SavedAt(p, script_fs[p], sys_fs[p])
      <4>1. i \in {j \in Additions : j.path = p}
        OBVIOUS
      <4>. QED  BY <3>1, <3>2, <4>1
    <3>4. script_fs[p] \in FsNode \cup {NoNode} /\ sys_fs[p] \in FsNode \cup {NoNode}
      BY <1>2, <3>2 DEF FsMap
    <3>. QED  BY <3>2, <3>3, <3>4, SavedAtIs
  <2>2. script_fs[p] \in FsNode \cup {NoNode}
    BY <1>2, <2>1 DEF FsMap
  <2>3. CASE SocketThere(p)
    BY <2>3 DEF HardCase
  <2>4. CASE ~SocketThere(p)
    <3>1. NodeMerged(p, sys_fs[p], script_fs[p], A) /\ sys_fs[p] \in FsNode
      BY <1>7, <2>1, <2>4
    <3>2. \/ script_fs[p] = NoNode /\ \E q \in Path : p \in StrictAncestors(q) /\ Instr(q, "Remove", None) \in A
          \/ script_fs[p] # NoNode /\ sys_fs[p].entry = Unchanged /\ script_fs[p].entry # Unchanged
          \/ script_fs[p] # NoNode /\ script_fs[p].entry = Unchanged /\ sys_fs[p].entry = Directory
          \/ script_fs[p] # NoNode /\ i.arg = ROOT /\ RootMissing(sys_fs[p], script_fs[p])
          \/ i.tag = "SetMode" /\ sys_fs[p].entry.kind = "Symlink"
          \/ /\ i.tag = "SetMode" /\ i.arg \in {DEFAULT_FILE_MODE, DEFAULT_DIR_MODE}
             /\ Instr(p, "Remove", None) \in A
      <4>. HIDE DEF p
      <4>. QED  BY <2>1, <2>2, <3>1, SavedAgain
    <3>3. Instr(p, "Remove", None) \in A => LineRemoves(p)
      BY <2>1
    <3>. QED  BY <1>8, <2>1, <3>2, <3>3 DEF ModeOfLink, ModeOfOther
  <2>. QED  BY <2>3, <2>4
<1>10. ASSUME NEW p \in Path, sys_fs[p] # NoNode, ~HardCase(p), ~RootLeftOut(p),
              NEW i \in DiffPath(p, sys_fs[p], script_fs[p], LeftApply(p, sys_fs[p], system.pkgs[p]))
       PROVE  ~Reported(p, i.tag) \/ ModeOfLink(i) \/ ModeOfOther(i)
  <2>1. NodeMerged(p, sys_fs[p], script_fs[p], A) /\ sys_fs[p] \in FsNode
    BY <1>7, <1>10 DEF HardCase
  <2>2. script_fs[p] \in FsNode \cup {NoNode}
    BY <1>2 DEF FsMap
  <2>. DEFINE y == sys_fs[p]
              t == script_fs[p]
              pkg == system.pkgs[p]
  <2>3. Harmless(p, y, t, A, i)
    <3>1. y \in FsNode /\ t \in FsNode \cup {NoNode} /\ NodeMerged(p, y, t, A) /\ i \in DiffPath(p, y, t, LeftApply(p, y, pkg))
      BY <1>10, <2>1, <2>2
    <3>. HIDE DEF y, t, pkg
    <3>. QED  BY <3>1, AppliedAgain
  <2>4. ~(script_fs[p] = NoNode /\ sys_fs[p].entry = Unchanged /\ (sys_fs[p].owner = ROOT \/ sys_fs[p].group = ROOT))
    BY <1>10 DEF RootLeftOut
  <2>5. \/ i.tag = "Comment"
        \/ i.tag = "Remove" /\ sys_fs[p].entry = Unchanged
        \/ i.tag = "SetMode" /\ sys_fs[p].mode = None
        \/ i.tag = "SetOwner" /\ sys_fs[p].owner = None
        \/ i.tag = "SetGroup" /\ sys_fs[p].group = None
        => ~Reported(p, i.tag)
    BY DEF Reported
  <2>. QED  BY <1>8, <1>10, <2>3, <2>4, <2>5 DEF Harmless, ModeOfLink, ModeOfOther
<1>. QED  BY <1>9, <1>10

-----------------------------------------------------------------------------
(* What the first n calls of a phase amount to *)

EnabledBy(s, n) == {s[k].name : k \in {k \in 1 .. n : s[k].call = "enable_pkg_backend"}}

\* The file backend after them.
SetTo(s, n, b) ==
    \/ b = None /\ \A k \in 1 .. n : s[k].call # "set_file_backend"
    \/ \E k \in 1 .. n : /\ s[k].call = "set_file_backend" /\ s[k].name = b
                         /\ \A j \in k + 1 .. n : s[j].call # "set_file_backend"

IgnoredBy(s, n) == {s[k].path : k \in {k \in 1 .. n : s[k].call = "ignore_path"}}

\* The instructions that they queue, where each queues the one it means.
QueuedBy(s, n) == {Meaning(s[k]) : k \in {k \in 1 .. n : IsFsCall(s[k])}}

\* The calls for a package that have an effect: E are the package managers enabled, b the
\* file backend.
Adds(c, id, E) == c.call = "add_pkg" /\ c.id = id /\ id.manager \in E

Removes(c, id, b) == c.call = "remove_pkg" /\ c.id = id /\ id.manager = b

NoRemoval(s, n, id, b) == \A k \in 1 .. n : ~Removes(s[k], id, b)

Wins(s, n, id, E, b) ==
    \E k \in 1 .. n : Adds(s[k], id, E) /\ \A j \in k + 1 .. n : ~Removes(s[j], id, b)

\* The same of two phases.
WinsInBoth(s, m, t, n, id, E, b) ==
    \/ Wins(t, n, id, E, b)
    \/ Wins(s, m, id, E, b) /\ NoRemoval(t, n, id, b)

\* One more call.
LEMMA OneMoreCall ==
    ASSUME NEW s, NEW n \in Nat
    PROVE  /\ EnabledBy(s, n + 1) = IF s[n + 1].call = "enable_pkg_backend"
                                    THEN EnabledBy(s, n) \cup {s[n + 1].name} ELSE EnabledBy(s, n)
           /\ IgnoredBy(s, n + 1) = IF s[n + 1].call = "ignore_path"
                                    THEN IgnoredBy(s, n) \cup {s[n + 1].path} ELSE IgnoredBy(s, n)
           /\ QueuedBy(s, n + 1) = IF IsFsCall(s[n + 1])
                                   THEN QueuedBy(s, n) \cup {Meaning(s[n + 1])} ELSE QueuedBy(s, n)
           /\ \A b : SetTo(s, n, b) => SetTo(s, n + 1, IF s[n + 1].call = "set_file_backend" THEN s[n + 1].name ELSE b)
           /\ \A id, b : NoRemoval(s, n + 1, id, b) <=> NoRemoval(s, n, id, b) /\ ~Removes(s[n + 1], id, b)
           /\ \A id, E, b : Wins(s, n + 1, id, E, b) <=>
                               \/ Adds(s[n + 1], id, E)
                               \/ Wins(s, n, id, E, b) /\ ~Removes(s[n + 1], id, b)
<1>. DEFINE m == n + 1
<1>1. 1 .. m = (1 .. n) \cup {m} /\ m \notin 1 .. n
  OBVIOUS
<1>2. /\ \A k \in 1 .. n : k + 1 .. m = (k + 1 .. n) \cup {m}
      /\ m + 1 .. m = {} /\ \A k \in 1 .. n : k + 1 .. n \subseteq 1 .. n
  OBVIOUS
<1>. HIDE DEF m
<1>3. EnabledBy(s, m) = IF s[m].call = "enable_pkg_backend" THEN EnabledBy(s, n) \cup {s[m].name} ELSE EnabledBy(s, n)
  BY <1>1 DEF EnabledBy
<1>4. IgnoredBy(s, m) = IF s[m].call = "ignore_path" THEN IgnoredBy(s, n) \cup {s[m].path} ELSE IgnoredBy(s, n)
  BY <1>1 DEF IgnoredBy
<1>5. QueuedBy(s, m) = IF IsFsCall(s[m]) THEN QueuedBy(s, n) \cup {Meaning(s[m])} ELSE QueuedBy(s, n)
  BY <1>1 DEF QueuedBy
<1>6. ASSUME NEW b, SetTo(s, n, b)
      PROVE  SetTo(s, m, IF s[m].call = "set_file_backend" THEN s[m].name ELSE b)
  BY <1>1, <1>2, <1>6 DEF SetTo
<1>7. ASSUME NEW id, NEW b
      PROVE  NoRemoval(s, m, id, b) <=> NoRemoval(s, n, id, b) /\ ~Removes(s[m], id, b)
  BY <1>1 DEF NoRemoval
<1>8. ASSUME NEW id, NEW E, NEW b
      PROVE  Wins(s, m, id, E, b) <=> Adds(s[m], id, E) \/ (Wins(s, n, id, E, b) /\ ~Removes(s[m], id, b))
  <2>1. ~(Adds(s[m], id, E) /\ Removes(s[m], id, b))
    BY DEF Adds, Removes
  <2>. QED  BY <1>1, <1>2, <2>1 DEF Wins
<1>. QED  BY <1>3, <1>4, <1>5, <1>6, <1>7, <1>8 DEF m

\* No call.
LEMMA NoneYet ==
    ASSUME NEW s
    PROVE  /\ EnabledBy(s, 0) = {} /\ IgnoredBy(s, 0) = {} /\ QueuedBy(s, 0) = {}
           /\ SetTo(s, 0, None)
           /\ \A id, b : NoRemoval(s, 0, id, b)
           /\ \A id, E, b : ~Wins(s, 0, id, E, b)
<1>1. 1 .. 0 = {}
  OBVIOUS
<1>. QED  BY <1>1 DEF EnabledBy, IgnoredBy, QueuedBy, SetTo, NoRemoval, Wins

\* There is but one file backend.
LEMMA OneBackend ==
    ASSUME NEW s, NEW n \in Nat, NEW a, NEW b, SetTo(s, n, a), SetTo(s, n, b)
    PROVE  a = b
<1>1. CASE \A k \in 1 .. n : s[k].call # "set_file_backend"
  BY <1>1 DEF SetTo
<1>2. CASE \E k \in 1 .. n : s[k].call = "set_file_backend"
  <2>1. PICK k \in 1 .. n : /\ s[k].call = "set_file_backend" /\ s[k].name = a
                            /\ \A j \in k + 1 .. n : s[j].call # "set_file_backend"
    BY <1>2 DEF SetTo
  <2>2. PICK i \in 1 .. n : /\ s[i].call = "set_file_backend" /\ s[i].name = b
                            /\ \A j \in i + 1 .. n : s[j].call # "set_file_backend"
    BY <1>2 DEF SetTo
  <2>3. ~(k < i) /\ ~(i < k)
    BY <2>1, <2>2
  <2>. QED  BY <2>1, <2>2, <2>3
<1>. QED  BY <1>1, <1>2

-----------------------------------------------------------------------------
(* A run: what the calls that were made have left *)

Phases == SystemDiscovery .. Main

\* How many calls of a phase were made in this run.
Made(p) == IF p < phase THEN Len(script[p]) ELSE IF p = phase THEN pc - 1 ELSE 0

RightCalls == \A p \in Phases : \A k \in 1 .. Made(p) : Right(p, script[p][k])

SettingsRead ==
    /\ settings.pkg_backends = EnabledBy(script[SystemDiscovery], Made(SystemDiscovery))
    /\ SetTo(script[SystemDiscovery], Made(SystemDiscovery), settings.file_backend)

IgnoresRead == fs_ignores = IgnoredBy(script[Ignores], Made(Ignores))

PackagesLoaded ==
    phase # SystemDiscovery =>
        /\ settings.file_backend \in FileBackend /\ settings.pkg_backends \subseteq PkgBackend
        /\ pkgs_sys = LoadPackages(settings.pkg_backends)

ActionsRead ==
    \A id \in PkgIdent :
        package_actions[id] = "Install" <=>
            WinsInBoth(script[ScriptDependencies], Made(ScriptDependencies), script[Main], Made(Main),
                       id, settings.pkg_backends, settings.file_backend)

RunRead == RightCalls /\ SettingsRead /\ IgnoresRead /\ PackagesLoaded /\ ActionsRead

\* The numbers of calls.
LEMMA MadeIs ==
    ASSUME SaveInv, progress # "idle"
    PROVE  /\ \A p \in Phases : /\ Made(p) \in 0 .. Len(script[p]) /\ Len(script[p]) \in Nat
                                /\ DOMAIN script[p] = 1 .. Len(script[p])
                                /\ p < phase => Made(p) = Len(script[p])
                                /\ p > phase => Made(p) = 0
           /\ Made(phase) = pc - 1 /\ phase \in Phases /\ phase \in 1 .. 4 /\ Phases = 1 .. 4 /\ pc \in Nat
<1>1. /\ phase \in Phases /\ Phases = 1 .. 4
      /\ \A p \in Phases : script[p] \in Seq(ToSet(script[p]))
      /\ pc \in 1 .. (Len(script[phase]) + 1)
  BY DEF SaveInv, CallsTyped, Phases, SystemDiscovery, Main
<1>2. \A p \in Phases : Len(script[p]) \in Nat /\ DOMAIN script[p] = 1 .. Len(script[p])
  BY <1>1, LenProperties
<1>. QED  BY <1>1, <1>2 DEF Made

\* A call returned.
LEMMA MadeOneMore ==
    ASSUME SaveInv, Outcome, Returned
    PROVE  /\ progress = "running" /\ progress' = "running" /\ progress # "idle"
           /\ UNCHANGED <<script, config_files, phase>>
           /\ \A p \in Phases : Made(p)' = IF p = phase THEN Made(p) + 1 ELSE Made(p)
           /\ script[phase][Made(phase) + 1] = Call
           /\ Makes(phase, Call) /\ Right(phase, Call)
           /\ \A p, c : Right(p, c)' <=> Right(p, c)
<1>1. /\ progress = "running" /\ progress' = "running" /\ progress # "idle"
      /\ UNCHANGED <<script, config_files, phase>> /\ pc' = pc + 1 /\ pc \in DOMAIN script[phase]
      /\ Right(phase, Call)
  BY DEF Outcome, Returned
<1>2. /\ phase \in 1 .. 4 /\ pc \in Nat /\ Made(phase) = pc - 1 /\ Phases = 1 .. 4
  BY <1>1, MadeIs
<1>3. \A p \in Phases : Made(p)' = IF p = phase THEN Made(p) + 1 ELSE Made(p)
  BY <1>1, <1>2 DEF Made
<1>4. script[phase][Made(phase) + 1] = Call
  BY <1>2 DEF Call
<1>5. Makes(phase, Call)
  <2>1. Call \in ToSet(script[phase])
    BY <1>1 DEF Call, ToSet
  <2>. QED  BY <2>1 DEF SaveInv, CallsTyped
<1>6. \A p, c : Right(p, c)' <=> Right(p, c)
  BY <1>1 DEF Right, Fine, FineAnywhere, PlainFine, SourceFile
<1>. QED  BY <1>1, <1>3, <1>4, <1>5, <1>6

\* What is left by a call for a package.
LEMMA ActionsAfter ==
    ASSUME SaveInv, Outcome, Returned, NEW id \in PkgIdent
    PROVE  package_actions'[id] = "Install" <=>
              \/ Adds(Call, id, settings.pkg_backends)
              \/ package_actions[id] = "Install" /\ ~Removes(Call, id, settings.file_backend)
<1>1. /\ package_actions' =
            IF PkgCall(Call) /\ Effective(Call)
            THEN [package_actions EXCEPT ![Call.id] = IF Call.call = "add_pkg" THEN "Install" ELSE "Uninstall"]
            ELSE package_actions
      /\ package_actions \in [PkgIdent -> {"Install", "Uninstall", None}]
  BY DEF Returned, SaveInv, CallsTyped
<1>2. CASE PkgCall(Call) /\ Effective(Call)
  <2>1. \/ Call.call = "add_pkg" /\ Call.id.manager \in settings.pkg_backends
        \/ Call.call = "remove_pkg" /\ Call.id.manager = settings.file_backend
    BY <1>2 DEF Effective
  <2>2. package_actions'[id] = IF id = Call.id THEN IF Call.call = "add_pkg" THEN "Install" ELSE "Uninstall"
                               ELSE package_actions[id]
    BY <1>1, <1>2
  <2>. QED  BY <2>1, <2>2 DEF Adds, Removes
<1>3. CASE ~(PkgCall(Call) /\ Effective(Call))
  BY <1>1, <1>3 DEF PkgCall, Effective, Adds, Removes
<1>. QED  BY <1>2, <1>3

\* What the calls amount to after one that returned.
LEMMA ReadReturned ==
    ASSUME SaveInv, RunRead, Outcome, Returned, UNCHANGED <<system, pkgs_sys>>
    PROVE  RunRead'
<1>1. /\ UNCHANGED <<script, phase>>
      /\ \A p \in Phases : Made(p)' = IF p = phase THEN Made(p) + 1 ELSE Made(p)
      /\ script[phase][Made(phase) + 1] = Call
      /\ Makes(phase, Call) /\ Right(phase, Call)
      /\ \A p, c : Right(p, c)' <=> Right(p, c)
  BY MadeOneMore
<1>2. /\ phase \in 1 .. 4 /\ Phases = 1 .. 4 /\ \A p \in Phases : Made(p) \in Nat /\ (p > phase => Made(p) = 0)
  <2>1. progress # "idle"
    BY MadeOneMore
  <2>2. \A p \in Phases : Made(p) \in 0 .. Len(script[p]) /\ (p > phase => Made(p) = 0)
    BY <2>1, MadeIs
  <2>. QED  BY <2>1, <2>2, MadeIs
<1>. DEFINE n == Made(phase)
            s == script[phase]
<1>3. /\ settings'.file_backend = IF Call.call = "set_file_backend" THEN Call.name ELSE settings.file_backend
      /\ settings'.pkg_backends = IF Call.call = "enable_pkg_backend"
                                  THEN settings.pkg_backends \cup {Call.name} ELSE settings.pkg_backends
      /\ fs_ignores' = IF Call.call = "ignore_path" THEN fs_ignores \cup {Call.path} ELSE fs_ignores
  BY DEF Returned
<1>4. /\ Call.call \in {"set_file_backend", "enable_pkg_backend"} => phase = 1
      /\ Call.call = "ignore_path" => phase = 2
      /\ PkgCall(Call) => phase \in {3, 4}
  BY <1>1, <1>2 DEF Makes, Right, Fine, FineAnywhere, PlainFine, PlainCalls, PkgCall,
                    SystemDiscovery, Ignores, ScriptDependencies, Main
<1>5. n \in Nat /\ s[n + 1] = Call /\ Made(phase)' = n + 1
  BY <1>1, <1>2
<1>6. RightCalls'
  <2>1. ASSUME NEW p \in Phases, NEW k \in 1 .. Made(p)' PROVE Right(p, script[p][k])
    <3>1. CASE p = phase /\ k = n + 1
      BY <1>1, <1>5, <3>1
    <3>2. CASE ~(p = phase /\ k = n + 1)
      <4>1. k \in 1 .. Made(p)
        BY <1>1, <1>2, <1>5, <2>1, <3>2
      <4>. QED  BY <4>1 DEF RunRead, RightCalls
    <3>. QED  BY <3>1, <3>2
  <2>. QED  BY <1>1, <2>1 DEF RightCalls
<1>7. SettingsRead'
  <2>0. /\ settings.pkg_backends = EnabledBy(script[1], Made(1)) /\ SetTo(script[1], Made(1), settings.file_backend)
        /\ 1 \in Phases
    BY <1>2 DEF RunRead, SettingsRead, SystemDiscovery
  <2>1. CASE phase = 1
    <3>1. /\ EnabledBy(s, n + 1) = IF Call.call = "enable_pkg_backend"
                                   THEN EnabledBy(s, n) \cup {Call.name} ELSE EnabledBy(s, n)
          /\ SetTo(s, n, settings.file_backend) =>
                SetTo(s, n + 1, IF Call.call = "set_file_backend" THEN Call.name ELSE settings.file_backend)
      <4>. HIDE DEF n, s
      <4>. QED  BY <1>5, OneMoreCall
    <3>. QED  BY <1>1, <1>3, <1>5, <2>0, <2>1, <3>1 DEF SettingsRead, SystemDiscovery
  <2>2. CASE phase # 1
    <3>1. Made(1)' = Made(1) /\ settings'.file_backend = settings.file_backend
          /\ settings'.pkg_backends = settings.pkg_backends
      BY <1>1, <1>3, <1>4, <2>0, <2>2
    <3>. QED  BY <1>1, <2>0, <3>1 DEF SettingsRead, SystemDiscovery
  <2>. QED  BY <2>1, <2>2
<1>8. IgnoresRead'
  <2>0. fs_ignores = IgnoredBy(script[2], Made(2)) /\ 2 \in Phases
    BY <1>2 DEF RunRead, IgnoresRead, Ignores
  <2>1. CASE phase = 2
    <3>1. IgnoredBy(s, n + 1) = IF Call.call = "ignore_path"
                                THEN IgnoredBy(s, n) \cup {Call.path} ELSE IgnoredBy(s, n)
      <4>. HIDE DEF n, s
      <4>. QED  BY <1>5, OneMoreCall
    <3>. QED  BY <1>1, <1>3, <1>5, <2>0, <2>1, <3>1 DEF IgnoresRead, Ignores
  <2>2. CASE phase # 2
    <3>1. Made(2)' = Made(2) /\ fs_ignores' = fs_ignores
      BY <1>1, <1>3, <1>4, <2>0, <2>2
    <3>. QED  BY <1>1, <2>0, <3>1 DEF IgnoresRead, Ignores
  <2>. QED  BY <2>1, <2>2
<1>9. PackagesLoaded'
  <2>1. phase # 1 => settings'.file_backend = settings.file_backend /\ settings'.pkg_backends = settings.pkg_backends
    BY <1>3, <1>4
  <2>. QED  BY <1>1, <2>1 DEF RunRead, PackagesLoaded, LoadPackages, SystemDiscovery
<1>10. ActionsRead'
  <2>. SUFFICES ASSUME NEW id \in PkgIdent
                PROVE  package_actions'[id] = "Install" <=>
                          WinsInBoth(script[3], Made(3)', script[4], Made(4)',
                                     id, settings'.pkg_backends, settings'.file_backend)
    BY <1>1 DEF ActionsRead, ScriptDependencies, Main
  <2>. DEFINE E == settings.pkg_backends
              b == settings.file_backend
              old == package_actions[id] = "Install"
  <2>1. old <=> WinsInBoth(script[3], Made(3), script[4], Made(4), id, E, b)
    BY DEF RunRead, ActionsRead, ScriptDependencies, Main
  <2>2. package_actions'[id] = "Install" <=> Adds(Call, id, E) \/ (old /\ ~Removes(Call, id, b))
    BY ActionsAfter
  <2>3. 3 \in Phases /\ 4 \in Phases
    BY <1>2
  <2>. HIDE DEF E, b, old
  <2>4. CASE phase \in {1, 2}
    <3>1. Made(3) = 0 /\ Made(4) = 0 /\ Made(3)' = 0 /\ Made(4)' = 0
      BY <1>1, <1>2, <2>3, <2>4
    <3>2. \A F, c : ~WinsInBoth(script[3], 0, script[4], 0, id, F, c)
      BY NoneYet DEF WinsInBoth
    <3>3. ~Adds(Call, id, E)
      BY <1>4, <2>4 DEF Adds, PkgCall
    <3>. QED  BY <2>1, <2>2, <3>1, <3>2, <3>3
  <2>5. CASE phase = 3
    <3>1. Made(4) = 0 /\ Made(4)' = 0 /\ Made(3)' = Made(3) + 1 /\ Made(3) \in Nat
          /\ settings'.pkg_backends = E /\ settings'.file_backend = b /\ script[3][Made(3) + 1] = Call
      BY <1>1, <1>2, <1>3, <1>4, <2>3, <2>5 DEF E, b
    <3>2. \A m : WinsInBoth(script[3], m, script[4], 0, id, E, b) <=> Wins(script[3], m, id, E, b)
      BY NoneYet DEF WinsInBoth
    <3>3. Wins(script[3], Made(3) + 1, id, E, b) <=>
             Adds(Call, id, E) \/ (Wins(script[3], Made(3), id, E, b) /\ ~Removes(Call, id, b))
      BY <3>1, OneMoreCall
    <3>. QED  BY <2>1, <2>2, <3>1, <3>2, <3>3
  <2>6. CASE phase = 4
    <3>1. Made(3)' = Made(3) /\ Made(4)' = Made(4) + 1 /\ Made(4) \in Nat
          /\ settings'.pkg_backends = E /\ settings'.file_backend = b /\ script[4][Made(4) + 1] = Call
      BY <1>1, <1>2, <1>3, <1>4, <2>3, <2>6 DEF E, b
    <3>2. /\ Wins(script[4], Made(4) + 1, id, E, b) <=>
                Adds(Call, id, E) \/ (Wins(script[4], Made(4), id, E, b) /\ ~Removes(Call, id, b))
          /\ NoRemoval(script[4], Made(4) + 1, id, b) <=> NoRemoval(script[4], Made(4), id, b) /\ ~Removes(Call, id, b)
      BY <3>1, OneMoreCall
    <3>. QED  BY <2>1, <2>2, <3>1, <3>2 DEF WinsInBoth
  <2>. QED  BY <1>2, <2>4, <2>5, <2>6
<1>. QED  BY <1>6, <1>7, <1>8, <1>9, <1>10 DEF RunRead

\* Nothing else changes what the calls amount to.
LEMMA ReadKept ==
    ASSUME SaveInv, RunRead, progress # "idle",
           UNCHANGED <<script, settings, fs_ignores, package_actions>>,
           \A p \in Phases : Made(p)' = Made(p),
           \A p, c : Right(p, c) => Right(p, c)',
           PackagesLoaded'
    PROVE  RunRead'
<1>1. Phases = 1 .. 4
  BY MadeIs
<1>2. RightCalls'
  BY DEF RunRead, RightCalls
<1>3. SettingsRead' /\ IgnoresRead'
  BY <1>1 DEF RunRead, SettingsRead, IgnoresRead, SystemDiscovery, Ignores
<1>4. ActionsRead'
  <2>1. Made(3)' = Made(3) /\ Made(4)' = Made(4)
    BY <1>1
  <2>. QED  BY <2>1 DEF RunRead, ActionsRead, ScriptDependencies, Main
<1>. QED  BY <1>2, <1>3, <1>4 DEF RunRead

\* The calls that were right still are, as long as the files are there.
LEMMA RightStays ==
    ASSUME \A p \in Path : config_files[p] # None => config_files'[p] # None
    PROVE  \A p, c : Right(p, c) => Right(p, c)'
  BY DEF Right, Fine, FineAnywhere, PlainFine, SourceFile

\* A run begins.
LEMMA ReadStarts ==
    ASSUME SaveInv, StartRun
    PROVE  RunRead'
<1>1. /\ phase' = 1 /\ pc' = 1 /\ script' = script /\ progress' = "running"
      /\ settings' = FreshSettings /\ fs_ignores' = {}
      /\ package_actions' = [id \in PkgIdent |-> None]
  BY DEF StartRun, NewEngine, config, SystemDiscovery
<1>2. Phases = 1 .. 4 /\ \A p \in Phases : Made(p)' = 0
  BY <1>1 DEF Made, Phases, SystemDiscovery, Main
<1>3. RightCalls'
  BY <1>2 DEF RightCalls
<1>4. SettingsRead' /\ IgnoresRead' /\ PackagesLoaded'
  BY <1>1, <1>2, NoneYet DEF SettingsRead, IgnoresRead, PackagesLoaded, FreshSettings, SystemDiscovery, Ignores
<1>5. ActionsRead'
  <2>1. Made(3)' = 0 /\ Made(4)' = 0
    BY <1>2
  <2>2. \A id, E, b : ~WinsInBoth(script[3]', 0, script[4]', 0, id, E, b)
    BY NoneYet DEF WinsInBoth
  <2>. QED  BY <1>1, <2>1, <2>2, SaveAssumption DEF ActionsRead, ScriptDependencies, Main
<1>. QED  BY <1>3, <1>4, <1>5 DEF RunRead

\* A phase ends and the next one begins.
LEMMA MadeAtEnd ==
    ASSUME SaveInv, progress = "running", pc > Len(script[phase])
    PROVE  /\ Made(phase) = Len(script[phase])
           /\ pc = Len(script[phase]) + 1
           /\ phase' = phase + 1 /\ pc' = 1 /\ script' = script =>
                 \A p \in Phases : Made(p)' = Made(p)
<1>1. /\ \A p \in Phases : /\ Made(p) \in 0 .. Len(script[p]) /\ Len(script[p]) \in Nat
                           /\ p < phase => Made(p) = Len(script[p])
                           /\ p > phase => Made(p) = 0
      /\ Made(phase) = pc - 1 /\ phase \in Phases /\ phase \in 1 .. 4 /\ Phases = 1 .. 4 /\ pc \in Nat
  BY MadeIs
<1>2. Made(phase) = Len(script[phase]) /\ pc = Len(script[phase]) + 1
  BY <1>1
<1>3. ASSUME phase' = phase + 1, pc' = 1, script' = script, NEW p \in Phases
      PROVE  Made(p)' = Made(p)
  <2>1. Made(p)' = IF p < phase + 1 THEN Len(script[p]) ELSE 0
    BY <1>1, <1>3 DEF Made
  <2>2. Made(p) = IF p < phase + 1 THEN Len(script[p]) ELSE 0
    <3>1. p < phase \/ p = phase \/ p > phase
      BY <1>1
    <3>. QED  BY <1>1, <1>2, <3>1
  <2>. QED  BY <2>1, <2>2
<1>. QED  BY <1>2, <1>3

\* Between the phases.
LEMMA ReadBetween ==
    ASSUME SaveInv, RunRead,
           AfterSystemDiscovery \/ AfterIgnores \/ AfterScriptDependencies \/ AfterMain
    PROVE  RunRead'
<1>1. /\ UNCHANGED <<script, config_files, settings, fs_ignores, package_actions, system>>
      /\ progress = "running" /\ pc > Len(script[phase]) /\ progress # "idle"
  BY DEF AfterSystemDiscovery, AfterIgnores, AfterScriptDependencies, AfterMain, Finished, config, engine
<1>2. \A p, c : Right(p, c) => Right(p, c)'
  BY <1>1, RightStays
<1>3. \/ phase' = phase + 1 /\ pc' = 1
      \/ phase' = phase /\ pc' = pc
  BY DEF AfterSystemDiscovery, AfterIgnores, AfterScriptDependencies, AfterMain, Finished, Enter,
         SystemDiscovery, Ignores, ScriptDependencies, Main
<1>4. \A p \in Phases : Made(p)' = Made(p)
  <2>1. CASE phase' = phase + 1 /\ pc' = 1
    BY <1>1, <2>1, MadeAtEnd
  <2>2. CASE phase' = phase /\ pc' = pc
    BY <1>1, <2>2 DEF Made
  <2>. QED  BY <1>3, <2>1, <2>2
<1>5. PackagesLoaded'
  <2>1. CASE AfterSystemDiscovery
    BY <1>1, <2>1 DEF AfterSystemDiscovery, Finished, Enter, PackagesLoaded, LoadPackages
  <2>2. CASE AfterIgnores \/ AfterScriptDependencies \/ AfterMain
    BY <1>1, <2>2 DEF AfterIgnores, AfterScriptDependencies, AfterMain, Finished, Enter, PackagesLoaded,
                      LoadPackages, RunRead, SystemDiscovery, Ignores, ScriptDependencies, Main
  <2>. QED  BY <2>1, <2>2
<1>. QED  BY <1>1, <1>2, <1>4, <1>5, ReadKept

-----------------------------------------------------------------------------
(* The last word on a package, in lists that are put together *)

\* One list after the other.
LEMMA WinsAfter ==
    ASSUME NEW S, NEW u \in Seq(S), NEW v \in Seq(S), NEW id, NEW E, NEW b
    PROVE  /\ Wins(v, Len(v), id, E, b) => Wins(u \o v, Len(u \o v), id, E, b)
           /\ Wins(u, Len(u), id, E, b) /\ NoRemoval(v, Len(v), id, b) => Wins(u \o v, Len(u \o v), id, E, b)
           /\ NoRemoval(u, Len(u), id, b) /\ NoRemoval(v, Len(v), id, b) => NoRemoval(u \o v, Len(u \o v), id, b)
<1>. DEFINE m == Len(u)
            n == Len(v)
            w == u \o v
<1>1. /\ m \in Nat /\ n \in Nat /\ Len(w) = m + n
      /\ \A i \in 1 .. m : w[i] = u[i]
      /\ \A i \in 1 .. n : w[m + i] = v[i]
  <2>1. m \in Nat /\ n \in Nat
    BY LenProperties
  <2>2. /\ Len(w) = m + n
        /\ \A i \in 1 .. m + n : w[i] = IF i <= m THEN u[i] ELSE v[i - m]
    BY ConcatProperties
  <2>. HIDE DEF m, n, w
  <2>3. \A i \in 1 .. m : i \in 1 .. m + n /\ i <= m
    BY <2>1
  <2>4. \A i \in 1 .. n : m + i \in 1 .. m + n /\ ~(m + i <= m) /\ (m + i) - m = i
    BY <2>1
  <2>. QED  BY <2>1, <2>2, <2>3, <2>4
<1>. HIDE DEF m, n, w
<1>2. ASSUME NEW j \in 1 .. m + n
      PROVE  j \in 1 .. m \/ \E i \in 1 .. n : j = m + i
  <2>1. CASE j > m
    <3>1. j - m \in 1 .. n /\ j = m + (j - m)
      BY <1>1, <2>1
    <3>. QED  BY <3>1
  <2>. QED  BY <1>1, <2>1
<1>3. ASSUME Wins(v, n, id, E, b) PROVE Wins(w, m + n, id, E, b)
  <2>1. PICK k \in 1 .. n : Adds(v[k], id, E) /\ \A j \in k + 1 .. n : ~Removes(v[j], id, b)
    BY <1>3 DEF Wins
  <2>2. m + k \in 1 .. m + n /\ w[m + k] = v[k]
    BY <1>1
  <2>3. ASSUME NEW j \in (m + k) + 1 .. m + n PROVE ~Removes(w[j], id, b)
    <3>1. j - m \in k + 1 .. n /\ j - m \in 1 .. n /\ j = m + (j - m)
      BY <1>1
    <3>. QED  BY <1>1, <2>1, <3>1
  <2>. QED  BY <2>1, <2>2, <2>3 DEF Wins
<1>4. ASSUME Wins(u, m, id, E, b), NoRemoval(v, n, id, b) PROVE Wins(w, m + n, id, E, b)
  <2>1. PICK k \in 1 .. m : Adds(u[k], id, E) /\ \A j \in k + 1 .. m : ~Removes(u[j], id, b)
    BY <1>4 DEF Wins
  <2>2. k \in 1 .. m + n /\ w[k] = u[k]
    BY <1>1
  <2>3. ASSUME NEW j \in k + 1 .. m + n PROVE ~Removes(w[j], id, b)
    <3>1. j \in 1 .. m + n
      BY <1>1
    <3>2. CASE j \in 1 .. m
      <4>1. j \in k + 1 .. m
        BY <1>1, <2>3, <3>2
      <4>. QED  BY <1>1, <2>1, <3>2, <4>1
    <3>3. CASE \E i \in 1 .. n : j = m + i
      BY <1>1, <1>4, <3>3 DEF NoRemoval
    <3>. QED  BY <1>2, <3>1, <3>2, <3>3
  <2>. QED  BY <2>1, <2>2, <2>3 DEF Wins
<1>5. ASSUME NoRemoval(u, m, id, b), NoRemoval(v, n, id, b) PROVE NoRemoval(w, m + n, id, b)
  <2>1. ASSUME NEW j \in 1 .. m + n PROVE ~Removes(w[j], id, b)
    <3>1. CASE j \in 1 .. m
      BY <1>1, <1>5, <3>1 DEF NoRemoval
    <3>2. CASE \E i \in 1 .. n : j = m + i
      BY <1>1, <1>5, <3>2 DEF NoRemoval
    <3>. QED  BY <1>2, <3>1, <3>2
  <2>. QED  BY <2>1 DEF NoRemoval
<1>. QED  BY <1>1, <1>3, <1>4, <1>5 DEF m, n, w

\* A list of calls none of which removes the package.
LEMMA NoRemovalAll ==
    ASSUME NEW S, NEW s \in Seq(S), NEW id, NEW b
    PROVE  NoRemoval(s, Len(s), id, b) <=> \A c \in ToSet(s) : ~Removes(c, id, b)
<1>1. /\ \A k \in 1 .. Len(s) : s[k] \in ToSet(s)
      /\ \A x \in ToSet(s) : \E k \in 1 .. Len(s) : x = s[k]
  BY Members
<1>. QED  BY <1>1 DEF NoRemoval

\* The calls for packages, without the others: the last word stays.
LEMMA OthersWin ==
    ASSUME NEW S, NEW s \in Seq(S), NEW id, NEW E, NEW b
    PROVE  LET o == FlattenSeq(Others(s)) IN
           /\ Wins(s, Len(s), id, E, b) => Wins(o, Len(o), id, E, b)
           /\ NoRemoval(s, Len(s), id, b) => NoRemoval(o, Len(o), id, b)
<1>. DEFINE n == Len(s)
            o == Others(s)
            Fin(k) == Wins(Flat(o, k), Len(Flat(o, k)), id, E, b)
            Free(k) == NoRemoval(Flat(o, k), Len(Flat(o, k)), id, b)
<1>1. n \in Nat /\ DOMAIN s = 1 .. n /\ \A k \in 1 .. n : s[k] \in S
  BY LenProperties
<1>2. /\ \A k \in 1 .. n : o[k] = IF IsFsCall(s[k]) THEN <<>> ELSE <<s[k]>>
      /\ o \in [1 .. n -> Seq(S)]
  <2>. HIDE DEF n
  <2>1. \A k \in 1 .. n : <<s[k]>> \in Seq(S) /\ <<>> \in Seq(S)
    BY <1>1
  <2>. QED  BY <1>1, <2>1 DEF Others
<1>3. FlattenSeq(o) = Flat(o, n)
  <2>1. [i \in 1 .. n |-> o[i]] = o
    BY <1>2
  <2>. QED  BY <2>1 DEF Flat
<1>. HIDE DEF n, o
<1>4. \A k \in 0 .. n : FlatAt(S, o, k)
  BY <1>1, <1>2, Flattened
<1>5. \A k \in 0 .. n : Flat(o, k) \in Seq(S)
  BY <1>4 DEF FlatAt
<1>6. ASSUME NEW k \in 0 .. n - 1
      PROVE  /\ k + 1 \in 1 .. n /\ k + 1 \in 0 .. n /\ k \in 0 .. n
             /\ Flat(o, k + 1) = Flat(o, k) \o o[k + 1]
             /\ o[k + 1] \in Seq(S)
  <2>1. k + 1 \in 1 .. n /\ k + 1 \in 0 .. n /\ k \in 0 .. n /\ k + 1 > 0 /\ (k + 1) - 1 = k
    BY <1>1
  <2>2. FlatAt(S, o, k + 1)
    BY <1>4, <2>1
  <2>. QED  BY <1>2, <2>1, <2>2 DEF FlatAt
<1>7. \A k \in 1 .. n : /\ ~Removes(s[k], id, b) => NoRemoval(o[k], Len(o[k]), id, b)
                        /\ Adds(s[k], id, E) => Wins(o[k], Len(o[k]), id, E, b)
  <2>. SUFFICES ASSUME NEW k \in 1 .. n
                PROVE  /\ ~Removes(s[k], id, b) => NoRemoval(o[k], Len(o[k]), id, b)
                       /\ Adds(s[k], id, E) => Wins(o[k], Len(o[k]), id, E, b)
    OBVIOUS
  <2>1. CASE IsFsCall(s[k])
    <3>1. o[k] = <<>> /\ Len(<<>>) = 0
      BY <1>2, <2>1
    <3>2. ~Adds(s[k], id, E)
      BY <2>1 DEF Adds, IsFsCall
    <3>. QED  BY <3>1, <3>2, NoneYet
  <2>2. CASE ~IsFsCall(s[k])
    <3>. DEFINE x == s[k]
    <3>1. o[k] = <<x>> /\ Len(<<x>>) = 1 /\ <<x>>[1] = x
      BY <1>2, <2>2
    <3>. HIDE DEF x
    <3>2. 1 .. 1 = {1} /\ 1 + 1 .. 1 = {}
      OBVIOUS
    <3>3. ~Removes(x, id, b) => NoRemoval(<<x>>, 1, id, b)
      BY <3>1, <3>2 DEF NoRemoval
    <3>4. Adds(x, id, E) => Wins(<<x>>, 1, id, E, b)
      BY <3>1, <3>2 DEF Wins
    <3>. QED  BY <3>1, <3>3, <3>4 DEF x
  <2>. QED  BY <2>1, <2>2
<1>8. ASSUME NEW k \in 0 .. n - 1
      PROVE  /\ Adds(s[k + 1], id, E) => Fin(k + 1)
             /\ ~Removes(s[k + 1], id, b) /\ Fin(k) => Fin(k + 1)
             /\ ~Removes(s[k + 1], id, b) /\ Free(k) => Free(k + 1)
  <2>. DEFINE u == Flat(o, k)
              v == o[k + 1]
  <2>1. u \in Seq(S) /\ v \in Seq(S) /\ Flat(o, k + 1) = u \o v
    BY <1>5, <1>6
  <2>2. /\ ~Removes(s[k + 1], id, b) => NoRemoval(v, Len(v), id, b)
        /\ Adds(s[k + 1], id, E) => Wins(v, Len(v), id, E, b)
    BY <1>6, <1>7
  <2>. HIDE DEF u, v
  <2>3. /\ Wins(v, Len(v), id, E, b) => Wins(u \o v, Len(u \o v), id, E, b)
        /\ Wins(u, Len(u), id, E, b) /\ NoRemoval(v, Len(v), id, b) => Wins(u \o v, Len(u \o v), id, E, b)
        /\ NoRemoval(u, Len(u), id, b) /\ NoRemoval(v, Len(v), id, b) => NoRemoval(u \o v, Len(u \o v), id, b)
    BY <2>1, WinsAfter
  <2>. QED  BY <2>1, <2>2, <2>3 DEF u
<1>9. FlatAt(S, o, 0)
  BY <1>1, <1>4
<1>10. Free(0)
  <2>1. Flat(o, 0) = <<>> /\ Len(<<>>) = 0
    BY <1>9 DEF FlatAt
  <2>. QED  BY <2>1, NoneYet
<1>. HIDE DEF Fin, Free
<1>11. ASSUME NoRemoval(s, n, id, b) PROVE Free(n)
  <2>. DEFINE T == {k \in 0 .. n : Free(k)}
  <2>1. 0 \in T
    BY <1>1, <1>10
  <2>2. ASSUME NEW k \in 0 .. n - 1, k \in T PROVE k + 1 \in T
    <3>1. ~Removes(s[k + 1], id, b)
      BY <1>6, <1>11 DEF NoRemoval
    <3>. QED  BY <1>6, <1>8, <2>2, <3>1
  <2>3. n \in T
    <3>. HIDE DEF T
    <3>1. \A k \in 0 .. n : k \in T
      BY <1>1, <2>1, <2>2, UpTo
    <3>. QED  BY <1>1, <3>1
  <2>. QED  BY <2>3
<1>12. ASSUME Wins(s, n, id, E, b) PROVE Fin(n)
  <2>1. PICK a \in 1 .. n : Adds(s[a], id, E) /\ \A j \in a + 1 .. n : ~Removes(s[j], id, b)
    BY <1>12 DEF Wins
  <2>. DEFINE T == {k \in 0 .. n : k >= a => Fin(k)}
  <2>2. 0 \in T
    BY <1>1
  <2>3. ASSUME NEW k \in 0 .. n - 1, k \in T PROVE k + 1 \in T
    <3>1. k + 1 \in 0 .. n /\ k + 1 \in 1 .. n
      BY <1>6
    <3>2. CASE k + 1 = a
      BY <1>8, <2>1, <3>1, <3>2
    <3>3. CASE k + 1 > a
      <4>1. k + 1 \in a + 1 .. n /\ k >= a
        BY <3>1, <3>3
      <4>2. ~Removes(s[k + 1], id, b) /\ Fin(k)
        BY <2>1, <2>3, <4>1
      <4>. QED  BY <1>8, <3>1, <4>2
    <3>4. CASE k + 1 < a
      BY <3>1, <3>4
    <3>. QED  BY <3>1, <3>2, <3>3, <3>4
  <2>4. n \in T
    <3>. HIDE DEF T
    <3>1. \A k \in 0 .. n : k \in T
      BY <1>1, <2>2, <2>3, UpTo
    <3>. QED  BY <1>1, <3>1
  <2>5. n >= a
    BY <1>1
  <2>. QED  BY <2>4, <2>5
<1>. QED  BY <1>3, <1>11, <1>12 DEF Fin, Free, n, o

-----------------------------------------------------------------------------
(* Along a run *)

RunInv == progress # "idle" => RunRead

\* Once the maps are made.
FoldedInv ==
    progress \in {"folded", "saved"} =>
        /\ phase = Main /\ pc > Len(script[Main])
        /\ ~ScanFails(system.disk, system.pkgs, fs_ignores)
        /\ script_fs = BuildMap(ToSet(fs_actions))
        /\ sys_fs = Scanned(fs_ignores)

\* Once the lines are written.
SavedInv ==
    progress = "saved" =>
        /\ ~merged
        /\ unsorted.additions = CallsFor(Additions)
        /\ \A i \in Additions :
              i.tag = "CreateFile" => i.path \in unsaved \/ config_files[i.path] = i.arg

\* One creation of a file is written for a path.
LEMMA OneFile ==
    ASSUME SaveInv, NEW i \in Additions, NEW j \in Additions,
           i.tag = "CreateFile", j.tag = "CreateFile", i.path = j.path
    PROVE  i = j
<1>. DEFINE p == i.path
            y == sys_fs[p]
<1>1. /\ \A k \in Additions : k \in FsInstruction
      /\ \A q \in Path : {k \in Additions : k.path = q} = SavedAt(q, script_fs[q], sys_fs[q])
  BY AdditionsAre DEF Spelt
<1>2. p \in Path
  BY <1>1, Operands
<1>3. script_fs[p] \in FsNode \cup {NoNode} /\ y \in FsNode \cup {NoNode}
  BY <1>2 DEF SaveInv, FsMap
<1>4. i \in SavedAt(p, script_fs[p], y) /\ j \in SavedAt(p, script_fs[p], y)
  <2>1. i \in {k \in Additions : k.path = p} /\ j \in {k \in Additions : k.path = p}
    OBVIOUS
  <2>. QED  BY <1>1, <1>2, <2>1
<1>5. y \in FsNode
  BY <1>2, <1>3, <1>4, SavedAtIs
<1>. DEFINE x == script_fs[p]
<1>. HIDE DEF p, x, y
<1>6. /\ \A k \in SavedAt(p, x, y) : k.tag = "CreateFile" => k \in BaseInstruction(p, y.entry)
      /\ i \in SavedAt(p, x, y) /\ j \in SavedAt(p, x, y)
  <2>1. \A k \in SavedAt(p, x, y) :
           \/ k \in BaseInstruction(p, y.entry)
           \/ k = Instr(p, "Remove", None)
           \/ k \in {Instr(p, "SetMode", y.mode), Instr(p, "SetOwner", y.owner), Instr(p, "SetGroup", y.group)}
    BY <1>2, <1>3, <1>5, LinesOf DEF x
  <2>. QED  BY <1>4, <2>1, InstrFields DEF x
<1>7. y.entry \in FsEntry
  BY <1>5 DEF FsNode
<1>. QED  BY <1>2, <1>6, <1>7, BaseMakes

\* Every step of a run keeps what is known of it.
LEMMA RunStep ==
    ASSUME SaveInv, RunInv, SaveNext
    PROVE  RunInv'
<1>1. CASE StartRun
  BY <1>1, ReadStarts DEF RunInv
<1>2. CASE CallReturns
  <2>1. Outcome /\ UNCHANGED <<system, pkgs_sys>>
    BY <1>2, CallTyped DEF CallReturns
  <2>2. progress # "idle" /\ RunRead
    BY <2>1 DEF Outcome, RunInv
  <2>3. CASE Returned
    BY <2>1, <2>2, <2>3, ReadReturned DEF RunInv
  <2>4. CASE Failed
    <3>1. UNCHANGED <<script, config_files, phase, pc, settings, fs_ignores, package_actions>>
      BY <2>1, <2>4 DEF Outcome, Failed
    <3>2. \A p \in Phases : Made(p)' = Made(p)
      BY <3>1 DEF Made
    <3>3. \A p, c : Right(p, c) => Right(p, c)'
      BY <3>1, RightStays
    <3>4. PackagesLoaded'
      BY <2>1, <2>2, <3>1 DEF RunRead, PackagesLoaded, LoadPackages
    <3>. QED  BY <2>2, <3>1, <3>2, <3>3, <3>4, ReadKept DEF RunInv
  <2>. QED  BY <2>1, <2>3, <2>4 DEF Outcome
<1>3. CASE AfterSystemDiscovery \/ AfterIgnores \/ AfterScriptDependencies \/ AfterMain
  <2>1. progress # "idle"
    BY <1>3 DEF AfterSystemDiscovery, AfterIgnores, AfterScriptDependencies, AfterMain, Finished
  <2>. QED  BY <1>3, <2>1, ReadBetween DEF RunInv
<1>4. CASE SaveChanges
  <2>1. /\ UNCHANGED <<script, phase, pc, settings, fs_ignores, package_actions, system, pkgs_sys>>
        /\ progress # "idle" /\ RunRead
    BY <1>4 DEF SaveChanges, engine, RunInv
  <2>2. \A p \in Path : config_files[p] # None => config_files'[p] # None
    <3>1. PICK copied \in SUBSET {i \in Additions : i.tag = "CreateFile"} : config_files' = FilesWith(copied)
      BY <1>4 DEF SaveChanges
    <3>2. \A i \in copied : i.arg # None
      BY AdditionsAre, Operands, ValueAssumption DEF Spelt
    <3>. QED  BY <3>1, <3>2 DEF FilesWith
  <2>3. \A p, c : Right(p, c) => Right(p, c)'
    BY <2>2, RightStays
  <2>4. \A p \in Phases : Made(p)' = Made(p)
    BY <2>1 DEF Made
  <2>5. PackagesLoaded'
    BY <2>1 DEF RunRead, PackagesLoaded, LoadPackages
  <2>. QED  BY <2>1, <2>3, <2>4, <2>5, ReadKept DEF RunInv
<1>5. CASE Merge
  BY <1>5 DEF Merge, RunInv
<1>. QED  BY <1>1, <1>2, <1>3, <1>4, <1>5 DEF SaveNext

\* And what is known once the maps are made.
LEMMA FoldedStep ==
    ASSUME SaveInv, FoldedInv, SaveNext
    PROVE  FoldedInv'
<1>1. CASE StartRun
  BY <1>1 DEF StartRun, FoldedInv
<1>2. CASE CallReturns
  <2>1. progress' \in {"running", "failed"}
    <3>1. Outcome
      BY <1>2, CallTyped
    <3>. QED  BY <3>1 DEF Outcome, Failed, Returned
  <2>. QED  BY <2>1 DEF FoldedInv
<1>3. CASE AfterSystemDiscovery \/ AfterIgnores \/ AfterScriptDependencies
  BY <1>3 DEF AfterSystemDiscovery, AfterIgnores, AfterScriptDependencies, Finished, Enter, FoldedInv
<1>4. CASE AfterMain
  <2>1. /\ UNCHANGED <<script, phase, pc, fs_ignores, fs_actions, system>>
        /\ phase = Main /\ pc > Len(script[Main])
    BY <1>4 DEF AfterMain, Finished, config, engine
  <2>2. CASE ScanFails(system.disk, system.pkgs, fs_ignores)
    BY <1>4, <2>2 DEF AfterMain, FoldedInv
  <2>3. CASE ~ScanFails(system.disk, system.pkgs, fs_ignores)
    <3>1. script_fs' = BuildMap(ToSet(fs_actions)) /\ sys_fs' = Scanned(fs_ignores)
      BY <1>4, <2>3 DEF AfterMain, Scanned
    <3>. QED  BY <2>1, <2>3, <3>1 DEF FoldedInv, Scanned
  <2>. QED  BY <2>2, <2>3
<1>5. CASE SaveChanges
  BY <1>5 DEF SaveChanges, engine, FoldedInv, Scanned
<1>6. CASE Merge
  BY <1>6 DEF Merge, FoldedInv
<1>. QED  BY <1>1, <1>2, <1>3, <1>4, <1>5, <1>6 DEF SaveNext

\* And what is known once the lines are written.
LEMMA SavedStep ==
    ASSUME SaveInv, SavedInv, SaveNext
    PROVE  SavedInv'
<1>1. CASE progress' # "saved"
  BY <1>1 DEF SavedInv
<1>2. CASE progress' = "saved"
  <2>1. SaveChanges
    <3>1. CallReturns => progress' \in {"running", "failed"}
      BY CallTyped DEF Outcome, Failed, Returned
    <3>. QED  BY <1>2, <3>1 DEF SaveNext, StartRun, AfterSystemDiscovery, AfterIgnores,
                                AfterScriptDependencies, AfterMain, Finished, Enter, Merge
  <2>2. /\ UNCHANGED <<script_fs, sys_fs, package_actions, pkgs_sys, system>> /\ ~merged'
        /\ unsorted'.additions = CallsFor(Additions)
    BY <2>1 DEF SaveChanges, engine, CallsFor
  <2>3. Additions' = Additions /\ CallsFor(Additions)' = CallsFor(Additions)
    BY <2>2 DEF Additions, FsChanges, CallsFor, PkgAdditions
  <2>4. PICK filter \in Filters, dry \in BOOLEAN :
           LET created == {i \in Additions : i.tag = "CreateFile"}
               copied  == {i \in created : ~Withheld(i.path, filter, dry)}
           IN config_files' = FilesWith(copied) /\ unsaved' = {i.path : i \in created \ copied}
    BY <2>1 DEF SaveChanges
  <2>. DEFINE created == {i \in Additions : i.tag = "CreateFile"}
              copied  == {i \in created : ~Withheld(i.path, filter, dry)}
  <2>5. config_files' = FilesWith(copied) /\ unsaved' = {i.path : i \in created \ copied}
    BY <2>4
  <2>6. ASSUME NEW i \in Additions, i.tag = "CreateFile"
        PROVE  i.path \in unsaved' \/ config_files'[i.path] = i.arg
    <3>1. CASE i \notin copied
      BY <2>5, <2>6, <3>1
    <3>2. CASE i \in copied
      <4>1. i.path \in Path
        BY AdditionsAre, Operands DEF Spelt
      <4>. DEFINE j == CHOOSE j \in copied : j.path = i.path
      <4>2. j \in copied /\ j.path = i.path
        BY <3>2
      <4>3. j = i
        <5>1. j \in Additions /\ j.tag = "CreateFile"
          BY <4>2
        <5>. HIDE DEF j
        <5>. QED  BY <2>6, <4>2, <5>1, OneFile
      <4>. QED  BY <2>5, <3>2, <4>1, <4>3 DEF FilesWith
    <3>. QED  BY <3>1, <3>2
  <2>. HIDE DEF created, copied
  <2>. QED  BY <2>2, <2>3, <2>6 DEF SavedInv
<1>. QED  BY <1>1, <1>2


-----------------------------------------------------------------------------
(* The configuration once everything is merged *)

CallsIn(p) == Len(script[p])

AllEnabled == EnabledBy(script[SystemDiscovery], CallsIn(SystemDiscovery))

AllIgnored == IgnoredBy(script[Ignores], CallsIn(Ignores))

AllQueued == QueuedBy(script[Main], CallsIn(Main))

\* The calls return.
CallsFine == \A p \in Phases : \A k \in 1 .. CallsIn(p) : Fine(p, script[p][k])

\* They name b and other backends that can be created, and what is installed by it and the others they name.
PackagesNamed(b) ==
    /\ b \in FileBackend /\ SetTo(script[SystemDiscovery], CallsIn(SystemDiscovery), b)
    /\ AllEnabled \subseteq PkgBackend
    /\ \A id \in LoadPackages(AllEnabled) :
          WinsInBoth(script[ScriptDependencies], CallsIn(ScriptDependencies), script[Main], CallsIn(Main),
                     id, AllEnabled, b)

\* They queue what the configuration did, F, with the lines A that save wrote.
FilesNamed(F, A) ==
    /\ ~ScanFails(system.disk, system.pkgs, AllIgnored)
    /\ F \in SUBSET FsInstruction /\ IsFiniteSet(F)
    /\ A = SavedFrom(BuildMap(F), Scanned(AllIgnored))
    /\ AllQueued = Updated(F, A)
    /\ \A q \in Path : Instr(q, "Remove", None) \in A => LineRemoves(q)

MergedInv ==
    merged =>
        /\ progress \in {"idle", "running", "panicked", "folded"}
        /\ CallsFine
        /\ \E b : PackagesNamed(b)
        /\ \E F, A : FilesNamed(F, A)
        /\ progress # "idle" => ToSet(fs_actions) = QueuedBy(script[Main], Made(Main))

\* It stays as long as the script, its files, the system and unsorted.rn do.
LEMMA ConfigStays ==
    ASSUME UNCHANGED <<script, config_files, system, unsorted>>
    PROVE  /\ CallsFine => CallsFine'
           /\ (\E b : PackagesNamed(b)) => (\E b : PackagesNamed(b))'
           /\ (\E F, A : FilesNamed(F, A)) => (\E F, A : FilesNamed(F, A))'
<1>1. \A p : CallsIn(p)' = CallsIn(p)
  BY DEF CallsIn
<1>2. AllEnabled' = AllEnabled /\ AllIgnored' = AllIgnored
  BY <1>1 DEF AllEnabled, AllIgnored
<1>3. AllQueued' = AllQueued
  BY <1>1 DEF AllQueued, QueuedBy, Meaning, SourceFile
<1>4. CallsFine => CallsFine'
  BY <1>1 DEF CallsFine, Fine, FineAnywhere, PlainFine, SourceFile
<1>5. ASSUME NEW b, PackagesNamed(b) PROVE PackagesNamed(b)'
  BY <1>1, <1>2, <1>5 DEF PackagesNamed, LoadPackages
<1>6. ASSUME NEW F, NEW A, FilesNamed(F, A) PROVE FilesNamed(F, A)'
  BY <1>2, <1>3, <1>6 DEF FilesNamed, Scanned, LineRemoves
<1>. QED  BY <1>4, <1>5, <1>6

\* What the calls queue.
LEMMA QueuedByAll ==
    ASSUME NEW S, NEW s \in Seq(S)
    PROVE  QueuedBy(s, Len(s)) = {Meaning(c) : c \in {c \in ToSet(s) : IsFsCall(c)}}
<1>1. /\ \A k \in 1 .. Len(s) : s[k] \in ToSet(s)
      /\ \A x \in ToSet(s) : \E k \in 1 .. Len(s) : x = s[k]
  BY Members
<1>. QED  BY <1>1 DEF QueuedBy

\* What is known when the lines are merged: the run came to its end.
LEMMA RunAtEnd ==
    ASSUME SaveInv, RunInv, FoldedInv, progress \in {"folded", "saved"}
    PROVE  /\ \A p \in Phases : Made(p) = CallsIn(p)
           /\ RunRead /\ Phases = 1 .. 4 /\ phase = 4
<1>1. progress # "idle" /\ phase = 4 /\ pc > Len(script[4])
  BY DEF FoldedInv, Main
<1>2. /\ \A p \in Phases : /\ Made(p) \in 0 .. Len(script[p]) /\ Len(script[p]) \in Nat
                           /\ p < phase => Made(p) = Len(script[p])
      /\ Made(phase) = pc - 1 /\ Phases = 1 .. 4 /\ pc \in Nat
  BY <1>1, MadeIs
<1>. QED  BY <1>1, <1>2 DEF CallsIn, RunInv


\* What was queued and is kept, and the lines, as calls: they return, and what they mean.
LEMMA CallsMean ==
    ASSUME SaveInv, SavedInv, progress = "saved", unsaved = {}, \A i \in Additions : ~Unknown(i)
    PROVE  /\ \A i \in ToSet(fs_actions) :
                 /\ PlainFine(PlainCall(i)) /\ IsFsCall(PlainCall(i)) /\ Meaning(PlainCall(i)) = i
                 /\ ~PkgCall(PlainCall(i))
           /\ \A i \in Additions :
                 /\ PlainFine(LineFor(i)) /\ IsFsCall(LineFor(i)) /\ Meaning(LineFor(i)) = i
                 /\ ~PkgCall(LineFor(i))
           /\ \A c \in PkgAdditions :
                 \E id \in pkgs_sys : /\ c = PkgLine("Install", id) /\ package_actions[id] # "Install"
                                      /\ c.call = "add_pkg" /\ c.id = id /\ ~IsFsCall(c)
<1>0. \A c : IsFsCall(c) <=> ~PkgCall(c)
  BY DEF IsFsCall, PkgCall
<1>1. ASSUME NEW i \in ToSet(fs_actions)
      PROVE  /\ PlainFine(PlainCall(i)) /\ Meaning(PlainCall(i)) = i
             /\ ~PkgCall(PlainCall(i))
  <2>1. i \in Queued
    BY Members DEF SaveInv, CallsTyped
  <2>2. i \in FsInstruction /\ i.tag \notin {"Comment", "Restore"} /\ ~Unknown(i)
    BY <2>1 DEF Queued, Unknown
  <2>. QED  BY <2>2, LineMakes DEF WrittenAs
<1>2. ASSUME NEW i \in Additions
      PROVE  PlainFine(LineFor(i)) /\ Meaning(LineFor(i)) = i /\ ~PkgCall(LineFor(i))
  <2>1. i \in FsInstruction /\ i.tag \notin {"Comment", "Restore"} /\ ~Unknown(i)
    BY AdditionsAre DEF Spelt
  <2>2. WrittenAs(i)
    BY <2>1, LineMakes
  <2>3. CASE i.tag # "CreateFile"
    BY <2>1, <2>2, <2>3 DEF WrittenAs
  <2>4. CASE i.tag = "CreateFile"
    <3>. DEFINE p == i.path
                c == LineFor(i)
    <3>1. p \in Path /\ i.arg \in Contents /\ i = Instr(p, "CreateFile", i.arg)
      BY <2>1, <2>4 DEF FsInstruction, Instr
    <3>2. c.call = "copy_from" /\ c.path = p /\ c.src = p /\ ~PkgCall(c)
      BY <2>2, <2>4 DEF WrittenAs
    <3>3. config_files[p] = i.arg
      BY <2>4 DEF SavedInv
    <3>4. SourceFile(c.src) = i.arg /\ i.arg # None
      BY <3>1, <3>2, <3>3, ValueAssumption DEF SourceFile
    <3>. HIDE DEF c
    <3>5. PlainFine(c) /\ Meaning(c) = Instr(c.path, "CreateFile", SourceFile(c.src))
      BY <3>1, <3>2, <3>4 DEF PlainFine, PlainCalls, Meaning
    <3>6. Meaning(c) = i
      BY <3>1, <3>2, <3>4, <3>5
    <3>. QED  BY <3>2, <3>5, <3>6 DEF c
  <2>. QED  BY <2>3, <2>4
<1>3. ASSUME NEW c \in PkgAdditions
      PROVE  \E id \in pkgs_sys : /\ c = PkgLine("Install", id) /\ package_actions[id] # "Install"
                                  /\ c.call = "add_pkg" /\ c.id = id /\ ~IsFsCall(c)
  <2>1. PICK id \in pkgs_sys : c = PkgLine("Install", id) /\ package_actions[id] # "Install"
    BY DEF PkgAdditions
  <2>2. c.call = "add_pkg" /\ c.id = id
    BY <2>1 DEF PkgLine
  <2>. QED  BY <2>1, <2>2 DEF IsFsCall
<1>. QED  BY <1>0, <1>1, <1>2, <1>3

\* The calls of the merged script return, and queue what the lines and the queue say.
LEMMA MergedFiles ==
    ASSUME SaveInv, RunInv, FoldedInv, SavedInv, progress = "saved", unsaved = {},
           \A i \in Additions : ~Unknown(i)
    PROVE  /\ \A c \in ToSet(MergedCalls(Additions)) : Fine(Main, c)
           /\ {Meaning(c) : c \in {c \in ToSet(MergedCalls(Additions)) : IsFsCall(c)}}
                 = Updated(ToSet(fs_actions), Additions)
<1>. DEFINE new == ToSet(MergedCalls(Additions))
            F == ToSet(fs_actions)
<1>1. \A c : c \in new <=> \/ c \in ToSet(script[Main]) /\ PkgCall(c)
                           \/ \E i \in F : ~Superseded(i, Additions) /\ c = PlainCall(i)
                           \/ c \in PkgAdditions
                           \/ \E i \in Additions : c = LineFor(i)
  <2>1. Additions \in SUBSET Spelt /\ IsFiniteSet(Additions)
    BY AdditionsAre
  <2>2. \A c : c \in CallsFor(Additions) <=> c \in PkgAdditions \/ \E i \in Additions : c = LineFor(i)
    BY DEF CallsFor
  <2>. QED  BY <2>1, <2>2, MergedMembers
<1>2. /\ \A i \in F : /\ PlainFine(PlainCall(i)) /\ IsFsCall(PlainCall(i)) /\ Meaning(PlainCall(i)) = i
                      /\ ~PkgCall(PlainCall(i))
      /\ \A i \in Additions :
            /\ PlainFine(LineFor(i)) /\ IsFsCall(LineFor(i)) /\ Meaning(LineFor(i)) = i
            /\ ~PkgCall(LineFor(i))
      /\ \A c \in PkgAdditions :
            \E id \in pkgs_sys : c.call = "add_pkg" /\ c.id = id /\ ~IsFsCall(c)
  BY CallsMean
<1>3. \A c : PkgCall(c) <=> ~IsFsCall(c)
  BY DEF IsFsCall, PkgCall
<1>4. /\ \A p \in Phases : Made(p) = Len(script[p])
      /\ RunRead /\ Main \in Phases /\ pkgs_sys = LoadPackages(settings.pkg_backends)
      /\ settings.pkg_backends \subseteq Backend
  BY RunAtEnd DEF CallsIn, RunRead, PackagesLoaded, FoldedInv, SystemDiscovery, Main, SaveInv
<1>. HIDE DEF new, F
<1>5. ASSUME NEW c \in new PROVE Fine(Main, c)
  <2>1. CASE c \in ToSet(script[Main]) /\ PkgCall(c)
    <3>1. script[Main] \in Seq(ToSet(script[Main]))
      BY DEF SaveInv, CallsTyped, SystemDiscovery, Main
    <3>2. PICK k \in 1 .. Len(script[Main]) : c = script[Main][k]
      BY <2>1, <3>1, Members
    <3>3. Right(Main, c)
      BY <1>4, <3>2 DEF RunRead, RightCalls
    <3>. QED  BY <2>1, <3>3 DEF Right
  <2>2. CASE \E i \in F : c = PlainCall(i)
    BY <1>2, <2>2 DEF Fine
  <2>3. CASE c \in PkgAdditions
    <3>1. PICK id \in pkgs_sys : c.call = "add_pkg" /\ c.id = id
      BY <1>2, <2>3
    <3>2. id.manager \in Backend
      BY <1>4 DEF LoadPackages
    <3>. QED  BY <3>1, <3>2 DEF Fine, FineAnywhere, ScriptDependencies, Main
  <2>4. CASE \E i \in Additions : c = LineFor(i)
    BY <1>2, <2>4 DEF Fine
  <2>. QED  BY <1>1, <2>1, <2>2, <2>3, <2>4
<1>6. {Meaning(c) : c \in {c \in new : IsFsCall(c)}} = Updated(F, Additions)
  <2>1. ASSUME NEW c \in new, IsFsCall(c) PROVE Meaning(c) \in Updated(F, Additions)
    <3>1. \/ \E i \in F : ~Superseded(i, Additions) /\ c = PlainCall(i)
          \/ \E i \in Additions : c = LineFor(i)
      BY <1>1, <1>2, <1>3, <2>1
    <3>. QED  BY <1>2, <3>1 DEF Updated
  <2>2. ASSUME NEW i \in Updated(F, Additions) PROVE \E c \in new : IsFsCall(c) /\ i = Meaning(c)
    <3>1. CASE i \in F /\ ~Superseded(i, Additions)
      BY <1>1, <1>2, <3>1
    <3>2. CASE i \in Additions
      BY <1>1, <1>2, <3>2
    <3>. QED  BY <2>2, <3>1, <3>2 DEF Updated
  <2>. QED  BY <2>1, <2>2
<1>. QED  BY <1>5, <1>6 DEF new, F


\* What is installed the merged script adds, and nothing after that removes it.
LEMMA MergedWins ==
    ASSUME SaveInv, RunInv, FoldedInv, SavedInv, progress = "saved", unsaved = {},
           \A i \in Additions : ~Unknown(i), NEW id \in pkgs_sys
    PROVE  WinsInBoth(script[ScriptDependencies], CallsIn(ScriptDependencies),
                      MergedCalls(Additions), Len(MergedCalls(Additions)),
                      id, settings.pkg_backends, settings.file_backend)
<1>. DEFINE s == script[Main]
            o == FlattenSeq(Others(s))
            k == FlattenSeq(KeptCalls(fs_actions, Additions))
            l == Listed(CallsFor(Additions))
            K == {PlainCall(i) : i \in ToSet(fs_actions)}
            E == settings.pkg_backends
            b == settings.file_backend
            V == (ToSet(s) \cup K) \cup CallsFor(Additions)
<1>1. MergedCalls(Additions) = (o \o k) \o l
  BY DEF MergedCalls
<1>2. Additions \in SUBSET Spelt /\ IsFiniteSet(Additions)
  BY AdditionsAre
<1>3. s \in Seq(ToSet(s)) /\ o \in Seq(ToSet(s)) /\ k \in Seq(K)
  <2>1. s \in Seq(ToSet(s))
    BY DEF SaveInv, CallsTyped, SystemDiscovery, Main
  <2>. QED  BY <1>2, <2>1, MergedMembers
<1>4. l \in Seq(CallsFor(Additions)) /\ ToSet(l) = CallsFor(Additions)
  BY <1>2, LinesFinite, ListedIs
<1>5. id \in PkgIdent /\ id.manager \in E
  <2>1. pkgs_sys = LoadPackages(settings.pkg_backends)
    BY RunAtEnd DEF RunRead, PackagesLoaded, FoldedInv, SystemDiscovery, Main
  <2>. QED  BY <2>1, SaveAssumption DEF LoadPackages, SaveInv
<1>6. package_actions[id] = "Install" =>
         \/ Wins(s, Len(s), id, E, b)
         \/ /\ Wins(script[ScriptDependencies], CallsIn(ScriptDependencies), id, E, b)
            /\ NoRemoval(s, Len(s), id, b)
  <2>1. /\ Made(ScriptDependencies) = CallsIn(ScriptDependencies) /\ Made(Main) = Len(s)
        /\ ActionsRead
    BY RunAtEnd DEF CallsIn, RunRead, ScriptDependencies, Main
  <2>. QED  BY <1>5, <2>1 DEF ActionsRead, WinsInBoth
<1>7. \A c : c \in CallsFor(Additions) => ~Removes(c, id, b)
  <2>1. ASSUME NEW c \in PkgAdditions PROVE ~Removes(c, id, b)
    BY CallsMean DEF Removes
  <2>2. ASSUME NEW i \in Additions PROVE ~Removes(LineFor(i), id, b)
    BY CallsMean DEF Removes, PkgCall
  <2>. QED  BY <2>1, <2>2 DEF CallsFor
<1>8. \A c \in K : ~Removes(c, id, b)
  BY CallsMean DEF Removes, PkgCall
<1>9. package_actions[id] # "Install" =>
         PkgLine("Install", id) \in CallsFor(Additions) /\ Adds(PkgLine("Install", id), id, E)
  BY <1>5 DEF CallsFor, PkgAdditions, PkgLine, Adds
<1>. HIDE DEF s, o, k, l, K, E, b
<1>10. o \in Seq(V) /\ k \in Seq(V) /\ l \in Seq(V)
  BY <1>3, <1>4, SeqMonotonic
<1>. HIDE DEF V
<1>11. NoRemoval(k, Len(k), id, b)
  <2>1. ToSet(k) \subseteq K
    BY <1>3, Members
  <2>. QED  BY <1>8, <1>10, <2>1, NoRemovalAll
<1>12. NoRemoval(l, Len(l), id, b)
  BY <1>4, <1>7, <1>10, NoRemovalAll
<1>13. /\ Wins(s, Len(s), id, E, b) => Wins(o, Len(o), id, E, b)
       /\ NoRemoval(s, Len(s), id, b) => NoRemoval(o, Len(o), id, b)
  BY <1>3, OthersWin DEF o
<1>14. o \o k \in Seq(V)
  BY <1>10, ConcatProperties
<1>. DEFINE u == o \o k
<1>15. /\ Wins(o, Len(o), id, E, b) => Wins(u, Len(u), id, E, b)
       /\ NoRemoval(o, Len(o), id, b) => NoRemoval(u, Len(u), id, b)
  BY <1>10, <1>11, WinsAfter
<1>16. u \in Seq(V)
  BY <1>14
<1>. HIDE DEF u
<1>. DEFINE w == u \o l
<1>17. /\ Wins(u, Len(u), id, E, b) => Wins(w, Len(w), id, E, b)
       /\ NoRemoval(u, Len(u), id, b) => NoRemoval(w, Len(w), id, b)
       /\ Wins(l, Len(l), id, E, b) => Wins(w, Len(w), id, E, b)
  BY <1>10, <1>12, <1>16, WinsAfter
<1>18. MergedCalls(Additions) = w
  BY <1>1 DEF u
<1>. HIDE DEF w
<1>19. package_actions[id] # "Install" => Wins(l, Len(l), id, E, b)
  <2>1. ASSUME package_actions[id] # "Install" PROVE Wins(l, Len(l), id, E, b)
    <3>1. PICK n \in 1 .. Len(l) : l[n] = PkgLine("Install", id)
      BY <1>4, <1>9, <2>1, Members
    <3>2. Adds(l[n], id, E)
      BY <1>9, <2>1, <3>1
    <3>3. \A j \in n + 1 .. Len(l) : j \in 1 .. Len(l)
      BY <1>4, <3>1, LenProperties
    <3>. QED  BY <1>12, <3>1, <3>2, <3>3 DEF Wins, NoRemoval
  <2>. QED  BY <2>1
<1>20. WinsInBoth(script[ScriptDependencies], CallsIn(ScriptDependencies), w, Len(w), id, E, b)
  BY <1>6, <1>13, <1>15, <1>17, <1>19 DEF WinsInBoth
<1>. QED  BY <1>18, <1>20 DEF E, b


\* Everything that was written is merged.
LEMMA MergeRight ==
    ASSUME SaveInv, RunInv, FoldedInv, SavedInv, Merge, merged'
    PROVE  MergedInv'
<1>1. PICK taken : /\ script' = [script EXCEPT ![Main] = MergedCalls(taken)]
                   /\ merged' = (taken = Additions /\ unsaved = {} /\ \A i \in Additions : ~Unknown(i))
  BY DEF Merge, MergedCalls, Others, KeptCalls, CallsFor
<1>2. /\ unsaved = {} /\ \A i \in Additions : ~Unknown(i)
      /\ script' = [script EXCEPT ![Main] = MergedCalls(Additions)]
  BY <1>1
<1>3. /\ UNCHANGED <<config_files, system, unsorted>> /\ progress = "saved" /\ progress' = "idle"
  BY DEF Merge
<1>. DEFINE new == MergedCalls(Additions)
            b == settings.file_backend
<1>4. /\ \A p \in Phases : Made(p) = CallsIn(p)
      /\ Phases = 1 .. 4 /\ phase = 4 /\ DOMAIN script = Phases
      /\ RightCalls /\ SettingsRead /\ IgnoresRead /\ PackagesLoaded
  BY <1>3, RunAtEnd DEF RunRead, SaveInv, CallsTyped, Phases
<1>5. new \in Seq(ToSet(new))
  BY AdditionsAre, MergedMembers
<1>6. /\ \A c \in ToSet(new) : Fine(Main, c)
      /\ {Meaning(c) : c \in {c \in ToSet(new) : IsFsCall(c)}} = Updated(ToSet(fs_actions), Additions)
  BY <1>2, <1>3, MergedFiles
<1>7. \A id \in pkgs_sys : WinsInBoth(script[3], CallsIn(3), new, Len(new), id, settings.pkg_backends, b)
  BY <1>2, <1>3, MergedWins DEF ScriptDependencies
<1>. HIDE DEF new
<1>8. script'[4] = new /\ \A p \in 1 .. 3 : script'[p] = script[p] /\ CallsIn(p)' = CallsIn(p)
  BY <1>2, <1>4 DEF CallsIn, Main, new
<1>9. CallsIn(4)' = Len(new)
  BY <1>8 DEF CallsIn
<1>10. \A p, c : Fine(p, c)' <=> Fine(p, c)
  BY <1>3 DEF Fine, FineAnywhere, PlainFine, SourceFile
<1>11. \A c : Meaning(c)' = Meaning(c)
  BY <1>3 DEF Meaning, SourceFile
<1>12. /\ AllEnabled' = settings.pkg_backends
       /\ AllIgnored' = fs_ignores
  BY <1>4, <1>8 DEF AllEnabled, AllIgnored, SettingsRead, IgnoresRead, SystemDiscovery, Ignores
<1>13. CallsFine'
  <2>1. ASSUME NEW p \in 1 .. 3, NEW k \in 1 .. CallsIn(p) PROVE Fine(p, script[p][k])
    <3>1. Right(p, script[p][k])
      BY <1>4 DEF RightCalls
    <3>. QED  BY <3>1 DEF Right, Main
  <2>2. ASSUME NEW k \in 1 .. Len(new) PROVE Fine(4, new[k])
    BY <1>5, <1>6, Members DEF Main
  <2>3. ASSUME NEW p \in Phases, NEW k \in 1 .. CallsIn(p)' PROVE Fine(p, script'[p][k])
    <3>1. CASE p = 4
      BY <1>8, <1>9, <2>2, <2>3, <3>1
    <3>2. CASE p # 4
      <4>1. p \in 1 .. 3
        BY <1>4, <3>2
      <4>. QED  BY <1>8, <2>1, <2>3, <4>1
    <3>. QED  BY <3>1, <3>2
  <2>. QED  BY <1>10, <2>3 DEF CallsFine
<1>14. \E c : PackagesNamed(c)'
  <2>1. PICK c : c = b
    OBVIOUS
  <2>2. /\ c \in FileBackend /\ SetTo(script'[1], CallsIn(1)', c)
        /\ AllEnabled' \subseteq PkgBackend /\ pkgs_sys = LoadPackages(settings.pkg_backends)
    BY <1>4, <1>8, <1>12, <2>1 DEF SettingsRead, PackagesLoaded, SystemDiscovery
  <2>3. LoadPackages(AllEnabled)' = pkgs_sys
    BY <1>3, <1>12, <2>2 DEF LoadPackages
  <2>4. \A id \in LoadPackages(AllEnabled)' :
           WinsInBoth(script'[3], CallsIn(3)', script'[4], CallsIn(4)', id, AllEnabled', c)
    BY <1>7, <1>8, <1>9, <1>12, <2>1, <2>3
  <2>5. PackagesNamed(c)'
    BY <2>2, <2>4 DEF PackagesNamed, SystemDiscovery, ScriptDependencies, Main
  <2>. QED  BY <2>5
<1>15. \E F, A : FilesNamed(F, A)'
  <2>1. PICK F, A : F = ToSet(fs_actions) /\ A = Additions
    OBVIOUS
  <2>2. /\ ~ScanFails(system.disk, system.pkgs, fs_ignores)
        /\ script_fs = BuildMap(F) /\ sys_fs = Scanned(fs_ignores)
    BY <1>3, <2>1 DEF FoldedInv
  <2>3. F \in SUBSET FsInstruction /\ IsFiniteSet(F)
    BY <2>1, MapsTyped
  <2>4. A = SavedFrom(BuildMap(F), Scanned(fs_ignores))
    BY <2>1, <2>2, AdditionsAre
  <2>5. AllQueued' = Updated(F, A)
    <3>1. PICK t : t = new
      OBVIOUS
    <3>2. QueuedBy(t, Len(t)) = {Meaning(c) : c \in {c \in ToSet(t) : IsFsCall(c)}}
      BY <1>5, <3>1, QueuedByAll
    <3>3. AllQueued' = QueuedBy(t, Len(t))
      BY <1>3, <1>8, <1>9, <3>1 DEF AllQueued, QueuedBy, Meaning, SourceFile, Main
    <3>. QED  BY <1>6, <2>1, <3>1, <3>2, <3>3
  <2>6. \A q \in Path : Instr(q, "Remove", None) \in A => LineRemoves(q)
    <3>1. ASSUME NEW q \in Path, Instr(q, "Remove", None) \in A PROVE LineRemoves(q)
      <4>1. LineFor(Instr(q, "Remove", None)) = [call |-> "rm", path |-> q]
        BY InstrFields DEF LineFor
      <4>. QED  BY <1>3, <2>1, <3>1, <4>1 DEF SavedInv, CallsFor, LineRemoves
    <3>. QED  BY <3>1
  <2>7. FilesNamed(F, A)'
    BY <1>3, <1>12, <2>2, <2>3, <2>4, <2>5, <2>6 DEF FilesNamed, Scanned, LineRemoves
  <2>. QED  BY <2>7
<1>. QED  BY <1>3, <1>13, <1>14, <1>15 DEF MergedInv


\* A call of the merged script returns.
LEMMA MergedCall ==
    ASSUME SaveInv, MergedInv, merged, CallReturns
    PROVE  MergedInv'
<1>1. /\ Outcome /\ UNCHANGED <<system, unsorted, merged, script, config_files, phase>>
      /\ progress = "running" /\ pc \in DOMAIN script[phase] /\ progress # "idle"
  BY CallTyped DEF CallReturns, Outcome
<1>2. /\ CallsFine /\ ToSet(fs_actions) = QueuedBy(script[Main], Made(Main))
      /\ CallsFine' /\ (\E b : PackagesNamed(b))' /\ (\E F, A : FilesNamed(F, A))'
  BY <1>1, ConfigStays DEF MergedInv
<1>3. Fine(phase, Call)
  <2>1. phase \in Phases /\ pc \in 1 .. CallsIn(phase)
    BY <1>1, MadeIs DEF CallsIn
  <2>. QED  BY <1>2, <2>1 DEF CallsFine, Call
<1>4. Returned
  BY <1>1, <1>3 DEF Outcome, Failed
<1>5. /\ progress' = "running" /\ Makes(phase, Call)
      /\ \A p \in Phases : Made(p)' = IF p = phase THEN Made(p) + 1 ELSE Made(p)
      /\ script[phase][Made(phase) + 1] = Call
  BY <1>1, <1>4, MadeOneMore
<1>6. fs_actions \in Seq(Queued) /\ fs_actions' \in Seq(Queued) /\ Main \in Phases /\ Made(Main) \in Nat
  <2>1. \A p \in Phases : Made(p) \in 0 .. Len(script[p])
    BY <1>1, MadeIs
  <2>2. Main \in Phases
    BY DEF Phases, SystemDiscovery, Main
  <2>. QED  BY <1>1, <2>1, <2>2 DEF SaveInv, CallsTyped, Outcome
<1>8. ToSet(fs_actions)' = QueuedBy(script[Main], Made(Main)')
  <2>1. CASE Call.call \in PlainCalls
    <3>1. ~FineAnywhere(phase, Call) /\ phase = Main /\ IsFsCall(Call)
      BY <1>3, <2>1 DEF Fine, FineAnywhere, PlainCalls, IsFsCall
    <3>. DEFINE i == Meaning(Call)
    <3>2. fs_actions' = Append(fs_actions, i)
      BY <1>4, <2>1 DEF Returned
    <3>3. ToSet(fs_actions') = ToSet(fs_actions) \cup {i}
      <4>1. i \in Queued
        <5>1. Append(fs_actions, i) \in Seq(Queued)
          BY <1>6, <3>2
        <5>2. Len(fs_actions) \in Nat /\ Len(Append(fs_actions, i)) = Len(fs_actions) + 1
              /\ Append(fs_actions, i)[Len(fs_actions) + 1] = i
          BY <1>6
        <5>3. Len(fs_actions) + 1 \in 1 .. Len(fs_actions) + 1
          BY <5>2
        <5>. HIDE DEF i
        <5>. QED  BY <5>1, <5>2, <5>3, LenProperties
      <4>. HIDE DEF i
      <4>. QED  BY <1>6, <3>2, <4>1, MembersOfOneMore
    <3>4. QueuedBy(script[Main], Made(Main) + 1) = QueuedBy(script[Main], Made(Main)) \cup {i}
      BY <1>5, <1>6, <3>1, OneMoreCall
    <3>. QED  BY <1>2, <1>5, <1>6, <3>1, <3>3, <3>4
  <2>2. CASE Call.call \notin PlainCalls
    <3>1. FineAnywhere(phase, Call)
      BY <1>3, <2>2 DEF Fine, PlainFine
    <3>2. fs_actions' = fs_actions
      BY <1>4, <2>2, <3>1 DEF Returned
    <3>3. CASE phase = Main
      <4>1. ~IsFsCall(Call)
        BY <1>5, <3>1, <3>3 DEF FineAnywhere, Makes, IsFsCall, SystemDiscovery, Ignores, Main
      <4>. QED  BY <1>2, <1>5, <1>6, <3>2, <3>3, <4>1, OneMoreCall
    <3>4. CASE phase # Main
      BY <1>2, <1>5, <1>6, <3>2, <3>4
    <3>. QED  BY <3>3, <3>4
  <2>. QED  BY <2>1, <2>2
<1>9. (ToSet(fs_actions) = QueuedBy(script[Main], Made(Main)))'
  BY <1>1, <1>8 DEF QueuedBy, Meaning, SourceFile
<1>. QED  BY <1>2, <1>5, <1>9 DEF MergedInv


\* Between two calls, too, everything stays merged.
LEMMA MergedElsewhere ==
    ASSUME SaveInv, RunInv, FoldedInv, SavedInv, MergedInv, SaveNext, ~CallReturns
    PROVE  MergedInv'
<1>. SUFFICES ASSUME merged' PROVE MergedInv'
  BY DEF MergedInv
<1>1. CASE Merge
  BY <1>1, MergeRight
<1>2. ASSUME merged, UNCHANGED <<script, config_files, system, unsorted>>
      PROVE  CallsFine' /\ (\E b : PackagesNamed(b))' /\ (\E F, A : FilesNamed(F, A))'
  BY <1>2, ConfigStays DEF MergedInv
<1>3. CASE StartRun
  <2>1. /\ UNCHANGED <<script, config_files, system, unsorted, merged>>
        /\ progress' = "running" /\ fs_actions' = <<>> /\ phase' = 1
    BY <1>3 DEF StartRun, NewEngine, config, SystemDiscovery
  <2>2. Made(Main)' = 0
    BY <2>1 DEF Made, Main
  <2>3. (ToSet(fs_actions) = QueuedBy(script[Main], Made(Main)))'
    <3>1. ToSet(<<>>) = {} /\ 1 .. 0 = {}
      BY DEF ToSet
    <3>. QED  BY <2>1, <2>2, <3>1 DEF QueuedBy
  <2>. QED  BY <1>2, <2>1, <2>3 DEF MergedInv
<1>4. CASE AfterSystemDiscovery \/ AfterIgnores \/ AfterScriptDependencies \/ AfterMain
  <2>1. /\ UNCHANGED <<script, config_files, system, unsorted, merged, fs_actions>>
        /\ progress = "running" /\ progress # "idle" /\ pc > Len(script[phase])
    BY <1>4 DEF AfterSystemDiscovery, AfterIgnores, AfterScriptDependencies, AfterMain, Finished, config, engine
  <2>2. \/ phase' = phase + 1 /\ pc' = 1
        \/ phase' = phase /\ pc' = pc
    <3>1. AfterSystemDiscovery =>
             (phase' = phase + 1 /\ pc' = 1) \/ (phase' = phase /\ pc' = pc)
      BY DEF AfterSystemDiscovery, Finished, Enter, SystemDiscovery, Ignores
    <3>2. AfterIgnores => (phase' = phase + 1 /\ pc' = 1) \/ (phase' = phase /\ pc' = pc)
      BY DEF AfterIgnores, Finished, Enter, Ignores, ScriptDependencies
    <3>3. AfterScriptDependencies => phase' = phase + 1 /\ pc' = 1
      BY DEF AfterScriptDependencies, Finished, Enter, ScriptDependencies, Main
    <3>4. AfterMain => phase' = phase /\ pc' = pc
      BY DEF AfterMain
    <3>. QED  BY <1>4, <3>1, <3>2, <3>3, <3>4
  <2>3. Made(Main)' = Made(Main)
    <3>1. Main \in Phases
      BY DEF Phases, SystemDiscovery, Main
    <3>2. CASE phase' = phase + 1 /\ pc' = 1
      BY <2>1, <3>1, <3>2, MadeAtEnd
    <3>3. CASE phase' = phase /\ pc' = pc
      BY <2>1, <3>3 DEF Made
    <3>. QED  BY <2>2, <3>2, <3>3
  <2>4. (ToSet(fs_actions) = QueuedBy(script[Main], Made(Main)))'
    BY <2>1, <2>3 DEF MergedInv, QueuedBy, Meaning, SourceFile
  <2>5. /\ Made(phase) = CallsIn(phase) /\ RunRead
        /\ \A p \in Phases : p < phase => Made(p) = CallsIn(p)
        /\ Phases = 1 .. 4
    BY <2>1, MadeAtEnd, MadeIs DEF CallsIn, RunInv
  <2>6. progress' \in {"running", "panicked", "folded"}
    <3>1. CASE AfterSystemDiscovery
      <4>1. PICK b : PackagesNamed(b)
        BY <2>1 DEF MergedInv
      <4>2. /\ SetTo(script[1], CallsIn(1), b) /\ b \in FileBackend
            /\ SetTo(script[1], CallsIn(1), settings.file_backend)
            /\ settings.pkg_backends \subseteq PkgBackend
        BY <2>5, <3>1, <4>1 DEF PackagesNamed, AllEnabled, RunRead, SettingsRead, AfterSystemDiscovery, Finished,
                                SystemDiscovery
      <4>3. CallsIn(1) \in Nat
        BY <2>1, <2>5, MadeIs DEF CallsIn
      <4>4. settings.file_backend = b
        BY <4>2, <4>3, OneBackend
      <4>. QED  BY <2>1, <3>1, <4>2, <4>4 DEF AfterSystemDiscovery, Enter
    <3>2. CASE AfterIgnores
      BY <2>1, <3>2 DEF AfterIgnores, Enter
    <3>3. CASE AfterScriptDependencies
      BY <2>1, <3>3 DEF AfterScriptDependencies, Enter
    <3>4. CASE AfterMain
      <4>1. phase = 4
        BY <3>4 DEF AfterMain, Finished, Main
      <4>2. fs_ignores = AllIgnored
        BY <2>5, <4>1 DEF RunRead, IgnoresRead, AllIgnored, Ignores
      <4>3. ~ScanFails(system.disk, system.pkgs, fs_ignores)
        BY <2>1, <4>2 DEF MergedInv, FilesNamed
      <4>. QED  BY <3>4, <4>3 DEF AfterMain
    <3>. QED  BY <1>4, <3>1, <3>2, <3>3, <3>4
  <2>. QED  BY <1>2, <2>1, <2>4, <2>6 DEF MergedInv
<1>5. ~SaveChanges
  BY DEF SaveChanges
<1>. QED  BY <1>1, <1>3, <1>4, <1>5 DEF SaveNext

-----------------------------------------------------------------------------
(* Saving again, and applying *)

MergeInv == RunInv /\ FoldedInv /\ SavedInv /\ MergedInv

\* Nothing is merged at first.
LEMMA MergeInit == SaveInit => MergeInv
  BY DEF SaveInit, MergeInv, RunInv, FoldedInv, SavedInv, MergedInv

\* Every step keeps what holds of a run, of the lines and of what was merged.
LEMMA MergeStep == SaveInv /\ MergeInv /\ [SaveNext]_saveVars => MergeInv'
<1>1. ASSUME SaveInv, MergeInv, UNCHANGED saveVars PROVE MergeInv'
  <2>1. UNCHANGED <<script, config_files, phase, pc, progress, settings, fs_ignores, fs_actions, package_actions,
                    system, pkgs_sys, script_fs, sys_fs, unsorted, unsaved, saves, merged>>
    BY <1>1 DEF saveVars, commandVars, config, engine
  <2>2. \A p \in Phases : Made(p)' = Made(p)
    BY <2>1 DEF Made
  <2>3. RunInv'
    <3>1. \A p, c : Right(p, c) => Right(p, c)'
      BY <2>1, RightStays
    <3>2. CASE progress # "idle"
      <4>1. PackagesLoaded'
        BY <1>1, <2>1, <3>2 DEF MergeInv, RunInv, RunRead, PackagesLoaded, LoadPackages
      <4>. QED  BY <1>1, <2>1, <2>2, <3>1, <3>2, <4>1, ReadKept DEF MergeInv, RunInv
    <3>. QED  BY <2>1, <3>2 DEF RunInv
  <2>4. FoldedInv'
    BY <1>1, <2>1 DEF MergeInv, FoldedInv, Scanned
  <2>5. SavedInv'
    <3>1. Additions' = Additions /\ CallsFor(Additions)' = CallsFor(Additions)
      BY <2>1 DEF Additions, FsChanges, CallsFor, PkgAdditions
    <3>. QED  BY <1>1, <2>1, <3>1 DEF MergeInv, SavedInv
  <2>6. MergedInv'
    <3>1. Main \in Phases
      BY DEF Phases, SystemDiscovery, Main
    <3>2. Made(Main)' = Made(Main)
      BY <2>2, <3>1
    <3>3. QueuedBy(script[Main], Made(Main))' = QueuedBy(script[Main], Made(Main))
      BY <2>1, <3>2 DEF QueuedBy, Meaning, SourceFile
    <3>. QED  BY <1>1, <2>1, <3>3, ConfigStays DEF MergeInv, MergedInv
  <2>. QED  BY <2>3, <2>4, <2>5, <2>6 DEF MergeInv
<1>2. ASSUME SaveInv, MergeInv, SaveNext PROVE MergeInv'
  <2>1. RunInv /\ FoldedInv /\ SavedInv /\ MergedInv
    BY <1>2 DEF MergeInv
  <2>2. RunInv' /\ FoldedInv' /\ SavedInv'
    BY <1>2, <2>1, RunStep, FoldedStep, SavedStep
  <2>3. MergedInv'
    <3>1. CASE CallReturns /\ merged
      BY <1>2, <2>1, <3>1, MergedCall
    <3>2. CASE CallReturns /\ ~merged
      BY <3>2 DEF CallReturns, MergedInv
    <3>3. CASE ~CallReturns
      BY <1>2, <2>1, <3>3, MergedElsewhere
    <3>. QED  BY <3>1, <3>2, <3>3
  <2>. QED  BY <2>2, <2>3 DEF MergeInv
<1>. QED  BY <1>1, <1>2

\* What follows of it.
LEMMA MergedHolds == SaveInv /\ MergeInv => MergedIsUpToDate /\ MergedIsKept
<1>. SUFFICES ASSUME SaveInv, MergeInv PROVE MergedIsUpToDate /\ MergedIsKept
  OBVIOUS
<1>0. RunInv /\ FoldedInv /\ MergedInv
  BY DEF MergeInv
<1>1. merged => progress # "failed"
  BY <1>0 DEF MergedInv
<1>2. ASSUME merged, progress = "folded"
      PROVE  /\ PkgAdditions = {}
             /\ \A i \in Additions :
                   \/ HardCase(i.path)
                   \/ i.arg = ROOT /\ RootLeftOut(i.path)
                   \/ ModeOfLink(i) \/ ModeOfOther(i)
             /\ \A p \in Path : sys_fs[p] # NoNode /\ ~HardCase(p) /\ ~RootLeftOut(p) =>
                   \A i \in DiffPath(p, sys_fs[p], script_fs[p], LeftApply(p, sys_fs[p], system.pkgs[p])) :
                      ~Reported(p, i.tag) \/ ModeOfLink(i) \/ ModeOfOther(i)
  <2>1. /\ Phases = 1 .. 4 /\ phase = 4 /\ RunRead
        /\ \A p \in Phases : Made(p) = CallsIn(p)
    BY <1>0, <1>2, RunAtEnd
  <2>2. /\ settings.pkg_backends = AllEnabled /\ fs_ignores = AllIgnored
        /\ SetTo(script[1], CallsIn(1), settings.file_backend)
        /\ pkgs_sys = LoadPackages(AllEnabled)
        /\ Made(Main) = CallsIn(Main)
    BY <2>1 DEF RunRead, SettingsRead, IgnoresRead, PackagesLoaded, AllEnabled, AllIgnored,
                SystemDiscovery, Ignores, Main
  <2>3. PkgAdditions = {}
    <3>1. PICK b : PackagesNamed(b)
      BY <1>0, <1>2 DEF MergedInv
    <3>2. CallsIn(1) \in Nat
      BY <1>2, <2>1, MadeIs DEF CallsIn
    <3>3. settings.file_backend = b
      <4>1. SetTo(script[1], CallsIn(1), b)
        BY <3>1 DEF PackagesNamed, SystemDiscovery
      <4>. QED  BY <2>2, <3>2, <4>1, OneBackend
    <3>4. ASSUME NEW id \in pkgs_sys PROVE package_actions[id] = "Install"
      <4>1. id \in PkgIdent
        BY SaveAssumption DEF SaveInv
      <4>2. WinsInBoth(script[3], CallsIn(3), script[4], CallsIn(4), id, AllEnabled, b)
        BY <2>2, <3>1 DEF PackagesNamed, ScriptDependencies, Main
      <4>3. Made(3) = CallsIn(3) /\ Made(4) = CallsIn(4)
        BY <2>1
      <4>. QED  BY <2>1, <2>2, <3>3, <4>1, <4>2, <4>3 DEF RunRead, ActionsRead, ScriptDependencies, Main
    <3>. QED  BY <3>4 DEF PkgAdditions
  <2>4. PICK F, A : FilesNamed(F, A)
    BY <1>0, <1>2 DEF MergedInv
  <2>5. ToSet(fs_actions) = Updated(F, A)
    BY <1>0, <1>2, <2>2, <2>4 DEF MergedInv, FilesNamed, AllQueued
  <2>6. /\ F \in SUBSET FsInstruction /\ IsFiniteSet(F)
        /\ ~ScanFails(system.disk, system.pkgs, AllIgnored) /\ sys_fs = Scanned(AllIgnored)
        /\ A = SavedFrom(BuildMap(F), sys_fs) /\ script_fs = BuildMap(Updated(F, A))
        /\ \A q \in Path : Instr(q, "Remove", None) \in A => LineRemoves(q)
    BY <1>0, <1>2, <2>2, <2>4, <2>5 DEF FilesNamed, FoldedInv
  <2>. QED  BY <2>3, <2>6, MergedMaps
<1>. QED  BY <1>1, <1>2 DEF MergedIsUpToDate, MergedIsKept

\* Once everything that save wrote has been merged, saving again runs the script without an
\* error and has no more lines to write, whatever the configuration was, and the disk, and
\* however often that was done.
THEOREM MergedUpToDate == ScriptSpec => []MergedIsUpToDate
<1>1. ScriptInit => SaveInv /\ MergeInv
  BY ScriptSaves, SaveInitHolds, MergeInit
<1>2. SaveInv /\ MergeInv /\ [ScriptNext]_scriptVars => (SaveInv /\ MergeInv)'
  BY ScriptSaves, SaveStep, MergeStep
<1>3. SaveInv /\ MergeInv => MergedIsUpToDate
  BY MergedHolds
<1>. QED  BY <1>1, <1>2, <1>3, PTL DEF ScriptSpec

\* And apply leaves what the scan reported as it is.
THEOREM MergedKept == ScriptSpec => []MergedIsKept
<1>1. ScriptInit => SaveInv /\ MergeInv
  BY ScriptSaves, SaveInitHolds, MergeInit
<1>2. SaveInv /\ MergeInv /\ [ScriptNext]_scriptVars => (SaveInv /\ MergeInv)'
  BY ScriptSaves, SaveStep, MergeStep
<1>3. SaveInv /\ MergeInv => MergedIsKept
  BY MergedHolds
<1>. QED  BY <1>1, <1>2, <1>3, PTL DEF ScriptSpec
=============================================================================
