# A formal model of konfigkoll

konfigkoll brings a system into the state that a configuration script describes:
the packages and files the script mentions are to be as it says, and *everything
else* as the package manager has it. paketkoll, whose library it
is built on, reports what differs from what packages or systemd-tmpfiles expect. This
directory holds TLA+ modules of what decides and carries out the changes: where the
expected files come from, what a script can say, what is made of both, and how it is
applied or saved; TLC configurations that check them on small instances; and proofs for
TLAPS.

Paths below are relative to the repository.

## 1. The system

| component | code | state | operations | modelled in |
|---|---|---|---|---|
| instructions and their order | `konfigkoll_types/operations.rs` | none | `FsOp`, `Ord for FsInstruction`, `PkgInstruction` | FsTypes |
| state of a file system | `konfigkoll_core/state.rs` | a map from paths to nodes | `apply_instructions`, `add_missing_parents`, `replace_node` | FsMaps, FsReading, FsEntries |
| diff | `konfigkoll_core/state.rs`, `diff.rs` | none | `diff` for apply and for save, `into_instruction` | Diff |
| scan | `konfigkoll/fs_scan.rs`, `paketkoll_core/{file_ops,backend/filesystem}.rs`, `konfigkoll_core/conversion.rs` | none | walk, check against packages, missing files, conversion | Scan |
| applying files | `konfigkoll_core/apply.rs`, `konfigkoll/apply.rs` | the disk, the answers so far | `apply_files`, the three applicators, `apply_single_file` | Disk, ApplyFiles |
| applying packages | `konfigkoll_core/apply.rs`, `konfigkoll/pkgs.rs`, `paketkoll_core/backend/{arch,deb,flatpak}.rs` | installed packages and reasons | `load_packages`, `package_diff`, `apply_packages`, `apply_pkgs`, `transact`, `mark`, `remove_unused` | Packages |
| the pipeline | `konfigkoll/main.rs` | what was loaded, the background scan | `run_main`, `cmd_apply_changes` | Packages, Reconcile |
| script | `konfigkoll_script/engine.rs`, `plugins/{command,settings,systemd,package_managers}.rs` | queued actions, settings, phase | the phases and every call of them | Commands; abstracted in Packages, Reconcile |
| users and groups | `konfigkoll_script/plugins/passwd.rs`, `passwd/sysusers.rs` | tables of users and groups | `add_*`, `update_*`, `add_from_sysusers`, `align_ids_with_system`, `apply` | Passwd |
| line editor | `konfigkoll_utils/line_edit.rs`, `plugins/patch.rs` | a program and its position | `apply` | LineEdit |
| saving | `konfigkoll_core/save.rs`, `konfigkoll/{main,save}.rs` | `unsorted.rn`, `files/` | `save_fs_changes`, `save_packages` | Save |
| caches | `paketkoll_cache` | entries with lifetimes | `files_from_archives`, `original_files` | PackageCaches |
| package databases | `paketkoll_core/backend/deb.rs`, `deb/*`, `konfigkoll/fs_scan.rs` | a map filled in parallel | `packages`, `files`, `files_from_archives`, `original_files` | DpkgStatus, DebFiles, DebArchives, ExpectedFiles |
| systemd-tmpfiles | `systemd_tmpfiles`, `backend/systemd_tmpfiles.rs` | a map, a cache of ids | `files`, `process_entry`, `do_insert` | Tmpfiles |
| Arch's database, mtree2 | `backend/arch/*`, `mtree2` | none | parsing | not modelled |
| hwinfo, paketkoll, xtask | | none | parsing, printing | not modelled |

How they interact, in an apply: the installed packages are *loaded*; the *scan* is
spawned and compares the disk with what packages own, while the *script* goes through
its phases and the packages it needs itself are installed *early*; then the scan's
instructions and the script's are each *folded* into a map, the maps are *diffed*, and
the changes are applied: early files, packages, late files. Nothing is remembered from
one run to the next but in the disk, the package database and the caches.

In a save, the script runs through the same phases and the same scan is folded; the
difference the other way round becomes calls in `unsorted.rn`, which the user merges
into the script. The packages' side of a scan is either the database of the file backend
or, where konfigkoll needs modes, owners and contents, the archives of the installed
packages through a cache on disk, with the database for packages without an archive.

What is hard in it:

* order: three different sorts, operations grouped in chunks, removals reversed, two
  batches; what is right for creation is wrong for removal and for metadata;
* failure half-way: there is no rollback, the next run is the recovery;
* the scan runs beside package transactions (`main.rs:173-230`), and what was loaded
  before them is used after them;
* consent is given per package manager, per chunk and per operation;
* the decisions of diff are about single fields, the effects of operations are not
  (`chown` clears set-ID bits, creating a file resets its mode, links are followed);
* calls of a script come in any order, and what they mean depends on it: ids are checked
  before they are aligned, the contents of a file are asked for before actions are
  sorted, a line editor's program may fetch a line or stop anywhere in itself;
* what save writes is only worth something if the next run reads it as it was meant;
* caches outlive upgrades, the absence of an archive is cached too, and lists of files
  are merged in parallel where the first entry stays.

Each hazard is listed in `PROJECT.json` at the line where it bites, with the
properties that cover it, and a note on what of it they leave open.

What makes each component correct:

* *fold*: the map depends on the set of instructions only as far as the sort defines
  (last creation wins over removal, removals are remembered, metadata survive);
* *diff and scan*: carrying out the difference gives the state asked for;
* *applying files*: the order is safe, consent is respected, nothing else is touched,
  success means that the plan was achieved;
* *applying packages*: what is installed is what is asked for, nothing is lost before
  the script has spoken, and the scan does not make the run destroy files;
* *all of it*: runs end, and repeated runs converge;
* *saving*: merged, what was written leaves nothing to save and nothing to undo;
* *users and groups*: what was said of an account is what is written, ids are unique and
  once aligned stay so;
* *line editor*: it does what a reading of the program line by line says, loses no line it
  was not told to, and ends;
* *expected files*: each package is accounted for by the version installed, whatever the
  caches hold and in whatever order its lists were merged; of tmpfiles.d lines the last
  one decides.

## 2. The modules

    FsTypes ── FsMaps ── FsReading ── FsEntries ──┬── FsEntriesProofs
    FsReading, Scan ─────── FsMapsProofs ────────┘
    FsTypes ──┬── Diff ── Scan ──────┐
              ├── Disk ── ApplyFiles ─┼── Reconcile ───────┐
              └── FsMaps ────────────┘                    ├── ReconcileProofs
    ApplyFiles, Diff, FsMapsProofs ──── ApplyFilesProofs ─┘
    Reconcile ──(implements)── DesiredState
    Packages ── PackagesProofs

    FsTypes ──┬── Commands ──┐
    FsMaps, Scan ────────────┴── Save ──┐
    FsTypes ──── Passwd ────────────────┼── ScriptPlugins
    LineEdit ───────────────────────────┘
    ScriptPlugins ── ScriptPluginsProofs ──┬── SaveProofs
    FsMapsProofs ──────────────────────────┘

    Paths ──┬── DpkgStatus ── DebFiles ── DebArchives ── PackageCaches ── ExpectedFiles ──┬── FileBackends
            └── Tmpfiles ────────────────────────────────────────────────────────────────┘
    FileBackends ── FileBackendsProofs

Each `MC*` module is an instance for TLC. The operators whose comment says "A mutant" are
faulty variants of the definition below them, used to see that a property notices.

* **FsTypes**: instructions (`Instr(path, tag, arg)`), `InstrLeq` for
  `Ord for FsInstruction`, nodes and entries. Contents, link targets, modes and names
  are members of sets; the rank functions give them the order they sort in.
* **FsMaps**: one step of `FsEntries::apply_instructions` as a function of the map and
  the instruction, and `BuildMap`, the fold over a set in sorted order (`main.rs:236-247`).
* **FsReading**: what a set of instructions says of a path (`EntryFollows`,
  `RemovalRemembered`, `MetadataFollows`), whatever order it is gone through in.
* **FsEntries**: apply_instructions as a state machine that consumes a sorted stream, one action
  per operation. The stream is any subset of the constant `Stream`: `Consume` takes any
  instruction greater than all consumed so far.
* **Disk**: inodes and the system calls the program makes (external to `src/`):
  creation resets owner and mode, `chown` clears set-ID bits, links are followed where
  the calls follow them.
* **Diff**: `diff` path by path; `ApplyDiff` and `SaveDiff` are its two uses.
* **Scan**: what check_file, the walk and find_missing_files report of each path, and
  the instructions `convert_issues_to_fs_instructions` makes of it.
* **ApplyFiles**: `cmd_apply_changes` from its list of changes. `stage` is where it is
  (early files, packages, late files), `todo` the rest of the batch, `Chunk` the group
  of one kind whose turn it is, `approval` what the user answered for it. A step carries
  out one instruction; `BreakDown` leaves it undone or half done. `carried`, `skipped`,
  `shown` and `blocked` are history.
* **Reconcile**: ApplyFiles put between scan and disk, run after run: `ScanDisk` folds
  script and scan, `PlanChanges` diffs them, `Continue` is a step of ApplyFiles, `Refuse` the
  error of a scan or diff. `ignores` and `early` are the settings; a script queues
  instructions of the kinds in `ScriptTags`.
* **DesiredState**: what apply promises, without saying how. A run observes, declines or
  decides, and acts on the disk piece by piece; whether it is able to do what it is asked for
  is settled when it decides. If it is, it leaves alone what is kept out of it, fails only
  when it is cut short, and ends with everything as wanted. Reconcile instantiates it
  (`Desired`): `wanted` is what script and packages say of each path (`Wanted`), `kept` what
  is ignored, `able` that the script and the plan are none of the hard cases (`Sensible`,
  `Tractable`), and `phase` comes from `stage`.
* **Packages**: `run_main` with two threads. The main thread goes through
  `Load`, `ApplyEarlyPackages`, `RunMainPhase`, `ApplyPackages` (which awaits the scan)
  and `ApplyFileChanges`; in the two package stages each manager with changes gets
  `Install`, `MarkManual`, `MarkUnwanted`, `RemoveUnwanted`, the calls of `apply_pkgs` in
  their order, the managers one after the other in any order (a hash map). The scanner
  lists files (`ListFiles`), looks at each package's file once (`Visit`) and ends. A
  package stands for one file it owns. `Natives` chooses pacman (reasons survive `-S`,
  `-D` fails for what is absent, files are listed from the database) or apt (`install`
  marks as manual, `apt-mark` only complains, files are listed from the archives of the
  packages *loaded*).
* **Commands**: what a script is to the engine: per phase, a sequence of calls. One action
  per call of `Settings`, `Commands`, `Unit` and the package commands, with its check of
  the phase and of its arguments; `Queue` is what file commands share. `perms` is three
  calls, of which the first two have happened when the mode is wrong. `FileContents`
  answers from the order of the calls, though the stream is sorted afterwards.
* **Save**: `run_main` and `cmd_save_changes`, run after run: the phases, with what happens
  between them (`After...`; backends are created for the package managers in `PkgBackend`
  and for files in `FileBackend`, any other ends the run), the two folds of FsMaps, `SaveDiff`, and `SaveChanges`, which
  writes the lines (`LineFor`) and copies or withholds contents (`Withheld`). `Merge` is the
  user, who takes over all lines or those of one path and strikes out what they contradict.
* **LineEdit**: `EditProgram::apply`. `frames` is the call stack of `execute_program`,
  with the copy of `line` each level has; one action per kind of instruction, a second
  set for the turn at the end of the file. `AgreesWithReference` compares with
  `OfText`, a function of the text and the program that has no other state.
* **Passwd**: the builder of users and groups, one action per function; `Directive` is a
  line of sysusers.d, with the alternatives of its id in the parser's order. What
  `update_user` and `update_group` call is any function of a user or group, which may fail
  (`UpdatedBy`). `declared`, `joined` and `aligned` are history.
* **ScriptPlugins**: a script patches a text, then builds its users, or makes calls: the
  composition, one thread that goes from one to the next.
* **Paths**: what the two file backends have in common.
* **DpkgStatus**: `parse_status`, `parse_extended_status`, `parse_diversions` and `packages`,
  as functions over lines, and beside them what a stanza says field by field.
* **DebFiles**: `files` of the Debian backend: workers merge `.list` and `.md5sums`
  entries one at a time in any order (`MergeEntry`), then come the conffiles and the filter.
* **DebArchives**: where a `.deb` is found or downloaded, the entries and contents read
  from it, hard links and diversions included. Contents are found for names that begin
  with `./` only (`Dotted`).
* **PackageCaches**: the two caches, their key and what is not kept.
* **ExpectedFiles**: `file_vec_from_archive` and what surrounds it: a run of konfigkoll
  (`StartScan`, `FetchArchives`, `StoreResult` one by one, `Assemble`, the database if an
  archive is missing, `QueryOriginals`) or a check of paketkoll (`StartCheck`), which may
  stop anywhere (`EndRun`); between runs the system is upgraded or rediverted, archives
  are cleaned and entries of the caches expire.
* **Tmpfiles**: lines to directives (`IsDirective`), and `process_entry` for each with
  `do_insert`, which replaces an entry or adjusts its permissions; `RecursiveCopy` for `C`
  puts in every inode of a tree at once, as each goes to a path of its own.
* **FileBackends**: one backend or the other; they share nothing.

## 3. What is checked

Passing runs:

| run | instance | properties |
|---|---|---|
| `fs_entries` | all subsets of 16 instructions on three nested paths, with every operation, duplicates of different operands, removals followed by creations | the map has the entry, the memory of removal and the metadata that a declarative reading of the set gives it; the fold used by Reconcile agrees with the machine |
| `apply_files` | 96 plans on four paths, four disks, four splits, four kinds of confirmation, failure at any operation | `InOrder`, `OnlyAsApproved`, `UntouchedElsewhere`, `RemovalBlockedByOthers`, `SuccessMeansAchieved`; `Ends` |
| `reconcile` | 28 scripts, five package databases, seven disks, four settings (nothing, a file or the inside of a directory ignored; a directory, its contents, a file beside it or nothing early), one breakdown | `Conformity`, `NeverStuck`; `ImplementsDesired`, the refinement of DesiredState; `Converges` |
| `packages` | two native packages, one requiring the other, and a flatpak application; all sets of installed packages with reasons, 35 scripts, both native managers, all confirmations, one breakdown | `NothingLostEarly`, `SuccessMeansWanted`, `BlockedOnlyWhere`, `FilesFollowUnlessChanged`; `Converges` |
| `script_plugins` | 4680 programs of the line editor (each selector, inverted or not, and each action, before or after a second instruction, with one of three programs to call) on two texts; all sequences of four calls on users and groups with eight sysusers.d files, two mappings, two hosts; 28 configurations on 48 systems, saved up to three times, with and without a filter and a dry run | `AgreesWithReference`, `LinesKept`, `EditingEnds`; `WrittenIdsUnique`, `DeclaredHaveGroups`, `MembersAreKept`, `AlignedKeepTheirIds`, `SysusersOnlyAdd`; `MergedIsUpToDate`, `MergedIsKept` |
| `expected_files` | six states of Debian's database with one change between any two, two versions of a package with a hard link and a conffile, a diverting one, a foreign one whose archive is broken; all triples of 18 tmpfiles.d lines, and 8 wrong ones beside each | `ParsedAsWritten`, `MergeAgrees`, `ExpectedIsInstalled`, `OriginalsAreInstalled`, `LastLineWins` |

`Conformity` is the promise of the documentation: every path that is not ignored ends
as the script says, or else as the packages say. It does not hold of every
configuration. `Tractable` in Reconcile names, case by case, the plans that fail it, so
that the property says that there are no others: what `diff` cannot restore; something of
another type in place of what is written or restored; a script's file or directory over a
packaged one of another mode or owner, or its link over a packaged link of another owner; metadata that are lost in re-creation, or never set (those a
script is silent about, or that become root's); set-ID bits that `chown` clears; metadata
of what is removed, of a link, or of what differs in more than metadata; a directory to be
removed with something in it that stays (ignored, wanted, a socket, or of the late batch);
and a path made early beneath something that is only removed late. `Sensible` excludes scripts that contradict themselves. In the same way the
exceptions of `SuccessMeansWanted`, `BlockedOnlyWhere` and `FilesFollowUnlessChanged`
are the whole extent of what stale package maps, flatpak and the early race spoil: what the
early packages took away stays away, also what the script removes early and adds in its
main phase, and what came with them as a dependency is not marked by pacman.

`SuccessMeansAchieved` asks of each operation of a plan that its effect still holds in the
end (`Achieved`). A removal may be undone by an operation below its path, or by one that is
written through a link to it (`LinkedFrom`), and a file by links (`Plain`). Plans have one
operation of a kind, and one that creates, per path (`OnePerPath`), as those of `diff` have.

`MergedIsUpToDate` and `MergedIsKept` speak of a configuration into which everything that
was written is merged. Named exceptions in Save are where that is not enough (`HardCase`,
`RootLeftOut`, `ModeOfLink`, `ModeOfOther`):
`TakenForRemoved` (a packaged path of which only metadata differ, and the script has an
entry of its own: save writes `rm`), `SocketThere` (a socket in place of something packaged:
no instruction makes one, save writes `rm`), `OnTheWay` (a directory that the script has only
for what it makes in it: lines for its metadata make it another type for diff) and
`NothingLeftIn` (the same, where all there was in it is removed by a line); `RootLeftOut`
(owner or group changed *to* root on a packaged path: `into_instruction`,
`state.rs:138-158`, leaves root out as if the path were new); `ModeOfLink` (a link in place
of a packaged file: the second save asks for the mode of the link) and `ModeOfOther` (a
directory of mode 0644 in place of a file, or a file of 0755 in place of a directory: no line
for the mode is written, as diff sees none, and what is made anew has its own default).
Fifos and devices are excluded, as the `mkfifo` and `mknod` that save
writes are no functions of the script engine (`UnknownCall`); so are contents withheld by
a filter, a dry run or as sensitive, which only the user can supply.

`ExpectedIsInstalled` assumes that diversions are what they were when the caches were
filled (`rediverted`), since what is cached are diverted paths, and that no archive was
unreadable, since the files of such a package are dropped (`fs_scan.rs:147-151`). What a
package without an archive has in common with others (`SharedWithOthers`) may be missing:
the database names one package per path, and that may be one whose entries are not taken.

Runs that end in a counterexample, each for a statement of the repository that the
code does not keep (the details are under "findings" in `PROJECT.json`):

| run | statement | what happens |
|---|---|---|
| `contents_removed_first` | `apply.rs:578`: contents are removed before their directory | not across the early and late batches |
| `permissions_all_set` | `command.rs:358`: "Set all permissions at once" | the mode comes before the owner, which clears set-ID bits |
| `removed_is_recreated` | `state.rs:459`: "Removed (and later recreated)" | for a node that only changes metadata nothing is recreated |
| `created_has_mode` | `state.rs:424`: instructions "to go from state before to state after" | metadata equal to the removed file's are not set on the new one |
| `others_unchanged` | `files.md:29`: every other file is unchanged compared to the package manager | the files of packages installed early are removed, if the scan listed before and walked after |
| `conffiles_are_config` | `paketkoll/cli.rs:128`: "Exclude config files in check" | the mark of a Debian conffile is lost where the file is listed too, as all are |

**Bounds.** A hierarchy of depth two and a path beside it are enough for parents,
contents of removed directories and links to another path, which is all that the
operations relate; every rule is about one path, its ancestors and the target of a link.
One breakdown can come at any point and leave any intermediate state; a second would
start from a disk that is among the first ones' results. Two packages are the least
that have a dependency, and each of them has a file; the package managers meet only
in the order in which they are called. `MaxBreakdowns` bounds the failures, for liveness
too: a run that breaks down for ever does not converge.
`MaxCalls` = 4 lets a user be added, given by a sysusers.d file, aligned and changed in
every order; each property of Passwd relates at most three calls and `apply`. `MaxSaves`
= 3: one to write the lines, one to see what is left of them, and one after a merge of
only a part. `MaxChanges` = 1 lets every state of the database follow every other one; the
caches hold entries of before. Three tmpfiles.d lines are one that makes a path and two
that change it, or one between them. A program of two instructions that calls another
is enough for an instruction to meet each other kind before, after and around it.

**Fairness.** ApplyFiles: the program goes on while it can, and the user answers: weak
fairness of its steps; no answer and no failure is assumed. Reconcile and Packages: the
same, and that apply is run again, which is the user's part in `Converges`. Packages has
weak fairness of the main thread and of the scanner each: they are threads of a
runtime, and the main one only waits for the scan. EditingEnds needs weak fairness of the
interpreter's steps (`Patch`), a loop of the program; nothing is assumed of the rest of a
script. apply_files, script_plugins and expected_files are checked with deadlock off: an
apply and a script end, and so does the reading of tmpfiles.d.

## 4. What is proved

For all values of the constants that meet the named assumptions (any tree of paths, any
plan, stream, disk, split, set of packages, script, database and sequence of answers and
failures):

* **FsMapsProofs**: `BuildMapFollows`. `BuildMap` folds a set of instructions in their order;
  for every finite set the recursion has exactly one solution, and it follows the set as
  FsReading reads it. By induction over finite sets, which takes the smallest
  counterexample (`SmallestSet`): the library's theorem takes the property as an operator,
  which no backend can instantiate. Each step of the fold applies an instruction that comes
  after all of a set, which therefore creates nothing beneath its path and says nothing of
  a later kind (`Sorted`). It rests on the assumptions of FsTypes: ancestors form a partial
  order, the ranks are injective and number paths so that parents come first. Beside it, what
  a scan or a diff has of one path: the operands of its instructions, their number, and how
  the map built of a scan reads.
* **FsEntriesProofs**: `FoldIsMachine` (`FoldAgrees`): what Reconcile and Save take for
  `apply_instructions`, a recursive function over a set, is what the machine arrives at. The
  invariant (`FoldInv`) is that the map is the fold of what was consumed, and that applying
  the last instruction once more changes nothing. With `BuildMapFollows` it gives
  `TypeCorrect`, `EntriesFollow`, `RemovalsFollow` and `MetadataFollowsAll`. For all this
  `BuildMap` has one argument, and applies an instruction through `After`, so that the
  recursion is one the provers can unfold.
* **ApplyFilesProofs**: `TypeCorrect`, `OrderKept` (`InOrder`) and `ApprovalRespected`
  (`OnlyAsApproved`). Neither of the latter is inductive. What is missing is where the
  batches stand (`BatchInv`: what was handled is neither in this batch nor in the next)
  and which chunk an answer is for (`ApprovalInv`: a consent covers a chunk that was
  shown). The proof brings every action to one of two forms, an instruction is started
  or some are passed over, and has a lemma for each form and conjunct.
  `LeavesTheRest` (`UntouchedElsewhere`), on top of the above.
  The property speaks of links of the disk at the start and of the plan, the steps follow
  those of the disk as it is: the invariant adds that every link on the disk is one of the
  former (`LinkKnown`), since links are made by the plan or by a package only. Each
  operation is a few changes of one node, and `MayPut` says of one such change what keeps
  the disk explained; that `mkdir -p` changes ancestors only needs its own argument.
  `InodeAssumption`: no node is not a node.
  `StuckOnOthersOnly` (`RemovalBlockedByOthers`): as long as a batch only removes, what it
  removed is gone and nothing of it was lost from sight (`RemovalInv`), so that what stands
  in the way of a directory was not to be removed, was skipped or failed itself.
  `SuccessAchieves` (`SuccessMeansAchieved`): `PerformEffect` says what an instruction
  achieves and all that it may change, `LaterKeeps` that nothing that may come later undoes
  that, which needs the order of the batches and `OnePerPath`; `PlansOfDiff` proves the
  latter of everything `ApplyDiff` makes, so that it is no restriction. The proof showed what
  runs had not: a removed path may come back through a link, and two instructions of a kind
  for one path would undo each other.
* **PackagesProofs**: `TypeCorrect`, `EarlySafe` (`NothingLostEarly`) and
  `BlockedExplained` (`BlockedOnlyWhere`). The latter two need that the script's actions
  are those of its first phase while early packages are applied (`EarlyActions`), which
  package manager a step can be of (`StepInv`), why flatpak is called (`FlatpakInv`), and
  that a native package that was loaded and is gone, with its manager still to be called,
  was taken away early (`AbsentInv`): within one call only the last step removes. Every
  call to a package manager is a transaction with one of three outcomes, and `CallKeeps`
  proves the invariant for all of them at once. What is assumed is `PackagesAssumption`;
  nothing is assumed of `Requires` beyond being closed.
  `FilesFollow` (`FilesFollowUnlessChanged`). For a package that the
  early transactions leave alone (`changed_early`), whatever the scanner has seen of it is
  still true when the main thread waits for the scan (`Noted`, `AsLoaded`), whichever of
  the two was faster; a late transaction keeps that or puts the file right. And
  `GoalReached` (`SuccessMeansWanted`), which speaks of the end of a run only: `GoalInv`
  follows it there. Up to the late phase every explicit package was loaded as such or is in
  the actions (`Asked`), and what is there without having been loaded came early
  (`Arrived`); in the late phase each of the four calls of `apply_pkgs` settles some of the
  packages of its manager (`Settling`), and what is explicit keeps all it requires
  (`Complete`) through every call of either manager.
* **FileBackendsProofs**: `FilesAgree` (`MergeAgrees`), in every run of FileBackends. While the
  workers merge, the invariant says of each path what its entry is made of and which
  entries for it are still in the lists (`PathInv`): an entry without a checksum means that
  none with one was taken yet. That the conffiles are all left as long as a worker is busy
  makes the order of the two matter. `DatabaseAssumption`: what is declared are paths there
  are, and packages are asked for. That the parsers yield lists of entries, those of
  conffiles with a checksum, is proved (`DeclaredAre`). `EverythingAssumption`: the filter
  for all packages holds packages only.
  `ScansAsInstalled` (`ExpectedIsInstalled`) and `OriginalsAsInstalled`
  (`OriginalsAreInstalled`) are about several runs with upgrades between them. Their
  invariant (`RunInv`) is that under a key the caches have what the archive of that key has
  (`CacheInv`), and that at each stage of a scan the results at hand are of the installed
  versions (`ResultsInv`, `StageInv`); the entries that come from the database are those of
  `MergeAgrees`, whose proof is used. That every id of the package map leads to a package
  with that id is proved (`InstalledAre`). `EverythingAssumption` adds that packages with a
  status are packages there are, `DebAssumption` that an archive has a path once and that
  what can be downloaded is among the archives there are.
  `FilesReadAsWritten` (`ParsedAsWritten`) is about `parse_status`, `parse_extended_status`
  and `packages`, for any files of any length. Both parsers are recursive functions over
  the lines; `Recursion` says that such a function is what its steps say, `Joined` that it
  goes on over more lines from where it was. A stanza is read by an induction over its lines
  (`ReadTo`: each field is the last line so far that has it, dependencies are those of all
  lines in their order, and a Conffiles section is open as long as its lines go on), the
  file by one over the stanzas (`Parsed`), where the one that is complete is only put away
  when the next begins (`StanzaStarts`) or the file ends. For apt's file the second
  induction keeps that what was found for a key is what the last stanza about it says
  (`ReasonNext`). `WrittenAssumption` is what the proof takes from the files: a stanza
  begins with its name, the only one in it, and apt gives an architecture, before the
  reason and each once.
  `LastLines` (`LastLineWins`) and `TypeCorrect` (`TypeOK`). After
  each line the files are what the lines so far say (`AsSaid`, of the first `k` lines); a
  line either says something of a path or not, and makes it or adjusts it (`Heeded`), which
  is all that the step needs (`StandsMade`, `StandsAdjusted`). That the ids in the cache are
  those of the host makes the lines independent of each other otherwise (`HostCached`).
  `TmpfilesAssumption`: specifiers resolve to paths, names of users are in the table of
  the host or known not to be, and a copied tree puts one inode at a path.
* **ScriptPluginsProofs**, users and groups: `PasswdInvariant` and, from it, `UsersTyped`, `MembersKept`
  (`MembersAreKept`), `AlignedKept` (`AlignedKeepTheirIds`), `GroupsWritten`
  (`DeclaredHaveGroups`) and `IdsUnique` (`WrittenIdsUnique`); and `FilesOnlyAdd`
  (`SysusersOnlyAdd`), an action property. `PInv` says of the histories what they stand for
  in the users and groups of the moment, and of what is written that it was sane. A
  sysusers.d file is a fold over its lines, so that what one call does needs an induction
  over them. The library's induction theorems take the property as an operator, which no
  backend can instantiate; the induction is done with sets instead: the set of the
  prefixes for which something holds has the empty one and is closed under one more line,
  and a set of natural numbers that is not empty has a least element (`LeastNumber`).
* **ScriptPluginsProofs**, the line editor: `EditTyped` and `NoLineLost` (`LinesKept`), which speaks of the end. Until
  then the lines of the text up to the current one were printed in order, or all before it
  were and the current one is in the pattern space (`KeptInv`); programs that only move
  printed exactly those lines, with empty lines after the last one only (`CopyInv`).
  `Subsequence` is the existence of an increasing embedding, which the proof extends line
  by line. `LineEditAssumption`: texts and programs are finite, and an instruction calls a
  program that there is and that comes after its own.
  `DoesAsDocumented` (`AgreesWithReference`): the reference is a fold over the text with a
  fold over the program in it, written as recursive functions. `Recursion` says what such a
  function is at each number (by the same induction on sets), `LinesSteps`,
  `PrintedSteps` and `SpaceSteps` what one more line or instruction adds. Before
  instruction `k` of line `n` the output is what the reference has for the lines before `n`
  and the instructions before `k` (`RefInv`); that no instruction before `k` has ended the
  line is what makes the next one's turn the reference's too.
* **SaveProofs**: `SaveTyped` (`SaveTypeOK`) and, with the types of the editor and of the users and
  groups, `ScriptTyped` (`TypeOK`); `MergedUpToDate` (`MergedIsUpToDate`) and `MergedKept`
  (`MergedIsKept`). The script is an unbounded list that the user edits
  between two runs, so the invariant (`SaveInv`) says of every call in it that it is one there is
  (`Makes`). To keep that, the proof needs what one call does, whichever it is
  (`CallOutcome`: it fails, and then it was one that could, or it returns with one stated
  effect on settings, ignored paths, packages and queue); what `save_fs_changes` is given
  (`SavedTyped`, finitely many instructions with proper operands); that each instruction is
  written as a call that exists and queues it, or as one that does not exist
  (`LineMakes`); and which calls the merged script has (`MergedMembers`). `Listed` is
  recursive over sets and `FlattenSeq` over sequences: what they have as members is shown by
  induction on sets again (`ListedIs`, `MembersOfAll`).
  What was merged takes two arguments. One has no steps (`MergedMaps`): of what a configuration
  queued and the lines save wrote of it, the map folded of the lines and what they do not
  contradict differs from the scan in the named cases only. A field is said by its line, or
  else was right before (`FieldMerged`), unless what it hung on was removed by a line; an entry
  takes the last of its creations and removals (`MergedEntry`), and the scan's map has the
  defaults that `NodeFor` and `into_instruction` leave out (`ScanDefaults`).
  The other argument is the history of a run, which no variable keeps, so the invariant
  says it of the calls made so far (`RunRead`): settings, ignored paths and the packages to
  install are what those calls amount to, each in its own way (the last file backend, all
  package managers, the last word on a package). When the lines are merged, that is what the new
  script amounts to as well (`MergeRight`): its calls return, its backends can be created, whatever was ignored is ignored
  again, each installed package is added and not removed after that (`MergedWins`), and what
  it queues is what `MergedMaps` is about (`MergedFiles`). From then on no call fails
  (`MergedCall`) and nothing between them (`MergedElsewhere`). What save copies to `files/`
  is what the lines for it find there because it writes one line per file (`OneFile`).
  The assumption adds that `None` is neither `Install` nor `Uninstall`, nor a file backend.

* **ReconcileProofs**: runs after runs. `ReconcileTyped` (`TypeOK`), `DiskIsTree`,
  `NeverGetsStuck` (`NeverStuck`), `RunsConform` (`Conformity`), `IgnoredIsUntouched` and
  `KeepsItsPromise` (`ImplementsDesired`), the refinement of DesiredState.
  The first invariant (`ReconcileInv`) says of a run that
  goes on that its plan is what `diff` makes of the scan of the disk it began with, and that
  it has the invariants of an invocation that ApplyFilesProofs proves. For that, the scan's
  instructions have the operands of their operations and are finitely many, so that the map
  built of them says what `BuildMapFollows` has of each path; and the plan is `OnePerPath`.
  Every operation, finished or not, leaves a tree, where only directories have anything
  beneath them.
  The second (`ConformInv`) is about plans outside the hard cases. What is left of a plan for
  a path *leads* from what is there to what is wanted (`Leads`: apart from metadata to be
  set, what is there is already right, or is removed if need be and made anew, and the
  metadata are right or still set afterwards). `PlanLeads` shows it of what scan and diff
  make of a path, by cases of what the packages and the script say and what was found;
  `DueSucceeds` that the instruction whose turn it is finds what it needs (`Suits`) and
  leads on: its own path one step (`LeadsOn`), the directories made above it
  (`LeadsBelow`), and no path elsewhere, since it follows no link. That a directory is empty
  when it is to be removed takes the other half of the invariant: whatever exists was there at
  the start or has been made for something the plan creates (`Explains`), and the order puts
  removals of contents first. When only comments are left, to lead is to be there
  (`LeadsThere`). So nothing gets stuck, which ends with success what is not cut short; and
  ignored paths, which no plan reaches, cannot be reached through a link either.
  The refinement puts this together: `ScanDisk` is an `Observe`, `PlanChanges` a `Decide`,
  each operation an `Act`, a `BreakDown` or a `GiveUp`, the last `EndBatch` the `Finish`.
  `ReconcileAssumption`: the settings, scripts and disks are of their types, scripts are
  finite and queue what the script engine can, the disks are trees. The proof of `PlanLeads`
  failed at first for a packaged link whose owner is not root and that the script makes too:
  no run had one, and `KeepsMetadata` lacked the case. It has it now, and so has the instance.

Only model-checked: liveness (`Ends`, `Converges`, `EditingEnds`), which is out of the
prover's reach, and with it whatever is said with ENABLED: that runs end and that the user's
next attempt comes is checked, that each of them does what DesiredState lets it is proved.

## 5. What is not modelled, and why

Strings, comments and formatting; checksums (contents are equal or not); user names in
the scan (taken as the identifiers they resolve to); races of the disk with other programs
than the package managers; programs at the other end of a fifo (to write to one fails in
Disk, as it does once the user stops a program that waits there for ever) and devices that
take what is written; the parallelism of the walk in Scan (it only collects; where it
matters it is in Packages and DebFiles); the keys of the prompts; networks. Packages and
Reconcile take the file commands of a script as the instructions they queue, which is what
Commands says they do. A package's dependencies are closed under themselves and are not
alternatives. What a package has besides files, directories and links is `Special` to
check_file, without metadata (`Other` in Scan): only systemd-tmpfiles tells fifos and
devices apart, and it cannot be konfigkoll's file backend. Flatpak's runtimes are packages
like others. The scan's errors in the middle of a directory (permissions, races) are left to
`BreakDown`.

External to the repository, and modelled by how it is used: the system calls in Disk; what
pacman, apt, flatpak and dpkg do; the user who merges lines, cleans archives and upgrades.

Whole parts that are left out:

* *Arch's database and mtree2*: each file is parsed by itself, line by line, without
  shared state; of mtree only the `/set` defaults carry over a line.
* *Fields of tmpfiles.d lines and specifiers*: tables (`Resolved`, `Decoded`) in Tmpfiles.
* *The script language*: control flow in Rune is a sequence of calls here, and a script
  that catches errors is not considered.
* *Thin wrappers for scripts* (processes, regular expressions, paths, properties, the
  hardware queries), *name resolution* (a cache of constants), *paketkoll's printing*,
  *flatpak's listing*, *build tasks*.

Seen in the code, modelled as they are, and nobody's stated promise: the length of what
base64 decoding leaves in place is ignored, so that a tail of the text stays; a tmpfiles.d
line without a mode means 0644 for directories too, and one without a user means 0; `C`
ignores mode and owner of its line; `w` replaces the entry of its path and loses the mode;
the name of a credential is taken as the contents; `rm` alone among the file commands does
not verify its path; `remove_pkg` asks for the file backend where `add_pkg` asks for the
package managers; a user without a group of its name gets group 0; the database names one
package per path, so that a path that a package without an archive shares with one that is
removed but not purged may not be expected (`fs_scan.rs:120-130`); `chown` and `chmod`
follow links; a packaged directory of other metadata than the package's, in which a script
creates something, is planned to be removed, and each run fails on what is in it, as it does
on a directory to be removed in which something is ignored, a socket or left to the late
batch; a file of `early_configs` beneath something that is to be replaced by a directory in the
late batch fails each run; a script cannot give a user's packaged file to root, nor say
nothing about metadata that differ; a missing packaged directory of mode 0644 comes back
with 0755.

## 6. The plan

Done: everything in section 2, its runs, and the proofs of section 4. To come, in this
order:

1. The part of DesiredState that Packages implements: its runs observe, decide and act too,
   but what they observed may be stale when they act.
2. Arch's database and mtree2, once there is something about them that a test would hardly
   reach.
