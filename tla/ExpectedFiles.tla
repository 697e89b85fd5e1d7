--------------------------- MODULE ExpectedFiles ---------------------------
(***************************************************************************)
(* What konfigkoll takes a Debian system's packages to have installed      *)
(* (file_vec_from_archive in konfigkoll/src/fs_scan.rs, with the caches    *)
(* main.rs puts around the backend), and what paketkoll takes it to be     *)
(* (Files::files).                                                         *)
(*                                                                         *)
(* Runs follow each other, and the system changes between them: packages   *)
(* are upgraded, diversions added and removed, archives cleaned.  A run    *)
(* can be interrupted; what it put into the caches stays.  Nothing else is *)
(* taken to use dpkg during a run.                                         *)
(*                                                                         *)
(* Of several packages that install a path any may be the one whose entry  *)
(* is kept; which id of a package an entry is attributed to is left open.  *)
(***************************************************************************)
EXTENDS PackageCaches

CONSTANTS
    Canonical,      \* canonicalize_file_entries: path -> path with its parent resolved
    QuerySets,      \* what original files can be asked for at once
    MaxChanges      \* bound on the changes to the system

VARIABLES
    program,        \* "konfigkoll" or "paketkoll", which uses no cache
    stage,          \* "idle", "fetch", "store", "assemble", "database", "scanned",
                    \* "check", "failed" or "panicked"
    results,        \* id -> what files_from_archives has for it
    uncached,       \* the ids whose results are not in the cache yet
    expected,       \* path -> properties: the outcome of a scan
    answers,        \* the outcome of a query of original files
    changes,
    rediverted      \* history: the diversions are not what they were at first

expectedVars == <<program, db, filesVars, debs, cacheVars, stage, results, uncached, expected,
                  answers, changes, rediverted>>

InstalledOf ==
    [d \in DOMAIN Databases |->
        InstalledMap(ReadPackages(FlattenSeq(Databases[d].stanzas),
                                  FlattenSeq(Databases[d].extended)))]

Installed == InstalledOf[db]

\* No filter: every package, by whichever id.
Everything == UNION {{Plain(d.name), Qualified(d.name, d.arch)} : d \in DOMAIN Debs}

\* What dpkg has a status or files of is a package that there is.
ASSUME EverythingAssumption ==
    /\ DOMAIN Databases # {}
    /\ None \notin Everything
    /\ MaxChanges \in Nat
    /\ Canonical \in [Path -> Path]
    /\ \A wanted \in Filters : wanted \subseteq Everything
    /\ \A queries \in QuerySets : \A q \in queries : q.path \in Path
    /\ \A d \in DOMAIN Databases :
          /\ \A e \in EntriesOf(d) : e.package \in Everything
          /\ \A r \in DOMAIN InstalledOf[d] : DebOf(InstalledOf[d][r]) \in DOMAIN Debs

NoResult == <<>>

ExpectedStart ==
    /\ FilesStart /\ CachesEmpty
    /\ debs = DOMAIN Debs
    /\ stage = "idle"
    /\ results = NoResult /\ uncached = {}
    /\ expected = NoEntries /\ answers = NoResult
    /\ changes = 0 /\ rediverted = FALSE

ExpectedInit ==
    /\ program \in {"konfigkoll", "paketkoll"}
    /\ db \in DOMAIN Databases
    /\ ExpectedStart

\* What a run has in memory goes with it.
Forget ==
    /\ files_stage' = "idle" /\ filter' = {} /\ lists' = <<>> /\ conffiles' = <<>>
    /\ merged' = NoEntries
    /\ results' = NoResult /\ uncached' = {}
    /\ expected' = NoEntries /\ answers' = NoResult

-----------------------------------------------------------------------------
(* Between runs *)

SystemChanges ==
    /\ stage = "idle" /\ changes < MaxChanges
    /\ db' \in DOMAIN Databases \ {db}
    /\ changes' = changes + 1
    /\ rediverted' = (rediverted \/ DiversionsOf[db'] # DiversionsOf[db])
    /\ UNCHANGED <<program, filesVars, debs, cacheVars, stage, results, uncached, expected, answers>>

CleanDebs ==
    /\ stage = "idle" /\ debs # {}
    /\ debs' = {}
    /\ UNCHANGED <<program, db, filesVars, cacheVars, stage, results, uncached, expected, answers,
                   changes, rediverted>>

TimePasses ==
    /\ stage = "idle"
    /\ Expire
    /\ UNCHANGED <<program, db, filesVars, debs, stage, results, uncached, expected, answers, changes,
                   rediverted>>

-----------------------------------------------------------------------------
(* A scan by konfigkoll *)

\* The filter is every id of every installed package.  What is in the cache is taken from
\* there; for the rest the backend is asked, and reads the diversions first.
StartScan ==
    /\ stage = "idle" /\ program = "konfigkoll"
    /\ IF Status.failed
       THEN stage' = "failed" /\ UNCHANGED <<results, uncached>>
       ELSE LET rest == DOMAIN Installed \ DOMAIN Hits(Installed)
            IN /\ results' = Hits(Installed)
               /\ uncached' = rest
               /\ stage' = CASE rest = {} -> "assemble"
                             [] rest # {} /\ Diversions.failed -> "failed"
                             [] OTHER -> "fetch"
    /\ UNCHANGED <<program, db, filesVars, debs, cacheVars, expected, answers, changes, rediverted>>

\* What the archives have, with the diversions there are.
ArchivedOf ==
    [d \in DOMAIN Databases |->
        [r \in DOMAIN InstalledOf[d] |->
            ArchiveToEntries(InstalledOf[d][r], DiversionsOf[d])]]

Archived == ArchivedOf[db]

\* What can be had for an id: an archive that comes too late for one may be there for
\* another id of the package.
Outcomes(r, before, after) ==
    LET deb == DebOf(Installed[r])
    IN CASE deb \in after /\ deb \in Broken -> {Error}
         [] deb \in before /\ deb \notin Broken -> {Ok(Archived[r])}
         [] deb \in after \ before /\ deb \notin Broken -> {Ok(Archived[r]), Missing}
         [] OTHER -> {Missing}

\* files_from_archives of the backend: missing archives are downloaded, as far as
\* possible, and all are read, in parallel.
FetchArchives ==
    /\ stage = "fetch"
    /\ LET wanted == {Installed[r] : r \in uncached}
           asked  == UNION {Downloadable(pkg.ids[1]) : pkg \in MissingDebs(wanted)}
       IN \E got \in SUBSET (asked \ debs) :
            /\ debs' = debs \cup got
            /\ IF \E pkg \in wanted : /\ DebOf(pkg) \in debs' \ Broken
                                      /\ Unpacked[DebOf(pkg)].panicked
               THEN stage' = "panicked" /\ UNCHANGED results
               ELSE /\ stage' = "store"
                    /\ \E f \in [uncached ->
                                    UNION {Outcomes(r, debs, debs') : r \in uncached}] :
                         /\ \A r \in uncached : f[r] \in Outcomes(r, debs, debs')
                         /\ results' = [r \in DOMAIN Installed |->
                                            IF r \in uncached THEN f[r] ELSE results[r]]
    /\ UNCHANGED <<program, db, filesVars, cacheVars, uncached, expected, answers, changes, rediverted>>

\* FromArchiveCache keeps the results one by one.
StoreResult ==
    /\ stage = "store"
    /\ \E r \in uncached :
         /\ Remember(FormatPackage(Installed[r]), results[r])
         /\ uncached' = uncached \ {r}
    /\ stage' = IF uncached' = {} THEN "assemble" ELSE "store"
    /\ UNCHANGED <<program, db, filesVars, debs, original_files, results, expected, answers,
                   changes, rediverted>>

\* The ids of the packages that have no archive.
MissingIds ==
    UNION {ToSet(Installed[r].ids) : r \in {x \in DOMAIN results : results[x].kind = "PackageMissing"}}

\* What the archives say, at canonical paths.
FromArchives ==
    {FileEntry(Canonical[e.path], e.props) : e \in UNION {results[r].entries : r \in DOMAIN results}}

\* And what the database says, of packages that have no archive.
Extra ==
    {FileEntry(Canonical[p], merged[p].props) :
        p \in {q \in Path : merged[q] # None /\ merged[q].package \in MissingIds}}

\* The last writer of a path wins: the database's entries are written after the others.
ExpectedFrom(extra, archived) ==
    LET written   == extra \cup {e \in archived : \A x \in extra : x.path # e.path}
        At(p)     == {e \in written : e.path = p}
        contested == {p \in Path : Cardinality(At(p)) > 1}
    IN { [p \in Path |-> CASE p \in contested -> f[p]
                           [] p \notin contested /\ At(p) # {} -> (CHOOSE e \in At(p) : TRUE).props
                           [] OTHER -> None] :
         f \in {g \in [contested -> {e.props : e \in written}] :
                    \A p \in contested : FileEntry(p, g[p]) \in written} }

\* Errors of another kind than a missing archive are left among the results unless there
\* is a missing one too, and are not expected there.
Assemble ==
    /\ stage = "assemble"
    /\ CASE MissingIds # {} ->
              /\ ReadDatabase(Everything)
              /\ stage' = IF files_stage' = "failed" THEN "failed" ELSE "database"
              /\ UNCHANGED expected
         [] MissingIds = {} /\ (\E r \in DOMAIN results : results[r] = Error) ->
              stage' = "panicked" /\ UNCHANGED <<filesVars, expected>>
         [] OTHER ->
              /\ stage' = "scanned"
              /\ expected' \in ExpectedFrom({}, FromArchives)
              /\ UNCHANGED filesVars
    /\ UNCHANGED <<program, db, debs, cacheVars, results, uncached, answers, changes, rediverted>>

\* The database is read like paketkoll reads it.
ReadFiles ==
    /\ stage \in {"database", "check"}
    /\ FilesNext
    /\ UNCHANGED <<program, db, debs, cacheVars, stage, results, uncached, expected, answers, changes,
                   rediverted>>

AssembleWithDatabase ==
    /\ stage = "database" /\ files_stage = "done"
    /\ stage' = "scanned"
    /\ expected' \in ExpectedFrom(Extra, FromArchives)
    /\ UNCHANGED <<program, db, filesVars, debs, cacheVars, results, uncached, answers, changes, rediverted>>

\* The contents of packaged files are asked for, to restore or compare them; apt may
\* fetch archives for that.
QueryOriginals ==
    /\ stage = "scanned" /\ answers = NoResult
    /\ \E queries \in QuerySets :
         LET asked == UNION {Downloadable(q.package) : q \in queries}
         IN \E got \in SUBSET (asked \ debs) :
              /\ debs' = debs \cup got
              /\ LET found == AnswerOriginals(queries, Installed, debs')
                 IN IF found = None
                    THEN stage' = "failed" /\ UNCHANGED <<answers, original_files>>
                    ELSE /\ answers' = found
                         /\ RememberOriginals(found, Installed)
                         /\ UNCHANGED stage
    /\ UNCHANGED <<program, db, filesVars, from_archives, results, uncached, expected, changes, rediverted>>

-----------------------------------------------------------------------------
(* A check by paketkoll *)

StartCheck ==
    /\ stage = "idle" /\ program = "paketkoll"
    /\ \E wanted \in Filters : ReadDatabase(wanted)
    /\ stage' = IF files_stage' = "failed" THEN "failed" ELSE "check"
    /\ UNCHANGED <<program, db, debs, cacheVars, results, uncached, expected, answers, changes, rediverted>>

-----------------------------------------------------------------------------

\* A run ends by itself, or is stopped.
EndRun ==
    /\ stage # "idle"
    /\ stage' = "idle"
    /\ Forget
    /\ UNCHANGED <<program, db, debs, cacheVars, changes, rediverted>>

ExpectedNext ==
    \/ SystemChanges \/ CleanDebs \/ TimePasses
    \/ StartScan \/ FetchArchives \/ StoreResult \/ Assemble \/ ReadFiles
    \/ AssembleWithDatabase \/ QueryOriginals
    \/ StartCheck
    \/ EndRun

-----------------------------------------------------------------------------
(* Properties *)

ExpectedTypeOK ==
    /\ db \in DOMAIN Databases
    /\ files_stage \in {"idle", "lists", "done", "failed"}
    /\ filter \subseteq Everything
    /\ \A p \in Path : merged[p] # None => merged[p].path = p /\ merged[p].package \in Everything
    /\ debs \subseteq DOMAIN Debs
    /\ \A k \in CacheKeys : from_archives[k] # None => from_archives[k].kind # "Error"
    /\ uncached \subseteq Everything
    /\ changes \in 0..MaxChanges

\* What dpkg's and apt's status files say is what is read out of them.
ReadAsWritten ==
    [d \in DOMAIN Databases |->
        /\ StatusAsWritten(Databases[d].stanzas)
        /\ ReasonsAsWritten(Databases[d].stanzas, Databases[d].extended)]

ParsedAsWritten == ReadAsWritten[db]

InstalledPackages == {Installed[r] : r \in DOMAIN Installed}

HasArchive(pkg) == \E r \in DOMAIN results : Installed[r] = pkg /\ results[r].kind = "Ok"

NoArchive(pkg) == \E r \in DOMAIN results : Installed[r] = pkg /\ results[r].kind = "PackageMissing"

\* What the archives of the installed packages have.
Packed ==
    {FileEntry(Canonical[e.path], e.props) :
        e \in UNION {Archived[r] : r \in {x \in DOMAIN Installed : HasArchive(Installed[x])}}}

\* What the database has of installed packages without an archive.
Listed ==
    {e \in ClaimsOf[db] \cup ConfClaimsOf[db] :
        \E pkg \in InstalledPackages : NoArchive(pkg) /\ e.package \in ToSet(pkg.ids)}

\* Somebody else claims the path of e, whose entry may be the one that is kept: a package
\* with an archive, or one that is removed but for its configuration files.
SharedWithOthers(e) ==
    \E o \in (ClaimsOf[db] \cup ConfClaimsOf[db]) \ Listed : o.path = e.path

\* Every package is accounted for by the version that is installed, whatever the caches
\* remember of earlier ones and of archives that were missing: a path is expected when a
\* package has it, by its archive or else by the database, and as that says.  Only what
\* a package without an archive shares with others may be left out.
\* (Assumed: diversions are as they were when the caches were filled, and no archive was
\* unreadable.)
ExpectedIsInstalled ==
    stage = "scanned" /\ ~rediverted /\ (\A r \in DOMAIN results : results[r] # Error) =>
        /\ \A pkg \in InstalledPackages : HasArchive(pkg) \/ NoArchive(pkg)
        /\ \A p \in Path :
             LET listed == {e \in Listed : Canonical[e.path] = p}
             IN /\ expected[p] = None =>
                      (\A e \in Packed : e.path # p) /\ (\A e \in listed : SharedWithOthers(e))
                /\ expected[p] # None =>
                      \/ FileEntry(p, expected[p]) \in Packed
                      \/ \E e \in listed :
                            expected[p] \in {e.props} \cup Checksums(Claims(e.path) \cup ConfClaims(e.path))

\* The original contents of a file are those in the installed version of its package, also
\* when they come from the cache; a hard link is read as empty.
OriginalsAreInstalled ==
    \A q \in DOMAIN answers :
        q.package \in DOMAIN Installed =>
            \E i \in DOMAIN Debs[DebOf(Installed[q.package])] :
                LET e == Debs[DebOf(Installed[q.package])][i]
                IN /\ PathOf[e.name] = q.path
                   /\ answers[q] = IF e.type = "RegularFile" THEN e.data ELSE EMPTY

=============================================================================
