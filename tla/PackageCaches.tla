--------------------------- MODULE PackageCaches ---------------------------
(***************************************************************************)
(* The two caches konfigkoll puts around the Debian backend                *)
(* (paketkoll_cache): FromArchiveCache keeps the entries read from the     *)
(* archive of a package, or that it has none, and OriginalFilesCache keeps *)
(* original contents.  Both are on disk and outlive the program; what is   *)
(* not used for two weeks, or a month, is dropped.                         *)
(*                                                                         *)
(* The key is the package as installed (format_package): its name,         *)
(* architecture and version.  Backend and cache version are constants.     *)
(***************************************************************************)
EXTENDS DebArchives

VARIABLES
    from_archives,      \* key -> entries, Missing or None
    original_files      \* [key, path] -> contents or None

cacheVars == <<from_archives, original_files>>

\* A mutant: the version is left out of the key.
FormatPackageName(pkg) ==
    CHOOSE d \in DOMAIN Debs : d.name = pkg.name /\ d.arch = pkg.arch

\* format_package; the ids follow from name and architecture.
FormatPackage(pkg) == DebOf(pkg)

CacheKeys == DOMAIN Debs

CachesEmpty ==
    /\ from_archives = [k \in CacheKeys |-> None]
    /\ original_files = [k \in CacheKeys |-> [p \in Path |-> None]]

\* What files_from_archives answers for a package.
Ok(entries) == [kind |-> "Ok", entries |-> entries]
Missing     == [kind |-> "PackageMissing", entries |-> {}]
Error       == [kind |-> "Error", entries |-> {}]

\* A hit; the absence of an archive is remembered like its contents.  A hit renews the
\* entry's lifetime.
Hits(map) ==
    [ref \in {r \in DOMAIN map : from_archives[FormatPackage(map[r])] # None} |->
        from_archives[FormatPackage(map[ref])]]

\* A mutant: errors are remembered as well.
RememberAll(key, result) == from_archives' = [from_archives EXCEPT ![key] = result]

\* cache_set, for results that are kept.
Remember(key, result) ==
    from_archives' = [from_archives EXCEPT ![key] = IF result.kind = "Error" THEN @ ELSE result]

\* An entry that was not used for long enough is gone.
Expire ==
    \/ /\ \E k \in CacheKeys :
             /\ from_archives[k] # None
             /\ from_archives' = [from_archives EXCEPT ![k] = None]
       /\ UNCHANGED original_files
    \/ /\ \E k \in CacheKeys : \E p \in Path :
             /\ original_files[k][p] # None
             /\ original_files' = [original_files EXCEPT ![k][p] = None]
       /\ UNCHANGED from_archives

-----------------------------------------------------------------------------
(* OriginalFilesCache::original_files *)

CachedOriginal(q, map) ==
    IF q.package \in DOMAIN map THEN original_files[FormatPackage(map[q.package])][q.path]
    ELSE None

\* The answers: those that are cached and, unless the backend fails, the others.
AnswerOriginals(queries, map, there) ==
    LET uncached == {q \in queries : CachedOriginal(q, map) = None}
        fetched  == OriginalsFrom(uncached, map, there)
    IN IF fetched = None THEN None
       ELSE [q \in queries |-> IF q \in uncached THEN fetched[q] ELSE CachedOriginal(q, map)]

\* What is not of an installed package has no key and is not kept.
RememberOriginals(answers, map) ==
    original_files' =
        [k \in CacheKeys |-> [p \in Path |->
            LET of == {q \in DOMAIN answers : /\ q.package \in DOMAIN map
                                              /\ FormatPackage(map[q.package]) = k
                                              /\ q.path = p}
            IN IF of = {} THEN original_files[k][p] ELSE answers[CHOOSE q \in of : TRUE]]]

=============================================================================
