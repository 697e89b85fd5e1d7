------------------------------ MODULE DebFiles ------------------------------
(***************************************************************************)
(* Files::files of the Debian backend (backend/deb.rs): what the dpkg      *)
(* database says of every path.  The .list and .md5sums files of all the   *)
(* packages are merged into one map by parallel workers, an entry at a     *)
(* time; what the status file says of configuration files is merged last.  *)
(*                                                                         *)
(* A path may be claimed by several packages (directories, and what        *)
(* packages of several architectures share), and whoever comes first       *)
(* leaves its name there.                                                  *)
(***************************************************************************)
EXTENDS DpkgStatus

CONSTANTS
    PathOf,         \* names in .list, .md5sums and archives, as absolute paths
    Databases,      \* the states of the dpkg database: their stanzas, extended, info,
                    \* diversions and repo, by a name for each
    Filters         \* the packages a user may ask for: sets of PackageRefs

VARIABLES
    db,             \* the dpkg database, as it is now
    files_stage,    \* "idle", "lists", "done" or "failed"
    filter,
    lists,          \* what is left of each file the workers have
    conffiles,      \* what is left of the configuration files
    merged          \* path -> entry

filesVars == <<files_stage, filter, lists, conffiles, merged>>

NoEntries == [p \in Path |-> None]

StatusOf == [d \in DOMAIN Databases |-> ParseStatus(FlattenSeq(Databases[d].stanzas))]

Status == StatusOf[db]

DiversionsOf == [d \in DOMAIN Databases |-> ParseDiversions(Databases[d].diversions)]

Diversions == DiversionsOf[db]

-----------------------------------------------------------------------------
(* get_package_files: process_file, parse_paths, parse_md5sums *)

\* The file stem is the package; other files of the directory are passed over.
InfoEntries(file) ==
    CASE file.extension = "list" ->
            [i \in DOMAIN file.lines |->
                DbEntry(file.package, PathOf[file.lines[i]], <<"Unknown">>, FALSE)]
      [] file.extension = "md5sums" ->
            [i \in DOMAIN file.lines |->
                DbEntry(file.package, PathOf[file.lines[i].name],
                        <<"RegularFileBasic", file.lines[i].sum>>, FALSE)]
      [] OTHER -> <<>>

\* Everybody but the packages that are `own` finds the path diverted.
AfterDiversion(entry, diversions, own) ==
    IF entry.path \in DOMAIN diversions /\ diversions[entry.path].by \notin own
    THEN [entry EXCEPT !.path = diversions[entry.path].to]
    ELSE entry

\* merge_deb_fileentries: the first entry of a path stays, and takes the checksum of
\* later ones.
Merge(acc, entry) ==
    CASE acc[entry.path] = None -> [acc EXCEPT ![entry.path] = entry]
      [] acc[entry.path] # None /\ entry.props[1] = "RegularFileBasic" ->
            [acc EXCEPT ![entry.path].props = entry.props]
      [] OTHER -> acc

Divert(entry) == AfterDiversion(entry, Diversions.map, {entry.package})

\* What the workers have to do.
ListsOf ==
    [d \in DOMAIN Databases |->
        [i \in DOMAIN Databases[d].info |-> InfoEntries(Databases[d].info[i])]]

-----------------------------------------------------------------------------
(* files() *)

FilesStart ==
    /\ files_stage = "idle" /\ filter = {}
    /\ lists = <<>> /\ conffiles = <<>> /\ merged = NoEntries

\* Everything is read before anything is merged; what cannot be parsed fails the call.
ReadDatabase(wanted) ==
    /\ filter' = wanted
    /\ merged' = NoEntries
    /\ IF Status.failed \/ Diversions.failed
       THEN files_stage' = "failed" /\ lists' = <<>> /\ conffiles' = <<>>
       ELSE /\ files_stage' = "lists"
            /\ lists' = ListsOf[db]
            /\ conffiles' = Status.conffiles

\* A worker merges the next entry of the file it has.
MergeEntry ==
    /\ files_stage = "lists"
    /\ \E i \in DOMAIN lists :
         /\ lists[i] # <<>>
         /\ merged' = Merge(merged, Divert(Head(lists[i])))
         /\ lists' = [lists EXCEPT ![i] = Tail(@)]
    /\ UNCHANGED <<files_stage, filter, conffiles>>

MergedLists == \A i \in DOMAIN lists : lists[i] = <<>>

\* A mutant: the configuration files are merged while the workers are at it.
MergeConffileEarly ==
    /\ files_stage = "lists"
    /\ conffiles # <<>>
    /\ merged' = Merge(merged, Divert(Head(conffiles)))
    /\ conffiles' = Tail(conffiles)
    /\ UNCHANGED <<files_stage, filter, lists>>

MergeConffile ==
    /\ files_stage = "lists" /\ MergedLists
    /\ conffiles # <<>>
    /\ merged' = Merge(merged, Divert(Head(conffiles)))
    /\ conffiles' = Tail(conffiles)
    /\ UNCHANGED <<files_stage, filter, lists>>

\* The filter comes last, and asks for the package whose name stayed.
FilterFiles ==
    /\ files_stage = "lists" /\ MergedLists /\ conffiles = <<>>
    /\ merged' = [p \in Path |-> IF merged[p] # None /\ merged[p].package \in filter
                                 THEN merged[p] ELSE None]
    /\ files_stage' = "done"
    /\ UNCHANGED <<filter, lists, conffiles>>

FilesNext == MergeEntry \/ MergeConffile \/ FilterFiles

-----------------------------------------------------------------------------
(* What the database declares *)

DivertedSet(entries, diversions) ==
    {AfterDiversion(e, diversions.map, {e.package}) : e \in entries}

ClaimsOf ==
    [d \in DOMAIN Databases |->
        DivertedSet(UNION {ToSet(ListsOf[d][i]) : i \in DOMAIN ListsOf[d]}, DiversionsOf[d])]

ConfClaimsOf ==
    [d \in DOMAIN Databases |-> DivertedSet(ToSet(StatusOf[d].conffiles), DiversionsOf[d])]

EntriesOf(d) ==
    LET known == ClaimsOf[d] \cup ConfClaimsOf[d]
    IN [ package: {e.package : e \in known}, path: Path, props: {e.props : e \in known},
         config: BOOLEAN ]

\* What dpkg and apt write.
ASSUME WrittenAssumption ==
    /\ None # "Dependency"
    /\ \A d \in DOMAIN Databases :
          LET written == Databases[d]
          IN /\ \A field \in {"stanzas", "extended"} : written[field] \in Seq(ToSet(written[field]))
             /\ \A i \in DOMAIN written.stanzas : IsStanza(written.stanzas[i])
             /\ \A i \in DOMAIN written.extended : IsExtended(written.extended[i])
             /\ \A i \in DOMAIN written.info :
                   written.info[i].extension \in {"list", "md5sums"} =>
                      written.info[i].lines \in Seq(ToSet(written.info[i].lines))

\* What is declared are entries, at paths, and packages are asked for.
ASSUME DatabaseAssumption ==
    /\ \A wanted \in Filters : None \notin wanted
    /\ \A d \in DOMAIN Databases :
          /\ \A e \in ClaimsOf[d] \cup ConfClaimsOf[d] : e.path \in Path
          /\ None \notin EntriesOf(d)
          /\ \A e \in EntriesOf(d) : e.props # None

Claims(p) == {e \in ClaimsOf[db] : e.path = p}

ConfClaims(p) == {e \in ConfClaimsOf[db] : e.path = p}

Checksums(entries) == {e.props : e \in {x \in entries : x.props[1] = "RegularFileBasic"}}

\* Whatever the workers do first: a path is known when somebody claims it (and, with a
\* filter, somebody who is asked for may be the one it is attributed to), its owner is
\* one of those who do, and its checksum is the one of the configuration file if it is
\* one and otherwise one of those in the .md5sums.
MergeAgrees ==
    files_stage = "done" =>
        \A p \in Path :
            LET claims == Claims(p) \cup ConfClaims(p)
                owners == {e.package : e \in IF Claims(p) # {} THEN Claims(p) ELSE ConfClaims(p)}
            IN /\ merged[p] = None => owners = {} \/ \E o \in owners : o \notin filter
               /\ merged[p] # None =>
                    /\ merged[p].package \in owners \cap filter
                    /\ merged[p].props \in
                         CASE Checksums(ConfClaims(p)) # {} -> Checksums(ConfClaims(p))
                           [] Checksums(ConfClaims(p)) = {} /\ Checksums(Claims(p)) # {} ->
                                 Checksums(Claims(p))
                           [] OTHER -> {<<"Unknown">>}

\* paketkoll's command line: "Exclude config files in check".  For that every
\* configuration file must be known as one.
ConffilesAreConfig ==
    files_stage = "done" =>
        \A p \in Path : ConfClaims(p) # {} /\ merged[p] # None => merged[p].config

=============================================================================
