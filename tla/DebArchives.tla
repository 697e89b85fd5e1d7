---------------------------- MODULE DebArchives ----------------------------
(***************************************************************************)
(* The other source of the Debian backend: the packages themselves.        *)
(* files_from_archives and original_files (backend/deb.rs) look for the    *)
(* .deb of an installed package in apt's cache directory, have apt download *)
(* it if it is not there, and read the files out of it (utils.rs).         *)
(*                                                                         *)
(* A .deb is named by package, version and architecture.  Contents and     *)
(* metadata of a file in it are one value.                                 *)
(***************************************************************************)
EXTENDS DebFiles

CONSTANTS
    Debs,           \* [name, version, arch] -> the entries of its data.tar
    Broken,         \* those whose .deb cannot be read
    Dotted,         \* the names that begin with "./", as dpkg-deb writes them all
    DebRank,        \* the order of file names
    EMPTY           \* the contents of an empty file

VARIABLE debs       \* the .deb files in CACHE_PATH

Deb(name, version, arch) == [name |-> name, version |-> version, arch |-> arch]

\* format_deb_filename, of a package in the package map
DebOf(pkg) == Deb(pkg.name, pkg.version, pkg.arch)

\* dpkg-deb writes every path once, and the repositories have no other packages.
ASSUME DebAssumption ==
    /\ Broken \subseteq DOMAIN Debs
    /\ DebRank \in [DOMAIN Debs -> Nat]
    /\ \A d \in DOMAIN Debs :
          /\ Debs[d] \in Seq(ToSet(Debs[d]))
          /\ \A i, j \in DOMAIN Debs[d] :
                PathOf[Debs[d][i].name] = PathOf[Debs[d][j].name] => i = j
    /\ \A d \in DOMAIN Databases : Databases[d].repo \subseteq DOMAIN Debs

-----------------------------------------------------------------------------
(* Finding archives *)

\* download_debs and download_deb: `apt-get install --reinstall -d` fetches the version
\* the repositories have now, if any; that it fails is only logged.
Downloadable(ref) == {d \in Databases[db].repo : ref \in {Plain(d.name), Qualified(d.name, d.arch)}}

\* missing_packages: what is asked of apt in one go; ids[0] is what apt is asked for.
MissingDebs(pkgs) == {pkg \in pkgs : DebOf(pkg) \notin debs}

\* locate_package_file, for a pattern that several archives match: the last by name.
Latest(matching) == CHOOSE d \in matching : \A o \in matching : DebRank[o] <= DebRank[d]

\* A mutant: any version will do.
MatchingByName(ref, map, there) == {d \in there : d.name = ref[1]}

\* guess_deb_file_name: without its package in the map a name matches every version.
Matching(ref, map, there) ==
    IF ref \in DOMAIN map THEN {DebOf(map[ref])} \cap there
    ELSE {d \in there : Plain(d.name) = ref}

-----------------------------------------------------------------------------
(* convert_archive_entries and archive_to_entries *)

FileEntry(path, props) == [path |-> path, props |-> props]

\* One entry of the tar file; a hard link is what it is linked to, which must have come
\* before, and the program panics otherwise and on types it does not know.
TarEntry(acc, entry) ==
    LET path == PathOf[entry.name]
        Put(props) == [acc EXCEPT !.map[path] = props]
    IN CASE acc.panicked -> acc
         [] entry.type \in {"RegularFile", "Symlink"} -> Put(<<entry.type, entry.data>>)
         [] entry.type \in {"Directory", "Special"} -> Put(<<entry.type>>)
         [] entry.type = "Link" /\ acc.map[PathOf[entry.data]] # None ->
               Put(acc.map[PathOf[entry.data]])
         [] OTHER -> [acc EXCEPT !.panicked = TRUE]

Unpacked ==
    [d \in DOMAIN Debs |->
        FoldLeft(TarEntry, [map |-> NoEntries, panicked |-> FALSE], Debs[d])]

\* The entries of a package, at the places diversions leave them: here it is by any of
\* its ids that a package is known.
ArchiveToEntries(pkg, diversions) ==
    LET map == Unpacked[DebOf(pkg)].map
        At(p) == AfterDiversion(FileEntry(p, map[p]), diversions.map, ToSet(pkg.ids))
    IN {At(p) : p \in {q \in Path : map[q] # None}}

-----------------------------------------------------------------------------
(* extract_files *)

\* A dot in front is dropped and nothing is put there, so that any other name is no
\* absolute path.  Reading anything but a regular file yields nothing.
Extracted(deb, path) ==
    LET i == SelectInSeq(Debs[deb], LAMBDA e : e.name \in Dotted /\ PathOf[e.name] = path)
    IN CASE i = 0 -> None
         [] i # 0 /\ Debs[deb][i].type = "RegularFile" -> Debs[deb][i].data
         [] OTHER -> EMPTY

\* original_files for queries [package, path]: the answers, or None if one cannot be had.
OriginalsFrom(queries, map, there) ==
    LET Found(q) == Matching(q.package, map, there)
    IN IF \E q \in queries :
             \/ Found(q) = {} \/ Latest(Found(q)) \in Broken
             \/ Extracted(Latest(Found(q)), q.path) = None
       THEN None
       ELSE [q \in queries |-> Extracted(Latest(Found(q)), q.path)]

=============================================================================
