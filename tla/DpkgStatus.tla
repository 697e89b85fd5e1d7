----------------------------- MODULE DpkgStatus -----------------------------
(***************************************************************************)
(* How dpkg's text files are read (backend/deb/parsers.rs, divert.rs) and  *)
(* what packages() in backend/deb.rs makes of them.  The parsers are loops *)
(* over lines with a small state; here they are functions that give the    *)
(* state after each line.                                                  *)
(*                                                                         *)
(* A line is a record: its key and what stands behind it.  Versions, sums  *)
(* and paths are values.  A dependency is a sequence of alternatives, each *)
(* with the name of a package and what qualifies it (version, or           *)
(* architecture), which is thrown away.                                    *)
(***************************************************************************)
EXTENDS Paths, Naturals, SequencesExt

CONSTANTS
    PRIMARY,        \* the architecture of the system
    ALL             \* "all"

\* A PackageRef: a name, or a name with an architecture (name:arch).
Plain(name) == <<name>>
Qualified(name, arch) == <<name, arch>>

\* fixup_pkg_ids
Ids(name, arch) ==
    IF arch \in {PRIMARY, ALL} THEN <<Plain(name), Qualified(name, arch)>>
    ELSE <<Qualified(name, arch)>>

-----------------------------------------------------------------------------
(* parse_status *)

\* parse_depends, parse_provides and dependency_name
ParseDepends(value) ==
    [i \in DOMAIN value |-> [j \in DOMAIN value[i] |-> Plain(value[i][j].name)]]

NewBuilder(name) ==
    [ name |-> name, Version |-> None, Architecture |-> None, Status |-> None,
      Provides |-> <<>> ]

\* Before the first package there is no builder: one without a name.
StatusStart ==
    [ packages |-> <<>>, conffiles |-> <<>>, builder |-> NewBuilder(None), depends |-> <<>>,
      in_conffiles |-> FALSE, failed |-> FALSE ]

Failed(s) == [s EXCEPT !.failed = TRUE]

Package(name, version, arch, installed, depends, provides) ==
    [ name |-> name, version |-> version, arch |-> arch, installed |-> installed,
      depends |-> depends, provides |-> provides, reason |-> "Explicit",
      ids |-> Ids(name, arch) ]

\* A mutant: what a package depends on is not taken from where it was collected.
FinishedKeeping(s) ==
    LET b == s.builder
    IN CASE b.name = None -> s
         [] b.name # None /\ None \in {b.Version, b.Architecture, b.Status} -> Failed(s)
         [] OTHER -> [s EXCEPT !.packages =
                          Append(@, Package(b.name, b.Version, b.Architecture,
                                            b.Status = "install ok installed",
                                            s.depends, b.Provides))]

\* The package being built is complete; the builder refuses one without a version,
\* an architecture or a status.
Finished(s) ==
    LET b == s.builder
    IN CASE b.name = None -> s
         [] b.name # None /\ None \in {b.Version, b.Architecture, b.Status} -> Failed(s)
         [] OTHER -> [s EXCEPT !.depends = <<>>,
                               !.packages =
                          Append(@, Package(b.name, b.Version, b.Architecture,
                                            b.Status = "install ok installed",
                                            s.depends, b.Provides))]

StartPackage(s, name) ==
    [s EXCEPT !.builder = NewBuilder(name), !.in_conffiles = FALSE]

\* An entry of the package database: what is known of a path.
DbEntry(package, path, props, config) ==
    [package |-> package, path |-> path, props |-> props, config |-> config]

SkippedMarks == {"remove-on-upgrade", "newconffile"}

\* Lines of a Conffiles section begin with a space.
ConffileLine(s, line) ==
    CASE ~s.in_conffiles -> s
      [] s.in_conffiles /\ line.key # " " -> [s EXCEPT !.in_conffiles = FALSE]
      [] s.in_conffiles /\ line.key = " " /\ line.mark \in SkippedMarks -> s
      [] OTHER -> [s EXCEPT !.conffiles =
                       Append(@, DbEntry(Plain(s.builder.name), line.value,
                                         <<"RegularFileBasic", line.sum>>, TRUE))]

\* The other lines, also the one that ends a Conffiles section; a field before the
\* first package is an error.
FieldLine(s, line) ==
    CASE line.key \in {"Pre-Depends", "Depends"} ->
            [s EXCEPT !.depends = @ \o ParseDepends(line.value)]
      [] line.key \in {"Version", "Architecture", "Status", "Provides", "Description", "Conffiles"}
            /\ s.builder.name = None -> Failed(s)
      [] line.key \in {"Version", "Architecture", "Status"} /\ s.builder.name # None ->
            [s EXCEPT !.builder[line.key] = line.value]
      [] line.key = "Provides" /\ s.builder.name # None ->
            [s EXCEPT !.builder.Provides = ParseDepends(<<line.value>>)[1]]
      [] line.key = "Conffiles" /\ s.builder.name # None -> [s EXCEPT !.in_conffiles = TRUE]
      [] OTHER -> s

StatusLine(s, line) ==
    IF s.failed THEN s
    ELSE IF line.key = "Package" THEN
        LET t == Finished(s) IN IF t.failed THEN t ELSE StartPackage(t, line.value)
    ELSE FieldLine(ConffileLine(s, line), line)

\* The states from s on, after each of the lines.
StatusStates(s, lines) ==
    LET after[n \in 0 .. Len(lines)] ==
            IF n = 0 THEN s ELSE StatusLine(after[n - 1], lines[n])
    IN after

Ended(s) == IF s.failed THEN s ELSE Finished(s)

ParseStatus(lines) == Ended(StatusStates(StatusStart, lines)[Len(lines)])

-----------------------------------------------------------------------------
(* parse_extended_status and packages() *)

ExtendedStart == [state |-> "Start", name |-> None, arch |-> None, result |-> <<>>]

\* The file may give the primary architecture where the package is for all.
ExtendedLine(s, line) ==
    CASE line.key = "Package" -> [s EXCEPT !.state = "Package", !.name = line.value]
      [] s.state = "Package" /\ line.key = "Architecture" ->
            [s EXCEPT !.state = "Architecture", !.arch = line.value]
      [] s.state = "Architecture" /\ line.key = "Auto-Installed" ->
            LET reason == CASE line.value = "1" -> "Dependency"
                            [] line.value = "0" -> "Explicit"
                            [] OTHER -> None
            IN [s EXCEPT !.state = "Start",
                         !.result = @ \o << [key |-> <<s.name, s.arch>>, reason |-> reason],
                                            [key |-> <<s.name, ALL>>, reason |-> reason] >>]
      [] OTHER -> s

ExtendedStates(s, lines) ==
    LET after[n \in 0 .. Len(lines)] ==
            IF n = 0 THEN s ELSE ExtendedLine(after[n - 1], lines[n])
    IN after

\* The reasons found, in the order of insertion: a later one replaces an earlier one.
ParseExtendedStatus(lines) == ExtendedStates(ExtendedStart, lines)[Len(lines)].result

\* The one found for a key.
ReasonFor(extended, key) ==
    LET at == {i \in DOMAIN extended : extended[i].key = key}
    IN IF at = {} THEN None ELSE extended[Max(at)].reason

WithReason(pkg, extended) ==
    LET reason == ReasonFor(extended, <<pkg.name, pkg.arch>>)
    IN IF reason = None THEN pkg ELSE [pkg EXCEPT !.reason = reason]

ReadPackages(status, extended) ==
    LET reasons == ParseExtendedStatus(extended)
        parsed  == ParseStatus(status).packages
    IN [i \in DOMAIN parsed |-> WithReason(parsed[i], reasons)]

\* packages_to_package_map: every id leads to its package, later ones win.
PackageMap(pkgs, kept) ==
    LET With(id) == {i \in kept : id \in ToSet(pkgs[i].ids)}
    IN [id \in UNION {ToSet(pkgs[i].ids) : i \in kept} |-> pkgs[Max(With(id))]]

\* map_package_backend: konfigkoll leaves out what is not fully installed.
InstalledMap(pkgs) == PackageMap(pkgs, {i \in DOMAIN pkgs : pkgs[i].installed})

-----------------------------------------------------------------------------
(* parse_diversions *)

\* Lines of another form ("local diversion of ...") are passed over; two diversions of
\* a path are an error.
ParseDiversions(lines) ==
    LET matched == SelectSeq(lines, LAMBDA l : l.form = "diversion")
        paths   == {matched[i].path : i \in DOMAIN matched}
    IN [ failed |-> Cardinality(paths) # Len(matched),
         map    |-> [p \in paths |->
                        LET l == matched[SelectLastInSeq(matched, LAMBDA m : m.path = p)]
                        IN [by |-> l.by, to |-> l.to]] ]

-----------------------------------------------------------------------------
(* What a text says, field by field: the reference for the loops above *)

\* The value of a field of a stanza, the last if there are more; None when it has none.
FieldOf(stanza, key) ==
    LET at == {i \in DOMAIN stanza : stanza[i].key = key}
    IN IF at = {} THEN None ELSE stanza[Max(at)].value

Complete(stanza) ==
    \A key \in {"Version", "Architecture", "Status"} : FieldOf(stanza, key) # None

\* The names of what a stanza depends on, in the order of its lines.
DependsAt(line) ==
    IF line.key \in {"Pre-Depends", "Depends"} THEN ParseDepends(line.value) ELSE <<>>

DependsOf(stanza) == FlattenSeq([i \in DOMAIN stanza |-> DependsAt(stanza[i])])

ProvidesOf(stanza) ==
    IF FieldOf(stanza, "Provides") = None THEN <<>>
    ELSE ParseDepends(<<FieldOf(stanza, "Provides")>>)[1]

PackageOf(stanza) ==
    Package(FieldOf(stanza, "Package"), FieldOf(stanza, "Version"),
            FieldOf(stanza, "Architecture"),
            FieldOf(stanza, "Status") = "install ok installed",
            DependsOf(stanza), ProvidesOf(stanza))

\* Some other fields go on with lines that begin with a space too.
InConffiles(stanza, i) ==
    /\ stanza[i].key = " "
    /\ \E j \in 1 .. i - 1 :
          /\ stanza[j].key = "Conffiles"
          /\ \A k \in j + 1 .. i - 1 : stanza[k].key = " "

ConffileAt(stanza, i) ==
    IF InConffiles(stanza, i) /\ stanza[i].mark \notin SkippedMarks
    THEN << DbEntry(Plain(FieldOf(stanza, "Package")), stanza[i].value,
                    <<"RegularFileBasic", stanza[i].sum>>, TRUE) >>
    ELSE <<>>

ConffilesOf(stanza) == FlattenSeq([i \in DOMAIN stanza |-> ConffileAt(stanza, i)])

\* The stanzas, parsed one after the other, say of each package what its own stanza says,
\* whatever the order of the fields and wherever its Conffiles are.
StatusAsWritten(stanzas) ==
    LET s == ParseStatus(FlattenSeq(stanzas))
    IN /\ s.failed <=> \E i \in DOMAIN stanzas : ~Complete(stanzas[i])
       /\ ~s.failed =>
            /\ s.packages = [i \in DOMAIN stanzas |-> PackageOf(stanzas[i])]
            /\ s.conffiles = FlattenSeq([i \in DOMAIN stanzas |-> ConffilesOf(stanzas[i])])

\* Which packages apt installed by itself: those the last stanza of their own
\* architecture, or of any when they are for all, says so of.
Decides(stanza, pkg) ==
    /\ FieldOf(stanza, "Package") = pkg.name
    /\ FieldOf(stanza, "Auto-Installed") # None
    /\ pkg.arch \in {FieldOf(stanza, "Architecture"), ALL}

ReasonsAsWritten(stanzas, extended) ==
    LET pkgs == ReadPackages(FlattenSeq(stanzas), FlattenSeq(extended))
    IN \A i \in DOMAIN pkgs :
         pkgs[i].reason = "Dependency" <=>
            \E k \in DOMAIN extended :
               /\ Decides(extended[k], pkgs[i])
               /\ FieldOf(extended[k], "Auto-Installed") = "1"
               /\ \A m \in DOMAIN extended : m > k => ~Decides(extended[m], pkgs[i])

\* A stanza begins with the line that names its package, its only one.  A list of
\* dependencies is a list.
IsStanza(stanza) ==
    /\ stanza \in Seq(ToSet(stanza)) /\ stanza # <<>>
    /\ \A i \in DOMAIN stanza :
          /\ stanza[i].key = "Package" <=> i = 1
          /\ stanza[i].value # None
          /\ stanza[i].key \in {"Pre-Depends", "Depends"} =>
                stanza[i].value \in Seq(ToSet(stanza[i].value))

\* apt writes the architecture before the reason, and each once.
IsExtended(stanza) ==
    /\ IsStanza(stanza)
    /\ \A i, j \in DOMAIN stanza :
          /\ stanza[i].key = stanza[j].key
                /\ stanza[i].key \in {"Architecture", "Auto-Installed"} => i = j
          /\ stanza[i].key = "Architecture" /\ stanza[j].key = "Auto-Installed" => i < j
    /\ FieldOf(stanza, "Architecture") # None

=============================================================================
