-------------------------- MODULE MCExpectedFiles --------------------------
(***************************************************************************)
(* An instance of FileBackends: a package b with two versions, a program  *)
(* and a hard link to it below /bin (which is /usr/bin), and a             *)
(* configuration file that a library m of a foreign architecture shares;   *)
(* and a package d that diverts the program.  For systemd-tmpfiles, every  *)
(* three of a set of lines about a directory, a file in it and a path      *)
(* beside it, and every pair of one of these and one that cannot be read.  *)
(***************************************************************************)
EXTENDS FileBackends

MCPath ==
    {"/", "/bin/l", "/usr/bin/l", "/usr/bin/a", "/usr/bin/a.real", "/etc/c",
     "/run/d", "/run/d/f", "/run/l"}

MCPathOf ==
    ("/." :> "/") @@ ("./" :> "/") @@ ("/usr/bin/a" :> "/usr/bin/a")
    @@ ("usr/bin/a" :> "/usr/bin/a") @@ ("./usr/bin/a" :> "/usr/bin/a")
    @@ ("/bin/l" :> "/bin/l") @@ ("./bin/l" :> "/bin/l") @@ ("/etc/c" :> "/etc/c")
    @@ ("etc/c" :> "/etc/c") @@ ("./etc/c" :> "/etc/c")

MCDotted == {"./", "./usr/bin/a", "./bin/l", "./etc/c"}

MCCanonical == [p \in Path |-> IF p = "/bin/l" THEN "/usr/bin/l" ELSE p]

Tar(name, type, data) == [name |-> name, type |-> type, data |-> data]

MCDebs ==
       (Deb("b", "1", "amd64") :> << Tar("./", "Directory", None),
                                     Tar("./usr/bin/a", "RegularFile", "a1"),
                                     Tar("./bin/l", "Link", "./usr/bin/a"),
                                     Tar("./etc/c", "RegularFile", "c1") >>)
    @@ (Deb("b", "2", "amd64") :> << Tar("./", "Directory", None),
                                     Tar("./usr/bin/a", "RegularFile", "a2"),
                                     Tar("./etc/c", "Symlink", "a") >>)
    @@ (Deb("d", "1", "all") :>   << Tar("./usr/bin/a", "RegularFile", "ad") >>)
    @@ (Deb("m", "1", "i386") :>  << Tar("./etc/c", "RegularFile", "c1") >>)
    @@ (Deb("x", "1", "amd64") :> << Tar("./bin/l", "Link", "./etc/c") >>)

MCBroken == {Deb("m", "1", "i386")}

MCDebRank ==
    [d \in DOMAIN Debs |->
        CASE d.name = "b" /\ d.version = "1" -> 1 [] d.name = "b" /\ d.version = "2" -> 2
          [] d.name = "d" -> 3 [] d.name = "m" -> 4 [] OTHER -> 5]

L(key, value) == [key |-> key, value |-> value]

Conffile(path, sum, mark) == [key |-> " ", value |-> path, sum |-> sum, mark |-> mark]

Dep(name, rest) == [name |-> name, rest |-> rest]

StatusB(version, status) ==
    << L("Package", "b"), L("Status", status), L("Architecture", "amd64"),
       L("Depends", <<<<Dep("m", "(>= 1)"), Dep("d", "")>>>>),
       L("Pre-Depends", <<<<Dep("m", ":any")>>>>),
       L("Conffiles", ""), Conffile("/etc/c", "k" \o version, "obsolete"),
       Conffile("/etc/c", "newconffile", "newconffile"), L("Version", version) >>

StatusD ==
    << L("Package", "d"), L("Status", "install ok installed"), L("Version", "1"),
       L("Architecture", "all"), L("Provides", <<Dep("a", "(= 1)"), Dep("m", "")>>),
       L("Conffiles", ""), L("Description", "a diverter"),
       Conffile("that is", "described", "here") >>

StatusM ==
    << L("Package", "m"), L("Status", "install ok installed"), L("Version", "1"),
       L("Architecture", "i386"), L("Conffiles", ""), Conffile("/etc/c", "km", "") >>

StatusX ==
    << L("Package", "x"), L("Status", "install ok installed"), L("Version", "1"),
       L("Architecture", "amd64") >>

StatusGone == << L("Package", "x"), L("Status", "unknown ok not-installed"), L("Architecture", "amd64") >>

Auto(name, arch, value) ==
    << L("Package", name), L("Architecture", arch), L("Auto-Installed", value) >>

Info(package, extension, lines) ==
    [package |-> package, extension |-> extension, lines |-> lines]

Sum(name, sum) == [name |-> name, sum |-> sum]

InfoB(version) ==
    << Info(<<"b">>, "list", <<"/.", "/usr/bin/a", "/etc/c">> \o
                              (IF version = "1" THEN <<"/bin/l">> ELSE <<>>)),
       Info(<<"b">>, "md5sums", <<Sum("usr/bin/a", "a" \o version), Sum("etc/c", "c" \o version)>>) >>

InfoD == << Info(<<"d">>, "list", <<"/usr/bin/a">>),
            Info(<<"d">>, "md5sums", <<Sum("usr/bin/a", "ad")>>) >>

InfoM == << Info(<<"m", "i386">>, "list", <<"/etc/c">>), Info(<<"m", "i386">>, "postinst", <<>>) >>

Diversion(by) ==
    << [form |-> "diversion", path |-> "/usr/bin/a", to |-> "/usr/bin/a.real", by |-> <<by>>],
       [form |-> "local", path |-> "/etc/c", to |-> "/etc/c", by |-> <<by>>] >>

Db(stanzas, extended, info, diversions, repo) ==
    [stanzas |-> stanzas, extended |-> extended, info |-> info, diversions |-> diversions,
     repo |-> repo]

RepoOld == {Deb("b", "1", "amd64"), Deb("d", "1", "all")}
RepoNew == {Deb("b", "2", "amd64"), Deb("m", "1", "i386")}

\* Versions, a half removed package, a diversion, no version, two diversions, no reason.
MCDatabases ==
    [ old |-> Db(<<StatusM, StatusB("1", "install ok installed")>>,
                 <<Auto("b", "amd64", "1")>>, InfoB("1") \o InfoM, <<>>, RepoOld),
      diverted |-> Db(<<StatusB("1", "install ok installed"), StatusD>>,
                      <<Auto("b", "amd64", "0"), Auto("d", "amd64", "1")>>,
                      InfoB("1") \o InfoD, Diversion("d"), RepoOld),
      upgraded |-> Db(<<StatusB("2", "install ok installed"), StatusD>>,
                      <<Auto("d", "all", "?")>>, InfoB("2") \o InfoD, Diversion("d"), RepoNew),
      removed |-> Db(<<StatusB("1", "deinstall ok config-files"), StatusX>>, <<>>,
                     <<Info(<<"b">>, "list", <<"/etc/c">>), Info(<<"x">>, "list", <<"/etc/c">>)>>,
                     <<>>, {}),
      incomplete |-> Db(<<StatusD, StatusGone, StatusB("1", "install ok installed")>>, <<>>,
                        InfoD, <<>>, {}),
      contradictory |-> Db(<<StatusD>>, <<>>, InfoD, Diversion("d") \o Diversion("b"), RepoNew) ]

MCFilters == { Everything, {<<"b">>} }

Query(package, path) == [package |-> package, path |-> path]

MCQuerySets ==
    { {Query(<<"b">>, "/usr/bin/a")},
      {Query(<<"b", "amd64">>, "/usr/bin/a"), Query(<<"b">>, "/bin/l")},
      {Query(<<"b">>, "/usr/bin/a.real")} }

-----------------------------------------------------------------------------
(* tmpfiles.d *)

Caller      == [kind |-> "Caller"]
Numeric(id) == [kind |-> "Numeric", id |-> id]
Named(name) == [kind |-> "Name", name |-> name]

Line(type, plus, marks, path, bits, user, group, argument) ==
    [type |-> type, plus |-> plus, marks |-> marks, path |-> path, mode |-> bits,
     user |-> user, group |-> group, argument |-> argument]

\* Without a mode, a user and a group.
Bare(type, plus, marks, path, argument) ==
    Line(type, plus, marks, path, None, Caller, Caller, argument)

GoodLines ==
    { Line("f", FALSE, {"~"}, "/run/d/f", "0600", Named("games"), Named("games"), "Zg=="),
      Bare("f", TRUE, {"^", "~"}, "/run/d/f", "Zg=="),
      Bare("w", FALSE, {}, "/run/d/f", "%m"),
      Bare("w", TRUE, {}, "/run/d/f", "text"),
      Line("d", FALSE, {}, "/run/d", "0755", Numeric(0), Named("games"), None),
      Bare("e", FALSE, {"-"}, "/run/d", None),
      Line("z", FALSE, {}, "/run/d/f", "0640", Numeric(7), Named("games"), None),
      Line("Z", FALSE, {}, "/run/*", "0640", Numeric(7), Caller, None),
      Line("z", FALSE, {"!"}, "%t/l", "0600", Named("games"), Caller, None),
      Bare("L", TRUE, {}, "%t/l", "text"),
      Bare("L", FALSE, {}, "%t/l", None),
      Line("p", FALSE, {"!"}, "%t/l", "0660", Caller, Numeric(7), None),
      Bare("c", FALSE, {}, "%t/l", "1:3"),
      Bare("C", FALSE, {"-"}, "/run/d", "/src"),
      Bare("C", FALSE, {}, "/run/d/f", None),
      Bare("C", FALSE, {}, "%t/l", None),
      Bare("R", FALSE, {}, "/run/d/f", None),
      Bare("x", FALSE, {}, "/run/d", None) }

BadLines ==
    { Bare("d", TRUE, {}, "/run/d", None),
      Bare("w", FALSE, {}, "/run/d/f", None),
      Bare("b", FALSE, {}, "%t/l", "1"),
      Bare("f", FALSE, {"~"}, "/run/d/f", "?"),
      Bare("?", FALSE, {}, "/run/d", None),
      Bare("r", FALSE, {}, "%1", None),
      Bare("C", FALSE, {}, "/run/d", "%1"),
      Line("f", FALSE, {}, "/run/d/f", None, Named("nobody"), Caller, None) }

MCTmpfilesConfigs ==
    (GoodLines \X GoodLines \X GoodLines) \cup (GoodLines \X BadLines) \cup (BadLines \X GoodLines)

MCResolved ==
    ("/run/d" :> "/run/d") @@ ("/run/d/f" :> "/run/d/f") @@ ("%t/l" :> "/run/l")
    @@ ("/src" :> "/src") @@ ("text" :> "text") @@ ("%m" :> "machine") @@ ("f==" :> "f==")
    @@ ("Zg==" :> "Zg==") @@ ("/run/*" :> "/run/*")
    @@ ("%1" :> None)

MCGlobs == {"/run/*"}

\* What is decoded is shorter than the text, whose end stays.
MCDecoded == ("Zg==" :> "f==") @@ ("?" :> None)

MCDevices == {"1:3"}

MCHostIds ==
    (<<"User", "games">> :> 5) @@ (<<"Group", "games">> :> 60)
    @@ (<<"User", "nobody">> :> None) @@ (<<"Group", "nobody">> :> None)

MCFactoryOf ==
    ("/run/d" :> "/usr/share/factory/d") @@ ("/run/d/f" :> "/usr/share/factory/f")
    @@ ("/run/l" :> "/usr/share/factory/l")

Inode(at, above, kind, bits, owner, data, readable) ==
    [at |-> at, above |-> above, kind |-> kind, mode |-> bits, owner |-> owner,
     group |-> 0, data |-> data, readable |-> readable]

MCSourceTrees ==
    ("/src" :> { Inode(".", {}, "Directory", "0750", 0, None, TRUE),
                 Inode("f", {"."}, "RegularFileSystemd", "0400", 7, "source", TRUE),
                 Inode("s", {"."}, "Directory", "0700", 7, None, FALSE),
                 Inode("s/f", {".", "s"}, "RegularFileSystemd", "0400", 7, "secret", TRUE) })
    @@ ("/usr/share/factory/f" :> { Inode(".", {}, "RegularFileSystemd", "0444", 0, "twin", TRUE) })
    @@ ("/usr/share/factory/l" :> {}) @@ ("/usr/share/factory/d" :> {})

MCBelow ==
    [x \in {"/run/d", "/run/d/f", "/run/l"} \X {".", "f"} |->
        IF x[2] = "." THEN x[1] ELSE "/run/d/f"]

=============================================================================
