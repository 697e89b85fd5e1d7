-------------------------- MODULE MCScriptPlugins --------------------------
(***************************************************************************)
(* An instance of ScriptPlugins.  Every instruction there is, of each      *)
(* selector, inverted or not, with each action, meets a second one before  *)
(* or after it, in programs with and without printing by default, beside   *)
(* three programs to call; sysusers.d files meet each form of an id; every *)
(* call, right and wrong, is made on systems whose files are packaged,     *)
(* changed, of another type, unpackaged or missing.                        *)
(***************************************************************************)
EXTENDS ScriptPlugins, TLC

Sel(kind) == [kind |-> kind]

OnLine2 == [kind |-> "Line", from |-> 2]

OnB == [kind |-> "Regex", word |-> "b"]

Selectors ==
    << Sel("All"), Sel("Eof"), OnLine2, OnB, [kind |-> "Range", from |-> 2, to |-> 3],
       [kind |-> "Function", numbers |-> {1}] >>

Puts(kind) == [kind |-> kind, text |-> <<"x">>]

Replaces(all) == [kind |-> "RegexReplace", word |-> "a", by |-> "x", replace_all |-> all]

Calls(fails) == [kind |-> "Function", text |-> <<"x">>, fails |-> fails]

Actions ==
    << Sel("Print"), Sel("Delete"), Sel("NextLine"), Sel("Stop"), Sel("StopAndPrint"),
       Puts("InsertBefore"), Puts("InsertAfter"), Puts("Replace"), Replaces(TRUE), Replaces(FALSE),
       Calls(TRUE), Calls(FALSE), [kind |-> "Subprogram", sub |-> 2] >>

Step(s, invert, a) == [selector |-> s, selector_invert |-> invert, action |-> a]

FirstInstr(n) ==
    Step(Selectors[1 + (n % 6)], (n \div 6) % 2 = 1, Actions[1 + ((n \div 12) % 13)])

SecondInstrs ==
    << Step(Sel("All"), FALSE, Sel("NextLine")), Step(OnLine2, FALSE, Sel("StopAndPrint")),
       Step(Sel("Eof"), FALSE, Puts("InsertAfter")), Step(Sel("All"), FALSE, Sel("Print")),
       Step(Sel("Eof"), TRUE, Puts("InsertBefore")) >>

MainProgram(n) ==
    LET first  == FirstInstr(n % 156)
        second == SecondInstrs[1 + ((n \div 156) % 5)]
    IN  IF (n \div 780) % 2 = 0 THEN <<first, second>> ELSE <<second, first>>

SubPrograms ==
    << <<Step(Sel("All"), FALSE, Sel("NextLine")), Step(OnB, FALSE, Puts("InsertBefore"))>>,
       <<Step(OnLine2, FALSE, Sel("Delete")), Step(Sel("All"), FALSE, Puts("Replace"))>>,
       <<Step(Sel("All"), FALSE, Sel("NextLine")), Step(Sel("All"), FALSE, Sel("StopAndPrint"))>> >>

MCLibraries ==
    [n \in 1 .. 4680 |->
        << [instructions |-> MainProgram(n % 1560), print_default |-> n % 7 # 0],
           [instructions |-> SubPrograms[1 + ((n \div 1560) % 3)], print_default |-> TRUE] >>]

MCInputs == { << <<"a", "a">>, <<"b">>, <<"a", "b">> >>, <<>> }

-----------------------------------------------------------------------------

MCGroupRank == ("root" :> 0) @@ ("me" :> 1) @@ ("svc" :> 2) @@ ("wheel" :> 3)

\* A user with a group of its own, and one in a group that may not be there.
MCNewUsers == {NewUser("me", 2, "me"), NewUser("svc", 2, "wheel")}

MCNewGroups == {NewGroup("wheel", 1), NewGroup("me", 3)}

MCMemberships == {<<"me", "wheel">>}

\* Another id or group; another user altogether, unless it has a password.
MCUserUpdates ==
    << [name |-> "me", func |-> [u \in User |-> [u EXCEPT !.uid = 1]]],
       [name |-> "root", func |-> [u \in User |-> [u EXCEPT !.group = "wheel"]]],
       [name |-> "svc", func |-> [u \in User |-> IF u.passwd = NoPasswd THEN NewUser("me", u.uid, "me") ELSE None]] >>

\* Another id, and another group, unless it has no members.
MCGroupUpdates ==
    << [name |-> "wheel", func |-> [g \in Group |-> [g EXCEPT !.gid = 2]]],
       [name |-> "wheel", func |-> [g \in Group |-> IF g.members = {} THEN None ELSE NewGroup("svc", 3)]] >>

NoId == [form |-> "-"]

Uid(n) == [form |-> "uid", uid |-> n]

Gid(n) == [form |-> "gid", gid |-> n]

UidGid(u, g, text) == [form |-> "uid:gid", uid |-> u, gid |-> g, group |-> text]

U(name, id) == [type |-> "u", name |-> name, id |-> id]

G(name, id) == [type |-> "g", name |-> name, id |-> id]

M(user, group) == [type |-> "m", user |-> user, group |-> group]

MCSysusersFiles ==
    { <<U("root", Uid(0)), G("wheel", NoId), M("root", "wheel")>>,
      <<U("svc", NoId), M("svc", "wheel")>>,
      <<G("svc", Gid(1)), U("svc", UidGid(3, 1, "root")), [type |-> "r"]>>,
      <<U("svc", [form |-> "uid:group", uid |-> 3, group |-> "wheel"])>>,
      <<[type |-> "#"], U("svc", UidGid(3, 9, "root"))>>,
      <<[type |-> "bad"]>>,
      <<U("me", Uid(9))>>,
      <<G("wheel", Gid(3)), G("svc", [form |-> "path"])>> }

MCMappings ==
    { [users |-> << <<"svc", 1>> >>, groups |-> << <<"wheel", 3>>, <<"svc", 1>> >>],
      [users |-> << <<"svc", 1>>, <<"me", 1>> >>, groups |-> <<>>] }

Host(passwd, group) ==
    [passwd |-> passwd, group |-> group, shadow |-> <<[name |-> "root", passwd |-> "x"]>>]

Account(name, id) == [name |-> name, id |-> id]

MCHosts ==
    { Host(<<Account("root", 0), Account("me", 3), Account("svc", 2)>>, <<Account("wheel", 0), Account("me", 2)>>),
      Host(<<Account("me", None)>>, <<>>) }

-----------------------------------------------------------------------------

MCPath == {"/", "/d", "/d/f", "/g"}

MCAncestors ==
    ("/" :> {"/"}) @@ ("/d" :> {"/", "/d"}) @@ ("/d/f" :> {"/", "/d", "/d/f"})
    @@ ("/g" :> {"/", "/g"})

MCPathRank == ("/" :> 0) @@ ("/d" :> 1) @@ ("/d/f" :> 2) @@ ("/g" :> 3)

MCArgRank ==
    (None :> 0) @@ ("empty" :> 1) @@ ("c1" :> 2) @@ ("unit" :> 3) @@ ("/g" :> 4) @@ ("/x" :> 5)
    @@ ("/dev/null" :> 6) @@ ("dev" :> 7) @@ ("0600" :> 8) @@ ("0644" :> 9) @@ ("0755" :> 10)
    @@ ("0777" :> 11) @@ ("4755" :> 12) @@ ("root" :> 13) @@ ("user" :> 14) @@ ("/d/f" :> 15) @@ ("0" :> 16)

MCWithoutSetid == [m \in Mode |-> IF m = "4755" THEN "0755" ELSE m]

PackagedDir == [kind |-> "Directory", data |-> None, mode |-> "0755", owner |-> "root", group |-> "root"]

\* Directories all packaged, an inner file that is packaged, another beside it.
Database(f, g) ==
    LET dir == PackagedDir
    IN ("/" :> dir) @@ ("/d" :> dir) @@ ("/d/f" :> f) @@ ("/g" :> g)

Packaged(data, bits, owner) ==
    [kind |-> "RegularFile", data |-> data, mode |-> bits, owner |-> owner, group |-> "root"]

OnDisk(f, g) ==
    LET dir == NewInode("Directory", None, "0755")
    IN ("/" :> dir) @@ ("/d" :> dir) @@ ("/d/f" :> f) @@ ("/g" :> g)

InnerFile == [NewInode("File", "c1", "0644") EXCEPT !.group = "user"]

OuterFile == NewInode("File", "unit", "0600")

OuterFifo == [NewInode("Fifo", None, "0644") EXCEPT !.owner = "user"]

Pacman == [manager |-> "pacman", name |-> "p"]

Flatpak == [manager |-> "flatpak", name |-> "f"]

Yum == [manager |-> "yum", name |-> "p"]

MCHosted ==
    { [disk |-> OnDisk(f, g), pkgs |-> Database(o, None), explicit |-> {Pacman, Flatpak}] :
        f \in {InnerFile, NoNode, NewInode("Symlink", "/g", "0777")},
        g \in {OuterFile, OuterFifo, NoNode, NewInode("CharDevice", "dev", "0644")},
        o \in {None, Packaged("c1", "0644", "user"), Packaged("empty", "0755", "root")} }
    \cup
    \* An outer file of a directory's mode, and a directory that is not packaged.
    { [disk |-> [OnDisk(f, NewInode("File", "unit", "0755")) EXCEPT !["/d"].mode = bits],
       pkgs |-> [Database(o, None) EXCEPT !["/d"] = None], explicit |-> {Pacman}] :
        f \in {NoNode, NewInode("Socket", None, "0600")}, bits \in {"0600", "0755"},
        o \in {None, Packaged("c1", "0644", "user"), PackagedDir} }

Named(call, name) == [call |-> call, name |-> name]

OnPath(call, path) == [call |-> call, path |-> path]

OnPackage(call, id) == [call |-> call, id |-> id]

Backends == <<Named("set_file_backend", "pacman"), Named("enable_pkg_backend", "pacman")>>

EnableFile == [call |-> "enable_file", path |-> "/g", aliases |-> TRUE, wanted_by |-> TRUE]

EnablePackaged == [call |-> "enable_pkg", manager |-> "pacman", path |-> "/d/f", aliases |-> TRUE, wanted_by |-> FALSE]

Config(discovery, ignores, dependencies, main) ==
    [script |-> <<discovery, ignores, dependencies, main>>,
     files |-> [p \in Path |-> IF p = "/g" THEN "unit" ELSE None]]

MainOf(main) == Config(Backends, <<>>, <<>>, main)

MCConfigs ==
    { Config(<<Named("set_file_backend", "yum")>>, <<>>, <<>>, <<>>),
      Config(<<Named("enable_pkg_backend", "yum")>>, <<>>, <<>>, <<>>),
      Config(<<>>, <<>>, <<>>, <<>>),
      Config(<<Named("set_file_backend", "flatpak"), Named("enable_pkg_backend", "flatpak")>>, <<>>, <<>>, <<>>),
      Config(Backends \o <<Named("enable_pkg_backend", "systemd-tmpfiles")>>, <<>>, <<>>, <<>>),
      Config(<<Named("set_file_backend", "pacman")>>, <<>>, <<>>, <<>>),
      Config(Backends, <<OnPackage("add_pkg", Pacman)>>, <<>>, <<>>),
      Config(Backends, <<OnPath("ignore_path", "/d")>>, <<OnPackage("remove_pkg", Pacman)>>,
             <<OnPackage("add_pkg", Flatpak)>>),
      Config(Backends, <<>>, <<OnPath("ignore_path", "/d")>>, <<>>),
      Config(Backends, <<>>, <<OnPath("rm", "/d/f")>>, <<>>),
      Config(Backends \o << Named("enable_pkg_backend", "flatpak"),
                            OnPath("sensitive_config", "/g"), OnPath("early_config", "/d") >>, <<>>,
             <<OnPackage("add_pkg", Flatpak)>>,
             <<OnPackage("add_pkg", Pacman), OnPackage("remove_pkg", Flatpak)>>) }
    \cup {MainOf(m) :
        m \in { <<OnPackage("remove_pkg", Yum)>>,
                <<OnPath("rm", "/d/f"), OnPath("mkdir", "/g")>>,
                << [call |-> "copy_from", path |-> "/d/f", src |-> "/g"],
                   OnPath("chmod", "/d/f") @@ ("mode" :> "0600") >>,
                << [call |-> "copy_from", path |-> "/g", src |-> "/d/f"] >>,
                << [call |-> "write", path |-> "/g", contents |-> "empty"],
                   [call |-> "write", path |-> "/g", contents |-> "unit"], EnableFile >>,
                << [call |-> "perms", path |-> "/d/f", owner |-> "user", group |-> "user", mode |-> "0755"] >>,
                << [call |-> "perms", path |-> "/d/f", owner |-> "user", group |-> "user", mode |-> "a+x"] >>,
                <<EnableFile>>, <<EnablePackaged>>,
                <<OnPath("mkdir", "../d")>>, <<OnPath("mask", "d")>>,
                << OnPath("chmod", "/g") @@ ("mode" :> "a+x") >>,
                << OnPath("chown", "d") @@ ("name" :> "user") >>,
                << OnPath("ln", "d") @@ ("target" :> "/x") >>,
                << [call |-> "write", path |-> "d", contents |-> "c1"] >>,
                << OnPath("mask", "/g"), OnPath("chgrp", "/g") @@ ("name" :> "user") >>,
                << OnPath("ln", "/d/f") @@ ("target" :> "/x"), OnPath("chown", "/d/f") @@ ("name" :> "user") >> }}

MCPkgIdent == {Pacman, Flatpak, Yum}

MCUnitLinks == [c \in Contents |-> IF c = "unit" THEN [aliases |-> {"/d/f"}, wanted_by |-> {"/g"}] ELSE None]

MCUnitFiles == [p \in Path |-> IF p = "/g" THEN "unit" ELSE None]

MCUsrTwin == [p \in Path |-> IF p = "/d/f" THEN "/g" ELSE p]
=============================================================================
