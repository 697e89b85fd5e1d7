---------------------------- MODULE MCReconcile ----------------------------
(***************************************************************************)
(* An instance of Reconcile: a directory with a file in it, and a file     *)
(* beside it.  The package databases, the scripts and the disks are        *)
(* combined freely, so that everything a script can say of the inner path  *)
(* meets every type of inode there, packaged and unpackaged.               *)
(***************************************************************************)
EXTENDS Reconcile, TLC

MCPath == {"/", "/d", "/d/f", "/g"}

MCAncestors ==
    ("/" :> {"/"}) @@ ("/d" :> {"/", "/d"}) @@ ("/d/f" :> {"/", "/d", "/d/f"})
    @@ ("/g" :> {"/", "/g"})

MCPathRank == ("/" :> 0) @@ ("/d" :> 1) @@ ("/d/f" :> 2) @@ ("/g" :> 3)

MCArgRank ==
    (None :> 0) @@ ("empty" :> 1) @@ ("c1" :> 2) @@ ("c2" :> 3) @@ ("/g" :> 4) @@ ("/x" :> 5)
    @@ ("dev" :> 6) @@ ("0" :> 7) @@ ("0600" :> 8) @@ ("0644" :> 9) @@ ("0755" :> 10)
    @@ ("0777" :> 11) @@ ("4755" :> 12) @@ ("root" :> 13) @@ ("user" :> 14)

MCWithoutSetid == [m \in Mode |-> IF m = "4755" THEN "0755" ELSE m]

Pkg(kind, data, mode) ==
    [kind |-> kind, data |-> data, mode |-> mode, owner |-> "root", group |-> "root"]

\* Neither of these comes with metadata.
Bare(kind) == [kind |-> kind, data |-> None, mode |-> None, owner |-> None, group |-> None]

Db(top, d, f, g) == ("/" :> top) @@ ("/d" :> d) @@ ("/d/f" :> f) @@ ("/g" :> g)

PDir == Pkg("Directory", None, "0755")

AFilePkg == Pkg("RegularFile", "c1", "0644")

\* Without "/", as on Arch Linux; with a link and a set-ID program; with a file, a
\* directory and a link of unusual metadata; with something that cannot be restored.
MCPackages ==
    { Db(PDir, None, None, None),
      Db(None, PDir, AFilePkg, None),
      Db(PDir, PDir, Pkg("Symlink", "/g", None), Pkg("RegularFile", "c1", "4755")),
      Db(PDir, [PDir EXCEPT !.mode = "0644"], None,
         [Pkg("RegularFile", "c1", "0600") EXCEPT !.owner = "user"]),
      Db(PDir, Bare("Unknown"), AFilePkg, Bare("Other")) }

OnDirectory == { {}, {Instr("/d", "CreateDirectory", None)} }

OnInner ==
    { {}, {Instr("/d/f", "Remove", None)}, {Instr("/d/f", "CreateFile", "c2")},
      {Instr("/d/f", "CreateFile", "c2"), Instr("/d/f", "SetMode", "0600"),
       Instr("/d/f", "SetOwner", "user")},
      {Instr("/d/f", "CreateSymlink", "/g")},
      {Instr("/d/f", "SetMode", "0600"), Instr("/d/f", "SetOwner", "user"),
       Instr("/d/f", "SetGroup", "user")},
      {Instr("/d/f", "Remove", None), Instr("/d/f", "CreateFile", "c2")} }

OnOuter == { {}, {Instr("/g", "CreateFile", "c1")}, {Instr("/g", "SetOwner", "root"), Instr("/g", "SetGroup", "user")} }

\* Something of the inner path, and of the directory or of the path beside it.
MCScripts == {a \cup b : a \in OnDirectory \cup OnOuter, b \in OnInner}

MakeDisk(d, f, g) ==
    ("/" :> NewInode("Directory", None, "0755")) @@ ("/d" :> d) @@ ("/d/f" :> f) @@ ("/g" :> g)

ADir  == NewInode("Directory", None, "0755")
AFile == NewInode("File", "c2", "0644")

MCDisks ==
    { MakeDisk(NoNode, NoNode, NoNode),
      MakeDisk(ADir, AFile, AFile),
      MakeDisk(ADir, [AFile EXCEPT !.data = "c1"], [AFile EXCEPT !.data = "c1", !.mode = "0600"]),
      MakeDisk(ADir, NewInode("Fifo", None, "0600"), NewInode("CharDevice", "dev", "0600")),
      MakeDisk(ADir, NewInode("Symlink", "/g", "0777"), AFile),
      MakeDisk([ADir EXCEPT !.mode = "0644"],
               [NewInode("Symlink", "/g", "0777") EXCEPT !.owner = "user"],
               [kind |-> "File", data |-> "c1", mode |-> "4755", owner |-> "user", group |-> "root"]),
      MakeDisk(AFile, NoNode, NewInode("Socket", None, "0755")) }

MCSettings ==
    { [ignores |-> {}, early |-> {"/d"}], [ignores |-> {}, early |-> {"/g"}],
      [ignores |-> {"/g"}, early |-> {"/d/f"}], [ignores |-> {"/d/f"}, early |-> {}] }

=============================================================================
