---------------------------- MODULE MCApplyFiles ----------------------------
(***************************************************************************)
(* An instance of ApplyFiles: a directory with a file in it, and a file    *)
(* beside it.  A plan says something of each path, or nothing; between     *)
(* them the plans have every kind of instruction, changes of type,         *)
(* removals of the directory with and without its contents, links to the   *)
(* other file and to nowhere, and a set-user-ID program given away.        *)
(***************************************************************************)
EXTENDS ApplyFiles, TLC

MCPath == {"/", "/d", "/d/f", "/g"}

MCAncestors ==
    ("/" :> {"/"}) @@ ("/d" :> {"/", "/d"}) @@ ("/d/f" :> {"/", "/d", "/d/f"})
    @@ ("/g" :> {"/", "/g"})

MCPathRank == ("/" :> 0) @@ ("/d" :> 1) @@ ("/d/f" :> 2) @@ ("/g" :> 3)

MCArgRank ==
    (None :> 0) @@ ("empty" :> 1) @@ ("c1" :> 2) @@ ("c2" :> 3) @@ ("/g" :> 4) @@ ("/x" :> 5)
    @@ ("dev" :> 6) @@ ("0" :> 7) @@ ("0644" :> 8) @@ ("0755" :> 9) @@ ("0777" :> 10)
    @@ ("4755" :> 11) @@ ("root" :> 12) @@ ("user" :> 13)

MCWithoutSetid == [m \in Mode |-> IF m = "4755" THEN "0755" ELSE m]

OnDirectory ==
    { {}, {Instr("/d", "Remove", None)}, {Instr("/d", "CreateDirectory", None)},
      {Instr("/d", "Remove", None), Instr("/d", "CreateFifo", None)} }

OnInner ==
    { {}, {Instr("/d/f", "Remove", None)},
      {Instr("/d/f", "CreateFile", "c1"), Instr("/d/f", "SetMode", "4755"),
       Instr("/d/f", "SetOwner", "user")},
      {Instr("/d/f", "Restore", None)},
      {Instr("/d/f", "Remove", None), Instr("/d/f", "CreateSymlink", "/g")},
      {Instr("/d/f", "CreateSymlink", "/x"), Instr("/d/f", "SetGroup", "user")} }

OnOuter ==
    { {}, {Instr("/g", "Remove", None)},
      {Instr("/g", "Remove", None), Instr("/g", "CreateCharDevice", "dev")},
      {Instr("/g", "CreateBlockDevice", "dev"), Instr("/g", "SetMode", "0644")},
      {Instr("/g", "Restore", None), Instr("/g", "Comment", None)} }

MCPlans == {a \cup b \cup c : a \in OnDirectory, b \in OnInner, c \in OnOuter}

MakeDisk(d, f, g) ==
    ("/" :> NewInode("Directory", None, "0755")) @@ ("/d" :> d) @@ ("/d/f" :> f) @@ ("/g" :> g)

ADir  == NewInode("Directory", None, "0755")
AFile == NewInode("File", "c2", "0644")

MCDisks ==
    { MakeDisk(ADir, AFile, AFile), MakeDisk(NoNode, NoNode, AFile),
      MakeDisk(ADir, NewInode("Symlink", "/g", "0777"), NoNode), MakeDisk(AFile, NoNode, NoNode) }

Nothing == [p \in Path |-> NoNode]

MCOriginals == ("/" :> None) @@ ("/d" :> None) @@ ("/d/f" :> "c1") @@ ("/g" :> None)

\* A live run with each kind of applicator, and one of each that changes nothing.
Options == { <<"yolo", FALSE>>, <<"ask", FALSE>>, <<"ask", TRUE>>, <<"dry-run", FALSE>> }

\* How the batches are split, and what the packages between them bring.
Batches ==
    { <<{}, Nothing>>, <<{"/d"}, Nothing>>, <<{"/d/f", "/g"}, Nothing>>,
      <<{"/d/f", "/g"}, [Nothing EXCEPT !["/d"] = ADir, !["/d/f"] = AFile]>> }

MCRun ==
    { [ paranoia |-> o[1], force_dry_run |-> o[2], instrs |-> instrs, early |-> b[1],
        start |-> start, originals |-> MCOriginals, installs |-> b[2] ]
        : o \in Options, instrs \in MCPlans, b \in Batches, start \in MCDisks }

=============================================================================
