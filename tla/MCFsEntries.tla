---------------------------- MODULE MCFsEntries ----------------------------
(***************************************************************************)
(* An instance of FsEntries: a root, a directory in it and a file in that, *)
(* and a stream with every kind of operation, duplicates with different    *)
(* operands, a removal followed by a creation, and changes of metadata     *)
(* both above and at created paths.                                        *)
(***************************************************************************)
EXTENDS FsEntries, TLC

MCPath == {"/", "/d", "/d/f"}

MCAncestors == ("/" :> {"/"}) @@ ("/d" :> {"/", "/d"}) @@ ("/d/f" :> MCPath)

MCPathRank == ("/" :> 0) @@ ("/d" :> 1) @@ ("/d/f" :> 2)

MCArgRank ==
    (None :> 0) @@ ("c1" :> 1) @@ ("c2" :> 2) @@ ("t1" :> 3) @@ ("dev" :> 4)
    @@ ("0600" :> 5) @@ ("0644" :> 6) @@ ("0755" :> 7) @@ ("root" :> 8) @@ ("user" :> 9)

MCStream ==
    { Instr("/", "SetMode", "0600"),
      Instr("/d", "Remove", None),
      Instr("/d", "CreateDirectory", None),
      Instr("/d", "CreateFifo", None),
      Instr("/d", "SetMode", "0600"),
      Instr("/d", "SetOwner", "user"),
      Instr("/d", "Comment", None),
      Instr("/d/f", "Remove", None),
      Instr("/d/f", "Restore", None),
      Instr("/d/f", "CreateFile", "c1"),
      Instr("/d/f", "CreateFile", "c2"),
      Instr("/d/f", "CreateSymlink", "t1"),
      Instr("/d/f", "CreateBlockDevice", "dev"),
      Instr("/d/f", "CreateCharDevice", "dev"),
      Instr("/d/f", "SetMode", "0755"),
      Instr("/d/f", "SetGroup", "user") }

=============================================================================
