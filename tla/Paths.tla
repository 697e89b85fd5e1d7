-------------------------------- MODULE Paths --------------------------------
(***************************************************************************)
(* What the file backends of paketkoll have in common: they answer for     *)
(* paths (FileEntry::path in paketkoll_types/src/files.rs).                *)
(***************************************************************************)
CONSTANTS
    Path,
    None            \* Option::None
=============================================================================
