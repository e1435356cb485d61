----------------------------- MODULE MCReadDir -----------------------------
(***************************************************************************)
(* A directory of four entries with names of different lengths.            *)
(***************************************************************************)
EXTENDS ReadDir

MCNameLen == <<1, 3, 2, 1>>
=============================================================================
