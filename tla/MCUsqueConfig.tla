--------------------------- MODULE MCUsqueConfig ---------------------------
(***************************************************************************)
(* Model checking of UsqueConfig. Two calls overlap anywhere, saving       *)
(* included. Four inodes are as many as there can be: the account file, a  *)
(* temporary file and one that each call has open and no name is left for. *)
(* Three accounts let a file be replaced twice.                            *)
(***************************************************************************)
EXTENDS UsqueConfig
=============================================================================
