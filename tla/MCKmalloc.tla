------------------------------ MODULE MCKmalloc ------------------------------
(***************************************************************************)
(* A small heap for TLC.                                                   *)
(***************************************************************************)
EXTENDS Kmalloc
=============================================================================
