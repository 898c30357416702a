------------------------------ MODULE MCRegion ------------------------------
(***************************************************************************)
(* A small address space for TLC.                                          *)
(***************************************************************************)
EXTENDS Region
=============================================================================
