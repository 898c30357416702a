------------------------------- MODULE MCSleep -------------------------------
(***************************************************************************)
(* Small instances of Sleep for TLC.                                       *)
(***************************************************************************)
EXTENDS Sleep

CONSTANTS t1, t2

Boot2 == <<t1, t2>>
=============================================================================
