--------------------------- MODULE MCUserInterrupt ---------------------------
(***************************************************************************)
(* Small instances of UserInterrupt for TLC.                               *)
(***************************************************************************)
EXTENDS UserInterrupt

CONSTANTS t1, t2

Boot2 == <<t1, t2>>
=============================================================================
