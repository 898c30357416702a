--------------------------- MODULE MCChannelQueue ---------------------------
(***************************************************************************)
(* Small instances of ChannelQueue for TLC.                                *)
(***************************************************************************)
EXTENDS ChannelQueue

CONSTANTS t1, t2, t3

Boot2 == <<t1, t2>>
Boot3 == <<t1, t2, t3>>
=============================================================================
