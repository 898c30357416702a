------------------------------ MODULE MCSegment ------------------------------
(***************************************************************************)
(* Small physical memories for TLC.                                        *)
(***************************************************************************)
EXTENDS Segment

(* Three reservations in a row, as in segment_initialize. *)
BootReserved == <<<<0, 2>>, <<2, 1>>, <<3, 1>>>>

(* The second one is the area of the video memory. *)
Video == {2}
=============================================================================
