--------------------------- MODULE MCAddressSpace ---------------------------
(***************************************************************************)
(* Three address spaces of two pages for TLC.                              *)
(***************************************************************************)
EXTENDS AddressSpace, TLC

CONSTANTS a1, a2, a3, s1, s2, s3, s4

(* Segments are told apart only by their state, and so are the address     *)
(* spaces but the first.                                                   *)
Symmetric == Permutations(Seg) \cup Permutations(AS \ {boot})
=============================================================================
