--------------------------- MODULE MCFaultManager ---------------------------
(* Instances of FaultManager for TLC *)
EXTENDS FaultManager

CONSTANTS p1, p2

(* p2 tells of p1, which may be silent, back again, or well all along. *)
Hearsay == {<<p2, p1>>}
NoGossip == {}
=============================================================================
