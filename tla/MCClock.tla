------------------------------- MODULE MCClock -------------------------------
(* Instances of ClockSync for TLC *)
EXTENDS ClockSync

(* The peer's clock is behind the local one, or level with it. *)
Apart == {-2, 0}
=============================================================================
