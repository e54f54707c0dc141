------------------------------ MODULE MCTimers ------------------------------
(* Instances of Timers for TLC: delays of none, one and two ticks. *)
EXTENDS Timers

ShortDelays == {0, 1, 2}
BetweenPasses == {"between"}
DuringPasses == {"during"}
=============================================================================
