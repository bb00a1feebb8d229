---------------------------- MODULE MCTimerList ----------------------------
(* Instances of TimerList for TLC: the keys are model values. *)
EXTENDS TimerList

CONSTANTS k1, k2, k3
=============================================================================
