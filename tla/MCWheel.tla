------------------------------ MODULE MCWheel ------------------------------
(* Wheel with a coarse tick counter that wraps within the run and gains that
   drive the controller into its limits.  A count in 2 ticks is 500 per second,
   30 rpm. *)
EXTENDS Wheel

MCTargets == {0, 60}
MCGarbage == {0, 3}
=============================================================================
