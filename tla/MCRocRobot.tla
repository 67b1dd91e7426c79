----------------------------- MODULE MCRocRobot ------------------------------
(* RocRobot with the four quarter turns of the joystick; cos and sin are
   libm's values for those arguments, which it takes as radians.  200 sent as
   a speed byte arrives as -56. *)
EXTENDS RocRobot

MCSpeeds == {0, 1, 40, 100, 127, -56, -128}
MCDegrees == {0, 90, 180, 270}
MCCos == [d \in MCDegrees |->
    CASE d = 0 -> 1000 [] d = 90 -> -448 [] d = 180 -> -598 [] d = 270 -> 984]
MCSin == [d \in MCDegrees |->
    CASE d = 0 -> 0 [] d = 90 -> 894 [] d = 180 -> -801 [] d = 270 -> -176]
==============================================================================
