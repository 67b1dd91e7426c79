------------------------------ MODULE MCWifiCar ------------------------------
(* WifiCar with the frames of a phone: a speed byte equal to the START code,
   the joystick at rest and at 90, a button that turns the car on the spot. *)
EXTENDS WifiCar

SpeedFrame(s) == <<170, 7, 1, 0, 6, s, 0, 14 + s, 85>>
RestFrame == <<170, 8, 1, 0, 5, 255, 255, 2, 12, 85>>
UpFrame == <<170, 8, 1, 0, 5, 0, 90, 0, 104, 85>>
TurnFrame == <<170, 8, 1, 0, 13, 64, 0, 0, 86, 85>>

MCMoves == {SpeedFrame(170), RestFrame, UpFrame, TurnFrame}
MCByte == 0..255

\* After a race: nothing, or bytes of a command and the command once more.
MCGarbled == {<<>>, Tail(UpFrame) \o UpFrame}

\* After a loss only what is then in tcp_dat is followed, up to a frame or two.
LostBound == lost => wire = <<>> /\ resets = 0 /\ Len(executed) <= 1

\* The phone's frames are what the theorems about WifiCar suppose.
ASSUME MovesAreProper == ProperFrames

MCSpeeds == {40, -86}
\* cos and sin of 90, which they take for radians, in thousandths.
MCDegrees == {90}
MCCos == [d \in MCDegrees |-> -448]
MCSin == [d \in MCDegrees |-> 893]
==============================================================================
