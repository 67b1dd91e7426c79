------------------------------ MODULE RocRobot -------------------------------
(***************************************************************************)
(* applications/roc_robot.c on top of single_pwm_motor.c: four motors of a *)
(* mecanum chassis, each driven by two direction pins and one PWM pulse.   *)
(* After roc_robot_init only the wifi_control thread calls these           *)
(* functions, so a call is one step.                                       *)
(*                                                                         *)
(* RobotInit, RobotNext, RobotSpec: CommandProofs extends this module and  *)
(* ProtocolParser, whose names these would be.                             *)
(***************************************************************************)
EXTENDS Integers

CONSTANTS
    PERIOD,      \* MOTOR_PWM_PERIOD
    Speeds,      \* arguments of roc_robot_set_speed
    Degrees,     \* arguments of roc_robot_drive other than 0xFFFF
    Cos, Sin     \* libm's cos and sin of a member of Degrees, in thousandths

\* protocol_get_speed returns an rt_int8_t.
ASSUME SpeedsAssumption == Speeds \subseteq -128..127
ASSUME PeriodAssumption == PERIOD \in Nat \ {0}
ASSUME TrigAssumption ==
    65535 \notin Degrees /\ Cos \in [Degrees -> Int] /\ Sin \in [Degrees -> Int]

VARIABLES
    speed,       \* roc_robot.speed, an rt_int8_t
    status,      \* roc_robot.status
    motor        \* pins and pulse of each motor

robotVars == <<speed, status, motor>>

Wheel == {"LF", "LB", "RF", "RB"}

Status == {"E_FORWARD", "E_BACK", "E_LEFT", "E_RIGHT", "E_RIGHT_ROTATE",
           "E_LEFT_ROTATE", "E_STOP"}

Magnitude(t) == IF t < 0 THEN -t ELSE t

\* Mutant: no limit on the pulse.
UnlimitedPulse(t) == (PERIOD * Magnitude(t)) \div 1000

\* The pulse for a speed of t thousandths, limited to the period.
Pulse(t) ==
    LET pluse == (PERIOD * Magnitude(t)) \div 1000
    IN  IF pluse > PERIOD THEN PERIOD ELSE pluse

\* single_pwm_motor_set_speed
SetMotor(t) == [pin1 |-> t < 0, pin2 |-> t > 0, pulse |-> Pulse(t)]

\* The four calls a movement makes, speeds in percent.
Motors(lf, lb, rf, rb) ==
    [w \in Wheel |->
        SetMotor(10 * (CASE w = "LF" -> lf [] w = "LB" -> lb
                         [] w = "RF" -> rf [] w = "RB" -> rb))]

Moves(lf, lb, rf, rb, s) ==
    /\ motor' = Motors(lf, lb, rf, rb)
    /\ status' = s
    /\ UNCHANGED speed

\* roc_robot_init leaves the motors stopped and enabled, the speed zeroed.
RobotInit ==
    /\ speed = 0
    /\ motor = Motors(0, 0, 0, 0)
    /\ status = "E_STOP"

GoForward == Moves(speed, speed, speed, speed, "E_FORWARD")
GoBackward == Moves(-speed, -speed, -speed, -speed, "E_BACK")
\* Mutant: turn_right with the back wheels' signs exchanged.
TurnRightSwapped == Moves(speed, speed, -speed, speed, "E_RIGHT")
TurnRight == Moves(speed, -speed, -speed, speed, "E_RIGHT")
TurnRightRotate == Moves(speed, speed, -speed, -speed, "E_RIGHT_ROTATE")
TurnLeft == Moves(-speed, speed, speed, -speed, "E_LEFT")
TurnLeftRotate == Moves(-speed, -speed, speed, speed, "E_LEFT_ROTATE")
Stop == Moves(0, 0, 0, 0, "E_STOP")

\* roc_robot_run: translation (x, y) and rotation, status left alone.
Mixed(x, y, rotate) ==
    Motors(x + y + rotate, -x + y + rotate, -x + y - rotate, x + y - rotate)

Run(x, y, rotate) ==
    /\ motor' = Mixed(x, y, rotate)
    /\ UNCHANGED <<speed, status>>

\* Conversion of c thousandths of a speed to rt_int16_t, towards zero.
Truncated(c, s) ==
    IF c * s < 0 THEN -((-(c * s)) \div 1000) ELSE (c * s) \div 1000

\* roc_robot_drive; 0xFFFF is the joystick at rest.
Drive(degree) ==
    IF degree = 65535
    THEN Stop
    ELSE Run(Truncated(Cos[degree], speed), Truncated(Sin[degree], speed), 0)

\* roc_robot_set_speed: the motors keep the speed they were given.
SetSpeed(s) == speed' = s /\ UNCHANGED <<status, motor>>

RobotNext ==
    \/ GoForward \/ GoBackward
    \/ TurnRight \/ TurnRightRotate \/ TurnLeft \/ TurnLeftRotate
    \/ \E d \in Degrees \cup {65535} : Drive(d)
    \/ \E s \in Speeds : SetSpeed(s)

RobotSpec == RobotInit /\ [][RobotNext]_robotVars
-----------------------------------------------------------------------------
(* Properties *)

RobotTypeOK ==
    /\ speed \in -128..127
    /\ status \in Status
    /\ motor \in [Wheel -> [pin1 : BOOLEAN, pin2 : BOOLEAN, pulse : 0..PERIOD]]

\* What a wheel contributes: the pulse, signed by the pins.
Turning(w) ==
    IF motor[w].pin1 THEN -motor[w].pulse
    ELSE IF motor[w].pin2 THEN motor[w].pulse ELSE 0

\* Only the two rotate commands turn the car on the spot: after any other
\* sequence of commands, saturated or not, left and right wheels balance.
NoSpin ==
    status \notin {"E_LEFT_ROTATE", "E_RIGHT_ROTATE"} =>
        Turning("LF") + Turning("LB") = Turning("RF") + Turning("RB")
==============================================================================
