------------------------------- MODULE WifiCar -------------------------------
(***************************************************************************)
(* The path of a command through main.c: the phone writes frames to the    *)
(* TCP connection, tcprecvserv moves them to the ring buffer in whatever   *)
(* pieces recv returns, wifi_control polls the ring buffer every 5 ms,     *)
(* checks a frame and calls roc_robot.                                     *)
(*                                                                         *)
(* TcpServer, ProtocolParser and RocRobot share "ring"; the server is      *)
(* taken from the moment it accepts, the rest of TcpServer being about     *)
(* getting there.  Whatever can be lost in the ring buffer is: bytes that  *)
(* overrun it and, once a window of TcpDat is hit, any byte; "lost" says   *)
(* that it has happened.                                                   *)
(***************************************************************************)
EXTENDS Integers, Sequences, FiniteSetsExt

CONSTANTS
    Frames,                        \* the frames the phone sends
    MaxFrames, MaxConns,           \* bounds on frames and connections
    RingSize, Garbled,             \* see TcpServer
    BUFFER_SIZE, START, END, Byte, \* see ProtocolParser
    PERIOD, Speeds, Degrees, Cos, Sin   \* see RocRobot

\* As in TcpServer, ProtocolParser and RocRobot.
ASSUME FramesAssumption == Frames \subseteq Seq(0..255)
ASSUME GarbledAssumption == Garbled \subseteq Seq(0..255)
ASSUME RingAssumption == RingSize \in Nat \ {0}
ASSUME SizeAssumption == BUFFER_SIZE \in 8..256
ASSUME CodesAssumption == START # END /\ {START, END} \subseteq 0..255

VARIABLES
    server, recv_data, sock, connected, peer, wire, ring, written, conns,
    resets, lost, led,
    pc, buffer, p, avilable, preRecvLen, m_RecvDataIndex, m_recv_flag,
    m_package_length,
    speed, status, motor,
    executed,      \* the frames wifi_control has acted on
    cut            \* recv has returned less than what had arrived

Tcp == INSTANCE TcpServer WITH
    Writes <- Frames, MaxWrites <- MaxFrames, BlockSize <- 128

Parser == INSTANCE ProtocolParser WITH MaxRing <- 0

Robot == INSTANCE RocRobot

tcpOnly == <<server, recv_data, sock, connected, peer, wire, written, conns,
             resets, lost, led>>
parserOnly == <<pc, buffer, p, avilable, preRecvLen, m_RecvDataIndex,
                m_recv_flag, m_package_length>>
robotVars == <<speed, status, motor>>
vars == <<tcpOnly, ring, parserOnly, robotVars, executed, cut>>

Init ==
    /\ server = "accept" /\ recv_data = "held" /\ sock = "listening"
    /\ connected = -1 /\ led = "flash"
    /\ peer = "none" /\ wire = <<>> /\ written = <<>> /\ conns = 0 /\ resets = 0
    /\ lost = FALSE
    /\ Parser!Init
    /\ Robot!RobotInit
    /\ executed = <<>> /\ cut = FALSE

\* The frame in the package buffer.
Frame == [k \in 1..m_package_length |-> buffer[k - 1]]

\* Mutant: two cases of the button switch exchanged.
PressSwapped(button) ==
    CASE button = 8     -> Robot!GoForward
      [] button = 32    -> Robot!GoBackward
      [] button = 16    -> Robot!TurnLeft
      [] button = 4     -> Robot!TurnRight
      [] button = 4096  -> Robot!TurnRightRotate
      [] button = 16384 -> Robot!TurnLeftRotate
      [] OTHER          -> UNCHANGED robotVars

\* The switch on protocol_get_button_value.
Press(button) ==
    CASE button = 8     -> Robot!GoForward
      [] button = 32    -> Robot!GoBackward
      [] button = 16    -> Robot!TurnLeft
      [] button = 4     -> Robot!TurnRight
      [] button = 4096  -> Robot!TurnLeftRotate
      [] button = 16384 -> Robot!TurnRightRotate
      [] OTHER          -> UNCHANGED robotVars

\* The switch on protocol_get_function.
Act(function) ==
    CASE function = 5  -> Robot!Drive(Parser!Degree)
      [] function = 6  -> Robot!SetSpeed(Parser!Speed)
      [] function = 13 -> Press(Parser!Button)
      [] OTHER         -> UNCHANGED robotVars

\* wifi_control acts on an accepted frame.
Execute ==
    /\ Parser!Dispatch
    /\ Act(Parser!Function)
    /\ executed' = Append(executed, Frame)
    /\ UNCHANGED <<tcpOnly, cut>>

\* wifi_control's other steps.
PollStep == Parser!Poll /\ UNCHANGED <<tcpOnly, robotVars, executed, cut>>

WifiControl == PollStep \/ Execute

TcpRecv ==
    /\ \/ Tcp!Accept \/ Tcp!AcceptFails
       \/ \E n \in 1..Len(wire) : Tcp!Received(n)
       \/ Tcp!ReceivedZero
       \/ Tcp!ReceiveError
    /\ cut' = (cut \/ (server = "recv" /\ peer # "broken" /\ wire' # <<>>))
    /\ UNCHANGED <<parserOnly, robotVars, executed>>

Phone == Tcp!Peer /\ UNCHANGED <<parserOnly, robotVars, executed, cut>>

Next == WifiControl \/ TcpRecv \/ Phone

\* Both threads are scheduled, but nothing makes accept succeed; the phone owes
\* nothing.
Spec ==
    /\ Init /\ [][Next]_vars
    /\ WF_vars(WifiControl) /\ WF_vars(server = "recv" /\ TcpRecv)
-----------------------------------------------------------------------------
(* Properties *)

\* While the ring buffer has lost nothing, the frames acted on are frames the
\* phone wrote, in the order it wrote them and none twice, however the stream was
\* cut and whatever connection broke in the middle of a frame.
NoPhantom ==
    ~lost => \E pick \in [1..Len(executed) -> 1..Len(written)] :
        /\ \A j \in 1..Len(executed) : written[pick[j]] = executed[j]
        /\ \A j, k \in 1..Len(executed) : j < k => pick[j] < pick[k]

\* A frame between START and END whose length byte says how long it is and is
\* not the END that protocol_recev_data would take it for.
Framed(f) ==
    /\ f \in Seq(0..255) /\ Len(f) \in 8..255
    /\ f[1] = START /\ f[Len(f)] = END
    /\ f[2] = Len(f) - 2 /\ f[2] # END

\* The package buffer with the first m bytes of f.
Padded(f, m) == [i \in 0..(BUFFER_SIZE - 1) |-> IF i < m THEN f[i + 1] ELSE 0]

\* A frame as the protocol describes it: it fits and its check sum is right.
\* START and END may be among its data.
Proper(f) ==
    /\ Framed(f) /\ Len(f) <= BUFFER_SIZE
    /\ LET b == Padded(f, Len(f))
           n == Len(f) - 8
       IN  (b[1] + b[2] + b[3] + b[4] + Parser!DataSum(b, n)) % 65536 = b[5 + n] * 256 + b[6 + n]

ProperFrames == \A f \in Frames : Proper(f)

FunctionOf(f) == f[5]
WordOf(f) == f[6] * 256 + f[7]

\* What the buttons mean for the wheels LF, LB, RF, RB.
Gains == [button \in {8, 32, 16, 4, 4096, 16384} |->
    CASE button = 8     -> <<1, 1, 1, 1>>
      [] button = 32    -> <<-1, -1, -1, -1>>
      [] button = 16    -> <<-1, 1, 1, -1>>
      [] button = 4     -> <<1, -1, -1, 1>>
      [] button = 4096  -> <<-1, -1, 1, 1>>
      [] button = 16384 -> <<1, 1, -1, -1>>]

\* A frame that moves or stops the car; other buttons do not.
Moving(f) == FunctionOf(f) = 5 \/ (FunctionOf(f) = 13 /\ WordOf(f) \in DOMAIN Gains)

\* Of the frames h acted on, the first n that set the speed, and those that move
\* or stop the car.
SpeedFrames(h, n) == {k \in 1..n : FunctionOf(h[k]) = 6}
MoveFrames(h) == {k \in 1..Len(h) : Moving(h[k])}

SpeedAfter(h, n) ==
    IF SpeedFrames(h, n) = {} THEN 0
    ELSE Parser!Int8(h[Max(SpeedFrames(h, n))][6])

\* The wheel speeds a moving frame asks for at speed s.
Wanted(f, s) ==
    IF FunctionOf(f) = 5
    THEN IF WordOf(f) = 65535 THEN Robot!Motors(0, 0, 0, 0)
         ELSE Robot!Mixed(Robot!Truncated(Cos[WordOf(f)], s),
                          Robot!Truncated(Sin[WordOf(f)], s), 0)
    ELSE LET g == Gains[WordOf(f)]
         IN  Robot!Motors(g[1] * s, g[2] * s, g[3] * s, g[4] * s)

\* No frame acted on was shorter than the protocol allows.
WholeLength == \A k \in 1..Len(executed) : Len(executed[k]) >= 8

\* The motors do what the last moving frame asked for, at the speed of the last
\* speed frame before it: a speed frame alone never moves or stops a wheel.  What
\* is put together after a loss may be too short to say anything.
MotorsFollow ==
    ~lost \/ WholeLength =>
        motor = IF MoveFrames(executed) = {} THEN Robot!Motors(0, 0, 0, 0)
                ELSE LET k == Max(MoveFrames(executed))
                     IN  Wanted(executed[k], SpeedAfter(executed, k))

\* While no connection has broken, recv has returned all that had arrived and the
\* ring buffer has lost nothing, the frames acted on are the first the phone
\* wrote, none skipped, and once there is nothing left to read they are all.
NoneSkipped ==
    resets = 0 /\ ~cut /\ ~lost =>
        /\ Len(executed) <= Len(written)
        /\ \A j \in 1..Len(executed) : executed[j] = written[j]
        /\ pc = "recv" /\ ring = <<>> /\ wire = <<>> => Len(executed) = Len(written)

\* Once its connection is accepted every frame is acted on, also when several
\* wait in the ring buffer for one poll, unless recv cut what the phone wrote, a
\* connection broke or the ring buffer lost bytes.
AllExecuted ==
    \A n \in 1..MaxFrames :
        server = "recv" /\ Len(written) >= n ~>
            Len(executed) >= n \/ resets > 0 \/ cut \/ lost
==============================================================================
