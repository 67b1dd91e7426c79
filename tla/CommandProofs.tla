---------------------------- MODULE CommandProofs ----------------------------
(***************************************************************************)
(* The two ends of a command: the frame that protocol_parser.c takes from  *)
(* the stream and the movement that roc_robot.c makes of it.               *)
(*                                                                         *)
(* For every buffer size the rt_uint8_t indices can address and every      *)
(* alphabet of bytes: protocol_recev_data never stores outside             *)
(* pareser_package.buffer.  The write position alone is not inductive; it  *)
(* is one ahead of m_RecvDataIndex, and the "buffer is over" check bounds  *)
(* that index while the call goes on.                                      *)
(*                                                                         *)
(* For every PWM period, every set of speeds and degrees and any functions *)
(* for cos and sin: pulses stay within the period, and only the rotate     *)
(* commands make the car spin.                                             *)
(***************************************************************************)
EXTENDS ProtocolParser, RocRobot, SequenceTheorems, TLAPS

-----------------------------------------------------------------------------
(* protocol_parser.c *)


\* While a frame is open the write position follows the index, and the index
\* leaves room for this byte and an END.
Follows ==
    pc = "recv" /\ avilable =>
        p = m_RecvDataIndex + 1 /\ m_RecvDataIndex < BUFFER_SIZE - 1

ParserInv == TypeOK /\ Follows

\* Storing a byte keeps the shape of the buffer, wherever it is stored.
LEMMA StoreType ==
    ASSUME NEW b \in [0..(BUFFER_SIZE - 1) -> 0..255], NEW i, NEW d \in 0..255
    PROVE  [b EXCEPT ![i] = d] \in [0..(BUFFER_SIZE - 1) -> 0..255]
  OBVIOUS

\* A value that fits in eight bits is unchanged by the conversion.
LEMMA SmallMod ==
    ASSUME NEW n \in Nat, n < 256
    PROVE  n % 256 = n
  OBVIOUS

\* The eight-bit index stays an eight-bit index.
LEMMA NextIndexType ==
    ASSUME m_RecvDataIndex \in 0..255
    PROVE  NextIndex \in 0..255
  BY DEF NextIndex

LEMMA InitParserInv == Init => ParserInv
<1> SUFFICES ASSUME Init
             PROVE  ParserInv
    OBVIOUS
<1>1. EmptyBuffer \in [0..(BUFFER_SIZE - 1) -> 0..255]
  BY DEF EmptyBuffer
<1>2. ring \in Seq(Byte)
  BY EmptySeq DEF Init
<1>3. buffer \in [0..(BUFFER_SIZE - 1) -> 0..255]
  <2>1. buffer = EmptyBuffer
    BY DEF Init
  <2> QED
    BY <1>1, <2>1, Zenon
<1>4. preRecvLen \in 0..255 /\ m_RecvDataIndex \in 0..255 /\ p \in Nat
  BY DEF Init
<1>5. m_package_length \in 0..255
  BY DEF Init
<1>6. m_recv_flag = FALSE /\ avilable = FALSE /\ pc = "recv"
  BY DEF Init
<1> HIDE DEF Init
<1> QED
  BY <1>2, <1>3, <1>4, <1>5, <1>6 DEF ParserInv, TypeOK, Follows

\* The ring buffer holds bytes.
LEMMA RingType == TypeOK => ring \in Seq(Byte)
  BY DEF TypeOK

\* One byte taken from the ring buffer, whichever path the iteration takes.
LEMMA ByteKeepsParserInv ==
    ASSUME ParserInv, ring # <<>>, NEW d \in Byte, ReceiveByte(d)
    PROVE  ParserInv'
<1>d. d \in 0..255
  BY ByteAssumption
<1>r. ring' \in Seq(Byte)
  <2>1. ring' = Tail(ring)
    BY DEF ReceiveByte, ReceiveStart, ReceiveSkip, ReceiveEnd, ReceiveStore, Taken
  <2>2. TypeOK
    BY DEF ParserInv
  <2>3. ring \in Seq(Byte)
    BY <2>2, RingType, Zenon
  <2> QED
    BY <2>1, <2>3, HeadTailProperties
<1>b. \A i : [buffer EXCEPT ![i] = d] \in [0..(BUFFER_SIZE - 1) -> 0..255]
  <2>1. buffer \in [0..(BUFFER_SIZE - 1) -> 0..255]
    BY Zenon DEF ParserInv, TypeOK
  <2> QED
    BY <1>d, <2>1, StoreType, Zenon
<1>1. CASE ReceiveStart(d)
  <2>1. buffer' \in [0..(BUFFER_SIZE - 1) -> 0..255]
    BY <1>1, <1>b, Zenon DEF ReceiveStart
  <2> QED
    BY <1>1, <1>r, <2>1, BufferAssumption
    DEF ReceiveStart, ParserInv, TypeOK, Follows
<1>2. CASE ReceiveSkip(d)
  BY <1>2, <1>r DEF ReceiveSkip, locals, package, ParserInv, TypeOK, Follows
<1>3. CASE ReceiveEnd(d)
  <2>1. buffer' \in [0..(BUFFER_SIZE - 1) -> 0..255]
    BY <1>3, <1>b DEF ReceiveEnd
  <2>2. m_package_length' \in 0..255
    BY <1>3 DEF ReceiveEnd, ParserInv, TypeOK
  <2> QED
    BY <1>3, <1>r, <2>1, <2>2
    DEF ReceiveEnd, locals, ParserInv, TypeOK, Follows
<1>4. CASE ReceiveStore(d)
  <2>1. buffer' \in [0..(BUFFER_SIZE - 1) -> 0..255]
    BY <1>4, <1>b DEF ReceiveStore
  <2>2. /\ pc = "recv" /\ avilable
        /\ p' = p + 1
        /\ m_RecvDataIndex' = NextIndex
        /\ preRecvLen' = Announced(d)
        /\ pc' \in {"recv", "parse"} /\ avilable' \in BOOLEAN
        /\ UNCHANGED <<m_recv_flag, m_package_length>>
    BY <1>4 DEF ReceiveStore, Taken
  <2>3. pc' = "recv" /\ avilable' => ~Exhausted
    BY <1>4 DEF ReceiveStore
  <2>4. Announced(d) \in 0..255
    BY <1>d DEF Announced, ParserInv, TypeOK
  <2>5. NextIndex \in 0..255
    BY NextIndexType DEF ParserInv, TypeOK
  <2>6. TypeOK'
    BY <1>r, <2>1, <2>2, <2>4, <2>5 DEF ParserInv, TypeOK
  <2>7. p = m_RecvDataIndex + 1 /\ NextIndex = m_RecvDataIndex + 1
    <3>1. /\ p = m_RecvDataIndex + 1
          /\ m_RecvDataIndex < BUFFER_SIZE - 1
          /\ m_RecvDataIndex \in 0..255
      BY <2>2 DEF ParserInv, Follows, TypeOK
    <3>2. m_RecvDataIndex + 1 \in Nat /\ m_RecvDataIndex + 1 < 256
      BY <3>1, BufferAssumption
    <3>3. (m_RecvDataIndex + 1) % 256 = m_RecvDataIndex + 1
      BY <3>2, SmallMod
    <3> QED
      BY <3>1, <3>3 DEF NextIndex
  <2>8. Follows'
    BY <2>2, <2>3, <2>5, <2>7, BufferAssumption
    DEF Follows, Exhausted, ParserInv, TypeOK
  <2> QED
    BY <2>6, <2>8 DEF ParserInv
<1> QED
  BY <1>1, <1>2, <1>3, <1>4 DEF ReceiveByte

LEMMA StepKeepsParserInv == ParserInv /\ [Next]_vars => ParserInv'
<1> SUFFICES ASSUME ParserInv, [Next]_vars
             PROVE  ParserInv'
    OBVIOUS
<1>1. CASE ring # <<>> /\ ReceiveByte(Head(ring))
  <2>1. Head(ring) \in Byte
    BY <1>1, HeadTailProperties DEF ParserInv, TypeOK
  <2> QED
    BY <1>1, <2>1, ByteKeepsParserInv
<1>2. CASE ReceiveDone
  BY <1>2 DEF ReceiveDone, locals, package, ParserInv, TypeOK, Follows
<1>3. CASE Parse
  <2>1. pc' \in {"dispatch", "reinit"}
    BY <1>3 DEF Parse
  <2> QED
    BY <1>3, <2>1 DEF Parse, locals, package, ParserInv, TypeOK, Follows
<1>4. CASE Reinit
  <2>1. EmptyBuffer \in [0..(BUFFER_SIZE - 1) -> 0..255]
    BY DEF EmptyBuffer
  <2> QED
    <3>1. buffer' \in [0..(BUFFER_SIZE - 1) -> 0..255]
      BY <1>4, <2>1 DEF Reinit
    <3>2. preRecvLen' \in 0..255 /\ m_RecvDataIndex' \in 0..255 /\ p' \in Nat
      BY <1>4 DEF Reinit
    <3>3. m_package_length' \in 0..255
      BY <1>4 DEF Reinit
    <3>4. m_recv_flag' = FALSE /\ avilable' = FALSE /\ pc' = "recv" /\ ring' = ring
      BY <1>4 DEF Reinit
    <3> QED
      BY <3>1, <3>2, <3>3, <3>4 DEF ParserInv, TypeOK, Follows
<1>5. CASE Dispatch
  BY <1>5 DEF Dispatch, locals, package, ParserInv, TypeOK, Follows
<1>6. ASSUME NEW d \in Byte, Arrive(d)
      PROVE  ParserInv'
  <2>1. ring' \in Seq(Byte)
    BY <1>6, AppendProperties DEF Arrive, ParserInv, TypeOK
  <2> QED
    BY <1>6, <2>1 DEF Arrive, locals, package, ParserInv, TypeOK, Follows
<1>7. CASE UNCHANGED vars
  BY <1>7 DEF vars, locals, package, ParserInv, TypeOK, Follows
<1> QED
  BY <1>1, <1>2, <1>3, <1>4, <1>5, <1>6, <1>7 DEF Next, Poll

\* The parser's state keeps its types, the eight-bit counters included.
THEOREM ParserTypes == Spec => []TypeOK
<1>1. ParserInv => TypeOK
  BY DEF ParserInv
<1> QED
  BY <1>1, InitParserInv, StepKeepsParserInv, PTL DEF Spec

\* Whatever bytes a peer sends, in whatever pieces the polls see them, every
\* byte protocol_recev_data stores goes inside pareser_package.buffer.
THEOREM StoresStayInBuffer == Spec => []WriteInBounds
<1>1. ParserInv => WriteInBounds
  BY BufferAssumption DEF ParserInv, TypeOK, Follows, WriteInBounds
<1> QED
  BY <1>1, InitParserInv, StepKeepsParserInv, PTL DEF Spec
-----------------------------------------------------------------------------
(* What is acted on is a frame *)

\* A frame is open behind its START; the flag is set by nothing but an END at
\* the announced place, and survives until reinit; dispatch is reached only
\* through the comparison of the check sums.
Opened == pc = "recv" => ~m_recv_flag /\ (avilable => buffer[0] = START)

Framed ==
    m_recv_flag =>
        /\ preRecvLen < BUFFER_SIZE - 1
        /\ buffer[0] = START /\ buffer[preRecvLen + 1] = END
        /\ m_package_length = (preRecvLen + 2) % 256

Checked == pc = "dispatch" => m_recv_flag /\ (InBuffer => CheckSum = Sum)

FrameInv == ParserInv /\ Opened /\ Framed /\ Checked

\* What the check reads depends on the buffer alone.
LEMMA SameFrame ==
    ASSUME UNCHANGED buffer
    PROVE  UNCHANGED <<InBuffer, CheckSum, Sum>>
  BY DEF InBuffer, CheckSum, Sum, DataLen, Len8, Function

\* A store inside the buffer changes the byte at its place.
LEMMA StoreInside ==
    ASSUME NEW D, NEW T, NEW b \in [D -> T], NEW i \in D, NEW k \in D, NEW d
    PROVE  [b EXCEPT ![i] = d][k] = IF k = i THEN d ELSE b[k]
  OBVIOUS

LEMMA ByteKeepsFrameInv ==
    ASSUME FrameInv, ring # <<>>, NEW d \in Byte, ReceiveByte(d)
    PROVE  Opened' /\ Framed' /\ Checked'
<1>c. pc = "recv"
  BY DEF ReceiveByte, Taken, ReceiveStart, ReceiveSkip, ReceiveEnd, ReceiveStore
<1>t. ~m_recv_flag /\ (avilable => buffer[0] = START)
  BY <1>c DEF FrameInv, Opened
<1>b. buffer \in [0..(BUFFER_SIZE - 1) -> 0..255]
  BY DEF FrameInv, ParserInv, TypeOK
<1>0. 0 \in 0..(BUFFER_SIZE - 1)
  BY BufferAssumption
<1>p. ASSUME avilable
      PROVE  /\ p = m_RecvDataIndex + 1 /\ m_RecvDataIndex < BUFFER_SIZE - 1
             /\ p \in 0..(BUFFER_SIZE - 1) /\ p # 0
  <2>1. /\ p = m_RecvDataIndex + 1 /\ m_RecvDataIndex \in Nat
        /\ m_RecvDataIndex < BUFFER_SIZE - 1
    <3>1. m_RecvDataIndex \in 0..255
      BY DEF FrameInv, ParserInv, TypeOK
    <3>2. p = m_RecvDataIndex + 1 /\ m_RecvDataIndex < BUFFER_SIZE - 1
      BY <1>p, <1>c DEF FrameInv, ParserInv, Follows
    <3> QED
      BY <3>1, <3>2
  <2> QED
    BY <2>1, BufferAssumption
<1>1. CASE ReceiveStart(d)
  <2>1. /\ pc' = "recv" /\ ~m_recv_flag' /\ buffer' = [buffer EXCEPT ![0] = START]
    BY <1>1, <1>c, <1>t DEF ReceiveStart, Taken
  <2> QED
    BY <1>b, <1>0, <2>1 DEF Opened, Framed, Checked
<1>2. CASE ReceiveSkip(d)
  BY <1>2, <1>c, <1>t DEF ReceiveSkip, locals, package, Opened, Framed, Checked
<1>3. CASE ReceiveEnd(d)
  <2>1. /\ pc' = "parse" /\ m_recv_flag' /\ avilable
        /\ buffer' = [buffer EXCEPT ![p] = END]
        /\ m_package_length' = (preRecvLen + 2) % 256
        /\ preRecvLen' = preRecvLen /\ preRecvLen = m_RecvDataIndex
    BY <1>3 DEF ReceiveEnd, Completes, locals
  <2>2. p = preRecvLen + 1 /\ p \in 0..(BUFFER_SIZE - 1) /\ p # 0
    BY <1>p, <2>1
  <2>5. preRecvLen < BUFFER_SIZE - 1
    BY <1>p, <2>1
  <2>3. /\ [buffer EXCEPT ![p] = END][0] = buffer[0]
        /\ [buffer EXCEPT ![p] = END][p] = END
    BY <1>0, <1>b, <2>2, StoreInside, Zenon
  <2>4. buffer[0] = START /\ buffer'[0] = START /\ buffer'[p] = END
    BY <1>t, <2>1, <2>3
  <2> QED
    BY <2>1, <2>2, <2>4, <2>5 DEF Opened, Framed, Checked
<1>4. CASE ReceiveStore(d)
  <2>1. /\ pc' \in {"recv", "parse"} /\ ~m_recv_flag' /\ avilable
        /\ buffer' = [buffer EXCEPT ![p] = d]
    BY <1>4, <1>t DEF ReceiveStore
  <2>2. p \in 0..(BUFFER_SIZE - 1) /\ p # 0
    BY <1>p, <2>1
  <2>3. [buffer EXCEPT ![p] = d][0] = buffer[0]
    BY <1>0, <1>b, <2>2, StoreInside, Zenon
  <2>4. buffer'[0] = START
    BY <1>t, <2>1, <2>3
  <2> QED
    BY <2>1, <2>4 DEF Opened, Framed, Checked
<1> QED
  BY <1>1, <1>2, <1>3, <1>4 DEF ReceiveByte

LEMMA StepKeepsFrameInv == FrameInv /\ [Next]_vars => FrameInv'
<1> SUFFICES ASSUME FrameInv, [Next]_vars
             PROVE  Opened' /\ Framed' /\ Checked'
    BY StepKeepsParserInv DEF FrameInv
<1>t. Opened /\ Framed /\ Checked
  BY DEF FrameInv
<1>1. CASE ring # <<>> /\ ReceiveByte(Head(ring))
  <2>1. Head(ring) \in Byte
    BY <1>1, HeadTailProperties DEF FrameInv, ParserInv, TypeOK
  <2> QED
    BY <1>1, <2>1, ByteKeepsFrameInv
<1>2. CASE ReceiveDone
  BY <1>2, <1>t DEF ReceiveDone, locals, package, Opened, Framed, Checked
<1>3. CASE Parse
  <2>1. /\ pc' = "dispatch" => m_recv_flag /\ (InBuffer => CheckSum = Sum)
        /\ pc' \in {"dispatch", "reinit"}
    BY <1>3 DEF Parse, Verdicts
  <2>2. UNCHANGED <<locals, package>>
    BY <1>3 DEF Parse
  <2>3. UNCHANGED <<buffer, m_recv_flag, m_package_length, preRecvLen>>
    BY <2>2 DEF locals, package
  <2>4. UNCHANGED <<InBuffer, CheckSum, Sum>>
    BY <2>3, SameFrame
  <2>5. Checked'
    BY <2>1, <2>3, <2>4 DEF Checked
  <2> QED
    BY <1>t, <2>1, <2>3, <2>5 DEF Opened, Framed
<1>4. CASE Reinit
  BY <1>4 DEF Reinit, Opened, Framed, Checked
<1>5. CASE Dispatch
  BY <1>5, <1>t DEF Dispatch, locals, package, Opened, Framed, Checked
<1>6. CASE UNCHANGED <<pc, locals, package>>
  <2>1. UNCHANGED <<pc, buffer, m_recv_flag, m_package_length, preRecvLen, avilable>>
    BY <1>6 DEF locals, package
  <2>2. UNCHANGED <<InBuffer, CheckSum, Sum>>
    BY <2>1, SameFrame
  <2> QED
    BY <1>t, <2>1, <2>2 DEF Opened, Framed, Checked
<1>7. ASSUME NEW d \in Byte, Arrive(d)
      PROVE  Opened' /\ Framed' /\ Checked'
  BY <1>6, <1>7 DEF Arrive
<1>8. CASE UNCHANGED vars
  BY <1>6, <1>8 DEF vars
<1> QED
  BY <1>1, <1>2, <1>3, <1>4, <1>5, <1>7, <1>8 DEF Next, Poll

\* The eight-bit arithmetic of the length agrees with the positions: a frame
\* whose length byte says where it ended lies inside the buffer, so that its
\* check sum was the one compared.
LEMMA FrameInvAccepts == FrameInv => AcceptedIsWhole
<1> SUFFICES ASSUME FrameInv, pc = "dispatch",
                    m_package_length = Len8 + 2, Len8 >= 6
             PROVE  WholeFrame
    BY DEF AcceptedIsWhole
<1>1. /\ m_recv_flag /\ (InBuffer => CheckSum = Sum)
      /\ preRecvLen < BUFFER_SIZE - 1 /\ preRecvLen \in 0..255
      /\ buffer[0] = START /\ buffer[preRecvLen + 1] = END
      /\ m_package_length = (preRecvLen + 2) % 256
      /\ m_package_length \in 0..255
  BY DEF FrameInv, Checked, Framed, ParserInv, TypeOK
<1>2. Len8 \in 0..255
  <2>1. 1 \in 0..(BUFFER_SIZE - 1)
    BY BufferAssumption
  <2> QED
    BY <2>1 DEF FrameInv, ParserInv, TypeOK, Len8
<1>3. preRecvLen + 2 < 256
  <2>1. CASE preRecvLen + 2 = 256
    BY <1>1, <1>2, <2>1
  <2> QED
    BY <1>1, <2>1, BufferAssumption
<1>4. Len8 = preRecvLen
  <2>1. preRecvLen + 2 \in Nat /\ (preRecvLen + 2) % 256 = preRecvLen + 2
    BY <1>1, <1>3, SmallMod
  <2> QED
    BY <1>1, <1>2, <2>1
<1>5. InBuffer
  <2>1. Len8 - 6 \in Nat /\ (Len8 - 6) % 256 = Len8 - 6
    BY <1>2, SmallMod
  <2> QED
    BY <1>1, <1>2, <1>4, <2>1, BufferAssumption DEF InBuffer, DataLen
<1> QED
  BY <1>1, <1>4, <1>5 DEF WholeFrame

\* Whatever bytes arrive, and however the polls cut them, wifi_control acts on
\* nothing but what protocol_parser compared: a frame with START and END where
\* its length says, and with a matching check sum.
THEOREM AcceptedFramesAreWhole == Spec => []AcceptedIsWhole
<1>1. Init => FrameInv
  <2>1. Init => Opened /\ Framed /\ Checked
    BY DEF Init, Opened, Framed, Checked
  <2> QED
    BY <2>1, InitParserInv DEF FrameInv
<1> QED
  BY <1>1, StepKeepsFrameInv, FrameInvAccepts, PTL DEF Spec

-----------------------------------------------------------------------------
(* roc_robot.c *)


\* The product of two naturals is a natural.
LEMMA ProductNat ==
    ASSUME NEW a \in Nat, NEW b \in Nat
    PROVE  a * b \in Nat
  OBVIOUS

\* The clamp in single_pwm_motor_set_speed keeps the pulse within the period.
LEMMA PulseInPeriod ==
    ASSUME NEW t \in Int
    PROVE  Pulse(t) \in 0..PERIOD
<1> DEFINE u == PERIOD * Magnitude(t)
<1>1. Magnitude(t) \in Nat
  BY DEF Magnitude
<1>2. u \in Nat
  BY <1>1, PeriodAssumption, ProductNat
<1> HIDE DEF u
<1>3. u \div 1000 \in Nat
  BY <1>2
<1>4. Pulse(t) = IF u \div 1000 > PERIOD THEN PERIOD ELSE u \div 1000
  BY DEF Pulse, u
<1> QED
  BY <1>3, <1>4, PeriodAssumption

Record == [pin1 : BOOLEAN, pin2 : BOOLEAN, pulse : 0..PERIOD]

\* A motor call leaves pins and pulse well formed.
LEMMA SetMotorType ==
    ASSUME NEW t \in Int
    PROVE  SetMotor(t) \in Record
  BY PulseInPeriod DEF SetMotor, Record

\* What the four motor calls of a movement leave behind.
LEMMA MotorsValue ==
    ASSUME NEW lf \in Int, NEW lb \in Int, NEW rf \in Int, NEW rb \in Int
    PROVE  /\ Motors(lf, lb, rf, rb) \in [Wheel -> Record]
           /\ Motors(lf, lb, rf, rb)["LF"] = SetMotor(10 * lf)
           /\ Motors(lf, lb, rf, rb)["LB"] = SetMotor(10 * lb)
           /\ Motors(lf, lb, rf, rb)["RF"] = SetMotor(10 * rf)
           /\ Motors(lf, lb, rf, rb)["RB"] = SetMotor(10 * rb)
<1> DEFINE M == Motors(lf, lb, rf, rb)
<1>2. /\ M["LF"] = SetMotor(10 * lf)
      /\ M["LB"] = SetMotor(10 * lb)
      /\ M["RF"] = SetMotor(10 * rf)
      /\ M["RB"] = SetMotor(10 * rb)
  BY DEF Motors, Wheel
<1> DEFINE t(w) == 10 * (CASE w = "LF" -> lf [] w = "LB" -> lb
                           [] w = "RF" -> rf [] w = "RB" -> rb)
<1>3. \A w \in Wheel : SetMotor(t(w)) \in Record
  <2>1. \A w \in Wheel : t(w) \in Int
    BY DEF Wheel
  <2> HIDE DEF t
  <2> QED
    BY <2>1, SetMotorType
<1>4. M = [w \in Wheel |-> SetMotor(t(w))]
  BY DEF Motors
<1> HIDE DEF t, M
<1>5. M \in [Wheel -> Record]
  BY <1>3, <1>4
<1> QED
  BY <1>2, <1>5 DEF M

RobotInv == RobotTypeOK /\ NoSpin

\* A movement keeps the types; it keeps the car from spinning when the left
\* wheels turn like the right ones, side by side or crosswise.
LEMMA MoveKeepsInv ==
    ASSUME RobotInv,
           NEW lf \in Int, NEW lb \in Int, NEW rf \in Int, NEW rb \in Int,
           NEW s \in Status,
           Moves(lf, lb, rf, rb, s),
           \/ lf = rf /\ lb = rb
           \/ lf = rb /\ lb = rf
           \/ s \in {"E_LEFT_ROTATE", "E_RIGHT_ROTATE"}
    PROVE  RobotInv'
<1>m. /\ motor'["LF"] = SetMotor(10 * lf) /\ motor'["LB"] = SetMotor(10 * lb)
      /\ motor'["RF"] = SetMotor(10 * rf) /\ motor'["RB"] = SetMotor(10 * rb)
  <2>1. motor' = Motors(lf, lb, rf, rb)
    BY DEF Moves
  <2>2. /\ Motors(lf, lb, rf, rb)["LF"] = SetMotor(10 * lf)
        /\ Motors(lf, lb, rf, rb)["LB"] = SetMotor(10 * lb)
        /\ Motors(lf, lb, rf, rb)["RF"] = SetMotor(10 * rf)
        /\ Motors(lf, lb, rf, rb)["RB"] = SetMotor(10 * rb)
    BY DEF Motors, Wheel
  <2> QED
    BY <2>1, <2>2, Zenon
<1>1. motor' \in [Wheel -> Record]
  BY MotorsValue DEF Moves
<1>2. RobotTypeOK'
  BY <1>1 DEF RobotInv, RobotTypeOK, Moves, Record
<1>3. CASE s \in {"E_LEFT_ROTATE", "E_RIGHT_ROTATE"}
  BY <1>2, <1>3 DEF RobotInv, NoSpin, Moves
<1>4. CASE \/ lf = rf /\ lb = rb
           \/ lf = rb /\ lb = rf
  <2> DEFINE T(m) == IF m.pin1 THEN -m.pulse
                     ELSE IF m.pin2 THEN m.pulse ELSE 0
  <2>1. \A m \in Record : T(m) \in Int
    BY PeriodAssumption DEF Record
  <2>2. \/ motor'["LF"] = motor'["RF"] /\ motor'["LB"] = motor'["RB"]
        \/ motor'["LF"] = motor'["RB"] /\ motor'["LB"] = motor'["RF"]
    BY <1>m, <1>4
  <2>3. /\ motor'["LF"] \in Record /\ motor'["LB"] \in Record
        /\ motor'["RF"] \in Record /\ motor'["RB"] \in Record
    BY <1>1 DEF Wheel
  <2>4. /\ Turning("LF")' = T(motor'["LF"]) /\ Turning("LB")' = T(motor'["LB"])
        /\ Turning("RF")' = T(motor'["RF"]) /\ Turning("RB")' = T(motor'["RB"])
    BY DEF Turning
  <2> HIDE DEF T
  <2>5. Turning("LF")' + Turning("LB")' = Turning("RF")' + Turning("RB")'
    BY <2>1, <2>2, <2>3, <2>4
  <2> QED
    BY <1>2, <2>5 DEF RobotInv, NoSpin
<1> QED
  BY <1>3, <1>4

\* cos and sin give integers.
LEMMA TrigInt ==
    ASSUME NEW d \in Degrees
    PROVE  Cos[d] \in Int /\ Sin[d] \in Int
  BY TrigAssumption

\* Truncation to an integer number of percent.
LEMMA TruncatedInt ==
    ASSUME NEW c \in Int, NEW s \in Int
    PROVE  Truncated(c, s) \in Int
<1>1. c * s \in Int
  OBVIOUS
<1> QED
  BY <1>1 DEF Truncated

\* What roc_robot_drive hands to roc_robot_run.
LEMMA DriveInt ==
    ASSUME NEW d \in Degrees, NEW s \in Int
    PROVE  Truncated(Cos[d], s) \in Int /\ Truncated(Sin[d], s) \in Int
  BY TrigInt, TruncatedInt

LEMMA StepKeepsRobotInv == RobotInv /\ [RobotNext]_robotVars => RobotInv'
<1> SUFFICES ASSUME RobotInv, [RobotNext]_robotVars
             PROVE  RobotInv'
    OBVIOUS
<1>s. speed \in Int /\ -speed \in Int /\ status \in Status
  BY DEF RobotInv, RobotTypeOK
<1>1. CASE GoForward
  BY <1>1, <1>s, MoveKeepsInv DEF GoForward, Status
<1>2. CASE GoBackward
  BY <1>2, <1>s, MoveKeepsInv DEF GoBackward, Status
<1>3. CASE TurnRight
  BY <1>3, <1>s, MoveKeepsInv DEF TurnRight, Status
<1>4. CASE TurnRightRotate
  BY <1>4, <1>s, MoveKeepsInv DEF TurnRightRotate, Status
<1>5. CASE TurnLeft
  BY <1>5, <1>s, MoveKeepsInv DEF TurnLeft, Status
<1>6. CASE TurnLeftRotate
  BY <1>6, <1>s, MoveKeepsInv DEF TurnLeftRotate, Status
<1>7. ASSUME NEW d \in Degrees \cup {65535}, Drive(d)
      PROVE  RobotInv'
  <2>1. CASE d = 65535
    <3>1. Stop
      BY <1>7, <2>1 DEF Drive
    <3>2. Moves(0, 0, 0, 0, "E_STOP")
      BY <3>1 DEF Stop
    <3> QED
      BY <3>2, MoveKeepsInv DEF Status
  <2>2. CASE d # 65535
    <3> DEFINE x == Truncated(Cos[d], speed)
               y == Truncated(Sin[d], speed)
    <3>1. x \in Int /\ y \in Int
      <4>1. d \in Degrees
        BY <1>7, <2>2
      <4> QED
        BY <4>1, <1>s, DriveInt
    <3>2. Run(x, y, 0)
      BY <1>7, <2>2 DEF Drive
    <3> HIDE DEF x, y
    <3>3. Moves(x + y + 0, -x + y + 0, -x + y - 0, x + y - 0, status)
      BY <3>2 DEF Run, Mixed, Moves
    <3>4. /\ x + y + 0 \in Int /\ -x + y + 0 \in Int
          /\ -x + y - 0 = -x + y + 0 /\ x + y - 0 = x + y + 0
      BY <3>1
    <3> QED
      BY <3>3, <3>4, <1>s, MoveKeepsInv
  <2> QED
    BY <2>1, <2>2
<1>8. ASSUME NEW s \in Speeds, SetSpeed(s)
      PROVE  RobotInv'
  BY <1>8, SpeedsAssumption DEF SetSpeed, RobotInv, RobotTypeOK, NoSpin, Turning
<1>9. CASE UNCHANGED robotVars
  BY <1>9 DEF robotVars, RobotInv, RobotTypeOK, NoSpin, Turning
<1> QED
  BY <1>1, <1>2, <1>3, <1>4, <1>5, <1>6, <1>7, <1>8, <1>9 DEF RobotNext

LEMMA InitRobotInv == RobotInit => RobotInv
<1> SUFFICES ASSUME RobotInit
             PROVE  RobotInv
    OBVIOUS
<1>1. motor \in [Wheel -> Record]
  BY MotorsValue DEF RobotInit
<1>2. /\ motor["LF"] = SetMotor(10 * 0) /\ motor["LB"] = SetMotor(10 * 0)
      /\ motor["RF"] = SetMotor(10 * 0) /\ motor["RB"] = SetMotor(10 * 0)
  BY MotorsValue DEF RobotInit
<1>3. RobotTypeOK
  BY <1>1 DEF RobotInit, RobotTypeOK, Status, Record
<1>4. NoSpin
  BY <1>2 DEF NoSpin, Turning
<1> QED
  BY <1>3, <1>4 DEF RobotInv

\* Whatever commands arrive, at whatever speeds and joystick angles, a pulse
\* never exceeds the PWM period.
THEOREM PulsesInPeriod == RobotSpec => []RobotTypeOK
<1>1. RobotInv => RobotTypeOK
  BY DEF RobotInv
<1> QED
  BY <1>1, InitRobotInv, StepKeepsRobotInv, PTL DEF RobotSpec

\* Driving, however fast and even with the pulses of some wheels clamped, never
\* spins the car.
THEOREM DrivingNeverSpins == RobotSpec => []NoSpin
<1>1. RobotInv => NoSpin
  BY DEF RobotInv
<1> QED
  BY <1>1, InitRobotInv, StepKeepsRobotInv, PTL DEF RobotSpec
==============================================================================
