---------------------------- MODULE WifiCarProofs ----------------------------
(***************************************************************************)
(* A command on its way from the phone to the motors, for any frames, any  *)
(* number of them and any connections.                                     *)
(*                                                                         *)
(* Motors: after every frame acted on, the speed is the one last set and   *)
(* the motors do what the last moving frame asks for (Obeyed).  The frames *)
(* are taken to have the eight bytes of a whole one, WholeLength: a frame  *)
(* that announces less is accepted if what lies behind the buffer happens  *)
(* to look like its check sum.                                             *)
(*                                                                         *)
(* Order: every byte on its way is located in a frame written, Located;    *)
(* the open frame is a prefix of the one whose next byte is the next to    *)
(* come, Begun; the complete one lies between the frames acted on and the  *)
(* bytes on their way, Ready.  A frame that a poll cuts is given up and    *)
(* what is left of it skipped, if START is not among it; a length byte     *)
(* equal to END ends a frame at once; what a broken connection leaves of a *)
(* frame may be completed by the next connection.  Hence PlainFrames, and  *)
(* no broken connection.  And nothing may be lost in the ring buffer, of   *)
(* any size: ~lost, by which put_force is an append (NothingLost).         *)
(*                                                                         *)
(* None skipped: while recv returns all that has arrived and nothing is    *)
(* lost, the ring buffer ends where a frame does (Lined), so no poll cuts  *)
(* one and the data may hold any byte: wifi_control is always at the frame *)
(* whose number follows from how many it has acted on (Synced).            *)
(***************************************************************************)
EXTENDS WifiCar, SequenceTheorems, TLAPS

\* Types, and what the parser's locals say about each other while a frame is
\* open: where the next byte goes, and that the frame will fit.
CarTypes ==
    /\ ring \in Seq(0..255) /\ wire \in Seq(0..255) /\ written \in Seq(Frames)
    /\ resets \in Nat
    /\ buffer \in [0..(BUFFER_SIZE - 1) -> 0..255]
    /\ p \in Nat /\ preRecvLen \in 0..255 /\ m_RecvDataIndex \in 0..255
    /\ m_package_length \in 0..BUFFER_SIZE
    /\ speed \in -128..127
    /\ executed \in Seq(Seq(0..255))

OpenFits ==
    pc = "recv" /\ avilable =>
        /\ p = m_RecvDataIndex + 1 /\ m_RecvDataIndex < BUFFER_SIZE - 1
        /\ preRecvLen <= BUFFER_SIZE - 2

\* A verdict is only asked for, and a frame only acted on, after END.
Flagged ==
    /\ pc = "recv" => ~m_recv_flag
    /\ pc = "dispatch" => m_recv_flag

TypesInv == CarTypes /\ OpenFits /\ Flagged

LEMMA InitTypes == Init => TypesInv
<1> SUFFICES ASSUME Init PROVE TypesInv
    OBVIOUS
<1>1. buffer \in [0..(BUFFER_SIZE - 1) -> 0..255]
  BY DEF Init, Parser!Init, Parser!EmptyBuffer
<1>2. /\ ring \in Seq(0..255) /\ wire \in Seq(0..255) /\ written \in Seq(Frames)
      /\ executed \in Seq(Seq(0..255))
  BY EmptySeq DEF Init, Parser!Init
<1> QED
  BY <1>1, <1>2, SizeAssumption
  DEF Init, Parser!Init, Robot!RobotInit, TypesInv, CarTypes, OpenFits, Flagged

\* What is in the buffer is a byte.
LEMMA CellType ==
    ASSUME CarTypes, NEW i \in 0..(BUFFER_SIZE - 1)
    PROVE  buffer[i] \in 0..255
<1>1. buffer \in [0..(BUFFER_SIZE - 1) -> 0..255]
  BY DEF CarTypes
<1>2. \A b \in [0..(BUFFER_SIZE - 1) -> 0..255] : b[i] \in 0..255
  OBVIOUS
<1> QED
  BY <1>1, <1>2, Zenon

\* The frame in the package buffer is a sequence of bytes.
LEMMA FrameType ==
    ASSUME CarTypes
    PROVE  /\ Frame \in Seq(0..255) /\ Len(Frame) = m_package_length
           /\ \A k \in 1..m_package_length : Frame[k] = buffer[k - 1]
<1>1. \A k \in 1..m_package_length : k - 1 \in 0..(BUFFER_SIZE - 1)
  BY SizeAssumption DEF CarTypes
<1>2. \A k \in 1..m_package_length : buffer[k - 1] \in 0..255
  BY <1>1, CellType, Zenon
<1>3. Frame \in [1..m_package_length -> 0..255]
  BY <1>2 DEF Frame
<1>4. m_package_length \in Nat
  BY SizeAssumption DEF CarTypes
<1>5. Frame \in Seq(0..255) /\ Len(Frame) = m_package_length
  BY <1>3, <1>4
<1> QED
  BY <1>5 DEF Frame

\* Storing a byte keeps the shape of the buffer.
LEMMA StoreType ==
    ASSUME NEW b \in [0..(BUFFER_SIZE - 1) -> 0..255], NEW i, NEW d \in 0..255
    PROVE  [b EXCEPT ![i] = d] \in [0..(BUFFER_SIZE - 1) -> 0..255]
  OBVIOUS

\* A value that fits in eight bits is unchanged by the conversion.
LEMMA SmallMod ==
    ASSUME NEW n \in 0..255
    PROVE  n % 256 = n
  OBVIOUS

\* What taking a byte off the ring buffer leaves.
LEMMA TailOf ==
    ASSUME NEW s \in Seq(0..255), s # <<>>
    PROVE  /\ Head(s) \in 0..255 /\ Head(s) = s[1] /\ Len(s) >= 1
           /\ Tail(s) \in Seq(0..255) /\ Len(Tail(s)) = Len(s) - 1
           /\ \A k \in 1..(Len(s) - 1) : Tail(s)[k] = s[k + 1]
  BY HeadTailProperties

\* Where recv cuts what has arrived.
LEMMA CutAt ==
    ASSUME NEW s \in Seq(0..255), NEW n \in 1..Len(s)
    PROVE  /\ SubSeq(s, 1, n) \in Seq(0..255) /\ Len(SubSeq(s, 1, n)) = n
           /\ \A k \in 1..n : SubSeq(s, 1, n)[k] = s[k]
           /\ SubSeq(s, n + 1, Len(s)) \in Seq(0..255)
           /\ Len(SubSeq(s, n + 1, Len(s))) = Len(s) - n
           /\ \A k \in 1..(Len(s) - n) : SubSeq(s, n + 1, Len(s))[k] = s[n + k]
<1>1. Len(s) \in Nat /\ \A k \in 1..Len(s) : s[k] \in 0..255
  BY LenProperties, ElementOfSeq
<1>2. /\ SubSeq(s, 1, n) = [k \in 1..n |-> s[k]]
      /\ SubSeq(s, n + 1, Len(s)) = [k \in 1..(Len(s) - n) |-> s[n + k]]
  BY <1>1
<1> QED
  BY <1>1, <1>2

\* An iteration of protocol_recev_data keeps the types.
LEMMA ByteTypes ==
    ASSUME TypesInv, NEW d \in 0..255, ring # <<>>, Parser!ReceiveByte(d)
    PROVE  /\ ring' \in Seq(0..255)
           /\ buffer' \in [0..(BUFFER_SIZE - 1) -> 0..255]
           /\ p' \in Nat /\ preRecvLen' \in 0..255 /\ m_RecvDataIndex' \in 0..255
           /\ m_package_length' \in 0..BUFFER_SIZE
           /\ OpenFits' /\ Flagged'
<1>r. pc = "recv" /\ ring' = Tail(ring)
  BY DEF Parser!ReceiveByte, Parser!Taken, Parser!ReceiveStart, Parser!ReceiveSkip,
         Parser!ReceiveEnd, Parser!ReceiveStore
<1>s. ring' \in Seq(0..255)
  BY <1>r, TailOf DEF TypesInv, CarTypes
<1>a. buffer \in [0..(BUFFER_SIZE - 1) -> 0..255]
  BY DEF TypesInv, CarTypes
<1>b. /\ p \in Nat /\ preRecvLen \in 0..255 /\ m_RecvDataIndex \in 0..255
      /\ m_package_length \in 0..BUFFER_SIZE
  BY DEF TypesInv, CarTypes
<1>f. ~m_recv_flag
  BY <1>r DEF TypesInv, Flagged
<1>o. avilable => /\ p = m_RecvDataIndex + 1 /\ m_RecvDataIndex < BUFFER_SIZE - 1
                  /\ preRecvLen <= BUFFER_SIZE - 2
  BY <1>r DEF TypesInv, OpenFits
<1>1. CASE Parser!ReceiveStart(d)
  <2>1. buffer' \in [0..(BUFFER_SIZE - 1) -> 0..255]
    BY <1>1, <1>a, StoreType, Zenon DEF Parser!ReceiveStart
  <2>2. /\ p' = 1 /\ preRecvLen' = 0 /\ m_RecvDataIndex' = 0
        /\ UNCHANGED <<pc, m_recv_flag, m_package_length>>
    BY <1>1 DEF Parser!ReceiveStart
  <2>3. 1 \in Nat /\ 0 \in 0..255 /\ 1 = 0 + 1 /\ 0 < BUFFER_SIZE - 1 /\ 0 <= BUFFER_SIZE - 2
    BY SizeAssumption
  <2>4. OpenFits' /\ Flagged'
    BY <1>r, <1>f, <2>2, <2>3, Zenon DEF OpenFits, Flagged
  <2> QED
    BY <1>s, <1>b, <2>1, <2>2, <2>3, <2>4, Zenon
<1>2. CASE Parser!ReceiveSkip(d)
  <2>1. /\ UNCHANGED <<pc, p, avilable, preRecvLen, m_RecvDataIndex, buffer,
                        m_recv_flag, m_package_length>>
    BY <1>2 DEF Parser!ReceiveSkip, Parser!locals, Parser!package
  <2> QED
    BY <1>r, <1>s, <1>a, <1>b, <1>f, <1>o, <2>1, Zenon DEF OpenFits, Flagged
<1>3. CASE Parser!ReceiveEnd(d)
  <2>1. buffer' \in [0..(BUFFER_SIZE - 1) -> 0..255]
    BY <1>3, <1>a, StoreType, Zenon DEF Parser!ReceiveEnd
  <2>2. /\ avilable /\ pc' = "parse" /\ m_package_length' = (preRecvLen + 2) % 256
        /\ UNCHANGED <<p, preRecvLen, m_RecvDataIndex>>
    BY <1>3 DEF Parser!ReceiveEnd, Parser!locals
  <2>3. m_package_length' \in 0..BUFFER_SIZE
    <3>1. preRecvLen + 2 \in 0..BUFFER_SIZE
      BY <1>b, <1>o, <2>2, SizeAssumption
    <3>2. \A n \in 0..BUFFER_SIZE : n % 256 \in 0..BUFFER_SIZE
      BY SizeAssumption
    <3> QED
      BY <2>2, <3>1, <3>2, Zenon
  <2>4. OpenFits' /\ Flagged'
    <3>1. pc' # "recv" /\ pc' # "dispatch"
      BY <2>2
    <3> QED
      BY <3>1, Zenon DEF OpenFits, Flagged
  <2> QED
    BY <1>s, <1>b, <2>1, <2>2, <2>3, <2>4, Zenon
<1>4. CASE Parser!ReceiveStore(d)
  <2>1. buffer' \in [0..(BUFFER_SIZE - 1) -> 0..255]
    BY <1>4, <1>a, StoreType, Zenon DEF Parser!ReceiveStore
  <2>2. /\ avilable /\ p' = p + 1 /\ m_RecvDataIndex' = Parser!NextIndex
        /\ preRecvLen' = Parser!Announced(d)
        /\ UNCHANGED <<m_recv_flag, m_package_length>>
    BY <1>4 DEF Parser!ReceiveStore
  <2>3. \/ pc' = "parse"
        \/ pc' = "recv" /\ ~avilable'
        \/ pc' = "recv" /\ ~Parser!TooLong(d) /\ ~Parser!Exhausted
    BY <1>4 DEF Parser!ReceiveStore
  <2>4. Parser!NextIndex \in 0..255
    BY <1>b DEF Parser!NextIndex
  <2>5. m_RecvDataIndex < BUFFER_SIZE - 1 => Parser!NextIndex = m_RecvDataIndex + 1
    <3>1. m_RecvDataIndex < BUFFER_SIZE - 1 => m_RecvDataIndex + 1 \in 0..255
      BY <1>b, SizeAssumption
    <3> QED
      BY <3>1, SmallMod DEF Parser!NextIndex
  <2>6. Parser!Announced(d) \in 0..255
    BY <1>b DEF Parser!Announced
  <2>7. ~Parser!TooLong(d) => Parser!Announced(d) <= BUFFER_SIZE - 2
    BY <1>b, <1>o, <2>2, SizeAssumption DEF Parser!Announced, Parser!TooLong
  <2>8. ~Parser!Exhausted => Parser!NextIndex < BUFFER_SIZE - 1
    BY <2>4, SizeAssumption DEF Parser!Exhausted
  <2>9. OpenFits'
    BY <1>b, <1>o, <2>2, <2>3, <2>5, <2>7, <2>8 DEF OpenFits
  <2>10. Flagged'
    BY <1>f, <2>2, <2>3 DEF Flagged
  <2>11. p' \in Nat
    BY <1>b, <2>2
  <2> QED
    BY <1>s, <1>b, <2>1, <2>2, <2>4, <2>6, <2>9, <2>10, <2>11, Zenon
<1> QED
  BY <1>1, <1>2, <1>3, <1>4 DEF Parser!ReceiveByte

\* The steps of wifi_control keep the types.
LEMMA PollTypes ==
    ASSUME TypesInv, Parser!Poll
    PROVE  /\ ring' \in Seq(0..255)
           /\ buffer' \in [0..(BUFFER_SIZE - 1) -> 0..255]
           /\ p' \in Nat /\ preRecvLen' \in 0..255 /\ m_RecvDataIndex' \in 0..255
           /\ m_package_length' \in 0..BUFFER_SIZE
           /\ OpenFits' /\ Flagged'
<1>1. CASE ring # <<>> /\ Parser!ReceiveByte(Head(ring))
  <2>1. Head(ring) \in 0..255
    BY <1>1, TailOf DEF TypesInv, CarTypes
  <2> QED
    BY <1>1, <2>1, ByteTypes, Zenon
<1>2. CASE Parser!ReceiveDone \/ Parser!Parse
  <2>1. /\ UNCHANGED <<ring, buffer, p, avilable, preRecvLen, m_RecvDataIndex,
                        m_recv_flag, m_package_length>>
        /\ pc' # "recv" /\ (pc' = "dispatch" => m_recv_flag)
    BY <1>2 DEF Parser!ReceiveDone, Parser!Parse, Parser!locals, Parser!package
  <2> QED
    BY <2>1, Zenon DEF TypesInv, CarTypes, OpenFits, Flagged
<1>3. CASE Parser!Reinit
  <2>1. buffer' \in [0..(BUFFER_SIZE - 1) -> 0..255]
    BY <1>3 DEF Parser!Reinit, Parser!EmptyBuffer
  <2>2. /\ pc' = "recv" /\ m_recv_flag' = FALSE /\ m_package_length' = 0
        /\ p' = 0 /\ avilable' = FALSE /\ preRecvLen' = 0 /\ m_RecvDataIndex' = 0
        /\ UNCHANGED ring
    BY <1>3 DEF Parser!Reinit
  <2>3. 0 \in Nat /\ 0 \in 0..255 /\ 0 \in 0..BUFFER_SIZE /\ pc' # "dispatch"
    BY <2>2, SizeAssumption
  <2>4. OpenFits' /\ Flagged'
    BY <2>2, <2>3, Zenon DEF OpenFits, Flagged
  <2> QED
    BY <2>1, <2>2, <2>3, <2>4, Zenon DEF TypesInv, CarTypes
<1> QED
  BY <1>1, <1>2, <1>3, Zenon DEF Parser!Poll

\* What acting on a frame does to the speed.
LEMMA SpeedSet ==
    ASSUME Act(Parser!Function)
    PROVE  speed' = IF Parser!Function = 6 THEN Parser!Int8(buffer[5]) ELSE speed
<1>1. CASE Parser!Function = 5
  <2>1. Robot!Drive(Parser!Degree)
    BY <1>1 DEF Act
  <2> QED
    BY <1>1, <2>1 DEF Robot!Drive, Robot!Stop, Robot!Run, Robot!Moves
<1>2. CASE Parser!Function = 6
  <2>1. Robot!SetSpeed(Parser!Speed)
    BY <1>2 DEF Act
  <2>2. Parser!Speed = Parser!Int8(buffer[5])
    BY <1>2 DEF Parser!Speed, Parser!Data
  <2> QED
    BY <1>2, <2>1, <2>2 DEF Robot!SetSpeed
<1>3. CASE Parser!Function = 13
  <2>1. Press(Parser!Button)
    BY <1>3 DEF Act
  <2>2. UNCHANGED speed
    BY <2>1 DEF Press, Robot!GoForward, Robot!GoBackward, Robot!TurnLeft, Robot!TurnRight,
               Robot!TurnLeftRotate, Robot!TurnRightRotate, Robot!Moves, robotVars
  <2> QED
    BY <1>3, <2>2
<1>4. CASE Parser!Function \notin {5, 6, 13}
  BY <1>4 DEF Act, robotVars
<1> QED
  BY <1>1, <1>2, <1>3, <1>4

\* What put_force leaves in the ring buffer, after a loss as well, are bytes.
LEMMA IntoRingType ==
    ASSUME ring \in Seq(0..255), NEW s \in Seq(0..255), Tcp!IntoRing(s)
    PROVE  ring' \in Seq(0..255)
<1> DEFINE q == ring \o s
<1>1. q \in Seq(0..255)
  OBVIOUS
<1> HIDE DEF q
<1>2. \/ ring' \in {q, <<>>} \/ ring' \in Garbled
      \/ Len(q) > RingSize /\ ring' = SubSeq(q, Len(q) - RingSize + 1, Len(q))
  BY DEF Tcp!IntoRing, Tcp!Overrun, q
<1>3. ASSUME Len(q) > RingSize, ring' = SubSeq(q, Len(q) - RingSize + 1, Len(q))
      PROVE  ring' \in Seq(0..255)
  <2>1. Len(q) - RingSize \in 1..Len(q)
    BY <1>1, <1>3, LenProperties, RingAssumption
  <2> QED
    BY <1>1, <1>3, <2>1, CutAt, Zenon
<1> QED
  BY <1>1, <1>2, <1>3, EmptySeq, GarbledAssumption

\* recv that loses nothing moves bytes from the connection to the ring buffer.
LEMMA NothingLost ==
    ASSUME NEW n, Tcp!Received(n), ~lost'
    PROVE  ring' = ring \o SubSeq(wire, 1, n) /\ wire' = SubSeq(wire, n + 1, Len(wire))
  BY DEF Tcp!Received, Tcp!IntoRing

\* Neither a connection that has broken nor a loss is forgotten.
LEMMA NotForgotten ==
    ASSUME CarTypes, [Next]_vars
    PROVE  /\ resets' = 0 => resets = 0
           /\ lost => lost'
           /\ cut => cut'
<1>1. resets' = resets \/ resets' = resets + 1
  BY DEF Next, WifiControl, PollStep, Execute, TcpRecv, Phone, vars, tcpOnly,
         Tcp!Accept, Tcp!AcceptFails, Tcp!net, Tcp!Received, Tcp!ReceivedZero, Tcp!ReceiveError,
         Tcp!Peer, Tcp!Connect, Tcp!Write, Tcp!Close, Tcp!Break
<1>2. resets \in Nat
  BY DEF CarTypes
<1>3. lost => lost'
  BY DEF Next, WifiControl, PollStep, Execute, TcpRecv, Phone, vars, tcpOnly,
         Tcp!Accept, Tcp!AcceptFails, Tcp!net, Tcp!Received, Tcp!IntoRing, Tcp!ReceivedZero,
         Tcp!ReceiveError, Tcp!Peer, Tcp!Connect, Tcp!Write, Tcp!Close, Tcp!Break
<1>4. cut => cut'
  BY DEF Next, WifiControl, PollStep, Execute, TcpRecv, Phone, vars
<1> QED
  BY <1>1, <1>2, <1>3, <1>4

\* Every byte is typed, wherever it is, and the speed is what fits an rt_int8_t.
LEMMA StepTypes == TypesInv /\ [Next]_vars => TypesInv'
<1> SUFFICES ASSUME TypesInv, [Next]_vars PROVE TypesInv'
    OBVIOUS
<1>t. CarTypes
  BY DEF TypesInv
<1>1. CASE PollStep
  <2>1. Parser!Poll /\ UNCHANGED <<wire, written, resets, speed, executed>>
    BY <1>1 DEF PollStep, tcpOnly, robotVars
  <2> QED
    BY <1>t, <2>1, PollTypes DEF TypesInv, CarTypes
<1>2. CASE Execute
  <2>1. /\ pc' = "reinit" /\ Act(Parser!Function) /\ executed' = Append(executed, Frame)
        /\ UNCHANGED <<ring, wire, written, resets, buffer, p, preRecvLen, m_RecvDataIndex,
                       m_package_length>>
    BY <1>2 DEF Execute, Parser!Dispatch, Parser!locals, Parser!package, tcpOnly
  <2>2. executed' \in Seq(Seq(0..255))
    BY <1>t, <2>1, FrameType, AppendProperties DEF CarTypes
  <2>3. speed' \in -128..127
    <3>1. 5 \in 0..(BUFFER_SIZE - 1)
      BY SizeAssumption
    <3>2. buffer[5] \in 0..255
      BY <1>t, <3>1, CellType, Zenon
    <3>3. Parser!Int8(buffer[5]) \in -128..127
      BY <3>2 DEF Parser!Int8
    <3>4. speed' = IF Parser!Function = 6 THEN Parser!Int8(buffer[5]) ELSE speed
      BY <2>1, SpeedSet
    <3>5. speed \in -128..127
      BY <1>t DEF CarTypes
    <3> QED
      BY <3>3, <3>4, <3>5
  <2> QED
    BY <1>t, <2>1, <2>2, <2>3 DEF TypesInv, CarTypes, OpenFits, Flagged
<1>3. CASE TcpRecv
  <2>1. UNCHANGED <<written, resets, parserOnly, robotVars, executed>>
    BY <1>3 DEF TcpRecv, Tcp!Accept, Tcp!AcceptFails, Tcp!net, Tcp!Received, Tcp!ReceivedZero,
           Tcp!ReceiveError
  <2>2. ring' \in Seq(0..255) /\ wire' \in Seq(0..255)
    <3>1. CASE UNCHANGED <<ring, wire>>
      BY <1>t, <3>1 DEF CarTypes
    <3>2. ASSUME NEW n \in 1..Len(wire), Tcp!Received(n)
          PROVE  ring' \in Seq(0..255) /\ wire' \in Seq(0..255)
      <4>1. Tcp!IntoRing(SubSeq(wire, 1, n)) /\ wire' = SubSeq(wire, n + 1, Len(wire))
        BY <3>2 DEF Tcp!Received
      <4>2. ring \in Seq(0..255) /\ wire \in Seq(0..255)
        BY <1>t DEF CarTypes
      <4>3. /\ SubSeq(wire, 1, n) \in Seq(0..255)
            /\ SubSeq(wire, n + 1, Len(wire)) \in Seq(0..255)
        BY <4>2, CutAt, Zenon
      <4>4. ring' \in Seq(0..255)
        BY <4>1, <4>2, <4>3, IntoRingType, Zenon
      <4> QED
        BY <4>1, <4>3, <4>4, Zenon
    <3> QED
      BY <1>3, <3>1, <3>2 DEF TcpRecv, Tcp!Accept, Tcp!AcceptFails, Tcp!net, Tcp!ReceivedZero,
                         Tcp!ReceiveError
  <2> QED
    BY <1>t, <2>1, <2>2 DEF TypesInv, CarTypes, OpenFits, Flagged, parserOnly, robotVars
<1>4. CASE Phone
  <2>1. UNCHANGED <<ring, parserOnly, robotVars, executed>>
    BY <1>4 DEF Phone, Tcp!Peer, Tcp!Connect, Tcp!Write, Tcp!Close, Tcp!Break
  <2>2. wire' \in Seq(0..255) /\ written' \in Seq(Frames) /\ resets' \in Nat
    <3>1. CASE Tcp!Connect \/ Tcp!Close
      BY <1>t, <3>1 DEF CarTypes, Tcp!Connect, Tcp!Close
    <3>2. ASSUME NEW s \in Frames, Tcp!Write(s)
          PROVE  wire' \in Seq(0..255) /\ written' \in Seq(Frames) /\ resets' \in Nat
      <4>1. wire' = wire \o s /\ written' = Append(written, s) /\ UNCHANGED resets
        BY <3>2 DEF Tcp!Write
      <4>2. s \in Seq(0..255)
        BY FramesAssumption
      <4> QED
        BY <1>t, <4>1, <4>2 DEF CarTypes
    <3>3. CASE Tcp!Break
      BY <1>t, <3>3, EmptySeq DEF CarTypes, Tcp!Break
    <3> QED
      BY <1>4, <3>1, <3>2, <3>3 DEF Phone, Tcp!Peer
  <2> QED
    BY <1>t, <2>1, <2>2 DEF TypesInv, CarTypes, OpenFits, Flagged, parserOnly, robotVars
<1>5. CASE UNCHANGED vars
  BY <1>5 DEF vars, tcpOnly, parserOnly, robotVars, TypesInv, CarTypes, OpenFits, Flagged
<1> QED
  BY <1>1, <1>2, <1>3, <1>4, <1>5 DEF Next, WifiControl
-----------------------------------------------------------------------------
(* What the motors do *)

HasMax(S) == S # {} => \E m \in S : \A j \in S : j <= m

\* The motors and the speed are what the frames acted on ask for, and the last
\* of each kind exists.
Obeyed(h) ==
    /\ \A n \in 0..Len(h) : HasMax(SpeedFrames(h, n))
    /\ HasMax(MoveFrames(h))

\* What a history asks of the motors.
Asked(h) ==
    IF MoveFrames(h) = {} THEN Robot!Motors(0, 0, 0, 0)
    ELSE LET k == Max(MoveFrames(h)) IN Wanted(h[k], SpeedAfter(h, k))

MotorInv ==
    /\ Obeyed(executed)
    /\ WholeLength =>
          speed = SpeedAfter(executed, Len(executed)) /\ motor = Asked(executed)

LEMMA MaxIs ==
    ASSUME NEW S \in SUBSET Int, NEW m \in S, \A j \in S : j <= m
    PROVE  Max(S) = m
<1>1. \A x \in S : (\A y \in S : x >= y) => x = m
  OBVIOUS
<1>2. \A y \in S : m >= y
  OBVIOUS
<1> QED
  BY <1>1, <1>2 DEF Max

\* The last of the frames is one of them.
LEMMA MaxIsMember ==
    ASSUME NEW S \in SUBSET Int, S # {}, HasMax(S)
    PROVE  Max(S) \in S
<1>1. PICK m \in S : \A j \in S : j <= m
  BY DEF HasMax
<1> QED
  BY <1>1, MaxIs

\* One more frame is the last.
LEMMA MaxGrows ==
    ASSUME NEW N \in Nat, NEW S \in SUBSET (1..N)
    PROVE  HasMax(S \cup {N + 1}) /\ Max(S \cup {N + 1}) = N + 1
<1>1. /\ S \cup {N + 1} \in SUBSET Int /\ N + 1 \in S \cup {N + 1}
      /\ \A j \in S \cup {N + 1} : j <= N + 1
  OBVIOUS
<1> QED
  BY <1>1, MaxIs DEF HasMax

\* The history after one more frame.
LEMMA HistoryGrows ==
    ASSUME NEW h \in Seq(Seq(0..255)), NEW f \in Seq(0..255)
    PROVE  /\ Len(h) \in Nat /\ Len(Append(h, f)) = Len(h) + 1
           /\ \A k \in 1..Len(h) : Append(h, f)[k] = h[k]
           /\ Append(h, f)[Len(h) + 1] = f
  BY AppendProperties

\* The frames that set the speed, after one more frame.
LEMMA SpeedFramesGrow ==
    ASSUME NEW h \in Seq(Seq(0..255)), NEW f \in Seq(0..255)
    PROVE  /\ \A n \in 0..Len(h) : SpeedFrames(Append(h, f), n) = SpeedFrames(h, n)
           /\ SpeedFrames(Append(h, f), Len(h) + 1) =
                  IF FunctionOf(f) = 6 THEN SpeedFrames(h, Len(h)) \cup {Len(h) + 1}
                                       ELSE SpeedFrames(h, Len(h))
<1> DEFINE N == Len(h)
           g == Append(h, f)
<1>1. N \in Nat /\ g[N + 1] = f /\ \A k \in 1..N : g[k] = h[k]
  BY HistoryGrows
<1> HIDE DEF N, g
<1>2. ASSUME NEW n \in 0..N
      PROVE  SpeedFrames(g, n) = SpeedFrames(h, n)
  <2>1. \A k \in 1..n : k \in 1..N
    BY <1>1
  <2>2. \A k \in 1..n : g[k] = h[k]
    BY <1>1, <2>1
  <2> QED
    BY <2>2 DEF SpeedFrames
<1>3. 1..(N + 1) = (1..N) \cup {N + 1}
  BY <1>1
<1>4. {k \in 1..(N + 1) : FunctionOf(g[k]) = 6}
      = IF FunctionOf(f) = 6 THEN {k \in 1..N : FunctionOf(h[k]) = 6} \cup {N + 1}
                             ELSE {k \in 1..N : FunctionOf(h[k]) = 6}
  BY <1>1, <1>3
<1>5. SpeedFrames(g, N + 1) =
          IF FunctionOf(f) = 6 THEN SpeedFrames(h, N) \cup {N + 1} ELSE SpeedFrames(h, N)
  BY <1>4, Zenon DEF SpeedFrames
<1> QED
  BY <1>2, <1>5 DEF N, g

\* And the frames that move or stop the car.
LEMMA MoveFramesGrow ==
    ASSUME NEW h \in Seq(Seq(0..255)), NEW f \in Seq(0..255)
    PROVE  MoveFrames(Append(h, f)) =
               IF Moving(f) THEN MoveFrames(h) \cup {Len(h) + 1} ELSE MoveFrames(h)
<1> DEFINE N == Len(h)
           g == Append(h, f)
<1>1. /\ N \in Nat /\ Len(g) = N + 1 /\ g[N + 1] = f
      /\ \A k \in 1..N : g[k] = h[k]
  BY HistoryGrows
<1>2. MoveFrames(h) = {k \in 1..N : Moving(h[k])}
  BY DEF MoveFrames
<1> HIDE DEF N, g
<1>3. 1..(N + 1) = (1..N) \cup {N + 1}
  BY <1>1
<1>4. MoveFrames(g) = {k \in 1..(N + 1) : Moving(g[k])}
  BY <1>1 DEF MoveFrames
<1>5. {k \in 1..(N + 1) : Moving(g[k])}
      = IF Moving(f) THEN {k \in 1..N : Moving(h[k])} \cup {N + 1}
                     ELSE {k \in 1..N : Moving(h[k])}
  BY <1>1, <1>3
<1>6. MoveFrames(g) = IF Moving(f) THEN MoveFrames(h) \cup {N + 1} ELSE MoveFrames(h)
  BY <1>2, <1>4, <1>5, Zenon
<1> QED
  BY <1>6 DEF N, g

\* One more frame leaves a last frame of each kind.
LEMMA ObeyedGrows ==
    ASSUME NEW h \in Seq(Seq(0..255)), NEW f \in Seq(0..255), Obeyed(h)
    PROVE  Obeyed(Append(h, f))
<1> DEFINE N == Len(h)
           g == Append(h, f)
<1>1. N \in Nat /\ Len(g) = N + 1
  BY HistoryGrows
<1>2. /\ \A n \in 0..N : HasMax(SpeedFrames(h, n))
      /\ HasMax(MoveFrames(h))
  BY DEF Obeyed
<1>3. SpeedFrames(h, N) \in SUBSET (1..N) /\ MoveFrames(h) \in SUBSET (1..N)
  BY DEF SpeedFrames, MoveFrames
<1>4. /\ \A n \in 0..N : SpeedFrames(g, n) = SpeedFrames(h, n)
      /\ SpeedFrames(g, N + 1) = IF FunctionOf(f) = 6 THEN SpeedFrames(h, N) \cup {N + 1}
                                                      ELSE SpeedFrames(h, N)
  BY SpeedFramesGrow
<1>5. MoveFrames(g) = IF Moving(f) THEN MoveFrames(h) \cup {N + 1} ELSE MoveFrames(h)
  BY MoveFramesGrow
<1> HIDE DEF N, g
<1>6. HasMax(MoveFrames(g))
  BY <1>1, <1>2, <1>3, <1>5, MaxGrows
<1>7. HasMax(SpeedFrames(g, N + 1))
  <2>1. N \in 0..N
    BY <1>1
  <2>2. HasMax(SpeedFrames(h, N)) /\ HasMax(SpeedFrames(h, N) \cup {N + 1})
    BY <1>1, <1>2, <1>3, <2>1, MaxGrows
  <2> QED
    BY <1>4, <2>2
<1>8. ASSUME NEW n \in 0..Len(g)
      PROVE  HasMax(SpeedFrames(g, n))
  <2>1. n \in 0..N \/ n = N + 1
    BY <1>1
  <2> QED
    BY <1>2, <1>4, <1>7, <2>1
<1> QED
  BY <1>6, <1>8 DEF Obeyed, g

\* A speed that is not the newest stays the speed.
LEMMA SpeedAfterSame ==
    ASSUME NEW h \in Seq(Seq(0..255)), NEW f \in Seq(0..255), Obeyed(h),
           NEW n \in 0..Len(h), NEW m \in 0..(Len(h) + 1),
           SpeedFrames(Append(h, f), m) = SpeedFrames(h, n)
    PROVE  SpeedAfter(Append(h, f), m) = SpeedAfter(h, n)
<1> DEFINE S == SpeedFrames(h, n)
<1>1. S \in SUBSET (1..Len(h)) /\ HasMax(S)
  <2>1. Len(h) \in Nat
    BY HistoryGrows
  <2>2. \A k \in 1..n : k \in 1..Len(h)
    BY <2>1
  <2>3. S \in SUBSET (1..Len(h))
    BY <2>2 DEF SpeedFrames
  <2> QED
    BY <2>3 DEF Obeyed
<1>2. CASE S = {}
  BY <1>2 DEF SpeedAfter
<1>3. CASE S # {}
  <2>1. S \in SUBSET Int
    BY <1>1
  <2>2. Max(S) \in S
    BY <1>1, <1>3, <2>1, MaxIsMember
  <2>3. Append(h, f)[Max(S)] = h[Max(S)]
    <3>1. Max(S) \in 1..Len(h)
      BY <1>1, <2>2
    <3> QED
      BY <3>1, HistoryGrows
  <2>4. SpeedAfter(h, n) = Parser!Int8(h[Max(S)][6])
    BY <1>3 DEF SpeedAfter
  <2>5. SpeedAfter(Append(h, f), m) = Parser!Int8(Append(h, f)[Max(S)][6])
    BY <1>3 DEF SpeedAfter
  <2> QED
    BY <2>3, <2>4, <2>5
<1> QED
  BY <1>2, <1>3

\* The speed after one more frame.
LEMMA SpeedAfterGrows ==
    ASSUME NEW h \in Seq(Seq(0..255)), NEW f \in Seq(0..255), Obeyed(h)
    PROVE  SpeedAfter(Append(h, f), Len(h) + 1) =
               IF FunctionOf(f) = 6 THEN Parser!Int8(f[6]) ELSE SpeedAfter(h, Len(h))
<1> DEFINE N == Len(h)
           g == Append(h, f)
<1>1. N \in Nat /\ N \in 0..N /\ N + 1 \in 0..(N + 1) /\ g[N + 1] = f
  BY HistoryGrows
<1>2. SpeedFrames(g, N + 1) = IF FunctionOf(f) = 6 THEN SpeedFrames(h, N) \cup {N + 1}
                                                   ELSE SpeedFrames(h, N)
  BY SpeedFramesGrow
<1>3. SpeedFrames(h, N) \in SUBSET (1..N)
  BY DEF SpeedFrames
<1>4. CASE FunctionOf(f) # 6
  <2>1. SpeedFrames(g, N + 1) = SpeedFrames(h, N)
    BY <1>2, <1>4
  <2> QED
    BY <1>1, <1>4, <2>1, SpeedAfterSame
<1>5. CASE FunctionOf(f) = 6
  <2> HIDE DEF N, g
  <2>1. SpeedFrames(g, N + 1) # {} /\ Max(SpeedFrames(g, N + 1)) = N + 1
    BY <1>1, <1>2, <1>3, <1>5, MaxGrows
  <2>2. SpeedAfter(g, N + 1) = Parser!Int8(f[6])
    BY <1>1, <2>1 DEF SpeedAfter
  <2> QED
    BY <1>5, <2>2 DEF N, g
<1> QED
  BY <1>4, <1>5

LEMMA AskedGrows ==
    ASSUME NEW h \in Seq(Seq(0..255)), NEW f \in Seq(0..255), Obeyed(h)
    PROVE  Asked(Append(h, f)) =
               IF Moving(f) THEN Wanted(f, SpeedAfter(h, Len(h))) ELSE Asked(h)
<1> DEFINE N == Len(h)
           g == Append(h, f)
<1>1. N \in Nat /\ g[N + 1] = f /\ \A k \in 1..N : g[k] = h[k]
  BY HistoryGrows
<1>2. MoveFrames(g) = IF Moving(f) THEN MoveFrames(h) \cup {N + 1} ELSE MoveFrames(h)
  BY MoveFramesGrow
<1>3. MoveFrames(h) \in SUBSET (1..N) /\ HasMax(MoveFrames(h))
  BY DEF MoveFrames, Obeyed
<1>4. CASE Moving(f)
  <2>1. SpeedAfter(g, N + 1) = SpeedAfter(h, N)
    <3>1. FunctionOf(f) # 6
      BY <1>4 DEF Moving
    <3> QED
      BY <3>1, SpeedAfterGrows
  <2> HIDE DEF N, g
  <2>2. MoveFrames(g) # {} /\ Max(MoveFrames(g)) = N + 1
    BY <1>1, <1>2, <1>3, <1>4, MaxGrows
  <2>3. Asked(g) = Wanted(f, SpeedAfter(h, N))
    BY <1>1, <2>1, <2>2 DEF Asked
  <2> QED
    BY <1>4, <2>3 DEF N, g
<1>5. CASE ~Moving(f)
  <2>1. MoveFrames(g) = MoveFrames(h)
    BY <1>2, <1>5
  <2>2. CASE MoveFrames(h) = {}
    BY <1>5, <2>1, <2>2 DEF Asked
  <2>3. CASE MoveFrames(h) # {}
    <3> DEFINE k == Max(MoveFrames(h))
    <3>1. k \in MoveFrames(h)
      <4>1. MoveFrames(h) \in SUBSET Int
        BY <1>1, <1>3
      <4> QED
        BY <1>3, <2>3, <4>1, MaxIsMember
    <3>2. k \in 1..N
      BY <1>3, <3>1
    <3>3. g[k] = h[k]
      BY <1>1, <3>2
    <3>4. SpeedAfter(g, k) = SpeedAfter(h, k)
      <4>1. k \in 0..N /\ k \in 0..(N + 1)
        BY <1>1, <3>2
      <4>2. SpeedFrames(g, k) = SpeedFrames(h, k)
        BY <4>1, SpeedFramesGrow
      <4> QED
        BY <4>1, <4>2, SpeedAfterSame
    <3> QED
      BY <1>5, <2>1, <2>3, <3>3, <3>4 DEF Asked
  <2> QED
    BY <2>2, <2>3
<1> QED
  BY <1>4, <1>5

\* The pad's movements, as multiples of the speed.
LEMMA Pressed ==
    ASSUME speed \in Int, NEW b, Press(b)
    PROVE  motor' = IF b \in DOMAIN Gains
                    THEN Robot!Motors(Gains[b][1] * speed, Gains[b][2] * speed,
                                      Gains[b][3] * speed, Gains[b][4] * speed)
                    ELSE motor
<1>d. DOMAIN Gains = {8, 32, 16, 4, 4096, 16384}
  BY DEF Gains
<1>s. 1 * speed = speed /\ -1 * speed = -speed
  OBVIOUS
<1>1. CASE b = 8
  <2>1. Gains[b] = <<1, 1, 1, 1>>
    BY <1>1 DEF Gains
  <2>2. motor' = Robot!Motors(speed, speed, speed, speed)
    BY <1>1 DEF Press, Robot!GoForward, Robot!Moves
  <2> QED
    BY <1>1, <1>d, <1>s, <2>1, <2>2
<1>2. CASE b = 32
  <2>1. Gains[b] = <<-1, -1, -1, -1>>
    BY <1>2 DEF Gains
  <2>2. motor' = Robot!Motors(-speed, -speed, -speed, -speed)
    BY <1>2 DEF Press, Robot!GoBackward, Robot!Moves
  <2> QED
    BY <1>2, <1>d, <1>s, <2>1, <2>2
<1>3. CASE b = 16
  <2>1. Gains[b] = <<-1, 1, 1, -1>>
    BY <1>3 DEF Gains
  <2>2. motor' = Robot!Motors(-speed, speed, speed, -speed)
    BY <1>3 DEF Press, Robot!TurnLeft, Robot!Moves
  <2> QED
    BY <1>3, <1>d, <1>s, <2>1, <2>2
<1>4. CASE b = 4
  <2>1. Gains[b] = <<1, -1, -1, 1>>
    BY <1>4 DEF Gains
  <2>2. motor' = Robot!Motors(speed, -speed, -speed, speed)
    BY <1>4 DEF Press, Robot!TurnRight, Robot!Moves
  <2> QED
    BY <1>4, <1>d, <1>s, <2>1, <2>2
<1>5. CASE b = 4096
  <2>1. Gains[b] = <<-1, -1, 1, 1>>
    BY <1>5 DEF Gains
  <2>2. motor' = Robot!Motors(-speed, -speed, speed, speed)
    BY <1>5 DEF Press, Robot!TurnLeftRotate, Robot!Moves
  <2> QED
    BY <1>5, <1>d, <1>s, <2>1, <2>2
<1>6. CASE b = 16384
  <2>1. Gains[b] = <<1, 1, -1, -1>>
    BY <1>6 DEF Gains
  <2>2. motor' = Robot!Motors(speed, speed, -speed, -speed)
    BY <1>6 DEF Press, Robot!TurnRightRotate, Robot!Moves
  <2> QED
    BY <1>6, <1>d, <1>s, <2>1, <2>2
<1>7. CASE b \notin {8, 32, 16, 4, 4096, 16384}
  BY <1>7, <1>d DEF Press, robotVars
<1> QED
  BY <1>1, <1>2, <1>3, <1>4, <1>5, <1>6, <1>7

\* The getters read the frame.
LEMMA FrameRead ==
    ASSUME CarTypes, m_package_length >= 8
    PROVE  /\ FunctionOf(Frame) = Parser!Function
           /\ WordOf(Frame) = Parser!Word16
           /\ Frame[6] = buffer[5]
<1>1. 5 \in 1..m_package_length /\ 6 \in 1..m_package_length /\ 7 \in 1..m_package_length
  BY SizeAssumption DEF CarTypes
<1>2. Frame[5] = buffer[5 - 1] /\ Frame[6] = buffer[6 - 1] /\ Frame[7] = buffer[7 - 1]
  BY <1>1, FrameType
<1>3. Frame[5] = buffer[4] /\ Frame[6] = buffer[5] /\ Frame[7] = buffer[6]
  BY <1>2
<1>4. Parser!Word16 = buffer[5] * 256 + buffer[6]
  BY DEF Parser!Word16, Parser!Data
<1> QED
  BY <1>3, <1>4 DEF FunctionOf, WordOf, Parser!Function

\* wifi_control does to the motors what the frame asks for.
LEMMA MotorSet ==
    ASSUME CarTypes, m_package_length >= 8, Act(Parser!Function)
    PROVE  motor' = IF Moving(Frame) THEN Wanted(Frame, speed) ELSE motor
<1>f. FunctionOf(Frame) = Parser!Function /\ WordOf(Frame) = Parser!Word16
  BY FrameRead
<1>s. speed \in Int
  BY DEF CarTypes
<1>1. CASE Parser!Function = 5
  <2>1. Robot!Drive(Parser!Word16)
    BY <1>1 DEF Act, Parser!Degree
  <2>2. motor' = IF Parser!Word16 = 65535 THEN Robot!Motors(0, 0, 0, 0)
                 ELSE Robot!Mixed(Robot!Truncated(Cos[Parser!Word16], speed),
                                  Robot!Truncated(Sin[Parser!Word16], speed), 0)
    BY <2>1 DEF Robot!Drive, Robot!Stop, Robot!Moves, Robot!Run
  <2> QED
    BY <1>1, <1>f, <2>2 DEF Moving, Wanted
<1>2. CASE Parser!Function = 6
  <2>1. Robot!SetSpeed(Parser!Speed)
    BY <1>2 DEF Act
  <2>2. motor' = motor
    BY <2>1 DEF Robot!SetSpeed
  <2> QED
    BY <1>2, <1>f, <2>2 DEF Moving
<1>3. CASE Parser!Function = 13
  <2>1. Press(Parser!Word16)
    BY <1>3 DEF Act, Parser!Button
  <2>2. motor' = IF Parser!Word16 \in DOMAIN Gains
                 THEN LET g == Gains[Parser!Word16]
                      IN  Robot!Motors(g[1] * speed, g[2] * speed,
                                       g[3] * speed, g[4] * speed)
                 ELSE motor
    BY <1>s, <2>1, Pressed
  <2>3. Moving(Frame) <=> Parser!Word16 \in DOMAIN Gains
    BY <1>3, <1>f DEF Moving
  <2>4. Wanted(Frame, speed) =
            LET g == Gains[Parser!Word16]
            IN  Robot!Motors(g[1] * speed, g[2] * speed, g[3] * speed, g[4] * speed)
    BY <1>3, <1>f DEF Wanted
  <2> QED
    BY <2>2, <2>3, <2>4
<1>4. CASE Parser!Function \notin {5, 6, 13}
  <2>1. motor' = motor
    BY <1>4 DEF Act, robotVars
  <2> QED
    BY <1>4, <1>f, <2>1 DEF Moving
<1> QED
  BY <1>1, <1>2, <1>3, <1>4

LEMMA InitMotor == Init => MotorInv
<1> SUFFICES ASSUME Init PROVE MotorInv
    OBVIOUS
<1>1. /\ executed = <<>> /\ Len(executed) = 0 /\ speed = 0
      /\ motor = Robot!Motors(0, 0, 0, 0)
  BY DEF Init, Robot!RobotInit
<1>2. MoveFrames(executed) = {} /\ \A n \in 0..0 : SpeedFrames(executed, n) = {}
  BY <1>1 DEF MoveFrames, SpeedFrames
<1> QED
  BY <1>1, <1>2 DEF MotorInv, Obeyed, HasMax, SpeedAfter, Asked

\* Acting on a frame.
LEMMA ExecuteMotor ==
    ASSUME CarTypes, MotorInv, Act(Parser!Function), executed' = Append(executed, Frame)
    PROVE  MotorInv'
<1>h. /\ executed \in Seq(Seq(0..255)) /\ Frame \in Seq(0..255)
      /\ Len(Frame) = m_package_length
  BY FrameType DEF CarTypes
<1>n. /\ Len(executed) \in Nat /\ Len(executed') = Len(executed) + 1
      /\ \A k \in 1..Len(executed) : executed'[k] = executed[k]
      /\ executed'[Len(executed) + 1] = Frame
  BY <1>h, HistoryGrows
<1>o. Obeyed(executed')
  BY <1>h, ObeyedGrows DEF MotorInv
<1>1. ASSUME WholeLength'
      PROVE  speed' = SpeedAfter(executed', Len(executed')) /\ motor' = Asked(executed')
  <2>1. \A k \in 1..Len(executed') : Len(executed'[k]) >= 8
    BY <1>1 DEF WholeLength
  <2>2. m_package_length >= 8
    BY <1>h, <1>n, <2>1
  <2>3. WholeLength
    <3>1. ASSUME NEW k \in 1..Len(executed) PROVE Len(executed[k]) >= 8
      <4>1. k \in 1..Len(executed') /\ executed'[k] = executed[k]
        BY <1>n
      <4> QED
        BY <2>1, <4>1
    <3> QED
      BY <3>1 DEF WholeLength
  <2>4. speed = SpeedAfter(executed, Len(executed)) /\ motor = Asked(executed)
    BY <2>3, Zenon DEF MotorInv
  <2>5. speed' = IF FunctionOf(Frame) = 6 THEN Parser!Int8(Frame[6]) ELSE speed
    BY <2>2, FrameRead, SpeedSet
  <2>6. motor' = IF Moving(Frame) THEN Wanted(Frame, speed) ELSE motor
    BY <2>2, MotorSet
  <2>7. SpeedAfter(executed', Len(executed')) =
            IF FunctionOf(Frame) = 6 THEN Parser!Int8(Frame[6])
                                     ELSE SpeedAfter(executed, Len(executed))
    <3>1. Obeyed(executed)
      BY Zenon DEF MotorInv
    <3>2. SpeedAfter(Append(executed, Frame), Len(executed) + 1) =
            IF FunctionOf(Frame) = 6 THEN Parser!Int8(Frame[6])
                                     ELSE SpeedAfter(executed, Len(executed))
      BY <1>h, <3>1, SpeedAfterGrows, Zenon
    <3> QED
      BY <1>n, <3>2, Zenon
  <2>8. Asked(executed') =
            IF Moving(Frame) THEN Wanted(Frame, SpeedAfter(executed, Len(executed)))
                             ELSE Asked(executed)
    BY <1>h, AskedGrows DEF MotorInv
  <2> QED
    BY <2>4, <2>5, <2>6, <2>7, <2>8
<1> QED
  BY <1>o, <1>1, Zenon DEF MotorInv

LEMMA StepMotor == CarTypes /\ MotorInv /\ [Next]_vars => MotorInv'
<1> SUFFICES ASSUME CarTypes, MotorInv, [Next]_vars PROVE MotorInv'
    OBVIOUS
<1>1. CASE Execute
  BY <1>1, ExecuteMotor DEF Execute
<1>2. CASE UNCHANGED <<executed, speed, motor>>
  BY <1>2 DEF MotorInv, WholeLength
<1>3. PollStep \/ TcpRecv \/ Phone \/ UNCHANGED vars => UNCHANGED <<executed, speed, motor>>
  BY DEF PollStep, TcpRecv, Phone, vars, robotVars
<1> QED
  BY <1>1, <1>2, <1>3 DEF Next, WifiControl

\* The types hold throughout.
LEMMA Types == Spec => []TypesInv
  BY InitTypes, StepTypes, PTL DEF Spec

\* Whatever the phone sends and however it arrives: the wheels do what the last
\* moving frame that wifi_control acted on asked for, at the speed of the last
\* speed frame before it, as long as every frame acted on had the length of one.
THEOREM MotorsDoAsAsked == Spec => [](WholeLength => MotorsFollow)
<1>1. MotorInv => (WholeLength => MotorsFollow)
  BY Zenon DEF MotorInv, MotorsFollow, Asked
<1>2. TypesInv => CarTypes
  BY DEF TypesInv
<1> QED
  BY Types, InitMotor, StepMotor, <1>1, <1>2, PTL DEF Spec
-----------------------------------------------------------------------------
(* Which frames are acted on *)

\* A frame with START nowhere but in front.
Plain(f) == Framed(f) /\ \A k \in 2..Len(f) : f[k] # START

LEMMA FramedLength ==
    ASSUME NEW f, Framed(f)
    PROVE  1 < Len(f)
<1>1. Len(f) \in 8..255
  BY DEF Framed
<1>2. \A n \in 8..255 : 1 < n
  OBVIOUS
<1> QED
  BY <1>1, <1>2, Zenon

PlainFrames == \A f \in Frames : Plain(f)

\* Byte k of those on their way: r in the ring buffer, w not yet received.
Waiting(r, w, k) == IF k <= Len(r) THEN r[k] ELSE w[k - Len(r)]

\* Waiting byte k is byte off[k] of frame fr[k] of those written, ws.  A byte is
\* followed by the rest of its frame; behind a frame come only later ones.
Located(r, w, ws, fr, off) ==
    \A k \in 1..(Len(r) + Len(w)) :
        /\ fr[k] \in 1..Len(ws) /\ off[k] \in 1..Len(ws[fr[k]])
        /\ Waiting(r, w, k) = ws[fr[k]][off[k]]
        /\ off[k] < Len(ws[fr[k]]) =>
               /\ k < Len(r) + Len(w)
               /\ fr[k + 1] = fr[k] /\ off[k + 1] = off[k] + 1
        /\ off[k] = Len(ws[fr[k]]) =>
               \A j \in (k + 1)..(Len(r) + Len(w)) : fr[k] < fr[j]

\* The lengths the arithmetic below is about.
LEMMA LenIsNat == ASSUME NEW S, NEW s \in Seq(S) PROVE Len(s) \in Nat
  OBVIOUS

LEMMA LenOfConcat ==
    ASSUME NEW S, NEW s \in Seq(S), NEW t \in Seq(S)
    PROVE  Len(s \o t) = Len(s) + Len(t)
  OBVIOUS

LEMMA ByteOfConcat ==
    ASSUME NEW S, NEW s \in Seq(S), NEW t \in Seq(S), NEW k \in 1..(Len(s) + Len(t))
    PROVE  (s \o t)[k] = IF k <= Len(s) THEN s[k] ELSE t[k - Len(s)]
  OBVIOUS

\* What recv moves from the connection to the ring buffer stays where it was.
SamePlaces(r, w, r2, w2) ==
    /\ Len(r2) + Len(w2) = Len(r) + Len(w)
    /\ \A k \in 1..(Len(r) + Len(w)) : Waiting(r2, w2, k) = Waiting(r, w, k)

LEMMA ReceivedWaiting ==
    ASSUME NEW r \in Seq(0..255), NEW w \in Seq(0..255), NEW n \in 1..Len(w)
    PROVE  SamePlaces(r, w, r \o SubSeq(w, 1, n), SubSeq(w, n + 1, Len(w)))
<1> DEFINE c == SubSeq(w, 1, n)
           r2 == r \o c
           w2 == SubSeq(w, n + 1, Len(w))
<1>1. /\ c \in Seq(0..255) /\ Len(c) = n
      /\ \A k \in 1..n : c[k] = w[k]
      /\ Len(w2) = Len(w) - n
      /\ \A k \in 1..(Len(w) - n) : w2[k] = w[n + k]
  BY CutAt
<1> HIDE DEF c, w2
<1>q. Len(r2) = Len(r) + Len(c)
  BY <1>1, LenOfConcat, Zenon
<1>e. ASSUME NEW k \in 1..(Len(r) + Len(c))
      PROVE  r2[k] = IF k <= Len(r) THEN r[k] ELSE c[k - Len(r)]
  BY <1>1, ByteOfConcat, Zenon
<1> HIDE DEF r2
<1>n. Len(r) \in Nat /\ Len(w) \in Nat
  BY LenProperties
<1>2. /\ Len(r) \in Nat /\ Len(w) \in Nat /\ n \in Nat /\ n <= Len(w)
      /\ Len(r2) = Len(r) + n
      /\ \A k \in 1..(Len(r) + n) : r2[k] = IF k <= Len(r) THEN r[k] ELSE c[k - Len(r)]
  BY <1>1, <1>e, <1>q, <1>n
<1>3. Len(r2) + Len(w2) = Len(r) + Len(w)
  BY <1>1, <1>2
<1>4. ASSUME NEW k \in 1..(Len(r) + Len(w))
      PROVE  Waiting(r2, w2, k) = Waiting(r, w, k)
  <2>1. CASE k <= Len(r)
    BY <1>2, <2>1 DEF Waiting
  <2>2. CASE Len(r) < k /\ k <= Len(r) + n
    <3>1. k - Len(r) \in 1..n /\ k \in 1..(Len(r) + n)
      BY <1>2, <2>2
    <3>2. r2[k] = c[k - Len(r)]
      BY <1>2, <2>2, <3>1
    <3> QED
      BY <1>1, <1>2, <2>2, <3>1, <3>2 DEF Waiting
  <2>3. CASE Len(r) + n < k
    <3>1. /\ k - Len(r2) \in 1..(Len(w) - n) /\ n + (k - Len(r2)) = k - Len(r)
          /\ ~(k <= Len(r2)) /\ ~(k <= Len(r))
      BY <1>2, <2>3
    <3>2. w2[k - Len(r2)] = w[k - Len(r)]
      BY <1>1, <3>1
    <3> QED
      BY <3>1, <3>2 DEF Waiting
  <2> QED
    BY <1>2, <2>1, <2>2, <2>3
<1>5. SamePlaces(r, w, r2, w2)
  BY <1>3, <1>4 DEF SamePlaces
<1> QED
  BY <1>5 DEF c, r2, w2

LEMMA ReceivedLocated ==
    ASSUME NEW r \in Seq(0..255), NEW w \in Seq(0..255), NEW ws, NEW fr, NEW off,
           NEW n \in 1..Len(w), Located(r, w, ws, fr, off)
    PROVE  Located(r \o SubSeq(w, 1, n), SubSeq(w, n + 1, Len(w)), ws, fr, off)
<1>1. PICK r2, w2 : r2 = r \o SubSeq(w, 1, n) /\ w2 = SubSeq(w, n + 1, Len(w))
  OBVIOUS
<1>2. SamePlaces(r, w, r2, w2)
  BY <1>1, ReceivedWaiting, Zenon
<1>3. Located(r2, w2, ws, fr, off)
  BY <1>2 DEF SamePlaces, Located
<1> QED
  BY <1>1, <1>3, Zenon

\* The byte getchar takes is located by the first place; the others move up.
LEMMA TakenLocated ==
    ASSUME NEW r \in Seq(0..255), NEW w \in Seq(0..255), NEW ws, NEW fr, NEW off,
           r # <<>>, Located(r, w, ws, fr, off), NEW P, P = Len(r) + Len(w)
    PROVE  Located(Tail(r), w, ws, [k \in 1..(P - 1) |-> fr[k + 1]],
                                   [k \in 1..(P - 1) |-> off[k + 1]])
<1> DEFINE t == Tail(r)
           fr2 == [k \in 1..(P - 1) |-> fr[k + 1]]
           off2 == [k \in 1..(P - 1) |-> off[k + 1]]
<1>1. /\ Len(r) >= 1 /\ Len(r) \in Nat /\ Len(w) \in Nat /\ Len(t) = Len(r) - 1
      /\ \A k \in 1..(Len(r) - 1) : t[k] = r[k + 1]
  BY TailOf, LenProperties
<1> HIDE DEF t
<1>2. Len(t) + Len(w) = P - 1 /\ P \in Nat
  BY <1>1
<1>3. ASSUME NEW k \in 1..(P - 1)
      PROVE  /\ fr2[k] \in 1..Len(ws) /\ off2[k] \in 1..Len(ws[fr2[k]])
             /\ Waiting(t, w, k) = ws[fr2[k]][off2[k]]
             /\ off2[k] < Len(ws[fr2[k]]) =>
                    k < P - 1 /\ fr2[k + 1] = fr2[k] /\ off2[k + 1] = off2[k] + 1
             /\ off2[k] = Len(ws[fr2[k]]) => \A j \in (k + 1)..(P - 1) : fr2[k] < fr2[j]
  <2>1. PICK m : m = k + 1
    OBVIOUS
  <2>2. m \in 1..P /\ m < P + 1
    BY <1>2, <2>1
  <2>3. fr2[k] = fr[m] /\ off2[k] = off[m]
    BY <2>1
  <2>4. /\ fr[m] \in 1..Len(ws) /\ off[m] \in 1..Len(ws[fr[m]])
        /\ Waiting(r, w, m) = ws[fr[m]][off[m]]
        /\ off[m] < Len(ws[fr[m]]) => m < P /\ fr[m + 1] = fr[m] /\ off[m + 1] = off[m] + 1
        /\ off[m] = Len(ws[fr[m]]) => \A j \in (m + 1)..P : fr[m] < fr[j]
    BY <2>2 DEF Located
  <2>5. Waiting(t, w, k) = Waiting(r, w, m)
    <3>1. CASE k <= Len(r) - 1
      BY <1>1, <2>1, <3>1 DEF Waiting
    <3>2. CASE k > Len(r) - 1
      <4>1. k - Len(t) = m - Len(r) /\ ~(k <= Len(t)) /\ ~(m <= Len(r))
        BY <1>1, <2>1, <3>2
      <4> QED
        BY <4>1 DEF Waiting
    <3> QED
      BY <1>1, <3>1, <3>2
  <2>6. m < P => k + 1 \in 1..(P - 1) /\ k < P - 1 /\ fr2[k + 1] = fr[m + 1]
                 /\ off2[k + 1] = off[m + 1]
    BY <1>2, <2>1
  <2>7. ASSUME off[m] = Len(ws[fr[m]]), NEW j \in (k + 1)..(P - 1)
        PROVE  fr2[k] < fr2[j]
    <3>1. j + 1 \in (m + 1)..P /\ j \in 1..(P - 1)
      BY <1>2, <2>1
    <3>2. fr2[j] = fr[j + 1]
      BY <3>1
    <3> QED
      BY <2>3, <2>4, <2>7, <3>1, <3>2
  <2> HIDE DEF fr2, off2
  <2> QED
    BY <2>3, <2>4, <2>5, <2>6, <2>7
<1> HIDE DEF fr2, off2
<1>4. Located(t, w, ws, fr2, off2)
  BY <1>2, <1>3 DEF Located
<1> QED
  BY <1>4 DEF t, fr2, off2

\* Append keeps what was there.
LEMMA FrameAppended ==
    ASSUME NEW ws \in Seq(Frames), NEW s \in Frames
    PROVE  /\ Len(ws) \in Nat /\ Len(Append(ws, s)) = Len(ws) + 1
           /\ \A i \in 1..Len(ws) : Append(ws, s)[i] = ws[i]
           /\ Append(ws, s)[Len(ws) + 1] = s
  BY AppendProperties

\* A frame the phone writes comes behind all others.
ComesLast(r, w, ws, fr, off, s, P) ==
    \E fr2, off2 :
        /\ Located(r, w \o s, Append(ws, s), fr2, off2)
        /\ \A k \in 1..P : fr2[k] = fr[k] /\ off2[k] = off[k]
        /\ \A k \in (P + 1)..(P + Len(s)) : fr2[k] = Len(ws) + 1

LEMMA WrittenLocated ==
    ASSUME NEW r \in Seq(0..255), NEW w \in Seq(0..255), NEW ws \in Seq(Frames),
           NEW fr, NEW off, NEW s \in Frames, Located(r, w, ws, fr, off),
           NEW P, P = Len(r) + Len(w)
    PROVE  ComesLast(r, w, ws, fr, off, s, P)
<1> DEFINE w2 == w \o s
           ws2 == Append(ws, s)
           Q == P + Len(s)
           fr2 == [k \in 1..Q |-> IF k <= P THEN fr[k] ELSE Len(ws) + 1]
           off2 == [k \in 1..Q |-> IF k <= P THEN off[k] ELSE k - P]
<1>s. s \in Seq(0..255)
  BY FramesAssumption
<1>1. /\ Len(r) \in Nat /\ Len(w) \in Nat /\ Len(s) \in Nat /\ P \in Nat
      /\ Len(w2) = Len(w) + Len(s)
      /\ \A k \in 1..(Len(w) + Len(s)) :
            w2[k] = IF k <= Len(w) THEN w[k] ELSE s[k - Len(w)]
  BY <1>s, ConcatProperties, LenProperties
<1>2. /\ Len(ws) \in Nat /\ Len(ws2) = Len(ws) + 1
      /\ \A i \in 1..Len(ws) : ws2[i] = ws[i]
      /\ ws2[Len(ws) + 1] = s
  BY FrameAppended
<1> HIDE DEF w2, ws2
<1>3. Len(r) + Len(w2) = Q /\ Q \in Nat
  BY <1>1
<1>4. ASSUME NEW k \in 1..P
      PROVE  /\ fr2[k] = fr[k] /\ off2[k] = off[k]
             /\ Waiting(r, w2, k) = Waiting(r, w, k)
  <2>1. k \in 1..Q
    BY <1>1
  <2>2. ~(k <= Len(r)) => k - Len(r) \in 1..(Len(w) + Len(s)) /\ k - Len(r) <= Len(w)
    BY <1>1
  <2> QED
    BY <1>1, <2>1, <2>2 DEF Waiting
<1>5. ASSUME NEW k \in (P + 1)..Q
      PROVE  /\ fr2[k] = Len(ws) + 1 /\ off2[k] = k - P
             /\ Waiting(r, w2, k) = s[k - P]
  <2>1. k \in 1..Q /\ ~(k <= P) /\ ~(k <= Len(r))
    BY <1>1
  <2>2. /\ k - Len(r) \in 1..(Len(w) + Len(s)) /\ ~(k - Len(r) <= Len(w))
        /\ (k - Len(r)) - Len(w) = k - P
    BY <1>1
  <2>3. w2[k - Len(r)] = s[k - P]
    BY <1>1, <2>2
  <2> QED
    BY <2>1, <2>3 DEF Waiting
<1> HIDE DEF fr2, off2, Q
<1>6. ASSUME NEW k \in 1..Q
      PROVE  /\ fr2[k] \in 1..Len(ws2) /\ off2[k] \in 1..Len(ws2[fr2[k]])
             /\ Waiting(r, w2, k) = ws2[fr2[k]][off2[k]]
             /\ off2[k] < Len(ws2[fr2[k]]) =>
                    k < Q /\ fr2[k + 1] = fr2[k] /\ off2[k + 1] = off2[k] + 1
             /\ off2[k] = Len(ws2[fr2[k]]) => \A j \in (k + 1)..Q : fr2[k] < fr2[j]
  <2>1. CASE k \in 1..P
    <3>1. /\ fr[k] \in 1..Len(ws) /\ off[k] \in 1..Len(ws[fr[k]])
          /\ Waiting(r, w, k) = ws[fr[k]][off[k]]
          /\ off[k] < Len(ws[fr[k]]) =>
                 k < P /\ fr[k + 1] = fr[k] /\ off[k + 1] = off[k] + 1
          /\ off[k] = Len(ws[fr[k]]) => \A j \in (k + 1)..P : fr[k] < fr[j]
      BY <2>1 DEF Located
    <3>2. fr2[k] = fr[k] /\ off2[k] = off[k] /\ ws2[fr[k]] = ws[fr[k]]
      BY <1>2, <1>4, <2>1, <3>1
    <3>3. fr2[k] \in 1..Len(ws2)
      BY <1>2, <3>1, <3>2
    <3>4. k < P => k < Q /\ fr2[k + 1] = fr[k + 1] /\ off2[k + 1] = off[k + 1]
      <4>1. k < P => k + 1 \in 1..P /\ k < Q
        BY <1>1, <2>1 DEF Q
      <4> QED
        BY <1>4, <4>1
    <3>5. ASSUME off[k] = Len(ws[fr[k]]), NEW j \in (k + 1)..Q
          PROVE  fr[k] < fr2[j]
      <4>1. CASE j <= P
        <5>1. j \in (k + 1)..P /\ j \in 1..P
          BY <1>1, <4>1
        <5> QED
          BY <1>4, <3>1, <3>5, <5>1
      <4>2. CASE j > P
        <5>1. j \in (P + 1)..Q
          BY <1>1, <4>2
        <5>2. fr2[j] = Len(ws) + 1
          BY <1>5, <5>1
        <5> QED
          BY <1>2, <3>1, <5>2
      <4>3. j \in Int /\ P \in Int
        BY <1>1
      <4> QED
        BY <4>1, <4>2, <4>3
    <3> QED
      BY <1>4, <2>1, <3>1, <3>2, <3>3, <3>4, <3>5
  <2>2. CASE k \in (P + 1)..Q
    <3>1. /\ fr2[k] = Len(ws) + 1 /\ off2[k] = k - P /\ Waiting(r, w2, k) = s[k - P]
          /\ ws2[fr2[k]] = s
      BY <1>2, <1>5, <2>2
    <3>2. k - P \in 1..Len(s) /\ Len(ws) + 1 \in 1..Len(ws2)
      BY <1>1, <1>2, <2>2 DEF Q
    <3>3. k - P < Len(s) => k < Q /\ fr2[k + 1] = Len(ws) + 1 /\ off2[k + 1] = (k - P) + 1
      <4>1. k - P < Len(s) => k + 1 \in (P + 1)..Q /\ k < Q /\ (k + 1) - P = (k - P) + 1
        BY <1>1, <2>2 DEF Q
      <4> QED
        BY <1>5, <4>1
    <3>4. k - P = Len(s) => (k + 1)..Q = {}
      BY <1>1, <2>2 DEF Q
    <3> QED
      BY <3>1, <3>2, <3>3, <3>4
  <2> QED
    BY <1>1, <1>3, <2>1, <2>2
<1>7. Located(r, w2, ws2, fr2, off2)
  BY <1>3, <1>6 DEF Located
<1>8. /\ Located(r, w \o s, Append(ws, s), fr2, off2)
      /\ \A k \in 1..P : fr2[k] = fr[k] /\ off2[k] = off[k]
      /\ \A k \in (P + 1)..(P + Len(s)) : fr2[k] = Len(ws) + 1
  BY <1>4, <1>5, <1>7 DEF w2, ws2, Q
<1> QED
  BY <1>8 DEF ComesLast

\* Frame pick[j] is the j-th acted on, and all of those are behind us: what is
\* on its way belongs to later ones.
Picked(ex, ws, pick, P, fr) ==
    /\ \A j \in 1..Len(ex) : pick[j] \in 1..Len(ws) /\ ws[pick[j]] = ex[j]
    /\ \A i, j \in 1..Len(ex) : i < j => pick[i] < pick[j]
    /\ \A j \in 1..Len(ex) : \A k \in 1..P : pick[j] < fr[k]

\* A complete frame f is one of those written, between the ones acted on and
\* those on their way.
Ready(f, ex, ws, pick, P, fr) ==
    \E i \in 1..Len(ws) :
        /\ ws[i] = f
        /\ \A j \in 1..Len(ex) : pick[j] < i
        /\ \A k \in 1..P : i < fr[k]

\* What is in the buffer is the frame f as far as byte o, which comes next.
Begun(f, o) ==
    /\ p >= 1 /\ o = p + 1
    /\ \A k \in 1..p : buffer[k - 1] = f[k]
    /\ preRecvLen = IF p = 1 THEN 0 ELSE f[2]

Trace(P, fr, off, pick) ==
    /\ P = Len(ring) + Len(wire)
    /\ Located(ring, wire, written, fr, off)
    /\ Picked(executed, written, pick, P, fr)
    /\ m_recv_flag /\ pc \in {"parse", "dispatch"} =>
           Ready(Frame, executed, written, pick, P, fr)
    /\ pc = "recv" /\ avilable => P >= 1 /\ Begun(written[fr[1]], off[1])

\* While no connection has broken and nothing is lost.  (What is left of a frame
\* cut off by the end of its connection can be completed by the beginning of
\* another, and what a loss leaves by whatever comes next.)
PhantomInv ==
    PlainFrames /\ resets = 0 /\ ~lost => \E P, fr, off, pick : Trace(P, fr, off, pick)

LEMMA TraceIsOrder ==
    ASSUME CarTypes, NEW P, NEW fr, NEW off, NEW pick, Trace(P, fr, off, pick)
    PROVE  NoPhantom
<1> DEFINE N == Len(executed)
           pick2 == [j \in 1..N |-> pick[j]]
<1>1. /\ \A j \in 1..N : pick[j] \in 1..Len(written) /\ written[pick[j]] = executed[j]
      /\ \A i, j \in 1..N : i < j => pick[i] < pick[j]
  BY DEF Trace, Picked
<1>2. \A j \in 1..N : pick2[j] = pick[j]
  OBVIOUS
<1>3. pick2 \in [1..N -> 1..Len(written)]
  BY <1>1
<1> HIDE DEF pick2, N
<1>4. /\ \A j \in 1..N : written[pick2[j]] = executed[j]
      /\ \A j, k \in 1..N : j < k => pick2[j] < pick2[k]
  BY <1>1, <1>2
<1> QED
  BY <1>3, <1>4 DEF NoPhantom, N

\* The byte protocol_recev_data takes, and what it leaves on the way.
LEMMA ByteTaken ==
    ASSUME CarTypes, PlainFrames, NEW P, NEW fr, NEW off, NEW pick,
           Trace(P, fr, off, pick), ring # <<>>, ring' = Tail(ring),
           UNCHANGED <<wire, written, executed>>,
           NEW f, f = written[fr[1]], NEW o, o = off[1]
    PROVE  /\ Plain(f) /\ fr[1] \in 1..Len(written) /\ o \in 1..Len(f)
           /\ Head(ring) = f[o]
           /\ \A j \in 1..Len(executed) : pick[j] < fr[1]
           /\ \E fr2, off2 :
                 /\ P - 1 = Len(ring') + Len(wire')
                 /\ Located(ring', wire', written', fr2, off2)
                 /\ Picked(executed', written', pick, P - 1, fr2)
                 /\ o < Len(f) => P - 1 >= 1 /\ fr2[1] = fr[1] /\ off2[1] = o + 1
                 /\ o = Len(f) => \A k \in 1..(P - 1) : fr[1] < fr2[k]
<1>1. /\ P = Len(ring) + Len(wire)
      /\ Located(ring, wire, written, fr, off)
      /\ Picked(executed, written, pick, P, fr)
  BY DEF Trace
<1>2. /\ Len(ring) \in Nat /\ Len(wire) \in Nat /\ Len(ring) >= 1 /\ Head(ring) = ring[1]
      /\ Len(ring') = Len(ring) - 1 /\ ring \in Seq(0..255) /\ wire \in Seq(0..255)
  BY TailOf, LenProperties DEF CarTypes
<1>3. 1 \in 1..P /\ P \in Nat
  BY <1>1, <1>2
<1>4. /\ fr[1] \in 1..Len(written) /\ o \in 1..Len(f) /\ Waiting(ring, wire, 1) = f[o]
      /\ o < Len(f) => 1 < P /\ fr[1 + 1] = fr[1] /\ off[1 + 1] = o + 1
      /\ o = Len(f) => \A j \in (1 + 1)..P : fr[1] < fr[j]
  BY <1>1, <1>3 DEF Located
<1>5. Head(ring) = f[o]
  BY <1>2, <1>4 DEF Waiting
<1>6. Plain(f)
  <2>1. f \in Frames
    BY <1>4, ElementOfSeq DEF CarTypes
  <2> QED
    BY <2>1 DEF PlainFrames
<1>7. \A j \in 1..Len(executed) : pick[j] < fr[1]
  BY <1>1, <1>3 DEF Picked
<1> DEFINE fr2 == [k \in 1..(P - 1) |-> fr[k + 1]]
           off2 == [k \in 1..(P - 1) |-> off[k + 1]]
<1>8. Located(ring', wire', written', fr2, off2)
  <2>1. Located(Tail(ring), wire, written, fr2, off2)
    BY <1>1, <1>2, TakenLocated
  <2> QED
    BY <2>1
<1>9. P - 1 = Len(ring') + Len(wire')
  BY <1>1, <1>2
<1>10. \A k \in 1..(P - 1) : k + 1 \in (1 + 1)..P /\ k + 1 \in 1..P /\ fr2[k] = fr[k + 1]
                             /\ off2[k] = off[k + 1]
  BY <1>3
<1> HIDE DEF fr2, off2
<1>11. Picked(executed, written, pick, P - 1, fr2)
  BY <1>1, <1>10 DEF Picked
<1>12. o < Len(f) => P - 1 >= 1 /\ fr2[1] = fr[1] /\ off2[1] = o + 1
  <2>1. o < Len(f) => 1 \in 1..(P - 1) /\ P - 1 >= 1
    BY <1>3, <1>4
  <2> QED
    BY <1>4, <1>10, <2>1
<1>13. o = Len(f) => \A k \in 1..(P - 1) : fr[1] < fr2[k]
  BY <1>4, <1>10
<1>14. Picked(executed', written', pick, P - 1, fr2)
  BY <1>11
<1> QED
  BY <1>4, <1>5, <1>6, <1>7, <1>8, <1>9, <1>12, <1>13, <1>14

\* A store in the buffer.
LEMMA Stored ==
    ASSUME NEW b \in [0..(BUFFER_SIZE - 1) -> 0..255], NEW i \in 0..(BUFFER_SIZE - 1),
           NEW d, NEW k \in 0..(BUFFER_SIZE - 1)
    PROVE  [b EXCEPT ![i] = d][k] = IF k = i THEN d ELSE b[k]
  OBVIOUS

\* The bytes before the write position are the beginning of the frame, and this
\* is its next byte.
LEMMA PrefixGrows ==
    ASSUME CarTypes, NEW f \in Seq(0..255), p >= 1, p < BUFFER_SIZE,
           \A k \in 1..p : buffer[k - 1] = f[k],
           buffer' = [buffer EXCEPT ![p] = f[p + 1]]
    PROVE  \A k \in 1..(p + 1) : buffer'[k - 1] = f[k]
<1> SUFFICES ASSUME NEW k \in 1..(p + 1) PROVE buffer'[k - 1] = f[k]
    OBVIOUS
<1>1. /\ p \in 0..(BUFFER_SIZE - 1) /\ k - 1 \in 0..(BUFFER_SIZE - 1) /\ p \in Nat
      /\ buffer \in [0..(BUFFER_SIZE - 1) -> 0..255]
  <2>1. p \in Nat /\ buffer \in [0..(BUFFER_SIZE - 1) -> 0..255]
    BY DEF CarTypes
  <2>2. p \in 0..(BUFFER_SIZE - 1) /\ k - 1 \in 0..(BUFFER_SIZE - 1)
    BY <2>1, SizeAssumption
  <2> QED
    BY <2>1, <2>2, Zenon
<1>2. buffer'[k - 1] = IF k - 1 = p THEN f[p + 1] ELSE buffer[k - 1]
  BY <1>1, Stored
<1>3. CASE k = p + 1
  BY <1>1, <1>2, <1>3
<1>4. CASE k # p + 1
  <2>1. k \in 1..p /\ k - 1 # p
    BY <1>1, <1>4
  <2> QED
    BY <1>2, <2>1
<1> QED
  BY <1>3, <1>4

\* What is known of the open frame f when protocol_recev_data takes its byte o.
LEMMA BegunFacts ==
    ASSUME TypesInv, pc = "recv", avilable,
           NEW f, Framed(f), NEW o \in 1..Len(f), Begun(f, o)
    PROVE  /\ p \in 1..(BUFFER_SIZE - 1) /\ o = p + 1
           /\ m_RecvDataIndex = p - 1 /\ Parser!NextIndex = p
           /\ \A k \in 1..p : buffer[k - 1] = f[k]
           /\ preRecvLen = IF p = 1 THEN 0 ELSE Len(f) - 2
           /\ Len(f) \in 8..255
<1>1. /\ p \in Nat /\ m_RecvDataIndex \in 0..255 /\ p = m_RecvDataIndex + 1
      /\ m_RecvDataIndex < BUFFER_SIZE - 1
  BY DEF TypesInv, CarTypes, OpenFits
<1>2. p >= 1 /\ o = p + 1 /\ \A k \in 1..p : buffer[k - 1] = f[k]
  BY DEF Begun
<1>3. preRecvLen = IF p = 1 THEN 0 ELSE f[2]
  BY DEF Begun
<1>4. f[2] = Len(f) - 2 /\ Len(f) \in 8..255
  BY DEF Framed
<1>5. m_RecvDataIndex + 1 \in 0..255
  BY <1>1, SizeAssumption
<1>6. Parser!NextIndex = m_RecvDataIndex + 1
  BY <1>5, SmallMod DEF Parser!NextIndex
<1>7. p \in 1..(BUFFER_SIZE - 1) /\ m_RecvDataIndex = p - 1 /\ Parser!NextIndex = p
  BY <1>1, <1>2, <1>6, SizeAssumption
<1> QED
  BY <1>2, <1>3, <1>4, <1>7

\* END completes the frame that was opened, and only where it ends.
LEMMA EndIsLast ==
    ASSUME TypesInv, TypesInv', pc = "recv", avilable,
           NEW f, Framed(f), NEW o \in 1..Len(f), Begun(f, o),
           NEW d, d = f[o], Parser!ReceiveEnd(d)
    PROVE  o = Len(f) /\ Frame' = f
<1>1. /\ p \in 1..(BUFFER_SIZE - 1) /\ o = p + 1 /\ m_RecvDataIndex = p - 1
      /\ preRecvLen = IF p = 1 THEN 0 ELSE Len(f) - 2
      /\ Len(f) \in 8..255
  BY BegunFacts
<1>q. \A k \in 1..p : buffer[k - 1] = f[k]
  BY BegunFacts
<1>2. d = END /\ preRecvLen = m_RecvDataIndex
  BY DEF Parser!ReceiveEnd, Parser!Completes
<1>3. p # 1
  <2>1. f[2] # END
    BY DEF Framed
  <2>2. CASE p = 1
    <3>1. o = 2
      BY <1>1, <2>2
    <3> QED
      BY <1>2, <2>1, <3>1, Zenon
  <2> QED
    BY <2>2
<1>4. o = Len(f) /\ p + 1 = Len(f) /\ preRecvLen + 2 = Len(f)
  <2>1. preRecvLen = Len(f) - 2
    BY <1>1, <1>3, Zenon
  <2>2. p \in Int /\ Len(f) \in Int
    BY <1>1, SizeAssumption
  <2>3. preRecvLen = p - 1 /\ o = p + 1
    BY <1>1, <1>2, Zenon
  <2> QED
    BY <2>1, <2>2, <2>3
<1>5. m_package_length' = Len(f)
  <2>1. m_package_length' = (preRecvLen + 2) % 256
    BY DEF Parser!ReceiveEnd
  <2>2. Len(f) \in 0..255
    BY <1>1
  <2> QED
    BY <1>4, <2>1, <2>2, SmallMod
<1>6. f \in Seq(0..255)
  BY DEF Framed
<1>7. \A k \in 1..Len(f) : buffer'[k - 1] = f[k]
  <2>1. buffer' = [buffer EXCEPT ![p] = f[p + 1]]
    BY <1>1 DEF Parser!ReceiveEnd
  <2>2. p >= 1 /\ p < BUFFER_SIZE
    BY <1>1, SizeAssumption
  <2>3. CarTypes
    BY DEF TypesInv
  <2>4. \A k \in 1..(p + 1) : buffer'[k - 1] = f[k]
    BY <1>q, <1>6, <2>1, <2>2, <2>3, PrefixGrows
  <2> QED
    BY <1>4, <2>4
<1>8. Frame' = [k \in 1..m_package_length' |-> buffer'[k - 1]]
  BY DEF Frame
<1>9. f = [k \in 1..Len(f) |-> f[k]]
  BY <1>6
<1>10. Frame' = f
  BY <1>5, <1>7, <1>8, <1>9
<1> QED
  BY <1>4, <1>10

\* Any other byte of it is not its last, and is stored behind those before it.
LEMMA StoreGoesOn ==
    ASSUME TypesInv, pc = "recv", avilable,
           NEW f, Framed(f), NEW o \in 1..Len(f), Begun(f, o),
           NEW d, d = f[o], Parser!ReceiveStore(d)
    PROVE  /\ o < Len(f) /\ p' = o /\ p' >= 1
           /\ \A k \in 1..p' : buffer'[k - 1] = f[k]
           /\ preRecvLen' = IF p' = 1 THEN 0 ELSE f[2]
<1>1. /\ p \in 1..(BUFFER_SIZE - 1) /\ o = p + 1 /\ m_RecvDataIndex = p - 1
      /\ Parser!NextIndex = p
      /\ preRecvLen = IF p = 1 THEN 0 ELSE Len(f) - 2
      /\ Len(f) \in 8..255
  BY BegunFacts
<1>q. \A k \in 1..p : buffer[k - 1] = f[k]
  BY BegunFacts
<1>c. CarTypes
  BY DEF TypesInv
<1>2. /\ ~Parser!Completes(d) /\ p' = p + 1 /\ preRecvLen' = Parser!Announced(d)
      /\ buffer' = [buffer EXCEPT ![p] = d]
  BY DEF Parser!ReceiveStore
<1>3. f \in Seq(0..255) /\ f[2] = Len(f) - 2 /\ f[Len(f)] = END
  BY DEF Framed
<1>n. Len(f) \in Int /\ o \in 1..Len(f) /\ p \in Int /\ preRecvLen \in Int
  BY <1>1, <1>c DEF CarTypes
<1>4. o < Len(f)
  <2>1. CASE o = Len(f)
    <3>1. d = END
      BY <1>3, <2>1, Zenon
    <3>2. o = p + 1 /\ m_RecvDataIndex = p - 1 /\ Len(f) \in 8..255
      BY <1>1, Zenon
    <3>3. p # 1 /\ m_RecvDataIndex = Len(f) - 2
      BY <1>n, <2>1, <3>2
    <3>4. preRecvLen = m_RecvDataIndex
      BY <1>1, <3>3, Zenon
    <3> QED
      BY <1>2, <3>1, <3>4, Zenon DEF Parser!Completes
  <2> QED
    BY <1>n, <2>1
<1>5. preRecvLen' = f[2]
  <2>1. CASE p = 1
    <3>1. Parser!Announced(d) = d /\ o = 2
      BY <1>1, <2>1 DEF Parser!Announced
    <3> QED
      BY <1>2, <3>1, Zenon
  <2>2. CASE p # 1
    <3>1. Parser!Announced(d) = preRecvLen
      BY <1>1, <1>n, <2>2 DEF Parser!Announced
    <3>2. preRecvLen = f[2]
      BY <1>1, <1>3, <2>2, Zenon
    <3> QED
      BY <1>2, <3>1, <3>2, Zenon
  <2> QED
    BY <2>1, <2>2
<1>6. \A k \in 1..(p + 1) : buffer'[k - 1] = f[k]
  <2>1. buffer' = [buffer EXCEPT ![p] = f[p + 1]]
    BY <1>1, <1>2
  <2>2. p >= 1 /\ p < BUFFER_SIZE
    BY <1>1, SizeAssumption
  <2>3. CarTypes
    BY DEF TypesInv
  <2> QED
    BY <1>q, <1>3, <2>1, <2>2, <2>3, PrefixGrows
<1>7. p' = o /\ p' = p + 1 /\ p' >= 1 /\ p' # 1
  <2>1. p >= 1 /\ o = p + 1
    BY <1>1, SizeAssumption
  <2>2. p' = p + 1
    BY <1>2
  <2> QED
    BY <1>n, <2>1, <2>2
<1> QED
  BY <1>4, <1>5, <1>6, <1>7, Zenon

\* Taking a byte keeps track of the frames.
LEMMA ByteTrace ==
    ASSUME TypesInv, TypesInv', PlainFrames, NEW P, NEW fr, NEW off, NEW pick,
           Trace(P, fr, off, pick), ring # <<>>, NEW d, d = Head(ring),
           Parser!ReceiveByte(d), UNCHANGED <<wire, written, executed>>
    PROVE  \E P2, fr2, off2, pick2 : Trace(P2, fr2, off2, pick2)'
<1>c. CarTypes
  BY DEF TypesInv
<1>r. pc = "recv" /\ ring' = Tail(ring)
  BY DEF Parser!ReceiveByte, Parser!Taken, Parser!ReceiveStart, Parser!ReceiveSkip,
         Parser!ReceiveEnd, Parser!ReceiveStore
<1>f. PICK f, o : f = written[fr[1]] /\ o = off[1]
  OBVIOUS
<1>1. /\ Plain(f) /\ fr[1] \in 1..Len(written) /\ o \in 1..Len(f)
      /\ Head(ring) = f[o]
      /\ \A j \in 1..Len(executed) : pick[j] < fr[1]
      /\ \E fr2, off2 :
            /\ P - 1 = Len(ring') + Len(wire')
            /\ Located(ring', wire', written', fr2, off2)
            /\ Picked(executed', written', pick, P - 1, fr2)
            /\ o < Len(f) => P - 1 >= 1 /\ fr2[1] = fr[1] /\ off2[1] = o + 1
            /\ o = Len(f) => \A k \in 1..(P - 1) : fr[1] < fr2[k]
  BY <1>c, <1>f, <1>r, ByteTaken
<1>2. PICK fr2, off2 :
            /\ P - 1 = Len(ring') + Len(wire')
            /\ Located(ring', wire', written', fr2, off2)
            /\ Picked(executed', written', pick, P - 1, fr2)
            /\ o < Len(f) => P - 1 >= 1 /\ fr2[1] = fr[1] /\ off2[1] = o + 1
            /\ o = Len(f) => \A k \in 1..(P - 1) : fr[1] < fr2[k]
  BY <1>1
<1>d. d = f[o] /\ ~m_recv_flag
  BY <1>1, <1>r DEF TypesInv, Flagged
<1>b. avilable => Begun(f, o)
  BY <1>f, <1>r DEF Trace
<1>l. Framed(f) /\ Len(f) \in 8..255 /\ \A k \in 2..Len(f) : f[k] # START
  BY <1>1 DEF Plain, Framed
<1> DEFINE Done == m_recv_flag' /\ pc' \in {"parse", "dispatch"} =>
                       Ready(Frame', executed', written', pick, P - 1, fr2)
           Going == pc' = "recv" /\ avilable' =>
                       P - 1 >= 1 /\ Begun(written[fr2[1]], off2[1])'
<1>3. ASSUME Parser!ReceiveStart(d)
      PROVE  Done /\ Going
  <2>1. /\ d = START /\ ~m_recv_flag' /\ p' = 1 /\ preRecvLen' = 0
        /\ buffer' = [buffer EXCEPT ![0] = d]
    BY <1>3, <1>d DEF Parser!ReceiveStart
  <2>2. o = 1
    <3>1. f[o] = START
      BY <1>d, <2>1
    <3>2. \A k \in 2..Len(f) : f[k] # START
      BY <1>l
    <3>3. o \notin 2..Len(f)
      BY <3>1, <3>2, Zenon
    <3>4. o \in 1..Len(f) /\ Len(f) \in 8..255
      BY <1>1, <1>l
    <3> QED
      BY <3>3, <3>4
  <2>3. P - 1 >= 1 /\ fr2[1] = fr[1] /\ off2[1] = 1 + 1
    <3>1. 1 < Len(f)
      BY <1>1, FramedLength DEF Plain
    <3>2. o < Len(f)
      BY <2>2, <3>1, Zenon
    <3> QED
      BY <1>2, <2>2, <3>2
  <2>4. buffer'[0] = f[1]
    <3>1. 0 \in 0..(BUFFER_SIZE - 1)
      BY SizeAssumption
    <3> QED
      BY <1>c, <1>d, <2>1, <2>2, <3>1 DEF CarTypes
  <2>5. \A k \in 1..p' : buffer'[k - 1] = f[k]
    <3>1. \A k \in 1..p' : k = 1 /\ k - 1 = 0
      BY <2>1
    <3> QED
      BY <2>4, <3>1
  <2>6. written'[fr2[1]] = f
    BY <1>f, <2>3
  <2>7. Begun(written[fr2[1]], off2[1])'
    BY <2>1, <2>3, <2>5, <2>6 DEF Begun
  <2> QED
    BY <2>1, <2>3, <2>7
<1>4. ASSUME Parser!ReceiveSkip(d)
      PROVE  Done /\ Going
  <2>1. ~m_recv_flag' /\ ~avilable'
    BY <1>4, <1>d DEF Parser!ReceiveSkip, Parser!locals, Parser!package
  <2> QED
    BY <2>1
<1>5. ASSUME Parser!ReceiveEnd(d)
      PROVE  Done /\ Going
  <2>1. avilable /\ pc' = "parse"
    BY <1>5 DEF Parser!ReceiveEnd
  <2>2. o = Len(f) /\ Frame' = f
    BY <1>1, <1>5, <1>b, <1>d, <1>l, <1>r, <2>1, EndIsLast
  <2>3. /\ written'[fr[1]] = f /\ fr[1] \in 1..Len(written')
        /\ \A j \in 1..Len(executed') : pick[j] < fr[1]
        /\ \A k \in 1..(P - 1) : fr[1] < fr2[k]
    BY <1>1, <1>2, <1>f, <2>2
  <2>4. Ready(Frame', executed', written', pick, P - 1, fr2)
    BY <2>2, <2>3 DEF Ready
  <2> QED
    BY <2>1, <2>4
<1>6. ASSUME Parser!ReceiveStore(d)
      PROVE  Done /\ Going
  <2>1. avilable /\ ~m_recv_flag'
    BY <1>6, <1>d DEF Parser!ReceiveStore
  <2>2. ASSUME pc' = "recv", avilable'
        PROVE  P - 1 >= 1 /\ Begun(written[fr2[1]], off2[1])'
    <3>1. /\ o < Len(f) /\ p' = o /\ p' >= 1
          /\ \A k \in 1..p' : buffer'[k - 1] = f[k]
          /\ preRecvLen' = IF p' = 1 THEN 0 ELSE f[2]
      BY <1>1, <1>6, <1>b, <1>d, <1>l, <1>r, <2>1, <2>2, StoreGoesOn
    <3>2. P - 1 >= 1 /\ fr2[1] = fr[1] /\ off2[1] = o + 1
      BY <1>2, <3>1
    <3>3. written'[fr2[1]] = f
      BY <1>f, <3>2
    <3>4. Begun(written[fr2[1]], off2[1])'
      BY <3>1, <3>2, <3>3 DEF Begun
    <3> QED
      BY <3>2, <3>4
  <2> QED
    BY <2>1, <2>2
<1>7. Done /\ Going
  BY <1>3, <1>4, <1>5, <1>6 DEF Parser!ReceiveByte
<1>8. Trace(P - 1, fr2, off2, pick)'
  BY <1>2, <1>7 DEF Trace
<1> QED
  BY <1>8

LEMMA InitPhantom == Init => PhantomInv
<1> SUFFICES ASSUME Init PROVE \E P, fr, off, pick : Trace(P, fr, off, pick)
    BY DEF PhantomInv
<1>1. /\ ring = <<>> /\ wire = <<>> /\ executed = <<>> /\ pc = "recv"
      /\ ~avilable /\ ~m_recv_flag
  BY DEF Init, Parser!Init
<1>2. /\ Len(ring) = 0 /\ Len(wire) = 0 /\ Len(executed) = 0 /\ 0 = Len(ring) + Len(wire)
      /\ 1..(Len(ring) + Len(wire)) = {} /\ 1..0 = {}
  BY <1>1
<1>3. Trace(0, 0, 0, 0)
  BY <1>1, <1>2 DEF Trace, Located, Picked
<1> QED
  BY <1>3

\* The steps of wifi_control that take no byte and act on no frame.
LEMMA PollTrace ==
    ASSUME TypesInv, NEW P, NEW fr, NEW off, NEW pick, Trace(P, fr, off, pick),
           Parser!ReceiveDone \/ Parser!Parse \/ Parser!Reinit,
           UNCHANGED <<wire, written, executed>>
    PROVE  Trace(P, fr, off, pick)'
<1>1. UNCHANGED ring
  BY DEF Parser!ReceiveDone, Parser!Parse, Parser!Reinit
<1>2. /\ (P = Len(ring) + Len(wire))'
      /\ Located(ring', wire', written', fr, off)
      /\ Picked(executed', written', pick, P, fr)
  BY <1>1 DEF Trace
<1>3. ~(pc' = "recv" /\ avilable')
  BY DEF Parser!ReceiveDone, Parser!Parse, Parser!Reinit
<1>4. ASSUME m_recv_flag', pc' \in {"parse", "dispatch"}
      PROVE  Ready(Frame', executed', written', pick, P, fr)
  <2>1. m_recv_flag /\ pc = "parse" /\ UNCHANGED <<buffer, m_package_length>>
    BY <1>4 DEF Parser!ReceiveDone, Parser!Parse, Parser!Reinit, Parser!package,
                TypesInv, Flagged
  <2>2. Ready(Frame, executed, written, pick, P, fr)
    BY <2>1 DEF Trace
  <2>3. Frame' = Frame
    BY <2>1 DEF Frame
  <2> QED
    BY <2>2, <2>3
<1> QED
  BY <1>2, <1>3, <1>4 DEF Trace

\* Acting on the frame makes it the last of those acted on.
LEMMA ExecuteTrace ==
    ASSUME TypesInv, NEW P, NEW fr, NEW off, NEW pick, Trace(P, fr, off, pick), Execute
    PROVE  \E P2, fr2, off2, pick2 : Trace(P2, fr2, off2, pick2)'
<1>1. /\ pc = "dispatch" /\ pc' = "reinit" /\ executed' = Append(executed, Frame)
      /\ UNCHANGED <<ring, wire, written>>
  BY DEF Execute, Parser!Dispatch, tcpOnly
<1>2. m_recv_flag
  BY <1>1 DEF TypesInv, Flagged
<1>3. Ready(Frame, executed, written, pick, P, fr)
  BY <1>1, <1>2 DEF Trace
<1>4. PICK i : /\ i \in 1..Len(written) /\ written[i] = Frame
               /\ \A j \in 1..Len(executed) : pick[j] < i
               /\ \A k \in 1..P : i < fr[k]
  BY <1>3 DEF Ready
<1>5. PICK N, ex, pick2 :
          /\ N = Len(executed) /\ ex = Append(executed, Frame)
          /\ pick2 = [j \in 1..(N + 1) |-> IF j <= N THEN pick[j] ELSE i]
  OBVIOUS
<1>n. /\ N \in Nat /\ Len(ex) = N + 1 /\ ex[N + 1] = Frame
      /\ \A j \in 1..N : ex[j] = executed[j]
  BY <1>5, FrameType, AppendProperties DEF TypesInv, CarTypes
<1>6. /\ \A j \in 1..N : pick2[j] = pick[j]
      /\ pick2[N + 1] = i
  BY <1>5, <1>n
<1>7. /\ \A j \in 1..N : pick[j] \in 1..Len(written) /\ written[pick[j]] = executed[j]
      /\ \A j, k \in 1..N : j < k => pick[j] < pick[k]
      /\ \A j \in 1..N : \A k \in 1..P : pick[j] < fr[k]
  BY <1>5 DEF Trace, Picked
<1>8. \A j \in 1..(N + 1) : j \in 1..N \/ j = N + 1
  BY <1>n
<1>9. Picked(ex, written, pick2, P, fr)
  <2>1. ASSUME NEW j \in 1..(N + 1)
        PROVE  /\ pick2[j] \in 1..Len(written) /\ written[pick2[j]] = ex[j]
               /\ \A k \in 1..P : pick2[j] < fr[k]
    <3>1. CASE j \in 1..N
      BY <1>n, <1>6, <1>7, <3>1
    <3>2. CASE j = N + 1
      BY <1>n, <1>4, <1>6, <3>2
    <3> QED
      BY <1>8, <3>1, <3>2
  <2>2. ASSUME NEW j \in 1..(N + 1), NEW k \in 1..(N + 1), j < k
        PROVE  pick2[j] < pick2[k]
    <3>1. j \in 1..N
      BY <1>n, <2>2
    <3>2. CASE k \in 1..N
      BY <1>6, <1>7, <2>2, <3>1, <3>2
    <3>3. CASE k = N + 1
      BY <1>4, <1>5, <1>6, <3>1, <3>3
    <3> QED
      BY <1>8, <3>2, <3>3
  <2> QED
    BY <1>n, <2>1, <2>2 DEF Picked
<1>10. Trace(P, fr, off, pick2)'
  <2>1. Picked(executed', written', pick2, P, fr)
    BY <1>1, <1>5, <1>9
  <2>2. P = Len(ring) + Len(wire) /\ Located(ring, wire, written, fr, off)
    BY DEF Trace
  <2>3. ring' = ring /\ wire' = wire /\ written' = written
    BY <1>1
  <2>4. P = Len(ring') + Len(wire') /\ Located(ring', wire', written', fr, off)
    BY <2>2, <2>3
  <2>5. pc' \notin {"parse", "dispatch"} /\ pc' # "recv"
    BY <1>1
  <2> QED
    BY <2>1, <2>4, <2>5 DEF Trace
<1> QED
  BY <1>10

\* recv moves what it returns from the connection to the ring buffer.
LEMMA ReceivedTrace ==
    ASSUME TypesInv, NEW P, NEW fr, NEW off, NEW pick, Trace(P, fr, off, pick), TcpRecv,
           ~lost'
    PROVE  Trace(P, fr, off, pick)'
<1>1. UNCHANGED <<written, parserOnly, executed>>
  BY DEF TcpRecv, Tcp!Accept, Tcp!AcceptFails, Tcp!net, Tcp!Received, Tcp!ReceivedZero,
           Tcp!ReceiveError
<1>2. /\ P = Len(ring) + Len(wire) /\ Located(ring, wire, written, fr, off)
      /\ Picked(executed, written, pick, P, fr)
  BY DEF Trace
<1>3. P = Len(ring') + Len(wire') /\ Located(ring', wire', written, fr, off)
  <2>1. CASE UNCHANGED <<ring, wire>>
    BY <1>2, <2>1
  <2>2. ASSUME NEW n \in 1..Len(wire), Tcp!Received(n)
        PROVE  P = Len(ring') + Len(wire') /\ Located(ring', wire', written, fr, off)
    <3>1. /\ ring \in Seq(0..255) /\ wire \in Seq(0..255)
          /\ Len(ring) \in Nat /\ Len(wire) \in Nat
      BY LenProperties DEF TypesInv, CarTypes
    <3>2. ring' = ring \o SubSeq(wire, 1, n) /\ wire' = SubSeq(wire, n + 1, Len(wire))
      BY <2>2, NothingLost
    <3>3. Len(ring') = Len(ring) + n /\ Len(wire') = Len(wire) - n
      <4>1. /\ SubSeq(wire, 1, n) \in Seq(0..255) /\ Len(SubSeq(wire, 1, n)) = n
            /\ Len(SubSeq(wire, n + 1, Len(wire))) = Len(wire) - n
        BY <3>1, CutAt
      <4> QED
        BY <3>1, <3>2, <4>1, ConcatProperties
    <3>4. Len(ring') + Len(wire') = Len(ring) + Len(wire)
      BY <3>1, <3>3
    <3>5. Located(ring', wire', written, fr, off)
      BY <1>2, <3>1, <3>2, ReceivedLocated
    <3> QED
      BY <1>2, <3>4, <3>5
  <2> QED
    BY <2>1, <2>2 DEF TcpRecv, Tcp!Accept, Tcp!AcceptFails, Tcp!net, Tcp!Received, Tcp!ReceivedZero,
           Tcp!ReceiveError
<1>4. /\ m_recv_flag' /\ pc' \in {"parse", "dispatch"} =>
             Ready(Frame', executed', written', pick, P, fr)
      /\ pc' = "recv" /\ avilable' => P >= 1 /\ Begun(written[fr[1]], off[1])'
  BY <1>1 DEF Trace, Ready, Frame, Begun, parserOnly
<1> QED
  BY <1>1, <1>2, <1>3, <1>4 DEF Trace

\* A frame written is the last on its way.
LEMMA WrittenTrace ==
    ASSUME TypesInv, NEW P, NEW fr, NEW off, NEW pick, Trace(P, fr, off, pick),
           NEW s \in Frames, Tcp!Write(s), UNCHANGED <<parserOnly, executed>>
    PROVE  \E P2, fr2, off2, pick2 : Trace(P2, fr2, off2, pick2)'
<1>1. ring' = ring /\ wire' = wire \o s /\ written' = Append(written, s)
  BY DEF Tcp!Write
<1>2. /\ P = Len(ring) + Len(wire) /\ Located(ring, wire, written, fr, off)
      /\ Picked(executed, written, pick, P, fr)
  BY DEF Trace
<1>3. /\ ring \in Seq(0..255) /\ wire \in Seq(0..255) /\ written \in Seq(Frames)
      /\ s \in Seq(0..255)
  BY FramesAssumption DEF TypesInv, CarTypes
<1>4. /\ Len(ring) \in Nat /\ Len(wire) \in Nat /\ Len(s) \in Nat /\ P \in Nat
      /\ Len(wire') = Len(wire) + Len(s)
  <2>1. Len(ring) \in Nat /\ Len(wire) \in Nat /\ Len(s) \in Nat
    BY <1>3, LenIsNat, Zenon
  <2>2. Len(wire') = Len(wire) + Len(s)
    BY <1>1, <1>3, LenOfConcat, Zenon
  <2>3. P = Len(ring) + Len(wire)
    BY <1>2, Zenon
  <2>4. P \in Nat
    BY <2>1, <2>3
  <2> QED
    BY <2>1, <2>2, <2>4, Zenon
<1>5. /\ Len(written) \in Nat /\ Len(written') = Len(written) + 1
      /\ \A i \in 1..Len(written) : written'[i] = written[i]
  BY <1>1, <1>3, FrameAppended
<1>6. ComesLast(ring, wire, written, fr, off, s, P)
  BY <1>2, <1>3, WrittenLocated, Zenon
<1>p. PICK Q : Q = P + Len(s)
  OBVIOUS
<1>7. PICK fr2, off2 :
          /\ Located(ring', wire', written', fr2, off2)
          /\ \A k \in 1..P : fr2[k] = fr[k] /\ off2[k] = off[k]
          /\ \A k \in (P + 1)..Q : fr2[k] = Len(written) + 1
  BY <1>1, <1>6, <1>p, Zenon DEF ComesLast
<1>q. Q = Len(ring') + Len(wire') /\ Q \in Nat /\ Q >= P
  <2>1. P = Len(ring) + Len(wire) /\ Q = P + Len(s) /\ Len(ring') = Len(ring)
    BY <1>1, <1>2, <1>p, Zenon
  <2> QED
    BY <1>4, <2>1
<1>8. \A k \in 1..P : k \in 1..Q /\ fr2[k] = fr[k] /\ off2[k] = off[k]
  <2>1. \A k \in 1..P : k \in 1..Q
    BY <1>4, <1>q
  <2> QED
    BY <1>7, <2>1, Zenon
<1>9. \A k \in 1..Q : k \notin 1..P => fr2[k] = Len(written) + 1
  <2>1. \A k \in 1..Q : k \notin 1..P => k \in (P + 1)..Q
    BY <1>4, <1>q
  <2> QED
    BY <1>7, <2>1, Zenon
<1>10. ASSUME NEW i \in 1..Len(written), \A k \in 1..P : i < fr[k]
       PROVE  i \in 1..Len(written') /\ \A k \in 1..Q : i < fr2[k]
  <2>1. i \in 1..Len(written') /\ i < Len(written) + 1
    BY <1>5
  <2>2. ASSUME NEW k \in 1..Q PROVE i < fr2[k]
    <3>1. CASE k \in 1..P
      BY <1>8, <1>10, <3>1, Zenon
    <3>2. CASE k \notin 1..P
      BY <1>9, <2>1, <3>2, Zenon
    <3> QED
      BY <3>1, <3>2
  <2> QED
    BY <2>1, <2>2
<1>11. Picked(executed', written', pick, Q, fr2)
  <2>1. /\ \A j \in 1..Len(executed) :
               pick[j] \in 1..Len(written) /\ written[pick[j]] = executed[j]
        /\ \A i, j \in 1..Len(executed) : i < j => pick[i] < pick[j]
        /\ \A j \in 1..Len(executed) : \A k \in 1..P : pick[j] < fr[k]
    BY <1>2 DEF Picked
  <2>2. \A j \in 1..Len(executed) :
            /\ pick[j] \in 1..Len(written') /\ written'[pick[j]] = executed[j]
            /\ \A k \in 1..Q : pick[j] < fr2[k]
    BY <1>5, <1>10, <2>1
  <2>3. executed' = executed
    OBVIOUS
  <2> QED
    BY <2>1, <2>2, <2>3 DEF Picked
<1>12. ASSUME m_recv_flag', pc' \in {"parse", "dispatch"}
       PROVE  Ready(Frame', executed', written', pick, Q, fr2)
  <2>1. Ready(Frame, executed, written, pick, P, fr)
    BY <1>12 DEF Trace, parserOnly
  <2>2. PICK i \in 1..Len(written) :
            /\ written[i] = Frame
            /\ \A j \in 1..Len(executed) : pick[j] < i
            /\ \A k \in 1..P : i < fr[k]
    BY <2>1 DEF Ready
  <2>3. i \in 1..Len(written') /\ \A k \in 1..Q : i < fr2[k]
    BY <1>10, <2>2
  <2>4. Frame' = Frame /\ executed' = executed
    BY DEF Frame, parserOnly
  <2>5. written'[i] = Frame' /\ \A j \in 1..Len(executed') : pick[j] < i
    BY <1>5, <2>2, <2>4
  <2> QED
    BY <2>3, <2>5 DEF Ready
<1>13. ASSUME pc' = "recv", avilable'
       PROVE  Q >= 1 /\ Begun(written[fr2[1]], off2[1])'
  <2>1. P >= 1 /\ Begun(written[fr[1]], off[1])
    BY <1>13 DEF Trace, parserOnly
  <2>2. 1 \in 1..P /\ 1 \in 1..(Len(ring) + Len(wire)) /\ Q >= 1
    BY <1>2, <1>4, <1>q, <2>1
  <2>3. fr[1] \in 1..Len(written)
    BY <1>2, <2>2 DEF Located
  <2>4. fr2[1] = fr[1] /\ off2[1] = off[1] /\ written'[fr2[1]] = written[fr[1]]
    BY <1>5, <1>8, <2>2, <2>3
  <2>5. p' = p /\ buffer' = buffer /\ preRecvLen' = preRecvLen
    BY DEF parserOnly
  <2>6. Begun(written[fr2[1]], off2[1])'
    BY <2>1, <2>4, <2>5 DEF Begun
  <2> QED
    BY <2>2, <2>6
<1>14. Trace(Q, fr2, off2, pick)'
  <2>1. Located(ring', wire', written', fr2, off2)
    BY <1>7
  <2> QED
    BY <1>q, <1>11, <1>12, <1>13, <2>1 DEF Trace
<1> QED
  BY <1>14

LEMMA StepPhantom ==
    TypesInv /\ TypesInv' /\ PhantomInv /\ [Next]_vars => PhantomInv'
<1> SUFFICES ASSUME TypesInv, TypesInv', PhantomInv, [Next]_vars,
                    PlainFrames, resets' = 0, ~lost'
             PROVE  \E P, fr, off, pick : Trace(P, fr, off, pick)'
    BY DEF PhantomInv
<1>0. resets = 0 /\ ~lost
  BY NotForgotten DEF TypesInv
<1>p. PICK P, fr, off, pick : Trace(P, fr, off, pick)
  BY <1>0 DEF PhantomInv
<1>1. CASE PollStep
  <2>1. UNCHANGED <<wire, written, executed>>
    BY <1>1 DEF PollStep, tcpOnly
  <2>2. ASSUME ring # <<>>, Parser!ReceiveByte(Head(ring))
        PROVE  \E P2, fr2, off2, pick2 : Trace(P2, fr2, off2, pick2)'
    BY <1>p, <2>1, <2>2, ByteTrace
  <2>3. CASE Parser!ReceiveDone \/ Parser!Parse \/ Parser!Reinit
    BY <1>p, <2>1, <2>3, PollTrace
  <2> QED
    BY <1>1, <2>2, <2>3 DEF PollStep, Parser!Poll
<1>2. CASE Execute
  BY <1>p, <1>2, ExecuteTrace
<1>3. CASE TcpRecv
  BY <1>p, <1>3, ReceivedTrace
<1>4. CASE Phone
  <2>1. UNCHANGED <<parserOnly, executed>>
    BY <1>4 DEF Phone
  <2>2. ASSUME NEW s \in Frames, Tcp!Write(s)
        PROVE  \E P2, fr2, off2, pick2 : Trace(P2, fr2, off2, pick2)'
    BY <1>p, <2>1, <2>2, WrittenTrace
  <2>3. CASE Tcp!Connect \/ Tcp!Close
    <3>1. UNCHANGED <<ring, wire, written>>
      BY <2>3 DEF Tcp!Connect, Tcp!Close
    <3>2. Trace(P, fr, off, pick)'
      BY <1>p, <2>1, <3>1 DEF Trace, Frame, Begun, parserOnly
    <3> QED
      BY <3>2
  <2>4. ~Tcp!Break
    <3>1. resets' # resets + 1
      BY <1>0
    <3> QED
      BY <3>1 DEF Tcp!Break
  <2> QED
    BY <1>4, <2>2, <2>3, <2>4 DEF Phone, Tcp!Peer
<1>5. CASE UNCHANGED vars
  <2>1. UNCHANGED <<ring, wire, written, executed, parserOnly>>
    BY <1>5 DEF vars, tcpOnly
  <2>2. Trace(P, fr, off, pick)'
    BY <1>p, <2>1 DEF Trace, Frame, Begun, parserOnly
  <2> QED
    BY <2>2
<1> QED
  BY <1>1, <1>2, <1>3, <1>4, <1>5 DEF Next, WifiControl

\* Whatever the pieces recv returns and wherever a poll cuts the stream, what
\* wifi_control acts on are frames the phone wrote, in its order and none twice:
\* for frames that hold START only at their beginning and whose length byte is
\* not END, while no connection has broken and nothing is lost in tcp_dat, that
\* is neither an overrun of its RingSize nor a race of put_force and the parser.
THEOREM PlainFramesArriveInOrder ==
    Spec => [](PlainFrames /\ resets = 0 => NoPhantom)
<1>1. TypesInv /\ PhantomInv => (PlainFrames /\ resets = 0 => NoPhantom)
  <2> SUFFICES ASSUME TypesInv, PhantomInv, PlainFrames, resets = 0, ~lost PROVE NoPhantom
    BY Zenon DEF NoPhantom
  <2> QED
    BY TraceIsOrder DEF PhantomInv, TypesInv
<1> QED
  BY Types, InitPhantom, StepPhantom, <1>1, PTL DEF Spec

\* Then the frames acted on are whole, and the motors do what they ask for.
LEMMA OrderIsWhole == CarTypes /\ PlainFrames /\ ~lost /\ NoPhantom => WholeLength
<1> SUFFICES ASSUME CarTypes, PlainFrames, ~lost, NoPhantom, NEW k \in 1..Len(executed)
             PROVE  Len(executed[k]) >= 8
    BY DEF WholeLength
<1>1. PICK i \in 1..Len(written) : written[i] = executed[k]
  <2>1. PICK pick \in [1..Len(executed) -> 1..Len(written)] :
            \A j \in 1..Len(executed) : written[pick[j]] = executed[j]
    BY DEF NoPhantom
  <2> QED
    BY <2>1
<1>2. executed[k] \in Frames
  <2>1. written \in Seq(Frames)
    BY DEF CarTypes
  <2> QED
    BY <1>1, <2>1, ElementOfSeq, Zenon
<1>3. Len(executed[k]) \in 8..255
  BY <1>2 DEF PlainFrames, Plain, Framed
<1>4. \A n \in 8..255 : n >= 8
  OBVIOUS
<1> QED
  BY <1>3, <1>4, Zenon

\* For such frames the motors do what the last moving frame acted on asks for, at
\* the speed last set, under the same conditions: no frame acted on is too short
\* then, which MotorsDoAsAsked asks for.
THEOREM PlainFramesAreObeyed ==
    Spec => [](PlainFrames /\ resets = 0 /\ ~lost => MotorsFollow)
<1>1. TypesInv => CarTypes
  BY DEF TypesInv
<1> QED
  BY Types, PlainFramesArriveInOrder, MotorsDoAsAsked, OrderIsWhole, <1>1, PTL
-----------------------------------------------------------------------------
(* Unless recv cuts the stream, no frame is skipped *)

\* Frame i of those written, ws, begins at place at[i] of the bytes on their way.
\* Frame n is the first of them, o bytes of it have been taken, and the ring
\* buffer ends where a frame does.
Lined(r, w, ws, n, o, at) ==
    /\ n \in 1..(Len(ws) + 1) /\ o \in Nat /\ at[n] = 1 - o
    /\ \A i \in n..(Len(ws) + 1) : at[i] \in Int
    /\ \A i, j \in n..(Len(ws) + 1) : i < j => at[i] < at[j]
    /\ \A i \in n..Len(ws) : at[i + 1] = at[i] + Len(ws[i])
    /\ \A i \in n..Len(ws) : \A k \in 1..Len(ws[i]) :
           at[i] + k > 1 => Waiting(r, w, (at[i] + k) - 1) = ws[i][k]
    /\ at[Len(ws) + 1] = Len(r) + Len(w) + 1
    /\ \E m \in n..(Len(ws) + 1) : at[m] = Len(r) + 1

\* The frames written are sequences of bytes.
LEMMA FrameLengths ==
    ASSUME NEW ws \in Seq(Frames)
    PROVE  /\ Len(ws) \in Nat
           /\ \A i \in 1..Len(ws) : ws[i] \in Frames /\ ws[i] \in Seq(0..255) /\ Len(ws[i]) \in Nat
<1>1. Len(ws) \in Nat
  OBVIOUS
<1>2. ASSUME NEW i \in 1..Len(ws)
      PROVE  ws[i] \in Frames /\ ws[i] \in Seq(0..255) /\ Len(ws[i]) \in Nat
  <2>1. ws[i] \in Frames
    BY ElementOfSeq
  <2>2. ws[i] \in Seq(0..255)
    BY <2>1, FramesAssumption
  <2> QED
    BY <2>1, <2>2, LenIsNat, Zenon
<1> QED
  BY <1>1, <1>2

\* Which frames the arithmetic below is about.
LEMMA FrameIndex ==
    ASSUME NEW N \in Nat, NEW n \in 1..(N + 1), NEW i \in n..N
    PROVE  /\ i \in 1..N /\ i \in n..(N + 1) /\ i + 1 \in n..(N + 1)
           /\ i + 1 = N + 1 \/ i + 1 < N + 1
  OBVIOUS

LEMMA LastIndex ==
    ASSUME NEW N \in Nat, NEW n \in 1..(N + 1)
    PROVE  n \in n..(N + 1) /\ N + 1 \in n..(N + 1)
  OBVIOUS

LEMMA InsideSum ==
    ASSUME NEW a \in Int, NEW m \in Nat, NEW k \in 1..m, NEW e \in Nat, a + m <= e + 1
    PROVE  k \in Nat /\ (a + k) - 1 <= e
  OBVIOUS

LEMMA ShiftedSum ==
    ASSUME NEW a \in Int, NEW m \in Nat
    PROVE  (a + m) - 1 = (a - 1) + m
  OBVIOUS

\* No byte of a frame lies behind the last one on its way.
LEMMA LinedInside ==
    ASSUME NEW r \in Seq(0..255), NEW w \in Seq(0..255), NEW ws \in Seq(Frames),
           NEW n, NEW o, NEW at, Lined(r, w, ws, n, o, at),
           NEW i \in n..Len(ws), NEW k \in 1..Len(ws[i])
    PROVE  /\ at[i] \in Int /\ i \in 1..Len(ws) /\ k \in Nat
           /\ (at[i] + k) - 1 <= Len(r) + Len(w)
<1>1. /\ n \in 1..(Len(ws) + 1)
      /\ \A a \in n..(Len(ws) + 1) : at[a] \in Int
      /\ \A a, b \in n..(Len(ws) + 1) : a < b => at[a] < at[b]
      /\ at[i + 1] = at[i] + Len(ws[i])
      /\ at[Len(ws) + 1] = Len(r) + Len(w) + 1
  BY DEF Lined
<1>2. Len(ws) \in Nat /\ Len(r) \in Nat /\ Len(w) \in Nat
  BY LenIsNat, Zenon
<1>3. /\ i \in 1..Len(ws) /\ i \in n..(Len(ws) + 1) /\ i + 1 \in n..(Len(ws) + 1)
      /\ Len(ws) + 1 \in n..(Len(ws) + 1)
      /\ i + 1 = Len(ws) + 1 \/ i + 1 < Len(ws) + 1
  BY <1>1, <1>2, FrameIndex, LastIndex, Zenon
<1>4. Len(ws[i]) \in Nat
  BY <1>3, FrameLengths
<1>5. at[i] \in Int /\ at[i + 1] \in Int /\ at[Len(ws) + 1] \in Int
  BY <1>1, <1>3, Zenon
<1>6. at[i + 1] = at[Len(ws) + 1] \/ at[i + 1] < at[Len(ws) + 1]
  BY <1>1, <1>3, Zenon
<1>7. at[i] + Len(ws[i]) <= (Len(r) + Len(w)) + 1 /\ Len(r) + Len(w) \in Nat
  <2>1. \A a, b \in Int : a = b \/ a < b => a <= b
    OBVIOUS
  <2>2. at[i + 1] <= at[Len(ws) + 1]
    BY <1>5, <1>6, <2>1, Zenon
  <2>3. Len(r) + Len(w) \in Nat
    BY <1>2
  <2> QED
    BY <1>1, <2>2, <2>3, Zenon
<1>8. k \in Nat /\ (at[i] + k) - 1 <= Len(r) + Len(w)
  BY <1>4, <1>5, <1>7, InsideSum, Zenon
<1> QED
  BY <1>3, <1>5, <1>8, Zenon

\* The byte the parser gets is the next of the frame.
NextByte(r, f, o) == Head(r) = f[o + 1] /\ o + 1 \in 1..Len(f)

LEMMA LinedHead ==
    ASSUME NEW r \in Seq(0..255), NEW w \in Seq(0..255), NEW ws \in Seq(Frames),
           NEW n, NEW o, NEW at, Lined(r, w, ws, n, o, at),
           r # <<>>, n <= Len(ws), o < Len(ws[n])
    PROVE  NextByte(r, ws[n], o)
<1>1. n \in 1..(Len(ws) + 1) /\ o \in Nat /\ at[n] = 1 - o
  BY DEF Lined
<1>2. Len(ws) \in Nat
  BY FrameLengths
<1>3. n \in 1..Len(ws) /\ n \in n..Len(ws)
  BY <1>1, <1>2
<1>4. Len(ws[n]) \in Nat
  BY <1>3, FrameLengths
<1>5. o + 1 \in 1..Len(ws[n])
  BY <1>1, <1>4
<1>6. at[n] + (o + 1) > 1 /\ (at[n] + (o + 1)) - 1 = 1
  BY <1>1
<1>7. Waiting(r, w, (at[n] + (o + 1)) - 1) = ws[n][o + 1]
  BY <1>3, <1>5, <1>6, Zenon DEF Lined
<1>8. Waiting(r, w, 1) = Head(r)
  BY TailOf DEF Waiting
<1> QED
  BY <1>3, <1>5, <1>6, <1>7, <1>8, Zenon DEF NextByte

\* An open frame has more of it in the ring buffer, a closed one is followed by
\* the beginning of the next, and when nothing is on its way none is missing.
LEMMA LinedAhead ==
    ASSUME NEW r \in Seq(0..255), NEW w \in Seq(0..255), NEW ws \in Seq(Frames),
           NEW n, NEW o, NEW at, Lined(r, w, ws, n, o, at)
    PROVE  /\ o >= 1 /\ n <= Len(ws) /\ o < Len(ws[n]) => r # <<>>
           /\ o = 0 /\ r # <<>> => n <= Len(ws)
           /\ o = 0 /\ r = <<>> /\ w = <<>> => n = Len(ws) + 1
<1>1. /\ n \in 1..(Len(ws) + 1) /\ o \in Nat /\ at[n] = 1 - o
      /\ \A a \in n..(Len(ws) + 1) : at[a] \in Int
      /\ \A a, b \in n..(Len(ws) + 1) : a < b => at[a] < at[b]
      /\ at[Len(ws) + 1] = Len(r) + Len(w) + 1
  BY DEF Lined
<1>2. Len(ws) \in Nat /\ Len(r) \in Nat /\ Len(w) \in Nat
  BY LenIsNat, Zenon
<1>3. PICK m \in n..(Len(ws) + 1) : at[m] = Len(r) + 1
  BY DEF Lined
<1>4. n \in n..(Len(ws) + 1) /\ Len(ws) + 1 \in n..(Len(ws) + 1)
  BY <1>1, <1>2
<1>5. m = n \/ n < m
  BY <1>1, <1>2
<1>6. r # <<>> <=> Len(r) >= 1
  OBVIOUS
<1>7. ASSUME o >= 1, n <= Len(ws), o < Len(ws[n]) PROVE r # <<>>
  <2>1. n \in n..Len(ws) /\ n \in 1..Len(ws) /\ n + 1 \in n..(Len(ws) + 1)
    BY <1>1, <1>2, <1>7
  <2>2. at[n + 1] = at[n] + Len(ws[n])
    BY <2>1, Zenon DEF Lined
  <2>3. Len(ws[n]) \in Nat
    BY <2>1, FrameLengths
  <2>4. at[n + 1] > 1 /\ at[n + 1] \in Int
    BY <1>1, <1>7, <2>2, <2>3
  <2>5. m # n
    BY <1>1, <1>2, <1>3, <1>7
  <2>6. m = n + 1 \/ n + 1 < m
    BY <1>1, <1>2, <1>5, <2>5
  <2>7. at[m] = at[n + 1] \/ at[n + 1] < at[m]
    BY <1>1, <2>1, <2>6, Zenon
  <2> QED
    BY <1>2, <1>3, <1>6, <2>4, <2>7
<1>8. ASSUME o = 0, r # <<>> PROVE n <= Len(ws)
  <2>1. m # n
    BY <1>1, <1>2, <1>3, <1>6, <1>8
  <2> QED
    BY <1>1, <1>2, <1>5, <2>1
<1>9. ASSUME o = 0, r = <<>>, w = <<>> PROVE n = Len(ws) + 1
  <2>1. at[n] = at[Len(ws) + 1]
    BY <1>1, <1>9
  <2>2. ~(at[n] < at[Len(ws) + 1])
    BY <1>1, <1>9, <2>1
  <2>3. ~(n < Len(ws) + 1)
    BY <1>1, <1>4, <2>2, Zenon
  <2> QED
    BY <1>1, <1>2, <2>3
<1> QED
  BY <1>7, <1>8, <1>9

\* recv moves all that has arrived to the ring buffer.
LEMMA CutAll ==
    ASSUME NEW s \in Seq(0..255), s # <<>>
    PROVE  /\ Len(s) \in 1..Len(s) /\ SubSeq(s, 1, Len(s)) = s
           /\ SubSeq(s, Len(s) + 1, Len(s)) = <<>>
<1>1. Len(s) \in 1..Len(s)
  OBVIOUS
<1>2. SubSeq(s, 1, Len(s)) = s
  OBVIOUS
<1>3. SubSeq(s, Len(s) + 1, Len(s)) = <<>>
  OBVIOUS
<1> QED
  BY <1>1, <1>2, <1>3, Zenon

LEMMA LinedReceived ==
    ASSUME NEW r \in Seq(0..255), NEW w \in Seq(0..255), NEW ws \in Seq(Frames),
           NEW n, NEW o, NEW at, Lined(r, w, ws, n, o, at), w # <<>>
    PROVE  Lined(r \o w, <<>>, ws, n, o, at)
<1>1. PICK r2, w2 : r2 = r \o w /\ w2 = <<>>
  OBVIOUS
<1>2. Len(ws) \in Nat /\ Len(r) \in Nat /\ Len(w) \in Nat
  BY LenIsNat, Zenon
<1>3. SamePlaces(r, w, r2, w2)
  <2>1. SamePlaces(r, w, r \o SubSeq(w, 1, Len(w)), SubSeq(w, Len(w) + 1, Len(w)))
    BY CutAll, ReceivedWaiting, Zenon
  <2> QED
    BY <1>1, <2>1, CutAll, Zenon
<1>4. Len(w2) = 0 /\ Len(r2) = Len(r) + Len(w)
  <2>1. Len(w2) = 0
    BY <1>1
  <2> QED
    BY <1>1, <2>1, LenOfConcat, Zenon
<1>5. /\ n \in 1..(Len(ws) + 1) /\ o \in Nat /\ at[n] = 1 - o
      /\ \A i \in n..(Len(ws) + 1) : at[i] \in Int
      /\ \A i, j \in n..(Len(ws) + 1) : i < j => at[i] < at[j]
      /\ \A i \in n..Len(ws) : at[i + 1] = at[i] + Len(ws[i])
      /\ at[Len(ws) + 1] = Len(r) + Len(w) + 1
  BY Zenon DEF Lined
<1>6. ASSUME NEW i \in n..Len(ws), NEW k \in 1..Len(ws[i]), at[i] + k > 1
      PROVE  Waiting(r2, w2, (at[i] + k) - 1) = ws[i][k]
  <2>1. Waiting(r, w, (at[i] + k) - 1) = ws[i][k]
    BY <1>6, Zenon DEF Lined
  <2>2. /\ at[i] \in Int /\ k \in Nat
        /\ (at[i] + k) - 1 <= Len(r) + Len(w)
    BY LinedInside, Zenon
  <2>3. (at[i] + k) - 1 \in 1..(Len(r) + Len(w))
    BY <1>2, <1>6, <2>2
  <2> QED
    BY <1>3, <2>1, <2>3, Zenon DEF SamePlaces
<1>7. Len(ws) + 1 \in n..(Len(ws) + 1) /\ at[Len(ws) + 1] = Len(r2) + 1
      /\ at[Len(ws) + 1] = Len(r2) + Len(w2) + 1
  <2>1. Len(ws) + 1 \in n..(Len(ws) + 1)
    BY <1>2, <1>5, LastIndex, Zenon
  <2>2. (Len(r) + Len(w)) + 1 = ((Len(r) + Len(w)) + 0) + 1
    BY <1>2
  <2>3. /\ at[Len(ws) + 1] = Len(r2) + 1
        /\ at[Len(ws) + 1] = Len(r2) + Len(w2) + 1
    BY <1>4, <1>5, <2>2
  <2> QED
    BY <2>1, <2>3, Zenon
<1>8. Lined(r2, w2, ws, n, o, at)
  BY <1>5, <1>6, <1>7, Zenon DEF Lined
<1> QED
  BY <1>1, <1>8, Zenon

\* One more byte of frame n is taken.
LinedOn(r, w, ws, n, o) == \E at : Lined(r, w, ws, n, o, at)

LEMMA LinedTaken ==
    ASSUME NEW r \in Seq(0..255), NEW w \in Seq(0..255), NEW ws \in Seq(Frames),
           NEW n, NEW o, LinedOn(r, w, ws, n, o), r # <<>>
    PROVE  LinedOn(Tail(r), w, ws, n, o + 1)
<1>a. PICK at : Lined(r, w, ws, n, o, at)
  BY DEF LinedOn
<1>b. PICK t, at2 : /\ t = Tail(r)
                    /\ at2 = [i \in n..(Len(ws) + 1) |-> at[i] - 1]
  OBVIOUS
<1>1. /\ n \in 1..(Len(ws) + 1) /\ o \in Nat /\ at[n] = 1 - o
      /\ \A i \in n..(Len(ws) + 1) : at[i] \in Int
      /\ \A i, j \in n..(Len(ws) + 1) : i < j => at[i] < at[j]
      /\ \A i \in n..Len(ws) : at[i + 1] = at[i] + Len(ws[i])
      /\ at[Len(ws) + 1] = Len(r) + Len(w) + 1
      /\ \E m \in n..(Len(ws) + 1) : at[m] = Len(r) + 1
  BY <1>a, Zenon DEF Lined
<1>2. Len(ws) \in Nat /\ Len(r) \in Nat /\ Len(w) \in Nat
  BY LenIsNat, Zenon
<1>3. /\ Len(t) = Len(r) - 1
      /\ \A k \in 1..(Len(r) - 1) : t[k] = r[k + 1]
  BY <1>b, TailOf, Zenon
<1>4. \A i \in n..(Len(ws) + 1) : at2[i] = at[i] - 1
  BY <1>b
<1>5. n \in n..(Len(ws) + 1) /\ Len(ws) + 1 \in n..(Len(ws) + 1)
  BY <1>1, <1>2, LastIndex, Zenon
<1>6. o + 1 \in Nat /\ at2[n] = 1 - (o + 1)
  <2>1. at2[n] = at[n] - 1
    BY <1>4, <1>5, Zenon
  <2> QED
    BY <1>1, <2>1
<1>7. ASSUME NEW i \in n..(Len(ws) + 1) PROVE at2[i] \in Int
  <2>1. at[i] \in Int /\ at2[i] = at[i] - 1
    BY <1>1, <1>4, Zenon
  <2> QED
    BY <2>1
<1>8. ASSUME NEW i \in n..(Len(ws) + 1), NEW j \in n..(Len(ws) + 1), i < j
      PROVE  at2[i] < at2[j]
  <2>1. at[i] \in Int /\ at[j] \in Int /\ at[i] < at[j]
    BY <1>1, <1>8, Zenon
  <2>2. at2[i] = at[i] - 1 /\ at2[j] = at[j] - 1
    BY <1>4, Zenon
  <2> QED
    BY <2>1, <2>2
<1>9. ASSUME NEW i \in n..Len(ws)
      PROVE  at2[i + 1] = at2[i] + Len(ws[i])
  <2>1. i \in n..(Len(ws) + 1) /\ i + 1 \in n..(Len(ws) + 1) /\ i \in 1..Len(ws)
    BY <1>1, <1>2, FrameIndex, Zenon
  <2>2. at2[i + 1] = at[i + 1] - 1 /\ at2[i] = at[i] - 1 /\ at[i] \in Int
    BY <1>1, <1>4, <2>1, Zenon
  <2>3. Len(ws[i]) \in Nat
    BY <2>1, FrameLengths
  <2>4. at[i + 1] = at[i] + Len(ws[i])
    BY <1>1, Zenon
  <2> QED
    BY <2>2, <2>3, <2>4, ShiftedSum, Zenon
<1>10. ASSUME NEW i \in n..Len(ws), NEW k \in 1..Len(ws[i]), at2[i] + k > 1
       PROVE  Waiting(t, w, (at2[i] + k) - 1) = ws[i][k]
  <2>1. /\ at[i] \in Int /\ i \in 1..Len(ws) /\ k \in Nat
        /\ (at[i] + k) - 1 <= Len(r) + Len(w)
    BY <1>a, LinedInside, Zenon
  <2>2. i \in n..(Len(ws) + 1)
    BY <1>1, <1>2, FrameIndex, Zenon
  <2>3. PICK x : x = (at[i] + k) - 1
    OBVIOUS
  <2>4. at2[i] = at[i] - 1
    BY <1>4, <2>2, Zenon
  <2>5. x \in Int /\ x >= 2 /\ (at2[i] + k) - 1 = x - 1 /\ at[i] + k > 1
    <3>1. \A a \in Int : \A c \in Nat : (a - 1) + c > 1 =>
              /\ (a + c) - 1 \in Int /\ (a + c) - 1 >= 2 /\ a + c > 1
              /\ ((a - 1) + c) - 1 = ((a + c) - 1) - 1
      OBVIOUS
    <3>2. (at[i] - 1) + k > 1
      BY <1>10, <2>4, Zenon
    <3> QED
      BY <2>1, <2>3, <2>4, <3>1, <3>2, Zenon
  <2>6. Waiting(r, w, x) = ws[i][k]
    BY <1>a, <2>3, <2>5, Zenon DEF Lined
  <2>7. Waiting(t, w, x - 1) = Waiting(r, w, x)
    <3>1. CASE x <= Len(r)
      <4>1. x - 1 <= Len(t) /\ x - 1 \in 1..(Len(r) - 1) /\ (x - 1) + 1 = x
        BY <1>2, <1>3, <2>5, <3>1
      <4>2. t[x - 1] = r[x]
        BY <1>3, <4>1
      <4> QED
        BY <3>1, <4>1, <4>2, Zenon DEF Waiting
    <3>2. CASE ~(x <= Len(r))
      <4>1. ~(x - 1 <= Len(t)) /\ (x - 1) - Len(t) = x - Len(r)
        BY <1>2, <1>3, <2>5, <3>2
      <4> QED
        BY <3>2, <4>1, Zenon DEF Waiting
    <3> QED
      BY <3>1, <3>2
  <2> QED
    BY <2>5, <2>6, <2>7, Zenon
<1>11. at2[Len(ws) + 1] = Len(t) + Len(w) + 1
  <2>1. at2[Len(ws) + 1] = at[Len(ws) + 1] - 1
    BY <1>4, <1>5, Zenon
  <2>2. at[Len(ws) + 1] = Len(r) + Len(w) + 1
    BY <1>1
  <2> QED
    BY <1>2, <1>3, <2>1, <2>2
<1>12. \E m \in n..(Len(ws) + 1) : at2[m] = Len(t) + 1
  <2>1. PICK m \in n..(Len(ws) + 1) : at[m] = Len(r) + 1
    BY <1>1, Zenon
  <2>2. at2[m] = at[m] - 1
    BY <1>4, Zenon
  <2>3. at2[m] = Len(t) + 1
    BY <1>2, <1>3, <2>1, <2>2
  <2> QED
    BY <2>3
<1>13. Lined(t, w, ws, n, o + 1, at2)
  BY <1>1, <1>6, <1>7, <1>8, <1>9, <1>10, <1>11, <1>12, Zenon DEF Lined
<1> QED
  BY <1>b, <1>13, Zenon DEF LinedOn

\* Frame n has been taken whole.
LEMMA LinedDone ==
    ASSUME NEW r \in Seq(0..255), NEW w \in Seq(0..255), NEW ws \in Seq(Frames),
           NEW n, NEW o, LinedOn(r, w, ws, n, o), n <= Len(ws), o = Len(ws[n]), o >= 1
    PROVE  LinedOn(r, w, ws, n + 1, 0)
<1>a. PICK at : Lined(r, w, ws, n, o, at)
  BY DEF LinedOn
<1>1. /\ n \in 1..(Len(ws) + 1) /\ o \in Nat /\ at[n] = 1 - o
      /\ \A i \in n..(Len(ws) + 1) : at[i] \in Int
      /\ \A i, j \in n..(Len(ws) + 1) : i < j => at[i] < at[j]
      /\ \A i \in n..Len(ws) : at[i + 1] = at[i] + Len(ws[i])
      /\ at[Len(ws) + 1] = Len(r) + Len(w) + 1
  BY <1>a, Zenon DEF Lined
<1>2. Len(ws) \in Nat /\ Len(r) \in Nat
  BY LenIsNat, Zenon
<1>3. /\ n \in n..Len(ws) /\ n + 1 \in 1..(Len(ws) + 1)
      /\ \A i \in (n + 1)..(Len(ws) + 1) : i \in n..(Len(ws) + 1)
      /\ \A i \in (n + 1)..Len(ws) : i \in n..Len(ws)
  BY <1>1, <1>2
<1>4. at[n + 1] = 1 - 0
  <2>1. at[n + 1] = at[n] + Len(ws[n])
    BY <1>1, <1>3, Zenon
  <2> QED
    BY <1>1, <2>1
<1>5. PICK m \in n..(Len(ws) + 1) : at[m] = Len(r) + 1
  BY <1>a, Zenon DEF Lined
<1>6. m \in (n + 1)..(Len(ws) + 1)
  <2>1. m # n
    BY <1>1, <1>2, <1>5
  <2> QED
    BY <1>1, <1>2, <2>1
<1>7. \A i \in (n + 1)..Len(ws) : \A k \in 1..Len(ws[i]) :
          at[i] + k > 1 => Waiting(r, w, (at[i] + k) - 1) = ws[i][k]
  BY <1>a, <1>3, Zenon DEF Lined
<1>8. 0 \in Nat
  OBVIOUS
<1>9. Lined(r, w, ws, n + 1, 0, at)
  BY <1>1, <1>3, <1>4, <1>5, <1>6, <1>7, <1>8, Zenon DEF Lined
<1> QED
  BY <1>9, Zenon DEF LinedOn

\* A frame written comes behind all others.
LEMMA LinedWritten ==
    ASSUME NEW r \in Seq(0..255), NEW w \in Seq(0..255), NEW ws \in Seq(Frames),
           NEW n, NEW o, LinedOn(r, w, ws, n, o), NEW s \in Frames, Len(s) >= 1
    PROVE  LinedOn(r, w \o s, Append(ws, s), n, o)
<1>a. PICK at : Lined(r, w, ws, n, o, at)
  BY DEF LinedOn
<1>s. s \in Seq(0..255)
  BY FramesAssumption
<1>b. PICK w2, ws2, N : w2 = w \o s /\ ws2 = Append(ws, s) /\ N = Len(ws)
  OBVIOUS
<1>1. /\ n \in 1..(N + 1) /\ o \in Nat /\ at[n] = 1 - o
      /\ \A i \in n..(N + 1) : at[i] \in Int
      /\ \A i, j \in n..(N + 1) : i < j => at[i] < at[j]
      /\ \A i \in n..N : at[i + 1] = at[i] + Len(ws[i])
      /\ at[N + 1] = Len(r) + Len(w) + 1
      /\ \E m \in n..(N + 1) : at[m] = Len(r) + 1
  BY <1>a, <1>b, Zenon DEF Lined
<1>2. N \in Nat /\ Len(r) \in Nat /\ Len(w) \in Nat /\ Len(s) \in Nat
  BY <1>s, <1>b, LenIsNat, Zenon
<1>3. /\ Len(ws2) = N + 1 /\ ws2[N + 1] = s
      /\ \A i \in 1..N : ws2[i] = ws[i]
  BY <1>b, FrameAppended, Zenon
<1>4. Len(w2) = Len(w) + Len(s)
  BY <1>s, <1>b, LenOfConcat, Zenon
<1>5. PICK at2 : at2 = [i \in n..(N + 2) |-> IF i <= N + 1 THEN at[i]
                                             ELSE at[N + 1] + Len(s)]
  OBVIOUS
<1>6. ASSUME NEW i \in n..(N + 1)
      PROVE  i \in n..(N + 2) /\ at2[i] = at[i] /\ i \in Int
  <2>1. i \in n..(N + 2) /\ i <= N + 1 /\ i \in Int
    BY <1>1, <1>2
  <2> QED
    BY <1>5, <2>1
<1>7. at2[N + 2] = at[N + 1] + Len(s)
  <2>1. N + 2 \in n..(N + 2) /\ ~(N + 2 <= N + 1)
    BY <1>1, <1>2
  <2> QED
    BY <1>5, <2>1
<1>8. \A i \in n..(N + 2) : i \in n..(N + 1) \/ i = N + 2
  BY <1>1, <1>2
<1>9. n \in n..(N + 1) /\ N + 1 \in n..(N + 1)
  BY <1>1, <1>2, LastIndex, Zenon
<1>10. at[N + 1] \in Int /\ at2[N + 2] \in Int /\ at[N + 1] < at2[N + 2]
  <2>1. at[N + 1] \in Int
    BY <1>1, <1>9, Zenon
  <2> QED
    BY <1>2, <1>7, <2>1
<1>11. ASSUME NEW i \in n..(N + 2) PROVE at2[i] \in Int
  BY <1>1, <1>6, <1>8, <1>10, Zenon
<1>12. ASSUME NEW i \in n..(N + 2), NEW j \in n..(N + 2), i < j
       PROVE  at2[i] < at2[j]
  <2>1. i \in n..(N + 1)
    <3>1. i # N + 2
      BY <1>1, <1>2, <1>12
    <3> QED
      BY <1>8, <3>1, Zenon
  <2>2. CASE j \in n..(N + 1)
    BY <1>1, <1>6, <1>12, <2>1, <2>2, Zenon
  <2>3. CASE j = N + 2
    <3>1. at[i] = at[N + 1] \/ at[i] < at[N + 1]
      <4>1. i = N + 1 \/ i < N + 1
        BY <1>2, <2>1
      <4> QED
        BY <1>1, <1>9, <2>1, <4>1, Zenon
    <3>2. at[i] \in Int /\ at2[i] = at[i]
      BY <1>1, <1>6, <2>1, Zenon
    <3>3. \A a, b, c \in Int : (a = b \/ a < b) /\ b < c => a < c
      OBVIOUS
    <3> QED
      BY <1>10, <2>3, <3>1, <3>2, <3>3, Zenon
  <2> QED
    BY <1>8, <2>2, <2>3, Zenon
<1>13. ASSUME NEW i \in n..(N + 1), i # N + 1
       PROVE  i \in n..N /\ i \in 1..N /\ i + 1 \in n..(N + 1) /\ ws2[i] = ws[i]
  <2>1. i \in n..N /\ i \in 1..N /\ i + 1 \in n..(N + 1)
    BY <1>1, <1>2, <1>13
  <2> QED
    BY <1>3, <2>1, Zenon
<1>14. ASSUME NEW i \in n..(N + 1) PROVE at2[i + 1] = at2[i] + Len(ws2[i])
  <2>1. CASE i = N + 1
    <3>1. i + 1 = N + 2
      BY <1>2, <2>1
    <3> QED
      BY <1>3, <1>6, <1>7, <2>1, <3>1, Zenon
  <2>2. CASE i # N + 1
    <3>1. i \in n..N /\ i + 1 \in n..(N + 1) /\ ws2[i] = ws[i]
      BY <1>13, <2>2, Zenon
    <3>2. at2[i] = at[i] /\ at2[i + 1] = at[i + 1]
      BY <1>6, <3>1, Zenon
    <3> QED
      BY <1>1, <3>1, <3>2, Zenon
  <2> QED
    BY <2>1, <2>2
<1>15. ASSUME NEW x \in 1..(Len(r) + Len(w)) PROVE Waiting(r, w2, x) = Waiting(r, w, x)
  <2>1. ~(x <= Len(r)) => x - Len(r) \in 1..(Len(w) + Len(s)) /\ x - Len(r) <= Len(w)
    BY <1>2
  <2>2. ~(x <= Len(r)) => w2[x - Len(r)] = w[x - Len(r)]
    BY <1>b, <1>s, <2>1, ByteOfConcat, Zenon
  <2> QED
    BY <2>2, Zenon DEF Waiting
<1>16. ASSUME NEW k \in 1..Len(s)
       PROVE  Waiting(r, w2, Len(r) + Len(w) + k) = s[k]
  <2>1. PICK x : x = Len(r) + Len(w) + k
    OBVIOUS
  <2>2. /\ ~(x <= Len(r)) /\ x - Len(r) \in 1..(Len(w) + Len(s))
        /\ ~(x - Len(r) <= Len(w)) /\ (x - Len(r)) - Len(w) = k
    BY <1>2, <2>1
  <2>3. w2[x - Len(r)] = s[k]
    BY <1>b, <1>s, <2>2, ByteOfConcat, Zenon
  <2> QED
    BY <2>1, <2>2, <2>3, Zenon DEF Waiting
<1>17. ASSUME NEW i \in n..(N + 1), NEW k \in 1..Len(ws2[i]), at2[i] + k > 1
       PROVE  Waiting(r, w2, (at2[i] + k) - 1) = ws2[i][k]
  <2>1. CASE i = N + 1
    <3>1. ws2[i] = s /\ k \in 1..Len(s)
      BY <1>3, <2>1, Zenon
    <3>2. (at2[i] + k) - 1 = Len(r) + Len(w) + k
      <4>1. at2[i] = Len(r) + Len(w) + 1
        BY <1>1, <1>6, <2>1, Zenon
      <4>2. ((Len(r) + Len(w) + 1) + k) - 1 = Len(r) + Len(w) + k
        BY <1>2, <3>1
      <4> QED
        BY <4>1, <4>2, Zenon
    <3> QED
      BY <1>16, <3>1, <3>2, Zenon
  <2>2. CASE i # N + 1
    <3>1. i \in n..N /\ i \in 1..N /\ ws2[i] = ws[i] /\ k \in 1..Len(ws[i])
      BY <1>13, <2>2, Zenon
    <3>2. /\ at[i] \in Int /\ k \in Nat
          /\ (at[i] + k) - 1 <= Len(r) + Len(w)
      BY <1>a, <1>b, <3>1, LinedInside, Zenon
    <3>3. at2[i] = at[i] /\ at[i] + k > 1
      BY <1>6, <1>17, Zenon
    <3>4. Waiting(r, w, (at[i] + k) - 1) = ws[i][k]
      BY <1>a, <1>b, <3>1, <3>3, Zenon DEF Lined
    <3>5. (at[i] + k) - 1 \in 1..(Len(r) + Len(w))
      BY <1>2, <3>2, <3>3
    <3> QED
      BY <1>15, <3>1, <3>3, <3>4, <3>5, Zenon
  <2> QED
    BY <2>1, <2>2
<1>18. at2[N + 2] = Len(r) + Len(w2) + 1
  <2>1. at2[N + 2] = (Len(r) + Len(w) + 1) + Len(s)
    BY <1>1, <1>7, Zenon
  <2>2. (Len(r) + Len(w) + 1) + Len(s) = Len(r) + (Len(w) + Len(s)) + 1
    BY <1>2
  <2> QED
    BY <1>4, <2>1, <2>2, Zenon
<1>19. \E m \in n..(N + 2) : at2[m] = Len(r) + 1
  <2>1. PICK m \in n..(N + 1) : at[m] = Len(r) + 1
    BY <1>1, Zenon
  <2> QED
    BY <1>6, <2>1
<1>20. at2[n] = 1 - o /\ n \in 1..(N + 2)
  <2>1. at2[n] = 1 - o
    BY <1>1, <1>6, <1>9, Zenon
  <2>2. n \in 1..(N + 2)
    BY <1>1, <1>2
  <2> QED
    BY <2>1, <2>2
<1>21. Len(ws2) + 1 = N + 2
  BY <1>2, <1>3
<1>22. Lined(r, w2, ws2, n, o, at2)
  BY <1>1, <1>3, <1>11, <1>12, <1>14, <1>17, <1>18, <1>19, <1>20, <1>21, Zenon DEF Lined
<1> QED
  BY <1>b, <1>22, Zenon DEF LinedOn

\* The package buffer with the beginning of a frame.
LEMMA PaddedNone == ASSUME NEW f PROVE Padded(f, 0) = Parser!EmptyBuffer
<1>1. \A i \in 0..(BUFFER_SIZE - 1) : ~(i < 0)
  BY SizeAssumption
<1> QED
  BY <1>1 DEF Padded, Parser!EmptyBuffer

LEMMA PaddedMore ==
    ASSUME NEW f, NEW m \in 0..(BUFFER_SIZE - 1), NEW d, d = f[m + 1]
    PROVE  [Padded(f, m) EXCEPT ![m] = d] = Padded(f, m + 1)
<1>1. \A i \in 0..(BUFFER_SIZE - 1) : (i < m + 1) <=> (i < m \/ i = m)
  BY SizeAssumption
<1>2. ~(m < m)
  BY SizeAssumption
<1> QED
  BY <1>1, <1>2 DEF Padded

\* A frame that fits is received to its end.
LEMMA StoreKeeps ==
    ASSUME TypesInv, pc = "recv", avilable,
           NEW f, Framed(f), Len(f) <= BUFFER_SIZE, NEW o \in 1..Len(f), Begun(f, o),
           NEW d, d = f[o], Parser!ReceiveStore(d)
    PROVE  pc' = "recv" /\ avilable'
<1>1. /\ p \in 1..(BUFFER_SIZE - 1) /\ o = p + 1 /\ Parser!NextIndex = p
      /\ preRecvLen = IF p = 1 THEN 0 ELSE Len(f) - 2
      /\ Len(f) \in 8..255
  BY BegunFacts
<1>2. o < Len(f)
  BY StoreGoesOn
<1>3. Parser!Announced(d) = Len(f) - 2
  <2>1. CASE p = 1
    <3>1. d = f[2] /\ f[2] = Len(f) - 2
      BY <1>1, <2>1 DEF Framed
    <3> QED
      BY <1>1, <2>1, <3>1, Zenon DEF Parser!Announced
  <2>2. CASE p # 1
    BY <1>1, <2>2, Zenon DEF Parser!Announced
  <2> QED
    BY <2>1, <2>2
<1>4. p \in Nat /\ Len(f) \in Nat /\ p <= Len(f) - 2 /\ Len(f) - 2 # 0 /\ Len(f) >= 8
  <2>1. PICK m : m = Len(f)
    OBVIOUS
  <2>2. m \in 8..255 /\ p + 1 < m /\ p \in Nat
    <3>1. p \in Nat
      BY <1>1, SizeAssumption
    <3> QED
      BY <1>1, <1>2, <2>1, <3>1, Zenon
  <2>3. p <= m - 2 /\ m - 2 # 0 /\ m \in Nat /\ m >= 8
    BY <2>2
  <2> QED
    BY <2>1, <2>2, <2>3, Zenon
<1>5. ~Parser!TooLong(d)
  <2>1. CASE p = 1
    <3>1. d = Len(f) - 2
      BY <1>1, <2>1 DEF Framed
    <3>2. ~(d > BUFFER_SIZE - 2)
      BY <1>4, <3>1, SizeAssumption
    <3> QED
      BY <3>2, Zenon DEF Parser!TooLong
  <2>2. CASE p # 1
    BY <1>1, <2>2, Zenon DEF Parser!TooLong
  <2> QED
    BY <2>1, <2>2
<1>6. ~Parser!Overshoots(d)
  <2>1. ~(p > Len(f) - 2)
    BY <1>4
  <2> QED
    BY <1>1, <1>3, <2>1, Zenon DEF Parser!Overshoots
<1>7. ~Parser!Exhausted
  <2>1. ~(p >= BUFFER_SIZE - 1)
    BY <1>4, SizeAssumption
  <2> QED
    BY <1>1, <2>1, Zenon DEF Parser!Exhausted
<1> QED
  BY <1>5, <1>6, <1>7, Zenon DEF Parser!ReceiveStore

\* A frame whose check sum is right is accepted.
LEMMA ProperAccepted ==
    ASSUME NEW f, Proper(f), buffer = Padded(f, Len(f))
    PROVE  Parser!Verdicts = {TRUE}
<1>1. Framed(f) /\ Len(f) <= BUFFER_SIZE
  BY DEF Proper
<1>2. PICK m : m = Len(f)
  OBVIOUS
<1>3. m \in 8..255 /\ f[2] = m - 2 /\ f \in Seq(0..255) /\ m <= BUFFER_SIZE
  BY <1>1, <1>2, Zenon DEF Framed
<1>4. 1 \in 0..(BUFFER_SIZE - 1) /\ 1 < m /\ 1 + 1 = 2
  BY <1>3, SizeAssumption
<1>5. Parser!Len8 = m - 2
  <2>1. Padded(f, m)[1] = f[1 + 1]
    BY <1>4 DEF Padded
  <2>2. buffer[1] = f[1 + 1]
    BY <1>2, <2>1, Zenon
  <2> QED
    BY <1>3, <1>4, <2>2, Zenon DEF Parser!Len8
<1>6. Parser!DataLen = m - 8
  <2>1. m - 8 \in 0..255 /\ (m - 2) - 6 = m - 8
    BY <1>3
  <2>2. (m - 8) % 256 = m - 8
    BY <2>1, SmallMod, Zenon
  <2> QED
    BY <1>5, <2>1, <2>2, Zenon DEF Parser!DataLen
<1>7. Parser!InBuffer
  <2>1. \A a, b \in Int : a <= b => 5 + (a - 8) + 1 < b
    OBVIOUS
  <2>2. m \in Int /\ BUFFER_SIZE \in Int
    BY <1>3, SizeAssumption
  <2>3. 5 + (m - 8) + 1 < BUFFER_SIZE
    BY <1>3, <2>1, <2>2, Zenon
  <2> QED
    BY <1>6, <2>3, Zenon DEF Parser!InBuffer
<1>8. Parser!CheckSum = Parser!Sum
  <2>1. (buffer[1] + buffer[2] + buffer[3] + buffer[4] + Parser!DataSum(buffer, m - 8)) % 65536
            = buffer[5 + (m - 8)] * 256 + buffer[6 + (m - 8)]
    BY <1>2 DEF Proper
  <2> QED
    BY <1>6, <2>1 DEF Parser!CheckSum, Parser!Sum, Parser!Len8, Parser!Function
<1>9. (Parser!CheckSum = Parser!Sum) = TRUE
  BY <1>8
<1> QED
  BY <1>7, <1>9, Zenon DEF Parser!Verdicts

\* A complete frame is in the buffer and has not been acted on.
Held == pc \in {"parse", "dispatch"} /\ m_recv_flag

\* The open frame is f, and its first o bytes are all there is in the buffer.
Opened(f, o) ==
    /\ o \in 1..(Len(f) - 1) /\ p = o
    /\ Begun(f, o + 1) /\ buffer = Padded(f, o)

\* Frame n is the next whose bytes are on their way, o of them having been taken.
Synced(n, o) ==
    /\ Held => LET f == written[Len(executed) + 1]
               IN  n = Len(executed) + 2 /\ Frame = f /\ buffer = Padded(f, Len(f))
    /\ ~Held => n = Len(executed) + 1
    /\ pc = "recv" /\ avilable => n <= Len(written) /\ Opened(written[n], o)
    /\ ~(pc = "recv" /\ avilable) => o = 0
    /\ pc = "recv" /\ ~avilable => buffer = Parser!EmptyBuffer

InStep == \E n, o : LinedOn(ring, wire, written, n, o) /\ Synced(n, o)

\* While no connection has broken, recv has cut nothing and nothing is lost, the
\* frames acted on are the first of those written.
FirstActed == \A j \in 1..Len(executed) : executed[j] = written[j]

SkipInv == ProperFrames /\ resets = 0 /\ ~cut /\ ~lost => InStep /\ FirstActed

\* What the invariant says is on its way.
LEMMA LinedNumber ==
    ASSUME NEW r \in Seq(0..255), NEW w \in Seq(0..255), NEW ws \in Seq(Frames),
           NEW n, NEW o, LinedOn(r, w, ws, n, o)
    PROVE  n \in 1..(Len(ws) + 1) /\ o \in Nat /\ Len(ws) \in Nat
<1>1. PICK at : Lined(r, w, ws, n, o, at)
  BY Zenon DEF LinedOn
<1>2. n \in 1..(Len(ws) + 1) /\ o \in Nat
  BY <1>1, Zenon DEF Lined
<1> QED
  BY <1>2, LenIsNat, Zenon

LEMMA ProperLength ==
    ASSUME ProperFrames, NEW ws \in Seq(Frames), NEW n \in 1..Len(ws)
    PROVE  /\ Proper(ws[n]) /\ Framed(ws[n]) /\ Len(ws[n]) \in 8..255
           /\ Len(ws[n]) <= BUFFER_SIZE
<1>1. ws[n] \in Frames
  BY ElementOfSeq
<1>2. Proper(ws[n])
  BY <1>1, Zenon DEF ProperFrames
<1>3. Framed(ws[n]) /\ Len(ws[n]) <= BUFFER_SIZE
  BY <1>2 DEF Proper
<1>4. Len(ws[n]) \in 8..255
  BY <1>3 DEF Framed
<1> QED
  BY <1>2, <1>3, <1>4, Zenon

\* A frame that is open has more of it in the ring buffer.
LEMMA OpenGoesOn ==
    ASSUME ProperFrames, NEW r \in Seq(0..255), NEW w \in Seq(0..255), NEW ws \in Seq(Frames),
           NEW n, NEW o, NEW at, Lined(r, w, ws, n, o, at),
           n \in 1..Len(ws), n <= Len(ws), Opened(ws[n], o)
    PROVE  r # <<>>
<1>1. PICK m : m = Len(ws[n])
  OBVIOUS
<1>2. m \in 8..255 /\ o \in 1..(m - 1)
  BY <1>1, ProperLength, Zenon DEF Opened
<1>3. o >= 1 /\ o < m
  BY <1>2
<1> QED
  BY <1>1, <1>3, LinedAhead, Zenon

\* Taking a byte keeps in step.
LEMMA ByteInStep ==
    ASSUME TypesInv, TypesInv', ProperFrames, InStep, ring # <<>>,
           NEW d, d = Head(ring), Parser!ReceiveByte(d), UNCHANGED <<wire, written, executed>>
    PROVE  InStep'
<1>a. PICK n, o : LinedOn(ring, wire, written, n, o) /\ Synced(n, o)
  BY DEF InStep
<1>c. CarTypes
  BY DEF TypesInv
<1>t. ring \in Seq(0..255) /\ wire \in Seq(0..255) /\ written \in Seq(Frames)
  BY <1>c DEF CarTypes
<1>r. pc = "recv" /\ ring' = Tail(ring) /\ ~m_recv_flag
  BY DEF Parser!ReceiveByte, Parser!Taken, Parser!ReceiveStart, Parser!ReceiveSkip,
         Parser!ReceiveEnd, Parser!ReceiveStore, TypesInv, Flagged
<1>n. n = Len(executed) + 1
  BY <1>a, <1>r, Zenon DEF Synced, Held
<1>m. n \in 1..(Len(written) + 1) /\ o \in Nat /\ Len(written) \in Nat
  BY <1>a, <1>t, LinedNumber, Zenon
<1>at. PICK at : Lined(ring, wire, written, n, o, at)
  BY <1>a, Zenon DEF LinedOn
<1>1. n <= Len(written)
  <2>1. CASE avilable
    BY <1>a, <1>r, <2>1, Zenon DEF Synced
  <2>2. CASE ~avilable
    <3>1. o = 0
      BY <1>a, <2>2, Zenon DEF Synced
    <3> QED
      BY <1>at, <1>t, <3>1, LinedAhead, Zenon
  <2> QED
    BY <2>1, <2>2
<1>2. n \in 1..Len(written)
  BY <1>m, <1>1
<1>f. PICK f : f = written[n]
  OBVIOUS
<1>3. Proper(f) /\ Framed(f) /\ Len(f) \in 8..255 /\ Len(f) <= BUFFER_SIZE
  BY <1>2, <1>f, <1>t, ProperLength, Zenon
<1>4. avilable => Opened(f, o)
  BY <1>a, <1>f, <1>r, Zenon DEF Synced
<1>5. ~avilable => o = 0 /\ buffer = Parser!EmptyBuffer
  BY <1>a, <1>r, Zenon DEF Synced
<1>6. o < Len(f)
  <2>1. CASE avilable
    <3>1. o \in 1..(Len(f) - 1)
      BY <1>4, <2>1 DEF Opened
    <3> QED
      BY <1>3, <3>1
  <2>2. CASE ~avilable
    <3>1. \A m \in 8..255 : 0 < m
      OBVIOUS
    <3> QED
      BY <1>3, <1>5, <2>2, <3>1, Zenon
  <2> QED
    BY <2>1, <2>2
<1>7. d = f[o + 1] /\ o + 1 \in 1..Len(f)
  <2>1. o < Len(written[n])
    BY <1>6, <1>f, Zenon
  <2>2. NextByte(ring, written[n], o)
    BY <1>at, <1>t, <1>1, <2>1, LinedHead, Zenon
  <2> QED
    BY <1>f, <2>2, Zenon DEF NextByte
<1>8. LinedOn(ring', wire', written', n, o + 1)
  <2>1. LinedOn(Tail(ring), wire, written, n, o + 1)
    BY <1>a, <1>t, LinedTaken, Zenon
  <2>2. ring' = Tail(ring) /\ wire' = wire /\ written' = written
    BY <1>r
  <2> QED
    BY <2>1, <2>2, Zenon
<1>9. written' = written /\ executed' = executed /\ written'[n] = f
      /\ n <= Len(written') /\ n = Len(executed') + 1
  BY <1>1, <1>f, <1>n
<1>10. ASSUME Parser!ReceiveStart(d) PROVE InStep'
  <2>1. /\ ~avilable /\ pc' = "recv" /\ avilable' /\ ~m_recv_flag' /\ p' = 1
        /\ preRecvLen' = 0 /\ buffer' = [buffer EXCEPT ![0] = d]
    BY <1>10, <1>r DEF Parser!ReceiveStart
  <2>2. o = 0 /\ o + 1 = 1
    BY <1>5, <2>1
  <2>3. buffer' = Padded(f, 1)
    <3>1. 0 \in 0..(BUFFER_SIZE - 1) /\ 0 + 1 = 1
      BY SizeAssumption
    <3>2. d = f[0 + 1]
      BY <1>7, <2>2, <3>1, Zenon
    <3>3. [Padded(f, 0) EXCEPT ![0] = d] = Padded(f, 0 + 1)
      BY <3>1, <3>2, PaddedMore, Zenon
    <3> QED
      BY <1>5, <2>1, <3>1, <3>3, PaddedNone, Zenon
  <2>4. 1 \in 1..(Len(f) - 1)
    <3>1. \A m \in 8..255 : 1 \in 1..(m - 1)
      OBVIOUS
    <3> QED
      BY <1>3, <3>1, Zenon
  <2>5. \A k \in 1..1 : buffer'[k - 1] = f[k]
    <3>1. 0 \in 0..(BUFFER_SIZE - 1) /\ 0 < 1 /\ 0 + 1 = 1
      BY SizeAssumption
    <3>2. Padded(f, 1)[0] = f[1]
      BY <3>1 DEF Padded
    <3>3. \A k \in 1..1 : k = 1 /\ k - 1 = 0
      OBVIOUS
    <3> QED
      BY <2>3, <3>2, <3>3, Zenon
  <2>6. 1 + 1 = p' + 1 /\ p' >= 1
    BY <2>1
  <2>7. Begun(f, 1 + 1)'
    BY <2>1, <2>5, <2>6, Zenon DEF Begun
  <2>8. Opened(f, 1)'
    BY <2>1, <2>3, <2>4, <2>7, Zenon DEF Opened
  <2>9. Opened(written[n], 1)'
    BY <1>9, <2>8, Zenon DEF Opened, Begun
  <2>10. Synced(n, 1)'
    BY <1>9, <2>1, <2>9, Zenon DEF Synced, Held
  <2> QED
    BY <1>8, <2>2, <2>10, Zenon DEF InStep
<1>11. ASSUME Parser!ReceiveSkip(d) PROVE InStep'
  <2>1. ~avilable /\ d # START
    BY <1>11 DEF Parser!ReceiveSkip
  <2>2. d = f[1]
    BY <1>5, <1>7, <2>1
  <2> QED
    BY <1>3, <2>1, <2>2, Zenon DEF Framed
<1>12. ASSUME Parser!ReceiveEnd(d) PROVE InStep'
  <2>1. /\ avilable /\ pc' = "parse" /\ m_recv_flag'
        /\ buffer' = [buffer EXCEPT ![p] = d]
    BY <1>12 DEF Parser!ReceiveEnd
  <2>2. Opened(f, o)
    BY <1>4, <2>1, Zenon
  <2>3. Begun(f, o + 1) /\ p = o /\ buffer = Padded(f, o)
    BY <2>2, Zenon DEF Opened
  <2>4. o + 1 = Len(f) /\ Frame' = f
    BY <1>3, <1>7, <1>12, <1>r, <2>1, <2>3, EndIsLast, Zenon
  <2>5. buffer' = Padded(f, Len(f))
    <3>1. o \in 0..(BUFFER_SIZE - 1)
      BY <1>3, <1>m, <2>4, SizeAssumption
    <3>2. [Padded(f, o) EXCEPT ![o] = d] = Padded(f, o + 1)
      BY <1>7, <3>1, PaddedMore, Zenon
    <3> QED
      BY <2>1, <2>3, <2>4, <3>2, Zenon
  <2>6. LinedOn(ring', wire', written', n + 1, 0)
    <3>1. ring' \in Seq(0..255) /\ wire' \in Seq(0..255) /\ written' \in Seq(Frames)
      BY DEF TypesInv, CarTypes
    <3>2. o + 1 >= 1
      BY <1>m
    <3>3. o + 1 = Len(written'[n])
      BY <1>9, <2>4, Zenon
    <3> QED
      BY <1>8, <1>9, <3>1, <3>2, <3>3, LinedDone, Zenon
  <2>7. n + 1 = Len(executed') + 2
    <3>1. Len(executed) \in Nat
      BY <1>c, LenIsNat, Zenon DEF CarTypes
    <3>2. (Len(executed) + 1) + 1 = Len(executed) + 2
      BY <3>1
    <3> QED
      BY <1>n, <1>9, <3>2, Zenon
  <2>8. written'[Len(executed') + 1] = f
    BY <1>9, Zenon
  <2>9. pc' # "recv"
    BY <2>1
  <2>10. Synced(n + 1, 0)'
    BY <2>1, <2>4, <2>5, <2>7, <2>8, <2>9, Zenon DEF Synced, Held
  <2> QED
    BY <2>6, <2>10, Zenon DEF InStep
<1>13. ASSUME Parser!ReceiveStore(d) PROVE InStep'
  <2>1. /\ avilable /\ ~m_recv_flag' /\ buffer' = [buffer EXCEPT ![p] = d]
    BY <1>13, <1>r DEF Parser!ReceiveStore
  <2>2. Opened(f, o)
    BY <1>4, <2>1, Zenon
  <2>3. Begun(f, o + 1) /\ p = o /\ buffer = Padded(f, o)
    BY <2>2, Zenon DEF Opened
  <2>4. pc' = "recv" /\ avilable'
    BY <1>3, <1>7, <1>13, <1>r, <2>1, <2>3, StoreKeeps, Zenon
  <2>5. /\ o + 1 < Len(f) /\ p' = o + 1 /\ p' >= 1
        /\ \A k \in 1..p' : buffer'[k - 1] = f[k]
        /\ preRecvLen' = IF p' = 1 THEN 0 ELSE f[2]
    BY <1>3, <1>7, <1>13, <1>r, <2>1, <2>3, StoreGoesOn, Zenon
  <2>6. buffer' = Padded(f, o + 1)
    <3>1. o \in 0..(BUFFER_SIZE - 1)
      BY <1>3, <1>m, <2>5, SizeAssumption
    <3>2. [Padded(f, o) EXCEPT ![o] = d] = Padded(f, o + 1)
      BY <1>7, <3>1, PaddedMore, Zenon
    <3> QED
      BY <2>1, <2>3, <3>2, Zenon
  <2>7. o + 1 \in 1..(Len(f) - 1)
    BY <1>3, <1>m, <2>5
  <2>8. Begun(f, (o + 1) + 1)'
    BY <2>5, Zenon DEF Begun
  <2>9. Opened(f, o + 1)'
    BY <2>5, <2>6, <2>7, <2>8, Zenon DEF Opened
  <2>10. Opened(written[n], o + 1)'
    BY <1>9, <2>9, Zenon DEF Opened, Begun
  <2>11. Synced(n, o + 1)'
    BY <1>9, <2>1, <2>4, <2>10, Zenon DEF Synced, Held
  <2> QED
    BY <1>8, <2>11, Zenon DEF InStep
<1> QED
  BY <1>10, <1>11, <1>12, <1>13 DEF Parser!ReceiveByte

\* Nor do the steps that take no byte and act on no frame.
LEMMA PollInStep ==
    ASSUME TypesInv, ProperFrames, InStep,
           (Parser!ReceiveDone \/ Parser!Parse) \/ Parser!Reinit,
           UNCHANGED <<wire, written, executed>>
    PROVE  InStep'
<1>a. PICK n, o : LinedOn(ring, wire, written, n, o) /\ Synced(n, o)
  BY DEF InStep
<1>t. ring \in Seq(0..255) /\ wire \in Seq(0..255) /\ written \in Seq(Frames)
  BY DEF TypesInv, CarTypes
<1>1. ring' = ring /\ wire' = wire /\ written' = written /\ executed' = executed
  BY DEF Parser!ReceiveDone, Parser!Parse, Parser!Reinit
<1>2. LinedOn(ring', wire', written', n, o)
  BY <1>a, <1>1, Zenon
<1>3. ASSUME Parser!ReceiveDone PROVE Synced(n, o)'
  <2>1. pc = "recv" /\ pc' = "parse" /\ ring = <<>> /\ m_recv_flag' = m_recv_flag
    BY <1>3 DEF Parser!ReceiveDone, Parser!package
  <2>2. ~m_recv_flag
    BY <2>1 DEF TypesInv, Flagged
  <2>3. n = Len(executed) + 1
    BY <1>a, <2>2, Zenon DEF Synced, Held
  <2>4. o = 0
    <3>1. CASE avilable
      <4>1. n <= Len(written) /\ Opened(written[n], o)
        BY <1>a, <2>1, <3>1, Zenon DEF Synced
      <4>2. n \in 1..Len(written)
        <5>1. n \in 1..(Len(written) + 1) /\ Len(written) \in Nat
          BY <1>a, <1>t, LinedNumber, Zenon
        <5> QED
          BY <4>1, <5>1
      <4>3. PICK at : Lined(ring, wire, written, n, o, at)
        BY <1>a, Zenon DEF LinedOn
      <4>4. ring # <<>>
        BY <1>t, <4>1, <4>2, <4>3, OpenGoesOn, Zenon
      <4> QED
        BY <2>1, <4>4
    <3>2. CASE ~avilable
      BY <1>a, <3>2, Zenon DEF Synced
    <3> QED
      BY <3>1, <3>2
  <2>5. pc' # "recv"
    BY <2>1
  <2> QED
    BY <1>1, <2>1, <2>2, <2>3, <2>4, <2>5, Zenon DEF Synced, Held
<1>4. ASSUME Parser!Parse PROVE Synced(n, o)'
  <2>1. /\ pc = "parse" /\ pc' \in {"dispatch", "reinit"}
        /\ m_recv_flag' = m_recv_flag /\ buffer' = buffer
        /\ m_package_length' = m_package_length
    BY <1>4 DEF Parser!Parse, Parser!package
  <2>2. pc # "recv" /\ pc' # "recv" /\ Frame' = Frame
    BY <2>1 DEF Frame
  <2>3. o = 0
    BY <1>a, <2>2, Zenon DEF Synced
  <2>4. CASE m_recv_flag
    <3>1. Held
      BY <2>1, <2>4 DEF Held
    <3>2. n = Len(executed) + 2
      BY <1>a, <3>1, Zenon DEF Synced
    <3>3. PICK f : f = written[Len(executed) + 1]
      OBVIOUS
    <3>4. Frame = f /\ buffer = Padded(f, Len(f))
      BY <1>a, <3>1, <3>3, Zenon DEF Synced
    <3>5. Len(executed) + 1 \in 1..Len(written)
      <4>1. n \in 1..(Len(written) + 1) /\ Len(written) \in Nat
        BY <1>a, <1>t, LinedNumber, Zenon
      <4>2. Len(executed) \in Nat
        BY LenIsNat, Zenon DEF TypesInv, CarTypes
      <4> QED
        BY <3>2, <4>1, <4>2
    <3>6. Proper(f)
      BY <1>t, <3>3, <3>5, ProperLength, Zenon
    <3>7. pc' = "dispatch"
      <4>1. Parser!Verdicts = {TRUE}
        BY <3>4, <3>6, ProperAccepted, Zenon
      <4> QED
        BY <1>4, <2>4, <4>1 DEF Parser!Parse
    <3>8. Held'
      BY <2>1, <2>4, <3>7 DEF Held
    <3> QED
      BY <1>1, <2>1, <2>2, <2>3, <3>2, <3>3, <3>4, <3>8, Zenon DEF Synced
  <2>5. CASE ~m_recv_flag
    <3>1. ~Held /\ ~Held'
      BY <2>1, <2>5, Zenon DEF Held
    <3> QED
      BY <1>a, <1>1, <2>2, <2>3, <3>1, Zenon DEF Synced
  <2> QED
    BY <2>4, <2>5
<1>5. ASSUME Parser!Reinit PROVE Synced(n, o)'
  <2>1. /\ pc = "reinit" /\ pc' = "recv" /\ ~avilable' /\ ~m_recv_flag'
        /\ buffer' = Parser!EmptyBuffer
    BY <1>5 DEF Parser!Reinit
  <2>2. pc # "recv" /\ ~Held /\ ~Held'
    BY <2>1 DEF Held
  <2>3. Parser!EmptyBuffer' = Parser!EmptyBuffer
    BY DEF Parser!EmptyBuffer
  <2> QED
    BY <1>a, <1>1, <2>1, <2>2, <2>3, Zenon DEF Synced
<1> QED
  BY <1>2, <1>3, <1>4, <1>5, Zenon DEF InStep

\* Acting on the frame makes it the last of those acted on.
LEMMA ExecuteInStep ==
    ASSUME TypesInv, InStep, FirstActed, Execute
    PROVE  InStep' /\ FirstActed'
<1>a. PICK n, o : LinedOn(ring, wire, written, n, o) /\ Synced(n, o)
  BY DEF InStep
<1>1. /\ pc = "dispatch" /\ pc' = "reinit" /\ executed' = Append(executed, Frame)
      /\ ring' = ring /\ wire' = wire /\ written' = written
  BY DEF Execute, Parser!Dispatch, tcpOnly
<1>2. m_recv_flag
  BY <1>1 DEF TypesInv, Flagged
<1>3. Held /\ ~Held' /\ pc # "recv" /\ pc' # "recv"
  BY <1>1, <1>2 DEF Held
<1>4. n = Len(executed) + 2 /\ o = 0 /\ Frame = written[Len(executed) + 1]
  BY <1>a, <1>3, Zenon DEF Synced
<1>5. /\ Len(executed) \in Nat /\ Len(executed') = Len(executed) + 1
      /\ executed'[Len(executed) + 1] = Frame
      /\ \A j \in 1..Len(executed) : executed'[j] = executed[j]
  <2>1. executed \in Seq(Seq(0..255)) /\ Frame \in Seq(0..255)
    BY FrameType DEF TypesInv, CarTypes
  <2> QED
    BY <1>1, <2>1, HistoryGrows, Zenon
<1>6. Len(executed) + 2 = (Len(executed) + 1) + 1
  BY <1>5
<1>7. Synced(n, o)'
  BY <1>3, <1>4, <1>5, <1>6, Zenon DEF Synced
<1>8. InStep'
  BY <1>a, <1>1, <1>7, Zenon DEF InStep
<1>9. \A j \in 1..(Len(executed) + 1) : j \in 1..Len(executed) \/ j = Len(executed) + 1
  BY <1>5
<1>10. FirstActed'
  BY <1>1, <1>4, <1>5, <1>9, Zenon DEF FirstActed
<1> QED
  BY <1>8, <1>10

\* What the threads do to each other's state leaves the parser's where it was.
LEMMA SyncedElsewhere ==
    ASSUME NEW n, NEW o, Synced(n, o), UNCHANGED <<parserOnly, executed, written>>
    PROVE  Synced(n, o)'
<1>1. /\ pc' = pc /\ buffer' = buffer /\ p' = p /\ avilable' = avilable
      /\ preRecvLen' = preRecvLen /\ m_recv_flag' = m_recv_flag
      /\ m_package_length' = m_package_length
      /\ executed' = executed /\ written' = written
  BY DEF parserOnly
<1>2. Frame' = Frame /\ Held' = Held /\ Parser!EmptyBuffer' = Parser!EmptyBuffer
  BY <1>1 DEF Frame, Held, Parser!EmptyBuffer
<1>3. PICK f : f = written[n]
  OBVIOUS
<1>4. Opened(f, o) => Opened(f, o)'
  BY <1>1, Zenon DEF Opened, Begun
<1>5. Opened(f, o)' => Opened(written[n], o)'
  BY <1>1, <1>3, Zenon DEF Opened, Begun
<1> QED
  BY <1>1, <1>2, <1>3, <1>4, <1>5, Zenon DEF Synced

\* recv that returns all that has arrived keeps frames whole.
LEMMA ReceivedInStep ==
    ASSUME TypesInv, InStep, FirstActed, TcpRecv, ~cut', ~lost'
    PROVE  InStep' /\ FirstActed'
<1>a. PICK n, o : LinedOn(ring, wire, written, n, o) /\ Synced(n, o)
  BY DEF InStep
<1>t. ring \in Seq(0..255) /\ wire \in Seq(0..255) /\ written \in Seq(Frames)
  BY DEF TypesInv, CarTypes
<1>1. UNCHANGED <<parserOnly, executed, written>>
  BY DEF TcpRecv, Tcp!Accept, Tcp!AcceptFails, Tcp!net, Tcp!Received, Tcp!ReceivedZero,
           Tcp!ReceiveError
<1>2. LinedOn(ring', wire', written, n, o)
  <2>1. CASE UNCHANGED <<ring, wire>>
    BY <1>a, <2>1
  <2>2. ASSUME NEW k \in 1..Len(wire), Tcp!Received(k)
        PROVE  LinedOn(ring', wire', written, n, o)
    <3>1. /\ server = "recv" /\ peer # "broken"
          /\ ring' = ring \o SubSeq(wire, 1, k) /\ wire' = SubSeq(wire, k + 1, Len(wire))
      BY <2>2, NothingLost DEF Tcp!Received
    <3>2. wire' = <<>>
      BY <3>1 DEF TcpRecv
    <3>3. k = Len(wire)
      <4>1. Len(wire') = Len(wire) - k
        BY <1>t, <3>1, CutAt, Zenon
      <4>2. Len(wire) \in Nat
        BY <1>t, LenIsNat, Zenon
      <4> QED
        BY <3>2, <4>1, <4>2
    <3>4. wire # <<>>
      BY <1>t, <2>2, <3>3
    <3>5. ring' = ring \o wire
      BY <1>t, <3>1, <3>3, <3>4, CutAll, Zenon
    <3>6. PICK at : Lined(ring, wire, written, n, o, at)
      BY <1>a, Zenon DEF LinedOn
    <3>7. Lined(ring \o wire, <<>>, written, n, o, at)
      BY <1>t, <3>4, <3>6, LinedReceived, Zenon
    <3> QED
      BY <3>2, <3>5, <3>7, Zenon DEF LinedOn
  <2> QED
    BY <2>1, <2>2 DEF TcpRecv, Tcp!Accept, Tcp!AcceptFails, Tcp!net, Tcp!Received, Tcp!ReceivedZero,
           Tcp!ReceiveError
<1>3. Synced(n, o)'
  BY <1>a, <1>1, SyncedElsewhere, Zenon
<1>4. written' = written /\ executed' = executed
  BY <1>1
<1>5. InStep'
  BY <1>2, <1>3, <1>4, Zenon DEF InStep
<1>6. FirstActed'
  BY <1>4, Zenon DEF FirstActed
<1> QED
  BY <1>5, <1>6

\* A frame written changes nothing for those before it.
LEMMA WrittenInStep ==
    ASSUME TypesInv, ProperFrames, InStep, FirstActed,
           Len(executed) <= Len(written),
           NEW s \in Frames, Tcp!Write(s), UNCHANGED <<parserOnly, executed>>
    PROVE  InStep' /\ FirstActed'
<1>a. PICK n, o : LinedOn(ring, wire, written, n, o) /\ Synced(n, o)
  BY DEF InStep
<1>t. ring \in Seq(0..255) /\ wire \in Seq(0..255) /\ written \in Seq(Frames)
  BY DEF TypesInv, CarTypes
<1>1. /\ ring' = ring /\ wire' = wire \o s /\ written' = Append(written, s)
      /\ executed' = executed
  BY DEF Tcp!Write
<1>2. /\ Len(written) \in Nat /\ Len(written') = Len(written) + 1
      /\ \A i \in 1..Len(written) : written'[i] = written[i]
  BY <1>t, <1>1, FrameAppended, Zenon
<1>3. LinedOn(ring', wire', written', n, o)
  <2>1. Len(s) >= 1
    <3>1. Len(s) \in 8..255
      BY DEF ProperFrames, Proper, Framed
    <3>2. \A m \in 8..255 : m >= 1
      OBVIOUS
    <3> QED
      BY <3>1, <3>2, Zenon
  <2> QED
    BY <1>a, <1>t, <1>1, <2>1, LinedWritten, Zenon
<1>4. n \in 1..(Len(written) + 1) /\ Len(executed) \in Nat
  BY <1>a, <1>t, LinedNumber, LenIsNat, Zenon DEF TypesInv, CarTypes
<1>5. /\ pc' = pc /\ buffer' = buffer /\ p' = p /\ avilable' = avilable
      /\ preRecvLen' = preRecvLen /\ m_recv_flag' = m_recv_flag
      /\ m_package_length' = m_package_length
  BY DEF parserOnly
<1>6. Frame' = Frame /\ Held' = Held /\ Parser!EmptyBuffer' = Parser!EmptyBuffer
  BY <1>5 DEF Frame, Held, Parser!EmptyBuffer
<1>7. Held => written'[Len(executed) + 1] = written[Len(executed) + 1]
  <2>1. Held => n = Len(executed) + 2
    BY <1>a, Zenon DEF Synced
  <2>2. Held => Len(executed) + 1 \in 1..Len(written)
    BY <1>2, <1>4, <2>1
  <2> QED
    BY <1>2, <2>2, Zenon
<1>8. n <= Len(written) => written'[n] = written[n] /\ n <= Len(written')
  <2>1. n <= Len(written) => n \in 1..Len(written) /\ n <= Len(written')
    BY <1>2, <1>4
  <2> QED
    BY <1>2, <2>1, Zenon
<1>9. PICK f : f = written[n]
  OBVIOUS
<1>10. Opened(f, o) => Opened(f, o)'
  BY <1>5, Zenon DEF Opened, Begun
<1>11. n <= Len(written) /\ Opened(f, o)' => Opened(written[n], o)'
  BY <1>8, <1>9, Zenon DEF Opened, Begun
<1>12. Synced(n, o)'
  BY <1>a, <1>1, <1>5, <1>6, <1>7, <1>8, <1>9, <1>10, <1>11, Zenon DEF Synced
<1>13. InStep'
  BY <1>3, <1>12, Zenon DEF InStep
<1>14. FirstActed'
  <2>1. \A j \in 1..Len(executed) : j \in 1..Len(written)
    BY <1>2, <1>4
  <2> QED
    BY <1>1, <1>2, <2>1, Zenon DEF FirstActed
<1> QED
  BY <1>13, <1>14

\* No more frames are acted on than were written, and all of them once there is
\* nothing left to read.
LEMMA StepCounts ==
    ASSUME TypesInv, ProperFrames, InStep
    PROVE  /\ Len(executed) <= Len(written)
           /\ pc = "recv" /\ ring = <<>> /\ wire = <<>> => Len(executed) = Len(written)
<1>a. PICK n, o : LinedOn(ring, wire, written, n, o) /\ Synced(n, o)
  BY DEF InStep
<1>t. ring \in Seq(0..255) /\ wire \in Seq(0..255) /\ written \in Seq(Frames)
  BY DEF TypesInv, CarTypes
<1>1. n \in 1..(Len(written) + 1) /\ o \in Nat /\ Len(written) \in Nat /\ Len(executed) \in Nat
  <2>1. Len(executed) \in Nat
    BY LenIsNat, Zenon DEF TypesInv, CarTypes
  <2> QED
    BY <1>a, <1>t, <2>1, LinedNumber, Zenon
<1>2. n = Len(executed) + 2 \/ n = Len(executed) + 1
  BY <1>a, Zenon DEF Synced
<1>3. Len(executed) <= Len(written)
  BY <1>1, <1>2
<1>4. ASSUME pc = "recv", ring = <<>>, wire = <<>> PROVE Len(executed) = Len(written)
  <2>1. ~Held
    BY <1>4 DEF TypesInv, Flagged, Held
  <2>2. n = Len(executed) + 1
    BY <1>a, <2>1, Zenon DEF Synced
  <2>3. PICK at : Lined(ring, wire, written, n, o, at)
    BY <1>a, Zenon DEF LinedOn
  <2>4. o = 0
    <3>1. CASE avilable
      <4>1. n <= Len(written) /\ Opened(written[n], o)
        BY <1>a, <1>4, <3>1, Zenon DEF Synced
      <4>2. n \in 1..Len(written)
        BY <1>1, <4>1
      <4>3. ring # <<>>
        BY <1>t, <2>3, <4>1, <4>2, OpenGoesOn, Zenon
      <4> QED
        BY <1>4, <4>3
    <3>2. CASE ~avilable
      BY <1>a, <3>2, Zenon DEF Synced
    <3> QED
      BY <3>1, <3>2
  <2>5. n = Len(written) + 1
    BY <1>4, <1>t, <2>3, <2>4, LinedAhead, Zenon
  <2> QED
    BY <1>1, <2>2, <2>5
<1> QED
  BY <1>3, <1>4

\* Steps that leave alone all of this.
LEMMA NothingMoves ==
    ASSUME InStep, FirstActed, UNCHANGED <<ring, wire, written, parserOnly, executed>>
    PROVE  InStep' /\ FirstActed'
<1>a. PICK n, o : LinedOn(ring, wire, written, n, o) /\ Synced(n, o)
  BY DEF InStep
<1>1. ring' = ring /\ wire' = wire /\ written' = written /\ executed' = executed
  OBVIOUS
<1>2. Synced(n, o)'
  BY <1>a, SyncedElsewhere
<1>3. InStep'
  BY <1>a, <1>1, <1>2, Zenon DEF InStep
<1>4. FirstActed'
  BY <1>1, Zenon DEF FirstActed
<1> QED
  BY <1>3, <1>4

LEMMA InitSkip == Init => SkipInv
<1> SUFFICES ASSUME Init PROVE InStep /\ FirstActed
    BY DEF SkipInv
<1>1. /\ ring = <<>> /\ wire = <<>> /\ written = <<>> /\ executed = <<>> /\ pc = "recv"
      /\ ~avilable /\ ~m_recv_flag /\ buffer = Parser!EmptyBuffer
  BY DEF Init, Parser!Init
<1>2. Len(<<>>) = 0 /\ Len(executed) = 0 /\ 1..0 = {}
  BY <1>1
<1>3. PICK at : at = [i \in 1..1 |-> 1]
  OBVIOUS
<1>4. Lined(<<>>, <<>>, <<>>, 1, 0, at)
  <2>1. /\ 1 \in 1..(0 + 1) /\ 0 \in Nat /\ at[1] = 1 - 0
        /\ \A i \in 1..(0 + 1) : at[i] \in Int
        /\ \A i, j \in 1..(0 + 1) : ~(i < j)
        /\ at[0 + 1] = 0 + 0 + 1 /\ at[1] = 0 + 1
    BY <1>3
  <2>2. \A i \in 1..0 : FALSE
    OBVIOUS
  <2> QED
    BY <1>2, <2>1, <2>2, Zenon DEF Lined
<1>5. Synced(1, 0)
  <2>1. 1 = Len(executed) + 1 /\ ~Held
    BY <1>1, <1>2 DEF Held
  <2> QED
    BY <1>1, <2>1, Zenon DEF Synced
<1>6. InStep
  BY <1>1, <1>4, <1>5, Zenon DEF InStep, LinedOn
<1>7. FirstActed
  BY <1>2 DEF FirstActed
<1> QED
  BY <1>6, <1>7

LEMMA StepSkip == TypesInv /\ TypesInv' /\ SkipInv /\ [Next]_vars => SkipInv'
<1> SUFFICES ASSUME TypesInv, TypesInv', SkipInv, [Next]_vars,
                    ProperFrames, resets' = 0, ~cut', ~lost'
             PROVE  InStep' /\ FirstActed'
    BY DEF SkipInv
<1>0. resets = 0 /\ ~cut /\ ~lost
  BY NotForgotten DEF TypesInv
<1>p. InStep /\ FirstActed
  BY <1>0 DEF SkipInv
<1>1. CASE PollStep
  <2>1. UNCHANGED <<wire, written, executed>>
    BY <1>1 DEF PollStep, tcpOnly
  <2>2. FirstActed'
    BY <1>p, <2>1 DEF FirstActed
  <2>3. ASSUME ring # <<>>, Parser!ReceiveByte(Head(ring))
        PROVE  InStep'
    BY <1>p, <2>1, <2>3, ByteInStep
  <2>4. CASE (Parser!ReceiveDone \/ Parser!Parse) \/ Parser!Reinit
    BY <1>p, <2>1, <2>2, <2>4, PollInStep
  <2> QED
    BY <1>1, <2>2, <2>3, <2>4 DEF PollStep, Parser!Poll
<1>2. CASE Execute
  BY <1>p, <1>2, ExecuteInStep
<1>3. CASE TcpRecv
  BY <1>p, <1>3, ReceivedInStep
<1>4. CASE Phone
  <2>1. UNCHANGED <<parserOnly, executed>>
    BY <1>4 DEF Phone
  <2>2. ASSUME NEW s \in Frames, Tcp!Write(s)
        PROVE  InStep' /\ FirstActed'
    BY <1>p, <2>1, <2>2, StepCounts, WrittenInStep
  <2>3. CASE Tcp!Connect \/ Tcp!Close
    <3>1. UNCHANGED <<ring, wire, written, parserOnly, executed>>
      BY <2>1, <2>3 DEF Tcp!Connect, Tcp!Close
    <3> QED
      BY <1>p, <3>1, NothingMoves
  <2>4. ~Tcp!Break
    <3>1. resets' # resets + 1
      BY <1>0
    <3> QED
      BY <3>1 DEF Tcp!Break
  <2> QED
    BY <1>4, <2>2, <2>3, <2>4 DEF Phone, Tcp!Peer
<1>5. CASE UNCHANGED vars
  <2>1. UNCHANGED <<ring, wire, written, parserOnly, executed>>
    BY <1>5 DEF vars, tcpOnly, parserOnly
  <2> QED
    BY <1>p, <2>1, NothingMoves
<1> QED
  BY <1>1, <1>2, <1>3, <1>4, <1>5 DEF Next, WifiControl

\* Whatever frames the phone sends, as long as they are as the protocol describes
\* them: while recv returns all that has arrived, no connection has broken and
\* tcp_dat, of RingSize bytes, was neither overrun nor raced, wifi_control skips
\* none, however many wait in the ring buffer for one poll and whatever their data
\* looks like, and when nothing is left to read it has acted on all of them.
THEOREM NoneIsSkipped == Spec => [](ProperFrames => NoneSkipped)
<1>1. TypesInv /\ SkipInv => (ProperFrames => NoneSkipped)
  <2> SUFFICES ASSUME TypesInv, SkipInv, ProperFrames, resets = 0, ~cut, ~lost
               PROVE  /\ Len(executed) <= Len(written)
                      /\ FirstActed
                      /\ pc = "recv" /\ ring = <<>> /\ wire = <<>> =>
                             Len(executed) = Len(written)
      BY Zenon DEF NoneSkipped, FirstActed
  <2>1. InStep /\ FirstActed
    BY DEF SkipInv
  <2> QED
    BY <2>1, StepCounts
<1> QED
  BY Types, InitSkip, StepSkip, <1>1, PTL DEF Spec

\* Then every frame acted on is whole.
LEMMA FirstIsWhole ==
    TypesInv /\ ProperFrames /\ resets = 0 /\ ~cut /\ ~lost /\ NoneSkipped => WholeLength
<1> SUFFICES ASSUME TypesInv, ProperFrames, resets = 0, ~cut, ~lost, NoneSkipped,
                    NEW k \in 1..Len(executed)
             PROVE  Len(executed[k]) >= 8
    BY DEF WholeLength
<1>1. executed[k] = written[k] /\ Len(executed) <= Len(written)
  BY Zenon DEF NoneSkipped
<1>2. written \in Seq(Frames) /\ Len(written) \in Nat /\ Len(executed) \in Nat
  BY LenIsNat, Zenon DEF TypesInv, CarTypes
<1>3. k \in 1..Len(written)
  BY <1>1, <1>2
<1>4. Len(written[k]) \in 8..255
  BY <1>2, <1>3, ProperLength, Zenon
<1>5. \A m \in 8..255 : m >= 8
  OBVIOUS
<1> QED
  BY <1>1, <1>4, <1>5, Zenon

\* The motors then do what the last moving frame acted on asks for, also when
\* START or END is among the data of a frame: a speed of -86 looks like START.
\* The conditions are those of NoneIsSkipped.
THEOREM ProperFramesAreObeyed ==
    Spec => [](ProperFrames /\ resets = 0 /\ ~cut /\ ~lost => MotorsFollow)
<1> QED
  BY Types, NoneIsSkipped, MotorsDoAsAsked, FirstIsWhole, PTL
==============================================================================
