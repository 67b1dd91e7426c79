--------------------------- MODULE ProtocolParser ----------------------------
(***************************************************************************)
(* applications/protocol_parser.c and the loop of wifi_control in main.c   *)
(* that drives it: drain the ring buffer into the package buffer until one *)
(* frame is complete, check it, let the caller act on it, start afresh.    *)
(*                                                                         *)
(* A frame is                                                              *)
(*   START len type addr function data[len-6] sumHigh sumLow END           *)
(* where len counts every byte between START and END, itself included.     *)
(*                                                                         *)
(* "ring" is the content of tcp_dat as a queue (what RingBuffer implements *)
(* and TcpDat shows to hold while no race window is hit).  The locals of   *)
(* protocol_recev_data are variables because other threads run between two *)
(* of its iterations; they are re-initialised on every call.               *)
(***************************************************************************)
EXTENDS Integers, Sequences, FiniteSetsExt

CONSTANTS
    BUFFER_SIZE,   \* bytes of pareser_package.buffer
    START, END,    \* PROTOCOL_START_CODE, PROTOCOL_END_CODE
    Byte           \* the byte values the peer sends

\* The index locals are rt_uint8_t; the shortest frame has eight bytes.
ASSUME BufferAssumption == BUFFER_SIZE \in 8..256
ASSUME CodesAssumption == START # END /\ {START, END} \subseteq Byte
ASSUME ByteAssumption == Byte \subseteq 0..255

VARIABLES
    ring,              \* bytes waiting in tcp_dat, oldest first
    pc,                \* where wifi_control is in its loop
    buffer,            \* pareser_package.buffer
    p,                 \* offset in buffer where the next byte goes
    avilable,          \* a START has been seen in this call
    preRecvLen,        \* the length the frame announced
    m_RecvDataIndex,   \* bytes stored after START
    m_recv_flag,       \* a complete frame is in buffer
    m_package_length

locals == <<p, avilable, preRecvLen, m_RecvDataIndex>>
package == <<buffer, m_recv_flag, m_package_length>>
vars == <<ring, pc, locals, package>>

EmptyBuffer == [i \in 0..(BUFFER_SIZE - 1) |-> 0]

\* Bound used when the frames are arbitrary bytes.
CONSTANT MaxRing
ASSUME MaxRingAssumption == MaxRing \in Nat

\* wifi_control has passed once through its loop with nothing to read, so
\* protocol_parser_reinit has run.  It starts before the socket exists.
Init ==
    /\ ring = <<>> /\ pc = "recv"
    /\ buffer = EmptyBuffer
    /\ p = 0 /\ avilable = FALSE /\ preRecvLen = 0 /\ m_RecvDataIndex = 0
    /\ m_recv_flag = FALSE /\ m_package_length = 0
-----------------------------------------------------------------------------
(* protocol_recev_data: one action per path through an iteration *)

\* rt_ringbuffer_getchar takes the byte an iteration is about.
Taken == pc = "recv" /\ ring' = Tail(ring)

\* Looking for a frame, START opens one and everything else is dropped.
ReceiveStart(d) ==
    /\ Taken /\ ~avilable /\ d = START
    /\ avilable' = TRUE
    /\ buffer' = [buffer EXCEPT ![0] = d]
    /\ p' = 1 /\ preRecvLen' = 0 /\ m_RecvDataIndex' = 0
    /\ UNCHANGED <<pc, m_recv_flag, m_package_length>>

ReceiveSkip(d) ==
    /\ Taken /\ ~avilable /\ d # START
    /\ UNCHANGED <<pc, locals, package>>

\* END after exactly as many bytes as announced completes the frame.
Completes(d) == d = END /\ preRecvLen = m_RecvDataIndex

ReceiveEnd(d) ==
    /\ Taken /\ avilable /\ Completes(d)
    /\ buffer' = [buffer EXCEPT ![p] = d]
    /\ m_package_length' = (preRecvLen + 2) % 256
    /\ m_recv_flag' = TRUE
    /\ pc' = "parse"
    /\ UNCHANGED locals

\* Mutant: the index runs the wrong way.
IndexBackwards == m_RecvDataIndex - 1

\* Index and announced length once d is stored.
NextIndex == (m_RecvDataIndex + 1) % 256
Announced(d) == IF NextIndex = 1 THEN d ELSE preRecvLen

TooLong(d) == NextIndex = 1 /\ d > BUFFER_SIZE - 2

\* A byte where END should have been.
Overshoots(d) == NextIndex > Announced(d) /\ Announced(d) # 0

\* Mutant: the buffer is taken to have one byte more.
ExhaustedLate == NextIndex > BUFFER_SIZE - 1

\* The buffer has no room for another byte and an END.
Exhausted == NextIndex >= BUFFER_SIZE - 1

\* The attempt to resume at a START inside the buffer subtracts every match
\* from the index (an rt_uint8_t) and then drops the frame all the same; p
\* and preRecvLen, which it moves too, are set again before they are used.
ResyncIndex(buf) ==
    LET starts == {i \in 1..NextIndex : buf[i] = START}
    IN  (NextIndex - SumSet(starts)) % 256

\* d is stored; the call goes on, drops the frame or returns.
ReceiveStore(d) ==
    LET buf == [buffer EXCEPT ![p] = d]
        stored(next, open) ==
            /\ pc' = next /\ avilable' = open
            /\ p' = p + 1
            /\ m_RecvDataIndex' = NextIndex
            /\ preRecvLen' = Announced(d)
    IN  /\ Taken /\ avilable /\ ~Completes(d)
        /\ buffer' = buf
        /\ \/ TooLong(d) /\ stored("parse", TRUE)
           \/ /\ ~TooLong(d) /\ Overshoots(d)
              /\ IF ResyncIndex(buf) >= BUFFER_SIZE - 1
                 THEN stored("parse", FALSE) ELSE stored("recv", FALSE)
           \/ /\ ~TooLong(d) /\ ~Overshoots(d)
              /\ IF Exhausted
                 THEN stored("parse", TRUE) ELSE stored("recv", TRUE)
        /\ UNCHANGED <<m_recv_flag, m_package_length>>

\* The ring buffer is empty: the call returns, and with it the locals that
\* remember a frame half received are lost.
ReceiveDone ==
    /\ pc = "recv" /\ ring = <<>>
    /\ pc' = "parse"
    /\ UNCHANGED <<ring, locals, package>>
-----------------------------------------------------------------------------
(* protocol_parser and the getters: what the buffer says *)

Len8 == buffer[1]
DataLen == (Len8 - 6) % 256
Function == buffer[4]
Data(k) == buffer[5 + k]

\* sum, type and data are read at offsets taken from the frame; an offset
\* past the buffer reads whatever lies there.
InBuffer == 5 + DataLen + 1 < BUFFER_SIZE
Sum == buffer[5 + DataLen] * 256 + buffer[6 + DataLen]
DataSum(buf, n) == MapThenSumSet(LAMBDA k : buf[5 + k], 0..(n - 1))
CheckSum ==
    (Len8 + buffer[2] + buffer[3] + Function + DataSum(buffer, DataLen)) % 65536

\* Mutant: the check sum is not compared.
VerdictsUnchecked == {TRUE}

\* The verdicts protocol_parser can come to.
Verdicts == IF InBuffer THEN {CheckSum = Sum} ELSE BOOLEAN

Parse ==
    /\ pc = "parse"
    /\ IF m_recv_flag
       THEN \E ok \in Verdicts : pc' = IF ok THEN "dispatch" ELSE "reinit"
       ELSE pc' = "reinit"
    /\ UNCHANGED <<ring, locals, package>>

Word16 == Data(0) * 256 + Data(1)

\* rt_int8_t of a byte, rt_uint16_t of an rt_int16_t.
Int8(x) == IF x < 128 THEN x ELSE x - 256

\* protocol_get_speed, protocol_get_degree, protocol_get_button_value
Speed == IF Function = 6 THEN Int8(Data(0)) ELSE 0
Degree == IF Function = 5 THEN Word16 ELSE 0
Button == IF Function = 13 THEN Word16 ELSE 65535

\* wifi_control acts on the frame; what that does is WifiCar's business.
Dispatch ==
    /\ pc = "dispatch"
    /\ pc' = "reinit"
    /\ UNCHANGED <<ring, locals, package>>

\* Mutant: m_recv_flag is not cleared.
ReinitKeepsFlag ==
    /\ pc = "reinit"
    /\ pc' = "recv"
    /\ buffer' = EmptyBuffer
    /\ m_package_length' = 0
    /\ p' = 0 /\ avilable' = FALSE /\ preRecvLen' = 0 /\ m_RecvDataIndex' = 0
    /\ UNCHANGED <<ring, m_recv_flag>>

\* Mutant: the ring buffer is emptied along with the package buffer.
ReinitFlushes ==
    /\ pc = "reinit"
    /\ pc' = "recv"
    /\ buffer' = EmptyBuffer
    /\ m_recv_flag' = FALSE /\ m_package_length' = 0
    /\ p' = 0 /\ avilable' = FALSE /\ preRecvLen' = 0 /\ m_RecvDataIndex' = 0
    /\ ring' = <<>>

\* protocol_parser_reinit, the delay, and the next call's fresh locals.
Reinit ==
    /\ pc = "reinit"
    /\ pc' = "recv"
    /\ buffer' = EmptyBuffer
    /\ m_recv_flag' = FALSE /\ m_package_length' = 0
    /\ p' = 0 /\ avilable' = FALSE /\ preRecvLen' = 0 /\ m_RecvDataIndex' = 0
    /\ UNCHANGED ring

\* rt_ringbuffer_put_force of tcprecvserv: what it puts arrives byte by byte.
Arrive(d) ==
    /\ Len(ring) < MaxRing
    /\ ring' = Append(ring, d)
    /\ UNCHANGED <<pc, locals, package>>

ReceiveByte(d) ==
    ReceiveStart(d) \/ ReceiveSkip(d) \/ ReceiveEnd(d) \/ ReceiveStore(d)

Poll ==
    \/ ring # <<>> /\ ReceiveByte(Head(ring))
    \/ ReceiveDone \/ Parse \/ Reinit

Next == Poll \/ Dispatch \/ (\E d \in Byte : Arrive(d))

Spec == Init /\ [][Next]_vars
-----------------------------------------------------------------------------
(* Properties *)

TypeOK ==
    /\ ring \in Seq(Byte)
    /\ pc \in {"recv", "parse", "dispatch", "reinit"}
    /\ buffer \in [0..(BUFFER_SIZE - 1) -> 0..255]
    /\ p \in Nat
    /\ avilable \in BOOLEAN
    /\ preRecvLen \in 0..255 /\ m_RecvDataIndex \in 0..255
    /\ m_recv_flag \in BOOLEAN /\ m_package_length \in 0..255

\* Whatever bytes arrive and however the polls cut them, the next byte that
\* protocol_recev_data stores goes inside pareser_package.buffer.
WriteInBounds == pc = "recv" /\ avilable => p < BUFFER_SIZE

\* A frame that completed where its own length byte says it ends is acted on
\* only if it is whole: START, END at its place, and a matching check sum.
WholeFrame ==
    /\ buffer[0] = START
    /\ buffer[Len8 + 1] = END
    /\ CheckSum = Sum

AcceptedIsWhole ==
    pc = "dispatch" /\ m_package_length = Len8 + 2 /\ Len8 >= 6 => WholeFrame
==============================================================================
