------------------------------ MODULE TcpServer ------------------------------
(***************************************************************************)
(* applications/tcprecv.c: tcprecvserv opens a listening socket, serves    *)
(* one client at a time and puts what it receives into the ring buffer     *)
(* tcp_dat; led_flash of main.c shows "connected" on the LED.              *)
(*                                                                         *)
(* The peer and lwIP are modelled from how tcprecvserv uses them           *)
(* (external): bytes arrive in order, in pieces of any size, until the     *)
(* peer closes (recv returns 0 once all is read) or the connection is      *)
(* reset (recv fails and what was under way is gone).  lwIP 2.0.2 ignores  *)
(* MSG_WAITALL, so recv returns what there is.                             *)
(*                                                                         *)
(* tcp_dat is a bounded queue here, of which put_force drops bytes on      *)
(* overrun (RingBuffer implements ByteQueue), until put_force and the      *)
(* parser meet in a window of TcpDat: the parser may then see anything.    *)
(*                                                                         *)
(* ServerInit, ServerNext, ServerSpec: TcpProofs extends this module and   *)
(* TcpDat, whose names these would be.                                     *)
(***************************************************************************)
EXTENDS Integers, Sequences

CONSTANTS
    Writes,       \* the byte sequences the peer writes
    MaxWrites,    \* bound on the writes of the peer
    MaxConns,     \* bound on the connections of the peer
    BlockSize,    \* BUFFER_SIZE of tcprecv.c
    RingSize,     \* capacity of tcp_dat, 256
    Garbled       \* what tcp_dat may seem to hold after a race

ASSUME BlockAssumption == BlockSize \in Nat \ {0}
ASSUME MaxConnsAssumption == MaxConns \in Nat
ASSUME RingAssumption == RingSize \in Nat \ {0}

VARIABLES
    server,       \* where tcprecvserv is
    recv_data,    \* its receive buffer: "none", "held" or "freed"
    sock,         \* the listening socket: "none", "open" or "listening"
    connected,    \* the global that led_flash reads; a handle, or -1
    peer,         \* the connection as lwIP sees it
    wire,         \* bytes written by the peer and not yet received
    ring,         \* content of tcp_dat
    written,      \* the peer's writes so far
    conns,        \* connections made so far
    resets,       \* connections that broke
    lost,         \* put_force has overrun tcp_dat or raced with the parser
    led           \* led_flash: what it last decided to show

net == <<peer, wire, written, conns, resets>>
serverVars == <<server, recv_data, sock, connected, ring, lost, led, net>>

\* The handle accept returns.
Handle == 1

ServerInit ==
    /\ server = "malloc" /\ recv_data = "none" /\ sock = "none"
    /\ connected = -1
    /\ peer = "none" /\ wire = <<>> /\ written = <<>> /\ conns = 0 /\ resets = 0
    /\ ring = <<>> /\ lost = FALSE
    /\ led = "flash"
-----------------------------------------------------------------------------
(* Opening the listening socket: each step may fail and end the server *)

Exit(data) == server' = "exited" /\ recv_data' = data

Malloc ==
    /\ server = "malloc"
    /\ \/ server' = "socket" /\ recv_data' = "held"
       \/ Exit("none")
    /\ UNCHANGED <<sock, connected, ring, lost, led, net>>

Socket ==
    /\ server = "socket"
    /\ \/ server' = "bind" /\ sock' = "open" /\ UNCHANGED recv_data
       \/ Exit("freed") /\ UNCHANGED sock
    /\ UNCHANGED <<connected, ring, lost, led, net>>

Bind ==
    /\ server = "bind"
    /\ \/ server' = "listen" /\ UNCHANGED recv_data
       \/ Exit("freed")
    /\ UNCHANGED <<sock, connected, ring, lost, led, net>>

\* Mutant: the error path of listen keeps the receive buffer.
ListenKeepsBuffer ==
    /\ server = "listen"
    /\ \/ server' = "accept" /\ sock' = "listening" /\ UNCHANGED recv_data
       \/ Exit("held") /\ UNCHANGED sock
    /\ UNCHANGED <<connected, ring, lost, led, net>>

Listen ==
    /\ server = "listen"
    /\ \/ server' = "accept" /\ sock' = "listening" /\ UNCHANGED recv_data
       \/ Exit("freed") /\ UNCHANGED sock
    /\ UNCHANGED <<connected, ring, lost, led, net>>
-----------------------------------------------------------------------------
(* Serving clients *)

Accept ==
    /\ server = "accept" /\ peer = "waiting"
    /\ connected' = Handle /\ server' = "recv" /\ peer' = "open"
    /\ UNCHANGED <<recv_data, sock, ring, lost, led, wire, written, conns, resets>>

\* accept fails: the error code is stored in "connected" and the loop goes on.
AcceptFails ==
    /\ server = "accept"
    /\ connected' = -1
    /\ UNCHANGED <<server, recv_data, sock, ring, lost, led, net>>

\* What put_force leaves of the bytes q that do not fit: the newest, or none.
Overrun(q) == {SubSeq(q, Len(q) - RingSize + 1, Len(q)), <<>>}

\* rt_ringbuffer_put_force; what is lost is lost without a word.
IntoRing(s) ==
    LET q == ring \o s IN
    \/ Len(q) <= RingSize /\ ring' = q /\ UNCHANGED lost
    \/ Len(q) > RingSize /\ ring' \in Overrun(q) /\ lost' = TRUE
    \/ ring' \in Garbled /\ lost' = TRUE

\* recv returns n bytes and put_force takes them.
Received(n) ==
    /\ server = "recv" /\ peer \in {"open", "closing"}
    /\ n \in 1..Len(wire) /\ n <= BlockSize
    /\ IntoRing(SubSeq(wire, 1, n))
    /\ wire' = SubSeq(wire, n + 1, Len(wire))
    /\ UNCHANGED <<server, recv_data, sock, connected, led, peer, written, conns, resets>>

\* recv returns 0: the peer has closed and everything is read.
ReceivedZero ==
    /\ server = "recv" /\ peer = "closing" /\ wire = <<>>
    /\ server' = "accept" /\ peer' = "none" /\ connected' = -1
    /\ UNCHANGED <<recv_data, sock, ring, lost, led, wire, written, conns, resets>>

\* Mutant: the error path does not leave the receive loop.
ReceiveErrorGoesOn ==
    /\ server = "recv" /\ peer = "broken"
    /\ peer' = "none"
    /\ UNCHANGED <<server, recv_data, sock, connected, ring, lost, led, wire, written, conns, resets>>

\* recv fails: the socket is closed, "connected" keeps its handle.
ReceiveError ==
    /\ server = "recv" /\ peer = "broken"
    /\ server' = "accept" /\ peer' = "none"
    /\ UNCHANGED <<recv_data, sock, connected, ring, lost, led, wire, written, conns, resets>>

\* What the server does by itself once it is scheduled.
Serve ==
    \/ Malloc \/ Socket \/ Bind \/ Listen
    \/ \E n \in 1..BlockSize : Received(n)
    \/ ReceivedZero \/ ReceiveError

\* led_flash looks at "connected" and flashes or keeps the LED on.
LedFlash ==
    /\ led' = IF connected < 0 THEN "flash" ELSE "on"
    /\ UNCHANGED <<server, recv_data, sock, connected, ring, lost, net>>
-----------------------------------------------------------------------------
(* The peer (external) *)

Connect ==
    /\ peer = "none" /\ sock = "listening" /\ conns < MaxConns
    /\ peer' = "waiting" /\ conns' = conns + 1
    /\ UNCHANGED <<server, recv_data, sock, connected, ring, lost, led, wire, written, resets>>

Write(s) ==
    /\ peer \in {"waiting", "open"}
    /\ Len(written) < MaxWrites
    /\ wire' = wire \o s /\ written' = Append(written, s)
    /\ UNCHANGED <<server, recv_data, sock, connected, ring, lost, led, peer, conns, resets>>

Close ==
    /\ peer = "open"
    /\ peer' = "closing"
    /\ UNCHANGED <<server, recv_data, sock, connected, ring, lost, led, wire, written, conns, resets>>

Break ==
    /\ peer \in {"open", "closing"}
    /\ peer' = "broken" /\ wire' = <<>> /\ resets' = resets + 1
    /\ UNCHANGED <<server, recv_data, sock, connected, ring, lost, led, written, conns>>

Peer == Connect \/ (\E s \in Writes : Write(s)) \/ Close \/ Break

ServerNext == Serve \/ Accept \/ AcceptFails \/ LedFlash \/ Peer

\* The threads are scheduled; the peer may do nothing at all, and accept may
\* fail each time it is called.
ServerSpec ==
    /\ ServerInit /\ [][ServerNext]_serverVars
    /\ WF_serverVars(Serve) /\ WF_serverVars(LedFlash)
-----------------------------------------------------------------------------
(* Properties *)

ServerTypeOK ==
    /\ server \in {"malloc", "socket", "bind", "listen", "accept", "recv", "exited"}
    /\ recv_data \in {"none", "held", "freed"}
    /\ sock \in {"none", "open", "listening"}
    /\ connected \in {-1, Handle}
    /\ peer \in {"none", "waiting", "open", "closing", "broken"}
    /\ led \in {"flash", "on"}
    /\ conns \in 0..MaxConns /\ resets \in 0..conns

\* A socket is received from only between accept and closesocket, however the
\* previous connection ended.  A handle outlives its connection only where the
\* error path of recv left it, and then the server waits in accept.
NoUseAfterClose ==
    LET live == peer \in {"open", "closing", "broken"} IN
    /\ server = "recv" => live /\ connected = Handle
    /\ connected = Handle /\ ~live => server = "accept" /\ resets > 0

\* Whatever step of opening the socket fails, the receive buffer is not held
\* by a server that has returned, nor missing from one that serves.
BufferOwned ==
    /\ server = "exited" => recv_data # "held"
    /\ server \in {"accept", "recv"} => recv_data = "held"

\* However a connection ends, the server is back at accept for the next one.
BackToAccept == (server = "recv" /\ peer \in {"closing", "broken"}) ~> server = "accept"
==============================================================================
