------------------------------- MODULE TcpDat --------------------------------
(***************************************************************************)
(* The ring buffer tcp_dat as the application uses it: tcprecvserv, in the *)
(* main thread, puts each received block with rt_ringbuffer_put_force      *)
(* while the wifi_control thread takes single characters with the loop of  *)
(* protocol_recev_data.  Both threads have priority 10, nothing locks the  *)
(* buffer and either may be preempted between two accesses to it, so a     *)
(* step here is one load or one store of the shared structure as the debug *)
(* build (-O0) issues them.  A mirror and its index share a 16-bit word    *)
(* and a store to either rewrites the word from an earlier load.           *)
(*                                                                         *)
(* Bytes are numbered in the order the peer sends them.                    *)
(***************************************************************************)
EXTENDS Integers, Sequences

CONSTANTS
    Size,        \* buffer_size (256 in main.c)
    MaxBlock,    \* BUFFER_SIZE of tcprecv.c, the most one recv returns
    MaxBytes,    \* bound on the bytes the peer ever sends
    MaxDelivered,\* bound on the bytes looked at: a raced buffer may never run dry
    Backlog      \* the peer never has more bytes than this undelivered; beyond
                 \* Size, blocks overrun the buffer

\* buffer_size is an rt_int16_t.
ASSUME SizeAssumption == Size \in 1..32767
ASSUME MaxBlockAssumption == MaxBlock \in 1..Size
ASSUME BoundsAssumption ==
    /\ MaxBytes \in Nat /\ MaxDelivered \in Nat /\ Backlog \in Nat
    /\ MaxDelivered >= MaxBytes

VARIABLES
    pool,        \* buffer_ptr; 0 marks a slot never written
    rd, wr,      \* the words holding read_mirror/index, write_mirror/index
    put,         \* tcprecvserv inside rt_ringbuffer_put_force
    get,         \* wifi_control inside protocol_recev_data
    sent,        \* number of bytes received from the peer so far
    delivered,   \* the bytes protocol_recev_data has looked at
    raced        \* an access fell into a window named below, or a block overran

shared == <<pool, rd, wr>>
vars == <<shared, put, get, sent, delivered, raced>>

Index == 0..32767   \* 15 bits
Word == [m : {0, 1}, i : Index]

\* The distances data_len computes from two index loads, and what put_force
\* makes of them: space_length is an rt_uint16_t.
Ahead(r, w) == w - r
Around(r, w) == Size - (r - w)
Overruns(n, len) == n > (Size - len) % 65536

Flip(m) == 1 - m

\* Mutant: a block that ends with the pool is not seen to wrap.
WrapsLate(w, n) == Size - w < n

Wraps(w, n) == ~(Size - w > n)
-----------------------------------------------------------------------------
(* Where the two threads hurt each other *)

\* put_force computes the space it has from several loads of the read word.
Measuring == put.pc \in {"mirror", "compare", "subtract"}

\* put_force has flipped write_mirror and not yet stored write_index
\* (ringbuffer.c:136-137).
HalfPublished == put.pc = "wrapIndex"

\* getchar has flipped read_mirror and not yet stored read_index
\* (ringbuffer.c:277-278): a full buffer measures as an empty one.
HalfTaken == get.pc \in {"zero", "zeroStore"}

\* put_force is dragging the read position along (ringbuffer.c:123, 141-142).
Dragging == put.pc \in {"dragMirrorStore", "dragIndex", "dragIndexStore"}

\* getchar's data_len has found the writer ahead and not yet subtracted.
Subtracting == get.pc = "subtract"

-----------------------------------------------------------------------------
Init ==
    /\ pool = [k \in 0..(Size - 1) |-> 0]
    /\ rd = [m |-> 0, i |-> 0] /\ wr = [m |-> 0, i |-> 0]
    /\ put = [pc |-> "recv", n |-> 0, len |-> 0, reg |-> rd]
    /\ get = [pc |-> "status", inGetchar |-> FALSE, dat |-> 0, reg |-> rd]
    /\ sent = 0 /\ delivered = <<>> /\ raced = FALSE

(* rt_ringbuffer_put_force, called by tcprecvserv *)

PutGoes(pc) == put' = [put EXCEPT !.pc = pc]
PutMeasured(len) == put' = [put EXCEPT !.pc = "memcpy", !.len = len]

\* recv returns a block of n bytes.
Recv(n) ==
    /\ put.pc = "recv"
    /\ sent + n <= MaxBytes
    /\ sent + n - Len(delivered) <= Backlog
    /\ put' = [put EXCEPT !.pc = "status", !.n = n]
    /\ sent' = sent + n
    /\ UNCHANGED <<shared, get, delivered, raced>>

\* Read word loaded and compared with the write word: rt_ringbuffer_status.
PutStatus ==
    /\ put.pc = "status"
    /\ PutGoes(IF rd.i = wr.i THEN "mirror" ELSE "compare")
    /\ UNCHANGED <<shared, get, sent, delivered, raced>>

PutMirror ==
    /\ put.pc = "mirror"
    /\ PutMeasured(IF rd.m = wr.m THEN 0 ELSE Size)
    /\ raced' = (raced \/ HalfTaken)
    /\ UNCHANGED <<shared, get, sent, delivered>>

\* data_len of a half-full buffer loads the indices again, twice.
PutCompare ==
    /\ put.pc = "compare"
    /\ IF wr.i > rd.i THEN PutGoes("subtract") ELSE PutMeasured(Around(rd.i, wr.i))
    /\ UNCHANGED <<shared, get, sent, delivered, raced>>

PutSubtract ==
    /\ put.pc = "subtract"
    /\ PutMeasured(Ahead(rd.i, wr.i))
    /\ UNCHANGED <<shared, get, sent, delivered, raced>>

\* The block lands in the pool, on overrun over bytes not yet read: the slots
\* from write_index on by the first memcpy, those before it by the second.
PutMemcpy ==
    LET offset(k) == IF k >= wr.i THEN k - wr.i ELSE Size - wr.i + k
        byte(k) == sent - put.n + 1 + offset(k)
    IN  /\ put.pc = "memcpy"
        /\ pool' = [k \in 0..(Size - 1) |->
                        IF offset(k) < put.n THEN byte(k) ELSE pool[k]]
        /\ PutGoes(IF Wraps(wr.i, put.n) THEN "wrapMirror" ELSE "publish")
        /\ raced' = (raced \/ Overruns(put.n, put.len))
        /\ UNCHANGED <<rd, wr, get, sent, delivered>>

\* Mutant: one byte more than was copied is published.
PublishTooMuch ==
    /\ put.pc = "publish"
    /\ wr' = [wr EXCEPT !.i = wr.i + put.n + 1]
    /\ PutGoes(IF Overruns(put.n, put.len) THEN "dragIndex" ELSE "recv")
    /\ raced' = (raced \/ Subtracting)
    /\ UNCHANGED <<pool, rd, get, sent, delivered>>

\* write_index += length, in the same mirror.
PutPublish ==
    /\ put.pc = "publish"
    /\ wr' = [wr EXCEPT !.i = wr.i + put.n]
    /\ PutGoes(IF Overruns(put.n, put.len) THEN "dragIndex" ELSE "recv")
    /\ raced' = (raced \/ Subtracting)
    /\ UNCHANGED <<pool, rd, get, sent, delivered>>

\* Mutant: the index wraps and the mirror stays.
WrapKeepsMirror ==
    /\ put.pc = "wrapMirror"
    /\ PutGoes("wrapIndex")
    /\ UNCHANGED <<shared, get, sent, delivered, raced>>

\* Into the other mirror: two stores.
PutWrapMirror ==
    /\ put.pc = "wrapMirror"
    /\ wr' = [wr EXCEPT !.m = Flip(wr.m)]
    /\ PutGoes("wrapIndex")
    /\ UNCHANGED <<pool, rd, get, sent, delivered, raced>>

PutWrapIndex ==
    /\ put.pc = "wrapIndex"
    /\ wr' = [wr EXCEPT !.i = put.n - (Size - wr.i)]
    /\ PutGoes(IF Overruns(put.n, put.len) THEN "dragMirror" ELSE "recv")
    /\ raced' = (raced \/ Subtracting)
    /\ UNCHANGED <<pool, rd, get, sent, delivered>>

\* On overrun the read word is rewritten, from a load that may be stale.
PutLoad(from, to) ==
    /\ put.pc = from
    /\ put' = [put EXCEPT !.pc = to, !.reg = rd]
    /\ UNCHANGED <<shared, get, sent, delivered, raced>>

PutDragMirror == PutLoad("dragMirror", "dragMirrorStore")

PutDragMirrorStore ==
    /\ put.pc = "dragMirrorStore"
    /\ rd' = [put.reg EXCEPT !.m = Flip(put.reg.m)]
    /\ PutGoes("dragIndex")
    /\ UNCHANGED <<pool, wr, get, sent, delivered, raced>>

PutDragIndex == PutLoad("dragIndex", "dragIndexStore")

PutDragIndexStore ==
    /\ put.pc = "dragIndexStore"
    /\ rd' = [put.reg EXCEPT !.i = wr.i]
    /\ PutGoes("recv")
    /\ UNCHANGED <<pool, wr, get, sent, delivered, raced>>

PutForce ==
    \/ PutStatus \/ PutMirror \/ PutCompare \/ PutSubtract
    \/ PutMemcpy \/ PutPublish \/ PutWrapMirror \/ PutWrapIndex
    \/ PutDragMirror \/ PutDragMirrorStore
    \/ PutDragIndex \/ PutDragIndexStore
-----------------------------------------------------------------------------
(* while (rt_ringbuffer_data_len(tcp_dat) != 0)                            *)
(*     rt_ringbuffer_getchar(tcp_dat, &dat);      in protocol_recev_data   *)

GetGoes(pc) == get' = [get EXCEPT !.pc = pc]

\* data_len has answered: the loop's call decides whether to go round again,
\* getchar's whether there is a character; the loop ignores what getchar
\* returns and looks at dat either way.
GetMeasured(len) ==
    CASE ~get.inGetchar /\ len = 0 -> GetGoes("status")
      [] ~get.inGetchar /\ len # 0 ->
            get' = [get EXCEPT !.pc = "status", !.inGetchar = TRUE]
      [] get.inGetchar /\ len = 0 -> GetGoes("use")
      [] get.inGetchar /\ len # 0 -> GetGoes("fetch")

GetStatus ==
    /\ get.pc = "status"
    /\ GetGoes(IF rd.i = wr.i THEN "mirror" ELSE "compare")
    /\ raced' = (raced \/ HalfPublished)
    /\ UNCHANGED <<shared, put, sent, delivered>>

GetMirror ==
    /\ get.pc = "mirror"
    /\ GetMeasured(IF rd.m = wr.m THEN 0 ELSE Size)
    /\ raced' = (raced \/ HalfPublished)
    /\ UNCHANGED <<shared, put, sent, delivered>>

GetCompare ==
    /\ get.pc = "compare"
    /\ IF wr.i > rd.i THEN GetGoes("subtract") ELSE GetMeasured(Around(rd.i, wr.i))
    /\ UNCHANGED <<shared, put, sent, delivered, raced>>

GetSubtract ==
    /\ get.pc = "subtract"
    /\ GetMeasured(Ahead(rd.i, wr.i))
    /\ UNCHANGED <<shared, put, sent, delivered, raced>>

\* *ch = buffer_ptr[read_index]; past the pool is whatever lies there.
GetFetch ==
    /\ get.pc = "fetch"
    /\ get' = [get EXCEPT !.pc = "atEnd",
                          !.dat = IF rd.i < Size THEN pool[rd.i] ELSE 0]
    /\ UNCHANGED <<shared, put, sent, delivered, raced>>

GetAtEnd ==
    /\ get.pc = "atEnd"
    /\ GetGoes(IF rd.i = Size - 1 THEN "flip" ELSE "inc")
    /\ UNCHANGED <<shared, put, sent, delivered, raced>>

GetLoad(from, to) ==
    /\ get.pc = from
    /\ get' = [get EXCEPT !.pc = to, !.reg = rd]
    /\ UNCHANGED <<shared, put, sent, delivered, raced>>

GetStore(from, word, to) ==
    /\ get.pc = from
    /\ rd' = word
    /\ GetGoes(to)
    /\ raced' = (raced \/ Measuring \/ Dragging)
    /\ UNCHANGED <<pool, wr, put, sent, delivered>>

GetFlip == GetLoad("flip", "flipStore")
GetFlipStore ==
    GetStore("flipStore", [get.reg EXCEPT !.m = Flip(get.reg.m)], "zero")
GetZero == GetLoad("zero", "zeroStore")
GetZeroStore == GetStore("zeroStore", [get.reg EXCEPT !.i = 0], "use")
GetInc == GetLoad("inc", "incStore")
GetIncStore ==
    GetStore("incStore", [get.reg EXCEPT !.i = (get.reg.i + 1) % 32768], "use")

\* The loop body looks at dat, whether or not getchar stored one.
GetUse ==
    /\ get.pc = "use"
    /\ Len(delivered) < MaxDelivered
    /\ delivered' = Append(delivered, get.dat)
    /\ get' = [get EXCEPT !.pc = "status", !.inGetchar = FALSE]
    /\ UNCHANGED <<shared, put, sent, raced>>

TakeChar ==
    \/ GetStatus \/ GetMirror \/ GetCompare \/ GetSubtract
    \/ GetFetch \/ GetAtEnd
    \/ GetFlip \/ GetFlipStore \/ GetZero \/ GetZeroStore
    \/ GetInc \/ GetIncStore \/ GetUse

Next == (\E n \in 1..MaxBlock : Recv(n)) \/ PutForce \/ TakeChar

\* RT-Thread shares the processor among ready threads of one priority by
\* time slices, so a thread inside a call keeps running.  Nothing makes the
\* peer send.
Spec == Init /\ [][Next]_vars /\ WF_vars(PutForce) /\ WF_vars(TakeChar)
-----------------------------------------------------------------------------
(* Properties *)

TypeOK ==
    /\ pool \in [0..(Size - 1) -> 0..MaxBytes]
    /\ rd \in Word /\ wr \in Word
    /\ put.n \in 0..MaxBlock /\ put.reg \in Word
    /\ get.inGetchar \in BOOLEAN /\ get.dat \in 0..MaxBytes /\ get.reg \in Word
    /\ sent \in 0..MaxBytes
    /\ Len(delivered) <= MaxDelivered
    /\ raced \in BOOLEAN

\* The writer, whose word only put_force stores to, never leaves the pool:
\* each memcpy starts inside it, in whatever order the two threads run.
WriterInPool == wr.i < Size

\* As long as no access falls into a named window, the parser sees the peer's
\* bytes in order, each once and none before put_force has stored it.
InOrderUnlessRaced ==
    ~raced => \A k \in 1..Len(delivered) : delivered[k] = k

\* Both threads are between calls and the buffer says it is empty.
Quiet ==
    /\ put.pc = "recv"
    /\ get.pc = "status" /\ ~get.inGetchar
    /\ rd = wr

\* A buffer that looks empty has delivered all it was given, unless raced.
DrainedUnlessRaced == ~raced /\ Quiet => Len(delivered) = sent

\* Every byte received reaches the parser, unless a window was hit.
DeliveredUnlessRaced ==
    \A k \in 1..MaxBytes : sent >= k ~> raced \/ Len(delivered) >= k

\* "no need at all to worry about losing packets" (wifi_driver_part.md:169):
\* nothing put into an unfilled buffer is missing when the buffer runs empty.
NothingLost == Quiet => Len(delivered) >= sent
==============================================================================
