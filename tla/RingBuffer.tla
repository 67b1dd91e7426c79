----------------------------- MODULE RingBuffer ------------------------------
(***************************************************************************)
(* rt_ringbuffer (rt-thread/components/drivers/src/ringbuffer.c): the      *)
(* queue between the thread that receives from the socket and the thread   *)
(* that parses commands.  Here every call is one step; TcpDat models what  *)
(* happens when two threads are inside calls at the same time.             *)
(*                                                                         *)
(* Each index lies in 0..buffer_size-1 and carries a one-bit "mirror" that *)
(* flips whenever the index wraps: equal indices mean an empty buffer when *)
(* the mirrors agree and a full one when they differ.                      *)
(***************************************************************************)
EXTENDS Integers, Sequences

CONSTANTS
    Byte,          \* the values a byte of data can take
    Requests,      \* the sizes a caller asks rt_ringbuffer_create for
    Align,         \* RT_ALIGN_SIZE
    MaxLength      \* bound on the length argument of put, put_force and get

\* create and init assert size > 0, init takes the size as an rt_int16_t.
ASSUME RequestsAssumption == Requests \subseteq 1..32767
ASSUME AlignAssumption == Align \in Nat \ {0}
ASSUME MaxLengthAssumption == MaxLength \in Nat
ASSUME ByteAssumption == Byte # {}

VARIABLES
    buffer_size,   \* capacity; 0 stands for rb == RT_NULL
    buffer_ptr,    \* contents of the pool
    read_mirror, read_index, write_mirror, write_index,
    ret,           \* what the last call returned
    data           \* the bytes the last call was handed or delivered

indices == <<read_mirror, read_index, write_mirror, write_index>>
vars == <<buffer_size, buffer_ptr, indices, ret, data>>

\* The blocks a caller passes as (ptr, length).
Block == UNION {[1..n -> Byte] : n \in 0..MaxLength}

Live == buffer_size > 0

Smaller(a, b) == IF a < b THEN a ELSE b

AlignDown(n) == n - (n % Align)
-----------------------------------------------------------------------------
(* The questions a caller and the operations ask *)

Status ==
    IF read_index = write_index
    THEN IF read_mirror = write_mirror THEN "EMPTY" ELSE "FULL"
    ELSE "HALFFULL"

DataLen ==
    CASE Status = "EMPTY" -> 0
      [] Status = "FULL" -> buffer_size
      [] Status = "HALFFULL" ->
            IF write_index > read_index
            THEN write_index - read_index
            ELSE buffer_size - (read_index - write_index)

SpaceLen == buffer_size - DataLen

\* Mutant: the boundary case, where the data ends with the pool, forgotten.
ReachesEndLate(i, n) == buffer_size - i < n

\* Moving index i by n reaches the end of the pool.
ReachesEnd(i, n) == ~(buffer_size - i > n)

Moved(i, n) == IF ReachesEnd(i, n) THEN n - (buffer_size - i) ELSE i + n

\* Mutant: an index wraps and its mirror does not follow.
KeepMirror(m) == m

Flip(m) == 1 - m

FlipIf(wrap, m) == IF wrap THEN Flip(m) ELSE m

\* Mutant: the second memcpy, to the start of the pool, is missing.
CopiedOnce(s) ==
    [i \in 0..(buffer_size - 1) |->
        LET d == i - write_index
        IN  IF 0 <= d /\ d < Len(s) THEN s[d + 1] ELSE buffer_ptr[i]]

\* The pool after the (one or two) memcpy of s to write_index.
Copied(s) ==
    [i \in 0..(buffer_size - 1) |->
        LET d == i - write_index
        IN  IF 0 <= d /\ d < Len(s) THEN s[d + 1]
            ELSE IF d < 0 /\ d + buffer_size < Len(s)
                 THEN s[d + buffer_size + 1]
                 ELSE buffer_ptr[i]]

\* The k-th byte after read_index, k counted from 1.
Stored(k) ==
    LET i == read_index + k - 1
    IN  buffer_ptr[IF i < buffer_size THEN i ELSE i - buffer_size]

\* The pool after one character is stored at write_index.
WithChar(c) == [buffer_ptr EXCEPT ![write_index] = c]
-----------------------------------------------------------------------------
Init ==
    /\ buffer_size = 0 /\ buffer_ptr = <<>>
    /\ read_mirror = 0 /\ read_index = 0
    /\ write_mirror = 0 /\ write_index = 0
    /\ ret = 0 /\ data = <<>>

ZeroIndices ==
    /\ read_mirror' = 0 /\ read_index' = 0
    /\ write_mirror' = 0 /\ write_index' = 0

\* A call returns n, with the bytes s it was handed or delivers.
Returns(n, s) == ret' = n /\ data' = s

\* rt_ringbuffer_create with rt_ringbuffer_init.  Either rt_malloc may fail,
\* and rt_malloc(0), for a request below Align, always does.  A new pool
\* holds whatever was in the heap.
Create(request) ==
    /\ ~Live
    /\ \/ /\ AlignDown(request) > 0
          /\ buffer_size' = AlignDown(request)
          /\ buffer_ptr' \in [0..(AlignDown(request) - 1) -> Byte]
       \/ UNCHANGED <<buffer_size, buffer_ptr>>
    /\ ZeroIndices
    /\ Returns(0, <<>>)

Destroy ==
    /\ Live
    /\ buffer_size' = 0 /\ buffer_ptr' = <<>>
    /\ ZeroIndices
    /\ Returns(0, <<>>)

Reset ==
    /\ Live
    /\ ZeroIndices
    /\ Returns(0, <<>>)
    /\ UNCHANGED <<buffer_size, buffer_ptr>>

\* rt_ringbuffer_put: the bytes that find no room are refused.  (With no
\* room at all the early return leaves the same state as storing nothing.)
Put(s) ==
    LET n == Smaller(SpaceLen, Len(s))
    IN  /\ Live
        /\ buffer_ptr' = Copied(SubSeq(s, 1, n))
        /\ write_mirror' = FlipIf(ReachesEnd(write_index, n), write_mirror)
        /\ write_index' = Moved(write_index, n)
        /\ Returns(n, s)
        /\ UNCHANGED <<buffer_size, read_mirror, read_index>>

\* rt_ringbuffer_put_force: a block longer than the pool loses its head, and
\* on overrun the read position is dragged along.
PutForce(s) ==
    LET n == Smaller(buffer_size, Len(s))
        overrun == n > SpaceLen
        wrap == ReachesEnd(write_index, n)
    IN  /\ Live
        /\ buffer_ptr' = Copied(SubSeq(s, Len(s) - n + 1, Len(s)))
        /\ write_mirror' = FlipIf(wrap, write_mirror)
        /\ write_index' = Moved(write_index, n)
        /\ read_mirror' = FlipIf(wrap /\ overrun, read_mirror)
        /\ read_index' = IF overrun THEN Moved(write_index, n) ELSE read_index
        /\ Returns(n, s)
        /\ UNCHANGED buffer_size

\* rt_ringbuffer_get
Get(length) ==
    LET n == Smaller(DataLen, length)
    IN  /\ Live
        /\ Returns(n, [k \in 1..n |-> Stored(k)])
        /\ read_mirror' = FlipIf(ReachesEnd(read_index, n), read_mirror)
        /\ read_index' = Moved(read_index, n)
        /\ UNCHANGED <<buffer_size, buffer_ptr, write_mirror, write_index>>

AtEnd(i) == i = buffer_size - 1

Following(i) == IF AtEnd(i) THEN 0 ELSE i + 1

\* rt_ringbuffer_putchar
Putchar(c) ==
    /\ Live
    /\ IF SpaceLen = 0
       THEN Returns(0, <<c>>) /\ UNCHANGED <<buffer_ptr, write_mirror, write_index>>
       ELSE /\ buffer_ptr' = WithChar(c)
            /\ write_mirror' = FlipIf(AtEnd(write_index), write_mirror)
            /\ write_index' = Following(write_index)
            /\ Returns(1, <<c>>)
    /\ UNCHANGED <<buffer_size, read_mirror, read_index>>

\* What putchar_force does to the read position.
ReadAfterForce(full) ==
    /\ read_mirror' = FlipIf(full /\ AtEnd(write_index), read_mirror)
    /\ read_index' = IF full THEN Following(write_index) ELSE read_index

\* rt_ringbuffer_putchar_force
PutcharForce(c) ==
    /\ Live
    /\ buffer_ptr' = WithChar(c)
    /\ write_mirror' = FlipIf(AtEnd(write_index), write_mirror)
    /\ write_index' = Following(write_index)
    /\ ReadAfterForce(Status = "FULL")
    /\ Returns(1, <<c>>)
    /\ UNCHANGED buffer_size

\* rt_ringbuffer_getchar
Getchar ==
    /\ Live
    /\ IF DataLen = 0
       THEN Returns(0, <<>>) /\ UNCHANGED <<read_mirror, read_index>>
       ELSE /\ Returns(1, <<buffer_ptr[read_index]>>)
            /\ read_mirror' = FlipIf(AtEnd(read_index), read_mirror)
            /\ read_index' = Following(read_index)
    /\ UNCHANGED <<buffer_size, buffer_ptr, write_mirror, write_index>>

Next ==
    \/ \E request \in Requests : Create(request)
    \/ Destroy
    \/ Reset
    \/ \E s \in Block : Put(s)
    \/ \E s \in Block : PutForce(s)
    \/ \E length \in 0..MaxLength : Get(length)
    \/ \E c \in Byte : Putchar(c)
    \/ \E c \in Byte : PutcharForce(c)
    \/ Getchar

Spec == Init /\ [][Next]_vars
-----------------------------------------------------------------------------
(* Properties *)

\* Type invariant: both indices stay inside the pool, whatever was put, forced
\* or taken ("this should not cause overflow", ringbuffer.c:72, 118 and 175),
\* so every memcpy and every character store lands in the pool.
TypeOK ==
    /\ buffer_size \in Nat
    /\ buffer_ptr \in [0..(buffer_size - 1) -> Byte]
    /\ read_mirror \in {0, 1} /\ write_mirror \in {0, 1}
    /\ read_index \in Nat /\ write_index \in Nat
    /\ Live => read_index < buffer_size /\ write_index < buffer_size
    /\ ret \in Nat
    /\ data \in Seq(Byte)

\* The mirrors tell which index is ahead: in the same mirror the writer is at
\* or past the reader, in different mirrors at or before it.  data_len, which
\* does not look at the mirrors of a half-full buffer, relies on it.
MirrorOrder ==
    IF read_mirror = write_mirror
    THEN read_index <= write_index
    ELSE write_index <= read_index

\* The stored bytes, oldest first.
Contents == [k \in 1..DataLen |-> Stored(k)]

Queue == INSTANCE ByteQueue WITH
    Sizes <- {AlignDown(n) : n \in Requests},
    Lengths <- {1} \cup 0..MaxLength,   \* getchar asks for one
    size <- buffer_size,
    queue <- Contents

\* Every operation does to the stored bytes what a bounded FIFO queue does:
\* nothing is reordered, duplicated or read before it was written.
IsByteQueue == Queue!Spec

\* "When the buffer is full, it will discard the old data"
\* (ringbuffer.c:96): after put_force the buffer holds the newest bytes, as
\* many as fit.
ForceKeepsNewest ==
    [][\A s \in Block :
        PutForce(s) => Contents' = Queue!Newest(Contents \o s, buffer_size)]_vars
==============================================================================
