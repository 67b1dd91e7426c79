------------------------------ MODULE ByteQueue ------------------------------
(***************************************************************************)
(* What rt_ringbuffer promises its callers, without mirrors and indices: a *)
(* bounded first-in first-out queue of bytes.                              *)
(*                                                                         *)
(* "size" is the capacity, 0 while there is no buffer; "queue" is what is  *)
(* stored, oldest byte first; "ret" and "data" are the count the last call *)
(* returned and the bytes it was handed or delivered.                      *)
(***************************************************************************)
EXTENDS Integers, Sequences

CONSTANTS
    Byte,          \* the values a byte of data can take
    Block,         \* the blocks of data a caller may hand over
    Sizes,         \* the capacities a buffer may be created with
    Lengths        \* the lengths a caller may ask for

VARIABLES size, queue, ret, data

fifo == <<size, queue, ret, data>>

Least(a, b) == IF a <= b THEN a ELSE b

\* The newest n bytes of q, or all of q when it is shorter.
Newest(q, n) == SubSeq(q, Len(q) - Least(n, Len(q)) + 1, Len(q))

Init == size = 0 /\ queue = <<>> /\ ret = 0 /\ data = <<>>

Create ==
    /\ size = 0
    /\ size' \in Sizes \cup {0}
    /\ queue' = <<>> /\ ret' = 0 /\ data' = <<>>

Destroy ==
    /\ size > 0
    /\ size' = 0 /\ queue' = <<>> /\ ret' = 0 /\ data' = <<>>

Reset ==
    /\ size > 0
    /\ queue' = <<>> /\ ret' = 0 /\ data' = <<>>
    /\ UNCHANGED size

\* What fits is stored, the tail that does not fit is refused.
Put(s) ==
    LET n == Least(Len(s), size - Len(queue))
    IN  /\ size > 0
        /\ queue' = queue \o SubSeq(s, 1, n)
        /\ ret' = n /\ data' = s
        /\ UNCHANGED size

\* Everything new is stored.  On overrun old bytes make room: at best only
\* as many as needed, at worst every byte that was or would be stored.
PutForce(s) ==
    /\ size > 0
    /\ \/ queue' = Newest(queue \o s, size)
       \/ Len(queue) + Len(s) > size /\ queue' = <<>>
    /\ ret' = Least(Len(s), size) /\ data' = s
    /\ UNCHANGED size

\* A single byte never costs more than one old byte.
PutcharForce(c) ==
    /\ size > 0
    /\ queue' = Newest(Append(queue, c), size)
    /\ ret' = 1 /\ data' = <<c>>
    /\ UNCHANGED size

\* The oldest bytes leave first.
Get(n) ==
    LET k == Least(n, Len(queue))
    IN  /\ size > 0
        /\ data' = SubSeq(queue, 1, k)
        /\ queue' = SubSeq(queue, k + 1, Len(queue))
        /\ ret' = k
        /\ UNCHANGED size

\* What a put was handed is in "data" afterwards.
Next ==
    \/ Create \/ Destroy \/ Reset
    \/ data' \in Block /\ (Put(data') \/ PutForce(data'))
    \/ \E c \in Byte : Put(<<c>>) \/ PutcharForce(c)
    \/ \E n \in Lengths : Get(n)

Spec == Init /\ [][Next]_fifo
==============================================================================
