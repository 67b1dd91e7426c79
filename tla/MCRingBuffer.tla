---------------------------- MODULE MCRingBuffer -----------------------------
(* RingBuffer with two byte values in a pool of four, a request that the
   alignment rounds down and one that it rounds to nothing. *)
EXTENDS RingBuffer

CONSTANTS a, b

MCByte == {a, b}
MCRequests == {3, 5}
==============================================================================
