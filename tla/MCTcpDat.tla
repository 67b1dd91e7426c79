------------------------------ MODULE MCTcpDat -------------------------------
(* TcpDat with a pool of three slots and blocks of up to two bytes: blocks
   wrap, fill the buffer exactly and, with a large backlog, overrun it. *)
EXTENDS TcpDat

\* Once a window has been hit only these many bytes go in and out.
RacedBytes == 4

RacedBound == raced => sent <= RacedBytes /\ Len(delivered) <= RacedBytes
==============================================================================
