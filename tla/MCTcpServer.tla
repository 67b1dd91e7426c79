----------------------------- MODULE MCTcpServer -----------------------------
(* TcpServer with a peer that connects up to three times and writes one- and
   two-byte pieces. *)
EXTENDS TcpServer

MCWrites == {<<1>>, <<2, 3>>}
MCGarbled == {<<2>>}
==============================================================================
