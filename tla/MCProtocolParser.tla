-------------------------- MODULE MCProtocolParser ---------------------------
(* ProtocolParser fed with every stream over four byte values: the two codes,
   a length that fits the eight-byte buffer, and zero. *)
EXTENDS ProtocolParser

MCByte == {170, 85, 6, 0}
==============================================================================
