---------------------------- MODULE MCByteStream ----------------------------
(* A writer with 24 distinct bytes and a stream that holds four. *)
EXTENDS ByteStreamSpec

MCByte == 1 .. 24
MCSource == [i \in 1 .. 24 |-> i]
=============================================================================
