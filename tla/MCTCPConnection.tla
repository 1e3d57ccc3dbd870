-------------------------- MODULE MCTCPConnection --------------------------
(* Two bytes one way and none the other, through a window of one; or one byte *)
(* each way, with two segments in flight.                                     *)
EXTENDS TCPConnection

Nothing == <<>>
OneByte == <<1>>
OtherByte == <<3>>
TwoBytes == <<1, 2>>
=============================================================================
