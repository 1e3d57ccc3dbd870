-------------------------- MODULE MCMinnowProgram --------------------------
(* One byte out and two in, through streams of two bytes and pipes of one,  *)
(* so that a write may be a partial one.                                    *)
EXTENDS MinnowProgram

OneByte == <<3>>
TwoBytes == <<1, 2>>
AnyDisturbance == {"reset", "leave", "throw"}
=============================================================================
