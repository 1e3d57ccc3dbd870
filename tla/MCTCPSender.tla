---------------------------- MODULE MCTCPSender ----------------------------
(* Five distinct bytes, messages of at most two, sequence numbers that wrap *)
(* behind the second.                                                       *)
EXTENDS TCPSenderSpec, TCPSenderLoops

MCByte == 1 .. 5
MCSource == [i \in 1 .. 5 |-> i]

\* The loops of push and of receive, on every state and for every
\* acknowledgment number, do what their definitions in TCPSender say.
LoopsAgree ==
  /\ TCPSender_push(sender, outbound) = LoopPush(sender, outbound)
  /\ \A n \in Acknos : Acked(sender, n) = AckLoop(sender, n)
=============================================================================
