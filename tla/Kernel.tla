------------------------------- MODULE Kernel -------------------------------
(***************************************************************************)
(* What the operating system gives a program to read and write: a          *)
(* connected pair of AF_UNIX stream sockets (socketpair, called at         *)
(* src/util/tcp_minnow_socket.cc:195), and the pipes a shell connects to   *)
(* its standard input and output.  This is not code of the repository: it  *)
(* is what unix(7), pipe(7), shutdown(2) and poll(2) say of the calls the  *)
(* repository makes.                                                       *)
(*                                                                         *)
(* A kernel k is a function from the ends of these connections.  An end    *)
(* holds the bytes that wait to be read from it, and two flags: rcv, no    *)
(* more bytes will come; snd, what is written goes nowhere.                *)
(***************************************************************************)
EXTENDS Slices

CONSTANT PipeCapacity     \* bound: bytes that wait at one end

ASSUME PipeAssumption == PipeCapacity \in Nat \ {0}

Sockets == {"owner", "thread"}
Ends == Sockets \cup {"stdin", "feeder", "stdout", "screen"}

OtherEnd(e) ==
  [owner |-> "thread", thread |-> "owner", stdin |-> "feeder", feeder |-> "stdin",
   stdout |-> "screen", screen |-> "stdout"][e]

StreamEnd == [queue |-> <<>>, rcv |-> FALSE, snd |-> FALSE]
NewKernel == [e \in Ends |-> StreamEnd]

room(k, e) == PipeCapacity - Len(k[OtherEnd(e)].queue)

\* poll(2).  A socket is hung up when both directions are shut, and can be
\* read (for the end of the stream) when no more will come.  A pipe is hung
\* up for its reader when the writer is gone, and an error for its writer when
\* the reader is.
poll_events(k, e) ==
  LET readable == k[e].queue # <<>> \/ (e \in Sockets /\ k[e].rcv)
      hung_up  == k[e].rcv /\ (e \in Sockets => k[e].snd)
      failed   == e \notin Sockets /\ k[e].snd
  IN  {ev \in {"IN", "OUT", "HUP", "ERR"} :
         \/ ev = "IN"  /\ readable
         \/ ev = "OUT" /\ room(k, e) > 0
         \/ ev = "HUP" /\ hung_up
         \/ ev = "ERR" /\ failed}

take(k, e, n) == [k EXCEPT ![e].queue = Slice(@, n, Len(@))]
put(k, e, data) == [k EXCEPT ![OtherEnd(e)].queue = Joined(@, data)]

\* shutdown(2): how is a subset of {"RD", "WR"}.  What was queued can still be
\* read.
shut(k, e, how) ==
  [k EXCEPT ![e].rcv = @ \/ "RD" \in how, ![e].snd = @ \/ "WR" \in how,
            ![OtherEnd(e)].rcv = @ \/ "WR" \in how,
            ![OtherEnd(e)].snd = @ \/ "RD" \in how]
=============================================================================
