---------------------------- MODULE TCPConnection ----------------------------
(***************************************************************************)
(* Two TCPPeers, a client that connects and a server that listens, each    *)
(* run by a TCPMinnowSocket (src/util/tcp_minnow_socket.cc) for a program  *)
(* that writes its bytes, closes, and reads until the end, over a network  *)
(* that loses and reorders segments; a segment comes twice when it is sent *)
(* again too early.                                                        *)
(*                                                                         *)
(* One step is one callback of the event loop with the collect_segments    *)
(* that follows it: what is collected is on the wire, where it may stay    *)
(* for any time, so that the queue outgoing_segments_ is part of the wire. *)
(*                                                                         *)
(* Time is abstract.  With a timeout of 0 the timer of a TCPSender has     *)
(* always expired while it runs, so that a tick is a timeout; Early bounds *)
(* how many segments may still be on the wire when one comes.  A tick that *)
(* is no timeout changes nothing but the timer.                            *)
(***************************************************************************)
EXTENDS TCPPeer

CONSTANTS ClientSource, ServerSource,  \* the bytes each program writes
          ClientISN, ServerISN,
          SendCapacity, RecvCapacity,  \* of the outbound and the inbound streams
          Early,        \* bound: segments on the wire when a timeout comes
          MaxLosses     \* bound: segments lost

VARIABLES peer,       \* the two TCPPeers
          wire,       \* the segments on their way to each of them
          delivered,  \* what each program has read
          eof,        \* each program has read to the end
          losses      \* how many segments were lost

vars == <<peer, wire, delivered, eof, losses>>

client == "client"
server == "server"
Peers == {client, server}

Other(p) == IF p = client THEN server ELSE client
SourceOf(p) == IF p = client THEN ClientSource ELSE ServerSource
ISN(p) == IF p = client THEN ClientISN ELSE ServerISN

ASSUME SourceAssumption ==
  \A p \in Peers : SourceOf(p) \in Seq(Nat) /\ 2 * (Len(SourceOf(p)) + 3) < Modulus
ASSUME ISNAssumption == \A p \in Peers : ISN(p) \in UInt32
ASSUME CapacityAssumption == SendCapacity \in Nat \ {0} /\ RecvCapacity \in Nat \ {0}
ASSUME BoundAssumption == Early \in Nat /\ MaxLosses \in Nat

Config(p) == [rt_timeout |-> 0, fixed_isn |-> ISN(p),
              send_capacity |-> SendCapacity, recv_capacity |-> RecvCapacity]

Init ==
  /\ peer = [p \in Peers |-> TCPPeer(Config(p))]
  /\ wire = [p \in Peers |-> {}]
  /\ delivered = [p \in Peers |-> <<>>]
  /\ eof = [p \in Peers |-> FALSE]
  /\ losses = 0

\* The callback leaves p's TCPPeer as now and collects its segments; taken is
\* the segment it read from the wire, if any.  The event loop of a peer that
\* is not active ends (tcp_minnow_socket.cc:109,295): what is on the way to it
\* then, or sent to it later, is read by nobody.
\* The retransmission counter is read by nothing in src/src or src/util, and
\* is not counted here.
Collect(p, now, taken) ==
  \E collected \in {collect_segments(now)} :
    /\ peer' = [peer EXCEPT ![p] =
                  [collected.peer EXCEPT !.sender_.m_consecutive_retransmissions = 0]]
    /\ wire' = [q \in Peers |->
                  IF ~active(peer'[q]) THEN {}
                  ELSE IF q = p THEN wire[q] \ taken
                  ELSE wire[q] \cup Range(collected.segments)]

\* connect(): push and collect (tcp_minnow_socket.cc:250-251).
CanConnect == ~peer[client].sender_.m_syc_pushed

Connect ==
  /\ CanConnect
  /\ Collect(client, TCPPeer_push(peer[client]), {})
  /\ UNCHANGED <<delivered, eof, losses>>

\* connect() and listen_and_accept() have returned.
Established(p) == peer[p].sender_.m_window_left > 0

\* Rule 2: the program wrote some of its bytes, or closed after the last one
\* (then the read that meets the end of the pipe pushes nothing and closes).
WrittenBy(p, last) ==
  LET outbound == peer[p].outbound_stream_
      pushed == Writer_push(outbound, Slice(SourceOf(p), outbound.bytes_pushed_, last))
  IN  IF outbound.bytes_pushed_ < Len(SourceOf(p)) THEN pushed ELSE Writer_close(outbound)

CanWrite(p) ==
  /\ Established(p) /\ active(peer[p])
  /\ ~peer[p].outbound_stream_.is_close_
  /\ Writer_available_capacity(peer[p].outbound_stream_) > 0

Write(p) ==
  /\ CanWrite(p)
  /\ \E last \in Least(peer[p].outbound_stream_.bytes_pushed_ + 1, Len(SourceOf(p)))
                  .. Len(SourceOf(p)) :
       Collect(p, TCPPeer_push([peer[p] EXCEPT !.outbound_stream_ = WrittenBy(p, last)]), {})
  /\ UNCHANGED <<delivered, eof, losses>>

\* Rule 1: a segment comes in.
CanReceive(p) == active(peer[p]) /\ wire[p] # {}

Receive(p) ==
  /\ CanReceive(p)
  /\ \E seg \in wire[p] : Collect(p, TCPPeer_receive(peer[p], seg), {seg})
  /\ UNCHANGED <<delivered, eof, losses>>

\* The loop finds the timer expired.  When the other end is done this changes
\* nothing here.
CanTick(p) ==
  /\ \A q \in Peers : active(peer[q])
  /\ Cardinality(wire[p]) + Cardinality(wire[Other(p)]) <= Early
  /\ is_timeout(peer[p].sender_.m_retransmission_timer_)
  /\ tick_is_defined(peer[p].sender_, 0)

Tick(p) ==
  /\ CanTick(p)
  /\ Collect(p, TCPPeer_tick(peer[p], 0), {})
  /\ UNCHANGED <<delivered, eof, losses>>

\* Rule 3: the program reads what the pipe took, and the end when it comes.
CanRead(p) ==
  LET inbound == peer[p].inbound_stream_
  IN  Reader_bytes_buffered(inbound) > 0 \/ (Reader_is_finished(inbound) /\ ~eof[p])

Read(p) ==
  LET inbound == peer[p].inbound_stream_
  IN  /\ CanRead(p)
      /\ \E n \in Least(1, Len(inbound.buffer_)) .. Len(inbound.buffer_) :
           /\ delivered' = [delivered EXCEPT ![p] = Joined(@, read_out(inbound, n))]
           /\ peer' = [peer EXCEPT ![p].inbound_stream_ = read_rest(@, n)]
      /\ eof' = [eof EXCEPT ![p] = Reader_is_finished(peer'[p].inbound_stream_)]
      /\ UNCHANGED <<wire, losses>>

\* The network loses a segment.
Lose(p) ==
  /\ losses < MaxLosses
  /\ \E seg \in wire[p] : wire' = [wire EXCEPT ![p] = @ \ {seg}]
  /\ losses' = losses + 1
  /\ UNCHANGED <<peer, delivered, eof>>

Next ==
  \/ Connect
  \/ \E p \in Peers : Write(p) \/ Receive(p) \/ Tick(p) \/ Read(p) \/ Lose(p)

(***************************************************************************)
(* The programs write and read, the loop takes what has come in, and a     *)
(* running timer expires at the latest when nothing is on the wire;        *)
(* nothing is assumed of losses but their bound.  Every line is weak       *)
(* fairness of its action (of Tick when nothing is on the wire): WF_vars   *)
(* written out where the action can be taken exactly when its condition    *)
(* holds, and then changes the state, which TLC evaluates at once.         *)
(***************************************************************************)
Quiet == \A p \in Peers : wire[p] = {}

Fairness ==
  /\ []<>~CanConnect \/ []<><<Connect>>_vars
  /\ \A p \in Peers :
       /\ []<>~CanWrite(p) \/ []<><<Write(p)>>_vars
       /\ []<>~CanReceive(p) \/ []<><<Receive(p)>>_vars
       /\ []<>~(CanTick(p) /\ Quiet) \/ []<><<Tick(p)>>_vars
       /\ WF_vars(Read(p))

Safety == Init /\ [][Next]_vars
Spec == Safety /\ Fairness

(***************************************************************************)
(* Invariants.                                                             *)
(***************************************************************************)
\* The absolute number p's receiver acknowledges.
Acknowledged(p) ==
  IF has_ackno(peer[p]) THEN absolute_ackno(peer[p].inbound_stream_) ELSE 0

\* What a sender takes for acknowledged the other end has, and everything it
\* sent and the other end does not have is still outstanding: no order of old
\* and new acknowledgments, partial ones and retransmissions makes the two
\* ends disagree.  Between callbacks the timer runs while something is
\* outstanding, and nothing else waits to be sent.
NothingForgotten ==
  \A p \in Peers :
    LET s == peer[p].sender_
    IN  /\ s.m_window_left <= Acknowledged(Other(p))
        /\ Acknowledged(Other(p)) <= get_absolute_seqno(s)
        /\ \A n \in Acknowledged(Other(p)) .. get_absolute_seqno(s) - 1 :
             \E k \in DOMAIN s.m_outstanding_messages_ :
               k <= n /\ n < wait_for_ackno(s, k)
        /\ s.m_send_queue_ = <<>>
        /\ s.m_retransmission_timer_.m_running <=> DOMAIN s.m_outstanding_messages_ # {}

\* A peer that has finished leaves nothing behind: all its bytes and the end
\* of its stream have arrived, and so have the other's.
FinishedIsDone ==
  \A p \in Peers : ~active(peer[p]) =>
    \A q \in Peers : /\ peer[q].inbound_stream_.is_close_
                     /\ peer[q].inbound_stream_.bytes_pushed_ = Len(SourceOf(Other(q)))

(***************************************************************************)
(* Each direction is a reliable stream.                                    *)
(***************************************************************************)
ToServer == INSTANCE ReliableStream
  WITH Source <- ClientSource, delivered <- delivered[server], eof <- eof[server]
ToClient == INSTANCE ReliableStream
  WITH Source <- ServerSource, delivered <- delivered[client], eof <- eof[client]

\* Whatever is lost, late or sent twice, each program reads exactly the bytes
\* the other wrote.
ReliableSafety == ToServer!Safety /\ ToClient!Safety

\* And each of them reads all of them and the end.
Reliable == ToServer!Spec /\ ToClient!Spec

\* "Close socket, and wait for TCPPeer to finish", advisable once "the socket
\* has reached EOF" (tcp_minnow_socket.hh:69-72): a program that has read to
\* the end and closed sees its peer finish.  The code has no state that waits
\* for the loss of the last acknowledgment: run connection_last_ack.
FinishesAfterEof ==
  \A p \in Peers : (eof[p] /\ peer[p].outbound_stream_.is_close_) ~> ~active(peer[p])
=============================================================================
