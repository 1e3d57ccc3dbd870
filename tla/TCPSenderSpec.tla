--------------------------- MODULE TCPSenderSpec ---------------------------
(***************************************************************************)
(* One TCPSender between a program that writes into the outbound stream    *)
(* and a peer that acknowledges.  The peer is any that keeps to TCP: it    *)
(* acknowledges what it was sent, whole messages or parts of one, now or   *)
(* late, so that an acknowledgment may be older than one that came before, *)
(* and with any window.  One number past the last one is acknowledged too, *)
(* the "impossible ackno" of tests/send_ack.cc:64.                         *)
(*                                                                         *)
(* The owner calls push, receive and tick in any order, and empties the    *)
(* queue with maybe_send after each of them, as                            *)
(* TCPMinnowSocket::collect_segments does (tcp_minnow_socket.cc:309-318).  *)
(***************************************************************************)
EXTENDS TCPSender

CONSTANTS Source,       \* the bytes the program writes
          Capacity,     \* the capacity of the outbound stream
          Byte,         \* the values a byte takes
          ISN,          \* the initial sequence number
          InitialRTO,   \* cfg.rt_timeout, in ticks
          MaxWindow,    \* bound: the largest window advertised
          MaxTimeouts   \* bound: consecutive retransmissions before time stops

ASSUME SourceAssumption == Source \in Seq(Byte) /\ 2 * (Len(Source) + 3) < Modulus
ASSUME CapacityAssumption == Capacity \in Nat \ {0}
ASSUME SenderAssumption == ISN \in UInt32 /\ InitialRTO \in Nat \ {0}

VARIABLES sender,
          outbound,  \* the ByteStream the program writes into
          sent       \* one past the highest absolute sequence number sent

vars == <<sender, outbound, sent>>

Init ==
  /\ sender = TCPSender(InitialRTO, ISN)
  /\ outbound = ByteStream(Capacity)
  /\ sent = 0

Ready == sender.m_send_queue_ = <<>>

Write ==
  /\ ~outbound.is_close_
  /\ \E last \in outbound.bytes_pushed_ + 1 .. Len(Source) :
       outbound' = Writer_push(outbound, Slice(Source, outbound.bytes_pushed_, last))
  /\ UNCHANGED <<sender, sent>>

Close ==
  /\ ~outbound.is_close_
  /\ outbound.bytes_pushed_ = Len(Source)
  /\ outbound' = Writer_close(outbound)
  /\ UNCHANGED <<sender, sent>>

Push ==
  /\ Ready
  /\ \E result \in {TCPSender_push(sender, outbound)} :
       sender' = result.sender /\ outbound' = result.outbound
  /\ UNCHANGED sent

\* The absolute sequence number of the message m, which lies in what was sent
\* or is about to be.
Absolute(m) == Wrap32_unwrap(m.seqno, sender.m_isn_, sender.m_window_left)

MaybeSend ==
  /\ sender.m_send_queue_ # <<>>
  /\ sender' = maybe_send(sender)
  /\ LET m == maybe_send_message(sender)
     IN  sent' = Most(sent, Absolute(m) + sequence_length(m))
  /\ UNCHANGED outbound

\* The numbers the peer may acknowledge once SYN was sent: any that was sent,
\* and the one that is impossible.
Acknos ==
  IF sent = 0 THEN {} ELSE 1 .. sent \cup {get_absolute_seqno(sender) + 1}

TCPReceiverMessages ==
  [ackno : {{}} \cup {{Wrap32_wrap(n, ISN)} : n \in Acknos}, window_size : 0 .. MaxWindow]

Receive ==
  /\ Ready
  /\ \E msg \in TCPReceiverMessages : sender' = TCPSender_receive(sender, msg)
  /\ UNCHANGED <<outbound, sent>>

Tick ==
  /\ Ready
  /\ sender.m_consecutive_retransmissions < MaxTimeouts
  /\ \E ms \in 1 .. InitialRTO :
       tick_is_defined(sender, ms) /\ sender' = TCPSender_tick(sender, ms)
  /\ UNCHANGED <<outbound, sent>>

Next == Write \/ Close \/ Push \/ MaybeSend \/ Receive \/ Tick

Spec == Init /\ [][Next]_vars

(***************************************************************************)
(* Invariants.                                                             *)
(***************************************************************************)
\* The number SYN takes is 0, byte i of Source has i + 1, FIN the one after.
\* The message with the numbers from k up to, not including, end.
Message(k, end) ==
  TCPSenderMessage(Wrap32_wrap(k, ISN), k = 0,
                   Slice(Source, Most(k - 1, 0), Least(end - 1, Len(Source))),
                   end = Len(Source) + 2)

Messages == {Message(k, end) : k \in 0 .. Len(Source) + 1, end \in 1 .. Len(Source) + 2}

TypeOK ==
  /\ DOMAIN sender.m_outstanding_messages_ \in SUBSET Nat
  /\ sender.m_outstanding_messages_ \in [DOMAIN sender.m_outstanding_messages_ -> Messages]
  /\ sender.m_send_queue_ \in Seq(Messages)
  /\ sender.m_syc_pushed \in BOOLEAN /\ sender.m_fin_pushed \in BOOLEAN
  /\ sender.m_retransmission_timer_ \in
       [m_timer : Nat, m_timeout : UInt64 \cup Nat, m_running : BOOLEAN]
  /\ sender.m_isn_ = ISN
  /\ sender.m_RTO_ms_ \in [m_value : Nat, m_init_value : {InitialRTO}]
  /\ sender.m_consecutive_retransmissions \in Nat
  /\ sender.m_window_left \in Nat /\ sender.m_window_size \in Nat
  /\ outbound \in ByteStreams(Byte, Capacity)
  /\ sent \in Nat

\* The outstanding messages tile the sequence numbers from the one the peer
\* waits for up to the next one to use, each with the bytes of Source that
\* belong there: whatever order the windows, the partial and the late
\* acknowledgments came in, no number in flight is forgotten, used twice or
\* given another byte.
OutstandingOK ==
  LET out == DOMAIN sender.m_outstanding_messages_
  IN  /\ \A k \in out :
           /\ sender.m_outstanding_messages_[k] = Message(k, wait_for_ackno(sender, k))
           /\ k < wait_for_ackno(sender, k)
           /\ sender.m_window_left < wait_for_ackno(sender, k)
           /\ k <= sender.m_window_left
                \/ \E j \in out : wait_for_ackno(sender, j) = k
      /\ \A j, k \in out : j < k => wait_for_ackno(sender, j) <= k

\* Every byte taken out of the outbound stream, SYN and FIN have a sequence
\* number, in flight or acknowledged, and FIN is behind all the bytes.
NothingLost ==
  /\ get_absolute_seqno(sender) =
       One(sender.m_syc_pushed) + outbound.bytes_popped_ + One(sender.m_fin_pushed)
  /\ sender.m_fin_pushed =>
       sender.m_syc_pushed /\ outbound.is_close_ /\ outbound.bytes_popped_ = Len(Source)

\* When nothing waits in the queue, the timer runs exactly while a message is
\* outstanding: what is lost is sent again, and an expired timer always finds
\* the message to send (tcp_sender.cc:182-183).
TimerRuns ==
  /\ sender.m_retransmission_timer_.m_running =>
       DOMAIN sender.m_outstanding_messages_ # {}
  /\ sender.m_send_queue_ = <<>> /\ DOMAIN sender.m_outstanding_messages_ # {} =>
       sender.m_retransmission_timer_.m_running

\* The timeout is the initial one doubled once for every retransmission since
\* the last acknowledgment of new data (and not for a probe of a zero window),
\* and the running timer waits for it.
BackoffExact ==
  LET rto == sender.m_RTO_ms_  timer == sender.m_retransmission_timer_
  IN  /\ rto.m_value = InitialRTO * 2 ^ sender.m_consecutive_retransmissions
      /\ timer.m_running => timer.m_timeout = rto.m_value /\ timer.m_timer < timer.m_timeout

(***************************************************************************)
(* Action properties.                                                      *)
(***************************************************************************)
\* New numbers are used only inside the window as the peer last gave it, one
\* number when that window is zero, FIN included.  SYN goes first whatever the
\* window, with FIN when there is nothing to send.
WithinWindow ==
  [][LET next == get_absolute_seqno(sender)  then == get_absolute_seqno(sender')
     IN  then > next =>
           \/ then <= window_right(sender)
           \/ next = 0 /\ then = 1 + One(sender'.m_fin_pushed)]_vars

\* The left edge of the window never goes back and never passes what was sent,
\* whatever old or impossible number is acknowledged.
LeftEdgeOK ==
  [][/\ sender'.m_window_left >= sender.m_window_left
     /\ sender'.m_window_left <= Most(sent, sender.m_window_left)]_vars
=============================================================================
