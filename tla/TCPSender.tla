------------------------------ MODULE TCPSender ------------------------------
(***************************************************************************)
(* The class TCPSender with its RetransmissionTimer and                    *)
(* RetransmissionTimeout (src/src/tcp_sender.hh, tcp_sender.cc), and the   *)
(* message it sends (src/util/tcp_sender_message.hh).  An object is a      *)
(* record and a method an operator, as in ByteStream.  A method that also  *)
(* reads the outbound stream returns both.                                 *)
(*                                                                         *)
(* m_outstanding_messages_ is a function from the absolute sequence number *)
(* of a message to the message.  m_timer_ is left out: nothing reads it.   *)
(* An optional<Wrap32> is the set of its values: {} or {w}.                *)
(***************************************************************************)
EXTENDS ByteStream, Wrap32, Functions, FiniteSets, FiniteSetsExt

CONSTANT MAX_PAYLOAD_SIZE

ASSUME PayloadAssumption == MAX_PAYLOAD_SIZE \in Nat \ {0}

TCPSenderMessage(seqno, syn, payload, fin) ==
  [seqno |-> seqno, SYN |-> syn, payload |-> payload, FIN |-> fin]

One(flag) == IF flag THEN 1 ELSE 0

sequence_length(m) == One(m.SYN) + Len(m.payload) + One(m.FIN)

(***************************************************************************)
(* RetransmissionTimer and RetransmissionTimeout.                          *)
(***************************************************************************)
RetransmissionTimer == [m_timer |-> 0, m_timeout |-> UINT64_MAX, m_running |-> FALSE]

restart(ms_timeout) == [m_timer |-> 0, m_timeout |-> ms_timeout, m_running |-> TRUE]
stop == RetransmissionTimer
elapse(t, ms) == IF t.m_running THEN [t EXCEPT !.m_timer = @ + ms] ELSE t
is_timeout(t) == t.m_running /\ t.m_timer >= t.m_timeout

RetransmissionTimeout(initial) == [m_value |-> initial, m_init_value |-> initial]

timed_out(rto) == [rto EXCEPT !.m_value = @ + @]
acknowledged(rto) == [rto EXCEPT !.m_value = rto.m_init_value]

(***************************************************************************)
(* TCPSender.                                                              *)
(***************************************************************************)
TCPSender(initial_RTO_ms, isn) ==
  [m_outstanding_messages_       |-> [k \in {} |-> {}],
   m_send_queue_                 |-> <<>>,
   m_syc_pushed                  |-> FALSE,
   m_fin_pushed                  |-> FALSE,
   m_retransmission_timer_       |-> RetransmissionTimer,
   m_isn_                        |-> isn,
   m_RTO_ms_                     |-> RetransmissionTimeout(initial_RTO_ms),
   m_consecutive_retransmissions |-> 0,
   m_window_left                 |-> 0,
   m_window_size                 |-> 1]

\* One past the sequence numbers of the outstanding message at k: the
\* acknowledgment it waits for.
wait_for_ackno(s, k) == k + sequence_length(s.m_outstanding_messages_[k])

get_absolute_seqno(s) ==
  LET out == DOMAIN s.m_outstanding_messages_
  IN  IF out = {} THEN s.m_window_left ELSE wait_for_ackno(s, Max(out))

sequence_numbers_in_flight(s) == get_absolute_seqno(s) - s.m_window_left

push_message(s, payload, syn, fin) ==
  LET absolute_seqno == get_absolute_seqno(s)
      message == TCPSenderMessage(Wrap32_wrap(absolute_seqno, s.m_isn_), syn, payload, fin)
      old == s.m_outstanding_messages_
  IN  [s EXCEPT !.m_outstanding_messages_ =
                   [k \in DOMAIN old \cup {absolute_seqno} |->
                      IF k \in DOMAIN old THEN old[k] ELSE message],
                !.m_send_queue_ = Append(@, message)]

(***************************************************************************)
(* The rest of push, when SYN is out and FIN is not: as many bytes as are  *)
(* buffered and fit in the window (a window of zero counts as one, to      *)
(* probe it), cut every MAX_PAYLOAD_SIZE, and FIN on the last piece, or    *)
(* alone, when the stream ends there and one more number fits.  The loop   *)
(* of the code, one message after the other, is in TCPSenderLoops.         *)
(***************************************************************************)
\* Fault: FIN does not count as a number in the window.
FinAlwaysFits(outbound, len, room) ==
  outbound.is_close_ /\ len = Reader_bytes_buffered(outbound)

is_fin_msg(outbound, len, room) ==
  /\ outbound.is_close_
  /\ len = Reader_bytes_buffered(outbound)
  /\ len < room

window_right(s) == s.m_window_left + Most(s.m_window_size, 1)

push_pieces(s, outbound, next, len, fin) ==
  LET count  == Most((len + MAX_PAYLOAD_SIZE - 1) \div MAX_PAYLOAD_SIZE, One(fin))
      key(i) == next + i * MAX_PAYLOAD_SIZE
      message(i) ==
        TCPSenderMessage(Wrap32_wrap(key(i), s.m_isn_), FALSE,
                         Slice(outbound.buffer_, i * MAX_PAYLOAD_SIZE,
                               Least((i + 1) * MAX_PAYLOAD_SIZE, len)),
                         fin /\ i = count - 1)
      old == s.m_outstanding_messages_
      new == {key(i) : i \in 0 .. count - 1}
  IN  [sender |->
         [s EXCEPT !.m_outstanding_messages_ =
                      [k \in DOMAIN old \cup new |->
                         IF k \in DOMAIN old THEN old[k]
                         ELSE message((k - next) \div MAX_PAYLOAD_SIZE)],
                   !.m_send_queue_ = Joined(@, [i \in 1 .. count |-> message(i - 1)]),
                   !.m_fin_pushed = fin],
       outbound |-> Reader_pop(outbound, len)]

push_data(s, outbound) ==
  LET next == get_absolute_seqno(s)
      room == Most(window_right(s) - next, 0)
      len  == Least(Reader_bytes_buffered(outbound), room)
  IN  push_pieces(s, outbound, next, len, is_fin_msg(outbound, len, room))

\* SYN goes first, alone or with FIN, whatever the window.
push_syn(s, outbound) ==
  LET fin == Reader_is_finished(outbound)
  IN  [push_message(s, <<>>, TRUE, fin) EXCEPT !.m_syc_pushed = TRUE, !.m_fin_pushed = fin]

push_behind_syn(s, outbound) ==
  IF s.m_fin_pushed THEN [sender |-> s, outbound |-> outbound] ELSE push_data(s, outbound)

TCPSender_push(s, outbound) ==
  push_behind_syn(IF s.m_syc_pushed THEN s ELSE push_syn(s, outbound), outbound)

(***************************************************************************)
(* maybe_send: the queued message, and the sender without it.              *)
(***************************************************************************)
maybe_send_message(s) == Head(s.m_send_queue_)

maybe_send(s) ==
  [s EXCEPT !.m_send_queue_ = Tail(@),
            !.m_retransmission_timer_ =
               IF @.m_running THEN @ ELSE restart(s.m_RTO_ms_.m_value)]

send_empty_message(s) ==
  TCPSenderMessage(Wrap32_wrap(get_absolute_seqno(s), s.m_isn_), FALSE, <<>>, FALSE)

(***************************************************************************)
(* receive: the outstanding messages that the acknowledgment number covers *)
(* whole are erased, unless it is beyond everything sent.  The window is   *)
(* taken from every message, an old one too.                               *)
(***************************************************************************)
\* Faults: a message is erased as soon as its first number is acknowledged; a
\* number that was never sent is taken for an acknowledgment.
PartlyAcked(s, absolute_ackno) ==
  {k \in DOMAIN s.m_outstanding_messages_ :
     k < absolute_ackno /\ absolute_ackno <= get_absolute_seqno(s)}
AcksImpossible(s, absolute_ackno) ==
  {k \in DOMAIN s.m_outstanding_messages_ : wait_for_ackno(s, k) <= absolute_ackno}

Acked(s, absolute_ackno) ==
  {k \in DOMAIN s.m_outstanding_messages_ :
     /\ absolute_ackno <= get_absolute_seqno(s)
     /\ \A j \in DOMAIN s.m_outstanding_messages_ :
          j <= k => wait_for_ackno(s, j) <= absolute_ackno}

\* Faults: the timeout stays at what the retransmissions doubled it to; the
\* timer stops though messages are left.
AckedNoReset(s, absolute_ackno, acked) ==
  LET left == DOMAIN s.m_outstanding_messages_ \ acked
  IN  [s EXCEPT !.m_outstanding_messages_ = Restrict(@, left),
                !.m_consecutive_retransmissions = 0,
                !.m_window_left = absolute_ackno,
                !.m_retransmission_timer_ =
                   IF left = {} THEN stop ELSE restart(s.m_RTO_ms_.m_value)]

AckedStopsTimer(s, absolute_ackno, acked) ==
  [s EXCEPT !.m_outstanding_messages_ = Restrict(@, DOMAIN @ \ acked),
            !.m_RTO_ms_ = acknowledged(@),
            !.m_consecutive_retransmissions = 0,
            !.m_window_left = absolute_ackno,
            !.m_retransmission_timer_ = stop]

successful_receipt(s, absolute_ackno, acked) ==
  LET left == DOMAIN s.m_outstanding_messages_ \ acked
      rto  == acknowledged(s.m_RTO_ms_)
  IN  [s EXCEPT !.m_outstanding_messages_ = Restrict(@, left),
                !.m_RTO_ms_ = rto,
                !.m_consecutive_retransmissions = 0,
                !.m_window_left = absolute_ackno,
                !.m_retransmission_timer_ = IF left = {} THEN stop ELSE restart(rto.m_value)]

TCPSender_receive(s, msg) ==
  LET absolute_ackno == Wrap32_unwrap(CHOOSE w \in msg.ackno : TRUE, s.m_isn_, s.m_window_left)
      acked == Acked(s, absolute_ackno)
  IN  IF msg.ackno = {} THEN s
      ELSE [IF acked = {} THEN s ELSE successful_receipt(s, absolute_ackno, acked)
              EXCEPT !.m_window_size = msg.window_size]

(***************************************************************************)
(* tick.  When the timer has expired and nothing is outstanding, the code  *)
(* reads begin() of an empty map: tick_is_defined excludes it, and a user  *)
(* of tick shows that it does not happen.                                  *)
(***************************************************************************)
tick_is_defined(s, ms) ==
  is_timeout(elapse(s.m_retransmission_timer_, ms)) => DOMAIN s.m_outstanding_messages_ # {}

TCPSender_tick(s, ms) ==
  LET timer == elapse(s.m_retransmission_timer_, ms)
      rto   == IF s.m_window_size > 0 THEN timed_out(s.m_RTO_ms_) ELSE s.m_RTO_ms_
      first == s.m_outstanding_messages_[Min(DOMAIN s.m_outstanding_messages_)]
  IN  IF ~is_timeout(timer) THEN [s EXCEPT !.m_retransmission_timer_ = timer]
      ELSE [s EXCEPT !.m_send_queue_ = Append(@, first),
                     !.m_RTO_ms_ = rto,
                     !.m_consecutive_retransmissions = @ + One(s.m_window_size > 0),
                     !.m_retransmission_timer_ = restart(rto.m_value)]
=============================================================================
