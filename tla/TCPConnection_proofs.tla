------------------------- MODULE TCPConnection_proofs -------------------------
(***************************************************************************)
(* Two TCPPeers over a network that loses, delays and reorders: each       *)
(* direction is a reliable stream, what a sender takes for acknowledged    *)
(* the other end has, and a peer that has finished leaves nothing behind.  *)
(*                                                                         *)
(* The invariant relates the two ends of each direction.  What one end     *)
(* hears is assembled from the bytes that the other end popped from its    *)
(* outbound stream, so that what it acknowledges is no more than the       *)
(* numbers the other used; and a segment on the wire is made of messages   *)
(* about those bytes and those acknowledgments, however old it is.         *)
(*                                                                         *)
(* A direction is the record c of TCPSenderLemmas.  Most of the proof is   *)
(* about one peer x, in the direction c it sends and the direction d it    *)
(* hears, where y is the peer at the other end.                            *)
(***************************************************************************)
EXTENDS TCPConnection, TCPSenderLemmas

(***************************************************************************)
(* The two ends of a connection.                                           *)
(***************************************************************************)
Flow(p) == [source |-> SourceOf(p), isn |-> ISN(p), capacity |-> SendCapacity, byte |-> Nat]

PeerFields ==
  {"sender_", "receiver_", "reassembler_", "outbound_stream_", "inbound_stream_", "need_send_"}

UsedBy(x) == Used(x.sender_, x.outbound_stream_)

\* The absolute number x acknowledges.
AckOf(x) == IF has_ackno(x) THEN absolute_ackno(x.inbound_stream_) ELSE 0

\* x sends in direction c, between two calls of its methods.
Sends(c, x) ==
  /\ DOMAIN x = PeerFields
  /\ Consistent(c, x.sender_, x.outbound_stream_)
  /\ Runs(x.sender_.m_retransmission_timer_, DOMAIN x.sender_.m_outstanding_messages_,
          x.sender_.m_send_queue_)
  /\ x.outbound_stream_.error_ = FALSE
  /\ x.need_send_ \in BOOLEAN

\* And the whole handler, which ends with nothing left to send.
Rests(x) ==
  /\ x.sender_.m_send_queue_ = <<>>
  /\ has_ackno(x) => Exhausted(x.sender_, x.outbound_stream_)

\* The bytes of d that y has sent so far.
Sent(d, y) == Slice(d.source, 0, y.outbound_stream_.bytes_popped_)

\* x hears from y what y has sent in direction d.
Hears(d, y, x) ==
  /\ DOMAIN x.receiver_ = {"m_recv_zero_point", "m_syn_rcvd", "m_fin_rcvd"}
  /\ x.receiver_.m_syn_rcvd \in BOOLEAN
  /\ x.receiver_.m_fin_rcvd \in BOOLEAN
  /\ x.receiver_.m_syn_rcvd =>
       x.receiver_.m_recv_zero_point = d.isn /\ y.sender_.m_syc_pushed
  /\ ~x.receiver_.m_syn_rcvd => ~x.inbound_stream_.is_close_
  /\ x.reassembler_.m_stream_end # UINT64_MAX => y.sender_.m_fin_pushed
  /\ Assembled(x.reassembler_, x.inbound_stream_, Sent(d, y), Nat, RecvCapacity)
  /\ x.inbound_stream_.error_ = FALSE

\* The segments of a peer that sends in direction c and hears direction d, when
\* it used the numbers below used and acknowledged up to ack.
Segments(c, d, used, ack) ==
  [sender_message :
     Sendable(c, used) \cup
       {TCPSenderMessage(Wrap32_wrap(n, c.isn), FALSE, <<>>, FALSE) : n \in 0 .. used},
   receiver_message :
     [ackno : {{}} \cup {{Wrap32_wrap(n, d.isn)} : n \in 0 .. ack}, window_size : Nat],
   reset : {FALSE}]

\* What no step of a peer takes back: of what it sends, and of what it hears.
Grows(x, t) ==
  /\ x.sender_.m_syc_pushed => t.sender_.m_syc_pushed
  /\ x.sender_.m_fin_pushed =>
       /\ t.sender_.m_fin_pushed
       /\ t.outbound_stream_.bytes_popped_ = x.outbound_stream_.bytes_popped_
  /\ x.outbound_stream_.bytes_popped_ <= t.outbound_stream_.bytes_popped_
  /\ UsedBy(x) <= UsedBy(t)

Advances(x, t) == Grows(x, t) /\ AckOf(x) <= AckOf(t)

\* What p's program has read, and what it was told of the end.
HasRead(p) ==
  LET inbound == peer[p].inbound_stream_
  IN  /\ delivered[p] = Slice(SourceOf(Other(p)), 0, inbound.bytes_popped_)
      /\ eof[p] \in BOOLEAN
      /\ eof[p] => Reader_is_finished(inbound)

Endpoint(p) ==
  LET x == peer[p]  y == peer[Other(p)]
  IN  /\ Sends(Flow(p), x)
      /\ Rests(x)
      /\ Hears(Flow(Other(p)), y, x)
      /\ x.sender_.m_window_left <= AckOf(y)

InFlight(p) ==
  wire[p] \in SUBSET Segments(Flow(Other(p)), Flow(p),
                              UsedBy(peer[Other(p)]), AckOf(peer[Other(p)]))

Inv ==
  /\ DOMAIN peer = Peers /\ DOMAIN wire = Peers /\ DOMAIN delivered = Peers /\ DOMAIN eof = Peers
  /\ \A p \in Peers : Endpoint(p) /\ InFlight(p) /\ HasRead(p)

(***************************************************************************)
(* What the two ends know of each other.                                   *)
(***************************************************************************)

\* One connection: x sends in direction c and hears direction d.
Ways(c, d) ==
  /\ Direction(c) /\ c.byte = Nat
  /\ Direction(d) /\ d.byte = Nat

LEMMA FlowProperties ==
  ASSUME NEW p \in Peers
  PROVE  /\ Other(p) \in Peers /\ Other(Other(p)) = p /\ Other(p) # p
         /\ Ways(Flow(p), Flow(Other(p)))
         /\ Flow(p).source = SourceOf(p) /\ Flow(p).isn = ISN(p)
         /\ Flow(p).capacity = SendCapacity
<1>1. Other(p) \in Peers /\ Other(Other(p)) = p /\ Other(p) # p
  BY DEF Peers, Other, client, server
<1>2. ASSUME NEW q \in Peers
      PROVE  Direction(Flow(q)) /\ Flow(q).byte = Nat
  BY <1>2, SourceAssumption, ISNAssumption, CapacityAssumption DEF Direction, Flow
<1>3. QED
  BY <1>1, <1>2 DEF Ways, Flow

LEMMA SentProperties ==
  ASSUME NEW c, NEW d, Ways(c, d), NEW y, Sends(d, y)
  PROVE  /\ y.outbound_stream_.bytes_popped_ \in Nat
         /\ Len(d.source) \in Nat
         /\ y.outbound_stream_.bytes_popped_ <= Len(d.source)
         /\ Sent(d, y) \in Seq(Nat)
         /\ Len(Sent(d, y)) = y.outbound_stream_.bytes_popped_
         /\ Len(d.source) < UINT64_MAX
         /\ Len(Sent(d, y)) < UINT64_MAX
         /\ RecvCapacity \in Nat
         /\ UINT64_MAX \in Nat
<1>1. PICK n \in Nat : n = y.outbound_stream_.bytes_popped_ /\ n <= Len(d.source)
  BY Numbers, Constants DEF Ways, Sends
<1>2. SliceAlgebra(d.source, Nat) /\ Len(d.source) \in Nat
  BY Constants DEF Ways
<1>3. Sent(d, y) \in Seq(Nat) /\ Len(Sent(d, y)) = n - 0
  <2>1. 0 \in Nat /\ 0 <= n
    BY <1>1
  <2>2. Slice(d.source, 0, n) \in Seq(Nat) /\ Len(Slice(d.source, 0, n)) = n - 0
    BY <1>1, <1>2, <2>1 DEF SliceAlgebra
  <2>3. QED
    BY <1>1, <2>2 DEF Sent
<1>4. Len(d.source) < UINT64_MAX /\ UINT64_MAX \in Nat
  BY Constants, ModulusAssumption DEF Ways, UINT64_MAX
<1>5. QED
  BY <1>1, <1>2, <1>3, <1>4, CapacityAssumption

\* has_ackno is what the receiver says.
LEMMA AckProperties ==
  ASSUME NEW c, NEW d, Ways(c, d), NEW y, Sends(d, y), NEW x, Hears(d, y, x)
  PROVE  /\ has_ackno(x) <=> x.receiver_.m_syn_rcvd
         /\ x.receiver_.m_syn_rcvd =>
              our_ackno(x) = {Wrap32_wrap(absolute_ackno(x.inbound_stream_), d.isn)}
         /\ ~x.receiver_.m_syn_rcvd => our_ackno(x) = {}
BY DEF has_ackno, our_ackno, TCPReceiver_send, Hears

\* What has arrived was sent, and the end only with all of it.
LEMMA HeardNumbers ==
  ASSUME NEW c, NEW d, Ways(c, d), NEW y, Sends(d, y), NEW x, Hears(d, y, x)
  PROVE  /\ x.inbound_stream_ \in ByteStreams(Nat, RecvCapacity)
         /\ x.inbound_stream_.bytes_pushed_ \in Nat
         /\ x.inbound_stream_.bytes_popped_ \in Nat
         /\ x.inbound_stream_.bytes_popped_ <= x.inbound_stream_.bytes_pushed_
         /\ x.inbound_stream_.bytes_pushed_ <= y.outbound_stream_.bytes_popped_
         /\ x.inbound_stream_.is_close_ \in BOOLEAN
         /\ Len(x.inbound_stream_.buffer_) =
              x.inbound_stream_.bytes_pushed_ - x.inbound_stream_.bytes_popped_
         /\ Writer_available_capacity(x.inbound_stream_) \in Nat
         /\ x.inbound_stream_.is_close_ =>
              /\ x.receiver_.m_syn_rcvd
              /\ y.sender_.m_fin_pushed
              /\ x.inbound_stream_.bytes_pushed_ = y.outbound_stream_.bytes_popped_
              /\ x.inbound_stream_.bytes_pushed_ = Len(d.source)
<1>1. Assembled(x.reassembler_, x.inbound_stream_, Sent(d, y), Nat, RecvCapacity)
  BY DEF Hears
<1>2. /\ Sent(d, y) \in Seq(Nat) /\ RecvCapacity \in Nat /\ Len(Sent(d, y)) < UINT64_MAX
      /\ Len(Sent(d, y)) = y.outbound_stream_.bytes_popped_
      /\ y.outbound_stream_.bytes_popped_ \in Nat /\ UINT64_MAX \in Nat
  BY SentProperties
<1>3. /\ x.inbound_stream_ \in ByteStreams(Nat, RecvCapacity)
      /\ x.inbound_stream_.bytes_pushed_ \in Nat
      /\ x.inbound_stream_.bytes_popped_ \in Nat
      /\ x.inbound_stream_.bytes_popped_ <= x.inbound_stream_.bytes_pushed_
      /\ x.inbound_stream_.bytes_pushed_ <= Len(Sent(d, y))
      /\ Len(x.inbound_stream_.buffer_) =
              x.inbound_stream_.bytes_pushed_ - x.inbound_stream_.bytes_popped_
      /\ Writer_available_capacity(x.inbound_stream_) \in Nat
  BY <1>1, <1>2, AssembledLengths
<1>4. x.inbound_stream_.is_close_ \in BOOLEAN
  BY <1>3 DEF ByteStreams
<1>5. ASSUME x.inbound_stream_.is_close_
      PROVE  /\ x.receiver_.m_syn_rcvd
             /\ y.sender_.m_fin_pushed
             /\ x.inbound_stream_.bytes_pushed_ = y.outbound_stream_.bytes_popped_
             /\ x.inbound_stream_.bytes_pushed_ = Len(d.source)
  <2>1. /\ x.inbound_stream_.bytes_pushed_ = x.reassembler_.m_stream_end
        /\ x.reassembler_.m_stream_end \in {Len(Sent(d, y)), UINT64_MAX}
    BY <1>1, <1>5 DEF Assembled
  <2>2. x.reassembler_.m_stream_end # UINT64_MAX
    BY <1>2, <1>3, <2>1
  <2>3. y.sender_.m_fin_pushed /\ x.receiver_.m_syn_rcvd
    BY <1>5, <2>2 DEF Hears
  <2>4. y.outbound_stream_.bytes_popped_ = Len(d.source)
    BY <2>3 DEF Sends, Consistent
  <2>5. QED
    BY <1>2, <2>1, <2>2, <2>3, <2>4
<1>6. QED
  BY <1>2, <1>3, <1>4, <1>5

\* Nobody acknowledges what was not sent.
LEMMA AckBelow ==
  ASSUME NEW c, NEW d, Ways(c, d), NEW y, Sends(d, y), NEW x, Hears(d, y, x)
  PROVE  /\ AckOf(x) \in Nat /\ AckOf(x) <= UsedBy(y)
         /\ UsedBy(y) \in Nat /\ UsedBy(y) <= Len(d.source) + 2
         /\ x.receiver_.m_syn_rcvd => AckOf(x) = absolute_ackno(x.inbound_stream_)
         /\ ~x.receiver_.m_syn_rcvd => AckOf(x) = 0
<1>1. UsedBy(y) \in Nat /\ UsedBy(y) <= Len(d.source) + 2
  BY Numbers DEF Ways, Sends, UsedBy
<1>2. CASE ~x.receiver_.m_syn_rcvd
  BY <1>1, <1>2, AckProperties DEF AckOf
<1>3. CASE x.receiver_.m_syn_rcvd
  <2>1. AckOf(x) = absolute_ackno(x.inbound_stream_)
    BY <1>3, AckProperties DEF AckOf
  <2>2. PICK pushed \in Nat, popped \in Nat :
          /\ pushed = x.inbound_stream_.bytes_pushed_ /\ popped = y.outbound_stream_.bytes_popped_
          /\ pushed <= popped
    BY HeardNumbers, SentProperties
  <2>3. One(y.sender_.m_syc_pushed) = 1
    BY <1>3 DEF Hears, One
  <2>4. PICK f \in 0 .. 1, g \in 0 .. 1 :
          /\ f = One(x.inbound_stream_.is_close_) /\ g = One(y.sender_.m_fin_pushed)
          /\ f <= g
    BY HeardNumbers DEF One
  <2>5. AckOf(x) = pushed + 1 + f
    BY <2>1, <2>2, <2>4 DEF absolute_ackno
  <2>6. UsedBy(y) = 1 + popped + g
    BY <2>2, <2>3, <2>4 DEF UsedBy, Used
  <2>7. QED
    BY <1>1, <1>3, <2>1, <2>2, <2>4, <2>5, <2>6
<1>4. QED
  BY <1>2, <1>3 DEF Hears

\* What was heard stays heard when the other end goes on.
LEMMA HearsOn ==
  ASSUME NEW c, NEW d, Ways(c, d), NEW y, Sends(d, y), NEW x, Hears(d, y, x),
         NEW t, Sends(d, t), Advances(y, t)
  PROVE  Hears(d, t, x)
<1>1. PICK n \in Nat, m \in Nat :
        /\ n = y.outbound_stream_.bytes_popped_ /\ m = t.outbound_stream_.bytes_popped_
        /\ n <= m /\ m <= Len(d.source)
  BY SentProperties DEF Advances, Grows
<1>2. x.reassembler_.m_stream_end = UINT64_MAX \/ n = m
  BY <1>1 DEF Hears, Advances, Grows
<1>3. Assembled(x.reassembler_, x.inbound_stream_, Slice(d.source, 0, n), Nat, RecvCapacity)
  BY <1>1 DEF Hears, Sent
<1>4. d.source \in Seq(Nat) /\ RecvCapacity \in Nat
  BY Constants, SentProperties DEF Ways
<1>5. Assembled(x.reassembler_, x.inbound_stream_, Slice(d.source, 0, m), Nat, RecvCapacity)
  BY <1>1, <1>2, <1>3, <1>4, AssembledExtends
<1>6. QED
  BY <1>1, <1>5 DEF Hears, Sent, Advances, Grows

\* What may be sent stays so when more may be.
LEMMA SegmentsGrow ==
  ASSUME NEW c, NEW d, NEW used \in Nat, NEW ack \in Nat,
         NEW used2 \in Nat, NEW ack2 \in Nat, used <= used2, ack <= ack2
  PROVE  Segments(c, d, used, ack) \in SUBSET Segments(c, d, used2, ack2)
<1>1. \A m : m \in Sendable(c, used) => m \in Sendable(c, used2)
  BY DEF Sendable
<1>2. \A n : n \in 0 .. used => n \in 0 .. used2
  OBVIOUS
<1>3. \A n : n \in 0 .. ack => n \in 0 .. ack2
  OBVIOUS
<1>4. SUFFICES ASSUME NEW seg \in Segments(c, d, used, ack)
               PROVE  seg \in Segments(c, d, used2, ack2)
  OBVIOUS
<1>5. QED
  BY <1>1, <1>2, <1>3, <1>4, Zenon DEF Segments

(***************************************************************************)
(* collect_segments.                                                       *)
(***************************************************************************)

\* t hears what x hears.
SameEars(x, t) ==
  /\ t.receiver_ = x.receiver_
  /\ t.reassembler_ = x.reassembler_
  /\ t.inbound_stream_ = x.inbound_stream_

\* What is left of x when something was sent.
Speaks(c, x, t) ==
  /\ Sends(c, t)
  /\ SameEars(x, t)
  /\ Grows(x, t)
  /\ t.sender_.m_window_left = x.sender_.m_window_left

LEMMA SendsNumbers ==
  ASSUME NEW c, NEW d, Ways(c, d), NEW x, Sends(c, x)
  PROVE  /\ x.outbound_stream_.bytes_popped_ \in Nat
         /\ UsedBy(x) \in Nat /\ UsedBy(x) <= Len(c.source) + 2
         /\ x.sender_.m_window_left \in Nat /\ x.sender_.m_window_left <= UsedBy(x)
         /\ get_absolute_seqno(x.sender_) = UsedBy(x)
         /\ x.sender_.m_syc_pushed \in BOOLEAN /\ x.sender_.m_fin_pushed \in BOOLEAN
         /\ x.sender_.m_send_queue_ \in Seq(Sendable(c, UsedBy(x)))
         /\ Len(x.sender_.m_send_queue_) \in Nat
         /\ x.outbound_stream_.is_close_ \in BOOLEAN
<1>1. Consistent(c, x.sender_, x.outbound_stream_) /\ Direction(c)
  BY DEF Ways, Sends
<1>2. x.sender_.m_send_queue_ \in Seq(Sendable(c, UsedBy(x)))
  BY <1>1 DEF Consistent, UsedBy
<1>3. Len(x.sender_.m_send_queue_) \in Nat
  BY <1>2, LenProperties
<1>4. x.outbound_stream_.is_close_ \in BOOLEAN
  BY <1>1 DEF Consistent, ByteStreams
<1>5. QED
  BY <1>1, <1>2, <1>3, <1>4, Numbers DEF Consistent, UsedBy

LEMMA SpeaksOn ==
  ASSUME NEW c, NEW d, Ways(c, d), NEW x, Sends(c, x), NEW t, Speaks(c, x, t), NEW u, Speaks(c, t, u)
  PROVE  Speaks(c, x, u)
<1>1. SameEars(x, u) /\ u.sender_.m_window_left = x.sender_.m_window_left /\ Sends(c, u) /\ Sends(c, t)
  BY DEF Speaks, SameEars
<1>2. /\ UsedBy(x) \in Nat /\ UsedBy(t) \in Nat /\ UsedBy(u) \in Nat
      /\ x.outbound_stream_.bytes_popped_ \in Nat /\ t.outbound_stream_.bytes_popped_ \in Nat
      /\ u.outbound_stream_.bytes_popped_ \in Nat
  BY <1>1, SendsNumbers
<1>3. Grows(x, t) /\ Grows(t, u)
  BY DEF Speaks
<1>4. Grows(x, u)
  BY <1>2, <1>3 DEF Grows
<1>5. QED
  BY <1>1, <1>4 DEF Speaks

LEMMA SpeaksFirst ==
  ASSUME NEW c, NEW d, Ways(c, d), NEW x, Sends(c, x)
  PROVE  Speaks(c, x, x)
BY SendsNumbers DEF Speaks, SameEars, Grows

\* push, of a peer.
LEMMA PeerPush ==
  ASSUME NEW c, NEW d, Ways(c, d), NEW x, Sends(c, x), NEW t, t = TCPPeer_push(x)
  PROVE  /\ Speaks(c, x, t)
         /\ t.need_send_ = x.need_send_
         /\ Exhausted(t.sender_, t.outbound_stream_)
         /\ Len(x.sender_.m_send_queue_) <= Len(t.sender_.m_send_queue_)
         /\ Exhausted(x.sender_, x.outbound_stream_) =>
              t.sender_.m_send_queue_ = x.sender_.m_send_queue_
<1>1. PICK s, o : s = x.sender_ /\ o = x.outbound_stream_
  OBVIOUS
<1>2. PICK r : r = TCPSender_push(s, o)
  OBVIOUS
<1>3. Direction(c) /\ Consistent(c, s, o)
  BY <1>1 DEF Ways, Sends
<1>4. /\ Consistent(c, r.sender, r.outbound) /\ Pushed(s, r.sender)
      /\ Used(s, o) <= Used(r.sender, r.outbound)
  BY <1>2, <1>3, PushIsConsistent
<1>5. /\ Onward(s, o, r.sender, r.outbound)
      /\ Exhausted(r.sender, r.outbound)
      /\ Exhausted(s, o) => r.sender.m_send_queue_ = s.m_send_queue_
  BY <1>2, <1>3, PushLeaves
<1>6. /\ t.sender_ = r.sender /\ t.outbound_stream_ = r.outbound
      /\ DOMAIN t = PeerFields /\ SameEars(x, t) /\ t.need_send_ = x.need_send_
  <2>1. t = [x EXCEPT !.sender_ = r.sender, !.outbound_stream_ = r.outbound]
    BY <1>1, <1>2 DEF TCPPeer_push, push_result
  <2>2. DOMAIN x = PeerFields
    BY DEF Sends
  <2>3. QED
    BY <2>1, <2>2 DEF PeerFields, SameEars
<1>7. Runs(r.sender.m_retransmission_timer_, DOMAIN r.sender.m_outstanding_messages_,
           r.sender.m_send_queue_)
  <2>1. Runs(s.m_retransmission_timer_, DOMAIN s.m_outstanding_messages_, s.m_send_queue_)
    BY <1>1 DEF Sends
  <2>2. QED
    BY <1>4, <2>1 DEF Runs, Pushed
<1>8. r.outbound.error_ = FALSE /\ x.need_send_ \in BOOLEAN
  BY <1>1, <1>5 DEF Onward, Sends
<1>9. Sends(c, t)
  BY <1>4, <1>6, <1>7, <1>8 DEF Sends
<1>10. Grows(x, t)
  BY <1>1, <1>4, <1>5, <1>6 DEF Grows, Onward, UsedBy
<1>11. t.sender_.m_window_left = x.sender_.m_window_left
  BY <1>1, <1>4, <1>6 DEF Pushed
<1>12. QED
  BY <1>1, <1>5, <1>6, <1>9, <1>10, <1>11 DEF Speaks, Onward

\* Which acknowledgment goes out is the receiver's business alone.
LEMMA SameAck ==
  ASSUME NEW x, NEW t, SameEars(x, t)
  PROVE  /\ has_ackno(t) <=> has_ackno(x)
         /\ our_ackno(t) = our_ackno(x)
         /\ AckOf(t) = AckOf(x)
<1>1. our_ackno(t) = our_ackno(x)
  BY DEF SameEars, our_ackno
<1>2. (has_ackno(t) <=> has_ackno(x)) /\ absolute_ackno(t.inbound_stream_) = absolute_ackno(x.inbound_stream_)
  BY <1>1 DEF SameEars, has_ackno
<1>3. QED
  BY <1>1, <1>2 DEF AckOf

\* And is a number of the other direction that has arrived.
LEMMA AnswerIsSound ==
  ASSUME NEW c, NEW d, Ways(c, d), NEW y, Sends(d, y), NEW x, Hears(d, y, x),
         NEW msg, msg = TCPReceiver_send(x.receiver_, x.inbound_stream_)
  PROVE  msg \in [ackno : {{}} \cup {{Wrap32_wrap(n, d.isn)} : n \in 0 .. AckOf(x)},
                  window_size : Nat]
<1>1. msg = [ackno |-> our_ackno(x),
             window_size |-> Least(Writer_available_capacity(x.inbound_stream_), UINT16_MAX)]
  BY DEF TCPReceiver_send, our_ackno
<1>2. Least(Writer_available_capacity(x.inbound_stream_), UINT16_MAX) \in Nat
  BY HeardNumbers, WindowAssumption DEF Least
<1>3. our_ackno(x) \in {{}} \cup {{Wrap32_wrap(n, d.isn)} : n \in 0 .. AckOf(x)}
  <2>1. CASE ~x.receiver_.m_syn_rcvd
    BY <2>1, AckProperties
  <2>2. CASE x.receiver_.m_syn_rcvd
    <3>1. our_ackno(x) = {Wrap32_wrap(AckOf(x), d.isn)}
      BY <2>2, AckProperties, AckBelow
    <3>2. AckOf(x) \in 0 .. AckOf(x)
      BY AckBelow
    <3>3. QED
      BY <3>1, <3>2
  <2>3. QED
    BY <2>1, <2>2
<1>4. QED
  BY <1>1, <1>2, <1>3

LEMMA OneElement ==
  ASSUME NEW S, NEW e \in S
  PROVE  <<e>> \in Seq(S)
OBVIOUS

\* maybe_send, after push: an empty segment, or none.
LEMMA TakeEmpty ==
  ASSUME NEW h, h.sender_.m_send_queue_ = <<>>, NEW msg, NEW r, r = take_segment(h, msg),
         (h.outbound_stream_.error_ \/ h.inbound_stream_.error_) = FALSE
  PROVE  /\ r.peer = [h EXCEPT !.sender_ = h.sender_, !.need_send_ = FALSE]
         /\ r.segments \in {<<>>, <<TCPSegment(send_empty_message(h.sender_), msg, FALSE)>>}
<1>1. r.peer = [h EXCEPT !.sender_ = @, !.need_send_ = FALSE]
  BY DEF take_segment
<1>2. r.segments = IF h.need_send_
                   THEN <<TCPSegment(send_empty_message(h.sender_), msg, FALSE)>> ELSE <<>>
  BY DEF take_segment
<1>3. QED
  BY <1>1, <1>2

LEMMA TakeQueued ==
  ASSUME NEW h, h.sender_.m_send_queue_ # <<>>, NEW msg, NEW r, r = take_segment(h, msg),
         (h.outbound_stream_.error_ \/ h.inbound_stream_.error_) = FALSE
  PROVE  /\ r.peer = [h EXCEPT !.sender_ = maybe_send(h.sender_), !.need_send_ = FALSE]
         /\ r.segments = <<TCPSegment(maybe_send_message(h.sender_), msg, FALSE)>>
BY DEF take_segment

LEMMA QueueShortens ==
  ASSUME NEW c, Direction(c), NEW s, NEW o, Consistent(c, s, o), s.m_send_queue_ # <<>>,
         NEW u, u = maybe_send(s)
  PROVE  /\ Consistent(c, u, o) /\ Used(u, o) = Used(s, o)
         /\ SameNumbers(s, u)
         /\ Len(u.m_send_queue_) = Len(s.m_send_queue_) - 1
         /\ Runs(u.m_retransmission_timer_, DOMAIN u.m_outstanding_messages_, u.m_send_queue_)
         /\ maybe_send_message(s) \in Sendable(c, Used(s, o))
<1>1. Consistent(c, u, o) /\ Used(u, o) = Used(s, o) /\ SameNumbers(s, u)
  BY MaybeSendIsConsistent
<1>2. Len(u.m_send_queue_) = Len(s.m_send_queue_) - 1
  BY MaybeSendIsConsistent
<1>3. Runs(u.m_retransmission_timer_, DOMAIN u.m_outstanding_messages_, u.m_send_queue_)
  BY MaybeSendIsConsistent
<1>4. maybe_send_message(s) \in Sendable(c, Used(s, o))
  BY MaybeSendIsConsistent
<1>5. QED
  BY <1>1, <1>2, <1>3, <1>4

\* The messages x has for the other end, and its answer.
Messages(c, used) ==
  Sendable(c, used) \cup
    {TCPSenderMessage(Wrap32_wrap(n, c.isn), FALSE, <<>>, FALSE) : n \in 0 .. used}

Answers(d, ack) ==
  [ackno : {{}} \cup {{Wrap32_wrap(n, d.isn)} : n \in 0 .. ack}, window_size : Nat]

LEMMA OneSegment ==
  ASSUME NEW c, NEW d, NEW used, NEW ack,
         NEW m \in Messages(c, used), NEW msg \in Answers(d, ack)
  PROVE  <<TCPSegment(m, msg, FALSE)>> \in Seq(Segments(c, d, used, ack))
<1>1. TCPSegment(m, msg, FALSE) \in Segments(c, d, used, ack)
  BY Zenon DEF TCPSegment, Segments, Messages, Answers
<1>2. QED
  BY <1>1, OneElement

\* t has one message less in its queue than h, if h has one.
Shortened(h, t) ==
  /\ Len(h.sender_.m_send_queue_) \in Nat
  /\ Len(t.sender_.m_send_queue_) = Most(Len(h.sender_.m_send_queue_) - 1, 0)

\* The call of maybe_send takes the first message of the queue.
LEMMA TakeSegment ==
  ASSUME NEW c, NEW d, Ways(c, d), NEW h, Sends(c, h), h.inbound_stream_.error_ = FALSE,
         NEW ack, NEW msg \in Answers(d, ack),
         NEW r, r = take_segment(h, msg), NEW t, t = r.peer
  PROVE  /\ Speaks(c, h, t)
         /\ Exhausted(h.sender_, h.outbound_stream_) => Exhausted(t.sender_, t.outbound_stream_)
         /\ Shortened(h, t)
         /\ r.segments \in Seq(Segments(c, d, UsedBy(t), ack))
<1>1. PICK s, o : s = h.sender_ /\ o = h.outbound_stream_
  OBVIOUS
<1>2. /\ DOMAIN h = PeerFields /\ Direction(c) /\ Consistent(c, s, o) /\ h.need_send_ \in BOOLEAN
      /\ (h.outbound_stream_.error_ \/ h.inbound_stream_.error_) = FALSE
  BY <1>1 DEF Sends, Ways
<1>3. /\ Len(s.m_send_queue_) \in Nat /\ UsedBy(h) \in Nat /\ UsedBy(h) = Used(s, o)
      /\ get_absolute_seqno(s) = UsedBy(h)
      /\ h.outbound_stream_.bytes_popped_ \in Nat
      /\ s.m_send_queue_ \in Seq(Sendable(c, UsedBy(h)))
  BY <1>1, SendsNumbers DEF UsedBy
<1>4. CASE s.m_send_queue_ = <<>>
  <2>1. /\ t = [h EXCEPT !.sender_ = s, !.need_send_ = FALSE]
        /\ r.segments \in {<<>>, <<TCPSegment(send_empty_message(s), msg, FALSE)>>}
    BY <1>1, <1>2, <1>4, TakeEmpty
  <2>2. /\ t.sender_ = s /\ t.outbound_stream_ = o /\ t.need_send_ = FALSE
        /\ DOMAIN t = PeerFields /\ SameEars(h, t)
    BY <1>1, <1>2, <2>1 DEF PeerFields, SameEars
  <2>3. Sends(c, t)
    BY <1>1, <1>2, <2>2 DEF Sends
  <2>4. Speaks(c, h, t) /\ UsedBy(t) = UsedBy(h)
    BY <1>1, <1>3, <2>2, <2>3 DEF Speaks, Grows, UsedBy
  <2>5. r.segments \in Seq(Segments(c, d, UsedBy(t), ack))
    <3>1. UsedBy(h) \in 0 .. UsedBy(h)
      BY <1>3
    <3>2. send_empty_message(s) = TCPSenderMessage(Wrap32_wrap(UsedBy(h), c.isn), FALSE, <<>>, FALSE)
      BY <1>2, <1>3 DEF send_empty_message, Consistent
    <3>3. send_empty_message(s) \in Messages(c, UsedBy(h))
      BY <3>1, <3>2 DEF Messages
    <3>4. <<TCPSegment(send_empty_message(s), msg, FALSE)>> \in Seq(Segments(c, d, UsedBy(h), ack))
      BY <3>3, OneSegment
    <3>5. <<>> \in Seq(Segments(c, d, UsedBy(h), ack))
      OBVIOUS
    <3>6. QED
      BY <2>1, <2>4, <3>4, <3>5
  <2>6. Len(t.sender_.m_send_queue_) = 0 /\ Len(s.m_send_queue_) = 0
    BY <1>4, <2>2
  <2>7. QED
    BY <1>1, <2>2, <2>4, <2>5, <2>6 DEF Most, Shortened
<1>5. CASE s.m_send_queue_ # <<>>
  <2>1. PICK u : u = maybe_send(s)
    OBVIOUS
  <2>2. /\ Consistent(c, u, o) /\ Used(u, o) = Used(s, o)
        /\ SameNumbers(s, u)
        /\ Len(u.m_send_queue_) = Len(s.m_send_queue_) - 1
        /\ Runs(u.m_retransmission_timer_, DOMAIN u.m_outstanding_messages_, u.m_send_queue_)
        /\ maybe_send_message(s) \in Sendable(c, Used(s, o))
    <3>1. Direction(c) /\ Consistent(c, s, o)
      BY <1>2
    <3>2. Consistent(c, u, o) /\ Used(u, o) = Used(s, o) /\ SameNumbers(s, u)
      BY <1>5, <2>1, <3>1, QueueShortens
    <3>3. Len(u.m_send_queue_) = Len(s.m_send_queue_) - 1
      BY <1>5, <2>1, <3>1, QueueShortens
    <3>4. Runs(u.m_retransmission_timer_, DOMAIN u.m_outstanding_messages_, u.m_send_queue_)
      BY <1>5, <2>1, <3>1, QueueShortens
    <3>5. maybe_send_message(s) \in Sendable(c, Used(s, o))
      BY <1>5, <2>1, <3>1, QueueShortens
    <3>6. QED
      BY <3>2, <3>3, <3>4, <3>5
  <2>3. /\ t = [h EXCEPT !.sender_ = u, !.need_send_ = FALSE]
        /\ r.segments = <<TCPSegment(maybe_send_message(s), msg, FALSE)>>
    <3>1. /\ r.peer = [h EXCEPT !.sender_ = maybe_send(h.sender_), !.need_send_ = FALSE]
          /\ r.segments = <<TCPSegment(maybe_send_message(h.sender_), msg, FALSE)>>
      <4>1. h.sender_.m_send_queue_ # <<>>
        BY <1>1, <1>5
      <4>2. QED
        BY <1>2, <4>1, TakeQueued, Zenon
    <3>2. QED
      BY <1>1, <2>1, <3>1
  <2>4. /\ t.sender_ = u /\ t.outbound_stream_ = o /\ t.need_send_ = FALSE
        /\ DOMAIN t = PeerFields /\ SameEars(h, t)
    BY <1>1, <1>2, <2>3 DEF PeerFields, SameEars
  <2>5. Sends(c, t)
    BY <1>1, <1>2, <2>2, <2>4 DEF Sends
  <2>6. Speaks(c, h, t) /\ UsedBy(t) = UsedBy(h)
    BY <1>1, <1>3, <2>2, <2>4, <2>5 DEF Speaks, Grows, UsedBy, SameNumbers
  <2>7. r.segments \in Seq(Segments(c, d, UsedBy(t), ack))
    <3>1. maybe_send_message(s) \in Messages(c, UsedBy(h))
      BY <1>3, <2>2 DEF Messages
    <3>2. <<TCPSegment(maybe_send_message(s), msg, FALSE)>> \in Seq(Segments(c, d, UsedBy(h), ack))
      BY <3>1, OneSegment
    <3>3. QED
      BY <2>3, <2>6, <3>2
  <2>8. Exhausted(s, o) => Exhausted(u, o)
    BY <2>2 DEF Exhausted, SameNumbers, window_right
  <2>9. Len(s.m_send_queue_) - 1 >= 0
    BY <1>3, <1>5, EmptySeq
  <2>10. QED
    BY <1>1, <1>3, <2>2, <2>4, <2>6, <2>7, <2>8, <2>9 DEF Most, Shortened
<1>6. QED
  BY <1>4, <1>5

\* maybe_send, whole: one segment less to send, or none.
LEMMA SendSegment ==
  ASSUME NEW c, NEW d, Ways(c, d), NEW y, Sends(d, y), NEW x, Hears(d, y, x), Sends(c, x),
         NEW h, h = IF has_ackno(x) THEN TCPPeer_push(x) ELSE x,
         NEW r, r = maybe_send_segment(x), NEW t, t = r.peer
  PROVE  /\ Speaks(c, x, t)
         /\ has_ackno(x) => Exhausted(t.sender_, t.outbound_stream_)
         /\ Shortened(h, t)
         /\ r.segments \in Seq(Segments(c, d, UsedBy(t), AckOf(x)))
<1>1. Speaks(c, x, h) /\ (has_ackno(x) => Exhausted(h.sender_, h.outbound_stream_))
  BY PeerPush, SpeaksFirst
<1>2. PICK msg : msg = TCPReceiver_send(x.receiver_, x.inbound_stream_)
  OBVIOUS
<1>3. r = take_segment(h, msg)
  BY <1>2 DEF maybe_send_segment
<1>4. msg \in Answers(d, AckOf(x))
  BY <1>2, AnswerIsSound DEF Answers
<1>5. Sends(c, h) /\ h.inbound_stream_.error_ = FALSE
  BY <1>1 DEF Speaks, SameEars, Hears
<1>6. /\ Speaks(c, h, t)
      /\ Exhausted(h.sender_, h.outbound_stream_) => Exhausted(t.sender_, t.outbound_stream_)
      /\ Shortened(h, t)
      /\ r.segments \in Seq(Segments(c, d, UsedBy(t), AckOf(x)))
  <2>1. /\ Speaks(c, h, t)
        /\ Exhausted(h.sender_, h.outbound_stream_) => Exhausted(t.sender_, t.outbound_stream_)
    BY <1>3, <1>4, <1>5, TakeSegment
  <2>2. Shortened(h, t)
    BY <1>3, <1>4, <1>5, TakeSegment
  <2>3. r.segments \in Seq(Segments(c, d, UsedBy(t), AckOf(x)))
    BY <1>3, <1>4, <1>5, TakeSegment
  <2>4. QED
    BY <2>1, <2>2, <2>3
<1>7. Speaks(c, x, t)
  BY <1>1, <1>6, SpeaksOn
<1>8. QED
  BY <1>1, <1>6, <1>7

\* The loop of collect_segments, call by call: what it has after call k is f[k].
next_call(r) == add_segments(r.segments, maybe_send_segment(r.peer))

Calls(f, n, base) ==
  /\ f[0] = base
  /\ \A k \in 1 .. n : f[k] = next_call(f[k - 1])

LEMMA CallsExist ==
  ASSUME NEW n \in Nat, NEW base
  PROVE  \E f : Calls(f, n, base)
<1> DEFINE T == {k \in Nat : ~ \E f : Calls(f, k, base)}
<1>1. SUFFICES ASSUME T # {} PROVE FALSE
  OBVIOUS
<1>2. PICK k \in T : \A j \in T : k <= j
  <2>1. T \in SUBSET Nat
    OBVIOUS
  <2> HIDE DEF T
  <2>2. QED
    BY <1>1, <2>1, MinProperties
<1>3. k \in Nat /\ ~ \E f : Calls(f, k, base)
  OBVIOUS
<1>4. k # 0
  <2>1. SUFFICES ASSUME k = 0 PROVE FALSE
    OBVIOUS
  <2>2. PICK f : f = [i \in {0} |-> base]
    OBVIOUS
  <2>3. Calls(f, 0, base)
    BY <2>2 DEF Calls
  <2>4. QED
    BY <1>3, <2>1, <2>3
<1>5. k - 1 \in Nat /\ ~(k <= k - 1)
  BY <1>3, <1>4
<1>6. k - 1 \notin T
  BY <1>2, <1>5
<1>7. PICK f : Calls(f, k - 1, base)
  BY <1>5, <1>6
<1>8. PICK g : g = [i \in 0 .. k |-> IF i = k THEN next_call(f[k - 1]) ELSE f[i]]
  OBVIOUS
<1>9. Calls(g, k, base)
  <2>1. g[0] = base
    BY <1>3, <1>4, <1>7, <1>8 DEF Calls
  <2>2. ASSUME NEW i \in 1 .. k
        PROVE  g[i] = next_call(g[i - 1])
    <3>1. i - 1 \in 0 .. k /\ i - 1 # k /\ i \in 0 .. k
      BY <1>3, <2>2
    <3>2. g[i - 1] = f[i - 1]
      BY <1>8, <3>1
    <3>3. CASE i = k
      BY <1>8, <3>1, <3>2, <3>3
    <3>4. CASE i # k
      <4>1. i \in 1 .. k - 1
        BY <1>3, <2>2, <3>4
      <4>2. f[i] = next_call(f[i - 1])
        BY <1>7, <4>1 DEF Calls
      <4>3. g[i] = f[i]
        BY <1>8, <3>1, <3>4
      <4>4. QED
        BY <3>2, <4>2, <4>3
    <3>5. QED
      BY <3>3, <3>4
  <2>3. QED
    BY <2>1, <2>2 DEF Calls
<1>10. QED
  BY <1>3, <1>9

\* The fold makes that many calls, whatever it chooses first.
LEMMA CallsInTurn ==
  ASSUME NEW n \in Nat, NEW base, NEW f, Calls(f, n, base)
  PROVE  FoldSet(LAMBDA call, collected :
                   add_segments(collected.segments, maybe_send_segment(collected.peer)),
                 base, 1 .. n) = f[n]
<1> DEFINE S == 1 .. n
           first(s) == CHOOSE x \in s : TRUE
           Makes(g) == g = [s \in SUBSET S |->
                              IF s = {} THEN base ELSE next_call(g[s \ {first(s)}])]
           iter == CHOOSE g : Makes(g)
           total == [s \in SUBSET S |-> f[Cardinality(s)]]
<1>1. ASSUME NEW s \in SUBSET S
      PROVE  /\ Cardinality(s) \in Nat /\ Cardinality(s) <= n
             /\ s # {} => /\ first(s) \in s
                          /\ Cardinality(s) \in 1 .. n
                          /\ s \ {first(s)} \in SUBSET S
                          /\ Cardinality(s \ {first(s)}) = Cardinality(s) - 1
  <2>1. IsFiniteSet(S) /\ Cardinality(S) = n
    <3>1. IsFiniteSet(1 .. n) /\ Cardinality(1 .. n) = IF 1 > n THEN 0 ELSE n - 1 + 1
      BY FS_Interval
    <3>2. QED
      BY <3>1
  <2> HIDE DEF S
  <2>2. IsFiniteSet(s) /\ Cardinality(s) \in Nat /\ Cardinality(s) <= n
    BY <2>1, FS_Subset, FS_CardinalityType
  <2>3. ASSUME s # {}
        PROVE  first(s) \in s /\ Cardinality(s \ {first(s)}) = Cardinality(s) - 1
    <3>1. first(s) \in s
      BY <2>3
    <3>2. Cardinality(s \ {first(s)}) =
            IF first(s) \in s THEN Cardinality(s) - 1 ELSE Cardinality(s)
      <4> HIDE DEF first
      <4>1. QED
        BY <2>2, FS_RemoveElement
    <3>3. QED
      BY <3>1, <3>2
  <2>4. s # {} => Cardinality(s) # 0
    BY <2>2, FS_EmptySet
  <2>5. QED
    BY <2>2, <2>3, <2>4
<1>2. Makes(total)
  <2>1. \A s \in SUBSET S :
          total[s] = IF s = {} THEN base ELSE next_call(total[s \ {first(s)}])
    <3>1. SUFFICES ASSUME NEW s \in SUBSET S
                   PROVE  total[s] = IF s = {} THEN base ELSE next_call(total[s \ {first(s)}])
      OBVIOUS
    <3>2. CASE s = {}
      <4>1. total[s] = f[0]
        BY <3>2, FS_EmptySet
      <4>2. QED
        BY <3>2, <4>1 DEF Calls
    <3>3. CASE s # {}
      <4>1. PICK k \in 1 .. n : k = Cardinality(s) /\ k - 1 = Cardinality(s \ {first(s)})
        BY <1>1, <3>3
      <4>2. f[k] = next_call(f[k - 1])
        BY <4>1 DEF Calls
      <4>3. s \ {first(s)} \in SUBSET S
        BY <1>1, <3>3
      <4>4. total[s] = f[k] /\ total[s \ {first(s)}] = f[k - 1]
        BY <4>1, <4>3
      <4>5. QED
        BY <3>3, <4>2, <4>4
    <3>4. QED
      BY <3>2, <3>3
  <2>2. total = [s \in SUBSET S |-> total[s]]
    OBVIOUS
  <2>3. total = [s \in SUBSET S |->
                   IF s = {} THEN base ELSE next_call(total[s \ {first(s)}])]
    <3> HIDE DEF total, first, S
    <3>1. QED
      BY <2>1, <2>2
  <2>4. QED
    BY <2>3
<1>3. Makes(iter)
  <2> HIDE DEF Makes, total
  <2>1. QED
    BY <1>2
<1>4. \A s \in SUBSET S : iter[s] = total[s]
  <2> HIDE DEF iter
  <2> DEFINE C == {s \in SUBSET S : iter[s] # total[s]}
             N == {Cardinality(s) : s \in C}
  <2>1. SUFFICES ASSUME C # {} PROVE FALSE
    OBVIOUS
  <2>2. N \in SUBSET Nat /\ N # {}
    <3>1. \A s \in SUBSET S : Cardinality(s) \in Nat
      BY <1>1
    <3>2. \A s \in C : s \in SUBSET S
      OBVIOUS
    <3> HIDE DEF C, S
    <3>3. QED
      BY <2>1, <3>1, <3>2
  <2>3. PICK m \in N : \A j \in N : m <= j
    <3> HIDE DEF N
    <3>1. QED
      BY <2>2, MinProperties
  <2>4. PICK u \in C : m = Cardinality(u)
    OBVIOUS
  <2>5. u \in SUBSET S /\ iter[u] # total[u]
    OBVIOUS
  <2>6. iter[u] = IF u = {} THEN base ELSE next_call(iter[u \ {first(u)}])
    <3> HIDE DEF first, total, S
    <3>1. QED
      BY <1>3, <2>5
  <2>7. total[u] = IF u = {} THEN base ELSE next_call(total[u \ {first(u)}])
    <3> HIDE DEF first, total, S
    <3>1. QED
      BY <1>2, <2>5
  <2>8. u # {} /\ iter[u \ {first(u)}] # total[u \ {first(u)}]
    <3> HIDE DEF first, total, S, C
    <3>1. QED
      BY <2>5, <2>6, <2>7
  <2>9. PICK v : v = u \ {first(u)}
    OBVIOUS
  <2>10. v \in SUBSET S /\ Cardinality(v) = Cardinality(u) - 1 /\ Cardinality(u) \in Nat
    BY <1>1, <2>5, <2>8, <2>9
  <2>11. Cardinality(v) \in N
    <3>1. v \in C
      BY <2>8, <2>9, <2>10
    <3> HIDE DEF C
    <3>2. QED
      BY <3>1
  <2>12. Cardinality(u) <= Cardinality(v)
    BY <2>3, <2>4, <2>11
  <2>13. QED
    BY <2>10, <2>12
<1>5. FoldSet(LAMBDA call, collected :
                add_segments(collected.segments, maybe_send_segment(collected.peer)),
              base, 1 .. n) = iter[S]
  BY DEF FoldSet, MapThenFoldSet, next_call
<1>6. S \in SUBSET S /\ Cardinality(S) = n
  <2>1. Cardinality(1 .. n) = IF 1 > n THEN 0 ELSE n - 1 + 1
    BY FS_Interval
  <2>2. QED
    BY <2>1
<1>7. total[S] = f[n]
  BY <1>6
<1>8. QED
  BY <1>4, <1>5, <1>6, <1>7

\* After i calls on x: something was sent, and less of it is left with every
\* call behind the first.
Collected(c, d, x, i, r) ==
  /\ Speaks(c, x, r.peer)
  /\ r.segments \in Seq(Segments(c, d, UsedBy(r.peer), AckOf(x)))
  /\ i = 0 => r.peer = x
  /\ i > 0 => /\ has_ackno(x) => Exhausted(r.peer.sender_, r.peer.outbound_stream_)
              /\ Len(r.peer.sender_.m_send_queue_) <=
                   Most(Len(TCPPeer_push(x).sender_.m_send_queue_) - i, 0)

\* A call that finds nothing new to push takes from the queue.
LEMMA NextCall ==
  ASSUME NEW c, NEW d, Ways(c, d), NEW y, Sends(d, y), NEW x, Hears(d, y, x), Sends(c, x),
         NEW i \in Nat, NEW r, Collected(c, d, x, i, r), NEW s, s = next_call(r)
  PROVE  Collected(c, d, x, i + 1, s)
<1>1. PICK u : u = r.peer
  OBVIOUS
<1>2. Speaks(c, x, u) /\ Sends(c, u) /\ SameEars(x, u)
  BY <1>1 DEF Collected, Speaks
<1>3. Hears(d, y, u)
  BY <1>2 DEF Hears, SameEars
<1>4. (has_ackno(u) <=> has_ackno(x)) /\ AckOf(u) = AckOf(x)
  BY <1>2, SameAck
<1>5. PICK h : h = IF has_ackno(u) THEN TCPPeer_push(u) ELSE u
  OBVIOUS
<1>6. PICK m, t : m = maybe_send_segment(u) /\ t = m.peer
  OBVIOUS
<1>7. /\ Speaks(c, u, t)
      /\ has_ackno(u) => Exhausted(t.sender_, t.outbound_stream_)
      /\ Shortened(h, t)
      /\ m.segments \in Seq(Segments(c, d, UsedBy(t), AckOf(u)))
  BY <1>2, <1>3, <1>5, <1>6, SendSegment
<1>8. s.peer = t /\ s.segments = r.segments \o m.segments
  BY <1>1, <1>6 DEF next_call, add_segments
<1>9. Speaks(c, x, t)
  BY <1>2, <1>7, SpeaksOn
<1>10. s.segments \in Seq(Segments(c, d, UsedBy(t), AckOf(x)))
  <2>1. UsedBy(u) \in Nat /\ UsedBy(t) \in Nat /\ UsedBy(u) <= UsedBy(t) /\ AckOf(x) \in Nat
    BY <1>2, <1>7, SendsNumbers, AckBelow DEF Speaks, Grows
  <2>2. Segments(c, d, UsedBy(u), AckOf(x)) \in SUBSET Segments(c, d, UsedBy(t), AckOf(x))
    BY <2>1, SegmentsGrow
  <2>3. r.segments \in Seq(Segments(c, d, UsedBy(u), AckOf(x)))
    BY <1>1 DEF Collected
  <2>4. r.segments \in Seq(Segments(c, d, UsedBy(t), AckOf(x)))
    BY <2>2, <2>3
  <2>5. m.segments \in Seq(Segments(c, d, UsedBy(t), AckOf(x)))
    BY <1>4, <1>7
  <2>6. QED
    BY <1>8, <2>4, <2>5
<1>11. PICK left \in Nat, first \in Nat, old \in Nat, new \in Nat :
         /\ left = Len(t.sender_.m_send_queue_) /\ first = Len(TCPPeer_push(x).sender_.m_send_queue_)
         /\ old = Len(u.sender_.m_send_queue_) /\ new = Len(h.sender_.m_send_queue_)
         /\ left = Most(new - 1, 0)
  <2>1. Sends(c, TCPPeer_push(x)) /\ Sends(c, h) /\ Sends(c, t)
    BY <1>2, <1>5, <1>7, PeerPush DEF Speaks
  <2>2. /\ Len(t.sender_.m_send_queue_) \in Nat
        /\ Len(TCPPeer_push(x).sender_.m_send_queue_) \in Nat
        /\ Len(u.sender_.m_send_queue_) \in Nat
        /\ Len(h.sender_.m_send_queue_) \in Nat
    BY <1>2, <2>1, SendsNumbers
  <2>3. QED
    BY <1>7, <2>2 DEF Shortened
<1>12. new <= (IF i = 0 THEN first ELSE Most(first - i, 0))
  <2>1. CASE i = 0
    <3>1. u = x /\ Len(x.sender_.m_send_queue_) <= first
      BY <1>1, <1>11, <2>1, PeerPush DEF Collected
    <3>2. QED
      BY <1>5, <1>11, <2>1, <3>1
  <2>2. CASE i # 0
    <3>1. old <= Most(first - i, 0)
      BY <1>1, <1>11, <2>2 DEF Collected
    <3>2. new = old
      <4>1. CASE has_ackno(u)
        <5>1. Exhausted(u.sender_, u.outbound_stream_)
          BY <1>1, <1>4, <2>2, <4>1 DEF Collected
        <5>2. h.sender_.m_send_queue_ = u.sender_.m_send_queue_
          BY <1>2, <1>5, <4>1, <5>1, PeerPush
        <5>3. QED
          BY <1>11, <5>2
      <4>2. CASE ~has_ackno(u)
        BY <1>5, <1>11, <4>2
      <4>3. QED
        BY <4>1, <4>2
    <3>3. QED
      BY <2>2, <3>1, <3>2
  <2>3. QED
    BY <2>1, <2>2
<1>13. left <= Most(first - (i + 1), 0)
  BY <1>11, <1>12 DEF Most
<1>14. QED
  BY <1>4, <1>7, <1>8, <1>9, <1>10, <1>11, <1>13 DEF Collected

LEMMA AfterCalls ==
  ASSUME NEW c, NEW d, Ways(c, d), NEW y, Sends(d, y), NEW x, Hears(d, y, x), Sends(c, x),
         NEW n \in Nat, NEW f, Calls(f, n, [peer |-> x, segments |-> <<>>])
  PROVE  Collected(c, d, x, n, f[n])
<1> DEFINE T == {k \in 0 .. n : ~Collected(c, d, x, k, f[k])}
<1>1. SUFFICES ASSUME T # {} PROVE FALSE
  <2>1. n \in 0 .. n
    OBVIOUS
  <2>2. QED
    BY <1>1, <2>1
<1>2. PICK k \in T : \A j \in T : k <= j
  <2>1. T \in SUBSET Nat
    OBVIOUS
  <2> HIDE DEF T
  <2>2. QED
    BY <1>1, <2>1, MinProperties
<1>3. k \in 0 .. n /\ ~Collected(c, d, x, k, f[k])
  OBVIOUS
<1>4. CASE k = 0
  <2>1. PICK r : r = f[0] /\ r.peer = x /\ r.segments = <<>>
    BY DEF Calls
  <2>2. Collected(c, d, x, 0, r)
    BY <2>1, SpeaksFirst DEF Collected
  <2>3. QED
    BY <1>3, <1>4, <2>1, <2>2
<1>5. CASE k # 0
  <2>1. k \in 1 .. n /\ k - 1 \in Nat /\ k - 1 \in 0 .. n /\ (k - 1) + 1 = k /\ ~(k <= k - 1)
    BY <1>3, <1>5
  <2>2. Collected(c, d, x, k - 1, f[k - 1])
    BY <1>2, <2>1
  <2>3. f[k] = next_call(f[k - 1])
    BY <2>1 DEF Calls
  <2>4. Collected(c, d, x, (k - 1) + 1, f[k])
    BY <2>1, <2>2, <2>3, NextCall
  <2>5. QED
    BY <1>3, <2>1, <2>4
<1>6. QED
  BY <1>4, <1>5

\* collect_segments, whole, and the counter that is not counted.
LEMMA CollectSegments ==
  ASSUME NEW c, NEW d, Ways(c, d), NEW y, Sends(d, y), NEW x, Hears(d, y, x), Sends(c, x),
         NEW r, r = collect_segments(x),
         NEW t, t = [r.peer EXCEPT !.sender_.m_consecutive_retransmissions = 0]
  PROVE  /\ Speaks(c, x, t)
         /\ Rests(t)
         /\ Range(r.segments) \in SUBSET Segments(c, d, UsedBy(t), AckOf(x))
<1>1. PICK first \in Nat : first = Len(TCPPeer_push(x).sender_.m_send_queue_)
  BY PeerPush, SendsNumbers DEF Speaks
<1>2. PICK n \in Nat : n = first + 2
  OBVIOUS
<1>3. PICK f : Calls(f, n, [peer |-> x, segments |-> <<>>])
  BY CallsExist
<1>4. r = f[n]
  BY <1>1, <1>2, <1>3, CallsInTurn DEF collect_segments
<1>5. Collected(c, d, x, n, r)
  BY <1>3, <1>4, AfterCalls
<1>6. PICK u : u = r.peer
  OBVIOUS
<1>7. /\ Speaks(c, x, u) /\ Sends(c, u)
      /\ has_ackno(x) => Exhausted(u.sender_, u.outbound_stream_)
      /\ r.segments \in Seq(Segments(c, d, UsedBy(u), AckOf(x)))
  BY <1>2, <1>5, <1>6 DEF Collected, Speaks
<1>8. u.sender_.m_send_queue_ = <<>>
  <2>1. Len(u.sender_.m_send_queue_) <= Most(first - n, 0)
    BY <1>1, <1>2, <1>5, <1>6 DEF Collected
  <2>2. Most(first - n, 0) = 0
    BY <1>2 DEF Most
  <2>3. Len(u.sender_.m_send_queue_) = 0
    BY <1>7, <2>1, <2>2, SendsNumbers
  <2>4. u.sender_.m_send_queue_ \in Seq(Sendable(c, UsedBy(u)))
    BY <1>7, SendsNumbers
  <2>5. QED
    BY <2>3, <2>4, EmptySeq
<1>9. PICK s : s = [u.sender_ EXCEPT !.m_consecutive_retransmissions = 0]
  OBVIOUS
<1>10. /\ DOMAIN u = PeerFields
       /\ Direction(c) /\ Consistent(c, u.sender_, u.outbound_stream_) /\ DOMAIN u.sender_ = Fields
  BY <1>7 DEF Sends, Consistent, Ways
<1>11. /\ DOMAIN t = PeerFields /\ SameEars(u, t) /\ t.need_send_ = u.need_send_
       /\ t.sender_ = s /\ t.outbound_stream_ = u.outbound_stream_
  BY <1>6, <1>9, <1>10 DEF PeerFields, SameEars
<1>12. /\ SameNumbers(u.sender_, s) /\ s.m_send_queue_ = u.sender_.m_send_queue_
       /\ s.m_retransmission_timer_ = u.sender_.m_retransmission_timer_
  BY <1>9, <1>10 DEF Fields, SameNumbers
<1>13. Consistent(c, s, t.outbound_stream_) /\ UsedBy(t) = UsedBy(u)
  <2>1. Requeued(c, u.sender_, u.outbound_stream_, s)
    BY <1>10, <1>12 DEF Requeued, Consistent
  <2>2. /\ Consistent(c, s, u.outbound_stream_)
        /\ Used(s, u.outbound_stream_) = Used(u.sender_, u.outbound_stream_)
    BY <1>10, <2>1, RequeuedIsConsistent
  <2>3. QED
    BY <1>11, <2>2 DEF UsedBy
<1>14. Sends(c, t)
  BY <1>7, <1>11, <1>12, <1>13 DEF Sends, SameNumbers
<1>15. Speaks(c, u, t)
  BY <1>7, <1>11, <1>12, <1>13, <1>14, SendsNumbers DEF Speaks, Grows, SameNumbers
<1>16. Speaks(c, x, t)
  BY <1>7, <1>15, SpeaksOn
<1>17. Rests(t)
  <2>1. has_ackno(t) <=> has_ackno(x)
    BY <1>16, SameAck DEF Speaks
  <2>2. Exhausted(u.sender_, u.outbound_stream_) => Exhausted(s, u.outbound_stream_)
    BY <1>11, <1>12, <1>13 DEF Exhausted, SameNumbers, window_right, UsedBy
  <2>3. QED
    BY <1>7, <1>8, <1>11, <1>12, <2>1, <2>2 DEF Rests
<1>18. Range(r.segments) \in SUBSET Segments(c, d, UsedBy(t), AckOf(x))
  <2>1. r.segments \in Seq(Segments(c, d, UsedBy(t), AckOf(x)))
    BY <1>7, <1>13
  <2>2. QED
    BY <2>1 DEF Range
<1>19. QED
  BY <1>16, <1>17, <1>18

(***************************************************************************)
(* receive.                                                                *)
(***************************************************************************)

\* Numbers were used only behind SYN, and FIN is behind everything.
LEMMA UsedNumbers ==
  ASSUME NEW c, NEW d, Ways(c, d), NEW y, Sends(d, y),
         NEW end \in Nat, 0 < end, end <= UsedBy(y)
  PROVE  /\ y.sender_.m_syc_pushed
         /\ end <= y.outbound_stream_.bytes_popped_ + 1 \/ y.sender_.m_fin_pushed
         /\ end <= y.outbound_stream_.bytes_popped_ + 2
         /\ y.sender_.m_fin_pushed => y.outbound_stream_.bytes_popped_ = Len(d.source)
<1>1. PICK n \in Nat, f \in 0 .. 1, g \in 0 .. 1 :
        /\ n = y.outbound_stream_.bytes_popped_
        /\ f = One(y.sender_.m_syc_pushed) /\ g = One(y.sender_.m_fin_pushed)
        /\ UsedBy(y) = f + n + g
  BY SentProperties DEF UsedBy, Used, One
<1>2. /\ ~y.sender_.m_syc_pushed => n = 0 /\ ~y.sender_.m_fin_pushed
      /\ y.sender_.m_fin_pushed => n = Len(d.source)
  BY <1>1 DEF Sends, Consistent
<1>3. y.sender_.m_syc_pushed
  <2>1. SUFFICES ASSUME ~y.sender_.m_syc_pushed PROVE FALSE
    OBVIOUS
  <2>2. f = 0 /\ g = 0 /\ n = 0
    BY <1>1, <1>2, <2>1 DEF One
  <2>3. QED
    BY <1>1, <2>2
<1>4. ~y.sender_.m_fin_pushed => g = 0
  BY <1>1 DEF One
<1>5. end <= n + 2 /\ (end <= n + 1 \/ g # 0)
  BY <1>1
<1>6. QED
  BY <1>1, <1>2, <1>3, <1>4, <1>5, Zenon

\* A message on the way to x, once it is known where the numbers begin, is a
\* stretch of what y has sent, at its place.
Placed(d, y, first, end, last) ==
  /\ end \in 0 .. Len(Sent(d, y)) /\ first \in 0 .. end
  /\ last \in BOOLEAN
  /\ last => end = Len(Sent(d, y)) /\ y.sender_.m_fin_pushed

LEMMA StretchArrives ==
  ASSUME NEW c, NEW d, Ways(c, d), NEW y, Sends(d, y), NEW x, Hears(d, y, x),
         NEW k \in Nat, NEW end \in Nat, k < end, end <= UsedBy(y),
         NEW m, m = Stretch(d, k, end)
  PROVE  /\ m.SYN => m.seqno = d.isn
         /\ y.sender_.m_syc_pushed
         /\ \E first, stop_at, last :
              /\ Placed(d, y, first, stop_at, last)
              /\ first_index(d.isn, m, x.inbound_stream_) = first
              /\ m.payload = Slice(Sent(d, y), first, stop_at)
              /\ m.FIN = last
<1>1. PICK L \in Nat, n \in Nat : /\ L = Len(d.source) /\ n = y.outbound_stream_.bytes_popped_
                                  /\ n = Len(Sent(d, y)) /\ n <= L
  BY SentProperties
<1>2. UsedBy(y) <= L + 2
  BY <1>1, AckBelow
<1>3. /\ y.sender_.m_syc_pushed
      /\ end <= n + 1 \/ y.sender_.m_fin_pushed
      /\ end <= n + 2
      /\ y.sender_.m_fin_pushed => n = L
  <2>1. 0 < end
    OBVIOUS
  <2>2. QED
    BY <1>1, <2>1, UsedNumbers, Zenon
<1>4. PICK a \in Nat, b \in Nat :
        /\ a = (IF k = 0 THEN 0 ELSE k - 1)
        /\ b = (IF end = L + 2 THEN L ELSE end - 1)
  <2>1. PICK a \in Nat : a = (IF k = 0 THEN 0 ELSE k - 1)
    OBVIOUS
  <2>2. PICK b \in Nat : b = (IF end = L + 2 THEN L ELSE end - 1)
    <3>1. end - 1 \in Nat
      OBVIOUS
    <3>2. QED
      BY <1>1, <3>1
  <2>3. QED
    BY <2>1, <2>2
<1>14. PICK last \in BOOLEAN : last <=> end = L + 2
  OBVIOUS
<1>5. a <= b /\ b <= n /\ (last => b = n /\ y.sender_.m_fin_pushed) /\ end <= L + 2
  <2>1. UsedBy(y) \in Nat
    BY AckBelow
  <2>2. end <= L + 2
    BY <1>1, <1>2, <2>1
  <2>3. a <= b /\ b <= n
    BY <1>1, <1>3, <1>4, <2>2
  <2>4. end = L + 2 => b = n /\ y.sender_.m_fin_pushed
    BY <1>1, <1>3, <1>4
  <2>5. QED
    BY <1>14, <2>2, <2>3, <2>4
<1>6. Most(k - 1, 0) = a /\ Least(end - 1, L) = b
  BY <1>1, <1>4, <1>5 DEF Most, Least
<1>7. m = [seqno |-> Wrap32_wrap(k, d.isn), SYN |-> k = 0, payload |-> Slice(d.source, a, b),
           FIN |-> last]
  <2>1. (end = L + 2) = last
    BY <1>14
  <2>2. m = [seqno |-> Wrap32_wrap(k, d.isn), SYN |-> k = 0, payload |-> Slice(d.source, a, b),
             FIN |-> end = L + 2]
    BY <1>1, <1>6 DEF Stretch, TCPSenderMessage
  <2>3. QED
    BY <2>1, <2>2
<1>8. Slice(d.source, a, b) = Slice(Sent(d, y), a, b)
  <2>1. d.source \in Seq(Nat)
    BY Constants DEF Ways
  <2>2. 0 + a = a /\ 0 + b = b /\ b <= n - 0 /\ 0 \in Nat /\ 0 <= n
    BY <1>5
  <2>3. Slice(Slice(d.source, 0, n), a, b) = Slice(d.source, 0 + a, 0 + b)
    BY <1>1, <1>5, <2>1, <2>2, SliceOfSlice
  <2>4. QED
    BY <1>1, <2>2, <2>3 DEF Sent
<1>9. m.SYN => m.seqno = d.isn
  <2>1. Wrap32_wrap(0, d.isn) = d.isn
    <3>1. d.isn \in UInt32 /\ Modulus \in Nat /\ Modulus > 0
      BY Constants, ModulusAssumption DEF Ways
    <3>2. 0 % Modulus = 0 /\ (0 + d.isn) % Modulus = d.isn
      BY <3>1 DEF UInt32
    <3>3. QED
      BY <3>2 DEF Wrap32_wrap
  <2>2. m.SYN = (k = 0) /\ m.seqno = Wrap32_wrap(k, d.isn)
    BY <1>7
  <2>3. QED
    BY <2>1, <2>2
<1>10. first_index(d.isn, m, x.inbound_stream_) = a
  <2>1. PICK pushed \in Nat : pushed = x.inbound_stream_.bytes_pushed_ /\ pushed <= L + 2
    <3>1. x.inbound_stream_.bytes_pushed_ \in Nat /\ x.inbound_stream_.bytes_pushed_ <= n
      BY <1>1, HeardNumbers
    <3>2. QED
      BY <1>1, <3>1
  <2>2. Wrap32_unwrap(Wrap32_wrap(k, d.isn), d.isn, pushed) = k
    <3>1. k <= L + 3 /\ Direction(d)
      BY <1>1, <1>5 DEF Ways
    <3>2. QED
      BY <1>1, <2>1, <3>1, NumberReturns
  <2>3. k - 1 + One(k = 0) = a
    BY <1>4 DEF One
  <2>4. a % Modulus64 = a
    <3>1. Modulus64 \in Nat /\ L < Modulus64
      BY <1>1, Constants DEF Ways
    <3>2. QED
      BY <1>1, <1>5, <3>1
  <2>5. QED
    BY <1>7, <2>1, <2>2, <2>3, <2>4 DEF first_index
<1>11. Placed(d, y, a, b, last)
  BY <1>1, <1>5 DEF Placed
<1>12. m.payload = Slice(Sent(d, y), a, b) /\ m.FIN = last
  BY <1>7, <1>8
<1>13. QED
  BY <1>3, <1>9, <1>10, <1>11, <1>12

\* What the reassembler makes of any message that comes behind SYN, or is SYN.
LEMMA MessageIsInserted ==
  ASSUME NEW c, NEW d, Ways(c, d), NEW y, Sends(d, y), NEW x, Hears(d, y, x),
         NEW m \in Messages(d, UsedBy(y)), x.receiver_.m_syn_rcvd \/ m.SYN
  PROVE  /\ m.SYN => m.seqno = d.isn
         /\ y.sender_.m_syc_pushed
         /\ \E first, end, last :
              /\ Placed(d, y, first, end, last)
              /\ Reassembler_insert(x.reassembler_, first_index(d.isn, m, x.inbound_stream_),
                                    m.payload, m.FIN, x.inbound_stream_) =
                 Reassembler_insert(x.reassembler_, first,
                                    Slice(Sent(d, y), first, end), last, x.inbound_stream_)
<1>1. CASE m \in Sendable(d, UsedBy(y))
  <2>1. PICK k \in Nat, end \in Nat : k < end /\ end <= UsedBy(y) /\ m = Stretch(d, k, end)
    BY <1>1 DEF Sendable
  <2>2. QED
    BY <2>1, StretchArrives
<1>2. CASE m \notin Sendable(d, UsedBy(y))
  <2>1. PICK n \in 0 .. UsedBy(y) : m = TCPSenderMessage(Wrap32_wrap(n, d.isn), FALSE, <<>>, FALSE)
    BY <1>2 DEF Messages
  <2>2. ~m.SYN /\ m.FIN = FALSE /\ m.payload = <<>> /\ m.seqno = Wrap32_wrap(n, d.isn)
    BY <2>1 DEF TCPSenderMessage
  <2>3. y.sender_.m_syc_pushed
    BY <2>2 DEF Hears
  <2>4. PICK index : index = first_index(d.isn, m, x.inbound_stream_)
    OBVIOUS
  <2>5. index \in Nat
    <3>1. PICK pushed \in Nat : pushed = x.inbound_stream_.bytes_pushed_ /\ pushed <= Len(d.source) + 2
      <4>1. PICK popped \in Nat : /\ popped = y.outbound_stream_.bytes_popped_
                                  /\ popped <= Len(d.source) /\ Len(d.source) \in Nat
        BY SentProperties
      <4>2. x.inbound_stream_.bytes_pushed_ \in Nat /\ x.inbound_stream_.bytes_pushed_ <= popped
        BY <4>1, HeardNumbers
      <4>3. QED
        BY <4>1, <4>2
    <3>2. n \in Nat /\ n <= Len(d.source) + 3 /\ Direction(d)
      BY AckBelow, SentProperties DEF Ways
    <3>3. Wrap32_unwrap(m.seqno, d.isn, pushed) = n
      BY <2>2, <3>1, <3>2, NumberReturns
    <3>4. index = (n - 1 + 0) % Modulus64
      BY <2>2, <2>4, <3>1, <3>3 DEF first_index, One
    <3>5. Modulus64 \in Nat /\ Modulus64 > 0 /\ n - 1 + 0 \in Int
      BY <3>2, ModulusAssumption
    <3>6. QED
      BY <3>4, <3>5
  <2>6. Assembled(x.reassembler_, x.inbound_stream_, Sent(d, y), Nat, RecvCapacity)
    BY DEF Hears
  <2>7. Reassembler_insert(x.reassembler_, index, <<>>, FALSE, x.inbound_stream_) =
          Reassembler_insert(x.reassembler_, 0, Slice(Sent(d, y), 0, 0), FALSE, x.inbound_stream_)
    <3>1. Sent(d, y) \in Seq(Nat) /\ RecvCapacity \in Nat /\ Len(Sent(d, y)) < UINT64_MAX
      BY SentProperties
    <3>2. PICK src, q, s : src = Sent(d, y) /\ q = x.reassembler_ /\ s = x.inbound_stream_
      OBVIOUS
    <3>3. src \in Seq(Nat) /\ Len(src) < UINT64_MAX /\ Assembled(q, s, src, Nat, RecvCapacity)
      BY <2>6, <3>1, <3>2
    <3>4. InsertsNothing(q, s, src, index)
      BY <2>5, <3>1, <3>3, InsertNothing
    <3>5. QED
      BY <3>2, <3>4 DEF InsertsNothing
  <2>8. Placed(d, y, 0, 0, FALSE)
    BY SentProperties DEF Placed
  <2>9. QED
    BY <2>2, <2>3, <2>4, <2>7, <2>8
<1>3. QED
  BY <1>1, <1>2

\* The stream that is read grows at its end.
Longer(s, t) ==
  /\ t.bytes_popped_ = s.bytes_popped_
  /\ s.bytes_pushed_ <= t.bytes_pushed_
  /\ s.is_close_ => t.is_close_

LEMMA MessageIsHeard ==
  ASSUME NEW c, NEW d, Ways(c, d), NEW y, Sends(d, y), NEW x, Hears(d, y, x),
         NEW m \in Messages(d, UsedBy(y)),
         NEW r, r = TCPReceiver_receive(x.receiver_, m, x.reassembler_, x.inbound_stream_),
         NEW t, t.receiver_ = r.receiver, t.reassembler_ = r.reassembler, t.inbound_stream_ = r.inbound
  PROVE  /\ Hears(d, y, t) /\ Longer(x.inbound_stream_, t.inbound_stream_)
         /\ x.receiver_.m_syn_rcvd => t.receiver_.m_syn_rcvd
<1>1. PICK rcv, q, s : rcv = x.receiver_ /\ q = x.reassembler_ /\ s = x.inbound_stream_
  OBVIOUS
<1>2. CASE ~rcv.m_syn_rcvd /\ ~m.SYN
  <2>1. SameEars(x, t)
    BY <1>1, <1>2 DEF TCPReceiver_receive, SameEars
  <2>2. Hears(d, y, t)
    BY <2>1 DEF Hears, SameEars
  <2>3. s.bytes_pushed_ \in Nat
    BY <1>1, HeardNumbers
  <2>4. QED
    BY <1>1, <2>1, <2>2, <2>3 DEF SameEars, Longer
<1>3. CASE rcv.m_syn_rcvd \/ m.SYN
  <2>1. PICK first, end, last :
          /\ Placed(d, y, first, end, last)
          /\ Reassembler_insert(q, first_index(d.isn, m, s), m.payload, m.FIN, s) =
             Reassembler_insert(q, first, Slice(Sent(d, y), first, end), last, s)
    BY <1>1, <1>3, MessageIsInserted
  <2>2. (m.SYN => m.seqno = d.isn) /\ y.sender_.m_syc_pushed
    BY <1>1, <1>3, MessageIsInserted
  <2>3. PICK received :
          received = [m_recv_zero_point |-> IF m.SYN THEN m.seqno ELSE rcv.m_recv_zero_point,
                      m_syn_rcvd |-> TRUE,
                      m_fin_rcvd |-> rcv.m_fin_rcvd \/ m.FIN]
    OBVIOUS
  <2>4. /\ DOMAIN received = {"m_recv_zero_point", "m_syn_rcvd", "m_fin_rcvd"}
        /\ received.m_recv_zero_point = IF m.SYN THEN m.seqno ELSE rcv.m_recv_zero_point
        /\ received.m_syn_rcvd = TRUE
        /\ received.m_fin_rcvd \in BOOLEAN
    BY <2>3
  <2>5. received.m_recv_zero_point = d.isn
    BY <1>1, <1>3, <2>2, <2>4 DEF Hears
  <2>6. PICK u : u = Reassembler_insert(q, first, Slice(Sent(d, y), first, end), last, s)
    OBVIOUS
  <2>7. /\ t.receiver_ = received /\ t.reassembler_ = u.reassembler
        /\ t.inbound_stream_ = u.output
    <3>1. r = receive_into(received, Reassembler_insert(q, first_index(d.isn, m, s), m.payload, m.FIN, s))
      BY <1>1, <1>3, <2>3, <2>5 DEF TCPReceiver_receive
    <3>2. r = [receiver |-> received, reassembler |-> u.reassembler, inbound |-> u.output]
      BY <2>1, <2>6, <3>1 DEF receive_into
    <3>3. QED
      BY <3>2
  <2>8. PICK src : src = Sent(d, y)
    OBVIOUS
  <2>9. /\ src \in Seq(Nat) /\ Len(src) < UINT64_MAX /\ Len(src) \in Nat /\ UINT64_MAX \in Nat
        /\ RecvCapacity \in Nat
        /\ Assembled(q, s, src, Nat, RecvCapacity)
        /\ end \in 0 .. Len(src) /\ first \in 0 .. end /\ last \in BOOLEAN
        /\ last => end = Len(src)
    <3>1. src \in Seq(Nat) /\ Len(src) < UINT64_MAX /\ Len(src) \in Nat /\ UINT64_MAX \in Nat
      BY <2>8, SentProperties
    <3>2. RecvCapacity \in Nat
      BY SentProperties
    <3>3. Assembled(q, s, src, Nat, RecvCapacity)
      BY <1>1, <2>8 DEF Hears
    <3>4. QED
      BY <2>1, <2>8, <3>1, <3>2, <3>3 DEF Placed
  <2>10. u = Reassembler_insert(q, first, Slice(src, first, end), last, s)
    BY <2>6, <2>8
  <2>11. /\ Assembled(u.reassembler, u.output, src, Nat, RecvCapacity)
         /\ s.bytes_pushed_ <= u.output.bytes_pushed_
         /\ u.output.bytes_popped_ = s.bytes_popped_
         /\ s.is_close_ => u.output.is_close_
         /\ u.reassembler.m_stream_end = IF last THEN Len(src) ELSE q.m_stream_end
    BY <2>9, <2>10, InsertIsAssembled
  <2>12. u.output.error_ = FALSE
    <3>1. s \in ByteStreams(Nat, RecvCapacity) /\ s.error_ = FALSE
      BY <1>1, HeardNumbers DEF Hears
    <3>2. QED
      BY <2>10, <3>1, InsertKeepsError
  <2>13. u.reassembler.m_stream_end # UINT64_MAX => y.sender_.m_fin_pushed
    BY <1>1, <2>1, <2>11 DEF Placed, Hears
  <2>14. Hears(d, y, t)
    BY <2>2, <2>4, <2>5, <2>7, <2>8, <2>11, <2>12, <2>13 DEF Hears
  <2>15. Longer(x.inbound_stream_, t.inbound_stream_)
    BY <1>1, <2>7, <2>11 DEF Longer
  <2>16. QED
    BY <2>4, <2>7, <2>14, <2>15
<1>4. QED
  BY <1>1, <1>2, <1>3

\* What is acknowledged grows with it.
LEMMA AckGrows ==
  ASSUME NEW c, NEW d, Ways(c, d), NEW y, Sends(d, y), NEW x, Hears(d, y, x),
         NEW z, Sends(d, z), NEW t, Hears(d, z, t), Longer(x.inbound_stream_, t.inbound_stream_),
         x.receiver_.m_syn_rcvd => t.receiver_.m_syn_rcvd
  PROVE  AckOf(x) <= AckOf(t)
<1>1. CASE ~x.receiver_.m_syn_rcvd
  <2>1. AckOf(x) = 0 /\ AckOf(t) \in Nat
    BY <1>1, AckBelow
  <2>2. QED
    BY <2>1
<1>2. CASE x.receiver_.m_syn_rcvd
  <2>1. /\ AckOf(x) = absolute_ackno(x.inbound_stream_)
        /\ AckOf(t) = absolute_ackno(t.inbound_stream_)
    BY <1>2, AckBelow
  <2>2. PICK a \in Nat, b \in Nat : /\ a = x.inbound_stream_.bytes_pushed_
                                    /\ b = t.inbound_stream_.bytes_pushed_ /\ a <= b
    BY HeardNumbers DEF Longer
  <2>3. PICK e \in 0 .. 1, f \in 0 .. 1 : /\ e = One(x.inbound_stream_.is_close_)
                                          /\ f = One(t.inbound_stream_.is_close_) /\ e <= f
    BY DEF One, Longer
  <2>4. QED
    BY <2>1, <2>2, <2>3 DEF absolute_ackno
<1>3. QED
  BY <1>1, <1>2

\* What is read to the end stays so.
LEMMA FinishedStays ==
  ASSUME NEW c, NEW d, Ways(c, d), NEW y, Sends(d, y), NEW x, Hears(d, y, x),
         NEW t, Hears(d, y, t), Longer(x.inbound_stream_, t.inbound_stream_),
         Reader_is_finished(x.inbound_stream_)
  PROVE  Reader_is_finished(t.inbound_stream_)
<1>1. x.inbound_stream_.is_close_ /\ x.inbound_stream_.buffer_ = <<>> /\ t.inbound_stream_.is_close_
  BY DEF Reader_is_finished, Longer
<1>2. Len(x.inbound_stream_.buffer_) = 0
  BY <1>1, EmptySeq
<1>3. PICK a \in Nat, b \in Nat, e \in Nat :
        /\ a = x.inbound_stream_.bytes_pushed_ /\ b = x.inbound_stream_.bytes_popped_
        /\ e = y.outbound_stream_.bytes_popped_ /\ a = e
  BY <1>1, HeardNumbers
<1>4. a = b
  <2>1. Len(x.inbound_stream_.buffer_) =
          x.inbound_stream_.bytes_pushed_ - x.inbound_stream_.bytes_popped_
    BY HeardNumbers
  <2>2. QED
    BY <1>2, <1>3, <2>1
<1>5. t.inbound_stream_.bytes_popped_ = b /\ t.inbound_stream_.bytes_pushed_ = e
  BY <1>1, <1>3, HeardNumbers DEF Longer
<1>6. Len(t.inbound_stream_.buffer_) = 0
  <2>1. Len(t.inbound_stream_.buffer_) =
          t.inbound_stream_.bytes_pushed_ - t.inbound_stream_.bytes_popped_
    BY HeardNumbers
  <2>2. Len(t.inbound_stream_.buffer_) = e - b
    BY <1>5, <2>1
  <2>3. e - b = 0
    BY <1>3, <1>4
  <2>4. QED
    BY <2>2, <2>3
<1>7. t.inbound_stream_.buffer_ \in Seq(Nat)
  BY HeardNumbers DEF ByteStreams
<1>8. t.inbound_stream_.buffer_ = <<>>
  BY <1>6, <1>7, EmptySeq
<1>9. QED
  BY <1>1, <1>8 DEF Reader_is_finished

\* The acknowledgment a segment brings, to the sender.
LEMMA AnswerIsTaken ==
  ASSUME NEW c, NEW d, Ways(c, d), NEW x, Sends(c, x), x.sender_.m_send_queue_ = <<>>,
         NEW ack \in Nat, ack <= UsedBy(x), NEW msg \in Answers(c, ack),
         NEW z, z = TCPSender_receive(x.sender_, msg)
  PROVE  /\ Consistent(c, z, x.outbound_stream_)
         /\ Used(z, x.outbound_stream_) = UsedBy(x)
         /\ z.m_syc_pushed = x.sender_.m_syc_pushed /\ z.m_fin_pushed = x.sender_.m_fin_pushed
         /\ Runs(z.m_retransmission_timer_, DOMAIN z.m_outstanding_messages_, z.m_send_queue_)
         /\ z.m_window_left = x.sender_.m_window_left \/ z.m_window_left <= ack
<1>1. PICK s, o : s = x.sender_ /\ o = x.outbound_stream_
  OBVIOUS
<1>2. /\ Direction(c) /\ Consistent(c, s, o) /\ s.m_send_queue_ = <<>>
      /\ Runs(s.m_retransmission_timer_, DOMAIN s.m_outstanding_messages_, s.m_send_queue_)
      /\ UsedBy(x) = Used(s, o) /\ Used(s, o) \in Nat
  BY <1>1, SendsNumbers DEF Ways, Sends, UsedBy
<1>3. msg.window_size \in Nat /\ msg.ackno \in {{}} \cup {{Wrap32_wrap(n, c.isn)} : n \in 0 .. ack}
  BY DEF Answers
<1>4. CASE msg.ackno = {}
  <2>1. z = s
    BY <1>1, <1>4 DEF TCPSender_receive
  <2>2. QED
    BY <1>1, <1>2, <2>1
<1>5. CASE msg.ackno # {}
  <2>1. PICK n \in 0 .. ack : msg.ackno = {Wrap32_wrap(n, c.isn)}
    BY <1>3, <1>5
  <2>2. n \in Nat /\ n <= Used(s, o) + 1
    BY <1>2, <2>1
  <2>3. z = TCPSender_receive(s, msg)
    BY <1>1
  <2>4. Consistent(c, z, o) /\ Used(z, o) = Used(s, o)
    BY <1>2, <1>3, <2>1, <2>2, <2>3, ReceiveIsConsistent
  <2>5. z.m_syc_pushed = s.m_syc_pushed /\ z.m_fin_pushed = s.m_fin_pushed
    BY <1>2, <1>3, <2>1, <2>2, <2>3, ReceiveIsConsistent
  <2>6. Runs(z.m_retransmission_timer_, DOMAIN z.m_outstanding_messages_, z.m_send_queue_)
    BY <1>2, <1>3, <2>1, <2>2, <2>3, ReceiveIsConsistent
  <2>7. z.m_window_left = s.m_window_left \/ z.m_window_left = n
    BY <1>2, <1>3, <2>1, <2>2, <2>3, ReceiveIsConsistent
  <2>8. QED
    BY <1>1, <1>2, <2>1, <2>4, <2>5, <2>6, <2>7
<1>6. QED
  BY <1>4, <1>5

\* receive, whole.
LEMMA PeerReceive ==
  ASSUME NEW c, NEW d, Ways(c, d), NEW y, Sends(d, y), NEW x, Hears(d, y, x), Sends(c, x),
         x.sender_.m_send_queue_ = <<>>, AckOf(y) \in Nat, AckOf(y) <= UsedBy(x),
         x.sender_.m_window_left <= AckOf(y),
         NEW seg \in Segments(d, c, UsedBy(y), AckOf(y)),
         NEW t, t = TCPPeer_receive(x, seg)
  PROVE  /\ Sends(c, t) /\ Hears(d, y, t) /\ Advances(x, t)
         /\ Longer(x.inbound_stream_, t.inbound_stream_)
         /\ t.sender_.m_window_left <= AckOf(y)
<1>1. PICK m, msg : m = seg.sender_message /\ msg = seg.receiver_message
  OBVIOUS
<1>2. m \in Messages(d, UsedBy(y)) /\ msg \in Answers(c, AckOf(y)) /\ seg.reset = FALSE
  BY <1>1 DEF Segments, Messages, Answers
<1>3. PICK z : z = TCPSender_receive(x.sender_, msg)
  OBVIOUS
<1>4. PICK r : r = TCPReceiver_receive(x.receiver_, m, x.reassembler_, x.inbound_stream_)
  OBVIOUS
<1>5. DOMAIN x = PeerFields /\ x.inbound_stream_.error_ = FALSE
      /\ x.need_send_ \in BOOLEAN /\ x.outbound_stream_.error_ = FALSE
  BY DEF Sends, Hears
<1>6. PICK informed : informed = [x EXCEPT !.sender_ = TCPSender_receive(@, msg),
                                           !.need_send_ = @ \/ answers(x, m)]
  OBVIOUS
<1>7. t = receive_result(informed, r)
  BY <1>1, <1>2, <1>4, <1>5, <1>6 DEF TCPPeer_receive
<1>8. /\ DOMAIN informed = PeerFields
      /\ informed.sender_ = z /\ informed.outbound_stream_ = x.outbound_stream_
      /\ informed.need_send_ = (x.need_send_ \/ answers(x, m))
  BY <1>3, <1>5, <1>6 DEF PeerFields
<1>9. /\ DOMAIN t = PeerFields
      /\ t.sender_ = z /\ t.outbound_stream_ = x.outbound_stream_
      /\ t.need_send_ = (x.need_send_ \/ answers(x, m))
      /\ t.receiver_ = r.receiver /\ t.reassembler_ = r.reassembler
      /\ t.inbound_stream_ = r.inbound
  BY <1>7, <1>8 DEF PeerFields, receive_result
<1>10. t.need_send_ \in BOOLEAN
  <2>1. (x.need_send_ \/ answers(x, m)) \in BOOLEAN
    BY Zenon
  <2>2. QED
    BY <1>9, <2>1
<1>11. /\ Consistent(c, z, x.outbound_stream_)
       /\ Used(z, x.outbound_stream_) = UsedBy(x)
       /\ z.m_syc_pushed = x.sender_.m_syc_pushed /\ z.m_fin_pushed = x.sender_.m_fin_pushed
       /\ Runs(z.m_retransmission_timer_, DOMAIN z.m_outstanding_messages_, z.m_send_queue_)
       /\ z.m_window_left = x.sender_.m_window_left \/ z.m_window_left <= AckOf(y)
  BY <1>2, <1>3, AnswerIsTaken
<1>12. Sends(c, t)
  BY <1>5, <1>9, <1>10, <1>11 DEF Sends
<1>13. Grows(x, t)
  BY <1>9, <1>11, SendsNumbers DEF Grows, UsedBy
<1>14. /\ Hears(d, y, t) /\ Longer(x.inbound_stream_, t.inbound_stream_)
       /\ x.receiver_.m_syn_rcvd => t.receiver_.m_syn_rcvd
  BY <1>2, <1>4, <1>9, MessageIsHeard
<1>15. AckOf(x) <= AckOf(t)
  BY <1>14, AckGrows
<1>16. QED
  BY <1>9, <1>11, <1>12, <1>13, <1>14, <1>15 DEF Advances

(***************************************************************************)
(* A handler, and what it collects.                                        *)
(***************************************************************************)

\* x is handled, and is t then.
Handled(c, d, y, x, t) ==
  /\ Sends(c, t) /\ Hears(d, y, t) /\ Advances(x, t)
  /\ Longer(x.inbound_stream_, t.inbound_stream_)
  /\ t.sender_.m_window_left <= AckOf(y)

\* A handler of the sender's alone.
LEMMA SpeaksIsHandled ==
  ASSUME NEW c, NEW d, Ways(c, d), NEW y, Sends(d, y), NEW x, Hears(d, y, x), Sends(c, x),
         x.sender_.m_window_left <= AckOf(y), NEW t, Speaks(c, x, t)
  PROVE  Handled(c, d, y, x, t)
<1>1. /\ Sends(c, t) /\ SameEars(x, t) /\ Grows(x, t)
      /\ t.sender_.m_window_left = x.sender_.m_window_left
  BY DEF Speaks
<1>2. Hears(d, y, t)
  BY <1>1 DEF Hears, SameEars
<1>3. AckOf(x) <= AckOf(t)
  BY <1>1, SameAck, AckBelow
<1>4. Longer(x.inbound_stream_, t.inbound_stream_)
  BY <1>1, HeardNumbers DEF SameEars, Longer
<1>5. QED
  BY <1>1, <1>2, <1>3, <1>4 DEF Handled, Advances

LEMMA PeerTick ==
  ASSUME NEW c, NEW d, Ways(c, d), NEW x, Sends(c, x), x.sender_.m_send_queue_ = <<>>,
         tick_is_defined(x.sender_, 0), NEW t, t = TCPPeer_tick(x, 0)
  PROVE  Speaks(c, x, t)
<1>1. PICK s, o : s = x.sender_ /\ o = x.outbound_stream_
  OBVIOUS
<1>2. PICK u : u = TCPSender_tick(s, 0)
  OBVIOUS
<1>3. /\ DOMAIN x = PeerFields /\ Direction(c) /\ Consistent(c, s, o) /\ s.m_send_queue_ = <<>>
      /\ Runs(s.m_retransmission_timer_, DOMAIN s.m_outstanding_messages_, s.m_send_queue_)
      /\ tick_is_defined(s, 0) /\ 0 \in Nat
  BY <1>1 DEF Ways, Sends
<1>4. Consistent(c, u, o) /\ Used(u, o) = Used(s, o) /\ SameNumbers(s, u)
  BY <1>2, <1>3, TickIsConsistent
<1>5. Runs(u.m_retransmission_timer_, DOMAIN u.m_outstanding_messages_, u.m_send_queue_)
  BY <1>2, <1>3, TickIsConsistent
<1>6. /\ DOMAIN t = PeerFields /\ SameEars(x, t)
      /\ t.sender_ = u /\ t.outbound_stream_ = o /\ t.need_send_ = x.need_send_
  <2>1. t = [x EXCEPT !.sender_ = u]
    BY <1>1, <1>2 DEF TCPPeer_tick
  <2>2. QED
    BY <1>1, <1>3, <2>1 DEF PeerFields, SameEars
<1>7. Sends(c, t)
  BY <1>1, <1>4, <1>5, <1>6 DEF Sends
<1>8. QED
  BY <1>1, <1>4, <1>6, <1>7, SendsNumbers DEF Speaks, Grows, UsedBy, SameNumbers

\* The stream w carries on where o was.
Continues(c, o, w) ==
  /\ w \in ByteStreams(c.byte, c.capacity) /\ Carries(w, c.source)
  /\ w.bytes_popped_ = o.bytes_popped_
  /\ w.is_close_ => w.bytes_pushed_ = Len(c.source)
  /\ o.is_close_ => w.is_close_
  /\ w.error_ = FALSE

\* The program writes some of its bytes, or closes behind the last.
LEMMA PeerWrite ==
  ASSUME NEW c, NEW d, Ways(c, d), NEW x, Sends(c, x),
         NEW o, o = x.outbound_stream_, NEW w,
         \/ \E last \in Nat : /\ o.bytes_pushed_ <= last /\ last <= Len(c.source)
                              /\ w = Writer_push(o, Slice(c.source, o.bytes_pushed_, last))
                              /\ ~o.is_close_
         \/ o.bytes_pushed_ = Len(c.source) /\ w = Writer_close(o),
         NEW t, t = [x EXCEPT !.outbound_stream_ = w]
  PROVE  Speaks(c, x, t)
<1>1. PICK s : s = x.sender_
  OBVIOUS
<1>2. /\ DOMAIN x = PeerFields /\ Direction(c) /\ Consistent(c, s, o)
      /\ Runs(s.m_retransmission_timer_, DOMAIN s.m_outstanding_messages_, s.m_send_queue_)
      /\ o.error_ = FALSE /\ x.need_send_ \in BOOLEAN
  BY <1>1 DEF Ways, Sends
<1>3. /\ c.source \in Seq(c.byte) /\ c.capacity \in Nat
      /\ o \in ByteStreams(c.byte, c.capacity) /\ Carries(o, c.source)
  BY <1>2, Constants DEF Consistent
<1>4. Continues(c, o, w)
  <2>1. ASSUME NEW last \in Nat, o.bytes_pushed_ <= last, last <= Len(c.source),
               w = Writer_push(o, Slice(c.source, o.bytes_pushed_, last)), ~o.is_close_
        PROVE  Continues(c, o, w)
    <3>1. /\ w \in ByteStreams(c.byte, c.capacity) /\ Carries(w, c.source)
          /\ w.bytes_popped_ = o.bytes_popped_ /\ w.is_close_ = o.is_close_
      BY <1>3, <2>1, PushCarries
    <3>2. w.error_ = o.error_
      BY <1>3, <2>1 DEF Writer_push, ByteStreams
    <3>3. QED
      BY <1>2, <2>1, <3>1, <3>2 DEF Continues
  <2>2. ASSUME o.bytes_pushed_ = Len(c.source), w = Writer_close(o)
        PROVE  Continues(c, o, w)
    <3>1. /\ w \in ByteStreams(c.byte, c.capacity) /\ Carries(w, c.source)
          /\ w.bytes_popped_ = o.bytes_popped_ /\ w.bytes_pushed_ = o.bytes_pushed_ /\ w.is_close_
      BY <1>3, <2>2, CloseCarries
    <3>2. w.error_ = o.error_
      BY <1>3, <2>2 DEF Writer_close, ByteStreams
    <3>3. QED
      BY <1>2, <2>2, <3>1, <3>2 DEF Continues
  <2>3. QED
    BY <2>1, <2>2
<1>5. Used(s, w) = Used(s, o)
  BY <1>4 DEF Used, Continues
<1>6. Consistent(c, s, w)
  BY <1>2, <1>4, <1>5 DEF Consistent, Continues
<1>7. /\ DOMAIN t = PeerFields /\ SameEars(x, t)
      /\ t.sender_ = s /\ t.outbound_stream_ = w /\ t.need_send_ = x.need_send_
  BY <1>1, <1>2 DEF PeerFields, SameEars
<1>8. Sends(c, t)
  BY <1>2, <1>4, <1>6, <1>7 DEF Sends, Continues
<1>9. QED
  BY <1>1, <1>4, <1>5, <1>7, <1>8, SendsNumbers DEF Speaks, Grows, UsedBy, Continues

\* The whole callback.
LEMMA HandledThenCollected ==
  ASSUME NEW c, NEW d, Ways(c, d), NEW y, Sends(d, y), NEW x, Hears(d, y, x), Sends(c, x),
         NEW now, Handled(c, d, y, x, now),
         NEW r, r = collect_segments(now),
         NEW t, t = [r.peer EXCEPT !.sender_.m_consecutive_retransmissions = 0]
  PROVE  /\ Handled(c, d, y, x, t)
         /\ Rests(t)
         /\ Range(r.segments) \in SUBSET Segments(c, d, UsedBy(t), AckOf(t))
<1>1. /\ Sends(c, now) /\ Hears(d, y, now) /\ Grows(x, now) /\ AckOf(x) <= AckOf(now)
      /\ Longer(x.inbound_stream_, now.inbound_stream_)
      /\ now.sender_.m_window_left <= AckOf(y)
  BY DEF Handled, Advances
<1>2. /\ Speaks(c, now, t)
      /\ Rests(t)
      /\ Range(r.segments) \in SUBSET Segments(c, d, UsedBy(t), AckOf(now))
  BY <1>1, CollectSegments
<1>3. SameEars(now, t) /\ Sends(c, t) /\ Grows(now, t)
      /\ t.sender_.m_window_left = now.sender_.m_window_left
  BY <1>2 DEF Speaks
<1>4. AckOf(t) = AckOf(now)
  BY <1>3, SameAck
<1>5. /\ UsedBy(x) \in Nat /\ UsedBy(now) \in Nat /\ UsedBy(t) \in Nat
      /\ x.outbound_stream_.bytes_popped_ \in Nat /\ now.outbound_stream_.bytes_popped_ \in Nat
      /\ t.outbound_stream_.bytes_popped_ \in Nat
  BY <1>1, <1>3, SendsNumbers
<1>6. Grows(x, t)
  BY <1>1, <1>3, <1>5 DEF Grows
<1>7. Hears(d, y, t) /\ Longer(x.inbound_stream_, t.inbound_stream_)
  BY <1>1, <1>3 DEF Hears, SameEars
<1>8. QED
  BY <1>1, <1>2, <1>3, <1>4, <1>6, <1>7 DEF Handled, Advances

(***************************************************************************)
(* The invariant.                                                          *)
(***************************************************************************)

\* What it says of one peer x and the other y.
LEMMA EndFacts ==
  ASSUME Inv, NEW p \in Peers, NEW q, q = Other(p), NEW c, c = Flow(p), NEW d, d = Flow(q)
  PROVE  /\ q \in Peers /\ Other(q) = p /\ q # p
         /\ Ways(c, d) /\ Ways(d, c)
         /\ Sends(c, peer[p]) /\ Rests(peer[p]) /\ Hears(d, peer[q], peer[p])
         /\ Sends(d, peer[q]) /\ Rests(peer[q]) /\ Hears(c, peer[p], peer[q])
         /\ peer[p].sender_.m_window_left <= AckOf(peer[q])
         /\ wire[p] \in SUBSET Segments(d, c, UsedBy(peer[q]), AckOf(peer[q]))
         /\ AckOf(peer[q]) \in Nat /\ AckOf(peer[q]) <= UsedBy(peer[p])
<1>1. q \in Peers /\ Other(q) = p /\ q # p /\ Ways(c, d) /\ Ways(d, c)
  BY FlowProperties
<1>2. Endpoint(p) /\ Endpoint(q) /\ InFlight(p)
  BY <1>1 DEF Inv
<1>3. /\ Sends(c, peer[p]) /\ Rests(peer[p]) /\ Hears(d, peer[q], peer[p])
      /\ Sends(d, peer[q]) /\ Rests(peer[q]) /\ Hears(c, peer[p], peer[q])
      /\ peer[p].sender_.m_window_left <= AckOf(peer[q])
      /\ wire[p] \in SUBSET Segments(d, c, UsedBy(peer[q]), AckOf(peer[q]))
  BY <1>1, <1>2 DEF Endpoint, InFlight
<1>4. AckOf(peer[q]) \in Nat /\ AckOf(peer[q]) <= UsedBy(peer[p])
  BY <1>1, <1>3, AckBelow
<1>5. QED
  BY <1>1, <1>3, <1>4

\* A peer that reads to the end has read to the end.
LEMMA ReadStays ==
  ASSUME Inv, NEW p \in Peers, NEW t, Hears(Flow(Other(p)), peer[Other(p)], t),
         Longer(peer[p].inbound_stream_, t.inbound_stream_)
  PROVE  /\ delivered[p] = Slice(SourceOf(Other(p)), 0, t.inbound_stream_.bytes_popped_)
         /\ eof[p] \in BOOLEAN
         /\ eof[p] => Reader_is_finished(t.inbound_stream_)
<1>1. PICK q, c, d : q = Other(p) /\ c = Flow(p) /\ d = Flow(q)
  OBVIOUS
<1>2. Ways(c, d) /\ Sends(d, peer[q]) /\ Hears(d, peer[q], peer[p]) /\ Hears(d, peer[q], t)
  BY <1>1, EndFacts
<1>3. HasRead(p)
  BY DEF Inv
<1>4. eof[p] => Reader_is_finished(t.inbound_stream_)
  BY <1>2, <1>3, FinishedStays DEF HasRead
<1>5. t.inbound_stream_.bytes_popped_ = peer[p].inbound_stream_.bytes_popped_
  BY DEF Longer
<1>6. QED
  BY <1>3, <1>4, <1>5 DEF HasRead

\* A step of p that is a callback and what it collects.
LEMMA CallbackKeepsInv ==
  ASSUME Inv, NEW p \in Peers, NEW q, q = Other(p), NEW c, c = Flow(p), NEW d, d = Flow(q),
         NEW t, Handled(c, d, peer[q], peer[p], t), Rests(t),
         NEW segments, segments \in SUBSET Segments(c, d, UsedBy(t), AckOf(t)),
         peer' = [peer EXCEPT ![p] = t],
         DOMAIN wire' = Peers, wire'[p] \in SUBSET wire[p],
         wire'[q] \in SUBSET (wire[q] \cup segments),
         UNCHANGED <<delivered, eof>>
  PROVE  Inv'
<1>1. /\ q \in Peers /\ Other(q) = p /\ q # p /\ Other(p) = q
      /\ Peers = {p, q} /\ Ways(c, d) /\ Ways(d, c)
  BY EndFacts DEF Peers, Other
<1>2. PICK x, y : x = peer[p] /\ y = peer[q]
  OBVIOUS
<1>3. peer'[p] = t /\ peer'[q] = y /\ DOMAIN peer' = Peers
  BY <1>1, <1>2 DEF Inv
<1>4. /\ Sends(c, x) /\ Hears(d, y, x) /\ Sends(d, y) /\ Rests(y) /\ Hears(c, x, y)
      /\ y.sender_.m_window_left <= AckOf(x)
      /\ wire[p] \in SUBSET Segments(d, c, UsedBy(y), AckOf(y))
      /\ wire[q] \in SUBSET Segments(c, d, UsedBy(x), AckOf(x))
  <2>1. /\ Sends(c, x) /\ Hears(d, y, x) /\ Sends(d, y) /\ Rests(y) /\ Hears(c, x, y)
        /\ wire[p] \in SUBSET Segments(d, c, UsedBy(y), AckOf(y))
    BY <1>2, EndFacts
  <2>2. /\ y.sender_.m_window_left <= AckOf(x)
        /\ wire[q] \in SUBSET Segments(c, d, UsedBy(x), AckOf(x))
    BY <1>1, <1>2, EndFacts
  <2>3. QED
    BY <2>1, <2>2
<1>5. /\ Sends(c, t) /\ Hears(d, y, t) /\ Advances(x, t)
      /\ Longer(x.inbound_stream_, t.inbound_stream_)
      /\ t.sender_.m_window_left <= AckOf(y)
  BY <1>2 DEF Handled
<1>6. Hears(c, t, y)
  BY <1>1, <1>4, <1>5, HearsOn
<1>7. /\ AckOf(x) \in Nat /\ AckOf(t) \in Nat /\ AckOf(x) <= AckOf(t)
      /\ UsedBy(x) \in Nat /\ UsedBy(t) \in Nat /\ UsedBy(x) <= UsedBy(t)
      /\ y.sender_.m_window_left \in Nat
  <2>1. AckOf(x) \in Nat /\ AckOf(t) \in Nat
    BY <1>1, <1>4, <1>5, AckBelow
  <2>2. UsedBy(x) \in Nat /\ UsedBy(t) \in Nat /\ y.sender_.m_window_left \in Nat
    BY <1>1, <1>4, <1>5, SendsNumbers
  <2>3. QED
    BY <1>5, <2>1, <2>2 DEF Advances, Grows
<1>8. Endpoint(p)'
  BY <1>1, <1>3, <1>5 DEF Endpoint
<1>9. Endpoint(q)'
  <2>1. y.sender_.m_window_left <= AckOf(t)
    BY <1>4, <1>7
  <2>2. QED
    BY <1>1, <1>3, <1>4, <1>6, <2>1 DEF Endpoint
<1>10. InFlight(p)'
  <2>1. wire'[p] \in SUBSET Segments(d, c, UsedBy(y), AckOf(y))
    BY <1>4
  <2>2. QED
    BY <1>1, <1>3, <2>1 DEF InFlight
<1>11. InFlight(q)'
  <2>1. Segments(c, d, UsedBy(x), AckOf(x)) \in SUBSET Segments(c, d, UsedBy(t), AckOf(t))
    BY <1>7, SegmentsGrow
  <2>2. wire'[q] \in SUBSET Segments(c, d, UsedBy(t), AckOf(t))
    BY <1>4, <2>1
  <2>3. QED
    BY <1>1, <1>3, <2>2 DEF InFlight
<1>12. HasRead(p)'
  <2>1. Hears(Flow(Other(p)), peer[Other(p)], t)
    BY <1>1, <1>2, <1>5
  <2>2. Longer(peer[p].inbound_stream_, t.inbound_stream_)
    BY <1>2, <1>5
  <2>3. /\ delivered[p] = Slice(SourceOf(q), 0, t.inbound_stream_.bytes_popped_)
        /\ eof[p] \in BOOLEAN
        /\ eof[p] => Reader_is_finished(t.inbound_stream_)
    BY <1>1, <2>1, <2>2, ReadStays
  <2>4. QED
    BY <1>1, <1>3, <2>3 DEF HasRead
<1>13. HasRead(q)'
  <2>1. HasRead(q)
    BY <1>1 DEF Inv
  <2>2. QED
    BY <1>1, <1>2, <1>3, <2>1 DEF HasRead
<1>14. /\ DOMAIN peer' = Peers /\ DOMAIN wire' = Peers
       /\ DOMAIN delivered' = Peers /\ DOMAIN eof' = Peers
  BY <1>3 DEF Inv
<1>15. QED
  BY <1>1, <1>8, <1>9, <1>10, <1>11, <1>12, <1>13, <1>14 DEF Inv

LEMMA CollectStep ==
  ASSUME Inv, NEW p \in Peers, NEW now,
         Handled(Flow(p), Flow(Other(p)), peer[Other(p)], peer[p], now),
         NEW taken, Collect(p, now, taken), UNCHANGED <<delivered, eof>>
  PROVE  Inv'
<1>1. PICK q, c, d : q = Other(p) /\ c = Flow(p) /\ d = Flow(q)
  OBVIOUS
<1>2. /\ q \in Peers /\ q # p /\ Ways(c, d) /\ Sends(c, peer[p]) /\ Sends(d, peer[q])
      /\ Hears(d, peer[q], peer[p]) /\ Handled(c, d, peer[q], peer[p], now)
  BY <1>1, EndFacts
<1>3. PICK r : /\ r = collect_segments(now)
               /\ peer' = [peer EXCEPT ![p] =
                             [r.peer EXCEPT !.sender_.m_consecutive_retransmissions = 0]]
               /\ wire' = [z \in Peers |-> IF ~active(peer'[z]) THEN {}
                                           ELSE IF z = p THEN wire[z] \ taken
                                           ELSE wire[z] \cup Range(r.segments)]
  BY DEF Collect
<1>4. PICK t : t = [r.peer EXCEPT !.sender_.m_consecutive_retransmissions = 0]
  OBVIOUS
<1>5. PICK segments : segments = Range(r.segments)
  OBVIOUS
<1>6. /\ Handled(c, d, peer[q], peer[p], t)
      /\ Rests(t)
      /\ segments \in SUBSET Segments(c, d, UsedBy(t), AckOf(t))
  BY <1>2, <1>3, <1>4, <1>5, HandledThenCollected
<1>7. /\ DOMAIN wire' = Peers
      /\ wire'[p] \in SUBSET wire[p]
      /\ wire'[q] \in SUBSET (wire[q] \cup segments)
  BY <1>2, <1>3, <1>5
<1>8. peer' = [peer EXCEPT ![p] = t]
  BY <1>3, <1>4
<1>9. QED
  BY <1>1, <1>6, <1>7, <1>8, CallbackKeepsInv

\* A step in which p sends, but hears nothing.
LEMMA SpokenStep ==
  ASSUME Inv, NEW p \in Peers, NEW now, Speaks(Flow(p), peer[p], now),
         NEW taken, Collect(p, now, taken), UNCHANGED <<delivered, eof>>
  PROVE  Inv'
<1>1. PICK q, c, d : q = Other(p) /\ c = Flow(p) /\ d = Flow(q)
  OBVIOUS
<1>2. /\ Ways(c, d) /\ Sends(c, peer[p]) /\ Sends(d, peer[q]) /\ Hears(d, peer[q], peer[p])
      /\ peer[p].sender_.m_window_left <= AckOf(peer[q])
  BY <1>1, EndFacts
<1>3. Handled(c, d, peer[q], peer[p], now)
  BY <1>1, <1>2, SpeaksIsHandled
<1>4. QED
  BY <1>1, <1>3, CollectStep

\* push, of a peer the program has written to or not.
LEMMA PushStep ==
  ASSUME Inv, NEW p \in Peers, NEW written, Speaks(Flow(p), peer[p], written),
         NEW taken, Collect(p, TCPPeer_push(written), taken), UNCHANGED <<delivered, eof>>
  PROVE  Inv'
<1>1. PICK c, d : c = Flow(p) /\ d = Flow(Other(p))
  OBVIOUS
<1>2. Ways(c, d) /\ Sends(c, peer[p]) /\ Sends(c, written) /\ Speaks(c, peer[p], written)
  BY <1>1, EndFacts DEF Speaks
<1>3. PICK now : now = TCPPeer_push(written)
  OBVIOUS
<1>4. Speaks(c, written, now)
  BY <1>2, <1>3, PeerPush
<1>5. Speaks(c, peer[p], now)
  BY <1>2, <1>4, SpeaksOn
<1>6. QED
  BY <1>1, <1>3, <1>5, SpokenStep

LEMMA ConnectStep ==
  ASSUME Inv, Connect
  PROVE  Inv'
<1>1. client \in Peers
  BY DEF Peers
<1>2. PICK c, d : c = Flow(client) /\ d = Flow(Other(client))
  OBVIOUS
<1>3. Ways(c, d) /\ Sends(c, peer[client])
  BY <1>1, <1>2, EndFacts
<1>4. Speaks(Flow(client), peer[client], peer[client])
  BY <1>2, <1>3, SpeaksFirst
<1>5. Collect(client, TCPPeer_push(peer[client]), {}) /\ UNCHANGED <<delivered, eof>>
  BY DEF Connect
<1>6. QED
  BY <1>1, <1>4, <1>5, PushStep

LEMMA WriteStep ==
  ASSUME Inv, NEW p \in Peers, Write(p)
  PROVE  Inv'
<1>1. PICK c, d, x, o : /\ c = Flow(p) /\ d = Flow(Other(p))
                        /\ x = peer[p] /\ o = x.outbound_stream_
  OBVIOUS
<1>2. Ways(c, d) /\ Sends(c, x) /\ c.source = SourceOf(p)
  BY <1>1, EndFacts, FlowProperties
<1>3. PICK last \in Least(o.bytes_pushed_ + 1, Len(SourceOf(p))) .. Len(SourceOf(p)) :
           Collect(p, TCPPeer_push([x EXCEPT !.outbound_stream_ = WrittenBy(p, last)]), {})
  BY <1>1 DEF Write
<1>4. ~o.is_close_ /\ UNCHANGED <<delivered, eof>>
  BY <1>1 DEF Write, CanWrite
<1>5. o.bytes_pushed_ \in Nat /\ o.bytes_pushed_ <= Len(c.source) /\ Len(c.source) \in Nat
  BY <1>1, <1>2, Numbers, Constants DEF Ways, Sends
<1>6. last \in Nat /\ last <= Len(c.source)
      /\ (o.bytes_pushed_ < Len(c.source) => o.bytes_pushed_ <= last)
  BY <1>2, <1>3, <1>5 DEF Least
<1>7. PICK w : w = WrittenBy(p, last)
  OBVIOUS
<1>8. \/ /\ o.bytes_pushed_ <= last /\ last <= Len(c.source)
         /\ w = Writer_push(o, Slice(c.source, o.bytes_pushed_, last)) /\ ~o.is_close_
      \/ o.bytes_pushed_ = Len(c.source) /\ w = Writer_close(o)
  BY <1>1, <1>2, <1>4, <1>5, <1>6, <1>7 DEF WrittenBy
<1>9. PICK written : written = [x EXCEPT !.outbound_stream_ = w]
  OBVIOUS
<1>10. Speaks(c, x, written)
  BY <1>1, <1>2, <1>6, <1>8, <1>9, PeerWrite
<1>11. Collect(p, TCPPeer_push(written), {})
  BY <1>3, <1>7, <1>9
<1>12. QED
  BY <1>1, <1>4, <1>10, <1>11, PushStep

LEMMA ReceiveStep ==
  ASSUME Inv, NEW p \in Peers, Receive(p)
  PROVE  Inv'
<1>1. PICK q, c, d : q = Other(p) /\ c = Flow(p) /\ d = Flow(q)
  OBVIOUS
<1>2. PICK x, y : x = peer[p] /\ y = peer[q]
  OBVIOUS
<1>3. /\ Ways(c, d) /\ Sends(d, y) /\ Hears(d, y, x) /\ Sends(c, x) /\ Rests(x)
      /\ AckOf(y) \in Nat /\ AckOf(y) <= UsedBy(x) /\ x.sender_.m_window_left <= AckOf(y)
      /\ wire[p] \in SUBSET Segments(d, c, UsedBy(y), AckOf(y))
  BY <1>1, <1>2, EndFacts
<1>4. PICK seg \in wire[p] : Collect(p, TCPPeer_receive(x, seg), {seg})
  BY <1>2 DEF Receive
<1>5. PICK now : now = TCPPeer_receive(x, seg)
  OBVIOUS
<1>6. x.sender_.m_send_queue_ = <<>> /\ seg \in Segments(d, c, UsedBy(y), AckOf(y))
  BY <1>3, <1>4 DEF Rests
<1>7. /\ Sends(c, now) /\ Hears(d, y, now) /\ Advances(x, now)
      /\ Longer(x.inbound_stream_, now.inbound_stream_)
      /\ now.sender_.m_window_left <= AckOf(y)
  BY <1>3, <1>5, <1>6, PeerReceive
<1>8. Handled(Flow(p), Flow(Other(p)), peer[Other(p)], peer[p], now)
  BY <1>1, <1>2, <1>7 DEF Handled
<1>9. Collect(p, now, {seg}) /\ UNCHANGED <<delivered, eof>>
  BY <1>4, <1>5 DEF Receive
<1>10. QED
  BY <1>8, <1>9, CollectStep

LEMMA TickStep ==
  ASSUME Inv, NEW p \in Peers, Tick(p)
  PROVE  Inv'
<1>1. PICK c, d, x : c = Flow(p) /\ d = Flow(Other(p)) /\ x = peer[p]
  OBVIOUS
<1>2. Ways(c, d) /\ Sends(c, x) /\ x.sender_.m_send_queue_ = <<>>
  BY <1>1, EndFacts DEF Rests
<1>3. tick_is_defined(x.sender_, 0)
  BY <1>1 DEF Tick, CanTick
<1>4. PICK now : now = TCPPeer_tick(x, 0)
  OBVIOUS
<1>5. Speaks(c, x, now)
  BY <1>2, <1>3, <1>4, PeerTick
<1>6. Collect(p, now, {}) /\ UNCHANGED <<delivered, eof>>
  BY <1>1, <1>4 DEF Tick
<1>7. QED
  BY <1>1, <1>5, <1>6, SpokenStep

\* What the program reads changes nothing but how much is left to read.
LEMMA PeerRead ==
  ASSUME NEW c, NEW d, Ways(c, d), NEW y, Sends(d, y), NEW x, Hears(d, y, x), Sends(c, x),
         NEW n \in Nat, NEW s, s = x.inbound_stream_, NEW w, w = read_rest(s, n),
         NEW t, t = [x EXCEPT !.inbound_stream_ = w]
  PROVE  /\ Sends(c, t) /\ Hears(d, y, t) /\ Advances(x, t)
         /\ Rests(x) => Rests(t)
         /\ t.sender_ = x.sender_ /\ t.inbound_stream_ = w
         /\ AckOf(t) = AckOf(x)
         /\ s.bytes_popped_ <= w.bytes_popped_
         /\ w.bytes_pushed_ = s.bytes_pushed_
         /\ w.is_close_ = s.is_close_
         /\ read_out(s, n) = Slice(d.source, s.bytes_popped_, w.bytes_popped_)
<1>1. /\ DOMAIN t = PeerFields
      /\ t.sender_ = x.sender_ /\ t.outbound_stream_ = x.outbound_stream_
      /\ t.need_send_ = x.need_send_ /\ t.receiver_ = x.receiver_
      /\ t.reassembler_ = x.reassembler_ /\ t.inbound_stream_ = w
  BY DEF Sends, PeerFields
<1>2. PICK src : src = Sent(d, y)
  OBVIOUS
<1>3. /\ src \in Seq(Nat) /\ RecvCapacity \in Nat
      /\ Assembled(x.reassembler_, s, src, Nat, RecvCapacity)
      /\ y.outbound_stream_.bytes_popped_ \in Nat
      /\ y.outbound_stream_.bytes_popped_ <= Len(d.source)
      /\ Len(src) = y.outbound_stream_.bytes_popped_
  BY <1>2, SentProperties DEF Hears
<1>4. s \in ByteStreams(Nat, RecvCapacity) /\ Carries(s, src)
  BY <1>3 DEF Assembled
<1>5. /\ w \in ByteStreams(Nat, RecvCapacity)
      /\ Carries(w, src)
      /\ s.bytes_popped_ <= w.bytes_popped_
      /\ w.bytes_pushed_ = s.bytes_pushed_
      /\ w.is_close_ = s.is_close_
      /\ read_out(s, n) = Slice(src, s.bytes_popped_, w.bytes_popped_)
  BY <1>3, <1>4, ReadCarries
<1>6. w.error_ = s.error_
  BY <1>4 DEF read_rest, Reader_pop, ByteStreams
<1>7. Assembled(x.reassembler_, w, src, Nat, RecvCapacity)
  BY <1>3, <1>5 DEF Assembled
<1>8. Hears(d, y, t)
  BY <1>1, <1>2, <1>5, <1>6, <1>7 DEF Hears
<1>9. Sends(c, t)
  BY <1>1 DEF Sends
<1>10. (has_ackno(t) <=> has_ackno(x)) /\ AckOf(t) = AckOf(x)
  <2>1. has_ackno(t) <=> has_ackno(x)
    BY <1>1, <1>8, AckProperties
  <2>2. absolute_ackno(t.inbound_stream_) = absolute_ackno(x.inbound_stream_)
    BY <1>1, <1>5 DEF absolute_ackno
  <2>3. QED
    BY <2>1, <2>2, Zenon DEF AckOf
<1>11. Rests(x) => Rests(t)
  BY <1>1, <1>10 DEF Rests
<1>12. Advances(x, t)
  <2>1. AckOf(x) \in Nat
    BY AckBelow
  <2>2. Grows(x, t)
    BY <1>1, SendsNumbers DEF Grows, UsedBy
  <2>3. QED
    BY <1>10, <2>1, <2>2 DEF Advances
<1>13. read_out(s, n) = Slice(d.source, s.bytes_popped_, w.bytes_popped_)
  <2>1. PICK a \in Nat, b \in Nat, e \in Nat :
          /\ a = s.bytes_popped_ /\ b = w.bytes_popped_
          /\ e = y.outbound_stream_.bytes_popped_
    BY <1>3, <1>4, <1>5 DEF ByteStreams
  <2>2. a <= b /\ b <= e /\ e <= Len(d.source)
    <3>1. w.bytes_popped_ <= w.bytes_pushed_ /\ w.bytes_pushed_ <= Len(src)
      BY <1>5 DEF Carries
    <3>2. w.bytes_pushed_ \in Nat
      BY <1>5 DEF ByteStreams
    <3>3. QED
      BY <1>3, <1>5, <2>1, <3>1, <3>2
  <2>3. SliceAlgebra(d.source, Nat)
    BY Constants DEF Ways
  <2>4. Slice(Slice(d.source, 0, e), a, b) = Slice(d.source, 0 + a, 0 + b)
    <3>1. PICK zero \in Nat : zero = 0
      OBVIOUS
    <3>2. zero <= e /\ zero + b <= e
      BY <2>1, <2>2, <3>1
    <3>3. Slice(Slice(d.source, zero, e), a, b) = Slice(d.source, zero + a, zero + b)
      BY <2>1, <2>2, <2>3, <3>2 DEF SliceAlgebra
    <3>4. QED
      BY <3>1, <3>3
  <2>5. 0 + a = a /\ 0 + b = b
    OBVIOUS
  <2>6. QED
    BY <1>2, <1>5, <2>1, <2>4, <2>5 DEF Sent
<1>14. QED
  BY <1>1, <1>5, <1>8, <1>9, <1>10, <1>11, <1>12, <1>13

\* What a step does in which a program reads.
Reads(p, w) ==
  /\ peer' = [peer EXCEPT ![p] = [@ EXCEPT !.inbound_stream_ = w]]
  /\ peer[p].inbound_stream_.bytes_popped_ <= w.bytes_popped_
  /\ w.bytes_popped_ <= w.bytes_pushed_
  /\ w.bytes_pushed_ = peer[p].inbound_stream_.bytes_pushed_
  /\ w.is_close_ = peer[p].inbound_stream_.is_close_
  /\ delivered' = [delivered EXCEPT ![p] = Slice(SourceOf(Other(p)), 0, w.bytes_popped_)]
  /\ eof' = [eof EXCEPT ![p] = Reader_is_finished(w)]

LEMMA ReadStep ==
  ASSUME Inv, NEW p \in Peers, Read(p)
  PROVE  /\ Inv'
         /\ \E w : Reads(p, w) /\ w = peer'[p].inbound_stream_
         /\ UNCHANGED <<wire, losses>>
<1>1. PICK q, c, d : q = Other(p) /\ c = Flow(p) /\ d = Flow(q)
  OBVIOUS
<1>2. PICK x, y, s : x = peer[p] /\ y = peer[q] /\ s = x.inbound_stream_
  OBVIOUS
<1>3. /\ q \in Peers /\ q # p /\ Other(q) = p /\ Ways(c, d) /\ Ways(d, c)
      /\ Sends(c, x) /\ Rests(x) /\ Hears(d, y, x)
      /\ Sends(d, y) /\ Rests(y) /\ Hears(c, x, y)
      /\ x.sender_.m_window_left <= AckOf(y)
  BY <1>1, <1>2, EndFacts
<1>4. Peers = {p, q}
  BY <1>1 DEF Peers, Other
<1>5. PICK n \in Least(1, Len(s.buffer_)) .. Len(s.buffer_) :
        /\ delivered' = [delivered EXCEPT ![p] = Joined(@, read_out(s, n))]
        /\ peer' = [peer EXCEPT ![p].inbound_stream_ = read_rest(@, n)]
  BY <1>2 DEF Read
<1>6. n \in Nat
  <2>1. s.buffer_ \in Seq(Nat)
    BY <1>2, <1>3, HeardNumbers DEF ByteStreams
  <2>2. Len(s.buffer_) \in Nat
    BY <2>1, LenProperties
  <2>3. QED
    BY <2>2 DEF Least
<1>7. PICK w, t : w = read_rest(s, n) /\ t = [x EXCEPT !.inbound_stream_ = w]
  OBVIOUS
<1>8. peer' = [peer EXCEPT ![p] = t] /\ peer' = [peer EXCEPT ![p] = [@ EXCEPT !.inbound_stream_ = w]]
  BY <1>2, <1>5, <1>7
<1>9. /\ Sends(c, t) /\ Hears(d, y, t) /\ Advances(x, t) /\ Rests(t)
      /\ t.sender_ = x.sender_ /\ t.inbound_stream_ = w
      /\ AckOf(t) = AckOf(x)
      /\ s.bytes_popped_ <= w.bytes_popped_
      /\ w.bytes_pushed_ = s.bytes_pushed_
      /\ w.is_close_ = s.is_close_
      /\ read_out(s, n) = Slice(d.source, s.bytes_popped_, w.bytes_popped_)
  <2>1. /\ Ways(c, d) /\ Sends(d, y) /\ Hears(d, y, x) /\ Sends(c, x)
        /\ n \in Nat /\ s = x.inbound_stream_ /\ w = read_rest(s, n)
        /\ t = [x EXCEPT !.inbound_stream_ = w]
    BY <1>2, <1>3, <1>6, <1>7
  <2>2. /\ Sends(c, t) /\ Hears(d, y, t) /\ Advances(x, t)
        /\ Rests(x) => Rests(t)
        /\ t.sender_ = x.sender_ /\ t.inbound_stream_ = w
        /\ AckOf(t) = AckOf(x)
        /\ s.bytes_popped_ <= w.bytes_popped_
        /\ w.bytes_pushed_ = s.bytes_pushed_
        /\ w.is_close_ = s.is_close_
        /\ read_out(s, n) = Slice(d.source, s.bytes_popped_, w.bytes_popped_)
    BY <2>1, PeerRead
  <2>3. QED
    BY <1>3, <2>2
<1>10. peer'[p] = t /\ peer'[q] = y /\ DOMAIN peer' = Peers
  BY <1>2, <1>3, <1>8 DEF Inv
<1>11. UNCHANGED <<wire, losses>> /\ eof' = [eof EXCEPT ![p] = Reader_is_finished(peer'[p].inbound_stream_)]
  BY DEF Read
<1>12. w.bytes_popped_ <= w.bytes_pushed_
  BY <1>3, <1>9, HeardNumbers
<1>13. delivered' = [delivered EXCEPT ![p] = Slice(SourceOf(q), 0, w.bytes_popped_)]
  <2>1. delivered[p] = Slice(SourceOf(q), 0, s.bytes_popped_)
    BY <1>1, <1>2 DEF Inv, HasRead
  <2>2. d.source = SourceOf(q)
    BY <1>1, <1>3, FlowProperties
  <2>3. PICK a \in Nat, b \in Nat : a = s.bytes_popped_ /\ b = w.bytes_popped_
    BY <1>2, <1>3, <1>9, HeardNumbers
  <2>4. a <= b /\ b <= Len(d.source)
    <3>1. w.bytes_pushed_ \in Nat /\ w.bytes_pushed_ <= y.outbound_stream_.bytes_popped_
      BY <1>3, <1>9, HeardNumbers
    <3>2. /\ y.outbound_stream_.bytes_popped_ \in Nat /\ Len(d.source) \in Nat
          /\ y.outbound_stream_.bytes_popped_ <= Len(d.source)
      BY <1>3, SentProperties
    <3>3. QED
      BY <1>9, <1>12, <2>3, <3>1, <3>2
  <2>5. Joined(Slice(d.source, 0, a), Slice(d.source, a, b)) = Slice(d.source, 0, b)
    <3>1. SliceAlgebra(d.source, Nat)
      BY <1>3, Constants DEF Ways
    <3>2. 0 \in Nat /\ 0 <= a /\ a \in Nat /\ b \in Nat
      BY <2>3
    <3>3. QED
      BY <2>4, <3>1, <3>2, Zenon DEF SliceAlgebra
  <2>6. Joined(delivered[p], read_out(s, n)) = Slice(SourceOf(q), 0, w.bytes_popped_)
    BY <1>9, <2>1, <2>2, <2>3, <2>5
  <2>7. QED
    BY <1>5, <2>6
<1>14. Reads(p, w)
  BY <1>1, <1>2, <1>8, <1>9, <1>10, <1>11, <1>12, <1>13 DEF Reads
<1>15. Endpoint(p)'
  BY <1>1, <1>3, <1>9, <1>10 DEF Endpoint
<1>16. Endpoint(q)'
  <2>1. Hears(c, t, y)
    BY <1>3, <1>9, HearsOn
  <2>2. y.sender_.m_window_left <= AckOf(t)
    BY <1>1, <1>2, <1>3, <1>9, EndFacts
  <2>3. QED
    BY <1>1, <1>3, <1>10, <2>1, <2>2 DEF Endpoint
<1>17. InFlight(p)' /\ InFlight(q)'
  <2>1. UsedBy(t) = UsedBy(x)
    BY <1>7, <1>3, <1>9 DEF UsedBy, Sends, PeerFields
  <2>2. InFlight(p) /\ InFlight(q)
    BY <1>3 DEF Inv
  <2>3. InFlight(p)'
    BY <1>1, <1>2, <1>3, <1>10, <1>11, <2>2 DEF InFlight
  <2>4. InFlight(q)'
    BY <1>1, <1>2, <1>3, <1>9, <1>10, <1>11, <2>1, <2>2 DEF InFlight
  <2>5. QED
    BY <2>3, <2>4
<1>18. HasRead(p)'
  <2>1. delivered'[p] = Slice(SourceOf(q), 0, w.bytes_popped_)
    BY <1>13 DEF Inv
  <2>2. eof'[p] = Reader_is_finished(w)
    BY <1>9, <1>10, <1>11 DEF Inv
  <2>3. Reader_is_finished(w) \in BOOLEAN
    BY DEF Reader_is_finished
  <2>4. QED
    BY <1>1, <1>9, <1>10, <2>1, <2>2, <2>3 DEF HasRead
<1>19. HasRead(q)'
  <2>1. HasRead(q) /\ delivered'[q] = delivered[q] /\ eof'[q] = eof[q]
    BY <1>3, <1>11, <1>13 DEF Inv
  <2>2. QED
    BY <1>2, <1>10, <2>1 DEF HasRead
<1>20. DOMAIN wire' = Peers /\ DOMAIN delivered' = Peers /\ DOMAIN eof' = Peers
  BY <1>11, <1>13 DEF Inv
<1>21. Inv'
  BY <1>4, <1>10, <1>15, <1>16, <1>17, <1>18, <1>19, <1>20 DEF Inv
<1>22. QED
  BY <1>9, <1>10, <1>11, <1>14, <1>21

\* The network forgets, the peers do not.
LEMMA LoseStep ==
  ASSUME Inv, NEW p \in Peers, Lose(p)
  PROVE  Inv'
<1>1. PICK seg \in wire[p] : wire' = [wire EXCEPT ![p] = @ \ {seg}]
  BY DEF Lose
<1>2. UNCHANGED <<peer, delivered, eof>>
  BY DEF Lose
<1>3. DOMAIN wire' = Peers /\ \A q \in Peers : wire'[q] \in SUBSET wire[q]
  BY <1>1 DEF Inv
<1>4. ASSUME NEW q \in Peers
      PROVE  (Endpoint(q) /\ InFlight(q) /\ HasRead(q))'
  <2>1. Endpoint(q) /\ InFlight(q) /\ HasRead(q)
    BY DEF Inv
  <2>2. Endpoint(q)' /\ HasRead(q)'
    BY <1>2, <2>1 DEF Endpoint, HasRead
  <2>3. InFlight(q)'
    BY <1>2, <1>3, <2>1 DEF InFlight
  <2>4. QED
    BY <2>2, <2>3
<1>5. DOMAIN peer' = Peers /\ DOMAIN delivered' = Peers /\ DOMAIN eof' = Peers
  BY <1>2 DEF Inv
<1>6. QED
  BY <1>3, <1>4, <1>5 DEF Inv

\* Before the first call.
LEMMA PeerAtFirst ==
  ASSUME NEW p \in Peers, NEW q \in Peers, NEW c, c = Flow(p), NEW d, d = Flow(q),
         Ways(c, d), NEW x, x = TCPPeer(Config(p)), NEW y, y = TCPPeer(Config(q))
  PROVE  /\ Sends(c, x) /\ Rests(x) /\ Hears(d, y, x)
         /\ x.sender_.m_window_left = 0 /\ AckOf(x) = 0
         /\ x.inbound_stream_.bytes_popped_ = 0 /\ Slice(d.source, 0, 0) = <<>>
<1>1. PICK s, o, i : s = x.sender_ /\ o = x.outbound_stream_ /\ i = x.inbound_stream_
  OBVIOUS
<1>2. PICK none : none = [k \in {} |-> {}]
  OBVIOUS
<1>3. IsFunction(none) /\ DOMAIN none = {}
  BY <1>2 DEF IsFunction
<1>4. /\ DOMAIN x = PeerFields
      /\ s = TCPSender(0, c.isn) /\ x.receiver_ = TCPReceiver /\ x.reassembler_ = Reassembler
      /\ o = ByteStream(SendCapacity) /\ i = ByteStream(RecvCapacity) /\ x.need_send_ = FALSE
      /\ y.outbound_stream_ = ByteStream(SendCapacity)
  BY <1>1 DEF TCPPeer, Config, PeerFields, Flow
<1>5. /\ DOMAIN s = Fields
      /\ s.m_outstanding_messages_ = none
      /\ s.m_send_queue_ = <<>>
      /\ s.m_syc_pushed = FALSE
      /\ s.m_fin_pushed = FALSE
      /\ s.m_retransmission_timer_ = RetransmissionTimer
      /\ s.m_isn_ = c.isn
      /\ s.m_window_left = 0
      /\ s.m_window_size = 1
  BY <1>2, <1>4 DEF TCPSender, Fields
<1>6. /\ c.capacity = SendCapacity /\ c.byte = Nat /\ c.source \in Seq(Nat) /\ Len(c.source) \in Nat
      /\ d.source \in Seq(Nat) /\ Len(d.source) \in Nat /\ d.byte = Nat
      /\ SendCapacity \in Nat /\ RecvCapacity \in Nat
  <2>1. Direction(c) /\ Direction(d) /\ c.byte = Nat /\ d.byte = Nat
    BY DEF Ways
  <2>2. QED
    BY <2>1, Constants, CapacityAssumption DEF Flow
<1>7. ASSUME NEW capacity \in Nat, NEW b, b = ByteStream(capacity), NEW src \in Seq(Nat)
      PROVE  /\ b \in ByteStreams(Nat, capacity) /\ Carries(b, src)
             /\ b.bytes_popped_ = 0 /\ b.bytes_pushed_ = 0 /\ b.is_close_ = FALSE
             /\ b.error_ = FALSE /\ b.buffer_ = <<>>
  <2>1. b = [buffer_ |-> <<>>, capacity_ |-> capacity, bytes_pushed_ |-> 0,
             bytes_popped_ |-> 0, is_close_ |-> FALSE, error_ |-> FALSE]
    BY <1>7 DEF ByteStream
  <2>2. <<>> \in Seq(Nat)
    BY EmptySeq
  <2>3. b \in ByteStreams(Nat, capacity)
    BY <1>7, <2>1, <2>2 DEF ByteStreams
  <2>4. Slice(src, 0, 0) = <<>> /\ Len(src) \in Nat
    BY <1>7, SliceEmpty, LenProperties, 0 \in Nat
  <2>5. Carries(b, src)
    BY <1>7, <2>1, <2>4 DEF Carries
  <2>6. QED
    BY <2>1, <2>3, <2>5
<1>8. /\ o \in ByteStreams(Nat, SendCapacity) /\ Carries(o, c.source)
      /\ o.bytes_popped_ = 0 /\ o.is_close_ = FALSE /\ o.error_ = FALSE
  BY <1>4, <1>6, <1>7
<1>9. Used(s, o) = 0
  BY <1>5, <1>8 DEF Used, One
<1>10. Consistent(c, s, o)
  <2>1. Tiled(c, s.m_outstanding_messages_, s.m_window_left, Used(s, o))
    BY <1>3, <1>5, <1>9 DEF Tiled
  <2>2. s.m_send_queue_ \in Seq(Sendable(c, Used(s, o))) /\ s.m_send_queue_ = <<>>
    BY <1>5, EmptySeq
  <2>3. /\ s.m_syc_pushed \in BOOLEAN /\ s.m_fin_pushed \in BOOLEAN
        /\ ~s.m_fin_pushed
    BY <1>5, Zenon
  <2>4. s.m_window_left \in Nat /\ s.m_window_size \in Nat
    BY <1>5
  <2>5. QED
    BY <1>5, <1>6, <1>8, <2>1, <2>2, <2>3, <2>4 DEF Consistent
<1>11. Runs(s.m_retransmission_timer_, DOMAIN s.m_outstanding_messages_, s.m_send_queue_)
  BY <1>3, <1>5 DEF Runs, RetransmissionTimer
<1>12. Sends(c, x)
  <2>1. x.need_send_ \in BOOLEAN
    BY <1>4, Zenon
  <2>2. QED
    BY <1>1, <1>4, <1>8, <1>10, <1>11, <2>1 DEF Sends
<1>13. our_ackno(x) = {} /\ ~has_ackno(x) /\ AckOf(x) = 0
  <2>1. our_ackno(x) = {}
    BY <1>4 DEF our_ackno, TCPReceiver_send, TCPReceiver
  <2>2. QED
    BY <2>1 DEF has_ackno, AckOf
<1>14. Rests(x)
  BY <1>1, <1>5, <1>13 DEF Rests
<1>15. Slice(d.source, 0, 0) = <<>>
  BY <1>6, SliceEmpty, 0 \in Nat
<1>16. Sent(d, y) = <<>>
  <2>1. y.outbound_stream_.bytes_popped_ = 0
    BY <1>4, <1>6, <1>7
  <2>2. QED
    BY <1>15, <2>1 DEF Sent
<1>17. <<>> \in Seq(Nat) /\ Len(<<>>) = 0
  BY EmptySeq
<1>18. /\ i \in ByteStreams(Nat, RecvCapacity) /\ Carries(i, <<>>)
       /\ i.bytes_popped_ = 0 /\ i.bytes_pushed_ = 0 /\ i.is_close_ = FALSE /\ i.error_ = FALSE
  BY <1>4, <1>6, <1>7, <1>17
<1>19. UINT64_MAX \in Nat /\ UINT64_MAX # 0
  BY ModulusAssumption DEF UINT64_MAX
<1>20. /\ DOMAIN x.reassembler_ = {"m_buf", "m_bytes_pending", "m_stream_end"}
       /\ x.reassembler_.m_buf = [k \in {} |-> <<>>]
       /\ x.reassembler_.m_stream_end = UINT64_MAX
  BY <1>4 DEF Reassembler
<1>21. Assembled(x.reassembler_, i, <<>>, Nat, RecvCapacity)
  <2>1. Blocks(x.reassembler_.m_buf, <<>>, i.bytes_pushed_ + 1)
    BY <1>20 DEF Blocks, IsFunction
  <2>2. i.is_close_ <=> i.bytes_pushed_ = x.reassembler_.m_stream_end
    BY <1>18, <1>19, <1>20
  <2>3. QED
    BY <1>18, <1>20, <2>1, <2>2 DEF Assembled
<1>22. /\ DOMAIN x.receiver_ = {"m_recv_zero_point", "m_syn_rcvd", "m_fin_rcvd"}
       /\ x.receiver_.m_syn_rcvd = FALSE /\ x.receiver_.m_fin_rcvd = FALSE
  BY <1>4 DEF TCPReceiver
<1>23. x.receiver_.m_syn_rcvd \in BOOLEAN /\ x.receiver_.m_fin_rcvd \in BOOLEAN
  BY <1>22, Zenon
<1>24. Hears(d, y, x)
  BY <1>1, <1>16, <1>18, <1>20, <1>21, <1>22, <1>23 DEF Hears
<1>25. QED
  BY <1>1, <1>5, <1>12, <1>13, <1>14, <1>15, <1>18, <1>24

LEMMA InitInv == Init => Inv
<1> SUFFICES ASSUME Init PROVE Inv
  OBVIOUS
<1>1. /\ peer = [p \in Peers |-> TCPPeer(Config(p))]
      /\ wire = [p \in Peers |-> {}]
      /\ delivered = [p \in Peers |-> <<>>]
      /\ eof = [p \in Peers |-> FALSE]
  BY DEF Init
<1>2. ASSUME NEW p \in Peers
      PROVE  Endpoint(p) /\ InFlight(p) /\ HasRead(p)
  <2>1. PICK q, c, d : q = Other(p) /\ c = Flow(p) /\ d = Flow(q)
    OBVIOUS
  <2>2. q \in Peers /\ Other(q) = p /\ Ways(c, d) /\ Ways(d, c) /\ d.source = SourceOf(q)
    BY <2>1, FlowProperties
  <2>3. PICK x, y : x = TCPPeer(Config(p)) /\ y = TCPPeer(Config(q))
    OBVIOUS
  <2>4. x = peer[p] /\ y = peer[q]
    BY <1>1, <2>2, <2>3
  <2>5. /\ Sends(c, x) /\ Rests(x) /\ Hears(d, y, x)
        /\ x.sender_.m_window_left = 0
        /\ x.inbound_stream_.bytes_popped_ = 0 /\ Slice(d.source, 0, 0) = <<>>
    BY <2>1, <2>2, <2>3, PeerAtFirst
  <2>6. AckOf(y) = 0
    BY <2>1, <2>2, <2>3, PeerAtFirst
  <2>7. Endpoint(p)
    BY <2>1, <2>4, <2>5, <2>6 DEF Endpoint
  <2>8. InFlight(p)
    BY <1>1 DEF InFlight
  <2>9. HasRead(p)
    <3>1. delivered[p] = <<>> /\ eof[p] = FALSE /\ eof[p] \in BOOLEAN
      BY <1>1, Zenon
    <3>2. QED
      BY <2>1, <2>2, <2>4, <2>5, <3>1 DEF HasRead
  <2>10. QED
    BY <2>7, <2>8, <2>9
<1>3. DOMAIN peer = Peers /\ DOMAIN wire = Peers /\ DOMAIN delivered = Peers /\ DOMAIN eof = Peers
  BY <1>1
<1>4. QED
  BY <1>2, <1>3 DEF Inv

LEMMA NextInv == Inv /\ [Next]_vars => Inv'
<1>1. Inv /\ UNCHANGED vars => Inv'
  BY DEF vars, Inv, Endpoint, InFlight, HasRead
<1>2. QED
  BY <1>1, ConnectStep, WriteStep, ReceiveStep, TickStep, ReadStep, LoseStep DEF Next

(***************************************************************************)
(* What the runs check.                                                    *)
(***************************************************************************)

LEMMA InvHolds == Safety => []Inv
BY InitInv, NextInv, PTL DEF Safety

\* The two ends agree: what a sender takes for acknowledged has arrived, every
\* number that was used and has not arrived is in an outstanding message, and
\* the timer runs while there is one.
THEOREM NothingForgottenCorrect == Safety => []NothingForgotten
<1>1. Inv => NothingForgotten
  <2> SUFFICES ASSUME Inv, NEW p \in Peers, NEW s, s = peer[p].sender_
               PROVE  /\ s.m_window_left <= Acknowledged(Other(p))
                      /\ Acknowledged(Other(p)) <= get_absolute_seqno(s)
                      /\ \A n \in Acknowledged(Other(p)) .. get_absolute_seqno(s) - 1 :
                           \E k \in DOMAIN s.m_outstanding_messages_ :
                             k <= n /\ n < wait_for_ackno(s, k)
                      /\ s.m_send_queue_ = <<>>
                      /\ s.m_retransmission_timer_.m_running <=>
                           DOMAIN s.m_outstanding_messages_ # {}
    BY DEF NothingForgotten
  <2>1. PICK q, c, d : q = Other(p) /\ c = Flow(p) /\ d = Flow(q)
    OBVIOUS
  <2>2. /\ Ways(c, d) /\ Sends(c, peer[p]) /\ Rests(peer[p])
        /\ s.m_window_left <= AckOf(peer[q])
        /\ AckOf(peer[q]) \in Nat /\ AckOf(peer[q]) <= UsedBy(peer[p])
    BY <2>1, EndFacts
  <2>3. Acknowledged(q) = AckOf(peer[q])
    BY DEF Acknowledged, AckOf
  <2>4. /\ get_absolute_seqno(s) = UsedBy(peer[p]) /\ UsedBy(peer[p]) \in Nat
        /\ s.m_window_left \in Nat
    BY <2>2, SendsNumbers
  <2>5. ASSUME NEW n \in Acknowledged(q) .. get_absolute_seqno(s) - 1
        PROVE  \E k \in DOMAIN s.m_outstanding_messages_ : k <= n /\ n < wait_for_ackno(s, k)
    <3>1. n \in Nat /\ s.m_window_left <= n /\ n < UsedBy(peer[p])
      BY <2>2, <2>3, <2>4
    <3>2. Direction(c) /\ Tiled(c, s.m_outstanding_messages_, s.m_window_left, UsedBy(peer[p]))
      BY <2>2 DEF Ways, Sends, Consistent, UsedBy
    <3>3. PICK k \in DOMAIN s.m_outstanding_messages_ :
            k <= n /\ n < TileEnd(s.m_outstanding_messages_, k)
      BY <2>4, <3>1, <3>2, TilesCover
    <3>4. QED
      BY <3>3 DEF TileEnd, wait_for_ackno
  <2>6. /\ s.m_send_queue_ = <<>>
        /\ s.m_retransmission_timer_.m_running <=> DOMAIN s.m_outstanding_messages_ # {}
    BY <2>2 DEF Sends, Rests, Runs
  <2>7. QED
    BY <2>1, <2>2, <2>3, <2>4, <2>5, <2>6
<1>2. QED
  BY <1>1, InvHolds, PTL

\* When a peer is no longer active nothing of either direction is on the way:
\* its sender used every number and all are acknowledged, so that the other end
\* has all its bytes and its end, and it has all of the other's.
LEMMA InactiveIsDone ==
  ASSUME Inv, NEW p \in Peers, ~active(peer[p]), NEW q, q = Other(p)
  PROVE  /\ peer[p].inbound_stream_.is_close_
         /\ peer[p].inbound_stream_.bytes_pushed_ = Len(SourceOf(q))
         /\ peer[q].inbound_stream_.is_close_
         /\ peer[q].inbound_stream_.bytes_pushed_ = Len(SourceOf(p))
<1>1. PICK c, d, x, y, s, o :
        c = Flow(p) /\ d = Flow(q) /\ x = peer[p] /\ y = peer[q]
        /\ s = x.sender_ /\ o = x.outbound_stream_
  OBVIOUS
<1>2. /\ q \in Peers /\ Other(q) = p /\ Ways(c, d) /\ Ways(d, c)
      /\ Sends(c, x) /\ Rests(x) /\ Hears(d, y, x) /\ Sends(d, y) /\ Hears(c, x, y)
      /\ s.m_window_left <= AckOf(y) /\ AckOf(y) \in Nat /\ AckOf(y) <= UsedBy(x)
  BY <1>1, EndFacts
<1>3. c.source = SourceOf(p) /\ d.source = SourceOf(q)
  BY <1>1, <1>2, FlowProperties
<1>4. x.inbound_stream_.error_ = FALSE
  BY <1>2 DEF Hears
<1>5. /\ o.is_close_ /\ o.buffer_ = <<>> /\ x.inbound_stream_.is_close_
      /\ ~(sequence_numbers_in_flight(s) > 0)
  BY <1>1, <1>4 DEF active, Reader_is_finished
<1>6. /\ x.receiver_.m_syn_rcvd
      /\ x.inbound_stream_.bytes_pushed_ = Len(SourceOf(q))
  BY <1>2, <1>3, <1>5, HeardNumbers
<1>7. PICK left \in Nat, used \in Nat, len \in Nat :
        left = s.m_window_left /\ used = UsedBy(x) /\ len = Len(c.source)
  BY <1>1, <1>2, SendsNumbers, Constants DEF Ways
<1>8. get_absolute_seqno(s) = used /\ left <= used
  BY <1>1, <1>2, <1>7, SendsNumbers
<1>9. left = used /\ AckOf(y) = used
  BY <1>2, <1>5, <1>7, <1>8 DEF sequence_numbers_in_flight
<1>10. has_ackno(x)
  BY <1>2, <1>6, AckProperties
<1>11. Exhausted(s, o)
  BY <1>1, <1>2, <1>10 DEF Rests
<1>12. s.m_syc_pushed /\ s.m_fin_pushed
  <2>1. s.m_window_size \in Nat
    BY <1>1, <1>2 DEF Sends, Consistent
  <2>2. ~(window_right(s) <= used)
    BY <1>7, <1>9, <2>1 DEF window_right, Most
  <2>3. QED
    BY <1>1, <1>5, <1>7, <1>11, <2>2 DEF Exhausted, UsedBy
<1>13. used = len + 2
  <2>1. o.bytes_popped_ = len
    BY <1>1, <1>2, <1>7, <1>12 DEF Sends, Consistent
  <2>2. One(s.m_syc_pushed) = 1 /\ One(s.m_fin_pushed) = 1
    BY <1>12 DEF One
  <2>3. QED
    BY <1>1, <1>7, <2>1, <2>2 DEF UsedBy, Used
<1>14. AckOf(y) = absolute_ackno(y.inbound_stream_)
  BY <1>9, <1>13 DEF AckOf
<1>15. PICK pushed \in Nat : pushed = y.inbound_stream_.bytes_pushed_ /\ pushed <= len
  <2>1. /\ y.inbound_stream_.bytes_pushed_ \in Nat
        /\ y.inbound_stream_.bytes_pushed_ <= o.bytes_popped_
    BY <1>1, <1>2, HeardNumbers
  <2>2. o.bytes_popped_ \in Nat /\ o.bytes_popped_ <= len
    BY <1>1, <1>2, <1>7, SentProperties
  <2>3. QED
    BY <2>1, <2>2
<1>16. y.inbound_stream_.is_close_ /\ pushed = len
  <2>1. pushed + 1 + One(y.inbound_stream_.is_close_) = len + 2
    BY <1>9, <1>13, <1>14, <1>15 DEF absolute_ackno
  <2>2. One(y.inbound_stream_.is_close_) = IF y.inbound_stream_.is_close_ THEN 1 ELSE 0
    BY DEF One
  <2>3. QED
    BY <1>15, <2>1, <2>2
<1>17. QED
  BY <1>1, <1>3, <1>5, <1>6, <1>7, <1>15, <1>16

\* A peer stops only when both directions are whole.
THEOREM FinishedCorrect == Safety => []FinishedIsDone
<1>1. Inv => FinishedIsDone
  <2> SUFFICES ASSUME Inv, NEW p \in Peers, ~active(peer[p]), NEW q \in Peers
               PROVE  /\ peer[q].inbound_stream_.is_close_
                      /\ peer[q].inbound_stream_.bytes_pushed_ = Len(SourceOf(Other(q)))
    BY DEF FinishedIsDone
  <2>1. q = p \/ (q = Other(p) /\ Other(q) = p)
    BY DEF Peers, Other
  <2>2. QED
    BY <2>1, InactiveIsDone
<1>2. QED
  BY <1>1, InvHolds, PTL

(***************************************************************************)
(* The refinement.                                                         *)
(***************************************************************************)

\* What reaches p's program, as a step of a reliable stream.
Delivers(p, src) ==
  \/ /\ \E n \in Len(delivered[p]) + 1 .. Len(src) :
          /\ delivered'[p] = SubSeq(src, 1, n)
          /\ eof'[p] \in {eof[p], n = Len(src)}
  \/ delivered[p] = src /\ ~eof[p] /\ eof'[p] = TRUE /\ delivered'[p] = delivered[p]

LEMMA HeardToTheEnd ==
  ASSUME NEW c, NEW d, Ways(c, d), NEW y, Sends(d, y), NEW x, Hears(d, y, x),
         Reader_is_finished(x.inbound_stream_)
  PROVE  x.inbound_stream_.bytes_popped_ = Len(d.source)
<1>1. x.inbound_stream_.is_close_ /\ x.inbound_stream_.buffer_ = <<>>
  BY DEF Reader_is_finished
<1>2. Len(x.inbound_stream_.buffer_) = 0
  BY <1>1, EmptySeq
<1>3. PICK a \in Nat, b \in Nat :
        /\ a = x.inbound_stream_.bytes_popped_ /\ b = x.inbound_stream_.bytes_pushed_
        /\ b = Len(d.source)
  BY <1>1, HeardNumbers
<1>4. Len(x.inbound_stream_.buffer_) = b - a
  BY <1>3, HeardNumbers
<1>5. b - a = 0
  BY <1>2, <1>4
<1>6. QED
  BY <1>3, <1>5

LEMMA ReadDelivers ==
  ASSUME Inv, NEW p \in Peers, Read(p)
  PROVE  \/ Delivers(p, SourceOf(Other(p)))
         \/ delivered'[p] = delivered[p] /\ eof'[p] = eof[p]
<1>1. PICK q, c, d, x, y, s :
        /\ q = Other(p) /\ c = Flow(p) /\ d = Flow(q) /\ x = peer[p] /\ y = peer[q]
        /\ s = x.inbound_stream_
  OBVIOUS
<1>2. PICK w : Reads(p, w) /\ w = peer'[p].inbound_stream_
  BY ReadStep
<1>3. Inv'
  BY ReadStep
<1>4. Ways(c, d) /\ Sends(d, y) /\ Hears(d, y, x) /\ Hears(d, y, peer'[p])
  <2>1. q \in Peers /\ q # p /\ Ways(c, d) /\ Sends(d, y) /\ Hears(d, y, x)
    BY <1>1, EndFacts
  <2>2. peer'[q] = y
    BY <1>1, <1>2, <2>1 DEF Reads, Inv
  <2>3. Hears(d, peer'[q], peer'[p])
    BY <1>1, <1>3 DEF Inv, Endpoint
  <2>4. QED
    BY <2>1, <2>2, <2>3
<1>5. d.source = SourceOf(q)
  BY <1>1, EndFacts, FlowProperties
<1>6. PICK src : src = SourceOf(q)
  OBVIOUS
<1>7. SliceAlgebra(src, Nat) /\ Len(src) \in Nat
  BY <1>4, <1>5, <1>6, Constants DEF Ways
<1>8. PICK a \in Nat, b \in Nat, e \in Nat :
        a = s.bytes_popped_ /\ b = w.bytes_popped_ /\ e = s.bytes_pushed_
  <2>1. w.bytes_popped_ \in Nat
    BY <1>1, <1>2, <1>4, HeardNumbers
  <2>2. s.bytes_popped_ \in Nat /\ s.bytes_pushed_ \in Nat
    BY <1>1, <1>4, HeardNumbers
  <2>3. QED
    BY <2>1, <2>2
<1>9. a <= b /\ b <= e /\ e <= Len(src)
  <2>1. e <= Len(src)
    BY <1>1, <1>4, <1>5, <1>6, <1>8, HeardNumbers, SentProperties
  <2>2. QED
    BY <1>1, <1>2, <1>8, <2>1 DEF Reads
<1>10. /\ delivered[p] = Slice(src, 0, a) /\ delivered'[p] = Slice(src, 0, b)
       /\ eof'[p] = Reader_is_finished(w)
  BY <1>1, <1>2, <1>6, <1>8 DEF Inv, HasRead, Reads
<1>11. Len(delivered[p]) = a
  <2>1. 0 \in Nat /\ 0 <= a /\ a <= Len(src)
    BY <1>7, <1>8, <1>9
  <2>2. Len(Slice(src, 0, a)) = a - 0
    BY <1>7, <2>1 DEF SliceAlgebra
  <2>3. QED
    BY <1>10, <2>2
<1>12. eof[p] \in BOOLEAN /\ eof'[p] \in BOOLEAN
  BY <1>3 DEF Inv, HasRead
<1>13. /\ eof[p] => Reader_is_finished(s) /\ a = Len(src)
       /\ eof'[p] => b = Len(src)
  <2>1. eof[p] => Reader_is_finished(s)
    BY <1>1 DEF Inv, HasRead
  <2>2. Reader_is_finished(s) => s.bytes_popped_ = Len(d.source)
    BY <1>1, <1>4, HeardToTheEnd
  <2>3. Reader_is_finished(w) => w.bytes_popped_ = Len(d.source)
    BY <1>2, <1>4, HeardToTheEnd
  <2>4. QED
    BY <1>5, <1>6, <1>8, <1>10, <2>1, <2>2, <2>3
<1>14. CASE a < b
  <2>1. b \in Len(delivered[p]) + 1 .. Len(src)
    BY <1>7, <1>8, <1>9, <1>11, <1>14
  <2>2. delivered'[p] = SubSeq(src, 1, b)
    BY <1>10 DEF Slice
  <2>3. ~eof[p]
    BY <1>7, <1>8, <1>9, <1>13, <1>14
  <2>4. eof'[p] \in {eof[p], b = Len(src)}
    <3>1. CASE eof'[p]
      <4>1. b = Len(src)
        BY <1>13, <3>1
      <4>2. eof'[p] = (b = Len(src))
        BY <1>12, <3>1, <4>1, Zenon
      <4>3. QED
        BY <4>2
    <3>2. CASE ~eof'[p]
      <4>1. eof'[p] = eof[p]
        BY <1>12, <2>3, <3>2, Zenon
      <4>2. QED
        BY <4>1
    <3>3. QED
      BY <3>1, <3>2
  <2>5. QED
    BY <1>1, <1>6, <2>1, <2>2, <2>4 DEF Delivers
<1>15. CASE a = b
  <2>1. delivered'[p] = delivered[p]
    BY <1>10, <1>15
  <2>2. eof[p] => eof'[p]
    <3>1. Longer(s, w)
      BY <1>1, <1>2, <1>8, <1>15 DEF Longer, Reads
    <3>2. Reader_is_finished(s) => Reader_is_finished(w)
      BY <1>1, <1>2, <1>4, <3>1, FinishedStays
    <3>3. QED
      BY <1>10, <1>13, <3>2
  <2>3. CASE eof[p] \/ ~eof'[p]
    <3>1. CASE eof[p]
      <4>1. eof[p] = TRUE /\ eof'[p] = TRUE
        BY <1>12, <2>2, <3>1, Zenon
      <4>2. QED
        BY <2>1, <4>1
    <3>2. CASE ~eof[p]
      <4>1. eof[p] = FALSE /\ eof'[p] = FALSE
        BY <1>12, <2>3, <3>2, Zenon
      <4>2. QED
        BY <2>1, <4>1
    <3>3. QED
      BY <3>1, <3>2
  <2>4. CASE ~eof[p] /\ eof'[p]
    <3>1. SubSeq(src, 1, Len(src)) = src
      BY <1>6, SubSeqFull, SourceAssumption, EndFacts, <1>1
    <3>2. delivered[p] = src
      BY <1>10, <1>13, <1>15, <2>4, <3>1 DEF Slice
    <3>3. eof'[p] = TRUE
      BY <1>12, <2>4, Zenon
    <3>4. QED
      BY <1>1, <1>6, <2>1, <2>4, <3>2, <3>3 DEF Delivers
  <2>5. QED
    BY <2>3, <2>4
<1>16. QED
  BY <1>8, <1>9, <1>14, <1>15

\* What happens at the client's program is a step of ToClient, and at the
\* server's one of ToServer; the other steps reach no program.
LEMMA NextDelivers ==
  ASSUME Inv, [Next]_vars, NEW p \in Peers
  PROVE  \/ Delivers(p, SourceOf(Other(p)))
         \/ delivered'[p] = delivered[p] /\ eof'[p] = eof[p]
<1>1. CASE UNCHANGED <<delivered, eof>>
  BY <1>1
<1>2. ASSUME NEW q \in Peers, Read(q)
      PROVE  \/ Delivers(p, SourceOf(Other(p)))
             \/ delivered'[p] = delivered[p] /\ eof'[p] = eof[p]
  <2>1. CASE q = p
    BY <1>2, <2>1, ReadDelivers
  <2>2. CASE q # p
    <3>1. PICK w : Reads(q, w)
      BY <1>2, ReadStep
    <3>2. delivered'[p] = delivered[p] /\ eof'[p] = eof[p]
      BY <2>2, <3>1 DEF Inv, Reads
    <3>3. QED
      BY <3>2
  <2>3. QED
    BY <2>1, <2>2
<1>3. QED
  BY <1>1, <1>2 DEF Next, vars, Connect, Write, Receive, Tick, Lose

\* Whatever is lost, late or sent again, each program reads exactly the bytes
\* the other one wrote, in order, and the end behind the last.
THEOREM ConnectionIsReliable == Safety => ReliableSafety
<1>1. Init => ToServer!Init /\ ToClient!Init
  BY DEF Init, ToServer!Init, ToClient!Init, Peers
<1>2. SourceOf(Other(server)) = ClientSource /\ SourceOf(Other(client)) = ServerSource
      /\ server \in Peers /\ client \in Peers
  BY DEF SourceOf, Other, Peers, client, server
<1>3. Inv /\ [Next]_vars => [ToServer!Next]_(ToServer!rsVars)
  <2> SUFFICES ASSUME Inv, [Next]_vars PROVE [ToServer!Next]_(ToServer!rsVars)
    OBVIOUS
  <2>1. \/ Delivers(server, ClientSource)
        \/ delivered'[server] = delivered[server] /\ eof'[server] = eof[server]
    BY <1>2, NextDelivers
  <2>2. QED
    BY <2>1 DEF Delivers, ToServer!Next, ToServer!Deliver, ToServer!End, ToServer!rsVars
<1>4. Inv /\ [Next]_vars => [ToClient!Next]_(ToClient!rsVars)
  <2> SUFFICES ASSUME Inv, [Next]_vars PROVE [ToClient!Next]_(ToClient!rsVars)
    OBVIOUS
  <2>1. \/ Delivers(client, ServerSource)
        \/ delivered'[client] = delivered[client] /\ eof'[client] = eof[client]
    BY <1>2, NextDelivers
  <2>2. QED
    BY <2>1 DEF Delivers, ToClient!Next, ToClient!Deliver, ToClient!End, ToClient!rsVars
<1>5. Safety => ToServer!Safety
  BY <1>1, <1>3, InvHolds, PTL DEF Safety, ToServer!Safety
<1>6. Safety => ToClient!Safety
  BY <1>1, <1>4, InvHolds, PTL DEF Safety, ToClient!Safety
<1>7. QED
  BY <1>5, <1>6 DEF ReliableSafety
=============================================================================
