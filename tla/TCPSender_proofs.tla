--------------------------- MODULE TCPSender_proofs ---------------------------
(***************************************************************************)
(* TCPSenderSpec keeps its invariants and its action properties for every  *)
(* source, message size, window and order of acknowledgments.              *)
(*                                                                         *)
(* The outstanding messages tile the sequence numbers from the left edge   *)
(* of the window up to the numbers used: one for SYN, one for each byte    *)
(* that was popped, one for FIN.  A message of the queue is a stretch of   *)
(* those, so that what was sent never passes them, and the acknowledgment  *)
(* numbers are close enough to the left edge for unwrap to undo wrap.      *)
(***************************************************************************)
EXTENDS TCPSenderSpec, TCPSenderLemmas

\* The one direction there is here.
Here == [source |-> Source, isn |-> ISN, capacity |-> Capacity, byte |-> Byte]

LEMMA HereProperties ==
  /\ Direction(Here)
  /\ Here.source = Source /\ Here.isn = ISN /\ Here.capacity = Capacity /\ Here.byte = Byte
<1>1. Here.source = Source /\ Here.isn = ISN /\ Here.capacity = Capacity /\ Here.byte = Byte
  BY DEF Here
<1>2. QED
  BY <1>1, SourceAssumption, CapacityAssumption, SenderAssumption DEF Direction

\* The constants.
LEMMA Settings ==
  /\ Source \in Seq(Byte) /\ Len(Source) \in Nat /\ SliceAlgebra(Source, Byte)
  /\ Modulus \in Nat /\ Modulus64 \in Nat
  /\ 2 * (Len(Source) + 3) < Modulus /\ Modulus < Modulus64
  /\ Capacity \in Nat /\ Capacity > 0
  /\ ISN \in UInt32 /\ InitialRTO \in Nat /\ InitialRTO > 0
  /\ MAX_PAYLOAD_SIZE \in Nat /\ MAX_PAYLOAD_SIZE > 0
BY SourceAssumption, CapacityAssumption, SenderAssumption, PayloadAssumption,
   ModulusAssumption, LenProperties, SliceFacts

\* Every proof below is about this direction.
USE HereProperties

LEMMA MessageIsStretch ==
  /\ \A k, end : Stretch(Here, k, end) = Message(k, end)
  /\ Stretches(Here) = Messages
<1>1. \A k, end : Stretch(Here, k, end) = Message(k, end)
  BY DEF Stretch, Message
<1>2. QED
  BY <1>1 DEF Stretches, Messages

(***************************************************************************)
(* The timer.                                                              *)
(***************************************************************************)
Backoff(n) == InitialRTO * 2 ^ n

LEMMA BackoffDoubles ==
  ASSUME NEW n \in Nat
  PROVE  Backoff(n) \in Nat /\ Backoff(n) > 0 /\ Backoff(n + 1) = Backoff(n) + Backoff(n)
<1>1. PICK p \in Nat : p = 2 ^ n /\ p > 0
  BY PowersOfTwo
<1>2. 2 ^ (n + 1) = p + p
  BY <1>1, PowersOfTwo, Zenon
<1>3. PICK I \in Nat : I = InitialRTO /\ I > 0
  BY Settings
<1>4. I * p \in Nat /\ I * p > 0 /\ I * (p + p) = I * p + I * p
  BY <1>1, <1>3
<1>5. Backoff(n) = I * p
  BY <1>1, <1>3, Zenon DEF Backoff
<1>6. Backoff(n + 1) = I * (p + p)
  BY <1>2, <1>3, Zenon DEF Backoff
<1>7. QED
  BY <1>4, <1>5, <1>6

LEMMA BackoffStarts == Backoff(0) = InitialRTO
<1>1. 2 ^ 0 = 1
  BY PowerZero
<1>2. InitialRTO * 1 = InitialRTO
  BY Settings
<1>3. QED
  BY <1>1, <1>2, Zenon DEF Backoff

Timers == [m_timer : Nat, m_timeout : UInt64 \cup Nat, m_running : BOOLEAN]
Timeouts == [m_value : Nat, m_init_value : {InitialRTO}]

\* The timer and the timeout after n retransmissions.
Timed(timer, rto, n) ==
  /\ timer \in Timers /\ rto \in Timeouts /\ n \in Nat
  /\ rto.m_value = Backoff(n)
  /\ timer.m_running => timer.m_timeout = rto.m_value /\ timer.m_timer < timer.m_timeout

LEMMA TimerStops == stop \in Timers /\ ~stop.m_running
<1>1. Modulus64 - 1 \in UInt64
  BY Settings DEF UInt64
<1>2. QED
  BY <1>1 DEF stop, RetransmissionTimer, UINT64_MAX, Timers

LEMMA TimerRestarts ==
  ASSUME NEW timer, NEW rto, NEW n, Timed(timer, rto, n), NEW t, t = restart(rto.m_value)
  PROVE  Timed(t, rto, n) /\ t.m_running
<1>1. PICK v \in Nat : v = rto.m_value /\ v > 0
  BY BackoffDoubles DEF Timed
<1>2. t = [m_timer |-> 0, m_timeout |-> v, m_running |-> TRUE]
  BY <1>1 DEF restart
<1>3. t \in Timers /\ t.m_running /\ t.m_timeout = v /\ t.m_timer = 0
  BY <1>2 DEF Timers
<1>4. QED
  BY <1>1, <1>3 DEF Timed

\* An acknowledgment takes the timeout back to where it started.
LEMMA TimeoutResets ==
  ASSUME NEW timer, NEW rto, NEW n, Timed(timer, rto, n),
         NEW new, new = acknowledged(rto)
  PROVE  Timed(stop, new, 0) /\ Timed(restart(new.m_value), new, 0)
<1>1. new \in Timeouts /\ new.m_value = InitialRTO
  BY Settings DEF Timed, Timeouts, acknowledged
<1>2. Timed(stop, new, 0)
  BY <1>1, TimerStops, BackoffStarts DEF Timed
<1>3. QED
  BY <1>2, TimerRestarts

\* Each expiry doubles it.
LEMMA TimeoutDoubles ==
  ASSUME NEW timer, NEW rto, NEW n, Timed(timer, rto, n),
         NEW new, new = timed_out(rto)
  PROVE  Timed(restart(new.m_value), new, n + 1)
<1>1. n \in Nat /\ n + 1 \in Nat
  BY DEF Timed
<1>2. PICK v \in Nat : v = rto.m_value /\ v = Backoff(n)
  BY DEF Timed, Timeouts
<1>3. new \in Timeouts /\ new.m_value = v + v
  BY <1>2 DEF Timed, Timeouts, timed_out
<1>4. new.m_value = Backoff(n + 1)
  BY <1>1, <1>2, <1>3, BackoffDoubles
<1>5. Timed(stop, new, n + 1)
  BY <1>1, <1>3, <1>4, TimerStops DEF Timed
<1>6. QED
  BY <1>5, TimerRestarts

LEMMA TimerElapses ==
  ASSUME NEW timer, NEW rto, NEW n, Timed(timer, rto, n), NEW ms \in Nat,
         NEW t, t = elapse(timer, ms), ~is_timeout(t)
  PROVE  Timed(t, rto, n) /\ t.m_running = timer.m_running
<1>1. CASE ~timer.m_running
  <2>1. t = timer
    BY <1>1 DEF elapse
  <2>2. QED
    BY <2>1
<1>2. CASE timer.m_running
  <2>1. t = [timer EXCEPT !.m_timer = @ + ms]
    BY <1>2 DEF elapse
  <2>2. PICK now \in Nat : now = timer.m_timer
    BY DEF Timed, Timers
  <2>3. /\ t \in Timers /\ t.m_timer = now + ms
        /\ t.m_running = timer.m_running /\ t.m_timeout = timer.m_timeout
    BY <2>1, <2>2 DEF Timed, Timers
  <2>4. t.m_timeout \in Nat
    BY <1>2, <2>3 DEF Timed, Timeouts
  <2>5. t.m_timer < t.m_timeout
    BY <1>2, <2>2, <2>3, <2>4 DEF is_timeout
  <2>6. QED
    BY <1>2, <2>3, <2>5 DEF Timed
<1>3. QED
  BY <1>1, <1>2 DEF Timed, Timers

(***************************************************************************)
(* The inductive invariant.                                                *)
(***************************************************************************)

Inv ==
  /\ Consistent(Here, sender, outbound)
  /\ Timed(sender.m_retransmission_timer_, sender.m_RTO_ms_, sender.m_consecutive_retransmissions)
  /\ Runs(sender.m_retransmission_timer_, DOMAIN sender.m_outstanding_messages_,
          sender.m_send_queue_)
  /\ sent \in Nat /\ sent <= Used(sender, outbound)

\* What the action properties say of a step.
Advance ==
  /\ sender.m_window_left <= sender'.m_window_left
  /\ sender'.m_window_left = sender.m_window_left \/ sender'.m_window_left <= sent
  /\ \/ Used(sender', outbound') = Used(sender, outbound)
     \/ Used(sender', outbound') <= window_right(sender)
     \/ /\ Used(sender, outbound) = 0
        /\ Used(sender', outbound') = 1 + One(sender'.m_fin_pushed)

LEMMA InitInv == Init => Inv
<1> SUFFICES ASSUME Init PROVE Inv
  OBVIOUS
<1>1. PICK none : none = [k \in {} |-> {}]
  OBVIOUS
<1>2. IsFunction(none) /\ DOMAIN none = {}
  BY <1>1 DEF IsFunction
<1>3. /\ DOMAIN sender = Fields
      /\ sender.m_outstanding_messages_ = none
      /\ sender.m_send_queue_ = <<>>
      /\ sender.m_syc_pushed = FALSE
      /\ sender.m_fin_pushed = FALSE
      /\ sender.m_retransmission_timer_ = RetransmissionTimer
      /\ sender.m_isn_ = ISN
      /\ sender.m_RTO_ms_ = RetransmissionTimeout(InitialRTO)
      /\ sender.m_consecutive_retransmissions = 0
      /\ sender.m_window_left = 0
      /\ sender.m_window_size = 1
  BY <1>1 DEF Init, TCPSender, Fields
<1>4. /\ outbound \in ByteStreams(Byte, Capacity)
      /\ outbound.bytes_popped_ = 0 /\ outbound.bytes_pushed_ = 0
      /\ outbound.buffer_ = <<>> /\ ~outbound.is_close_ /\ outbound.capacity_ = Capacity
  BY EmptySeq DEF Init, ByteStream, ByteStreams
<1>5. Carries(outbound, Source)
  <2>1. Slice(Source, 0, 0) = <<>>
    BY Settings, SliceEmpty, 0 \in Nat
  <2>2. QED
    BY <1>4, <2>1, Settings DEF Carries
<1>6. Used(sender, outbound) = 0
  BY <1>3, <1>4 DEF Used, One
<1>7. Tiled(Here, none, 0, 0)
  BY <1>2 DEF Tiled
<1>8. Consistent(Here, sender, outbound)
  <2>1. Tiled(Here, sender.m_outstanding_messages_, sender.m_window_left, Used(sender, outbound))
    BY <1>3, <1>6, <1>7
  <2>2. sender.m_send_queue_ \in Seq(Sendable(Here, Used(sender, outbound)))
    BY <1>3, EmptySeq
  <2>3. /\ sender.m_isn_ = ISN
        /\ sender.m_syc_pushed \in BOOLEAN /\ sender.m_fin_pushed \in BOOLEAN
        /\ sender.m_window_left \in Nat /\ sender.m_window_size \in Nat
    <3>1. sender.m_syc_pushed \in BOOLEAN /\ sender.m_fin_pushed \in BOOLEAN
      BY <1>3, Zenon
    <3>2. sender.m_window_left \in Nat /\ sender.m_window_size \in Nat
      BY <1>3
    <3>3. QED
      BY <1>3, <3>1, <3>2, Zenon
  <2>4. ~sender.m_fin_pushed /\ sender.m_send_queue_ = <<>>
    BY <1>3
  <2>5. QED
    BY <1>3, <1>4, <1>5, <2>1, <2>2, <2>3, <2>4 DEF Consistent
<1>9. Timed(stop, RetransmissionTimeout(InitialRTO), 0)
  <2>1. RetransmissionTimeout(InitialRTO) \in Timeouts
        /\ RetransmissionTimeout(InitialRTO).m_value = InitialRTO
    BY Settings DEF RetransmissionTimeout, Timeouts
  <2>2. QED
    BY <2>1, TimerStops, BackoffStarts DEF Timed
<1>10. Timed(sender.m_retransmission_timer_, sender.m_RTO_ms_,
             sender.m_consecutive_retransmissions)
  BY <1>3, <1>9 DEF stop
<1>11. Runs(sender.m_retransmission_timer_, DOMAIN sender.m_outstanding_messages_,
            sender.m_send_queue_)
  BY <1>2, <1>3 DEF Runs, RetransmissionTimer
<1>12. sent = 0
  BY DEF Init
<1>13. QED
  BY <1>6, <1>8, <1>10, <1>11, <1>12 DEF Inv

\* A step that leaves the sender alone and pops nothing.
LEMMA StreamStep ==
  ASSUME Inv, UNCHANGED <<sender, sent>>, ~sender.m_fin_pushed \/ outbound'.is_close_,
         outbound' \in ByteStreams(Byte, Capacity), Carries(outbound', Source),
         outbound'.is_close_ => outbound'.bytes_pushed_ = Len(Source),
         outbound'.bytes_popped_ = outbound.bytes_popped_
  PROVE  Inv' /\ Advance
<1>1. Consistent(Here, sender, outbound)
  BY DEF Inv
<1>2. Used(sender', outbound') = Used(sender, outbound)
  BY DEF Used
<1>3. Consistent(Here, sender', outbound')
  BY <1>1, <1>2 DEF Consistent
<1>4. Inv'
  BY <1>2, <1>3 DEF Inv
<1>5. sender.m_window_left \in Nat
  BY <1>1 DEF Consistent
<1>6. Advance
  BY <1>2, <1>5 DEF Advance
<1>7. QED
  BY <1>4, <1>6

LEMMA WriteStep ==
  ASSUME Inv, Write
  PROVE  Inv' /\ Advance
<1>1. /\ Consistent(Here, sender, outbound) /\ ~outbound.is_close_
      /\ UNCHANGED <<sender, sent>>
  BY DEF Inv, Write
<1>2. PICK pushed \in Nat : pushed = outbound.bytes_pushed_
  BY <1>1, Numbers
<1>3. PICK last \in pushed + 1 .. Len(Source) :
        outbound' = Writer_push(outbound, Slice(Source, pushed, last))
  BY <1>2 DEF Write
<1>4. outbound \in ByteStreams(Byte, Capacity) /\ Carries(outbound, Source)
  BY <1>1 DEF Consistent
<1>5. last \in Nat /\ pushed <= last /\ last <= Len(Source)
  BY <1>2, <1>3, Settings
<1>6. /\ outbound' \in ByteStreams(Byte, Capacity) /\ Carries(outbound', Source)
      /\ outbound'.bytes_popped_ = outbound.bytes_popped_
      /\ outbound'.is_close_ = outbound.is_close_
  <2>1. Source \in Seq(Byte) /\ Capacity \in Nat
    BY Settings
  <2>2. QED
    BY <1>2, <1>3, <1>4, <1>5, <2>1, PushCarries
<1>7. ~sender.m_fin_pushed
  BY <1>1 DEF Consistent
<1>8. QED
  BY <1>1, <1>6, <1>7, StreamStep

LEMMA CloseStep ==
  ASSUME Inv, Close
  PROVE  Inv' /\ Advance
<1>1. /\ Consistent(Here, sender, outbound) /\ outbound.bytes_pushed_ = Len(Source)
      /\ outbound' = Writer_close(outbound) /\ UNCHANGED <<sender, sent>>
  BY DEF Inv, Close
<1>2. outbound \in ByteStreams(Byte, Capacity) /\ Carries(outbound, Source)
  BY <1>1 DEF Consistent
<1>3. /\ outbound' \in ByteStreams(Byte, Capacity) /\ Carries(outbound', Source)
      /\ outbound'.bytes_pushed_ = outbound.bytes_pushed_
      /\ outbound'.bytes_popped_ = outbound.bytes_popped_
      /\ outbound'.is_close_
  <2>1. Source \in Seq(Byte) /\ Capacity \in Nat
    BY Settings
  <2>2. QED
    BY <1>1, <1>2, <2>1, CloseCarries
<1>4. QED
  BY <1>1, <1>3, StreamStep

LEMMA PushStep ==
  ASSUME Inv, Push
  PROVE  Inv' /\ Advance
<1>1. PICK result : result = TCPSender_push(sender, outbound)
  OBVIOUS
<1>2. sender' = result.sender /\ outbound' = result.outbound /\ UNCHANGED sent
  BY <1>1 DEF Push
<1>3. Consistent(Here, sender, outbound)
  BY DEF Inv
<1>4. /\ Consistent(Here, sender', outbound') /\ Pushed(sender, sender')
      /\ Used(sender, outbound) <= Used(sender', outbound')
      /\ \/ Used(sender', outbound') = Used(sender, outbound)
         \/ Used(sender', outbound') <= window_right(sender)
         \/ /\ Used(sender, outbound) = 0
            /\ Used(sender', outbound') = 1 + One(sender'.m_fin_pushed)
  BY <1>1, <1>2, <1>3, PushIsConsistent
<1>5. Timed(sender'.m_retransmission_timer_, sender'.m_RTO_ms_,
            sender'.m_consecutive_retransmissions)
  BY <1>4 DEF Inv, Pushed
<1>6. Runs(sender'.m_retransmission_timer_, DOMAIN sender'.m_outstanding_messages_,
           sender'.m_send_queue_)
  <2>1. sender'.m_retransmission_timer_ = sender.m_retransmission_timer_
    BY <1>4 DEF Pushed
  <2>2. DOMAIN sender.m_outstanding_messages_ \in SUBSET DOMAIN sender'.m_outstanding_messages_
    BY <1>4 DEF Pushed
  <2>3. sender'.m_send_queue_ = <<>> =>
          /\ sender.m_send_queue_ = <<>>
          /\ DOMAIN sender'.m_outstanding_messages_ = DOMAIN sender.m_outstanding_messages_
    BY <1>4 DEF Pushed
  <2>4. Runs(sender.m_retransmission_timer_, DOMAIN sender.m_outstanding_messages_,
             sender.m_send_queue_)
    BY DEF Inv
  <2>5. QED
    BY <2>1, <2>2, <2>3, <2>4 DEF Runs
<1>7. sent' \in Nat /\ sent' <= Used(sender', outbound')
  BY <1>2, <1>3, <1>4, Numbers DEF Inv
<1>8. sender.m_window_left \in Nat /\ sender'.m_window_left = sender.m_window_left
  BY <1>3, <1>4 DEF Consistent, Pushed
<1>9. QED
  BY <1>4, <1>5, <1>6, <1>7, <1>8 DEF Inv, Advance

LEMMA MaybeSendStep ==
  ASSUME Inv, MaybeSend
  PROVE  Inv' /\ Advance
<1>1. /\ Consistent(Here, sender, outbound) /\ sender.m_send_queue_ # <<>>
      /\ sender' = maybe_send(sender) /\ UNCHANGED outbound
  BY DEF Inv, MaybeSend
<1>2. PICK used \in Nat : used = Used(sender, outbound) /\ used <= Len(Source) + 2
  BY <1>1, Numbers
<1>3. PICK left \in Nat : left = sender.m_window_left /\ left <= used
  BY <1>1, <1>2, Numbers DEF Consistent
<1>4. sender.m_send_queue_ \in Seq(Sendable(Here, used))
  BY <1>1, <1>2 DEF Consistent
<1>5. PICK m \in Sendable(Here, used) : m = maybe_send_message(sender)
  BY <1>1, <1>4, HeadTailProperties DEF maybe_send_message
<1>6. PICK k \in Nat, end \in Nat : k < end /\ end <= used /\ m = Message(k, end)
  BY MessageIsStretch DEF Sendable
<1>7. Absolute(m) + sequence_length(m) = end
  <2>1. end <= Len(Source) + 2 /\ k <= Len(Source) + 3
    BY <1>2, <1>6, Settings
  <2>2. sequence_length(m) = end - k /\ m.seqno = Wrap32_wrap(k, ISN)
    BY <1>6, <2>1, MessageLength, MessageIsStretch
  <2>3. left <= Len(Source) + 2
    BY <1>2, <1>3, Settings
  <2>4. Wrap32_unwrap(Wrap32_wrap(k, ISN), ISN, left) = k
    BY <2>1, <2>3, NumberReturns
  <2>5. Absolute(m) = k
    BY <1>1, <1>3, <2>2, <2>4 DEF Absolute, Consistent
  <2>6. QED
    BY <1>6, <2>2, <2>5
<1>8. sent' = Most(sent, end)
  BY <1>5, <1>7 DEF MaybeSend
<1>9. sent' \in Nat /\ sent' <= used
  BY <1>2, <1>6, <1>8 DEF Inv, Most
<1>10. /\ Consistent(Here, sender', outbound') /\ Used(sender', outbound') = used
       /\ sender'.m_window_left = sender.m_window_left
       /\ sender'.m_RTO_ms_ = sender.m_RTO_ms_
       /\ sender'.m_consecutive_retransmissions = sender.m_consecutive_retransmissions
       /\ sender'.m_retransmission_timer_ =
            IF sender.m_retransmission_timer_.m_running THEN sender.m_retransmission_timer_
            ELSE restart(sender.m_RTO_ms_.m_value)
       /\ Runs(sender'.m_retransmission_timer_, DOMAIN sender'.m_outstanding_messages_,
               sender'.m_send_queue_)
  <2>1. outbound' = outbound
    BY <1>1
  <2>2. QED
    BY <1>1, <1>2, <2>1, MaybeSendIsConsistent DEF SameNumbers
<1>11. Timed(sender'.m_retransmission_timer_, sender'.m_RTO_ms_,
             sender'.m_consecutive_retransmissions)
  <2>1. Timed(sender.m_retransmission_timer_, sender.m_RTO_ms_,
              sender.m_consecutive_retransmissions)
    BY DEF Inv
  <2>2. CASE sender.m_retransmission_timer_.m_running
    BY <1>10, <2>1, <2>2
  <2>3. CASE ~sender.m_retransmission_timer_.m_running
    BY <1>10, <2>1, <2>3, TimerRestarts
  <2>4. QED
    BY <2>2, <2>3
<1>12. QED
  BY <1>2, <1>3, <1>9, <1>10, <1>11 DEF Inv, Advance

LEMMA TickStep ==
  ASSUME Inv, Tick
  PROVE  Inv' /\ Advance
<1>1. /\ Consistent(Here, sender, outbound) /\ sender.m_send_queue_ = <<>> /\ UNCHANGED <<outbound, sent>>
      /\ Timed(sender.m_retransmission_timer_, sender.m_RTO_ms_,
               sender.m_consecutive_retransmissions)
      /\ Runs(sender.m_retransmission_timer_, DOMAIN sender.m_outstanding_messages_,
              sender.m_send_queue_)
  BY DEF Inv, Tick, Ready
<1>2. PICK ms \in 1 .. InitialRTO :
        tick_is_defined(sender, ms) /\ sender' = TCPSender_tick(sender, ms)
  BY DEF Tick
<1>3. PICK used \in Nat : used = Used(sender, outbound)
  BY <1>1, Numbers
<1>4. sent \in Nat /\ sent <= used /\ sender.m_window_left \in Nat
  BY <1>1, <1>3 DEF Inv, Consistent
<1>5. ms \in Nat
  BY Settings
<1>6. PICK timer, rto, n, t :
        /\ timer = elapse(sender.m_retransmission_timer_, ms)
        /\ rto = IF sender.m_window_size > 0 THEN timed_out(sender.m_RTO_ms_) ELSE sender.m_RTO_ms_
        /\ n = sender.m_consecutive_retransmissions
        /\ t = TCPSender_tick(sender, ms)
  OBVIOUS
<1>7. /\ Consistent(Here, t, outbound) /\ Used(t, outbound) = used
      /\ t.m_window_left = sender.m_window_left
      /\ Runs(t.m_retransmission_timer_, DOMAIN t.m_outstanding_messages_, t.m_send_queue_)
      /\ IF is_timeout(timer)
         THEN /\ t.m_RTO_ms_ = rto /\ t.m_retransmission_timer_ = restart(rto.m_value)
              /\ t.m_consecutive_retransmissions = n + One(sender.m_window_size > 0)
         ELSE /\ t.m_RTO_ms_ = sender.m_RTO_ms_ /\ t.m_retransmission_timer_ = timer
              /\ t.m_consecutive_retransmissions = n
  BY <1>1, <1>2, <1>3, <1>5, <1>6, TickIsConsistent DEF SameNumbers
<1>8. Timed(t.m_retransmission_timer_, t.m_RTO_ms_, t.m_consecutive_retransmissions)
  <2>1. n \in Nat
    BY <1>1, <1>6 DEF Timed
  <2>2. CASE ~is_timeout(timer)
    <3>1. Timed(timer, sender.m_RTO_ms_, n)
      BY <1>1, <1>5, <1>6, <2>2, TimerElapses
    <3>2. QED
      BY <1>7, <2>2, <3>1
  <2>3. CASE is_timeout(timer) /\ sender.m_window_size > 0
    <3>1. Timed(restart(rto.m_value), rto, n + 1)
      BY <1>1, <1>6, <2>3, TimeoutDoubles
    <3>2. QED
      BY <1>7, <2>1, <2>3, <3>1 DEF One
  <2>4. CASE is_timeout(timer) /\ ~(sender.m_window_size > 0)
    <3>1. Timed(restart(rto.m_value), rto, n)
      BY <1>1, <1>6, <2>4, TimerRestarts
    <3>2. QED
      BY <1>7, <2>1, <2>4, <3>1 DEF One
  <2>5. QED
    BY <2>2, <2>3, <2>4
<1>9. sender' = t /\ outbound' = outbound /\ sent' = sent
  BY <1>1, <1>2, <1>6
<1>10. Inv'
  BY <1>4, <1>7, <1>8, <1>9 DEF Inv
<1>11. Advance
  BY <1>3, <1>4, <1>7, <1>9 DEF Advance
<1>12. QED
  BY <1>10, <1>11

LEMMA ReceiveStep ==
  ASSUME Inv, Receive
  PROVE  Inv' /\ Advance
<1>1. /\ Consistent(Here, sender, outbound) /\ sender.m_send_queue_ = <<>> /\ UNCHANGED <<outbound, sent>>
      /\ Timed(sender.m_retransmission_timer_, sender.m_RTO_ms_,
               sender.m_consecutive_retransmissions)
      /\ Runs(sender.m_retransmission_timer_, DOMAIN sender.m_outstanding_messages_,
              sender.m_send_queue_)
  BY DEF Inv, Receive, Ready
<1>2. PICK msg \in TCPReceiverMessages : sender' = TCPSender_receive(sender, msg)
  BY DEF Receive
<1>3. PICK used \in Nat : used = Used(sender, outbound)
  BY <1>1, Numbers
<1>4. sent \in Nat /\ sent <= used /\ sender.m_window_left \in Nat
  BY <1>1, <1>3 DEF Inv, Consistent
<1>5. CASE msg.ackno = {}
  <2>1. sender' = sender
    BY <1>2, <1>5 DEF TCPSender_receive
  <2>2. QED
    BY <1>1, <1>4, <2>1 DEF Inv, Advance
<1>6. CASE msg.ackno # {}
  <2>1. PICK n \in Acknos : msg.ackno = {Wrap32_wrap(n, ISN)}
    BY <1>6 DEF TCPReceiverMessages
  <2>2. n \in 1 .. sent \/ n = used + 1
    BY <1>1, <1>3, Numbers DEF Acknos
  <2>3. n \in Nat /\ n <= used + 1 /\ (n <= used => n <= sent)
    BY <1>3, <1>4, <2>2
  <2>4. msg.window_size \in Nat
    BY DEF TCPReceiverMessages
  <2>5. PICK t : t = TCPSender_receive(sender, msg)
    OBVIOUS
  <2>6. /\ Consistent(Here, t, outbound) /\ Used(t, outbound) = used
        /\ SameTimeout(sender, t) \/ FreshTimeout(sender, t)
        /\ Runs(t.m_retransmission_timer_, DOMAIN t.m_outstanding_messages_, t.m_send_queue_)
        /\ \/ t.m_window_left = sender.m_window_left
           \/ t.m_window_left = n /\ sender.m_window_left < n /\ n <= used
    BY <1>1, <1>3, <2>1, <2>3, <2>4, <2>5, ReceiveIsConsistent
  <2>7. Timed(t.m_retransmission_timer_, t.m_RTO_ms_, t.m_consecutive_retransmissions)
    <3>1. CASE SameTimeout(sender, t)
      BY <1>1, <3>1 DEF SameTimeout
    <3>2. CASE FreshTimeout(sender, t)
      <4>1. PICK new : new = acknowledged(sender.m_RTO_ms_)
        OBVIOUS
      <4>2. Timed(stop, new, 0) /\ Timed(restart(new.m_value), new, 0)
        BY <1>1, <4>1, TimeoutResets
      <4>3. QED
        BY <3>2, <4>1, <4>2 DEF FreshTimeout
    <3>3. QED
      BY <2>6, <3>1, <3>2
  <2>8. sender' = t /\ outbound' = outbound /\ sent' = sent
    BY <1>1, <1>2, <2>5
  <2>9. Inv'
    BY <1>4, <2>6, <2>8, <2>7 DEF Inv
  <2>10. Advance
    BY <1>3, <1>4, <2>3, <2>6, <2>8 DEF Advance
  <2>11. QED
    BY <2>9, <2>10
<1>7. QED
  BY <1>5, <1>6

LEMMA NextStep ==
  ASSUME Inv, Next
  PROVE  Inv' /\ Advance
BY WriteStep, CloseStep, PushStep, MaybeSendStep, ReceiveStep, TickStep DEF Next

LEMMA NextInv == Inv /\ [Next]_vars => Inv'
<1>1. Inv /\ UNCHANGED vars => Inv'
  BY DEF vars, Inv
<1>2. QED
  BY <1>1, NextStep

(***************************************************************************)
(* The invariants the run checks.                                          *)
(***************************************************************************)

\* The types hold: every message that is outstanding or queued is a stretch of
\* SYN, the bytes of Source and FIN under its own sequence number.
THEOREM TypeCorrect == Spec => []TypeOK
<1>1. Inv => TypeOK
  <2> SUFFICES ASSUME Inv PROVE TypeOK
    OBVIOUS
  <2>1. PICK used \in Nat : used = Used(sender, outbound) /\ used <= Len(Source) + 2
    BY Numbers DEF Inv
  <2>2. PICK out : out = sender.m_outstanding_messages_
    OBVIOUS
  <2>3. Tiled(Here, out, sender.m_window_left, used)
    BY <2>1, <2>2 DEF Inv, Consistent
  <2>4. DOMAIN out \in SUBSET Nat
    BY <2>3, MessageIsStretch DEF Tiled
  <2>5. out \in [DOMAIN out -> Messages]
    <3>1. ASSUME NEW k \in DOMAIN out
          PROVE  out[k] \in Messages
      <4>1. PICK e \in Nat : k \in Nat /\ k < e /\ e <= used /\ out[k] = Message(k, e)
        BY <2>3, MessageIsStretch DEF Tiled
      <4>2. e <= Len(Source) + 2
        BY <2>1, <4>1, Settings
      <4>3. QED
        BY <4>1, <4>2, MessageLength, MessageIsStretch
    <3>2. IsFunction(out)
      BY <2>3, MessageIsStretch DEF Tiled
    <3>3. QED
      BY <3>1, <3>2 DEF IsFunction
  <2>6. sender.m_send_queue_ \in Seq(Messages)
    <3>1. sender.m_send_queue_ \in Seq(Sendable(Here, used))
      BY <2>1 DEF Inv, Consistent
    <3>2. Sendable(Here, used) \subseteq Messages
      BY MessageIsStretch DEF Sendable
    <3>3. QED
      BY <3>1, <3>2, SeqMonotonic
  <2>7. QED
    BY <2>2, <2>4, <2>5, <2>6 DEF Inv, Consistent, Timed, Timers, Timeouts, TypeOK
<1>2. QED
  BY <1>1, InitInv, NextInv, PTL DEF Spec

\* Whatever order the windows, the partial, the late and the impossible
\* acknowledgments come in, the outstanding messages tile the numbers from the
\* one the peer waits for up to the next one to use, each with its own bytes.
THEOREM OutstandingCorrect == Spec => []OutstandingOK
<1>1. Inv => OutstandingOK
  <2> SUFFICES ASSUME Inv PROVE OutstandingOK
    OBVIOUS
  <2>1. PICK out : out = sender.m_outstanding_messages_
    OBVIOUS
  <2>2. Tiled(Here, out, sender.m_window_left, Used(sender, outbound))
    BY <2>1 DEF Inv, Consistent
  <2>3. \A k : wait_for_ackno(sender, k) = TileEnd(out, k)
    BY <2>1 DEF wait_for_ackno, TileEnd
  <2>4. QED
    BY <2>1, <2>2, <2>3, MessageIsStretch DEF Tiled, OutstandingOK
<1>2. QED
  BY <1>1, InitInv, NextInv, PTL DEF Spec

\* Every byte taken out of the outbound stream, SYN and FIN have a sequence
\* number, and FIN is behind all the bytes.
THEOREM NothingLostCorrect == Spec => []NothingLost
<1>1. Inv => NothingLost
  <2> SUFFICES ASSUME Inv PROVE NothingLost
    OBVIOUS
  <2>1. Consistent(Here, sender, outbound)
    BY DEF Inv
  <2>2. get_absolute_seqno(sender) = Used(sender, outbound)
    BY <2>1, Numbers
  <2>3. QED
    BY <2>1, <2>2 DEF Consistent, Used, NothingLost
<1>2. QED
  BY <1>1, InitInv, NextInv, PTL DEF Spec

\* The timer never runs with nothing to send again, and it runs whenever a
\* message is outstanding and the queue is empty.
THEOREM TimerCorrect == Spec => []TimerRuns
<1>1. Inv => TimerRuns
  BY DEF Inv, Runs, TimerRuns
<1>2. QED
  BY <1>1, InitInv, NextInv, PTL DEF Spec

\* The timeout is the initial one doubled once for every retransmission that
\* counts, however many there are, and the running timer waits for it.
THEOREM BackoffCorrect == Spec => []BackoffExact
<1>1. Inv => BackoffExact
  BY Zenon DEF Inv, Timed, Backoff, BackoffExact
<1>2. QED
  BY <1>1, InitInv, NextInv, PTL DEF Spec

(***************************************************************************)
(* The action properties the run checks.                                   *)
(***************************************************************************)

\* New numbers are used only inside the window as the peer last gave it, with
\* the exceptions of a zero window and of SYN.
THEOREM WindowCorrect == Spec => WithinWindow
<1> DEFINE Within ==
      LET next == get_absolute_seqno(sender)  then == get_absolute_seqno(sender')
      IN  then > next =>
            \/ then <= window_right(sender)
            \/ next = 0 /\ then = 1 + One(sender'.m_fin_pushed)
<1>1. Inv /\ Inv' /\ [Next]_vars => [Within]_vars
  <2> SUFFICES ASSUME Inv, Inv', Next PROVE Within
    OBVIOUS
  <2>1. PICK next \in Nat : next = get_absolute_seqno(sender) /\ next = Used(sender, outbound)
    BY Numbers DEF Inv
  <2>2. PICK then \in Nat : then = get_absolute_seqno(sender') /\ then = Used(sender', outbound')
    BY Numbers DEF Inv
  <2>3. \/ then = next
        \/ then <= window_right(sender)
        \/ next = 0 /\ then = 1 + One(sender'.m_fin_pushed)
    BY <2>1, <2>2, NextStep DEF Advance
  <2>4. QED
    BY <2>1, <2>2, <2>3
<1>2. QED
  BY <1>1, InitInv, NextInv, PTL DEF Spec, WithinWindow

\* The left edge of the window never goes back and never passes what was sent.
THEOREM LeftEdgeCorrect == Spec => LeftEdgeOK
<1> DEFINE Edge == /\ sender'.m_window_left >= sender.m_window_left
                   /\ sender'.m_window_left <= Most(sent, sender.m_window_left)
<1>1. Inv /\ Inv' /\ [Next]_vars => [Edge]_vars
  <2> SUFFICES ASSUME Inv, Inv', Next PROVE Edge
    OBVIOUS
  <2>1. PICK left \in Nat, then \in Nat, high \in Nat :
          left = sender.m_window_left /\ then = sender'.m_window_left /\ high = sent
    BY DEF Inv, Consistent
  <2>2. left <= then /\ (then = left \/ then <= high)
    BY <2>1, NextStep DEF Advance
  <2>3. QED
    BY <2>1, <2>2 DEF Most
<1>2. QED
  BY <1>1, InitInv, NextInv, PTL DEF Spec, LeftEdgeOK
=============================================================================
