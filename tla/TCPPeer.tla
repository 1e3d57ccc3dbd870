------------------------------- MODULE TCPPeer -------------------------------
(***************************************************************************)
(* The class TCPPeer (src/util/tcp_peer.hh): a sender and a receiver, the  *)
(* two streams they work on, and what goes on the wire together, a         *)
(* TCPSegment (src/util/tcp_segment.hh).  An object is a record and a      *)
(* method an operator.                                                     *)
(***************************************************************************)
EXTENDS TCPReceiver

TCPSegment(sender_message, receiver_message, reset) ==
  [sender_message |-> sender_message, receiver_message |-> receiver_message, reset |-> reset]

TCPPeer(cfg) ==
  [sender_          |-> TCPSender(cfg.rt_timeout, cfg.fixed_isn),
   receiver_        |-> TCPReceiver,
   reassembler_     |-> Reassembler,
   outbound_stream_ |-> ByteStream(cfg.send_capacity),
   inbound_stream_  |-> ByteStream(cfg.recv_capacity),
   need_send_       |-> FALSE]

push_result(p, result) ==
  [p EXCEPT !.sender_ = result.sender, !.outbound_stream_ = result.outbound]

TCPPeer_push(p) == push_result(p, TCPSender_push(p.sender_, p.outbound_stream_))

TCPPeer_tick(p, ms) == [p EXCEPT !.sender_ = TCPSender_tick(@, ms)]

our_ackno(p) == TCPReceiver_send(p.receiver_, p.inbound_stream_).ackno

has_ackno(p) == our_ackno(p) # {}

\* Fault: what is in flight is forgotten.
ActiveIgnoresFlight(p) ==
  /\ ~p.inbound_stream_.error_
  /\ ~Reader_is_finished(p.outbound_stream_) \/ ~p.inbound_stream_.is_close_

active(p) ==
  /\ ~p.inbound_stream_.error_
  /\ \/ ~Reader_is_finished(p.outbound_stream_)
     \/ ~p.inbound_stream_.is_close_
     \/ sequence_numbers_in_flight(p.sender_) > 0

(***************************************************************************)
(* receive.  A reset, or a segment for a stream that had one, is an error. *)
(* Otherwise the sender takes the acknowledgment first, and the receiver   *)
(* the rest; a segment that takes numbers, or a keep-alive (the number     *)
(* before the one awaited), will be answered.                              *)
(***************************************************************************)
\* Fault: only what is new is answered.
AnswersNew(p, message) ==
  sequence_length(message) > 0 /\ our_ackno(p) \in {{}, {message.seqno}}

answers(p, message) ==
  \/ sequence_length(message) > 0
  \/ \E ackno \in our_ackno(p) : (message.seqno + 1) % Modulus = ackno

receive_result(p, result) ==
  [p EXCEPT !.receiver_ = result.receiver, !.reassembler_ = result.reassembler,
            !.inbound_stream_ = result.inbound]

TCPPeer_receive(p, seg) ==
  LET message  == seg.sender_message
      informed == [p EXCEPT !.sender_ = TCPSender_receive(@, seg.receiver_message),
                            !.need_send_ = @ \/ answers(p, message)]
  IN  IF seg.reset \/ p.inbound_stream_.error_
      THEN [p EXCEPT !.inbound_stream_ = set_error(@)]
      ELSE receive_result(informed, TCPReceiver_receive(p.receiver_, message, p.reassembler_,
                                                        p.inbound_stream_))

(***************************************************************************)
(* maybe_send: the segment to send, if any, and the peer it leaves.        *)
(***************************************************************************)
take_segment(p, receiver_msg) ==
  LET queued == p.sender_.m_send_queue_ # <<>>
      sender_msg == IF queued THEN maybe_send_message(p.sender_)
                    ELSE send_empty_message(p.sender_)
      reset == p.outbound_stream_.error_ \/ p.inbound_stream_.error_
  IN  [peer |-> [p EXCEPT !.sender_ = IF queued THEN maybe_send(@) ELSE @,
                          !.need_send_ = FALSE],
       segments |-> IF queued \/ p.need_send_
                    THEN <<TCPSegment(sender_msg, receiver_msg, reset)>> ELSE <<>>]

maybe_send_segment(p) ==
  take_segment(IF has_ackno(p) THEN TCPPeer_push(p) ELSE p,
               TCPReceiver_send(p.receiver_, p.inbound_stream_))

\* TCPMinnowSocket::collect_segments (tcp_minnow_socket.cc:309-318): call
\* maybe_send until it has nothing, which takes at most as many calls as the
\* first one leaves messages queued, and two more.
add_segments(segments, sent) ==
  [peer |-> sent.peer, segments |-> segments \o sent.segments]

collect_segments(p) ==
  LET calls == Len(TCPPeer_push(p).sender_.m_send_queue_) + 2
  IN  FoldSet(LAMBDA call, collected :
                add_segments(collected.segments, maybe_send_segment(collected.peer)),
              [peer |-> p, segments |-> <<>>], 1 .. calls)
=============================================================================
