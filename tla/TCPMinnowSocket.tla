-------------------------- MODULE TCPMinnowSocket --------------------------
(***************************************************************************)
(* The class TCPMinnowSocket (src/util/tcp_minnow_socket.hh,               *)
(* tcp_minnow_socket.cc): the four rules of its event loop, and what its   *)
(* methods do to its fields.  The owner's end of the socket pair is        *)
(* "owner", _thread_data is "thread", and the file of the datagram adapter *)
(* is "datagrams", where at most one segment waits.                        *)
(*                                                                         *)
(* The state s of FileDescriptor has two more fields here: socket, the     *)
(* fields of the object, and outside, what is on the other side of the     *)
(* adapter (arrived, the segments to be read from it, and remote, the      *)
(* other end of the connection).  _fully_acked is only logged.             *)
(***************************************************************************)
EXTENDS TCPPeer, FileDescriptor, SequencesExt

CONSTANTS OwnerISN, RemoteISN

TCPMinnowSocket(config) ==
  [_tcp |-> TCPPeer(config), outgoing_segments_ |-> <<>>, _abort |-> FALSE,
   _inbound_shutdown |-> FALSE, _outbound_shutdown |-> FALSE]

\* The state with the TCPPeer as now and its segments collected.
collected(s, now) ==
  LET result == collect_segments(now)
  IN  [s EXCEPT !.socket._tcp = result.peer,
                !.socket.outgoing_segments_ = @ \o result.segments]

(***************************************************************************)
(* The other end of the connection: any TCP, at the level of whole         *)
(* segments that arrive in order.  (What happens when they do not is       *)
(* TCPConnection's.)  got and acked count sequence numbers: those it has   *)
(* and those of its own that were acknowledged; limit is the window it     *)
(* was given, told what it has acknowledged; patient, that it waits for    *)
(* an answer before it sends again.                                        *)
(***************************************************************************)
Remote == [received |-> <<>>, eof |-> FALSE, got |-> 0, acked |-> 0, limit |-> 1,
           told |-> 0, patient |-> FALSE, reset |-> FALSE]

takes(remote, message) ==
  IF message.seqno # Wrap32_wrap(remote.got, OwnerISN) THEN remote
  ELSE [remote EXCEPT !.got = @ + sequence_length(message),
                      !.received = Joined(@, message.payload), !.eof = @ \/ message.FIN]

learns(remote, message) ==
  LET acked == Wrap32_unwrap(CHOOSE w \in message.ackno : TRUE, RemoteISN, remote.acked)
  IN  IF message.ackno = {} THEN remote
      ELSE [remote EXCEPT !.acked = acked, !.limit = acked + message.window_size,
                          !.patient = FALSE]

hears(remote, seg) ==
  IF remote.reset THEN remote
  ELSE learns(takes(remote, seg.sender_message), seg.receiver_message)

(***************************************************************************)
(* Rule 1: read from the adapter into the TCPPeer.                         *)
(***************************************************************************)
receive_segment(s) ==
  LET taken == register_read([s EXCEPT !.outside.arrived = Tail(@)], "datagrams")
  IN  collected(taken, TCPPeer_receive(s.socket._tcp, Head(s.outside.arrived)))

wants_segment(s) == active(s.socket._tcp)

(***************************************************************************)
(* Rule 2: read from the owner into the outbound stream.                   *)
(***************************************************************************)
close_outbound(s) ==
  [s EXCEPT !.socket._tcp.outbound_stream_ = Writer_close(@),
            !.socket._outbound_shutdown = TRUE]

push_bytes(s) ==
  LET got == read(s, "thread", Writer_available_capacity(s.socket._tcp.outbound_stream_))
      pushed == [got.state EXCEPT !.socket._tcp.outbound_stream_ = Writer_push(@, got.data)]
      closed == IF pushed.fd["thread"].eof_ THEN close_outbound(pushed) ELSE pushed
  IN  collected(closed, TCPPeer_push(closed.socket._tcp))

wants_bytes(s) ==
  /\ active(s.socket._tcp)
  /\ ~s.socket._outbound_shutdown
  /\ Writer_available_capacity(s.socket._tcp.outbound_stream_) > 0

(***************************************************************************)
(* Rule 3: write from the inbound stream to the owner, and shut that       *)
(* direction when the stream has ended or failed.                          *)
(***************************************************************************)
ended(inbound) == Reader_is_finished(inbound) \/ inbound.error_

\* Fault: what was written in part is dropped whole.
DeliverWhole(s) ==
  LET inbound == s.socket._tcp.inbound_stream_
      written == IF Reader_bytes_buffered(inbound) = 0 THEN [count |-> 0, state |-> s]
                 ELSE write(s, "thread", inbound.buffer_)
      popped == [written.state EXCEPT !.socket._tcp.inbound_stream_ =
                   Reader_pop(@, Reader_bytes_buffered(@))]
  IN  IF popped.fault = "none" /\ ended(popped.socket._tcp.inbound_stream_)
      THEN [shutdown(popped, "thread", {"WR"}) EXCEPT !.socket._inbound_shutdown = TRUE]
      ELSE popped

deliver_bytes(s) ==
  LET inbound == s.socket._tcp.inbound_stream_
      written == IF Reader_bytes_buffered(inbound) = 0 THEN [count |-> 0, state |-> s]
                 ELSE write(s, "thread", inbound.buffer_)
      popped == [written.state EXCEPT !.socket._tcp.inbound_stream_ = Reader_pop(@, written.count)]
  IN  IF popped.fault = "none" /\ ended(popped.socket._tcp.inbound_stream_)
      THEN [shutdown(popped, "thread", {"WR"}) EXCEPT !.socket._inbound_shutdown = TRUE]
      ELSE popped

\* Fault: the rule is interested until the end was passed on, bytes or not.
WaitsForEnd(s) == ~s.socket._inbound_shutdown

\* Fault: the end is passed on again and again.
PassesEndAgain(s) ==
  Reader_bytes_buffered(s.socket._tcp.inbound_stream_) > 0 \/ ended(s.socket._tcp.inbound_stream_)

has_bytes(s) ==
  LET inbound == s.socket._tcp.inbound_stream_
  IN  \/ Reader_bytes_buffered(inbound) > 0
      \/ ended(inbound) /\ ~s.socket._inbound_shutdown

(***************************************************************************)
(* Rule 4: write the collected segments to the adapter.                    *)
(***************************************************************************)
send_segment(s, seg) ==
  [register_write(s, "datagrams") EXCEPT !.outside.remote = hears(@, seg)]

send_segments(s) ==
  [FoldLeft(send_segment, s, s.socket.outgoing_segments_)
     EXCEPT !.socket.outgoing_segments_ = <<>>]

has_segments(s) == s.socket.outgoing_segments_ # <<>>

(***************************************************************************)
(* The methods.  ticked is what _tcp_loop does after each event; time does *)
(* not pass in this model, so that no timer expires.                       *)
(***************************************************************************)
ticked(s) ==
  IF active(s.socket._tcp) THEN collected(s, TCPPeer_tick(s.socket._tcp, 0)) ELSE s

connect(s) == collected(s, TCPPeer_push(s.socket._tcp))

\* connect and listen_and_accept run the loop while this holds.
connecting(s) == sequence_numbers_in_flight(s.socket._tcp.sender_) = 1
accepting(s) ==
  ~has_ackno(s.socket._tcp) \/ sequence_numbers_in_flight(s.socket._tcp.sender_) > 0

\* The end of _tcp_main, after the loop, and what wait_until_closed does
\* before it waits: it is the owner's end that is shut in both.
shut_down(s) == shutdown(s, "owner", {"RD", "WR"})

\* What the destructor does before it waits.
abort(s) == [s EXCEPT !.socket._abort = TRUE]
=============================================================================
