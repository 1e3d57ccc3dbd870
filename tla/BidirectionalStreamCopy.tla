---------------------- MODULE BidirectionalStreamCopy ----------------------
(***************************************************************************)
(* The function bidirectional_stream_copy                                  *)
(* (src/apps/bidirectional_stream_copy.cc) on the owner's end of a         *)
(* TCPMinnowSocket: the four rules of its event loop.  Its locals are the  *)
(* field copy of the state.                                                *)
(***************************************************************************)
EXTENDS TCPMinnowSocket

bidirectional_stream_copy(buffer_size) ==
  [_outbound |-> ByteStream(buffer_size), _inbound |-> ByteStream(buffer_size),
   _outbound_shutdown |-> FALSE, _inbound_shutdown |-> FALSE]

no_error(s) == ~s.copy._outbound.error_ /\ ~s.copy._inbound.error_

close_copy_outbound(s) == [s EXCEPT !.copy._outbound = Writer_close(@)]
close_copy_inbound(s) == [s EXCEPT !.copy._inbound = Writer_close(@)]

(***************************************************************************)
(* Rule 1: from stdin into the outbound stream.                            *)
(***************************************************************************)
read_stdin(s) ==
  LET got == read(s, "stdin", Writer_available_capacity(s.copy._outbound))
      pushed == [got.state EXCEPT !.copy._outbound = Writer_push(@, got.data)]
  IN  IF pushed.fd["stdin"].eof_ THEN close_copy_outbound(pushed) ELSE pushed

wants_stdin(s) == no_error(s) /\ Writer_available_capacity(s.copy._outbound) > 0

(***************************************************************************)
(* Rule 2: from the outbound stream into the socket.                       *)
(***************************************************************************)
write_socket(s) ==
  LET written == IF Reader_bytes_buffered(s.copy._outbound) = 0 THEN [count |-> 0, state |-> s]
                 ELSE write(s, "owner", s.copy._outbound.buffer_)
      popped == [written.state EXCEPT !.copy._outbound = Reader_pop(@, written.count)]
  IN  IF Reader_is_finished(popped.copy._outbound)
      THEN [shutdown(popped, "owner", {"WR"}) EXCEPT !.copy._outbound_shutdown = TRUE]
      ELSE popped

has_outbound(s) ==
  \/ Reader_bytes_buffered(s.copy._outbound) > 0
  \/ Reader_is_finished(s.copy._outbound) /\ ~s.copy._outbound_shutdown

(***************************************************************************)
(* Rule 3: from the socket into the inbound stream.                        *)
(***************************************************************************)
read_socket(s) ==
  LET got == read(s, "owner", Writer_available_capacity(s.copy._inbound))
      pushed == [got.state EXCEPT !.copy._inbound = Writer_push(@, got.data)]
  IN  IF pushed.fd["owner"].eof_ THEN close_copy_inbound(pushed) ELSE pushed

wants_socket(s) == no_error(s) /\ Writer_available_capacity(s.copy._inbound) > 0

(***************************************************************************)
(* Rule 4: from the inbound stream to stdout, which is closed at the end.  *)
(***************************************************************************)
write_stdout(s) ==
  LET written == IF Reader_bytes_buffered(s.copy._inbound) = 0 THEN [count |-> 0, state |-> s]
                 ELSE write(s, "stdout", s.copy._inbound.buffer_)
      popped == [written.state EXCEPT !.copy._inbound = Reader_pop(@, written.count)]
  IN  IF Reader_is_finished(popped.copy._inbound)
      THEN [close(popped, "stdout") EXCEPT !.copy._inbound_shutdown = TRUE]
      ELSE popped

has_inbound(s) ==
  \/ Reader_bytes_buffered(s.copy._inbound) > 0
  \/ Reader_is_finished(s.copy._inbound) /\ ~s.copy._inbound_shutdown
=============================================================================
