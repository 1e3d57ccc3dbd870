--------------------------- MODULE TCPSenderLoops ---------------------------
(***************************************************************************)
(* TCPSender::push with its loop, one message after the other, and the     *)
(* loop of TCPSender::receive, one acknowledged message after the other,   *)
(* as tcp_sender.cc has them.  TCPSender has what they compute: LoopsAgree *)
(* (MCTCPSender).                                                          *)
(***************************************************************************)
EXTENDS TCPSender

\* read() at most len bytes and push them, with FIN when the stream ends
\* inside the window; nothing when there is neither.
PushPiece(s, outbound, len) ==
  LET payload == read_out(outbound, len)
      rest    == read_rest(outbound, len)
      fin     == /\ Len(payload) + get_absolute_seqno(s) < window_right(s)
                 /\ Reader_is_finished(rest)
  IN  IF payload = <<>> /\ ~fin THEN [sender |-> s, outbound |-> rest]
      ELSE [sender |-> [push_message(s, payload, FALSE, fin)
                          EXCEPT !.m_fin_pushed = s.m_fin_pushed \/ fin],
            outbound |-> rest]

RECURSIVE PushLoop(_, _)
PushLoop(s, outbound) ==
  LET next == PushPiece(s, outbound, MAX_PAYLOAD_SIZE)
  IN  IF \/ s.m_fin_pushed
         \/ get_absolute_seqno(s) + MAX_PAYLOAD_SIZE > window_right(s)
         \/ next.sender = s
      THEN [sender |-> s, outbound |-> outbound]
      ELSE PushLoop(next.sender, next.outbound)

LoopPush(s, outbound) ==
  LET synced == IF s.m_syc_pushed THEN s ELSE push_syn(s, outbound)
      full   == PushLoop(synced, outbound)
      next   == get_absolute_seqno(full.sender)
      right  == window_right(full.sender)
  IN  IF full.sender.m_fin_pushed \/ next >= right THEN full
      ELSE PushPiece(full.sender, full.outbound, right - next)

RECURSIVE AckLoop(_, _)
AckLoop(s, absolute_ackno) ==
  LET out == DOMAIN s.m_outstanding_messages_  begin == Min(out)
  IN  IF \/ out = {}
         \/ absolute_ackno < wait_for_ackno(s, begin)
         \/ absolute_ackno > get_absolute_seqno(s)
      THEN {}
      ELSE {begin} \cup
           AckLoop([s EXCEPT !.m_outstanding_messages_ = Restrict(@, out \ {begin})],
                   absolute_ackno)
=============================================================================
