-------------------------- MODULE ReassemblerLoops --------------------------
(***************************************************************************)
(* The three loops of the Reassembler one iteration at a time, as the      *)
(* iterators of reassembler.cc take them.  The definitions of Reassembler  *)
(* are what these loops compute: LoopsAgree (MCReassembler).               *)
(***************************************************************************)
EXTENDS Reassembler

Without(r, k) ==
  [r EXCEPT !.m_buf = Restrict(@, DOMAIN @ \ {k}),
            !.m_bytes_pending = @ - Len(r.m_buf[k])]

RECURSIVE WriteLoop(_, _)
WriteLoop(r, output) ==
  LET iter == Min(DOMAIN r.m_buf)
  IN  IF DOMAIN r.m_buf = {} \/ iter # output.bytes_pushed_
      THEN [reassembler |-> r, output |-> output]
      ELSE WriteLoop(Without(r, iter), Writer_push(output, r.m_buf[iter]))

RECURSIVE DeleteLoop(_, _)
DeleteLoop(r, index) ==
  LET after == {k \in DOMAIN r.m_buf : k > index}
      iter  == Min(after)
  IN  IF after = {} \/ End(r.m_buf, iter) > End(r.m_buf, index) THEN r
      ELSE DeleteLoop(Without(r, iter), index)

RECURSIVE SkipLoop(_, _, _)
SkipLoop(buf, keys, clamped_begin) ==
  LET iter == Min(keys)
  IN  IF keys = {} \/ iter > clamped_begin THEN clamped_begin
      ELSE SkipLoop(buf, keys \ {iter}, End(buf, iter))

SkipFrom(buf, first_index, clamped_begin) ==
  LET at_or_below == {k \in DOMAIN buf : k <= first_index}
      start == IF at_or_below = {} THEN Min(DOMAIN buf) ELSE Max(at_or_below)
  IN  IF DOMAIN buf # {} /\ End(buf, start) > clamped_begin
      THEN SkipLoop(buf, {k \in DOMAIN buf : k >= start}, clamped_begin)
      ELSE clamped_begin
=============================================================================
