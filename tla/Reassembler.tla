---------------------------- MODULE Reassembler ----------------------------
(***************************************************************************)
(* The class Reassembler (src/src/reassembler.hh, reassembler.cc): turns   *)
(* indexed substrings, in any order and overlapping, into the in-order     *)
(* bytes of a ByteStream.  m_buf is a std::map from the index of the first *)
(* byte of a stored block to its bytes: here a function on the set of its  *)
(* keys.                                                                   *)
(*                                                                         *)
(* The loops of the class walk the map in key order and stop at the first  *)
(* key that fails a test, so each is the set of keys it gets through: the  *)
(* keys up to which every key passes.  ReassemblerLoops has the loops      *)
(* themselves and TLC compares the two.                                    *)
(***************************************************************************)
EXTENDS ByteStream, Words, Functions, FiniteSets, FiniteSetsExt

\* m_stream_end is UINT64_MAX until the last substring is known.
Reassembler ==
  [m_buf           |-> [k \in {} |-> <<>>],
   m_bytes_pending |-> 0,
   m_stream_end    |-> UINT64_MAX]

\* One past the last index of the block at key k.
End(buf, k) == k + Len(buf[k])

\* --iter of the iterator at key k, when k is not begin().
Before(buf, k) == Max({j \in DOMAIN buf : j < k})

\* The byte stored for index p.
ByteAt(buf, p) ==
  LET k == Max({j \in DOMAIN buf : j <= p}) IN buf[k][p - k + 1]

(***************************************************************************)
(* _write_to_stream: the blocks at the front of the map that continue the  *)
(* stream one after the other are pushed, each counted whole in            *)
(* m_bytes_pending and erased, whatever push had room for.                 *)
(***************************************************************************)
Written(buf, output) ==
  LET pushed == output.bytes_pushed_
      accept_end == pushed + Writer_available_capacity(output)
      continues(j) ==
        /\ j <= accept_end
        /\ j = IF \E i \in DOMAIN buf : i < j THEN End(buf, Before(buf, j)) ELSE pushed
  IN  {k \in DOMAIN buf : \A j \in DOMAIN buf : j <= k => continues(j)}

write_to_stream(r, output) ==
  LET pushed  == output.bytes_pushed_
      written == Written(r.m_buf, output)
      size    == End(r.m_buf, Max(written)) - pushed
      data    == [i \in 1 .. size |-> ByteAt(r.m_buf, pushed + i - 1)]
  IN  IF written = {} THEN [reassembler |-> r, output |-> output]
      ELSE [reassembler |->
              [r EXCEPT !.m_buf = Restrict(@, DOMAIN @ \ written),
                        !.m_bytes_pending = @ - size],
            output |-> Writer_push(output, data)]

(***************************************************************************)
(* _delete_overlapping: the blocks right after the one at index that end   *)
(* no later than it are erased.                                            *)
(***************************************************************************)
\* Fault: a block that only touches the new one is erased too.
OverlappedOrTouching(buf, index) ==
  {k \in DOMAIN buf : k > index /\ k <= End(buf, index)}

Overlapped(buf, index) ==
  {k \in DOMAIN buf :
     k > index /\ \A j \in DOMAIN buf :
                    index < j /\ j <= k => End(buf, j) <= End(buf, index)}

\* Fault: the erased blocks stay counted.
DeleteUncounted(r, index) ==
  [r EXCEPT !.m_buf = Restrict(@, DOMAIN @ \ Overlapped(@, index))]

delete_overlapping(r, index) ==
  LET gone == Overlapped(r.m_buf, index)
  IN  [r EXCEPT !.m_buf = Restrict(@, DOMAIN @ \ gone),
                !.m_bytes_pending =
                   @ - MapThenSumSet(LAMBDA k : Len(r.m_buf[k]), gone)]

(***************************************************************************)
(* _insert_to_buffer, the end of the data: when a block starts below the   *)
(* end of the data, the last such block alone decides where the data is    *)
(* cut (reassembler.cc:49-53 overwrites the cut at accept_end).            *)
(***************************************************************************)
\* Fault: the data is always cut at the last block that starts below its end.
ClampAtBlock(buf, accept_end, end_index) ==
  LET below == {k \in DOMAIN buf : k < end_index}
  IN  IF below = {} THEN Least(accept_end, end_index) ELSE Max(below)

ClampedEnd(buf, accept_end, end_index) ==
  LET below == {k \in DOMAIN buf : k < end_index}
  IN  IF below = {} THEN Least(accept_end, end_index)
      ELSE IF End(buf, Max(below)) >= end_index THEN Max(below) ELSE end_index

(***************************************************************************)
(* _insert_to_buffer, the beginning of the data: the walk starts at the    *)
(* last block that starts at or below first_index (at the first block when *)
(* there is none) and moves over every block that leaves no gap.  On an    *)
(* empty map the code reads end()->first; the loop cannot run on what it   *)
(* finds, so the outcome is the same.                                      *)
(***************************************************************************)
\* Fault: only the block the walk starts at is skipped.
SkipOneBlock(buf, first_index, from) ==
  LET held == {k \in DOMAIN buf : k <= from /\ from < End(buf, k)}
  IN  IF held = {} THEN from ELSE End(buf, Max(held)) - 1

ClampedBegin(buf, first_index, from) ==
  LET at_or_below == {k \in DOMAIN buf : k <= first_index}
      start == IF at_or_below # {} THEN Max(at_or_below) ELSE Min(DOMAIN buf)
      skipped == {k \in DOMAIN buf :
                    k >= start /\ \A j \in DOMAIN buf :
                      start < j /\ j <= k => j <= End(buf, Before(buf, j))}
  IN  IF DOMAIN buf = {} \/ start > from \/ End(buf, start) <= from THEN from
      ELSE End(buf, Max(skipped))

\* The bytes of data from begin up to end become a block.  Fault: the bytes in
\* front of begin are not erased from the data.
store_uncut(r, first_index, data, begin, end) ==
  LET block == Slice(data, 0, end - first_index)
  IN  [r EXCEPT !.m_buf = [k \in DOMAIN @ \cup {begin} |-> IF k = begin THEN block ELSE @[k]],
                !.m_bytes_pending = @ + Len(block)]

store(r, first_index, data, begin, end) ==
  LET block == Slice(data, begin - first_index, end - first_index)
  IN  [r EXCEPT !.m_buf = [k \in DOMAIN @ \cup {begin} |-> IF k = begin THEN block ELSE @[k]],
                !.m_bytes_pending = @ + Len(block)]

insert_to_buffer(r, accept_begin, len, first_index, data) ==
  LET end   == ClampedEnd(r.m_buf, accept_begin + len, first_index + Len(data))
      begin == ClampedBegin(r.m_buf, first_index, Most(accept_begin, first_index))
  IN  IF first_index >= accept_begin + len \/ begin >= end THEN r
      ELSE delete_overlapping(store(r, first_index, data, begin, end), begin)

(***************************************************************************)
(* insert: the object and the stream it leaves.                            *)
(***************************************************************************)
\* Fault: a last substring without bytes is not taken for one.
LearnEndWithData(r, first_index, data, is_last_substring) ==
  IF is_last_substring /\ Len(data) > 0
  THEN [r EXCEPT !.m_stream_end = (first_index + Len(data)) % Modulus64] ELSE r

learn_end(r, first_index, data, is_last_substring) ==
  IF is_last_substring
  THEN [r EXCEPT !.m_stream_end = (first_index + Len(data)) % Modulus64] ELSE r

\* Fault: the end counts as reached as soon as it is known.
EndIsKnown(r, output) == r.m_stream_end # UINT64_MAX /\ ~output.is_close_

AtEnd(r, output) == output.bytes_pushed_ = r.m_stream_end /\ ~output.is_close_

close_at_end(result) ==
  IF AtEnd(result.reassembler, result.output)
  THEN [result EXCEPT !.output = Writer_close(@)] ELSE result

Reassembler_insert(r, first_index, data, is_last_substring, output) ==
  LET known  == learn_end(r, first_index, data, is_last_substring)
      stored == insert_to_buffer(known, output.bytes_pushed_,
                                 Writer_available_capacity(output), first_index, data)
  IN  close_at_end(write_to_stream(stored, output))
=============================================================================
