-------------------------- MODULE ReassemblerSpec --------------------------
(***************************************************************************)
(* One Reassembler between the segments of a TCP connection and the stream *)
(* its program reads (src/src/tcp_receiver.cc:15).  A segment carries some *)
(* stretch of Source, and segments arrive in any order, any number of      *)
(* times, cut at any place; one that reaches the end of Source may say so  *)
(* (FIN), and FIN may come alone.                                          *)
(***************************************************************************)
EXTENDS Reassembler

CONSTANTS Source,    \* the bytes the peer sends
          Capacity,  \* the capacity of the stream
          Byte       \* the values a byte takes

ASSUME SourceAssumption == Source \in Seq(Byte)
ASSUME CapacityAssumption == Capacity \in Nat \ {0}
ASSUME LengthAssumption == Len(Source) < UINT64_MAX

VARIABLES r,          \* the Reassembler
          stream,     \* the ByteStream it writes to
          delivered,  \* what the reader has taken so far
          eof         \* the reader saw is_finished()

vars == <<r, stream, delivered, eof>>

Init ==
  /\ r = Reassembler
  /\ stream = ByteStream(Capacity)
  /\ delivered = <<>>
  /\ eof = FALSE

\* The bytes of Source from index first up to, not including, end arrive.
Insert(first, end, last) ==
  /\ last => end = Len(Source)
  /\ \E result \in {Reassembler_insert(r, first, Slice(Source, first, end), last, stream)} :
       r' = result.reassembler /\ stream' = result.output
  /\ UNCHANGED <<delivered, eof>>

InsertAny ==
  \E end \in 0 .. Len(Source) : \E first \in 0 .. end, last \in BOOLEAN :
    Insert(first, end, last)

\* The reader takes at most n bytes.
Read ==
  /\ \E n \in 1 .. Capacity :
       /\ delivered' = Joined(delivered, read_out(stream, n))
       /\ stream' = read_rest(stream, n)
  /\ UNCHANGED <<r, eof>>

Finish ==
  /\ Reader_is_finished(stream)
  /\ eof' = TRUE
  /\ UNCHANGED <<r, stream, delivered>>

Next == InsertAny \/ Read \/ Finish

\* The peer sends the byte that is wanted next again until it is acknowledged,
\* and FIN until the stream is closed: here in the least helpful way, that
\* byte alone and FIN alone, and only while there is room for it.
Wanted ==
  stream.bytes_pushed_ < Len(Source) /\ Writer_available_capacity(stream) > 0

InsertWanted ==
  Wanted /\ Insert(stream.bytes_pushed_, stream.bytes_pushed_ + 1, FALSE)

InsertFin ==
  ~stream.is_close_ /\ Insert(Len(Source), Len(Source), TRUE)

\* The first disjunction is WF_vars(InsertWanted): a wanted byte is always
\* written when it comes, so Wanted is ENABLED <<InsertWanted>>_vars, in the
\* form TLC evaluates at once.
Fairness ==
  /\ []<>~Wanted \/ []<><<InsertWanted>>_vars
  /\ WF_vars(InsertFin)
  /\ WF_vars(Read)
  /\ WF_vars(Finish)

Safety == Init /\ [][Next]_vars
Spec == Safety /\ Fairness

(***************************************************************************)
(* Invariants.                                                             *)
(***************************************************************************)
\* The fields have their types, and the stream holds at most its capacity.
TypeOK ==
  /\ DOMAIN r = {"m_buf", "m_bytes_pending", "m_stream_end"}
  /\ DOMAIN r.m_buf \in SUBSET Nat
  /\ r.m_buf \in [DOMAIN r.m_buf -> Seq(Byte)]
  /\ r.m_stream_end \in {Len(Source), UINT64_MAX}
  /\ stream \in ByteStreams(Byte, Capacity)
  /\ Len(stream.buffer_) <= Capacity
  /\ delivered \in Seq(Byte)
  /\ eof \in BOOLEAN

\* Whatever the order, the overlaps and the losses, what goes into the stream
\* is the beginning of Source and nothing else.
Integrity ==
  /\ Carries(stream, Source)
  /\ delivered = Slice(Source, 0, stream.bytes_popped_)

\* Between calls the stored blocks lie behind the next byte to write, leave
\* it missing, do not overlap, and hold the bytes of Source at their keys.
BlocksOK ==
  \A k \in DOMAIN r.m_buf :
    /\ stream.bytes_pushed_ < k
    /\ k < End(r.m_buf, k)
    /\ End(r.m_buf, k) <= Len(Source)
    /\ r.m_buf[k] = Slice(Source, k, End(r.m_buf, k))
    /\ \A j \in DOMAIN r.m_buf : j < k => End(r.m_buf, j) <= k

\* bytes_pending() is the number of bytes stored: no path through the
\* overlaps counts a byte twice or leaves one counted (and the unsigned
\* counter never goes below zero).
PendingExact ==
  r.m_bytes_pending = MapThenSumSet(LAMBDA k : Len(r.m_buf[k]), DOMAIN r.m_buf)

\* The stream is closed exactly when its end is known and all before it was
\* written, and its end is reported only when all of it was read.
ClosesAtEnd ==
  /\ stream.is_close_ <=> stream.bytes_pushed_ = r.m_stream_end
  /\ eof => stream.is_close_ /\ stream.buffer_ = <<>>

\* "The Reassembler should discard any bytes that lie beyond the stream's
\* available capacity" (reassembler.hh:36-37): what it stores and what the
\* stream buffers fit in the capacity together.  The code does not do this
\* (reassembler.cc:49-53), and run reassembler_capacity shows how.
WithinCapacity ==
  r.m_bytes_pending + Reader_bytes_buffered(stream) <= Capacity

(***************************************************************************)
(* What is stored stays.  "If the Reassembler learns about bytes that fit  *)
(* within the stream's available capacity but can't yet be written [...],  *)
(* it should store them internally until the gaps are filled in"           *)
(* (reassembler.hh:32-34).                                                 *)
(***************************************************************************)
Held(s, buf, p) ==
  p < s.bytes_pushed_ \/ \E k \in DOMAIN buf : k <= p /\ p < End(buf, k)

InWindow(p) == p < stream.bytes_pushed_ + Writer_available_capacity(stream)

\* Of any substring that may arrive now, every byte inside the available
\* capacity is stored or written, whatever is stored before, between and
\* behind.
StoresWhatFits ==
  \A end \in 0 .. Len(Source) : \A first \in 0 .. end :
    LET result == Reassembler_insert(r, first, Slice(Source, first, end), FALSE, stream)
    IN  \A p \in first .. end - 1 :
          InWindow(p) => Held(result.output, result.reassembler.m_buf, p)

\* A byte that is stored inside the available capacity stays stored until it
\* is written.
KeepsInWindow ==
  [][\A p \in 0 .. Len(Source) - 1 :
       InWindow(p) /\ Held(stream, r.m_buf, p) => Held(stream', r'.m_buf, p)]_vars

(***************************************************************************)
(* Reassembled, a stream whose pieces are lost, repeated and reordered is  *)
(* a reliable stream.                                                      *)
(***************************************************************************)
RS == INSTANCE ReliableStream
Reliable == RS!Spec
=============================================================================
