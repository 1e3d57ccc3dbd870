------------------------- MODULE Reassembler_proofs -------------------------
(***************************************************************************)
(* ReassemblerSpec keeps its invariants, loses nothing that fits, and      *)
(* implements the safety part of ReliableStream, for every source,         *)
(* capacity and order, overlap and repetition of the substrings.           *)
(*                                                                         *)
(* The inductive invariant says that the stream carries Source, and that   *)
(* the blocks carry it too, in order, apart from one another and apart     *)
(* from what is written.  Inside insert it holds in a weaker form, with    *)
(* blocks that may begin right where the stream ends: InsertToBuffer takes *)
(* it there and WriteToStream back.                                        *)
(***************************************************************************)
EXTENDS ReassemblerSpec, DataLemmas

\* The reassembler q and the stream s it writes to, between two calls.
Consistent(q, s) == Assembled(q, s, Source, Byte, Capacity)

Inv ==
  /\ Consistent(r, stream)
  /\ delivered = Slice(Source, 0, stream.bytes_popped_)
  /\ eof \in BOOLEAN
  /\ eof => stream.is_close_ /\ stream.buffer_ = <<>>

\* The constants, and what the invariant says of the lengths.
LEMMA Constants ==
  /\ Source \in Seq(Byte) /\ Len(Source) \in Nat /\ Capacity \in Nat
  /\ Modulus64 \in Nat /\ Len(Source) < UINT64_MAX
  /\ SliceAlgebra(Source, Byte)
BY SourceAssumption, CapacityAssumption, LengthAssumption, ModulusAssumption, LenProperties, SliceFacts

LEMMA Lengths ==
  ASSUME NEW q, NEW s, Consistent(q, s)
  PROVE  /\ s \in ByteStreams(Byte, Capacity) /\ Carries(s, Source)
         /\ s.bytes_popped_ \in Nat /\ s.bytes_pushed_ \in Nat
         /\ s.bytes_popped_ <= s.bytes_pushed_ /\ s.bytes_pushed_ <= Len(Source)
         /\ Len(s.buffer_) = s.bytes_pushed_ - s.bytes_popped_
         /\ Len(s.buffer_) <= Capacity
BY Constants, AssembledLengths DEF Consistent

LEMMA InitInv == Init => Inv
<1> SUFFICES ASSUME Init PROVE Inv
  OBVIOUS
<1>1. stream = [buffer_ |-> <<>>, capacity_ |-> Capacity, bytes_pushed_ |-> 0,
                bytes_popped_ |-> 0, is_close_ |-> FALSE, error_ |-> FALSE]
  BY DEF Init, ByteStream
<1>2. <<>> \in Seq(Byte) /\ Slice(Source, 0, 0) = <<>>
  BY EmptySeq, Constants, SliceEmpty
<1>3. stream \in ByteStreams(Byte, Capacity)
  BY <1>1, <1>2, Constants DEF ByteStreams
<1>4. Carries(stream, Source)
  BY <1>1, <1>2, Constants DEF Carries
<1>5. /\ DOMAIN r = {"m_buf", "m_bytes_pending", "m_stream_end"}
      /\ r.m_buf = [k \in {} |-> <<>>]
      /\ r.m_stream_end = UINT64_MAX
  BY DEF Init, Reassembler
<1>6. Blocks(r.m_buf, Source, stream.bytes_pushed_ + 1)
  BY <1>5 DEF Blocks, IsFunction
<1>7. stream.bytes_pushed_ # r.m_stream_end /\ ~stream.is_close_
  BY <1>1, <1>5, Constants
<1>8. Consistent(r, stream)
  BY <1>3, <1>4, <1>5, <1>6, <1>7 DEF Consistent, Assembled
<1>9. delivered = <<>> /\ eof = FALSE /\ stream.bytes_popped_ = 0
  BY <1>1 DEF Init
<1>10. QED
  BY <1>2, <1>8, <1>9 DEF Inv

(***************************************************************************)
(* One call of insert.                                                     *)
(***************************************************************************)

\* Whatever stretch of Source is inserted, the two stay consistent, nothing is
\* taken back, what fits is held, and what was held and fits stays.
LEMMA InsertResult ==
  ASSUME NEW q, NEW s, Consistent(q, s),
         NEW end \in 0 .. Len(Source), NEW first \in 0 .. end,
         NEW last \in BOOLEAN, last => end = Len(Source),
         NEW t, t = Reassembler_insert(q, first, Slice(Source, first, end), last, s)
  PROVE  /\ Consistent(t.reassembler, t.output)
         /\ s.bytes_pushed_ <= t.output.bytes_pushed_
         /\ t.output.bytes_popped_ = s.bytes_popped_
         /\ s.is_close_ => t.output.is_close_
         /\ \A p \in Nat : /\ p < s.bytes_pushed_ + Writer_available_capacity(s)
                           /\ Held(s, q.m_buf, p) \/ (first <= p /\ p < end)
                           => Held(t.output, t.reassembler.m_buf, p)
<1>1. /\ Source \in Seq(Byte) /\ Capacity \in Nat /\ Len(Source) < UINT64_MAX
      /\ Assembled(q, s, Source, Byte, Capacity)
  BY Constants DEF Consistent
<1>2. /\ Assembled(t.reassembler, t.output, Source, Byte, Capacity)
      /\ s.bytes_pushed_ <= t.output.bytes_pushed_
      /\ t.output.bytes_popped_ = s.bytes_popped_
      /\ s.is_close_ => t.output.is_close_
      /\ \A p \in Nat : /\ p < s.bytes_pushed_ + Writer_available_capacity(s)
                        /\ p < s.bytes_pushed_ \/ Stored(q.m_buf, p) \/ (first <= p /\ p < end)
                        => p < t.output.bytes_pushed_ \/ Stored(t.reassembler.m_buf, p)
  BY <1>1, InsertIsAssembled
<1>3. \A o, buf, p : Held(o, buf, p) <=> p < o.bytes_pushed_ \/ Stored(buf, p)
  BY DEF Held, Stored
<1>4. QED
  BY <1>2, <1>3 DEF Consistent

\* What a step that inserts does.
LEMMA InsertStep ==
  ASSUME Inv, InsertAny
  PROVE  /\ Consistent(r, stream) /\ Consistent(r', stream')
         /\ stream.bytes_pushed_ <= stream'.bytes_pushed_
         /\ stream'.bytes_popped_ = stream.bytes_popped_
         /\ stream.is_close_ => stream'.is_close_
         /\ UNCHANGED <<delivered, eof>>
         /\ \A p \in Nat : InWindow(p) /\ Held(stream, r.m_buf, p) => Held(stream', r'.m_buf, p)
<1>1. PICK end \in 0 .. Len(Source) : \E first \in 0 .. end, last \in BOOLEAN : Insert(first, end, last)
  BY DEF InsertAny
<1>2. PICK first \in 0 .. end, last \in BOOLEAN : Insert(first, end, last)
  BY <1>1
<1>3. PICK t : /\ t = Reassembler_insert(r, first, Slice(Source, first, end), last, stream)
               /\ r' = t.reassembler /\ stream' = t.output
  BY <1>2 DEF Insert
<1>4. (last => end = Len(Source)) /\ UNCHANGED <<delivered, eof>>
  BY <1>2 DEF Insert
<1>5. Consistent(r, stream)
  BY DEF Inv
<1>6. /\ Consistent(t.reassembler, t.output)
      /\ stream.bytes_pushed_ <= t.output.bytes_pushed_
      /\ t.output.bytes_popped_ = stream.bytes_popped_
      /\ stream.is_close_ => t.output.is_close_
      /\ \A p \in Nat : /\ p < stream.bytes_pushed_ + Writer_available_capacity(stream)
                        /\ Held(stream, r.m_buf, p) \/ (first <= p /\ p < end)
                        => Held(t.output, t.reassembler.m_buf, p)
  BY <1>3, <1>4, <1>5, InsertResult
<1>7. QED
  BY <1>3, <1>4, <1>5, <1>6 DEF InWindow

LEMMA InsertInv == Inv /\ InsertAny => Inv'
<1> SUFFICES ASSUME Inv, InsertAny PROVE Inv'
  OBVIOUS
<1>1. /\ Consistent(r, stream) /\ Consistent(r', stream')
      /\ stream.bytes_pushed_ <= stream'.bytes_pushed_
      /\ stream'.bytes_popped_ = stream.bytes_popped_
      /\ stream.is_close_ => stream'.is_close_
      /\ UNCHANGED <<delivered, eof>>
  BY InsertStep
<1>2. ASSUME eof PROVE stream'.is_close_ /\ stream'.buffer_ = <<>>
  <2>1. stream.is_close_ /\ stream.buffer_ = <<>>
    BY <1>2 DEF Inv
  <2>2. PICK a \in Nat, b \in Nat, c \in Nat :
          /\ a = stream.bytes_popped_ /\ b = stream.bytes_pushed_ /\ c = stream'.bytes_pushed_
          /\ b <= c /\ c <= Len(Source)
    BY <1>1, Lengths
  <2>3. b = Len(Source)
    BY <1>1, <2>1, <2>2, Constants DEF Consistent, Assembled
  <2>4. stream'.buffer_ = Slice(Source, a, c) /\ stream.buffer_ = Slice(Source, a, b)
    BY <1>1, <2>2 DEF Consistent, Assembled, Carries
  <2>5. c = b
    BY <2>2, <2>3, Constants
  <2>6. QED
    BY <1>1, <2>1, <2>4, <2>5
<1>3. delivered' = Slice(Source, 0, stream'.bytes_popped_)
  BY <1>1 DEF Inv
<1>4. QED
  BY <1>1, <1>2, <1>3 DEF Inv

(***************************************************************************)
(* The reader.                                                             *)
(***************************************************************************)
LEMMA ReadStep ==
  ASSUME Inv, Read
  PROVE  /\ stream' \in ByteStreams(Byte, Capacity)
         /\ Carries(stream', Source)
         /\ stream.bytes_popped_ <= stream'.bytes_popped_
         /\ stream'.bytes_pushed_ = stream.bytes_pushed_
         /\ stream'.is_close_ = stream.is_close_
         /\ delivered' = Slice(Source, 0, stream'.bytes_popped_)
         /\ UNCHANGED <<r, eof>>
<1>1. PICK n \in 1 .. Capacity :
        /\ delivered' = Joined(delivered, read_out(stream, n))
        /\ stream' = read_rest(stream, n)
  BY DEF Read
<1>2. Consistent(r, stream) /\ delivered = Slice(Source, 0, stream.bytes_popped_)
  BY DEF Inv
<1>3. /\ stream' \in ByteStreams(Byte, Capacity)
      /\ Carries(stream', Source)
      /\ stream.bytes_popped_ <= stream'.bytes_popped_
      /\ stream'.bytes_pushed_ = stream.bytes_pushed_
      /\ stream'.is_close_ = stream.is_close_
      /\ read_out(stream, n) = Slice(Source, stream.bytes_popped_, stream'.bytes_popped_)
  <2>1. stream \in ByteStreams(Byte, Capacity) /\ Carries(stream, Source)
    BY <1>2, Lengths
  <2>2. stream' = read_rest(stream, n) /\ n \in Nat
    BY <1>1, Constants
  <2>3. QED
    BY <2>1, <2>2, Constants, ReadCarries, SMTT(30)
<1>4. PICK a \in Nat, c \in Nat : a = stream.bytes_popped_ /\ c = stream'.bytes_popped_
  BY <1>2, <1>3, Lengths DEF ByteStreams
<1>5. 0 <= a /\ a <= c /\ c <= Len(Source) /\ 0 \in Nat
  BY <1>2, <1>3, <1>4, Lengths, Constants DEF Carries
<1>6. Joined(Slice(Source, 0, a), Slice(Source, a, c)) = Slice(Source, 0, c)
  BY <1>5, Constants DEF SliceAlgebra
<1>7. delivered' = Slice(Source, 0, c)
  BY <1>1, <1>2, <1>3, <1>4, <1>6
<1>8. QED
  BY <1>3, <1>4, <1>7 DEF Read

LEMMA ReadInv == Inv /\ Read => Inv'
<1> SUFFICES ASSUME Inv, Read PROVE Inv'
  OBVIOUS
<1>1. /\ stream' \in ByteStreams(Byte, Capacity) /\ Carries(stream', Source)
      /\ stream.bytes_popped_ <= stream'.bytes_popped_
      /\ stream'.bytes_pushed_ = stream.bytes_pushed_
      /\ stream'.is_close_ = stream.is_close_
      /\ delivered' = Slice(Source, 0, stream'.bytes_popped_)
      /\ UNCHANGED <<r, eof>>
  BY ReadStep
<1>2. Consistent(r, stream)
  BY DEF Inv
<1>3. Consistent(r', stream')
  BY <1>1, <1>2 DEF Consistent, Assembled
<1>4. ASSUME eof PROVE stream'.buffer_ = <<>>
  <2>1. stream.buffer_ = <<>> /\ Len(stream.buffer_) = 0
    BY <1>4, EmptySeq DEF Inv
  <2>2. stream'.bytes_popped_ = stream.bytes_popped_
    BY <1>1, <1>2, <1>3, <2>1, Lengths
  <2>3. stream'.buffer_ = stream.buffer_
    BY <1>1, <1>2, <2>2 DEF Consistent, Assembled, Carries
  <2>4. QED
    BY <2>1, <2>3
<1>5. QED
  BY <1>1, <1>3, <1>4 DEF Inv

LEMMA NextInv == Inv /\ [Next]_vars => Inv'
<1>1. Inv /\ Finish => Inv'
  BY DEF Finish, Reader_is_finished, Inv
<1>2. Inv /\ UNCHANGED vars => Inv'
  BY DEF vars, Inv
<1>3. QED
  BY <1>1, <1>2, InsertInv, ReadInv DEF Next

(***************************************************************************)
(* The invariants the runs check.                                          *)
(***************************************************************************)

\* The types hold: the map has naturals for keys and strings of bytes for
\* blocks, and the stream never holds more than its capacity.
THEOREM TypeCorrect == Safety => []TypeOK
<1>1. Inv => TypeOK
  <2> SUFFICES ASSUME Inv PROVE TypeOK
    OBVIOUS
  <2>1. Consistent(r, stream)
    BY DEF Inv
  <2>2. /\ DOMAIN r = {"m_buf", "m_bytes_pending", "m_stream_end"}
        /\ r.m_stream_end \in {Len(Source), UINT64_MAX}
        /\ stream \in ByteStreams(Byte, Capacity)
        /\ Len(stream.buffer_) <= Capacity
    BY <2>1, Lengths DEF Consistent, Assembled
  <2>3. DOMAIN r.m_buf \in SUBSET Nat
    BY <2>1 DEF Consistent, Assembled, Blocks
  <2>4. r.m_buf \in [DOMAIN r.m_buf -> Seq(Byte)]
    <3>1. ASSUME NEW k \in DOMAIN r.m_buf
          PROVE  r.m_buf[k] \in Seq(Byte)
      <4>1. PICK e \in Nat : k \in Nat /\ k <= e /\ e <= Len(Source) /\ r.m_buf[k] = Slice(Source, k, e)
        BY <2>1, <2>3 DEF Consistent, Assembled, Blocks
      <4>2. QED
        BY <4>1, Constants DEF SliceAlgebra
    <3>2. IsFunction(r.m_buf)
      BY <2>1 DEF Consistent, Assembled, Blocks
    <3>3. QED
      BY <3>1, <3>2 DEF IsFunction
  <2>5. delivered \in Seq(Byte)
    <3>1. PICK a \in Nat : a = stream.bytes_popped_ /\ a <= Len(Source)
      BY <2>1, Lengths, Constants
    <3>2. Slice(Source, 0, a) \in Seq(Byte)
      <4>1. 0 \in Nat /\ 0 <= a
        BY <3>1
      <4>2. QED
        BY <3>1, <4>1, Constants DEF SliceAlgebra
    <3>3. QED
      BY <3>1, <3>2 DEF Inv
  <2>6. QED
    BY <2>2, <2>3, <2>4, <2>5 DEF Inv, TypeOK
<1>2. QED
  BY <1>1, InitInv, NextInv, PTL DEF Safety

\* Whatever order, overlap and repetition the substrings come in, the stream
\* carries a prefix of Source and the reader has taken a prefix of that.
THEOREM IntegrityCorrect == Safety => []Integrity
<1>1. Inv => Integrity
  BY DEF Inv, Consistent, Assembled, Integrity
<1>2. QED
  BY <1>1, InitInv, NextInv, PTL DEF Safety

\* Between calls the map holds bytes of Source at their indices, in blocks that
\* do not overlap and lie behind the next byte to write.
THEOREM BlocksCorrect == Safety => []BlocksOK
<1>1. Inv => BlocksOK
  <2> SUFFICES ASSUME Inv PROVE BlocksOK
    OBVIOUS
  <2>1. stream.bytes_pushed_ \in Nat /\ Blocks(r.m_buf, Source, stream.bytes_pushed_ + 1)
    BY Lengths DEF Inv, Consistent, Assembled
  <2>2. QED
    BY <2>1 DEF Blocks, BlocksOK
<1>2. QED
  BY <1>1, InitInv, NextInv, PTL DEF Safety

\* The stream is closed exactly when its end is known and written, and the
\* reader sees the end only when it has read everything.
THEOREM ClosesCorrect == Safety => []ClosesAtEnd
<1>1. Inv => ClosesAtEnd
  BY DEF Inv, Consistent, Assembled, ClosesAtEnd
<1>2. QED
  BY <1>1, InitInv, NextInv, PTL DEF Safety

(***************************************************************************)
(* Nothing that fits is lost.                                              *)
(***************************************************************************)

\* In every reachable state, whatever substring arrives next, each of its bytes
\* inside the available capacity is stored or written.
THEOREM StoresCorrect == Safety => []StoresWhatFits
<1>1. Inv => StoresWhatFits
  <2> SUFFICES ASSUME Inv, NEW end \in 0 .. Len(Source), NEW first \in 0 .. end
               PROVE  LET t == Reassembler_insert(r, first, Slice(Source, first, end), FALSE, stream)
                      IN  \A p \in first .. end - 1 :
                            InWindow(p) => Held(t.output, t.reassembler.m_buf, p)
    BY DEF StoresWhatFits
  <2>1. PICK last \in BOOLEAN : last = FALSE
    OBVIOUS
  <2>2. PICK t : t = Reassembler_insert(r, first, Slice(Source, first, end), last, stream)
    OBVIOUS
  <2>3. Consistent(r, stream) /\ (last => end = Len(Source))
    BY <2>1 DEF Inv
  <2>4. \A p \in Nat : /\ p < stream.bytes_pushed_ + Writer_available_capacity(stream)
                       /\ Held(stream, r.m_buf, p) \/ (first <= p /\ p < end)
                       => Held(t.output, t.reassembler.m_buf, p)
    BY <2>2, <2>3, InsertResult
  <2>5. \A p \in first .. end - 1 : p \in Nat /\ first <= p /\ p < end
    BY Constants
  <2>6. \A p \in first .. end - 1 : InWindow(p) => Held(t.output, t.reassembler.m_buf, p)
    BY <2>4, <2>5 DEF InWindow
  <2>7. t = Reassembler_insert(r, first, Slice(Source, first, end), FALSE, stream)
    BY <2>1, <2>2, Zenon
  <2>8. QED
    BY <2>6, <2>7, Zenon
<1>2. QED
  BY <1>1, InitInv, NextInv, PTL DEF Safety

\* No step takes back a byte that is stored inside the available capacity.
THEOREM KeepsCorrect == Safety => KeepsInWindow
<1> DEFINE Kept == \A p \in 0 .. Len(Source) - 1 :
                     InWindow(p) /\ Held(stream, r.m_buf, p) => Held(stream', r'.m_buf, p)
<1>1. Inv /\ [Next]_vars => [Kept]_vars
  <2> SUFFICES ASSUME Inv, Next, NEW p \in 0 .. Len(Source) - 1,
                      InWindow(p), Held(stream, r.m_buf, p)
               PROVE  Held(stream', r'.m_buf, p)
    OBVIOUS
  <2>1. CASE InsertAny
    <3>1. p \in Nat
      BY Constants
    <3>2. QED
      BY <2>1, <3>1, InsertStep
  <2>2. CASE Read
    BY <2>2, ReadStep DEF Held
  <2>3. CASE Finish
    BY <2>3 DEF Finish
  <2>4. QED
    BY <2>1, <2>2, <2>3 DEF Next
<1>2. QED
  BY <1>1, InitInv, NextInv, PTL DEF Safety, KeepsInWindow

(***************************************************************************)
(* The counter.                                                            *)
(***************************************************************************)
LEMMA InitCounted == Init => Counted(r)
<1> SUFFICES ASSUME Init PROVE Counted(r)
  OBVIOUS
<1>1. r.m_bytes_pending = 0 /\ DOMAIN r.m_buf = {}
  BY DEF Init, Reassembler
<1>2. Indices(r.m_buf, DOMAIN r.m_buf) = {}
  BY <1>1 DEF Indices
<1>3. QED
  BY <1>1, <1>2, FS_EmptySet DEF Counted

LEMMA NextCounted == Inv /\ Counted(r) /\ [Next]_vars => Counted(r)'
<1> SUFFICES ASSUME Inv, Counted(r), [Next]_vars PROVE Counted(r')
  OBVIOUS
<1>1. CASE InsertAny
  <2> PICK end \in 0 .. Len(Source) : \E first \in 0 .. end, last \in BOOLEAN : Insert(first, end, last)
    BY <1>1 DEF InsertAny
  <2>1. PICK first \in 0 .. end, last \in BOOLEAN : Insert(first, end, last)
    OBVIOUS
  <2>2. PICK t : /\ t = Reassembler_insert(r, first, Slice(Source, first, end), last, stream)
                 /\ r' = t.reassembler
    BY <2>1 DEF Insert
  <2>3. (last => end = Len(Source)) /\ Consistent(r, stream)
    BY <2>1 DEF Insert, Inv
  <2>4. QED
    BY <2>2, <2>3, Constants, InsertIsCounted DEF Consistent
<1>2. CASE Read
  BY <1>2, ReadStep
<1>3. CASE Finish
  BY <1>3 DEF Finish
<1>4. CASE UNCHANGED vars
  BY <1>4 DEF vars
<1>5. QED
  BY <1>1, <1>2, <1>3, <1>4 DEF Next

\* The counter is the sum of the lengths of the stored blocks, through every
\* overlap, whatever push had no room for.
THEOREM PendingCorrect == Safety => []PendingExact
<1>1. Inv /\ Counted(r) => PendingExact
  <2> SUFFICES ASSUME Inv, Counted(r) PROVE PendingExact
    OBVIOUS
  <2>1. stream.bytes_pushed_ \in Nat /\ Blocks(r.m_buf, Source, stream.bytes_pushed_ + 1)
    BY Lengths DEF Inv, Consistent, Assembled
  <2>2. BlocksFollow(r.m_buf, DOMAIN r.m_buf, Len(Source))
    <3>1. stream.bytes_pushed_ + 1 \in Nat /\ Source \in Seq(Byte)
      BY <2>1, Constants
    <3>2. QED
      BY <2>1, <3>1, BlocksApart
  <2>3. r.m_bytes_pending = TotalLength(r.m_buf, DOMAIN r.m_buf)
    BY <2>2, SumIsCount DEF Counted
  <2>4. QED
    BY <2>3 DEF PendingExact, TotalLength
<1>2. QED
  BY <1>1, InitInv, InitCounted, NextInv, NextCounted, PTL DEF Safety

(***************************************************************************)
(* The refinement.                                                         *)
(***************************************************************************)
LEMMA ReadRefines == Inv /\ Read => RS!Deliver \/ UNCHANGED RS!rsVars
<1> SUFFICES ASSUME Inv, Read PROVE RS!Deliver \/ UNCHANGED RS!rsVars
  OBVIOUS
<1>1. Consistent(r, stream)
  BY DEF Inv
<1>2. PICK a \in Nat, c \in Nat :
        /\ a = stream.bytes_popped_ /\ c = stream'.bytes_popped_
        /\ a <= c /\ c <= Len(Source)
        /\ delivered = Slice(Source, 0, a) /\ delivered' = Slice(Source, 0, c)
        /\ UNCHANGED eof
  BY <1>1, ReadStep, Lengths DEF ByteStreams, Carries, Inv
<1>3. Len(delivered) = a
  <2>1. 0 \in Nat /\ 0 <= a /\ a <= Len(Source)
    BY <1>2, Constants
  <2>2. Len(Slice(Source, 0, a)) = a - 0
    BY <2>1, Constants DEF SliceAlgebra
  <2>3. QED
    BY <1>2, <2>2
<1>4. CASE a = c
  BY <1>2, <1>4 DEF RS!rsVars
<1>5. CASE a # c
  <2>1. c \in Len(delivered) + 1 .. Len(Source)
    BY <1>2, <1>3, <1>5, Constants
  <2>2. delivered' = SubSeq(Source, 1, c)
    BY <1>2 DEF Slice
  <2>3. QED
    BY <1>2, <2>1, <2>2 DEF RS!Deliver
<1>6. QED
  BY <1>4, <1>5

LEMMA FinishRefines == Inv /\ Finish => RS!End \/ UNCHANGED RS!rsVars
<1> SUFFICES ASSUME Inv, Finish PROVE RS!End \/ UNCHANGED RS!rsVars
  OBVIOUS
<1>1. stream.is_close_ /\ stream.buffer_ = <<>> /\ eof' = TRUE /\ UNCHANGED delivered
  BY DEF Finish, Reader_is_finished
<1>2. Consistent(r, stream)
  BY DEF Inv
<1>3. stream.bytes_pushed_ = Len(Source)
  BY <1>1, <1>2, Lengths, Constants DEF Consistent, Assembled
<1>4. stream.bytes_popped_ = Len(Source)
  BY <1>1, <1>2, <1>3, Lengths, EmptySeq
<1>5. delivered = Source
  <2>1. SubSeq(Source, 1, Len(Source)) = Source
    BY SourceAssumption, SubSeqFull
  <2>2. QED
    BY <1>4, <2>1 DEF Inv, Slice
<1>6. QED
  BY <1>1, <1>5 DEF RS!End, RS!rsVars, Inv

\* Reassembled, a stream whose pieces are lost, repeated, cut anew and reordered
\* delivers the bytes of Source once each, in order, and its end behind them.
THEOREM ReassemblerIsReliable == Safety => RS!Safety
<1>1. Init => RS!Init
  BY DEF Init, RS!Init
<1>2. Inv /\ [Next]_vars => [RS!Next]_(RS!rsVars)
  <2>1. InsertAny => UNCHANGED RS!rsVars
    BY DEF InsertAny, Insert, RS!rsVars
  <2>2. UNCHANGED vars => UNCHANGED RS!rsVars
    BY DEF vars, RS!rsVars
  <2>3. QED
    BY <2>1, <2>2, ReadRefines, FinishRefines DEF Next, RS!Next
<1>3. QED
  BY <1>1, <1>2, InitInv, NextInv, PTL DEF Safety, RS!Safety
=============================================================================
