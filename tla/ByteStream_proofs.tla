------------------------- MODULE ByteStream_proofs -------------------------
(***************************************************************************)
(* ByteStreamSpec keeps its invariants and implements the safety part of   *)
(* ReliableStream, for every source, capacity and sequence of call sizes.  *)
(* Accounting is inductive with the types: push appends the slice of the   *)
(* source that starts at bytes_pushed_ and read() takes the slice that     *)
(* starts at bytes_popped_, so both ends of the buffer stay on the source. *)
(***************************************************************************)
EXTENDS ByteStreamSpec, DataLemmas

Inv == TypeOK /\ Accounting /\ EndIsLast

LEMMA InitInv == Init => Inv
<1> SUFFICES ASSUME Init PROVE Inv
  OBVIOUS
<1>1. stream = [buffer_ |-> <<>>, capacity_ |-> Capacity, bytes_pushed_ |-> 0,
                bytes_popped_ |-> 0, is_close_ |-> FALSE, error_ |-> FALSE]
  BY DEF Init, ByteStream
<1>2. <<>> \in Seq(Byte) /\ Len(<<>>) = 0
  BY EmptySeq
<1>3. TypeOK
  <2>1. stream \in ByteStreams(Byte, Capacity)
    BY <1>1, <1>2 DEF ByteStreams
  <2>2. Len(stream.buffer_) <= Capacity
    BY <1>1, <1>2, CapacityAssumption
  <2>3. QED
    BY <1>2, <2>1, <2>2 DEF Init, TypeOK
<1>4. Slice(Source, 0, 0) = <<>> /\ Len(Source) \in Nat
  BY SourceAssumption, SliceEmpty, LenProperties
<1>5. Accounting
  BY <1>1, <1>4, CapacityAssumption DEF Init, Accounting, Carries
<1>6. EndIsLast
  BY <1>1 DEF Init, EndIsLast
<1>7. QED
  BY <1>3, <1>5, <1>6 DEF Inv

\* What the accounting says of the lengths.
LEMMA Lengths ==
  ASSUME Inv
  PROVE  /\ stream \in ByteStreams(Byte, Capacity) /\ Carries(stream, Source)
         /\ stream.bytes_popped_ \in Nat /\ stream.bytes_pushed_ \in Nat
         /\ Len(Source) \in Nat /\ Capacity \in Nat
         /\ Len(stream.buffer_) = stream.bytes_pushed_ - stream.bytes_popped_
<1>1. stream \in ByteStreams(Byte, Capacity) /\ Carries(stream, Source)
  BY DEF Inv, TypeOK, Accounting
<1>2. Capacity \in Nat /\ Source \in Seq(Byte)
  BY CapacityAssumption, SourceAssumption
<1>3. Len(Source) \in Nat
  BY <1>2, LenProperties
<1>4. QED
  BY <1>1, <1>2, <1>3, CarriesBuffer

\* Whatever carries Source within the capacity satisfies the types.
LEMMA CarriesType ==
  ASSUME NEW s \in ByteStreams(Byte, Capacity), Carries(s, Source)
  PROVE  Len(s.buffer_) <= Capacity
BY CarriesBuffer, CapacityAssumption, SourceAssumption

LEMMA WriteInv == Inv /\ Write => Inv'
<1> SUFFICES ASSUME Inv, Write PROVE Inv'
  OBVIOUS
<1>1. PICK last \in stream.bytes_pushed_ + 1 .. Len(Source) :
        stream' = Writer_push(stream, Slice(Source, stream.bytes_pushed_, last))
  BY DEF Write
<1>2. ~stream.is_close_ /\ UNCHANGED <<delivered, eof>>
  BY DEF Write
<1>3. last \in Nat /\ stream.bytes_pushed_ <= last /\ last <= Len(Source)
  BY Lengths
<1>4. Capacity \in Nat /\ Source \in Seq(Byte)
  BY CapacityAssumption, SourceAssumption
<1>5. /\ stream' \in ByteStreams(Byte, Capacity)
      /\ Carries(stream', Source)
      /\ stream'.bytes_popped_ = stream.bytes_popped_
      /\ stream'.is_close_ = stream.is_close_
  BY <1>1, <1>3, <1>4, Lengths, PushCarries
<1>6. TypeOK'
  BY <1>2, <1>5, CarriesType DEF Inv, TypeOK
<1>7. Accounting'
  BY <1>2, <1>5 DEF Inv, Accounting
<1>8. EndIsLast'
  BY <1>2, <1>5 DEF Inv, EndIsLast
<1>9. QED
  BY <1>6, <1>7, <1>8 DEF Inv

LEMMA CloseInv == Inv /\ Close => Inv'
<1> SUFFICES ASSUME Inv, Close PROVE Inv'
  OBVIOUS
<1>1. /\ stream.bytes_pushed_ = Len(Source)
      /\ stream' = Writer_close(stream)
      /\ UNCHANGED <<delivered, eof>>
      /\ ~stream.is_close_
  BY DEF Close
<1>2. /\ stream' \in ByteStreams(Byte, Capacity)
      /\ Carries(stream', Source)
      /\ stream'.bytes_pushed_ = stream.bytes_pushed_
      /\ stream'.bytes_popped_ = stream.bytes_popped_
      /\ stream'.is_close_
  BY <1>1, Lengths, CloseCarries, SourceAssumption
<1>3. TypeOK'
  BY <1>1, <1>2, CarriesType DEF Inv, TypeOK
<1>4. Accounting'
  BY <1>1, <1>2 DEF Inv, Accounting
<1>5. EndIsLast'
  BY <1>1, <1>2 DEF Inv, EndIsLast
<1>6. QED
  BY <1>3, <1>4, <1>5 DEF Inv

\* What Read does, in terms of the source.
LEMMA ReadStep ==
  ASSUME Inv, Read
  PROVE  /\ stream' \in ByteStreams(Byte, Capacity)
         /\ Carries(stream', Source)
         /\ stream.bytes_popped_ <= stream'.bytes_popped_
         /\ stream'.bytes_pushed_ = stream.bytes_pushed_
         /\ stream'.is_close_ = stream.is_close_
         /\ delivered' = Slice(Source, 0, stream'.bytes_popped_)
         /\ UNCHANGED eof
<1>1. PICK n \in 1 .. Len(Source) :
        /\ delivered' = Joined(delivered, read_out(stream, n))
        /\ stream' = read_rest(stream, n)
  BY DEF Read
<1>2. n \in Nat /\ Capacity \in Nat /\ Source \in Seq(Byte)
  BY Lengths, SourceAssumption
<1>3. /\ stream' \in ByteStreams(Byte, Capacity)
      /\ Carries(stream', Source)
      /\ stream.bytes_popped_ <= stream'.bytes_popped_
      /\ stream'.bytes_pushed_ = stream.bytes_pushed_
      /\ stream'.is_close_ = stream.is_close_
      /\ read_out(stream, n) = Slice(Source, stream.bytes_popped_, stream'.bytes_popped_)
  <2>1. stream \in ByteStreams(Byte, Capacity) /\ Carries(stream, Source)
    BY Lengths
  <2>2. stream' = read_rest(stream, n)
    BY <1>1
  <2>3. QED
    BY <1>2, <2>1, <2>2, ReadCarries
<1>4. PICK a \in Nat, c \in Nat : a = stream.bytes_popped_ /\ c = stream'.bytes_popped_
  BY <1>3, Lengths DEF ByteStreams
<1>5. 0 <= a /\ a <= c /\ c <= Len(Source) /\ 0 \in Nat
  BY <1>3, <1>4, Lengths DEF Carries, ByteStreams
<1>6. SliceAlgebra(Source, Byte)
  BY <1>2, SliceFacts
<1>7. Joined(Slice(Source, 0, a), Slice(Source, a, c)) = Slice(Source, 0, c)
  BY <1>5, <1>6 DEF SliceAlgebra
<1>8. delivered = Slice(Source, 0, a)
  BY <1>4 DEF Inv, Accounting
<1>9. delivered' = Slice(Source, 0, c)
  BY <1>1, <1>3, <1>4, <1>7, <1>8
<1>10. QED
  BY <1>3, <1>4, <1>9 DEF Read

LEMMA ReadInv == Inv /\ Read => Inv'
<1> SUFFICES ASSUME Inv, Read PROVE Inv'
  OBVIOUS
<1>1. /\ stream' \in ByteStreams(Byte, Capacity) /\ Carries(stream', Source)
      /\ stream.bytes_popped_ <= stream'.bytes_popped_
      /\ stream'.bytes_pushed_ = stream.bytes_pushed_
      /\ stream'.is_close_ = stream.is_close_
      /\ delivered' = Slice(Source, 0, stream'.bytes_popped_)
      /\ UNCHANGED eof
  BY ReadStep
<1>2. PICK c \in Nat : c = stream'.bytes_popped_
  BY <1>1 DEF ByteStreams
<1>3. c <= Len(Source) /\ 0 \in Nat /\ 0 <= c
  BY <1>1, <1>2, Lengths DEF Carries
<1>4. SliceAlgebra(Source, Byte)
  BY SourceAssumption, SliceFacts
<1>5. Slice(Source, 0, c) \in Seq(Byte)
  BY <1>3, <1>4 DEF SliceAlgebra
<1>6. TypeOK'
  BY <1>1, <1>2, <1>5, CarriesType DEF Inv, TypeOK
<1>7. Accounting'
  BY <1>1 DEF Accounting
<1>8. EndIsLast'
  <2>1. ASSUME eof PROVE stream'.buffer_ = <<>>
    <3>1. stream.buffer_ = <<>> /\ Len(stream.buffer_) = 0
      BY <2>1, EmptySeq DEF Inv, EndIsLast
    <3>2. stream'.bytes_popped_ = stream.bytes_popped_
      BY <1>1, <1>2, <3>1, Lengths DEF Carries
    <3>3. stream'.buffer_ = Slice(Source, stream.bytes_popped_, stream.bytes_pushed_)
      BY <1>1, <3>2 DEF Carries
    <3>4. stream.buffer_ = Slice(Source, stream.bytes_popped_, stream.bytes_pushed_)
      BY Lengths DEF Carries
    <3>5. QED
      BY <3>1, <3>3, <3>4
  <2>2. QED
    BY <1>1, <2>1 DEF Inv, EndIsLast
<1>9. QED
  BY <1>6, <1>7, <1>8 DEF Inv

LEMMA NextInv == Inv /\ [Next]_vars => Inv'
<1>1. Inv /\ Finish => Inv'
  BY DEF Finish, Reader_is_finished, Inv, TypeOK, Accounting, EndIsLast
<1>2. Inv /\ UNCHANGED vars => Inv'
  BY DEF vars, Inv, TypeOK, Accounting, EndIsLast
<1>3. QED
  BY <1>1, <1>2, WriteInv, CloseInv, ReadInv DEF Next

\* The types hold, and a stream never holds more than its capacity.
THEOREM TypeCorrect == Safety => []TypeOK
<1>1. Inv => TypeOK
  BY DEF Inv
<1>2. QED
  BY <1>1, InitInv, NextInv, PTL DEF Safety

\* No byte is lost, repeated or reordered between push and read.
THEOREM AccountingCorrect == Safety => []Accounting
<1>1. Inv => Accounting
  BY DEF Inv
<1>2. QED
  BY <1>1, InitInv, NextInv, PTL DEF Safety

\* The writer's close comes behind its last byte, and the reader sees the end
\* only when it has read everything.
THEOREM EndCorrect == Safety => []EndIsLast
<1>1. Inv => EndIsLast
  BY DEF Inv
<1>2. QED
  BY <1>1, InitInv, NextInv, PTL DEF Safety

(***************************************************************************)
(* The refinement.                                                         *)
(***************************************************************************)
LEMMA InitRefines == Init => RS!Init
BY DEF Init, RS!Init

LEMMA ReadRefines == Inv /\ Read => RS!Deliver \/ UNCHANGED RS!rsVars
<1> SUFFICES ASSUME Inv, Read PROVE RS!Deliver \/ UNCHANGED RS!rsVars
  OBVIOUS
<1>1. PICK a \in Nat, c \in Nat :
        /\ a = stream.bytes_popped_ /\ c = stream'.bytes_popped_
        /\ a <= c /\ c <= Len(Source)
        /\ delivered = Slice(Source, 0, a) /\ delivered' = Slice(Source, 0, c)
        /\ UNCHANGED eof
  BY ReadStep, Lengths DEF ByteStreams, Carries, Inv, Accounting
<1>2. SliceAlgebra(Source, Byte)
  BY SourceAssumption, SliceFacts
<1>3. Len(delivered) = a
  <2>1. 0 \in Nat /\ 0 <= a /\ a <= Len(Source)
    BY <1>1, Lengths
  <2>2. Len(Slice(Source, 0, a)) = a - 0
    BY <1>2, <2>1 DEF SliceAlgebra
  <2>3. QED
    BY <1>1, <2>2
<1>4. CASE a = c
  BY <1>1, <1>4 DEF RS!rsVars
<1>5. CASE a # c
  <2>1. c \in Len(delivered) + 1 .. Len(Source)
    BY <1>1, <1>3, <1>5, Lengths
  <2>2. delivered' = SubSeq(Source, 1, c)
    BY <1>1 DEF Slice
  <2>3. QED
    BY <1>1, <2>1, <2>2 DEF RS!Deliver
<1>6. QED
  BY <1>4, <1>5

LEMMA FinishRefines == Inv /\ Finish => RS!End \/ UNCHANGED RS!rsVars
<1> SUFFICES ASSUME Inv, Finish PROVE RS!End \/ UNCHANGED RS!rsVars
  OBVIOUS
<1>1. stream.is_close_ /\ stream.buffer_ = <<>> /\ eof' = TRUE /\ UNCHANGED delivered
  BY DEF Finish, Reader_is_finished
<1>2. stream.bytes_pushed_ = Len(Source)
  BY <1>1 DEF Inv, EndIsLast
<1>3. stream.bytes_popped_ = Len(Source)
  BY <1>1, <1>2, Lengths, EmptySeq
<1>4. delivered = Source
  <2>1. SubSeq(Source, 1, Len(Source)) = Source
    BY SourceAssumption, SubSeqFull
  <2>2. QED
    BY <1>3, <2>1 DEF Inv, Accounting, Slice
<1>5. QED
  BY <1>1, <1>4 DEF RS!End, RS!rsVars, Inv, TypeOK

\* A ByteStream is a reliable stream: its reader sees exactly the writer's
\* bytes, in order, and the end after the last of them.
THEOREM ByteStreamIsReliable == Safety => RS!Safety
<1>1. Inv /\ [Next]_vars => [RS!Next]_(RS!rsVars)
  <2>1. Write \/ Close \/ UNCHANGED vars => UNCHANGED RS!rsVars
    BY DEF Write, Close, vars, RS!rsVars
  <2>2. QED
    BY <2>1, ReadRefines, FinishRefines DEF Next, RS!Next
<1>2. QED
  BY <1>1, InitInv, NextInv, InitRefines, PTL DEF Safety, RS!Safety
=============================================================================
