--------------------------- MODULE ByteStreamSpec ---------------------------
(***************************************************************************)
(* One ByteStream between a program that writes and a program that reads.  *)
(* The writer offers what it has left in pieces of any size, keeps what    *)
(* push did not accept (its count is bytes_pushed), and closes the stream  *)
(* when everything is in; the reader takes pieces of any size until        *)
(* is_finished.  This is how TCPMinnowSocket::_initialize_TCP uses its two *)
(* streams (src/src/tcp_minnow_socket.cc:110-165).                         *)
(***************************************************************************)
EXTENDS ByteStream

CONSTANTS Source,    \* the bytes the writer has to send
          Capacity,  \* the capacity the stream is constructed with
          Byte       \* the values a byte takes

ASSUME SourceAssumption == Source \in Seq(Byte)
ASSUME CapacityAssumption == Capacity \in Nat \ {0}

VARIABLES stream,     \* the ByteStream
          delivered,  \* what the reader has taken so far
          eof         \* the reader saw is_finished()

vars == <<stream, delivered, eof>>

Init ==
  /\ stream = ByteStream(Capacity)
  /\ delivered = <<>>
  /\ eof = FALSE

\* The writer offers its next n bytes.
Write ==
  /\ ~stream.is_close_
  /\ \E last \in stream.bytes_pushed_ + 1 .. Len(Source) :
       stream' = Writer_push(stream, Slice(Source, stream.bytes_pushed_, last))
  /\ UNCHANGED <<delivered, eof>>

Close ==
  /\ ~stream.is_close_
  /\ stream.bytes_pushed_ = Len(Source)
  /\ stream' = Writer_close(stream)
  /\ UNCHANGED <<delivered, eof>>

\* The reader takes at most n bytes.
Read ==
  /\ \E n \in 1 .. Len(Source) :
       /\ delivered' = Joined(delivered, read_out(stream, n))
       /\ stream' = read_rest(stream, n)
  /\ UNCHANGED eof

Finish ==
  /\ Reader_is_finished(stream)
  /\ eof' = TRUE
  /\ UNCHANGED <<stream, delivered>>

Next == Write \/ Close \/ Read \/ Finish

\* Each program keeps calling the stream while it has something to do.
Fairness == WF_vars(Write) /\ WF_vars(Close) /\ WF_vars(Read) /\ WF_vars(Finish)

Safety == Init /\ [][Next]_vars
Spec == Safety /\ Fairness

(***************************************************************************)
(* Invariants.                                                             *)
(***************************************************************************)
\* The fields have their types and the stream holds at most its capacity (so
\* the unsigned subtraction in available_capacity cannot wrap).
TypeOK ==
  /\ stream \in ByteStreams(Byte, Capacity)
  /\ Len(stream.buffer_) <= Capacity
  /\ delivered \in Seq(Byte)
  /\ eof \in BOOLEAN

\* What was read, then what is buffered, is what was offered up to the count
\* push reports: no mixture of call sizes loses, repeats or reorders a byte.
Accounting ==
  /\ Carries(stream, Source)
  /\ delivered = Slice(Source, 0, stream.bytes_popped_)

\* A stream is closed only behind the last byte, and its end is reported
\* only when all of it was read.
EndIsLast ==
  /\ stream.is_close_ => stream.bytes_pushed_ = Len(Source)
  /\ eof => stream.is_close_ /\ stream.buffer_ = <<>>

(***************************************************************************)
(* A ByteStream is a reliable stream: its reader gets exactly the writer's *)
(* bytes, and gets all of them and the end whatever the sizes of the calls.*)
(***************************************************************************)
RS == INSTANCE ReliableStream
Reliable == RS!Spec
=============================================================================
