----------------------------- MODULE ByteStream -----------------------------
(***************************************************************************)
(* The class ByteStream (src/src/byte_stream.hh, byte_stream.cc) and its   *)
(* two interfaces, Writer and Reader: a bounded FIFO of bytes.  An object  *)
(* is a record with the fields of the class, and the method C::m is the    *)
(* operator C_m that returns the object the method leaves behind, so every *)
(* module that owns a stream uses the same definitions.                    *)
(*                                                                         *)
(* A byte is any value: the class copies bytes and never looks at one.     *)
(***************************************************************************)
EXTENDS Slices

ByteStream(capacity) ==
  [buffer_       |-> <<>>,
   capacity_     |-> capacity,
   bytes_pushed_ |-> 0,
   bytes_popped_ |-> 0,
   is_close_     |-> FALSE,
   error_        |-> FALSE]

set_error(s) == [s EXCEPT !.error_ = TRUE]

(***************************************************************************)
(* Writer.                                                                 *)
(***************************************************************************)
Writer_available_capacity(s) == s.capacity_ - Len(s.buffer_)

\* Fault: a push that ignores the capacity.
PushTooMuch(s, data) ==
  [s EXCEPT !.buffer_ = Joined(@, data), !.bytes_pushed_ = @ + Len(data)]

\* push stores as much of data as fits and forgets the rest.
Writer_push(s, data) ==
  LET write_len == Least(Len(data), Writer_available_capacity(s))
  IN  [s EXCEPT !.buffer_       = Joined(@, Slice(data, 0, write_len)),
                !.bytes_pushed_ = @ + write_len]

Writer_close(s) == [s EXCEPT !.is_close_ = TRUE]

(***************************************************************************)
(* Reader.                                                                 *)
(***************************************************************************)
Reader_bytes_buffered(s) == Len(s.buffer_)

\* Faults: a pop that counts what was asked for; one that erases the tail.
PopCountsAsked(s, len) ==
  [s EXCEPT !.buffer_       = Slice(@, Least(len, Len(@)), Len(@)),
            !.bytes_popped_ = @ + len]
PopFromBack(s, len) ==
  [s EXCEPT !.buffer_       = Slice(@, 0, Len(@) - Least(len, Len(@))),
            !.bytes_popped_ = @ + Least(len, Len(s.buffer_))]

Reader_pop(s, len) ==
  LET pop_len == Least(len, Reader_bytes_buffered(s))
  IN  [s EXCEPT !.buffer_       = Slice(@, pop_len, Len(@)),
                !.bytes_popped_ = @ + pop_len]

\* Fault: the end is reported while bytes are still buffered.
FinishedWhenClosed(s) == s.is_close_

Reader_is_finished(s) == s.is_close_ /\ s.buffer_ = <<>>

(***************************************************************************)
(* The helper read(): the bytes that peeking and popping at most len bytes *)
(* returns, and the stream it leaves.  peek() shows the whole buffer, so   *)
(* the loop of the helper runs at most once.                               *)
(***************************************************************************)
read_out(s, len) == Slice(s.buffer_, 0, Least(len, Reader_bytes_buffered(s)))
read_rest(s, len) == Reader_pop(s, len)

(***************************************************************************)
(* The stream s, constructed with this capacity, carries the bytes of src: *)
(* what push accepted so far is a prefix of src, and the buffer is the     *)
(* part of it that was not popped.  Used to state invariants.              *)
(***************************************************************************)
ByteStreams(Byte, capacity) ==
  [buffer_ : Seq(Byte), capacity_ : {capacity}, bytes_pushed_ : Nat,
   bytes_popped_ : Nat, is_close_ : BOOLEAN, error_ : BOOLEAN]

Carries(s, src) ==
  /\ s.bytes_popped_ <= s.bytes_pushed_
  /\ s.bytes_pushed_ <= Len(src)
  /\ s.bytes_pushed_ - s.bytes_popped_ <= s.capacity_
  /\ s.buffer_ = Slice(src, s.bytes_popped_, s.bytes_pushed_)
=============================================================================
