--------------------------- MODULE FileDescriptor ---------------------------
(***************************************************************************)
(* The class FileDescriptor with its FDWrapper                             *)
(* (src/util/file_descriptor.hh, file_descriptor.cc) and shutdown of       *)
(* Socket (src/util/socket.cc).  duplicate() shares the wrapper, so there  *)
(* is one wrapper per end.                                                 *)
(*                                                                         *)
(* A method is an operator on a state s of a program, a record with the    *)
(* fields kernel, fd (the wrapper of each end) and fault ("none", or how a *)
(* call ended the program).  Every descriptor of the programs modelled     *)
(* here is made non-blocking before it is used: non_blocking_ is left out. *)
(***************************************************************************)
EXTENDS Kernel

CONSTANT kReadBufferSize

ASSUME ReadBufferAssumption == kReadBufferSize \in Nat \ {0}

FDWrapper == [eof_ |-> FALSE, closed_ |-> FALSE, read_count_ |-> 0, write_count_ |-> 0]

register_read(s, e) == [s EXCEPT !.fd[e].read_count_ = @ + 1]
register_write(s, e) == [s EXCEPT !.fd[e].write_count_ = @ + 1]

\* Only what a callback adds to the counters is ever looked at.
uncounted(s) ==
  [s EXCEPT !.fd = [e \in DOMAIN @ |-> [@[e] EXCEPT !.read_count_ = 0, !.write_count_ = 0]]]

faulty(s, how) == [s EXCEPT !.fault = how]

(***************************************************************************)
(* read into a string of the given size: what the string holds after, and  *)
(* the state.  A call that would block returns early and leaves the string *)
(* as it was resized: full of zeros.                                       *)
(***************************************************************************)
zeros(n) == [i \in 1 .. n |-> 0]

would_block(s, e) == s.kernel[e].queue = <<>> /\ ~s.kernel[e].rcv

read(s, e, size) ==
  LET requested == IF size = 0 THEN kReadBufferSize ELSE size
      data == Slice(s.kernel[e].queue, 0, Least(requested, Len(s.kernel[e].queue)))
      at_eof == [s EXCEPT !.fd[e].eof_ = @ \/ data = <<>>]
  IN  IF would_block(s, e) THEN [data |-> zeros(requested), state |-> s]
      ELSE [data  |-> data,
            state |-> [register_read(at_eof, e) EXCEPT !.kernel = take(@, e, Len(data))]]

(***************************************************************************)
(* write: how many bytes were written, and the state.  Where nobody can    *)
(* read them the signal SIGPIPE ends the program; where there is no room   *)
(* CheckSystemCall turns the error into 0, which write does not accept.    *)
(***************************************************************************)
write(s, e, data) ==
  LET n == Least(Len(data), room(s.kernel, e))
      written == [register_write(s, e) EXCEPT !.kernel = put(@, e, Slice(data, 0, n))]
  IN  IF s.kernel[e].snd THEN [count |-> 0, state |-> faulty(s, "sigpipe")]
      ELSE IF n = 0 /\ data # <<>> THEN [count |-> 0, state |-> faulty(written, "throw")]
      ELSE [count |-> n, state |-> written]

close(s, e) ==
  [s EXCEPT !.kernel = shut(@, e, {"WR", "RD"}), !.fd[e].eof_ = TRUE, !.fd[e].closed_ = TRUE]

shutdown(s, e, how) ==
  LET shut_down == [s EXCEPT !.kernel = shut(@, e, how)]
      read_too == IF "RD" \in how THEN register_read(shut_down, e) ELSE shut_down
  IN  IF "WR" \in how THEN register_write(read_too, e) ELSE read_too
=============================================================================
