------------------------------- MODULE Parser -------------------------------
(***************************************************************************)
(* The classes Parser, with its BufferList, and Serializer                 *)
(* (src/util/parser.hh), and InternetChecksum (src/util/checksum.hh).      *)
(*                                                                         *)
(* A buffer is a sequence of bytes.  A BufferList is the sequence of its   *)
(* buffers, the first without the skip_ bytes that were read from it.  An  *)
(* integer of 32 bits is the pair of its halves.                           *)
(***************************************************************************)
EXTENDS Slices, SequencesExt, FiniteSets

Bits16 == 65536

Number(bytes) ==
  CASE Len(bytes) = 1 -> bytes[1]
    [] Len(bytes) = 2 -> 256 * bytes[1] + bytes[2]
    [] Len(bytes) = 4 -> <<256 * bytes[1] + bytes[2], 256 * bytes[3] + bytes[4]>>
    [] OTHER -> bytes

Bytes(number, size) ==
  CASE size = 1 -> <<number>>
    [] size = 2 -> <<number \div 256, number % 256>>
    [] size = 4 -> <<number[1] \div 256, number[1] % 256, number[2] \div 256, number[2] % 256>>
    [] OTHER -> number

Bit(number, value) == (number \div value) % 2 = 1

(***************************************************************************)
(* BufferList.                                                             *)
(***************************************************************************)
Length(buffers) ==
  LET size[i \in 0 .. Len(buffers)] == IF i = 0 THEN 0 ELSE size[i - 1] + Len(buffers[i])
  IN  size[Len(buffers)]

\* Fault: only the first buffer is shortened.
RemovesFromOne(buffers, n) ==
  IF buffers = <<>> THEN <<>>
  ELSE [buffers EXCEPT ![1] = Slice(@, Least(n, Len(@)), Len(@))]

\* remove_prefix goes on while there are bytes to remove, and pops a buffer
\* that has been read to its end: an empty one behind the last byte stays.
remove_prefix(buffers, n) ==
  LET before(i) == Length(SubSeq(buffers, 1, i))
      popped == Cardinality({i \in DOMAIN buffers : before(i - 1) < n /\ before(i) <= n})
      rest == SubSeq(buffers, popped + 1, Len(buffers))
  IN  IF rest = <<>> THEN <<>>
      ELSE [rest EXCEPT ![1] = Slice(@, Least(n - before(popped), Len(@)), Len(@))]

\* dump_all into a vector, and into one buffer.
dump_all(buffers) == IF Length(buffers) = 0 THEN <<>> ELSE buffers
dump_whole(buffers) == FlattenSeq(buffers)

(***************************************************************************)
(* Parser.  To read the first byte of a buffer that has none is undefined: *)
(* the parser remembers that it happened.                                  *)
(***************************************************************************)
Parser(buffers) == [input_ |-> buffers, error_ |-> FALSE, undefined |-> FALSE]

set_error(p) == [p EXCEPT !.error_ = TRUE]
skipping(p, n) == [p EXCEPT !.input_ = remove_prefix(@, n)]

\* An empty buffer in front of one of the next n bytes.
looks_in_empty(buffers, n) ==
  \E i \in DOMAIN buffers : buffers[i] = <<>> /\ Length(SubSeq(buffers, 1, i)) < n

\* What a field holds that was not read.
unset(size) == Number([i \in 1 .. size |-> 0])

\* A run of integers.  A layout is a function from their names to where they
\* begin and end; what is read is a function from the names.  Behind the first
\* that does not fit nothing is read.
integers(p, layout) ==
  LET bytes == FlattenSeq(p.input_)
      fits(name) == ~p.error_ /\ layout[name][2] <= Len(bytes)
      used == Max({0} \cup {layout[name][2] : name \in {n \in DOMAIN layout : fits(n)}})
  IN  [fields |-> [name \in DOMAIN layout |->
                     IF fits(name) THEN Number(Slice(bytes, layout[name][1], layout[name][2]))
                     ELSE unset(layout[name][2] - layout[name][1])],
       parser |-> [error_ |-> p.error_ \/ \E name \in DOMAIN layout : ~fits(name),
                   undefined |-> p.undefined \/ looks_in_empty(p.input_, used),
                   input_ |-> remove_prefix(p.input_, used)]]

(***************************************************************************)
(* Serializer.                                                             *)
(***************************************************************************)
Serializer == [output_ |-> <<>>, buffer_ |-> <<>>]

\* The i-th byte of what is written for a layout.
byte_written(fields, layout, i) ==
  LET name == CHOOSE n \in DOMAIN layout : layout[n][1] < i /\ i <= layout[n][2]
      first == layout[name][1]
  IN  Bytes(fields[name], layout[name][2] - first)[i - first]

size_of(layout) == Max({layout[name][2] : name \in DOMAIN layout})

written(s, fields, layout) ==
  [s EXCEPT !.buffer_ = @ \o [i \in 1 .. size_of(layout) |-> byte_written(fields, layout, i)]]

flush(s) == [output_ |-> Append(s.output_, s.buffer_), buffer_ |-> <<>>]

buffer(s, bytes) == [flush(s) EXCEPT !.output_ = Append(@, bytes)]

output(s) == flush(s).output_

(***************************************************************************)
(* InternetChecksum: the sum of the 16-bit words, with the carries added   *)
(* in again, and every bit of it turned round.                             *)
(***************************************************************************)
added(sum, bytes) ==
  LET total[i \in 0 .. Len(bytes)] ==
        IF i = 0 THEN sum ELSE total[i - 1] + (IF i % 2 = 1 THEN 256 * bytes[i] ELSE bytes[i])
  IN  total[Len(bytes)]

\* Fault: only the first carry is added in.
CarriedOnce(sum) == ((sum \div Bits16) + sum) % Bits16

carried(sum) == IF sum = 0 THEN 0 ELSE ((sum - 1) % (Bits16 - 1)) + 1

checksum(sum, bytes) == (Bits16 - 1) - carried(added(sum, bytes))
=============================================================================
