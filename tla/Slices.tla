------------------------------- MODULE Slices -------------------------------
(***************************************************************************)
(* Stretches of a byte string, named as the code names them: by the index  *)
(* of the first byte (counting from 0) and the index one past the last;    *)
(* std::min and std::max.                                                  *)
(***************************************************************************)
EXTENDS Integers, Sequences

Least(a, b) == IF a <= b THEN a ELSE b
Most(a, b) == IF a >= b THEN a ELSE b

Slice(s, first, end) == SubSeq(s, first + 1, end)

\* std::string::operator+=
Joined(s, t) == s \o t
=============================================================================
