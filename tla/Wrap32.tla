------------------------------- MODULE Wrap32 -------------------------------
(***************************************************************************)
(* The class Wrap32 (src/src/wrapping_integers.hh, wrapping_integers.cc):  *)
(* sequence numbers travel as 32-bit values that start at a random zero    *)
(* point and wrap, and both ends reason in 64-bit absolute numbers.        *)
(* The arithmetic keeps its widths.                                        *)
(***************************************************************************)
EXTENDS Words

Distance(a, b) == IF a > b THEN a - b ELSE b - a

Wrap32_wrap(n, zero_point) == ((n % Modulus) + zero_point) % Modulus

\* Faults: the second candidate is always the one above; the candidate in the
\* checkpoint's own block is always taken.
UnwrapUpwards(raw_value, zero_point, checkpoint) ==
  LET roundpoint_1 == ((raw_value - zero_point) % Modulus) + (checkpoint - (checkpoint % Modulus))
      roundpoint_2 == (roundpoint_1 + Modulus) % Modulus64
  IN  IF Distance(roundpoint_1, checkpoint) < Distance(roundpoint_2, checkpoint)
      THEN roundpoint_1 ELSE roundpoint_2
UnwrapSameBlock(raw_value, zero_point, checkpoint) ==
  ((raw_value - zero_point) % Modulus) + (checkpoint - (checkpoint % Modulus))

\* Two candidates: the one in the same block of 2^32 numbers as checkpoint,
\* and its neighbour on checkpoint's other side (modulo 2^64).
Wrap32_unwrap(raw_value, zero_point, checkpoint) ==
  LET high_32 == checkpoint - (checkpoint % Modulus)
      roundpoint_1 == ((raw_value - zero_point) % Modulus) + high_32
      roundpoint_2 == IF roundpoint_1 <= checkpoint
                      THEN (roundpoint_1 + Modulus) % Modulus64
                      ELSE (roundpoint_1 - Modulus) % Modulus64
  IN  IF Distance(roundpoint_1, checkpoint) < Distance(roundpoint_2, checkpoint)
      THEN roundpoint_1 ELSE roundpoint_2

(***************************************************************************)
(* What the header promises (wrapping_integers.hh:22-28): of the absolute  *)
(* numbers that wrap to this value, the one closest to checkpoint.         *)
(***************************************************************************)
ClosestTo(u, raw_value, zero_point, checkpoint) ==
  /\ u \in UInt64
  /\ Wrap32_wrap(u, zero_point) = raw_value
  /\ \A v \in UInt64 : Wrap32_wrap(v, zero_point) = raw_value =>
       Distance(u, checkpoint) <= Distance(v, checkpoint)
=============================================================================
