-------------------------------- MODULE Words --------------------------------
(***************************************************************************)
(* The unsigned integers of the program.  Modulus stands for 2^32 and      *)
(* Modulus64 for 2^64, so that small instances meet the boundaries of both *)
(* widths.                                                                 *)
(***************************************************************************)
EXTENDS Integers

CONSTANTS Modulus, Modulus64

ASSUME ModulusAssumption ==
  /\ Modulus \in Nat /\ Modulus > 0
  /\ Modulus64 \in Nat /\ Modulus64 % Modulus = 0 /\ Modulus64 > Modulus

UInt32 == 0 .. Modulus - 1
UInt64 == 0 .. Modulus64 - 1
UINT64_MAX == Modulus64 - 1
=============================================================================
