------------------------------ MODULE MCWrap32 ------------------------------
(* Three-bit wire numbers and five-bit absolute numbers: four wraps. *)
EXTENDS Wrap32Spec
=============================================================================
