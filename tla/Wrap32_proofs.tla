---------------------------- MODULE Wrap32_proofs ----------------------------
(***************************************************************************)
(* Wrap32Spec keeps its properties for every pair of widths, so in         *)
(* particular for 2^32 and 2^64: the numbers that wrap to a raw value are  *)
(* one residue class, roundpoint_1 is its member in checkpoint's block and *)
(* roundpoint_2 the next one on the other side of checkpoint; when that    *)
(* one does not exist the 64-bit wrap puts roundpoint_2 far away           *)
(* (DataLemmas).                                                           *)
(***************************************************************************)
EXTENDS Wrap32Spec, DataLemmas

\* What is on its way is within half the range of the checkpoint.
Near ==
  /\ zero_point \in UInt32
  /\ sent \in UInt64
  /\ checkpoint \in UInt64
  /\ 2 * Distance(sent, checkpoint) < Modulus

LEMMA InitNear == Init => Near
BY ModulusAssumption DEF Init, Near, Distance, UInt64, UInt32

LEMMA NextNear == Near /\ [Next]_vars => Near'
<1> SUFFICES ASSUME Near, [Next]_vars PROVE Near'
  OBVIOUS
<1>1. CASE Send
  BY <1>1 DEF Send, Near
<1>2. CASE Receive
  <2>1. checkpoint' = sent /\ UNCHANGED <<zero_point, sent>>
    BY <1>2, RoundTrip DEF Receive, Near
  <2>2. 2 * Distance(sent, sent) < Modulus
    BY ModulusAssumption DEF Near, UInt64, Distance
  <2>3. QED
    BY <2>1, <2>2 DEF Near
<1>3. CASE UNCHANGED vars
  BY <1>3 DEF vars, Near
<1>4. QED
  BY <1>1, <1>2, <1>3 DEF Next

\* unwrap keeps the promise of its header comment at every reachable
\* checkpoint and zero point, for every pair of widths.
THEOREM UnwrapCorrect == Spec => []UnwrapIsClosest
<1>1. Near => UnwrapIsClosest
  BY UnwrapClosest DEF Near, UnwrapIsClosest
<1>2. QED
  BY <1>1, InitNear, NextNear, PTL DEF Spec

\* However often the 32-bit number wraps, the receiving end follows the
\* absolute number exactly.
THEOREM TrackingCorrect == Spec => NeverLosesTrack
<1>1. Near /\ [Next]_vars => [Receive => checkpoint' = sent]_vars
  BY RoundTrip DEF Receive, Near
<1>2. QED
  BY <1>1, InitNear, NextNear, PTL DEF Spec, NeverLosesTrack
=============================================================================
