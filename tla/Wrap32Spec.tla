----------------------------- MODULE Wrap32Spec -----------------------------
(***************************************************************************)
(* An absolute number that one end sends as a Wrap32 and the other end     *)
(* follows with unwrap, as TCPReceiver::receive follows the sequence       *)
(* number with bytes_pushed() as the checkpoint and TCPSender::receive     *)
(* follows the acknowledgment number with m_window_left.  A segment is new *)
(* or old, ahead of the checkpoint or behind it, but by less than half the *)
(* 32-bit range: windows are at most 65535 bytes and an old duplicate does *)
(* not outlive the range.                                                  *)
(***************************************************************************)
EXTENDS Wrap32

VARIABLES zero_point,  \* the initial sequence number
          sent,        \* the absolute number on its way
          checkpoint   \* the absolute number the other end last arrived at

vars == <<zero_point, sent, checkpoint>>

Init ==
  /\ zero_point \in UInt32
  /\ sent = 0
  /\ checkpoint = 0

Send ==
  /\ sent' \in {n \in UInt64 : 2 * Distance(n, checkpoint) < Modulus}
  /\ UNCHANGED <<zero_point, checkpoint>>

Receive ==
  /\ checkpoint' = Wrap32_unwrap(Wrap32_wrap(sent, zero_point), zero_point, checkpoint)
  /\ UNCHANGED <<zero_point, sent>>

Next == Send \/ Receive

Spec == Init /\ [][Next]_vars

\* For every raw value, unwrap returns the closest number that wraps to it,
\* also in the first block (where the neighbour below would be negative) and
\* in the last one (where the neighbour above would exceed 64 bits).
UnwrapIsClosest ==
  \A raw_value \in UInt32 :
    ClosestTo(Wrap32_unwrap(raw_value, zero_point, checkpoint),
              raw_value, zero_point, checkpoint)

\* The receiving end never loses track of the absolute number, across any
\* number of wraps of the 32-bit value.
NeverLosesTrack == [][Receive => checkpoint' = sent]_vars
=============================================================================
