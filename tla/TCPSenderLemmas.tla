--------------------------- MODULE TCPSenderLemmas ---------------------------
(***************************************************************************)
(* What the operators of TCPSender do to a sender and the stream it reads, *)
(* for one direction of a connection: a record c with the bytes of the     *)
(* source, the initial sequence number, the capacity of the outbound       *)
(* stream and the values of a byte.                                        *)
(*                                                                         *)
(* The outstanding messages tile the sequence numbers from the left edge   *)
(* of the window up to the numbers used: one for SYN, one for each byte    *)
(* that was popped, one for FIN.  A message of the queue is a stretch of   *)
(* those, so that what was sent never passes them, and the acknowledgment  *)
(* numbers are close enough to the left edge for unwrap to undo wrap.      *)
(***************************************************************************)
EXTENDS TCPSender, DataLemmas

\* Numbers are few enough that no two of a connection wrap to the same.
Direction(c) ==
  /\ c.source \in Seq(c.byte) /\ 2 * (Len(c.source) + 3) < Modulus
  /\ c.capacity \in Nat \ {0}
  /\ c.isn \in UInt32

LEMMA Constants ==
  ASSUME NEW c, Direction(c)
  PROVE  /\ c.source \in Seq(c.byte) /\ Len(c.source) \in Nat
         /\ SliceAlgebra(c.source, c.byte)
         /\ Modulus \in Nat /\ Modulus64 \in Nat
         /\ 2 * (Len(c.source) + 3) < Modulus /\ Modulus < Modulus64
         /\ c.capacity \in Nat /\ c.capacity > 0
         /\ c.isn \in UInt32
         /\ MAX_PAYLOAD_SIZE \in Nat /\ MAX_PAYLOAD_SIZE > 0
BY PayloadAssumption, ModulusAssumption, LenProperties, SliceFacts DEF Direction

(***************************************************************************)
(* Messages.                                                               *)
(***************************************************************************)

\* The message with the numbers from k up to, not including, end: the number
\* SYN takes is 0, byte i of the source has i + 1, FIN the one after.
Stretch(c, k, end) ==
  TCPSenderMessage(Wrap32_wrap(k, c.isn), k = 0,
                   Slice(c.source, Most(k - 1, 0), Least(end - 1, Len(c.source))),
                   end = Len(c.source) + 2)

Stretches(c) ==
  {Stretch(c, k, end) : k \in 0 .. Len(c.source) + 1, end \in 1 .. Len(c.source) + 2}

\* The numbers that Message takes.
LEMMA MessageLength ==
  ASSUME NEW c, Direction(c),
         NEW k \in Nat, NEW end \in Nat, k < end, end <= Len(c.source) + 2
  PROVE  /\ sequence_length(Stretch(c, k, end)) = end - k
         /\ Stretch(c, k, end).seqno = Wrap32_wrap(k, c.isn)
         /\ Stretch(c, k, end) \in Stretches(c)
<1> DEFINE L == Len(c.source)
<1>1. L \in Nat
  BY Constants
<1>2. PICK a \in Nat : a = IF k = 0 THEN 0 ELSE k - 1
  OBVIOUS
<1>3. PICK b \in Nat : b = IF end = L + 2 THEN L ELSE end - 1
  BY <1>1
<1>4. a <= b /\ b <= L
  BY <1>1, <1>2, <1>3
<1>5. Most(k - 1, 0) = a /\ Least(end - 1, L) = b
  BY <1>1, <1>2, <1>3 DEF Most, Least
<1>6. Len(Slice(c.source, a, b)) = b - a
  BY <1>4, Constants DEF SliceAlgebra
<1>7. PICK m : m = Stretch(c, k, end)
  OBVIOUS
<1>8. m = [seqno |-> Wrap32_wrap(k, c.isn), SYN |-> k = 0, payload |-> Slice(c.source, a, b),
           FIN |-> end = L + 2]
  BY <1>5, <1>7 DEF Stretch, TCPSenderMessage
<1>9. sequence_length(m) = One(k = 0) + (b - a) + One(end = L + 2)
  BY <1>6, <1>8 DEF sequence_length
<1>10. One(k = 0) + (b - a) + One(end = L + 2) = end - k
  <2> HIDE DEF L
  <2>1. One(k = 0) = IF k = 0 THEN 1 ELSE 0
    BY DEF One
  <2>2. One(end = L + 2) = IF end = L + 2 THEN 1 ELSE 0
    BY DEF One
  <2>3. (IF k = 0 THEN 1 ELSE 0) + (b - a) + (IF end = L + 2 THEN 1 ELSE 0) = end - k
    BY <1>1, <1>2, <1>3
  <2>4. QED
    BY <2>1, <2>2, <2>3, Zenon
<1>11. m \in Stretches(c)
  <2>1. k \in 0 .. Len(c.source) + 1 /\ end \in 1 .. Len(c.source) + 2
    BY <1>1
  <2>2. Stretch(c, k, end) \in Stretches(c)
    BY <2>1 DEF Stretches
  <2>3. QED
    BY <1>7, <2>2
<1>12. m.seqno = Wrap32_wrap(k, c.isn)
  BY <1>8
<1>13. QED
  BY <1>7, <1>9, <1>10, <1>11, <1>12

\* The stretches of the numbers below high, as messages.
Sendable(c, high) ==
  {m \in Stretches(c) : \E k, end \in Nat : k < end /\ end <= high /\ m = Stretch(c, k, end)}

(***************************************************************************)
(* Tilings.                                                                *)
(***************************************************************************)

\* One past the numbers of the message of out at k.
TileEnd(out, k) == k + sequence_length(out[k])

\* out tiles the numbers from the message that low is in to high.
Tiled(c, out, low, high) ==
  /\ IsFunction(out) /\ DOMAIN out \in SUBSET Nat
  /\ \A k \in DOMAIN out : /\ TileEnd(out, k) \in Nat /\ TileEnd(out, k) <= high
                           /\ k < TileEnd(out, k) /\ low < TileEnd(out, k)
                           /\ out[k] = Stretch(c, k, TileEnd(out, k))
  /\ \A k \in DOMAIN out : k <= low \/ \E j \in DOMAIN out : TileEnd(out, j) = k
  /\ \A j, k \in DOMAIN out : j < k => TileEnd(out, j) <= k
  /\ IF DOMAIN out = {} THEN low = high ELSE \E k \in DOMAIN out : TileEnd(out, k) = high

\* The last message of a tiling.
LEMMA LastTile ==
  ASSUME NEW c, Direction(c),
         NEW out, NEW low \in Nat, NEW high \in Nat, Tiled(c, out, low, high),
         NEW top \in DOMAIN out, TileEnd(out, top) = high
  PROVE  \A k \in DOMAIN out : k <= top
<1>1. SUFFICES ASSUME NEW k \in DOMAIN out, ~(k <= top) PROVE FALSE
  OBVIOUS
<1>2. k \in Nat /\ top \in Nat /\ TileEnd(out, k) \in Nat /\ k < TileEnd(out, k) /\ TileEnd(out, k) <= high
  BY DEF Tiled
<1>3. high <= k
  BY <1>1, <1>2 DEF Tiled
<1>4. QED
  BY <1>2, <1>3

\* get_absolute_seqno computes where the tiling ends.
LEMMA NextNumber ==
  ASSUME NEW c, Direction(c),
         NEW s, NEW high \in Nat, s.m_window_left \in Nat,
         Tiled(c, s.m_outstanding_messages_, s.m_window_left, high)
  PROVE  get_absolute_seqno(s) = high /\ s.m_window_left <= high
<1>1. PICK out : out = s.m_outstanding_messages_
  OBVIOUS
<1>2. PICK low \in Nat : low = s.m_window_left
  OBVIOUS
<1>3. Tiled(c, out, low, high)
  BY <1>1, <1>2
<1>4. CASE DOMAIN out = {}
  BY <1>1, <1>2, <1>3, <1>4 DEF Tiled, get_absolute_seqno
<1>5. CASE DOMAIN out # {}
  <2>1. PICK top \in DOMAIN out : TileEnd(out, top) = high
    BY <1>3, <1>5 DEF Tiled
  <2>2. \A k \in DOMAIN out : k <= top
    BY <1>3, <2>1, LastTile
  <2>3. DOMAIN out \in SUBSET Nat /\ top \in Nat
    BY <1>3 DEF Tiled
  <2>4. Max(DOMAIN out) \in DOMAIN out /\ \A k \in DOMAIN out : k <= Max(DOMAIN out)
    BY <1>5, <2>2, <2>3, MaxProperties
  <2>5. Max(DOMAIN out) = top
    BY <2>1, <2>2, <2>3, <2>4
  <2>6. get_absolute_seqno(s) = wait_for_ackno(s, top)
    BY <1>1, <1>5, <2>5 DEF get_absolute_seqno
  <2>7. wait_for_ackno(s, top) = TileEnd(out, top)
    BY <1>1 DEF wait_for_ackno, TileEnd
  <2>8. low < TileEnd(out, top)
    BY <1>3 DEF Tiled
  <2>9. QED
    BY <1>2, <2>1, <2>6, <2>7, <2>8
<1>6. QED
  BY <1>4, <1>5

\* Two tilings that meet are one.
LEMMA TilesJoin ==
  ASSUME NEW c, Direction(c),
         NEW old, NEW low \in Nat, NEW mid \in Nat, Tiled(c, old, low, mid),
         NEW new, NEW high \in Nat, mid <= high, Tiled(c, new, mid, high),
         \A k \in DOMAIN new : mid <= k,
         NEW out, IsFunction(out), DOMAIN out = DOMAIN old \cup DOMAIN new,
         \A k \in DOMAIN old : out[k] = old[k],
         \A k \in DOMAIN new : k \notin DOMAIN old => out[k] = new[k]
  PROVE  Tiled(c, out, low, high)
<1>1. \A k \in DOMAIN old : TileEnd(out, k) = TileEnd(old, k) /\ k < mid /\ k \in Nat
  BY DEF Tiled, TileEnd
<1>2. \A k \in DOMAIN new : k \in Nat /\ k \notin DOMAIN old
  BY <1>1 DEF Tiled
<1>3. \A k \in DOMAIN new : TileEnd(out, k) = TileEnd(new, k)
  BY <1>2 DEF TileEnd
<1>4. low <= mid
  BY DEF Tiled
<1>5. \A k \in DOMAIN out : /\ TileEnd(out, k) \in Nat /\ TileEnd(out, k) <= high
                            /\ k < TileEnd(out, k) /\ low < TileEnd(out, k)
                            /\ out[k] = Stretch(c, k, TileEnd(out, k))
  <2>1. ASSUME NEW k \in DOMAIN old
        PROVE  /\ TileEnd(out, k) \in Nat /\ TileEnd(out, k) <= high
               /\ k < TileEnd(out, k) /\ low < TileEnd(out, k)
               /\ out[k] = Stretch(c, k, TileEnd(out, k))
    <3>1. /\ TileEnd(old, k) \in Nat /\ TileEnd(old, k) <= mid /\ k < TileEnd(old, k)
          /\ low < TileEnd(old, k) /\ old[k] = Stretch(c, k, TileEnd(old, k))
      BY DEF Tiled
    <3>2. TileEnd(out, k) = TileEnd(old, k) /\ out[k] = old[k]
      BY <1>1
    <3>3. TileEnd(old, k) <= high
      BY <3>1
    <3>4. QED
      BY <3>1, <3>2, <3>3
  <2>2. ASSUME NEW k \in DOMAIN new
        PROVE  /\ TileEnd(out, k) \in Nat /\ TileEnd(out, k) <= high
               /\ k < TileEnd(out, k) /\ low < TileEnd(out, k)
               /\ out[k] = Stretch(c, k, TileEnd(out, k))
    <3>1. /\ TileEnd(new, k) \in Nat /\ TileEnd(new, k) <= high /\ k < TileEnd(new, k)
          /\ mid < TileEnd(new, k) /\ new[k] = Stretch(c, k, TileEnd(new, k))
      BY DEF Tiled
    <3>2. TileEnd(out, k) = TileEnd(new, k) /\ out[k] = new[k]
      BY <1>2, <1>3
    <3>3. low < TileEnd(new, k)
      BY <1>4, <3>1
    <3>4. QED
      BY <3>1, <3>2, <3>3
  <2>3. QED
    BY <2>1, <2>2
<1>6. \A k \in DOMAIN out : k <= low \/ \E j \in DOMAIN out : TileEnd(out, j) = k
  <2>1. ASSUME NEW k \in DOMAIN old
        PROVE  k <= low \/ \E j \in DOMAIN out : TileEnd(out, j) = k
    <3>1. k <= low \/ \E j \in DOMAIN old : TileEnd(old, j) = k
      BY DEF Tiled
    <3>2. QED
      BY <1>1, <3>1
  <2>2. ASSUME NEW k \in DOMAIN new
        PROVE  k <= low \/ \E j \in DOMAIN out : TileEnd(out, j) = k
    <3>1. k <= mid \/ \E j \in DOMAIN new : TileEnd(new, j) = k
      BY DEF Tiled
    <3>2. CASE k <= mid
      <4>1. k = mid
        BY <1>2, <3>2
      <4>2. mid = low \/ \E j \in DOMAIN old : TileEnd(old, j) = mid
        BY DEF Tiled
      <4>3. QED
        BY <1>1, <4>1, <4>2
    <3>3. CASE \E j \in DOMAIN new : TileEnd(new, j) = k
      BY <1>3, <3>3
    <3>4. QED
      BY <3>1, <3>2, <3>3
  <2>3. QED
    BY <2>1, <2>2
<1>7. \A j, k \in DOMAIN out : j < k => TileEnd(out, j) <= k
  <2>1. SUFFICES ASSUME NEW j \in DOMAIN out, NEW k \in DOMAIN out, j < k
                 PROVE  TileEnd(out, j) <= k
    OBVIOUS
  <2>2. CASE j \in DOMAIN old /\ k \in DOMAIN old
    <3>1. TileEnd(old, j) <= k
      BY <2>1, <2>2 DEF Tiled
    <3>2. QED
      BY <1>1, <2>2, <3>1
  <2>3. CASE j \in DOMAIN old /\ k \in DOMAIN new
    <3>1. TileEnd(old, j) \in Nat /\ TileEnd(old, j) <= mid /\ mid <= k /\ k \in Nat
      BY <1>2, <2>3 DEF Tiled
    <3>2. QED
      BY <1>1, <2>3, <3>1
  <2>4. CASE j \in DOMAIN new /\ k \in DOMAIN new
    <3>1. TileEnd(new, j) <= k
      BY <2>1, <2>4 DEF Tiled
    <3>2. QED
      BY <1>3, <2>4, <3>1
  <2>5. CASE j \in DOMAIN new /\ k \in DOMAIN old
    <3>1. mid <= j /\ k < mid /\ j \in Nat /\ k \in Nat
      BY <1>1, <1>2, <2>5
    <3>2. QED
      BY <2>1, <3>1
  <2>6. QED
    BY <2>2, <2>3, <2>4, <2>5
<1>8. IF DOMAIN out = {} THEN low = high ELSE \E k \in DOMAIN out : TileEnd(out, k) = high
  <2>1. CASE DOMAIN new = {}
    <3>1. mid = high /\ DOMAIN out = DOMAIN old
      BY <2>1 DEF Tiled
    <3>2. IF DOMAIN old = {} THEN low = mid ELSE \E k \in DOMAIN old : TileEnd(old, k) = mid
      BY DEF Tiled
    <3>3. QED
      BY <1>1, <3>1, <3>2
  <2>2. CASE DOMAIN new # {}
    <3>1. PICK k \in DOMAIN new : TileEnd(new, k) = high
      BY <2>2 DEF Tiled
    <3>2. QED
      BY <1>3, <3>1
  <2>3. QED
    BY <2>1, <2>2
<1>9. DOMAIN out \in SUBSET Nat
  BY <1>1, <1>2
<1>10. QED
  BY <1>5, <1>6, <1>7, <1>8, <1>9 DEF Tiled

\* What is left of a tiling when what it holds below n was acknowledged.
LEMMA TilesAcked ==
  ASSUME NEW c, Direction(c),
         NEW out, NEW low \in Nat, NEW high \in Nat, Tiled(c, out, low, high),
         NEW n \in Nat, n <= high,
         NEW acked, acked # {},
         acked = {k \in DOMAIN out : \A j \in DOMAIN out : j <= k => TileEnd(out, j) <= n},
         NEW new, new = Restrict(out, DOMAIN out \ acked)
  PROVE  low < n /\ Tiled(c, new, n, high)
<1>1. low < n
  <2>1. PICK k \in acked : TRUE
    OBVIOUS
  <2>2. k \in DOMAIN out /\ k \in Nat /\ TileEnd(out, k) \in Nat /\ low < TileEnd(out, k) /\ TileEnd(out, k) <= n
    BY <2>1 DEF Tiled
  <2>3. QED
    BY <2>2
<1>2. PICK left : left = DOMAIN out \ acked
  OBVIOUS
<1>3. /\ DOMAIN new = left /\ left \in SUBSET DOMAIN out /\ IsFunction(new)
      /\ \A k \in left : new[k] = out[k]
  BY <1>2 DEF Restrict, IsFunction
<1>4. \A k \in left : TileEnd(new, k) = TileEnd(out, k)
  BY <1>3 DEF TileEnd
<1>5. DOMAIN out \in SUBSET Nat
  BY DEF Tiled
<1>6. ASSUME NEW k \in left
      PROVE  n < TileEnd(out, k)
  <2>1. PICK j \in DOMAIN out : j <= k /\ ~(TileEnd(out, j) <= n)
    BY <1>2
  <2>2. /\ j \in Nat /\ k \in Nat /\ TileEnd(out, j) \in Nat /\ TileEnd(out, k) \in Nat
        /\ k < TileEnd(out, k) /\ (j < k => TileEnd(out, j) <= k)
    BY <1>3 DEF Tiled
  <2>3. CASE j = k
    BY <2>1, <2>2, <2>3
  <2>4. CASE j # k
    BY <2>1, <2>2, <2>4
  <2>5. QED
    BY <2>3, <2>4
<1>7. ASSUME NEW k \in left
      PROVE  /\ TileEnd(new, k) \in Nat /\ TileEnd(new, k) <= high
             /\ k < TileEnd(new, k) /\ n < TileEnd(new, k)
             /\ new[k] = Stretch(c, k, TileEnd(new, k))
  <2>1. /\ TileEnd(out, k) \in Nat /\ TileEnd(out, k) <= high /\ k < TileEnd(out, k)
        /\ out[k] = Stretch(c, k, TileEnd(out, k))
    BY <1>3 DEF Tiled
  <2>2. QED
    BY <1>3, <1>4, <1>6, <2>1
<1>8. ASSUME NEW k \in left
      PROVE  k <= n \/ \E j \in left : TileEnd(new, j) = k
  <2>1. k <= low \/ \E j \in DOMAIN out : TileEnd(out, j) = k
    BY <1>3 DEF Tiled
  <2>2. CASE k <= low
    BY <1>1, <1>3, <1>5, <2>2
  <2>3. CASE \E j \in DOMAIN out : TileEnd(out, j) = k
    <3>1. PICK j \in DOMAIN out : TileEnd(out, j) = k
      BY <2>3
    <3>2. CASE j \in left
      BY <1>4, <3>1, <3>2
    <3>3. CASE j \notin left
      <4>1. TileEnd(out, j) <= n
        BY <1>2, <1>5, <3>3
      <4>2. QED
        BY <3>1, <4>1
    <3>4. QED
      BY <3>2, <3>3
  <2>4. QED
    BY <2>1, <2>2, <2>3
<1>9. \A j, k \in left : j < k => TileEnd(new, j) <= k
  BY <1>3, <1>4 DEF Tiled
<1>10. PICK top \in DOMAIN out : TileEnd(out, top) = high
  BY DEF Tiled
<1>11. \A k \in DOMAIN out : k <= top
  BY <1>10, LastTile
<1>12. CASE top \in left
  <2>1. left # {} /\ \E k \in left : TileEnd(new, k) = high
    BY <1>4, <1>10, <1>12
  <2>2. QED
    BY <1>1, <1>3, <1>5, <1>7, <1>8, <1>9, <2>1 DEF Tiled
<1>13. CASE top \notin left
  <2>1. \A j \in DOMAIN out : TileEnd(out, j) <= n
    BY <1>2, <1>11, <1>13
  <2>2. left = {}
    BY <1>2, <2>1
  <2>3. n = high
    BY <1>10, <2>1
  <2>4. IsFunction(new) /\ DOMAIN new = {}
    BY <1>3, <2>2
  <2>5. Tiled(c, new, n, high)
    BY <2>3, <2>4 DEF Tiled
  <2>6. QED
    BY <1>1, <2>5
<1>14. QED
  BY <1>12, <1>13

\* Stretches(c) one behind the other, as push makes them.
Row(c, out, low, high, count, key, end) ==
  /\ low \in Nat /\ high \in Nat /\ count \in Nat /\ high <= Len(c.source) + 2
  /\ \A i \in 0 .. count - 1 : key[i] \in Nat /\ end[i] \in Nat
  /\ count = 0 => low = high
  /\ count > 0 => key[0] = low /\ end[count - 1] = high
  /\ \A i \in 0 .. count - 1 : low <= key[i] /\ key[i] < end[i] /\ end[i] <= high
  /\ \A i \in 1 .. count - 1 : end[i - 1] = key[i]
  /\ \A i, j \in 0 .. count - 1 : key[i] < key[j] => end[i] <= key[j]
  /\ IsFunction(out) /\ DOMAIN out = {key[i] : i \in 0 .. count - 1}
  /\ \A i \in 0 .. count - 1 : out[key[i]] = Stretch(c, key[i], end[i])

LEMMA AtMostThenBelow ==
  ASSUME NEW a \in Nat, NEW b \in Nat, NEW n \in Nat, a <= b, b < n
  PROVE  a < n
OBVIOUS

LEMMA TilesInRow ==
  ASSUME NEW c, Direction(c),
         NEW out, NEW low, NEW high, NEW count, NEW key, NEW end,
         Row(c, out, low, high, count, key, end)
  PROVE  Tiled(c, out, low, high) /\ \A k \in DOMAIN out : low <= k
<1> USE DEF Row
<1>1. \A i \in 0 .. count - 1 : TileEnd(out, key[i]) = end[i]
  <2>1. SUFFICES ASSUME NEW i \in 0 .. count - 1 PROVE TileEnd(out, key[i]) = end[i]
    OBVIOUS
  <2>2. PICK k \in Nat, e \in Nat : k = key[i] /\ e = end[i]
    OBVIOUS
  <2>3. k < e /\ e <= Len(c.source) + 2
    BY <2>2, Constants
  <2>4. sequence_length(Stretch(c, k, e)) = e - k
    BY <2>3, MessageLength
  <2>5. out[k] = Stretch(c, k, e)
    BY <2>2
  <2>6. TileEnd(out, k) = k + (e - k)
    BY <2>4, <2>5 DEF TileEnd
  <2>7. QED
    BY <2>2, <2>6
<1>2. DOMAIN out \in SUBSET Nat
  OBVIOUS
<1>3. \A k \in DOMAIN out : /\ TileEnd(out, k) \in Nat /\ TileEnd(out, k) <= high
                            /\ k < TileEnd(out, k) /\ low < TileEnd(out, k)
                            /\ out[k] = Stretch(c, k, TileEnd(out, k))
  <2>1. SUFFICES ASSUME NEW i \in 0 .. count - 1
                 PROVE  /\ end[i] \in Nat /\ end[i] <= high
                        /\ key[i] < end[i] /\ low < end[i]
                        /\ out[key[i]] = Stretch(c, key[i], end[i])
    BY <1>1, ZenonT(60)
  <2>2. /\ low \in Nat /\ key[i] \in Nat /\ end[i] \in Nat
        /\ low <= key[i] /\ key[i] < end[i] /\ end[i] <= high
        /\ out[key[i]] = Stretch(c, key[i], end[i])
    BY Zenon
  <2>3. low < end[i]
    BY <2>2, AtMostThenBelow, Zenon
  <2>4. QED
    BY <2>2, <2>3, Zenon
<1>4. \A k \in DOMAIN out : k <= low \/ \E j \in DOMAIN out : TileEnd(out, j) = k
  <2>1. SUFFICES ASSUME NEW i \in 0 .. count - 1
                 PROVE  key[i] <= low \/ \E j \in DOMAIN out : TileEnd(out, j) = key[i]
    BY ZenonT(60)
  <2>2. CASE i = 0
    BY <2>2
  <2>3. CASE i # 0
    <3>1. i \in 1 .. count - 1 /\ i - 1 \in 0 .. count - 1
      BY <2>3
    <3>2. TileEnd(out, key[i - 1]) = key[i] /\ key[i - 1] \in DOMAIN out
      BY <1>1, <3>1
    <3>3. QED
      BY <3>2
  <2>4. QED
    BY <2>2, <2>3
<1>5. \A j, k \in DOMAIN out : j < k => TileEnd(out, j) <= k
  <2>1. SUFFICES ASSUME NEW i \in 0 .. count - 1, NEW m \in 0 .. count - 1, key[i] < key[m]
                 PROVE  TileEnd(out, key[i]) <= key[m]
    OBVIOUS
  <2>2. QED
    BY <1>1, <2>1
<1>6. IF DOMAIN out = {} THEN low = high ELSE \E k \in DOMAIN out : TileEnd(out, k) = high
  <2>1. CASE count = 0
    BY <2>1
  <2>2. CASE count # 0
    <3>1. count - 1 \in 0 .. count - 1
      BY <2>2
    <3>2. key[count - 1] \in DOMAIN out /\ TileEnd(out, key[count - 1]) = high
      BY <1>1, <2>2, <3>1
    <3>3. QED
      BY <3>2
  <2>3. QED
    BY <2>1, <2>2
<1>7. \A k \in DOMAIN out : low <= k
  OBVIOUS
<1>8. QED
  BY <1>2, <1>3, <1>4, <1>5, <1>6, <1>7 DEF Tiled

(***************************************************************************)
(* A sender and the stream it reads.                                       *)
(***************************************************************************)
Fields ==
  {"m_outstanding_messages_", "m_send_queue_", "m_syc_pushed", "m_fin_pushed",
   "m_retransmission_timer_", "m_isn_", "m_RTO_ms_", "m_consecutive_retransmissions",
   "m_window_left", "m_window_size"}

\* How many numbers were used.
Used(s, o) == One(s.m_syc_pushed) + o.bytes_popped_ + One(s.m_fin_pushed)

Consistent(c, s, o) ==
  /\ DOMAIN s = Fields
  /\ s.m_isn_ = c.isn
  /\ s.m_syc_pushed \in BOOLEAN /\ s.m_fin_pushed \in BOOLEAN
  /\ s.m_window_left \in Nat /\ s.m_window_size \in Nat
  /\ o \in ByteStreams(c.byte, c.capacity) /\ Carries(o, c.source)
  /\ o.is_close_ => o.bytes_pushed_ = Len(c.source)
  /\ ~s.m_syc_pushed => o.bytes_popped_ = 0 /\ ~s.m_fin_pushed
  /\ s.m_fin_pushed => o.is_close_ /\ o.bytes_popped_ = Len(c.source)
  /\ Tiled(c, s.m_outstanding_messages_, s.m_window_left, Used(s, o))
  /\ s.m_send_queue_ \in Seq(Sendable(c, Used(s, o)))
  /\ s.m_send_queue_ # <<>> => DOMAIN s.m_outstanding_messages_ # {}

\* What t has in common with s after a push.
Pushed(s, t) ==
  /\ t.m_retransmission_timer_ = s.m_retransmission_timer_
  /\ t.m_RTO_ms_ = s.m_RTO_ms_
  /\ t.m_consecutive_retransmissions = s.m_consecutive_retransmissions
  /\ t.m_window_left = s.m_window_left
  /\ t.m_window_size = s.m_window_size
  /\ DOMAIN s.m_outstanding_messages_ \in SUBSET DOMAIN t.m_outstanding_messages_
  /\ t.m_send_queue_ = <<>> =>
       /\ s.m_send_queue_ = <<>>
       /\ DOMAIN t.m_outstanding_messages_ = DOMAIN s.m_outstanding_messages_

LEMMA Numbers ==
  ASSUME NEW c, Direction(c),
         NEW s, NEW o, Consistent(c, s, o)
  PROVE  /\ o.bytes_popped_ \in Nat /\ o.bytes_pushed_ \in Nat
         /\ o.bytes_popped_ <= o.bytes_pushed_ /\ o.bytes_pushed_ <= Len(c.source)
         /\ Len(o.buffer_) = o.bytes_pushed_ - o.bytes_popped_
         /\ Used(s, o) \in Nat /\ Used(s, o) <= Len(c.source) + 2
         /\ get_absolute_seqno(s) = Used(s, o)
         /\ s.m_window_left <= Used(s, o)
<1>1. o \in ByteStreams(c.byte, c.capacity) /\ Carries(o, c.source)
  BY DEF Consistent
<1>2. /\ o.bytes_popped_ \in Nat /\ o.bytes_pushed_ \in Nat
      /\ Len(o.buffer_) = o.bytes_pushed_ - o.bytes_popped_
  BY <1>1, Constants, CarriesBuffer
<1>3. o.bytes_popped_ <= o.bytes_pushed_ /\ o.bytes_pushed_ <= Len(c.source)
  BY <1>1 DEF Carries
<1>4. One(s.m_syc_pushed) \in 0 .. 1 /\ One(s.m_fin_pushed) \in 0 .. 1
  BY DEF One
<1>5. Used(s, o) \in Nat /\ Used(s, o) <= Len(c.source) + 2
  BY <1>2, <1>3, <1>4, Constants DEF Used
<1>6. /\ s.m_window_left \in Nat
      /\ Tiled(c, s.m_outstanding_messages_, s.m_window_left, Used(s, o))
  BY DEF Consistent
<1>7. get_absolute_seqno(s) = Used(s, o) /\ s.m_window_left <= Used(s, o)
  BY <1>5, <1>6, NextNumber
<1>8. QED
  BY <1>2, <1>3, <1>5, <1>7

(***************************************************************************)
(* push.                                                                   *)
(***************************************************************************)

\* The messages behind SYN: how many, where each begins in the buffer and ends,
\* and the number one past its last.
Count(len, fin) == Most((len + MAX_PAYLOAD_SIZE - 1) \div MAX_PAYLOAD_SIZE, One(fin))
From(i) == i * MAX_PAYLOAD_SIZE
To(len, i) == Least((i + 1) * MAX_PAYLOAD_SIZE, len)
Last(len, fin, i) == fin /\ i = Count(len, fin) - 1
PieceEnd(next, len, fin, i) == next + To(len, i) + One(Last(len, fin, i))

LEMMA CountProperties ==
  ASSUME NEW len \in Nat, NEW fin \in BOOLEAN
  PROVE  /\ Count(len, fin) \in Nat
         /\ Count(len, fin) = 0 => len = 0 /\ ~fin
         /\ len = 0 /\ Count(len, fin) > 0 => fin /\ Count(len, fin) = 1
         /\ len > 0 => /\ len <= MAX_PAYLOAD_SIZE * Count(len, fin)
                       /\ MAX_PAYLOAD_SIZE * Count(len, fin) - MAX_PAYLOAD_SIZE < len
<1>1. PICK P \in Nat : P = MAX_PAYLOAD_SIZE /\ P > 0
  BY PayloadAssumption
<1>2. PICK n1 \in Int, rest \in 0 .. P - 1 :
        n1 = (len + P - 1) \div P /\ len + P - 1 = P * n1 + rest
  BY <1>1, DivMod, len + P - 1 \in Int
<1>3. PICK x \in Int : x = P * n1
  OBVIOUS
<1>4. len <= x /\ x - P < len
  BY <1>1, <1>2, <1>3
<1>5. /\ n1 > 0 => x >= P
      /\ n1 < 0 => x <= -P
      /\ n1 = 0 => x = 0
  <2>1. /\ n1 > 0 => P * n1 >= P * 0 + P
        /\ n1 < 0 => P * n1 <= P * 0 - P
    BY MultiplesApart
  <2>2. P * 0 = 0 /\ (n1 = 0 => P * n1 = 0)
    OBVIOUS
  <2>3. QED
    BY <1>3, <2>1, <2>2
<1>6. n1 >= 0 /\ (n1 = 0 <=> len = 0)
  BY <1>1, <1>4, <1>5
<1>7. PICK f \in 0 .. 1 : f = One(fin) /\ (f = 1 <=> fin)
  BY DEF One
<1>8. PICK n : n = Count(len, fin)
  OBVIOUS
<1>9. n = IF n1 >= f THEN n1 ELSE f
  BY <1>1, <1>2, <1>7, <1>8 DEF Count, Most
<1>10. /\ n \in Nat
       /\ n = 0 => len = 0 /\ ~fin
       /\ len > 0 => n = n1
       /\ len = 0 /\ n > 0 => fin /\ n = 1
  BY <1>6, <1>7, <1>9
<1>11. len > 0 => len <= P * n /\ P * n - P < len
  BY <1>3, <1>4, <1>10
<1>12. QED
  BY <1>1, <1>8, <1>10, <1>11

LEMMA PieceNumbers ==
  ASSUME NEW len \in Nat, NEW fin \in BOOLEAN, NEW next \in Nat,
         NEW i \in 0 .. Count(len, fin) - 1
  PROVE  /\ From(i) \in Nat /\ To(len, i) \in Nat
         /\ From(i) <= To(len, i) /\ To(len, i) <= len
         /\ Last(len, fin, i) \in BOOLEAN
         /\ Last(len, fin, i) => fin /\ To(len, i) = len
         /\ PieceEnd(next, len, fin, i) \in Nat
         /\ next + From(i) < PieceEnd(next, len, fin, i)
         /\ PieceEnd(next, len, fin, i) <= next + len + One(fin)
         /\ i < Count(len, fin) - 1 => PieceEnd(next, len, fin, i) = next + From(i + 1)
         /\ i = Count(len, fin) - 1 => PieceEnd(next, len, fin, i) = next + len + One(fin)
         /\ From(i) \div MAX_PAYLOAD_SIZE = i
         /\ From(i + 1) = From(i) + MAX_PAYLOAD_SIZE
<1>1. PICK P \in Nat : P = MAX_PAYLOAD_SIZE /\ P > 0
  BY PayloadAssumption
<1>2. PICK n \in Nat : n = Count(len, fin)
  BY CountProperties
<1>3. /\ len = 0 => fin /\ n = 1
      /\ len > 0 => len <= P * n /\ P * n - P < len
      /\ i \in Nat /\ i < n
  BY <1>1, <1>2, CountProperties
<1>4. PICK x \in Nat : x = P * i
  BY <1>3
<1>5. PICK z \in Nat : z = P * n
  OBVIOUS
<1>6. From(i) = x /\ From(i + 1) = x + P /\ (i + 1) * P = x + P
  BY <1>1, <1>3, <1>4 DEF From
<1>7. From(i) \div MAX_PAYLOAD_SIZE = i
  <2>1. (P * i + 0) \div P = i
    BY <1>1, <1>3, DivUnique, 0 \in 0 .. P - 1
  <2>2. QED
    BY <1>1, <1>4, <1>6, <2>1
<1>8. /\ x <= z - P
      /\ i < n - 1 => x + P <= z - P
      /\ i = n - 1 => x + P = z
  <2>1. P * i <= P * n - P
    BY <1>3, MultiplesApart
  <2>2. i + 1 < n => P * (i + 1) <= P * n - P
    BY <1>3, MultiplesApart, i + 1 \in Int
  <2>3. P * (i + 1) = x + P
    BY <1>3, <1>4
  <2>4. i = n - 1 => P * (i + 1) = z
    BY <1>5
  <2>5. QED
    BY <1>3, <1>4, <1>5, <2>1, <2>2, <2>3, <2>4
<1>9. PICK to \in Nat : to = To(len, i)
  BY <1>1, <1>6 DEF To, Least
<1>10. to = IF x + P <= len THEN x + P ELSE len
  BY <1>1, <1>6, <1>9 DEF To, Least
<1>11. /\ i < n - 1 => x < len /\ to = x + P
       /\ i = n - 1 => to = len /\ (x < len \/ (fin /\ x = len))
  <2>1. CASE len > 0
    BY <1>1, <1>3, <1>5, <1>8, <1>10, <2>1
  <2>2. CASE len = 0
    <3>1. fin /\ n = 1 /\ i = 0
      BY <1>3, <2>2
    <3>2. x = 0
      BY <1>4, <3>1
    <3>3. QED
      BY <1>1, <1>10, <2>2, <3>1, <3>2
  <2>3. QED
    BY <2>1, <2>2
<1>12. PICK f \in 0 .. 1 : f = One(fin) /\ (f = 1 <=> fin)
  BY DEF One
<1>13. PICK g \in 0 .. 1 : g = One(Last(len, fin, i)) /\ (g = 1 <=> fin /\ i = n - 1)
  BY <1>2 DEF One, Last
<1>14. PICK e \in Nat : e = PieceEnd(next, len, fin, i) /\ e = next + to + g
  BY <1>9, <1>13 DEF PieceEnd
<1>15. i < n - 1 \/ i = n - 1
  BY <1>3
<1>16. /\ x <= to /\ to <= len
       /\ next + x < e /\ e <= next + len + f
       /\ i < n - 1 => e = next + (x + P)
       /\ i = n - 1 => e = next + len + f
  BY <1>1, <1>10, <1>11, <1>12, <1>13, <1>14, <1>15
<1>17. /\ Last(len, fin, i) \in BOOLEAN
       /\ Last(len, fin, i) => fin /\ To(len, i) = len
  BY <1>2, <1>9, <1>11 DEF Last
<1>18. QED
  BY <1>1, <1>2, <1>6, <1>7, <1>9, <1>12, <1>14, <1>16, <1>17

\* A stretch of a stretch of the source is one of the source.
LEMMA SourceWithin ==
  ASSUME NEW c, Direction(c),
         NEW a \in Nat, NEW b \in Nat, a <= b, b <= Len(c.source),
         NEW m \in Nat, NEW n \in Nat, m <= n, a + n <= b
  PROVE  Slice(Slice(c.source, a, b), m, n) = Slice(c.source, a + m, a + n)
BY Constants DEF SliceAlgebra

\* The message i of them.
Piece(s, o, next, len, fin, i) ==
  TCPSenderMessage(Wrap32_wrap(next + From(i), s.m_isn_), FALSE,
                   Slice(o.buffer_, From(i), To(len, i)), Last(len, fin, i))

LEMMA PieceMessage ==
  ASSUME NEW c, Direction(c),
         NEW s, NEW o, Consistent(c, s, o), s.m_syc_pushed, ~s.m_fin_pushed,
         NEW len \in Nat, len <= Len(o.buffer_),
         NEW fin \in BOOLEAN, fin => o.is_close_ /\ len = Len(o.buffer_),
         NEW next, next = get_absolute_seqno(s),
         NEW i \in 0 .. Count(len, fin) - 1
  PROVE  /\ next \in Nat /\ next = 1 + o.bytes_popped_
         /\ Piece(s, o, next, len, fin, i) = Stretch(c, next + From(i), PieceEnd(next, len, fin, i))
<1>1. PICK a \in Nat, b \in Nat :
        /\ a = o.bytes_popped_ /\ b = o.bytes_pushed_
        /\ a <= b /\ b <= Len(c.source) /\ Len(o.buffer_) = b - a
  BY Numbers
<1>2. next = 1 + a
  <2>1. Used(s, o) = 1 + a
    BY <1>1 DEF Used, One
  <2>2. QED
    BY <2>1, Numbers
<1>3. /\ o \in ByteStreams(c.byte, c.capacity) /\ Carries(o, c.source) /\ s.m_isn_ = c.isn
      /\ fin => b = Len(c.source)
  BY <1>1 DEF Consistent
<1>4. PICK x \in Nat, to \in Nat : x = From(i) /\ to = To(len, i) /\ x <= to /\ to <= len
  BY <1>2, PieceNumbers, SMTT(30)
<1>5. PICK last : last = Last(len, fin, i)
  OBVIOUS
<1>6. last \in BOOLEAN /\ (last => fin /\ to = len)
  BY <1>2, <1>4, <1>5, PieceNumbers
<1>7. PICK k \in Nat : k = next + x
  BY <1>2
<1>8. PICK e \in Nat : e = PieceEnd(next, len, fin, i) /\ e = next + to + One(last)
  <2>1. PieceEnd(next, len, fin, i) \in Nat
    BY <1>2, next \in Nat, PieceNumbers
  <2>2. PieceEnd(next, len, fin, i) = next + to + One(last)
    BY <1>4, <1>5 DEF PieceEnd
  <2>3. QED
    BY <2>1, <2>2
<1>9. Slice(o.buffer_, x, to) = Slice(c.source, a + x, a + to)
  <2>1. a + to <= b /\ o.buffer_ = Slice(c.source, a, b)
    BY <1>1, <1>3, <1>4 DEF Carries
  <2>2. QED
    <3>1. Slice(Slice(c.source, a, b), x, to) = Slice(c.source, a + x, a + to)
      BY <1>1, <1>4, <2>1, SourceWithin, SMTT(30)
    <3>2. QED
      BY <2>1, <3>1
<1>10. (k = 0) = FALSE /\ Most(k - 1, 0) = a + x
  BY <1>2, <1>7 DEF Most
<1>11. One(last) = IF last THEN 1 ELSE 0
  BY DEF One
<1>12. Least(e - 1, Len(c.source)) = a + to /\ (last <=> e = Len(c.source) + 2)
  <2>1. CASE last
    <3>1. to = len /\ a + len = Len(c.source) /\ One(last) = 1
      BY <1>1, <1>3, <1>6, <1>11, <2>1
    <3>2. e = Len(c.source) + 2
      BY <1>2, <1>8, <3>1
    <3>3. QED
      BY <2>1, <3>1, <3>2, Constants DEF Least
  <2>2. CASE ~last
    <3>1. a + to <= Len(c.source) /\ One(last) = 0
      BY <1>1, <1>4, <1>11, <2>2
    <3>2. e = a + to + 1
      BY <1>2, <1>8, <3>1
    <3>3. QED
      BY <2>2, <3>1, <3>2, Constants DEF Least
  <2>3. QED
    BY <2>1, <2>2
<1>13. (e = Len(c.source) + 2) = last
  BY <1>6, <1>12, Zenon
<1>14. TCPSenderMessage(Wrap32_wrap(k, c.isn), FALSE, Slice(o.buffer_, x, to), last) = Stretch(c, k, e)
  BY <1>9, <1>10, <1>12, <1>13, Zenon DEF Stretch
<1>15. Piece(s, o, next, len, fin, i) = Stretch(c, k, e)
  BY <1>3, <1>4, <1>5, <1>7, <1>14, Zenon DEF Piece
<1>16. Piece(s, o, next, len, fin, i) = Stretch(c, next + From(i), PieceEnd(next, len, fin, i))
  BY <1>4, <1>7, <1>8, <1>15
<1>17. QED
  BY <1>1, <1>2, <1>16

\* What lies behind byte a and ends within L bytes, FIN with it perhaps.
LEMMA PushNumbers ==
  ASSUME NEW a \in Nat, NEW len \in Nat, NEW L \in Nat, a + len <= L, NEW f \in 0 .. 1
  PROVE  1 + a <= 1 + a + len + f /\ 1 + a + len + f <= L + 2
OBVIOUS

LEMMA PushBounds ==
  ASSUME NEW c, Direction(c),
         NEW s, NEW o, Consistent(c, s, o), s.m_syc_pushed, ~s.m_fin_pushed,
         NEW len \in Nat, len <= Len(o.buffer_), NEW fin \in BOOLEAN,
         NEW next, next = get_absolute_seqno(s)
  PROVE  /\ next \in Nat /\ next = 1 + o.bytes_popped_
         /\ next + len + One(fin) \in Nat
         /\ next <= next + len + One(fin)
         /\ next + len + One(fin) <= Len(c.source) + 2
<1>1. PICK a \in Nat, b \in Nat :
        /\ a = o.bytes_popped_ /\ b = o.bytes_pushed_
        /\ a <= b /\ b <= Len(c.source) /\ Len(o.buffer_) = b - a
  BY Numbers
<1>2. next = 1 + a
  <2>1. Used(s, o) = 1 + a
    BY <1>1 DEF Used, One
  <2>2. QED
    BY <2>1, Numbers
<1>3. PICK f \in 0 .. 1 : f = One(fin)
  BY DEF One
<1>4. PICK L \in Nat : L = Len(c.source)
  BY Constants
<1>5. a + len <= L
  BY <1>1, <1>4
<1>6. 1 + a <= 1 + a + len + f /\ 1 + a + len + f <= L + 2
  BY <1>5, PushNumbers
<1>7. PICK e \in Nat : e = 1 + a + len + f
  OBVIOUS
<1>8. e = next + len + One(fin) /\ next <= e /\ e <= Len(c.source) + 2
  BY <1>2, <1>3, <1>4, <1>6, <1>7, Zenon
<1>9. next \in Nat
  BY <1>2
<1>10. QED
  BY <1>1, <1>2, <1>7, <1>8, <1>9, Zenon

Pieces(pieces, s, o, next, len, fin) ==
  /\ IsFunction(pieces)
  /\ DOMAIN pieces = {next + From(i) : i \in 0 .. Count(len, fin) - 1}
  /\ \A i \in 0 .. Count(len, fin) - 1 :
       pieces[next + From(i)] = Piece(s, o, next, len, fin, i)

\* The new messages tile the numbers behind next.
LEMMA PiecesTile ==
  ASSUME NEW c, Direction(c),
         NEW s, NEW o, Consistent(c, s, o), s.m_syc_pushed, ~s.m_fin_pushed,
         NEW len \in Nat, len <= Len(o.buffer_),
         NEW fin \in BOOLEAN, fin => o.is_close_ /\ len = Len(o.buffer_),
         NEW next, next = get_absolute_seqno(s),
         NEW high, high = next + len + One(fin),
         NEW count, count = Count(len, fin),
         NEW pieces, Pieces(pieces, s, o, next, len, fin)
  PROVE  /\ Tiled(c, pieces, next, high) /\ \A k \in DOMAIN pieces : next <= k
         /\ \A i \in 0 .. count - 1 : Piece(s, o, next, len, fin, i) \in Sendable(c, high)
<1> DEFINE keys == [i \in 0 .. count - 1 |-> next + From(i)]
           ends == [i \in 0 .. count - 1 |-> PieceEnd(next, len, fin, i)]
<1>1. next \in Nat /\ next = 1 + o.bytes_popped_
  BY PushBounds
<1>2. high \in Nat /\ next <= high /\ high <= Len(c.source) + 2
  BY PushBounds
<1>3. count \in Nat /\ (count = 0 => len = 0 /\ ~fin)
  BY CountProperties
<1>4. \A i \in 0 .. count - 1 : keys[i] = next + From(i) /\ ends[i] = PieceEnd(next, len, fin, i)
  OBVIOUS
<1> HIDE DEF keys, ends
<1>5. ASSUME NEW i \in 0 .. count - 1
      PROVE  /\ From(i) \in Nat /\ keys[i] \in Nat /\ ends[i] \in Nat
             /\ next <= keys[i] /\ keys[i] < ends[i] /\ ends[i] <= high
             /\ i < count - 1 => ends[i] = next + From(i + 1)
             /\ i = count - 1 => ends[i] = high
             /\ pieces[keys[i]] = Stretch(c, keys[i], ends[i])
             /\ Piece(s, o, next, len, fin, i) = Stretch(c, keys[i], ends[i])
  <2>1. i \in 0 .. Count(len, fin) - 1
    OBVIOUS
  <2>a. PICK x : x = From(i)
    OBVIOUS
  <2>b. PICK e : e = PieceEnd(next, len, fin, i)
    OBVIOUS
  <2>2. /\ x \in Nat /\ e \in Nat
        /\ next + x < e /\ e <= high
        /\ i < count - 1 => e = next + From(i + 1)
        /\ i = count - 1 => e = high
    BY <1>1, <2>1, <2>a, <2>b, PieceNumbers
  <2>3. keys[i] = next + x /\ ends[i] = e
    BY <1>4, <2>a, <2>b
  <2>4. Piece(s, o, next, len, fin, i) = Stretch(c, next + x, e)
    BY <2>1, <2>a, <2>b, PieceMessage
  <2>5. pieces[next + x] = Stretch(c, next + x, e)
    BY <2>1, <2>a, <2>4 DEF Pieces
  <2>6. next + x \in Nat /\ next <= next + x
    BY <1>1, <2>2
  <2>7. QED
    BY <2>a, <2>2, <2>3, <2>4, <2>5, <2>6
<1>6. count = 0 => next = high
  BY <1>1, <1>3 DEF One
<1>7. count > 0 => keys[0] = next /\ ends[count - 1] = high
  <2>1. SUFFICES ASSUME count > 0 PROVE keys[0] = next /\ ends[count - 1] = high
    OBVIOUS
  <2>2. 0 \in 0 .. count - 1 /\ count - 1 \in 0 .. count - 1
    BY <1>3, <2>1
  <2>3. From(0) = 0
    BY Constants DEF From
  <2>4. keys[0] = next
    BY <1>1, <1>4, <2>2, <2>3
  <2>5. ends[count - 1] = high
    BY <1>5, <2>2
  <2>6. QED
    BY <2>4, <2>5
<1>8. ASSUME NEW i \in 1 .. count - 1
      PROVE  ends[i - 1] = keys[i]
  <2>1. i - 1 \in 0 .. count - 1 /\ i - 1 < count - 1 /\ i \in 0 .. count - 1 /\ (i - 1) + 1 = i
    BY <1>3
  <2>2. ends[i - 1] = next + From((i - 1) + 1)
    BY <1>5, <2>1
  <2>3. QED
    BY <1>4, <2>1, <2>2
<1>9. ASSUME NEW i \in 0 .. count - 1, NEW j \in 0 .. count - 1, keys[i] < keys[j]
      PROVE  ends[i] <= keys[j]
  <2>1. PICK P \in Nat : P = MAX_PAYLOAD_SIZE
    BY Constants
  <2>2. i \in Nat /\ j \in Nat
    BY <1>3
  <2>3. PICK x \in Nat, y \in Nat : x = From(i) /\ y = From(j) /\ x = P * i /\ y = P * j
    BY <1>5, <2>1, <2>2 DEF From
  <2>4. keys[i] = next + x /\ keys[j] = next + y /\ x < y
    <3>1. keys[i] = next + x /\ keys[j] = next + y
      BY <1>4, <2>3
    <3>2. QED
      BY <1>1, <1>9, <3>1
  <2>5. i < j /\ x + P <= y
    <3>1. /\ j < i => P * j <= P * i - P
          /\ i < j => P * i <= P * j - P
      BY <2>2, MultiplesApart
    <3>2. QED
      BY <2>2, <2>3, <2>4, <3>1
  <2>6. i < count - 1
    BY <1>3, <2>5
  <2>7. From(i + 1) = x + P
    <3>1. From(i + 1) = From(i) + MAX_PAYLOAD_SIZE
      BY <1>1, PieceNumbers
    <3>2. QED
      BY <2>1, <2>3, <3>1
  <2>8. ends[i] = next + (x + P)
    BY <1>5, <2>6, <2>7
  <2>9. QED
    BY <1>1, <2>4, <2>5, <2>8
<1>10. DOMAIN pieces = {keys[i] : i \in 0 .. count - 1}
  BY <1>4 DEF Pieces
<1>11. Tiled(c, pieces, next, high) /\ \A k \in DOMAIN pieces : next <= k
  <2>1. IsFunction(pieces)
    BY DEF Pieces
  <2>2. \A i, j \in 0 .. count - 1 : keys[i] < keys[j] => ends[i] <= keys[j]
    BY <1>9
  <2>3. \A i \in 1 .. count - 1 : ends[i - 1] = keys[i]
    BY <1>8
  <2>4. \A i \in 0 .. count - 1 : keys[i] \in Nat /\ ends[i] \in Nat
    BY <1>5
  <2>5. \A i \in 0 .. count - 1 : next <= keys[i] /\ keys[i] < ends[i] /\ ends[i] <= high
    BY <1>5
  <2>6. \A i \in 0 .. count - 1 : pieces[keys[i]] = Stretch(c, keys[i], ends[i])
    BY <1>5
  <2>7. count \in Nat
    BY <1>3
  <2>8. Row(c, pieces, next, high, count, keys, ends)
    BY <1>1, <1>2, <1>6, <1>7, <1>10, <2>1, <2>2, <2>3, <2>4, <2>5, <2>6, <2>7 DEF Row
  <2>9. QED
    BY <2>8, TilesInRow
<1>12. ASSUME NEW i \in 0 .. count - 1
       PROVE  Piece(s, o, next, len, fin, i) \in Sendable(c, high)
  <2>1. PICK k \in Nat, e \in Nat : k = keys[i] /\ e = ends[i]
    BY <1>5
  <2>2. k < e /\ e <= high /\ Piece(s, o, next, len, fin, i) = Stretch(c, k, e)
    BY <1>5, <2>1
  <2>3. e <= Len(c.source) + 2
    BY <1>2, <2>1, <2>2, Constants
  <2>4. Stretch(c, k, e) \in Stretches(c)
    BY <2>2, <2>3, MessageLength
  <2>5. QED
    BY <2>2, <2>4 DEF Sendable
<1>13. QED
  BY <1>1, <1>2, <1>11, <1>12

LEMMA PopExactly ==
  ASSUME NEW c, Direction(c),
         NEW o \in ByteStreams(c.byte, c.capacity), Carries(o, c.source),
         NEW len \in Nat, len <= Len(o.buffer_),
         NEW r, r = Reader_pop(o, len)
  PROVE  /\ r \in ByteStreams(c.byte, c.capacity) /\ Carries(r, c.source)
         /\ r.bytes_popped_ = o.bytes_popped_ + len
         /\ r.bytes_pushed_ = o.bytes_pushed_ /\ r.is_close_ = o.is_close_
<1>1. r = read_rest(o, len)
  BY DEF read_rest
<1>2. /\ r \in ByteStreams(c.byte, c.capacity) /\ Carries(r, c.source)
      /\ r.bytes_pushed_ = o.bytes_pushed_ /\ r.is_close_ = o.is_close_
  <2>1. c.source \in Seq(c.byte) /\ c.capacity \in Nat
    BY Constants
  <2>2. QED
    BY <1>1, <2>1, ReadCarries, SMTT(30)
<1>3. PICK n \in Nat : n = Len(o.buffer_)
  BY LenProperties DEF ByteStreams
<1>4. Least(len, Reader_bytes_buffered(o)) = len
  BY <1>3 DEF Least, Reader_bytes_buffered
<1>5. r.bytes_popped_ = o.bytes_popped_ + len
  BY <1>4 DEF Reader_pop, ByteStreams
<1>6. QED
  BY <1>2, <1>5

\* The rest of push behaves as one step of the tiling.
LEMMA PushPieces ==
  ASSUME NEW c, Direction(c),
         NEW s, NEW o, Consistent(c, s, o), s.m_syc_pushed, ~s.m_fin_pushed,
         NEW len \in Nat, len <= Len(o.buffer_),
         NEW fin \in BOOLEAN, fin => o.is_close_ /\ len = Len(o.buffer_),
         NEW next, next = get_absolute_seqno(s),
         NEW t, t = push_pieces(s, o, next, len, fin)
  PROVE  /\ Consistent(c, t.sender, t.outbound)
         /\ Pushed(s, t.sender)
         /\ t.sender.m_syc_pushed /\ t.sender.m_fin_pushed = fin
         /\ Used(t.sender, t.outbound) = next + len + One(fin)
<1> DEFINE old == s.m_outstanding_messages_
           count == Count(len, fin)
           new == {next + From(i) : i \in 0 .. count - 1}
           pieces == [k \in new |-> Piece(s, o, next, len, fin, (k - next) \div MAX_PAYLOAD_SIZE)]
           out == [k \in DOMAIN old \cup new |-> IF k \in DOMAIN old THEN old[k]
                     ELSE Piece(s, o, next, len, fin, (k - next) \div MAX_PAYLOAD_SIZE)]
           queued == [i \in 1 .. count |-> Piece(s, o, next, len, fin, i - 1)]
           high == next + len + One(fin)
<1>1. t = [sender   |-> [s EXCEPT !.m_outstanding_messages_ = out,
                                  !.m_send_queue_ = Joined(@, queued),
                                  !.m_fin_pushed = fin],
           outbound |-> Reader_pop(o, len)]
  BY DEF push_pieces, Piece, Count, From, To, Last
<1>2. PICK a \in Nat, b \in Nat :
        /\ a = o.bytes_popped_ /\ b = o.bytes_pushed_
        /\ a <= b /\ b <= Len(c.source) /\ Len(o.buffer_) = b - a
  BY Numbers
<1>3. /\ next = 1 + a /\ next \in Nat
      /\ Tiled(c, old, s.m_window_left, next)
      /\ s.m_send_queue_ \in Seq(Sendable(c, next))
  <2>1. Used(s, o) = 1 + a
    BY <1>2 DEF Used, One
  <2>2. next = Used(s, o)
    BY Numbers
  <2>3. QED
    BY <1>2, <2>1, <2>2 DEF Consistent
<1>4. /\ high \in Nat /\ next <= high /\ high <= Len(c.source) + 2
      /\ fin => a + len = Len(c.source)
  <2>1. high \in Nat /\ next <= high /\ high <= Len(c.source) + 2
    BY PushBounds
  <2>2. fin => a + len = b /\ b = Len(c.source)
    BY <1>2 DEF Consistent
  <2>3. QED
    BY <2>1, <2>2
<1>5. count \in Nat
  BY CountProperties
<1>6. Pieces(pieces, s, o, next, len, fin)
  <2>1. IsFunction(pieces) /\ DOMAIN pieces = new
    BY DEF IsFunction
  <2>2. ASSUME NEW i \in 0 .. count - 1
        PROVE  pieces[next + From(i)] = Piece(s, o, next, len, fin, i)
    <3>1. From(i) \in Nat /\ From(i) \div MAX_PAYLOAD_SIZE = i
      BY <1>3, next \in Nat, PieceNumbers
    <3>2. (next + From(i)) - next = From(i)
      BY <1>3, <3>1
    <3>3. pieces[next + From(i)] =
            Piece(s, o, next, len, fin, ((next + From(i)) - next) \div MAX_PAYLOAD_SIZE)
      OBVIOUS
    <3>4. QED
      BY <3>1, <3>2, <3>3, Zenon
  <2> HIDE DEF pieces
  <2>3. QED
    BY <2>1, <2>2 DEF Pieces
<1>7. /\ Tiled(c, pieces, next, high) /\ \A k \in DOMAIN pieces : next <= k
      /\ \A i \in 0 .. count - 1 : Piece(s, o, next, len, fin, i) \in Sendable(c, high)
  <2> HIDE DEF pieces
  <2>1. QED
    BY <1>6, PiecesTile
<1>8. Tiled(c, out, s.m_window_left, high) /\ DOMAIN old \in SUBSET DOMAIN out
  <2>1. IsFunction(out) /\ DOMAIN out = DOMAIN old \cup DOMAIN pieces
    BY DEF IsFunction
  <2>2. /\ \A k \in DOMAIN old : out[k] = old[k]
        /\ \A k \in DOMAIN pieces : k \notin DOMAIN old => out[k] = pieces[k]
    OBVIOUS
  <2>3. s.m_window_left \in Nat
    BY DEF Consistent
  <2> HIDE DEF out, pieces, old, new, high
  <2>4. QED
    BY <1>3, <1>4, <1>7, <2>1, <2>2, <2>3, TilesJoin
<1>9. queued \in Seq(Sendable(c, high)) /\ Len(queued) = count
  <2> HIDE DEF high, count
  <2>1. \A i \in 1 .. count : Piece(s, o, next, len, fin, i - 1) \in Sendable(c, high)
    BY <1>5, <1>7
  <2>2. queued \in [1 .. count -> Sendable(c, high)]
    BY <2>1
  <2>3. QED
    BY <1>5, <2>2
<1>10. PICK r : r = Reader_pop(o, len)
  OBVIOUS
<1>11. /\ r \in ByteStreams(c.byte, c.capacity) /\ Carries(r, c.source)
       /\ r.bytes_popped_ = a + len /\ r.bytes_pushed_ = b /\ r.is_close_ = o.is_close_
  <2>1. o \in ByteStreams(c.byte, c.capacity) /\ Carries(o, c.source)
    BY DEF Consistent
  <2>2. /\ r \in ByteStreams(c.byte, c.capacity) /\ Carries(r, c.source)
        /\ r.bytes_popped_ = o.bytes_popped_ + len
        /\ r.bytes_pushed_ = o.bytes_pushed_ /\ r.is_close_ = o.is_close_
    BY <1>10, <2>1, PopExactly
  <2>3. QED
    BY <1>2, <2>2
<1>12. PICK u : u = [s EXCEPT !.m_outstanding_messages_ = out,
                              !.m_send_queue_ = Joined(@, queued),
                              !.m_fin_pushed = fin]
  OBVIOUS
<1>13. t.sender = u /\ t.outbound = r
  BY <1>1, <1>10, <1>12
<1>14. DOMAIN s = Fields
  BY DEF Consistent
<1> HIDE DEF new, out, pieces, queued, count
<1>15. /\ DOMAIN u = Fields
       /\ u.m_outstanding_messages_ = out
       /\ u.m_send_queue_ = Joined(s.m_send_queue_, queued)
       /\ u.m_fin_pushed = fin
       /\ u.m_syc_pushed = s.m_syc_pushed
       /\ u.m_isn_ = s.m_isn_
       /\ u.m_retransmission_timer_ = s.m_retransmission_timer_
       /\ u.m_RTO_ms_ = s.m_RTO_ms_
       /\ u.m_consecutive_retransmissions = s.m_consecutive_retransmissions
       /\ u.m_window_left = s.m_window_left
       /\ u.m_window_size = s.m_window_size
  BY <1>12, <1>14 DEF Fields
<1>16. Used(u, r) = high
  <2>1. Used(u, r) = 1 + (a + len) + One(fin)
    BY <1>11, <1>15 DEF Used, One
  <2>2. One(fin) \in Nat
    BY DEF One
  <2>3. QED
    BY <1>2, <1>3, <2>1, <2>2
<1> HIDE DEF high
<1>17. /\ u.m_send_queue_ \in Seq(Sendable(c, high))
       /\ u.m_send_queue_ = <<>> => s.m_send_queue_ = <<>> /\ count = 0
  <2>1. Sendable(c, next) \subseteq Sendable(c, high)
    <3>1. \A e \in Nat : e <= next => e <= high
      BY <1>3, <1>4
    <3>2. QED
      BY <3>1 DEF Sendable
  <2>2. s.m_send_queue_ \in Seq(Sendable(c, high))
    BY <1>3, <2>1, SeqMonotonic
  <2>3. u.m_send_queue_ = s.m_send_queue_ \o queued
    BY <1>15 DEF Joined
  <2>4. u.m_send_queue_ \in Seq(Sendable(c, high))
    BY <1>9, <2>2, <2>3, ConcatProperties
  <2>5. u.m_send_queue_ = <<>> => s.m_send_queue_ = <<>> /\ queued = <<>>
    <3>1. s.m_send_queue_ \o queued = <<>> => s.m_send_queue_ = <<>> /\ queued = <<>>
      BY <1>9, <2>2, ConcatEqualIffEmpty
    <3>2. QED
      BY <2>3, <3>1
  <2>6. queued = <<>> => count = 0
    BY <1>9, EmptySeq
  <2>7. QED
    BY <2>4, <2>5, <2>6
<1>18. /\ count = 0 => DOMAIN out = DOMAIN old
       /\ count > 0 => DOMAIN out # {}
  <2>1. DOMAIN out = DOMAIN old \cup {next + From(i) : i \in 0 .. count - 1}
    BY DEF out, new
  <2>2. count > 0 => 0 \in 0 .. count - 1
    BY <1>5
  <2>3. count = 0 => 0 .. count - 1 = {}
    BY <1>5
  <2>4. QED
    BY <2>1, <2>2, <2>3
<1>19. u.m_send_queue_ # <<>> => DOMAIN out # {}
  <2>1. CASE count > 0
    BY <1>18, <2>1
  <2>2. CASE count = 0
    <3>1. queued = <<>>
      BY <1>9, <2>2, EmptySeq
    <3>2. u.m_send_queue_ = s.m_send_queue_
      BY <1>3, <1>15, <3>1, ConcatEmptySeq DEF Joined
    <3>3. QED
      BY <1>8, <3>2 DEF Consistent
  <2>3. QED
    BY <1>5, <2>1, <2>2
<1>20. Consistent(c, u, r)
  <2>1. r.is_close_ => r.bytes_pushed_ = Len(c.source)
    BY <1>2, <1>11 DEF Consistent
  <2>2. u.m_fin_pushed => r.is_close_ /\ r.bytes_popped_ = Len(c.source)
    BY <1>4, <1>11, <1>15
  <2>3. u.m_syc_pushed /\ u.m_syc_pushed \in BOOLEAN /\ u.m_fin_pushed \in BOOLEAN
    BY <1>15 DEF Consistent
  <2>4. u.m_isn_ = c.isn /\ u.m_window_left \in Nat /\ u.m_window_size \in Nat
    BY <1>15 DEF Consistent
  <2>5. Tiled(c, u.m_outstanding_messages_, u.m_window_left, Used(u, r))
    BY <1>8, <1>15, <1>16
  <2>6. /\ u.m_send_queue_ \in Seq(Sendable(c, Used(u, r)))
        /\ u.m_send_queue_ # <<>> => DOMAIN u.m_outstanding_messages_ # {}
    BY <1>15, <1>16, <1>17, <1>19
  <2>7. QED
    BY <1>11, <1>15, <2>1, <2>2, <2>3, <2>4, <2>5, <2>6 DEF Consistent
<1>21. Pushed(s, u)
  BY <1>8, <1>15, <1>17, <1>18 DEF Pushed
<1>22. QED
  BY <1>13, <1>15, <1>16, <1>20, <1>21 DEF high

\* SYN, alone or with FIN.
LEMMA PushSyn ==
  ASSUME NEW c, Direction(c),
         NEW s, NEW o, Consistent(c, s, o), ~s.m_syc_pushed, NEW t, t = push_syn(s, o)
  PROVE  /\ Consistent(c, t, o) /\ Pushed(s, t) /\ t.m_syc_pushed
         /\ Used(s, o) = 0 /\ Used(t, o) = 1 + One(t.m_fin_pushed)
<1>1. PICK b \in Nat, L \in Nat :
        /\ b = o.bytes_pushed_ /\ L = Len(c.source) /\ o.bytes_popped_ = 0
        /\ Len(o.buffer_) = b
  <2>1. o.bytes_popped_ = 0
    BY DEF Consistent
  <2>2. QED
    BY <2>1, Numbers, Constants
<1>2. Used(s, o) = 0 /\ ~s.m_fin_pushed
  BY <1>1 DEF Consistent, Used, One
<1>3. PICK old : old = s.m_outstanding_messages_
  OBVIOUS
<1>4. DOMAIN old = {} /\ s.m_window_left = 0 /\ get_absolute_seqno(s) = 0
  <2>1. Tiled(c, old, s.m_window_left, 0)
    BY <1>2, <1>3 DEF Consistent
  <2>2. \A k \in DOMAIN old : k \in Nat /\ TileEnd(old, k) \in Nat /\ TileEnd(old, k) <= 0 /\ k < TileEnd(old, k)
    BY <2>1 DEF Tiled
  <2>3. DOMAIN old = {}
    <3>1. \A k \in DOMAIN old : FALSE
      BY <2>2
    <3>2. QED
      BY <3>1
  <2>4. s.m_window_left = 0
    BY <2>1, <2>3 DEF Tiled
  <2>5. QED
    BY <1>2, <2>3, <2>4, Numbers
<1>5. PICK fin \in BOOLEAN : fin = Reader_is_finished(o)
  BY DEF Reader_is_finished, Consistent, ByteStreams
<1>6. fin => o.is_close_ /\ L = 0
  <2>1. SUFFICES ASSUME fin PROVE o.is_close_ /\ L = 0
    OBVIOUS
  <2>2. o.is_close_ /\ o.buffer_ = <<>>
    BY <1>5, <2>1 DEF Reader_is_finished
  <2>3. b = 0
    BY <1>1, <2>2
  <2>4. QED
    BY <1>1, <2>2, <2>3 DEF Consistent
<1>7. One(fin) = IF fin THEN 1 ELSE 0
  BY DEF One
<1>8. PICK e \in Nat : e = 1 + One(fin)
  BY <1>7
<1>9. 0 < e /\ e <= L + 2 /\ (e = L + 2) = fin /\ Least(e - 1, L) = 0 /\ Most(0 - 1, 0) = 0
  <2>1. CASE fin
    <3>1. L = 0 /\ e = 2
      BY <1>6, <1>7, <1>8, <2>1
    <3>2. (e = L + 2) = TRUE /\ fin = TRUE
      BY <2>1, <3>1
    <3>3. 0 < e /\ e <= L + 2
      BY <3>1
    <3>4. Least(e - 1, L) = 0 /\ Most(0 - 1, 0) = 0
      BY <3>1 DEF Least, Most
    <3>5. QED
      BY <3>2, <3>3, <3>4, Zenon
  <2>2. CASE ~fin
    <3>1. e = 1
      BY <1>7, <1>8, <2>2
    <3>2. (e = L + 2) = FALSE /\ fin = FALSE
      BY <2>2, <3>1
    <3>3. 0 < e /\ e <= L + 2
      BY <3>1
    <3>4. Least(e - 1, L) = 0 /\ Most(0 - 1, 0) = 0
      BY <3>1 DEF Least, Most
    <3>5. QED
      BY <3>2, <3>3, <3>4, Zenon
  <2>3. QED
    BY <2>1, <2>2
<1>10. PICK m : m = TCPSenderMessage(Wrap32_wrap(0, c.isn), TRUE, <<>>, fin)
  OBVIOUS
<1>11. m = Stretch(c, 0, e)
  <2>1. Slice(c.source, 0, 0) = <<>>
    BY Constants, SliceEmpty, 0 \in Nat
  <2>2. Stretch(c, 0, e) = TCPSenderMessage(Wrap32_wrap(0, c.isn), 0 = 0, Slice(c.source, 0, 0), fin)
    BY <1>1, <1>9, Zenon DEF Stretch
  <2>3. (0 = 0) = TRUE
    OBVIOUS
  <2>4. QED
    BY <1>10, <2>1, <2>2, <2>3, Zenon
<1>12. sequence_length(m) = e - 0 /\ m \in Stretches(c)
  BY <1>1, <1>9, <1>11, MessageLength, 0 \in Nat
<1>13. m \in Sendable(c, e)
  BY <1>9, <1>11, <1>12 DEF Sendable
<1>14. PICK out : out = [k \in DOMAIN old \cup {0} |-> IF k \in DOMAIN old THEN old[k] ELSE m]
  OBVIOUS
<1>15. IsFunction(out) /\ DOMAIN out = {0} /\ out[0] = m /\ TileEnd(out, 0) = e
  <2>1. IsFunction(out) /\ DOMAIN out = {0} /\ out[0] = m
    BY <1>4, <1>14 DEF IsFunction
  <2>2. QED
    BY <1>12, <2>1 DEF TileEnd
<1>16. Tiled(c, out, 0, e)
  BY <1>9, <1>11, <1>15 DEF Tiled
<1>17. t = [push_message(s, <<>>, TRUE, fin) EXCEPT !.m_syc_pushed = TRUE, !.m_fin_pushed = fin]
  BY <1>5 DEF push_syn
<1>18. PICK u : u = push_message(s, <<>>, TRUE, fin)
  OBVIOUS
<1>19. u = [s EXCEPT !.m_outstanding_messages_ = out, !.m_send_queue_ = Append(@, m)]
  <2>1. s.m_isn_ = c.isn
    BY DEF Consistent
  <2>2. QED
    BY <1>3, <1>4, <1>10, <1>14, <1>18, <2>1 DEF push_message
<1>20. DOMAIN s = Fields
  BY DEF Consistent
<1>21. t = [u EXCEPT !.m_syc_pushed = TRUE, !.m_fin_pushed = fin]
  BY <1>17, <1>18
<1>22. /\ DOMAIN t = Fields
       /\ t.m_outstanding_messages_ = out
       /\ t.m_send_queue_ = Append(s.m_send_queue_, m)
       /\ t.m_fin_pushed = fin
       /\ t.m_syc_pushed = TRUE
       /\ t.m_isn_ = s.m_isn_
       /\ t.m_retransmission_timer_ = s.m_retransmission_timer_
       /\ t.m_RTO_ms_ = s.m_RTO_ms_
       /\ t.m_consecutive_retransmissions = s.m_consecutive_retransmissions
       /\ t.m_window_left = s.m_window_left
       /\ t.m_window_size = s.m_window_size
  BY <1>19, <1>20, <1>21 DEF Fields
<1>23. Used(t, o) = e
  BY <1>1, <1>8, <1>22 DEF Used, One
<1>24. /\ t.m_send_queue_ \in Seq(Sendable(c, e)) /\ t.m_send_queue_ # <<>>
  <2>1. s.m_send_queue_ = <<>>
    BY <1>3, <1>4 DEF Consistent
  <2>2. t.m_send_queue_ = <<m>>
    BY <1>22, <2>1
  <2>3. QED
    BY <1>13, <2>2
<1>25. Consistent(c, t, o)
  <2>1. fin => o.is_close_ /\ o.bytes_popped_ = Len(c.source)
    BY <1>1, <1>6
  <2>2. QED
    BY <1>4, <1>15, <1>16, <1>22, <1>23, <1>24, <2>1 DEF Consistent
<1>26. Pushed(s, t)
  BY <1>3, <1>4, <1>22, <1>24 DEF Pushed
<1>27. QED
  BY <1>2, <1>8, <1>22, <1>23, <1>25, <1>26

\* Behind SYN, new numbers only inside the window.
LEMMA PushBehindSyn ==
  ASSUME NEW c, Direction(c),
         NEW s, NEW o, Consistent(c, s, o), s.m_syc_pushed,
         NEW r, r = push_behind_syn(s, o)
  PROVE  /\ Consistent(c, r.sender, r.outbound) /\ Pushed(s, r.sender)
         /\ Used(s, o) <= Used(r.sender, r.outbound)
         /\ \/ r.sender.m_fin_pushed = s.m_fin_pushed /\ Used(r.sender, r.outbound) = Used(s, o)
            \/ Used(r.sender, r.outbound) <= window_right(s)
<1>1. CASE s.m_fin_pushed
  <2>1. r.sender = s /\ r.outbound = o
    BY <1>1 DEF push_behind_syn
  <2>2. Pushed(s, s)
    BY DEF Pushed
  <2>3. QED
    BY <2>1, <2>2, Numbers
<1>2. CASE ~s.m_fin_pushed
  <2>1. PICK next \in Nat : next = get_absolute_seqno(s) /\ next = Used(s, o)
    BY Numbers
  <2>2. PICK right \in Nat : right = window_right(s)
    BY DEF window_right, Most, Consistent
  <2>3. PICK room \in Nat : room = Most(window_right(s) - next, 0)
    BY <2>1, <2>2 DEF Most
  <2>4. PICK have \in Nat : have = Len(o.buffer_)
    BY Numbers
  <2>5. PICK len \in Nat : len = Least(Reader_bytes_buffered(o), room)
    BY <2>3, <2>4 DEF Least, Reader_bytes_buffered
  <2>6. PICK fin \in BOOLEAN : fin = is_fin_msg(o, len, room)
    BY DEF is_fin_msg, Consistent, ByteStreams
  <2>7. len <= have /\ len <= room
    BY <2>3, <2>4, <2>5 DEF Least, Reader_bytes_buffered
  <2>8. fin => o.is_close_ /\ len = Len(o.buffer_) /\ len < room
    BY <2>6 DEF is_fin_msg, Reader_bytes_buffered
  <2>9. r = push_pieces(s, o, next, len, fin)
    BY <1>2, <2>1, <2>3, <2>5, <2>6 DEF push_behind_syn, push_data
  <2>10. /\ Consistent(c, r.sender, r.outbound) /\ Pushed(s, r.sender)
         /\ r.sender.m_fin_pushed = fin
         /\ Used(r.sender, r.outbound) = next + len + One(fin)
    <3>1. len <= Len(o.buffer_) /\ (fin => o.is_close_ /\ len = Len(o.buffer_))
      BY <2>4, <2>7, <2>8
    <3>2. next = get_absolute_seqno(s)
      BY <2>1
    <3>3. QED
      BY <1>2, <2>9, <3>1, <3>2, PushPieces
  <2>11. PICK f \in 0 .. 1 : f = One(fin) /\ (f = 1 <=> fin)
    BY DEF One
  <2>12. next + len + f = next \/ next + len + f <= right
    <3>1. room = IF right - next > 0 THEN right - next ELSE 0
      BY <2>1, <2>2, <2>3 DEF Most
    <3>2. QED
      BY <2>7, <2>8, <2>11, <3>1
  <2>13. next + len + f = next => f = 0
    OBVIOUS
  <2>14. CASE next + len + f = next
    <3>1. ~fin
      BY <2>11, <2>13, <2>14
    <3>2. r.sender.m_fin_pushed = s.m_fin_pushed
      BY <1>2, <2>10, <3>1 DEF Consistent
    <3>3. QED
      BY <2>1, <2>10, <2>11, <2>14, <3>2
  <2>15. CASE next + len + f <= right
    BY <2>1, <2>2, <2>10, <2>11, <2>15
  <2>16. QED
    BY <2>12, <2>14, <2>15
<1>3. QED
  BY <1>1, <1>2

\* push.
LEMMA PushIsConsistent ==
  ASSUME NEW c, Direction(c),
         NEW s, NEW o, Consistent(c, s, o), NEW r, r = TCPSender_push(s, o)
  PROVE  /\ Consistent(c, r.sender, r.outbound) /\ Pushed(s, r.sender)
         /\ Used(s, o) <= Used(r.sender, r.outbound)
         /\ \/ Used(r.sender, r.outbound) = Used(s, o)
            \/ Used(r.sender, r.outbound) <= window_right(s)
            \/ /\ Used(s, o) = 0
               /\ Used(r.sender, r.outbound) = 1 + One(r.sender.m_fin_pushed)
<1>1. CASE s.m_syc_pushed
  <2>1. r = push_behind_syn(s, o)
    BY <1>1 DEF TCPSender_push
  <2>2. QED
    BY <1>1, <2>1, PushBehindSyn
<1>2. CASE ~s.m_syc_pushed
  <2>1. PICK t : t = push_syn(s, o)
    OBVIOUS
  <2>2. r = push_behind_syn(t, o)
    BY <1>2, <2>1 DEF TCPSender_push
  <2>3. /\ Consistent(c, t, o) /\ Pushed(s, t) /\ t.m_syc_pushed
        /\ Used(s, o) = 0 /\ Used(t, o) = 1 + One(t.m_fin_pushed)
    BY <1>2, <2>1, PushSyn
  <2>4. /\ Consistent(c, r.sender, r.outbound) /\ Pushed(t, r.sender)
        /\ Used(t, o) <= Used(r.sender, r.outbound)
        /\ \/ r.sender.m_fin_pushed = t.m_fin_pushed /\ Used(r.sender, r.outbound) = Used(t, o)
           \/ Used(r.sender, r.outbound) <= window_right(t)
    BY <2>2, <2>3, PushBehindSyn
  <2>5. Pushed(s, r.sender)
    BY <2>3, <2>4 DEF Pushed
  <2>6. window_right(t) = window_right(s)
    BY <2>3 DEF Pushed, window_right
  <2>7. Used(r.sender, r.outbound) \in Nat
    BY <2>4, Numbers
  <2>8. QED
    BY <2>3, <2>4, <2>5, <2>6, <2>7
<1>3. QED
  BY <1>1, <1>2

(***************************************************************************)
(* The queue and the timer.                                                *)
(***************************************************************************)

\* When nothing waits in the queue, the timer runs exactly while a message is
\* outstanding.
Runs(timer, out, queue) ==
  /\ timer.m_running => out # {}
  /\ queue = <<>> /\ out # {} => timer.m_running

\* t has the fields of s, those of the queue, the timer and the timeout apart.
SameNumbers(s, t) ==
  /\ DOMAIN t = DOMAIN s
  /\ t.m_outstanding_messages_ = s.m_outstanding_messages_
  /\ t.m_fin_pushed = s.m_fin_pushed
  /\ t.m_syc_pushed = s.m_syc_pushed
  /\ t.m_isn_ = s.m_isn_
  /\ t.m_window_left = s.m_window_left
  /\ t.m_window_size = s.m_window_size

\* And a queue of what may be sent.
Requeued(c, s, o, t) ==
  /\ SameNumbers(s, t)
  /\ t.m_send_queue_ \in Seq(Sendable(c, Used(s, o)))
  /\ t.m_send_queue_ # <<>> => DOMAIN s.m_outstanding_messages_ # {}

LEMMA RequeuedIsConsistent ==
  ASSUME NEW c, Direction(c),
         NEW s, NEW o, Consistent(c, s, o), NEW t, Requeued(c, s, o, t)
  PROVE  Consistent(c, t, o) /\ Used(t, o) = Used(s, o)
<1>1. SameNumbers(s, t)
  BY DEF Requeued
<1>2. Used(t, o) = Used(s, o)
  BY <1>1 DEF Used, SameNumbers
<1>3. QED
  BY <1>1, <1>2 DEF Consistent, SameNumbers, Requeued

\* maybe_send takes the first message off the queue and starts the timer.
LEMMA MaybeSendIsConsistent ==
  ASSUME NEW c, Direction(c),
         NEW s, NEW o, Consistent(c, s, o), s.m_send_queue_ # <<>>,
         NEW t, t = maybe_send(s)
  PROVE  /\ Consistent(c, t, o) /\ Used(t, o) = Used(s, o)
         /\ SameNumbers(s, t)
         /\ t.m_send_queue_ = Tail(s.m_send_queue_)
         /\ Len(t.m_send_queue_) = Len(s.m_send_queue_) - 1
         /\ t.m_RTO_ms_ = s.m_RTO_ms_
         /\ t.m_consecutive_retransmissions = s.m_consecutive_retransmissions
         /\ t.m_retransmission_timer_ =
              IF s.m_retransmission_timer_.m_running THEN s.m_retransmission_timer_
              ELSE restart(s.m_RTO_ms_.m_value)
         /\ t.m_retransmission_timer_.m_running
         /\ Runs(t.m_retransmission_timer_, DOMAIN t.m_outstanding_messages_, t.m_send_queue_)
         /\ maybe_send_message(s) \in Sendable(c, Used(s, o))
<1>1. s.m_send_queue_ \in Seq(Sendable(c, Used(s, o))) /\ DOMAIN s = Fields
      /\ DOMAIN s.m_outstanding_messages_ # {}
  BY DEF Consistent
<1>2. /\ Tail(s.m_send_queue_) \in Seq(Sendable(c, Used(s, o)))
      /\ Head(s.m_send_queue_) \in Sendable(c, Used(s, o))
      /\ Len(Tail(s.m_send_queue_)) = Len(s.m_send_queue_) - 1
  BY <1>1, HeadTailProperties
<1>3. PICK timer : timer = IF s.m_retransmission_timer_.m_running THEN s.m_retransmission_timer_
                           ELSE restart(s.m_RTO_ms_.m_value)
  OBVIOUS
<1>4. timer.m_running
  BY <1>3 DEF restart
<1>5. t = [s EXCEPT !.m_send_queue_ = Tail(@), !.m_retransmission_timer_ = timer]
  BY <1>3 DEF maybe_send
<1>6. /\ SameNumbers(s, t)
      /\ t.m_send_queue_ = Tail(s.m_send_queue_)
      /\ t.m_RTO_ms_ = s.m_RTO_ms_
      /\ t.m_consecutive_retransmissions = s.m_consecutive_retransmissions
      /\ t.m_retransmission_timer_ = timer
  <2>1. /\ DOMAIN t = Fields
        /\ t.m_outstanding_messages_ = s.m_outstanding_messages_
        /\ t.m_fin_pushed = s.m_fin_pushed
        /\ t.m_syc_pushed = s.m_syc_pushed
        /\ t.m_isn_ = s.m_isn_
        /\ t.m_window_left = s.m_window_left
        /\ t.m_window_size = s.m_window_size
        /\ t.m_send_queue_ = Tail(s.m_send_queue_)
        /\ t.m_RTO_ms_ = s.m_RTO_ms_
        /\ t.m_consecutive_retransmissions = s.m_consecutive_retransmissions
        /\ t.m_retransmission_timer_ = timer
    BY <1>1, <1>5 DEF Fields
  <2>2. QED
    BY <1>1, <2>1 DEF SameNumbers
<1>7. Consistent(c, t, o) /\ Used(t, o) = Used(s, o)
  <2>1. t.m_send_queue_ \in Seq(Sendable(c, Used(s, o)))
    BY <1>2, <1>6
  <2>2. Requeued(c, s, o, t)
    BY <1>1, <1>6, <2>1 DEF Requeued
  <2>3. QED
    BY <2>2, RequeuedIsConsistent
<1>8. Runs(t.m_retransmission_timer_, DOMAIN t.m_outstanding_messages_, t.m_send_queue_)
  BY <1>1, <1>4, <1>6 DEF Runs, SameNumbers
<1>9. QED
  BY <1>2, <1>3, <1>4, <1>6, <1>7, <1>8 DEF maybe_send_message

\* tick queues the first outstanding message when the timer has expired.
LEMMA TickIsConsistent ==
  ASSUME NEW c, Direction(c),
         NEW s, NEW o, Consistent(c, s, o), s.m_send_queue_ = <<>>,
         Runs(s.m_retransmission_timer_, DOMAIN s.m_outstanding_messages_, s.m_send_queue_),
         NEW ms \in Nat, tick_is_defined(s, ms), NEW t, t = TCPSender_tick(s, ms),
         NEW timer, timer = elapse(s.m_retransmission_timer_, ms),
         NEW rto, rto = IF s.m_window_size > 0 THEN timed_out(s.m_RTO_ms_) ELSE s.m_RTO_ms_
  PROVE  /\ Consistent(c, t, o) /\ Used(t, o) = Used(s, o)
         /\ SameNumbers(s, t)
         /\ Runs(t.m_retransmission_timer_, DOMAIN t.m_outstanding_messages_, t.m_send_queue_)
         /\ IF is_timeout(timer)
            THEN /\ t.m_RTO_ms_ = rto
                 /\ t.m_retransmission_timer_ = restart(rto.m_value)
                 /\ t.m_consecutive_retransmissions =
                      s.m_consecutive_retransmissions + One(s.m_window_size > 0)
            ELSE /\ t.m_RTO_ms_ = s.m_RTO_ms_
                 /\ t.m_retransmission_timer_ = timer
                 /\ t.m_consecutive_retransmissions = s.m_consecutive_retransmissions
<1>1. PICK used \in Nat : used = Used(s, o) /\ used <= Len(c.source) + 2
  BY Numbers
<1>2. DOMAIN s = Fields
  BY DEF Consistent
<1>3. PICK out : out = s.m_outstanding_messages_
  OBVIOUS
<1>4. CASE ~is_timeout(timer)
  <2>1. t = [s EXCEPT !.m_retransmission_timer_ = timer]
    BY <1>4 DEF TCPSender_tick
  <2>2. timer.m_running = s.m_retransmission_timer_.m_running
    BY DEF elapse
  <2>3. /\ SameNumbers(s, t)
        /\ t.m_send_queue_ = s.m_send_queue_
        /\ t.m_retransmission_timer_ = timer
        /\ t.m_RTO_ms_ = s.m_RTO_ms_
        /\ t.m_consecutive_retransmissions = s.m_consecutive_retransmissions
    <3>1. /\ DOMAIN t = Fields
          /\ t.m_outstanding_messages_ = s.m_outstanding_messages_
          /\ t.m_fin_pushed = s.m_fin_pushed
          /\ t.m_syc_pushed = s.m_syc_pushed
          /\ t.m_isn_ = s.m_isn_
          /\ t.m_window_left = s.m_window_left
          /\ t.m_window_size = s.m_window_size
          /\ t.m_send_queue_ = s.m_send_queue_
          /\ t.m_retransmission_timer_ = timer
          /\ t.m_RTO_ms_ = s.m_RTO_ms_
          /\ t.m_consecutive_retransmissions = s.m_consecutive_retransmissions
      BY <1>2, <2>1 DEF Fields
    <3>2. QED
      BY <1>2, <3>1 DEF SameNumbers
  <2>4. s.m_send_queue_ \in Seq(Sendable(c, Used(s, o)))
    BY DEF Consistent
  <2>5. Consistent(c, t, o) /\ Used(t, o) = Used(s, o)
    <3>1. t.m_send_queue_ \in Seq(Sendable(c, Used(s, o)))
      BY <2>3, <2>4
    <3>2. Requeued(c, s, o, t)
      BY <2>3, <3>1 DEF Requeued
    <3>3. QED
      BY <3>2, RequeuedIsConsistent
  <2>6. Runs(t.m_retransmission_timer_, DOMAIN t.m_outstanding_messages_, t.m_send_queue_)
    BY <2>2, <2>3 DEF Runs, SameNumbers
  <2>7. QED
    BY <1>4, <2>3, <2>5, <2>6
<1>5. CASE is_timeout(timer)
  <2>1. DOMAIN out # {}
    BY <1>3, <1>5 DEF tick_is_defined
  <2>2. Tiled(c, out, s.m_window_left, used)
    BY <1>1, <1>3 DEF Consistent
  <2>3. PICK low : low \in DOMAIN out /\ low = Min(DOMAIN out)
    BY <2>1, <2>2, MinProperties DEF Tiled
  <2>4. PICK first : first = out[low]
    OBVIOUS
  <2>5. first \in Sendable(c, used)
    <3>1. PICK e \in Nat : e = TileEnd(out, low) /\ low \in Nat /\ low < e /\ e <= used
      BY <2>2, <2>3 DEF Tiled
    <3>2. first = Stretch(c, low, e)
      BY <2>2, <2>3, <2>4, <3>1 DEF Tiled
    <3>3. e <= Len(c.source) + 2
      BY <1>1, <3>1, Constants
    <3>4. Stretch(c, low, e) \in Stretches(c)
      BY <3>1, <3>3, MessageLength
    <3>5. QED
      BY <3>1, <3>2, <3>4 DEF Sendable
  <2>6. PICK n : n = s.m_consecutive_retransmissions + One(s.m_window_size > 0)
    OBVIOUS
  <2>7. t = [s EXCEPT !.m_send_queue_ = Append(@, first),
                      !.m_RTO_ms_ = rto,
                      !.m_consecutive_retransmissions = n,
                      !.m_retransmission_timer_ = restart(rto.m_value)]
    BY <1>3, <1>5, <2>3, <2>4, <2>6 DEF TCPSender_tick
  <2>8. PICK queue : queue = Append(s.m_send_queue_, first)
    OBVIOUS
  <2>9. queue = <<first>>
    BY <2>8
  <2>10. queue \in Seq(Sendable(c, used)) /\ queue # <<>>
    BY <2>5, <2>9
  <2>11. /\ SameNumbers(s, t)
         /\ t.m_send_queue_ = queue
         /\ t.m_retransmission_timer_ = restart(rto.m_value)
         /\ t.m_RTO_ms_ = rto
         /\ t.m_consecutive_retransmissions = n
    <3>1. /\ DOMAIN t = Fields
          /\ t.m_outstanding_messages_ = s.m_outstanding_messages_
          /\ t.m_fin_pushed = s.m_fin_pushed
          /\ t.m_syc_pushed = s.m_syc_pushed
          /\ t.m_isn_ = s.m_isn_
          /\ t.m_window_left = s.m_window_left
          /\ t.m_window_size = s.m_window_size
          /\ t.m_send_queue_ = queue
          /\ t.m_retransmission_timer_ = restart(rto.m_value)
          /\ t.m_RTO_ms_ = rto
          /\ t.m_consecutive_retransmissions = n
      BY <1>2, <2>7, <2>8 DEF Fields
    <3>2. QED
      BY <1>2, <3>1 DEF SameNumbers
  <2>12. Consistent(c, t, o) /\ Used(t, o) = Used(s, o)
    <3>1. Requeued(c, s, o, t)
      BY <1>1, <1>3, <2>1, <2>10, <2>11 DEF Requeued
    <3>2. QED
      BY <3>1, RequeuedIsConsistent
  <2>13. restart(rto.m_value).m_running
    BY DEF restart
  <2>14. Runs(t.m_retransmission_timer_, DOMAIN t.m_outstanding_messages_, t.m_send_queue_)
    BY <1>3, <2>1, <2>11, <2>13 DEF Runs, SameNumbers
  <2>15. QED
    BY <1>5, <2>6, <2>11, <2>12, <2>14
<1>6. QED
  BY <1>4, <1>5

(***************************************************************************)
(* receive.                                                                *)
(***************************************************************************)

\* The timeout after a receive: as it was, or as it was at first.
SameTimeout(s, t) ==
  /\ t.m_retransmission_timer_ = s.m_retransmission_timer_
  /\ t.m_RTO_ms_ = s.m_RTO_ms_
  /\ t.m_consecutive_retransmissions = s.m_consecutive_retransmissions

FreshTimeout(s, t) ==
  /\ t.m_RTO_ms_ = acknowledged(s.m_RTO_ms_)
  /\ t.m_retransmission_timer_ \in {stop, restart(t.m_RTO_ms_.m_value)}
  /\ t.m_consecutive_retransmissions = 0

\* A number near the window comes back as it was sent.
LEMMA NumberReturns ==
  ASSUME NEW c, Direction(c),
         NEW n \in Nat, n <= Len(c.source) + 3, NEW left \in Nat, left <= Len(c.source) + 2
  PROVE  Wrap32_unwrap(Wrap32_wrap(n, c.isn), c.isn, left) = n
<1>1. PICK L \in Nat, M \in Nat, M64 \in Nat :
        L = Len(c.source) /\ M = Modulus /\ M64 = Modulus64 /\ 2 * (L + 3) < M /\ M < M64
  BY Constants
<1>2. n \in UInt64 /\ left \in UInt64 /\ c.isn \in UInt32
  BY <1>1, Constants DEF UInt64
<1>3. 2 * Distance(n, left) < Modulus
  <2>1. n <= L + 3 /\ left <= L + 2
    BY <1>1
  <2>2. PICK d \in Nat : d = Distance(n, left) /\ d <= L + 3
    <3>1. CASE n > left
      <4>1. Distance(n, left) = n - left
        BY <3>1 DEF Distance
      <4>2. QED
        BY <2>1, <3>1, <4>1
    <3>2. CASE ~(n > left)
      <4>1. Distance(n, left) = left - n
        BY <3>2 DEF Distance
      <4>2. QED
        BY <2>1, <3>2, <4>1
    <3>3. QED
      BY <3>1, <3>2
  <2>3. QED
    BY <1>1, <2>2
<1>4. QED
  BY <1>2, <1>3, RoundTrip

\* receive, of an acknowledgment of what was sent or of one number too many.
LEMMA ReceiveIsConsistent ==
  ASSUME NEW c, Direction(c),
         NEW s, NEW o, Consistent(c, s, o), s.m_send_queue_ = <<>>,
         Runs(s.m_retransmission_timer_, DOMAIN s.m_outstanding_messages_, s.m_send_queue_),
         NEW n \in Nat, n <= Used(s, o) + 1,
         NEW msg, msg.ackno = {Wrap32_wrap(n, c.isn)}, msg.window_size \in Nat,
         NEW t, t = TCPSender_receive(s, msg)
  PROVE  /\ Consistent(c, t, o) /\ Used(t, o) = Used(s, o)
         /\ t.m_send_queue_ = <<>>
         /\ t.m_syc_pushed = s.m_syc_pushed /\ t.m_fin_pushed = s.m_fin_pushed
         /\ SameTimeout(s, t) \/ FreshTimeout(s, t)
         /\ Runs(t.m_retransmission_timer_, DOMAIN t.m_outstanding_messages_, t.m_send_queue_)
         /\ \/ t.m_window_left = s.m_window_left
            \/ t.m_window_left = n /\ s.m_window_left < n /\ n <= Used(s, o)
<1>1. PICK used \in Nat : used = Used(s, o) /\ used <= Len(c.source) + 2
  BY Numbers
<1>2. PICK low \in Nat : low = s.m_window_left /\ low <= used
  BY <1>1, Numbers DEF Consistent
<1>3. Wrap32_unwrap(CHOOSE w \in msg.ackno : TRUE, s.m_isn_, s.m_window_left) = n
  <2>1. n <= Len(c.source) + 3 /\ low <= Len(c.source) + 2
    BY <1>1, <1>2, Constants
  <2>2. (CHOOSE w \in msg.ackno : TRUE) = Wrap32_wrap(n, c.isn)
    OBVIOUS
  <2>3. s.m_isn_ = c.isn
    BY DEF Consistent
  <2>4. QED
    BY <1>2, <2>1, <2>2, <2>3, NumberReturns
<1>4. PICK out : out = s.m_outstanding_messages_
  OBVIOUS
<1>5. Tiled(c, out, low, used)
  BY <1>1, <1>2, <1>4 DEF Consistent
<1>6. PICK acked : acked = Acked(s, n)
  OBVIOUS
<1>7. acked = {k \in DOMAIN out : /\ n <= used
                                  /\ \A j \in DOMAIN out : j <= k => TileEnd(out, j) <= n}
  <2>1. get_absolute_seqno(s) = used
    BY <1>1, Numbers
  <2>2. QED
    BY <1>4, <1>6, <2>1 DEF Acked, wait_for_ackno, TileEnd
<1>8. PICK r : r = IF acked = {} THEN s ELSE successful_receipt(s, n, acked)
  OBVIOUS
<1>9. t = [r EXCEPT !.m_window_size = msg.window_size]
  BY <1>3, <1>6, <1>8 DEF TCPSender_receive
<1>10. PICK size \in Nat : size = msg.window_size
  OBVIOUS
<1>11. DOMAIN s = Fields
  BY DEF Consistent
<1>12. CASE acked = {}
  <2>1. t = [s EXCEPT !.m_window_size = size]
    BY <1>8, <1>9, <1>10, <1>12
  <2>2. /\ DOMAIN t = Fields
        /\ t.m_outstanding_messages_ = s.m_outstanding_messages_
        /\ t.m_send_queue_ = s.m_send_queue_
        /\ t.m_fin_pushed = s.m_fin_pushed
        /\ t.m_syc_pushed = s.m_syc_pushed
        /\ t.m_isn_ = s.m_isn_
        /\ t.m_retransmission_timer_ = s.m_retransmission_timer_
        /\ t.m_RTO_ms_ = s.m_RTO_ms_
        /\ t.m_consecutive_retransmissions = s.m_consecutive_retransmissions
        /\ t.m_window_left = s.m_window_left
        /\ t.m_window_size = size
    BY <1>11, <2>1 DEF Fields
  <2>3. Used(t, o) = Used(s, o)
    BY <2>2 DEF Used
  <2>4. Consistent(c, t, o)
    BY <2>2, <2>3 DEF Consistent
  <2>5. SameTimeout(s, t)
    BY <2>2 DEF SameTimeout
  <2>6. QED
    BY <2>2, <2>3, <2>4, <2>5
<1>13. CASE acked # {}
  <2>1. n <= used /\ acked = {k \in DOMAIN out : \A j \in DOMAIN out : j <= k => TileEnd(out, j) <= n}
    <3>1. n <= used
      BY <1>7, <1>13
    <3>2. QED
      BY <1>7, <3>1
  <2>2. PICK new : new = Restrict(out, DOMAIN out \ acked)
    OBVIOUS
  <2>3. low < n /\ Tiled(c, new, n, used)
    BY <1>5, <1>13, <2>1, <2>2, TilesAcked
  <2>4. DOMAIN new = DOMAIN out \ acked
    BY <2>2 DEF Restrict
  <2>5. PICK rto : rto = acknowledged(s.m_RTO_ms_)
    OBVIOUS
  <2>6. PICK timer : timer = IF DOMAIN new = {} THEN stop ELSE restart(rto.m_value)
    OBVIOUS
  <2>7. timer \in {stop, restart(rto.m_value)} /\ (timer.m_running <=> DOMAIN new # {})
    <3>1. restart(rto.m_value).m_running /\ ~stop.m_running
      BY DEF restart, stop, RetransmissionTimer
    <3>2. CASE DOMAIN new = {}
      BY <2>6, <3>1, <3>2
    <3>3. CASE DOMAIN new # {}
      BY <2>6, <3>1, <3>3
    <3>4. QED
      BY <3>2, <3>3
  <2>8. r = [s EXCEPT !.m_outstanding_messages_ = new,
                      !.m_RTO_ms_ = rto,
                      !.m_consecutive_retransmissions = 0,
                      !.m_window_left = n,
                      !.m_retransmission_timer_ = timer]
    BY <1>4, <1>8, <1>13, <2>2, <2>4, <2>5, <2>6 DEF successful_receipt
  <2>9. t = [r EXCEPT !.m_window_size = size]
    BY <1>9, <1>10
  <2>10. /\ DOMAIN t = Fields
         /\ t.m_outstanding_messages_ = new
         /\ t.m_send_queue_ = s.m_send_queue_
         /\ t.m_fin_pushed = s.m_fin_pushed
         /\ t.m_syc_pushed = s.m_syc_pushed
         /\ t.m_isn_ = s.m_isn_
         /\ t.m_retransmission_timer_ = timer
         /\ t.m_RTO_ms_ = rto
         /\ t.m_consecutive_retransmissions = 0
         /\ t.m_window_left = n
         /\ t.m_window_size = size
    BY <1>11, <2>8, <2>9 DEF Fields
  <2>11. Used(t, o) = used
    BY <1>1, <2>10 DEF Used
  <2>12. Consistent(c, t, o)
    <3>1. Tiled(c, t.m_outstanding_messages_, t.m_window_left, Used(t, o))
      BY <2>3, <2>10, <2>11
    <3>2. t.m_send_queue_ \in Seq(Sendable(c, Used(t, o))) /\ t.m_send_queue_ = <<>>
      BY <2>10, EmptySeq
    <3>3. QED
      BY <2>10, <3>1, <3>2 DEF Consistent
  <2>13. Runs(timer, DOMAIN new, t.m_send_queue_)
    BY <2>7 DEF Runs
  <2>14. FreshTimeout(s, t)
    BY <2>5, <2>7, <2>10 DEF FreshTimeout
  <2>15. QED
    BY <1>1, <1>2, <2>1, <2>3, <2>7, <2>10, <2>11, <2>12, <2>13, <2>14
<1>14. QED
  BY <1>12, <1>13

(***************************************************************************)
(* What push leaves to be pushed: nothing, until the window opens or the   *)
(* program writes.                                                         *)
(***************************************************************************)
Exhausted(s, o) ==
  /\ s.m_syc_pushed
  /\ \/ s.m_fin_pushed
     \/ window_right(s) <= Used(s, o)
     \/ o.buffer_ = <<>> /\ ~o.is_close_

\* What push does not take back.
Onward(s, o, t, r) ==
  /\ r.error_ = o.error_ /\ r.is_close_ = o.is_close_
  /\ o.bytes_popped_ <= r.bytes_popped_
  /\ s.m_syc_pushed => t.m_syc_pushed
  /\ s.m_fin_pushed => t.m_fin_pushed /\ r.bytes_popped_ = o.bytes_popped_
  /\ Len(t.m_send_queue_) \in Nat /\ Len(s.m_send_queue_) <= Len(t.m_send_queue_)

LEMMA PopLeaves ==
  ASSUME NEW c, Direction(c),
         NEW o \in ByteStreams(c.byte, c.capacity), Carries(o, c.source),
         NEW len \in Nat, len <= Len(o.buffer_),
         NEW r, r = Reader_pop(o, len)
  PROVE  /\ r.error_ = o.error_ /\ r.is_close_ = o.is_close_
         /\ r.bytes_popped_ = o.bytes_popped_ + len
         /\ len = Len(o.buffer_) => r.buffer_ = <<>>
         /\ len = 0 => r.buffer_ = o.buffer_
<1>1. r.is_close_ = o.is_close_ /\ r.bytes_popped_ = o.bytes_popped_ + len
  BY PopExactly
<1>2. PICK n, b : n = Len(o.buffer_) /\ n \in Nat /\ b = o.buffer_ /\ b \in Seq(c.byte)
  BY LenProperties DEF ByteStreams
<1>3. Least(len, Reader_bytes_buffered(o)) = len
  BY <1>2 DEF Least, Reader_bytes_buffered
<1>4. r.error_ = o.error_ /\ r.buffer_ = Slice(b, len, n)
  BY <1>2, <1>3 DEF Reader_pop, ByteStreams
<1>5. Slice(b, n, n) = <<>> /\ Slice(b, 0, n) = b
  <2>1. Slice(b, n, n) = <<>>
    BY <1>2, SliceEmpty
  <2>2. Slice(b, 0, n) = b
    BY <1>2, SubSeqFull, 0 + 1 = 1 DEF Slice
  <2>3. QED
    BY <2>1, <2>2
<1>6. QED
  BY <1>1, <1>2, <1>4, <1>5

LEMMA PiecesLeave ==
  ASSUME NEW c, Direction(c),
         NEW s, NEW o, Consistent(c, s, o), s.m_syc_pushed, ~s.m_fin_pushed,
         NEW len \in Nat, len <= Len(o.buffer_),
         NEW fin \in BOOLEAN, fin => o.is_close_ /\ len = Len(o.buffer_),
         NEW next, next = get_absolute_seqno(s),
         NEW t, t = push_pieces(s, o, next, len, fin)
  PROVE  /\ Onward(s, o, t.sender, t.outbound)
         /\ len = 0 /\ ~fin => t.sender.m_send_queue_ = s.m_send_queue_
         /\ len = Len(o.buffer_) => t.outbound.buffer_ = <<>>
         /\ len = 0 => t.outbound.buffer_ = o.buffer_
<1> DEFINE n == Count(len, fin)
           queued == [i \in 1 .. n |-> Piece(s, o, next, len, fin, i - 1)]
<1>1. DOMAIN s = Fields /\ s.m_send_queue_ \in Seq(Sendable(c, Used(s, o)))
      /\ o \in ByteStreams(c.byte, c.capacity) /\ Carries(o, c.source)
  BY DEF Consistent
<1>2. t.sender.m_syc_pushed /\ Consistent(c, t.sender, t.outbound)
  BY PushPieces
<1>3. /\ t.sender.m_send_queue_ = s.m_send_queue_ \o queued
      /\ t.outbound = Reader_pop(o, len)
  BY <1>1 DEF push_pieces, Piece, Count, From, To, Last, Fields, Joined
<1>4. n \in Nat /\ (len = 0 /\ ~fin => n = 0)
  <2>1. Count(len, fin) \in Nat
    BY CountProperties
  <2>2. ASSUME len = 0, ~fin PROVE Count(len, fin) = 0
    BY <2>1, <2>2, CountProperties
  <2>3. QED
    BY <2>1, <2>2
<1> HIDE DEF n
<1>5. PICK T : queued \in Seq(T) /\ Len(queued) = n
  <2>1. PICK T : T = {Piece(s, o, next, len, fin, i - 1) : i \in 1 .. n}
    OBVIOUS
  <2>2. \A i \in 1 .. n : Piece(s, o, next, len, fin, i - 1) \in T
    BY <2>1
  <2>3. queued \in [1 .. n -> T]
    BY <1>4, <2>2
  <2>4. queued \in Seq(T) /\ Len(queued) = n
    BY <1>4, <2>3
  <2> HIDE DEF queued
  <2>5. QED
    BY <2>4
<1>6. PICK q, u, x : /\ q = s.m_send_queue_ /\ u = t.sender.m_send_queue_ /\ x = queued
                     /\ u = q \o x
  BY <1>3
<1>7. PICK S : q \in Seq(S) /\ x \in Seq(S)
  <2>1. PICK R, S : R = Sendable(c, Used(s, o)) /\ S = R \cup T
    OBVIOUS
  <2>2. R \subseteq S /\ T \subseteq S /\ q \in Seq(R) /\ x \in Seq(T)
    BY <1>1, <1>5, <1>6, <2>1
  <2>3. QED
    BY <2>2, SeqMonotonic
<1> HIDE DEF queued
<1>8. Len(u) \in Nat /\ Len(q) <= Len(u) /\ (n = 0 => u = q)
  <2>1. Len(q) \in Nat /\ Len(x) = n
    BY <1>5, <1>6, <1>7, LenProperties
  <2>2. Len(u) = Len(q) + Len(x)
    BY <1>6, <1>7, ConcatProperties
  <2>3. n = 0 => x = <<>>
    BY <1>5, <1>6, <1>7, EmptySeq
  <2>4. n = 0 => u = q
    BY <1>6, <1>7, <2>3, ConcatEmptySeq
  <2>5. QED
    BY <1>4, <2>1, <2>2, <2>4
<1>9. /\ t.outbound.error_ = o.error_ /\ t.outbound.is_close_ = o.is_close_
      /\ t.outbound.bytes_popped_ = o.bytes_popped_ + len
      /\ len = Len(o.buffer_) => t.outbound.buffer_ = <<>>
      /\ len = 0 => t.outbound.buffer_ = o.buffer_
  BY <1>1, <1>3, PopLeaves
<1>10. o.bytes_popped_ <= t.outbound.bytes_popped_
  BY <1>1, <1>9 DEF ByteStreams
<1>11. QED
  BY <1>2, <1>4, <1>6, <1>8, <1>9, <1>10 DEF Onward

LEMMA BehindSynLeaves ==
  ASSUME NEW c, Direction(c),
         NEW s, NEW o, Consistent(c, s, o), s.m_syc_pushed,
         NEW r, r = push_behind_syn(s, o)
  PROVE  /\ Onward(s, o, r.sender, r.outbound)
         /\ Exhausted(r.sender, r.outbound)
         /\ Exhausted(s, o) => r.sender.m_send_queue_ = s.m_send_queue_
<1>1. PICK left \in Nat, size \in Nat, used \in Nat, have \in Nat :
        /\ left = s.m_window_left /\ size = s.m_window_size
        /\ used = Used(s, o) /\ used = get_absolute_seqno(s) /\ have = Len(o.buffer_)
        /\ o.bytes_popped_ \in Nat
  <2>1. s.m_window_left \in Nat /\ s.m_window_size \in Nat
    BY DEF Consistent
  <2>2. /\ Used(s, o) \in Nat /\ Used(s, o) = get_absolute_seqno(s)
        /\ Len(o.buffer_) \in Nat /\ o.bytes_popped_ \in Nat
    BY Numbers
  <2>3. QED
    BY <2>1, <2>2
<1>2. PICK right \in Nat : right = window_right(s)
  BY <1>1 DEF window_right, Most
<1>3. Len(s.m_send_queue_) \in Nat
  BY LenProperties DEF Consistent
<1>4. CASE s.m_fin_pushed
  <2>1. r.sender = s /\ r.outbound = o
    BY <1>4 DEF push_behind_syn
  <2>2. QED
    BY <1>1, <1>3, <1>4, <2>1 DEF Onward, Exhausted
<1>5. CASE ~s.m_fin_pushed
  <2>1. PICK room \in Nat : /\ room = Most(window_right(s) - used, 0)
                            /\ right <= used + room
                            /\ right <= used <=> room = 0
    BY <1>1, <1>2 DEF Most
  <2>2. PICK len \in Nat : /\ len = Least(Reader_bytes_buffered(o), room)
                           /\ len <= have /\ len <= room /\ len \in {have, room}
    BY <1>1, <2>1 DEF Least, Reader_bytes_buffered
  <2>3. PICK fin \in BOOLEAN :
          /\ fin = is_fin_msg(o, len, room)
          /\ fin <=> o.is_close_ /\ len = have /\ len < room
    BY <1>1 DEF is_fin_msg, Reader_bytes_buffered, Consistent, ByteStreams
  <2>4. r = push_pieces(s, o, used, len, fin)
    BY <1>1, <1>5, <2>1, <2>2, <2>3 DEF push_behind_syn, push_data
  <2>5. /\ Consistent(c, r.sender, r.outbound) /\ Pushed(s, r.sender)
        /\ r.sender.m_syc_pushed /\ r.sender.m_fin_pushed = fin
        /\ Used(r.sender, r.outbound) = used + len + One(fin)
    BY <1>1, <1>5, <2>2, <2>3, <2>4, PushPieces
  <2>6. /\ Onward(s, o, r.sender, r.outbound)
        /\ len = 0 /\ ~fin => r.sender.m_send_queue_ = s.m_send_queue_
        /\ len = have => r.outbound.buffer_ = <<>>
        /\ len = 0 => r.outbound.buffer_ = o.buffer_
    BY <1>1, <1>5, <2>2, <2>3, <2>4, PiecesLeave
  <2>7. Exhausted(r.sender, r.outbound)
    <3>1. CASE fin
      BY <2>5, <3>1 DEF Exhausted
    <3>2. CASE ~fin /\ len = room
      <4>1. Used(r.sender, r.outbound) = used + room
        BY <2>5, <3>2 DEF One
      <4>2. window_right(r.sender) = right
        BY <1>2, <2>5 DEF Pushed, window_right
      <4>3. QED
        BY <2>1, <2>5, <4>1, <4>2 DEF Exhausted
    <3>3. CASE ~fin /\ len # room
      <4>1. len = have /\ len < room
        BY <2>2, <3>3
      <4>2. ~o.is_close_ /\ r.outbound.buffer_ = <<>>
        BY <2>3, <2>6, <3>3, <4>1
      <4>3. QED
        BY <2>5, <2>6, <4>2 DEF Exhausted, Onward
    <3>4. QED
      BY <3>1, <3>2, <3>3
  <2>8. ASSUME Exhausted(s, o) PROVE r.sender.m_send_queue_ = s.m_send_queue_
    <3>1. right <= used \/ (o.buffer_ = <<>> /\ ~o.is_close_)
      BY <1>1, <1>2, <1>5, <2>8 DEF Exhausted
    <3>2. CASE right <= used
      <4>1. len = 0 /\ ~fin
        BY <2>1, <2>2, <2>3, <3>2
      <4>2. QED
        BY <2>6, <4>1
    <3>3. CASE o.buffer_ = <<>> /\ ~o.is_close_
      <4>1. have = 0
        BY <1>1, <3>3
      <4>2. len = 0 /\ ~fin
        BY <2>2, <2>3, <3>3, <4>1
      <4>3. QED
        BY <2>6, <4>2
    <3>4. QED
      BY <3>1, <3>2, <3>3
  <2>9. QED
    BY <2>6, <2>7, <2>8
<1>6. QED
  BY <1>4, <1>5

LEMMA SynLeaves ==
  ASSUME NEW c, Direction(c),
         NEW s, NEW o, Consistent(c, s, o), ~s.m_syc_pushed, NEW t, t = push_syn(s, o)
  PROVE  Onward(s, o, t, o)
<1>1. DOMAIN s = Fields /\ ~s.m_fin_pushed /\ o.bytes_popped_ \in Nat
      /\ s.m_send_queue_ \in Seq(Sendable(c, Used(s, o)))
  BY Numbers DEF Consistent
<1>2. PICK m : t.m_send_queue_ = Append(s.m_send_queue_, m)
  BY <1>1 DEF push_syn, push_message, Fields
<1>3. t.m_syc_pushed
  BY PushSyn
<1>4. Len(s.m_send_queue_) \in Nat /\ Len(t.m_send_queue_) = Len(s.m_send_queue_) + 1
  <2>1. PICK S : S = Sendable(c, Used(s, o)) \cup {m}
    OBVIOUS
  <2>2. s.m_send_queue_ \in Seq(S) /\ m \in S
    BY <1>1, <2>1, SeqMonotonic
  <2>3. QED
    BY <1>2, <2>2, AppendProperties, LenProperties
<1>5. QED
  BY <1>1, <1>3, <1>4 DEF Onward

\* push takes nothing back, and a second push would find nothing to do.
LEMMA PushLeaves ==
  ASSUME NEW c, Direction(c),
         NEW s, NEW o, Consistent(c, s, o), NEW r, r = TCPSender_push(s, o)
  PROVE  /\ Onward(s, o, r.sender, r.outbound)
         /\ Exhausted(r.sender, r.outbound)
         /\ Exhausted(s, o) => r.sender.m_send_queue_ = s.m_send_queue_
<1>1. CASE s.m_syc_pushed
  <2>1. r = push_behind_syn(s, o)
    BY <1>1 DEF TCPSender_push
  <2>2. QED
    BY <1>1, <2>1, BehindSynLeaves
<1>2. CASE ~s.m_syc_pushed
  <2>1. PICK t : t = push_syn(s, o)
    OBVIOUS
  <2>2. r = push_behind_syn(t, o)
    BY <1>2, <2>1 DEF TCPSender_push
  <2>3. Consistent(c, t, o) /\ t.m_syc_pushed /\ Onward(s, o, t, o)
    BY <1>2, <2>1, PushSyn, SynLeaves
  <2>4. /\ Onward(t, o, r.sender, r.outbound)
        /\ Exhausted(r.sender, r.outbound)
    BY <2>2, <2>3, BehindSynLeaves
  <2>5. ~s.m_fin_pushed /\ Len(s.m_send_queue_) \in Nat
    BY <1>2, LenProperties DEF Consistent
  <2>6. Onward(s, o, r.sender, r.outbound)
    BY <1>2, <2>3, <2>4, <2>5 DEF Onward
  <2>7. ~Exhausted(s, o)
    BY <1>2 DEF Exhausted
  <2>8. QED
    BY <2>4, <2>6, <2>7
<1>3. QED
  BY <1>1, <1>2

\* Every number of a tiling is in one of its messages.
LEMMA TilesCover ==
  ASSUME NEW c, Direction(c),
         NEW out, NEW low \in Nat, NEW high \in Nat, Tiled(c, out, low, high),
         NEW n \in Nat, low <= n, n < high
  PROVE  \E k \in DOMAIN out : k <= n /\ n < TileEnd(out, k)
<1> DEFINE T == {k \in DOMAIN out : n < TileEnd(out, k)}
<1>1. DOMAIN out # {}
  BY DEF Tiled
<1>2. PICK top \in DOMAIN out : TileEnd(out, top) = high
  BY <1>1 DEF Tiled
<1>3. T \in SUBSET Nat /\ T # {}
  BY <1>2 DEF Tiled
<1>4. PICK k \in T : \A j \in T : k <= j
  <2> HIDE DEF T
  <2>1. QED
    BY <1>3, MinProperties
<1>5. k \in DOMAIN out /\ k \in Nat /\ n < TileEnd(out, k)
  BY <1>3, <1>4
<1>6. k <= n
  <2>1. SUFFICES ASSUME ~(k <= n) PROVE FALSE
    OBVIOUS
  <2>2. ~(k <= low)
    BY <1>5, <2>1
  <2>3. PICK j \in DOMAIN out : TileEnd(out, j) = k
    BY <1>5, <2>2 DEF Tiled
  <2>4. j \in Nat /\ j < k
    BY <1>5, <2>3 DEF Tiled
  <2>5. j \in T
    BY <1>5, <2>1, <2>3
  <2>6. k <= j
    BY <1>4, <2>5
  <2>7. QED
    BY <1>5, <2>4, <2>6
<1>7. QED
  BY <1>5, <1>6
=============================================================================
