----------------------------- MODULE DataLemmas -----------------------------
(***************************************************************************)
(* Lemmas that the proofs about the components cite: about numbers (the    *)
(* least and the greatest of a set, powers of two, division, the numbers   *)
(* that wrap), about slices of a string of bytes, and about the operations *)
(* of a ByteStream and of a Reassembler.                                   *)
(***************************************************************************)
EXTENDS Reassembler, Wrap32, FiniteSetTheorems, SequenceTheorems,
        WellFoundedInduction, TLAPS

\* f is a function, whatever its domain.
IsFunction(f) == f = [x \in DOMAIN f |-> f[x]]

(***************************************************************************)
(* Sets of natural numbers.                                                *)
(***************************************************************************)

\* A non-empty set of naturals has a least element.
LEMMA MinProperties ==
  ASSUME NEW T \in SUBSET Nat, T # {}
  PROVE  Min(T) \in T /\ \A y \in T : Min(T) <= y
<1>1. \E x \in T : \A y \in T : ~ (<<y, x>> \in OpToRel(<, Nat))
  BY NatLessThanWellFounded, WFMin, Zenon
<1>2. \E x \in T : \A y \in T : x <= y
  <2>1. PICK x \in T : \A y \in T : ~ (<<y, x>> \in OpToRel(<, Nat))
    BY <1>1
  <2>2. \A y \in T : ~ (y < x)
    BY <2>1 DEF OpToRel
  <2>3. QED
    BY <2>2
<1>3. QED
  BY <1>2, Zenon DEF Min

\* So has a bounded one a greatest element.
LEMMA MaxProperties ==
  ASSUME NEW T \in SUBSET Nat, T # {}, NEW bound \in Nat, \A y \in T : y <= bound
  PROVE  Max(T) \in T /\ \A y \in T : y <= Max(T)
<1> DEFINE U == {n \in Nat : \A y \in T : y <= n}
<1>1. U \in SUBSET Nat /\ U # {}
  BY bound \in U
<1>2. PICK u \in U : \A n \in U : u <= n
  <2> HIDE DEF U
  <2>1. QED
    BY <1>1, MinProperties
<1>3. u \in T
  <2>1. SUFFICES ASSUME u \notin T PROVE FALSE
    OBVIOUS
  <2>2. u # 0
    <3>1. PICK y \in T : TRUE
      OBVIOUS
    <3>2. y \in Nat /\ y <= u /\ y # u
      BY <1>2, <2>1, <3>1
    <3>3. QED
      BY <3>2
  <2>3. u - 1 \in U
    BY <2>1, <2>2
  <2>4. QED
    BY <1>2, <2>3
<1>4. \E x \in T : \A y \in T : x >= y
  BY <1>2, <1>3
<1>5. Max(T) \in T /\ \A y \in T : Max(T) >= y
  <2> HIDE DEF U
  <2>1. QED
    BY <1>4, Zenon DEF Max
<1>6. QED
  BY <1>5

\* One more element doubles the number of subsets.
LEMMA PowersOfTwo ==
  ASSUME NEW n \in Nat
  PROVE  2 ^ n \in Nat /\ 2 ^ n > 0 /\ 2 ^ (n + 1) = 2 ^ n + 2 ^ n
<1> DEFINE A == 1 .. n
           x == n + 1
           With == {B \cup {x} : B \in SUBSET A}
<1>1. IsFiniteSet(A) /\ Cardinality(A) = n
  BY FS_Interval
<1>2. x \notin A /\ A \cup {x} = 1 .. n + 1
  OBVIOUS
<1>3. IsFiniteSet(1 .. n + 1) /\ Cardinality(1 .. n + 1) = n + 1
  BY FS_Interval
<1> HIDE DEF A, x
<1>4. IsFiniteSet(SUBSET A) /\ Cardinality(SUBSET A) = 2 ^ n
  BY <1>1, FS_SUBSET
<1>5. Cardinality(SUBSET (A \cup {x})) = 2 ^ (n + 1)
  BY <1>2, <1>3, FS_SUBSET
<1>6. SUBSET (A \cup {x}) = (SUBSET A) \cup With
  <2>1. ASSUME NEW C \in SUBSET (A \cup {x}) PROVE C \in (SUBSET A) \cup With
    <3>1. CASE x \in C
      <4>1. C = (C \ {x}) \cup {x} /\ C \ {x} \in SUBSET A
        BY <3>1
      <4>2. QED
        BY <4>1
    <3>2. CASE x \notin C
      BY <3>2
    <3>3. QED
      BY <3>1, <3>2
  <2>2. QED
    BY <2>1
<1>7. (SUBSET A) \cap With = {}
  BY <1>2
<1>8. ExistsBijection(SUBSET A, With)
  <2> DEFINE f == [B \in SUBSET A |-> B \cup {x}]
  <2>1. f \in [SUBSET A -> With]
    OBVIOUS
  <2>2. ASSUME NEW B \in SUBSET A, NEW C \in SUBSET A, f[B] = f[C] PROVE B = C
    BY <1>2, <2>2, Zenon
  <2>3. \A C \in With : \E B \in SUBSET A : f[B] = C
    OBVIOUS
  <2>4. f \in Bijection(SUBSET A, With)
    BY <2>1, <2>2, <2>3, Zenon DEF Bijection, Injection, Surjection, IsInjective
  <2>5. QED
    BY <2>4, Zenon DEF ExistsBijection
<1>9. IsFiniteSet(With) /\ Cardinality(With) = Cardinality(SUBSET A)
  BY <1>4, <1>8, FS_Bijection
<1>10. Cardinality((SUBSET A) \cap With) = 0
  BY <1>7, FS_EmptySet
<1>11. 2 ^ n \in Nat
  BY <1>4, FS_CardinalityType
<1>12. 2 ^ (n + 1) = 2 ^ n + 2 ^ n
  <2> HIDE DEF With
  <2>1. PICK p \in Nat : p = 2 ^ n
    BY <1>11, Zenon
  <2>2. Cardinality((SUBSET A) \cup With) = p + p - 0
    <3>1. Cardinality((SUBSET A) \cup With) =
            Cardinality(SUBSET A) + Cardinality(With) - Cardinality((SUBSET A) \cap With)
      BY <1>4, <1>9, FS_Union, Zenon
    <3>2. Cardinality(SUBSET A) = p /\ Cardinality(With) = p
      BY <1>4, <1>9, <2>1, Zenon
    <3>3. QED
      BY <1>10, <3>1, <3>2, Zenon
  <2>3. p + p - 0 = p + p
    OBVIOUS
  <2>4. QED
    BY <1>5, <1>6, <2>1, <2>2, <2>3, Zenon
<1>13. 2 ^ n # 0
  BY <1>4, FS_EmptySet
<1>14. QED
  BY <1>11, <1>12, <1>13

LEMMA PowerZero == 2 ^ 0 = 1
<1> DEFINE A == {}
<1>1. IsFiniteSet(A) /\ Cardinality(A) = 0
  BY FS_EmptySet
<1>2. Cardinality(SUBSET A) = 2 ^ 0
  BY <1>1, FS_SUBSET, Zenon
<1>3. SUBSET A = {{}}
  OBVIOUS
<1>4. Cardinality({{}}) = 1
  BY FS_Singleton
<1>5. QED
  BY <1>2, <1>3, <1>4, Zenon

(***************************************************************************)
(* Division by a positive number.                                          *)
(***************************************************************************)
LEMMA DivMod ==
  ASSUME NEW m \in Nat, m > 0, NEW n \in Int
  PROVE  /\ n % m \in 0 .. m - 1
         /\ n \div m \in Int
         /\ n = m * (n \div m) + (n % m)
OBVIOUS

LEMMA ModUnique ==
  ASSUME NEW m \in Nat, m > 0, NEW q \in Int, NEW r \in 0 .. m - 1
  PROVE  (m * q + r) % m = r
OBVIOUS

LEMMA DivUnique ==
  ASSUME NEW m \in Nat, m > 0, NEW q \in Int, NEW r \in 0 .. m - 1
  PROVE  (m * q + r) \div m = q
OBVIOUS

LEMMA ModSmall ==
  ASSUME NEW m \in Nat, m > 0, NEW r \in 0 .. m - 1
  PROVE  r % m = r
OBVIOUS

LEMMA ModNext ==
  ASSUME NEW m \in Nat, m > 0, NEW r \in m .. 2 * m - 1
  PROVE  r % m = r - m
<1>1. r = m * 1 + (r - m) /\ r - m \in 0 .. m - 1
  OBVIOUS
<1>2. (m * 1 + (r - m)) % m = r - m
  BY <1>1, ModUnique
<1>3. QED
  BY <1>1, <1>2

LEMMA ModNegative ==
  ASSUME NEW m \in Nat, m > 0, NEW r \in -m .. -1
  PROVE  r % m = r + m
<1>1. r = m * (-1) + (r + m) /\ r + m \in 0 .. m - 1
  OBVIOUS
<1>2. (m * (-1) + (r + m)) % m = r + m
  BY <1>1, ModUnique
<1>3. QED
  BY <1>1, <1>2

\* A different multiple is at least m away.
LEMMA MultiplesApart ==
  ASSUME NEW m \in Nat, NEW p \in Int, NEW q \in Int
  PROVE  /\ p > q => m * p >= m * q + m
         /\ p < q => m * p <= m * q - m
OBVIOUS

\* The numbers that wrap to raw_value are one residue class.
LEMMA WrapIsResidue ==
  ASSUME NEW raw \in UInt32, NEW zero \in UInt32, NEW v \in Nat
  PROVE  Wrap32_wrap(v, zero) = raw <=> v % Modulus = (raw - zero) % Modulus
<1>1. Modulus \in Nat /\ Modulus > 0
  BY ModulusAssumption
<1>2. PICK x \in 0 .. Modulus - 1 : x = v % Modulus
  BY <1>1, DivMod
<1>3. raw \in 0 .. Modulus - 1 /\ zero \in 0 .. Modulus - 1
  BY DEF UInt32
<1>4. (x + zero) % Modulus = IF x + zero < Modulus THEN x + zero ELSE x + zero - Modulus
  <2>1. CASE x + zero < Modulus
    BY <1>1, <1>3, <2>1, ModSmall, x + zero \in 0 .. Modulus - 1
  <2>2. CASE ~(x + zero < Modulus)
    BY <1>1, <1>3, <2>2, ModNext, x + zero \in Modulus .. 2 * Modulus - 1
  <2>3. QED
    BY <2>1, <2>2
<1>5. (raw - zero) % Modulus = IF raw >= zero THEN raw - zero ELSE raw - zero + Modulus
  <2>1. CASE raw >= zero
    BY <1>1, <1>3, <2>1, ModSmall, raw - zero \in 0 .. Modulus - 1
  <2>2. CASE ~(raw >= zero)
    BY <1>1, <1>3, <2>2, ModNegative, raw - zero \in -Modulus .. -1
  <2>3. QED
    BY <2>1, <2>2
<1>6. QED
  BY <1>1, <1>2, <1>3, <1>4, <1>5 DEF Wrap32_wrap

\* The promise of the header, at every checkpoint.
LEMMA UnwrapClosest ==
  ASSUME NEW raw \in UInt32, NEW zero \in UInt32, NEW cp \in UInt64
  PROVE  ClosestTo(Wrap32_unwrap(raw, zero, cp), raw, zero, cp)
<1>1. Modulus \in Nat /\ Modulus > 0 /\ Modulus64 \in Nat /\ Modulus64 > Modulus
  BY ModulusAssumption
<1>2. PICK d \in 0 .. Modulus - 1 : d = (raw - zero) % Modulus
  BY <1>1, DivMod, raw - zero \in Int DEF UInt32
<1>3. cp \in Nat /\ cp < Modulus64
  BY <1>1 DEF UInt64
<1>4. PICK q \in Int, c \in 0 .. Modulus - 1 : cp = Modulus * q + c /\ c = cp % Modulus
  <2>1. /\ cp % Modulus \in 0 .. Modulus - 1
        /\ cp \div Modulus \in Int
        /\ cp = Modulus * (cp \div Modulus) + (cp % Modulus)
    BY <1>1, <1>3, DivMod
  <2>2. QED
    BY <2>1
<1>5. PICK k \in Int : Modulus64 = Modulus * k
  BY <1>1, ModulusAssumption, DivMod
<1>6. PICK low \in Int : low = Modulus * q
  BY <1>1
<1>7. 0 <= low /\ low + Modulus <= Modulus64
  <2>1. q >= 0
    <3>1. q < 0 => Modulus * q <= Modulus * 0 - Modulus
      BY <1>1, MultiplesApart
    <3>2. QED
      BY <1>1, <1>3, <1>4, <3>1
  <2>2. q < k
    <3>1. q > k => Modulus * q >= Modulus * k + Modulus
      BY <1>1, MultiplesApart
    <3>2. QED
      BY <1>1, <1>3, <1>4, <1>5, <3>1
  <2>3. 0 < q => Modulus * q >= Modulus * 0 + Modulus
    BY <1>1, MultiplesApart
  <2>4. Modulus * k >= Modulus * q + Modulus
    BY <1>1, <2>2, MultiplesApart
  <2>5. QED
    BY <1>1, <1>5, <1>6, <2>1, <2>3, <2>4
\* The residue class, as seen from r = roundpoint_1.
<1>8. PICK r \in Nat : r = d + low
  BY <1>7
<1>9. r < Modulus64 /\ cp = low + c
  BY <1>1, <1>4, <1>6, <1>7, <1>8
<1>10. \A v \in UInt64 : Wrap32_wrap(v, zero) = raw => v = r \/ v >= r + Modulus \/ v <= r - Modulus
  <2> SUFFICES ASSUME NEW v \in UInt64, Wrap32_wrap(v, zero) = raw
               PROVE  v = r \/ v >= r + Modulus \/ v <= r - Modulus
    OBVIOUS
  <2>1. v \in Nat
    BY <1>1 DEF UInt64
  <2>2. v % Modulus = d
    BY <1>2, <2>1, WrapIsResidue
  <2>3. PICK p \in Int : v = Modulus * p + d
    <3>1. v \div Modulus \in Int /\ v = Modulus * (v \div Modulus) + (v % Modulus)
      BY <1>1, <2>1, DivMod
    <3>2. QED
      BY <2>2, <3>1
  <2>4. /\ p > q => Modulus * p >= Modulus * q + Modulus
        /\ p < q => Modulus * p <= Modulus * q - Modulus
    BY <1>1, MultiplesApart
  <2>5. QED
    BY <1>1, <1>6, <1>8, <2>1, <2>3, <2>4
<1>11. \A e \in {-1, 0, 1} : r + e * Modulus \in UInt64 => Wrap32_wrap(r + e * Modulus, zero) = raw
  <2> SUFFICES ASSUME NEW e \in {-1, 0, 1}, r + e * Modulus \in UInt64
               PROVE  Wrap32_wrap(r + e * Modulus, zero) = raw
    OBVIOUS
  <2>1. r + e * Modulus = Modulus * (q + e) + d /\ q + e \in Int
    BY <1>1, <1>6, <1>8
  <2>2. (Modulus * (q + e) + d) % Modulus = d
    BY <1>1, <2>1, ModUnique
  <2>3. r + e * Modulus \in Nat
    BY <1>1 DEF UInt64
  <2>4. QED
    BY <1>2, <2>1, <2>2, <2>3, WrapIsResidue
<1>12. /\ r \in UInt64 => Wrap32_wrap(r, zero) = raw
       /\ r + Modulus \in UInt64 => Wrap32_wrap(r + Modulus, zero) = raw
       /\ r - Modulus \in UInt64 => Wrap32_wrap(r - Modulus, zero) = raw
  <2>1. r + 0 * Modulus = r /\ r + 1 * Modulus = r + Modulus /\ r + (-1) * Modulus = r - Modulus
    BY <1>1
  <2>2. QED
    BY <1>11, <2>1
<1>13. r \in UInt64
  BY <1>1, <1>8, <1>9 DEF UInt64
<1> DEFINE r2 == IF r <= cp THEN (r + Modulus) % Modulus64 ELSE (r - Modulus) % Modulus64
<1>14. Wrap32_unwrap(raw, zero, cp) = IF Distance(r, cp) < Distance(r2, cp) THEN r ELSE r2
  <2>1. ((raw - zero) % Modulus) + (cp - (cp % Modulus)) = r
    BY <1>1, <1>2, <1>4, <1>6, <1>8, <1>9
  <2>2. QED
    BY <2>1 DEF Wrap32_unwrap
<1>15. CASE r <= cp /\ r + Modulus < Modulus64
  <2>1. r2 = r + Modulus
    BY <1>1, <1>15, ModSmall, r + Modulus \in 0 .. Modulus64 - 1
  <2>2. r2 \in UInt64 /\ Wrap32_wrap(r2, zero) = raw
    BY <1>1, <1>12, <1>15, <2>1 DEF UInt64
  <2>3. cp < r + Modulus
    BY <1>1, <1>8, <1>9
  <2>4. QED
    BY <1>1, <1>3, <1>10, <1>12, <1>13, <1>14, <1>15, <2>1, <2>2, <2>3
       DEF ClosestTo, Distance, UInt64
<1>16. CASE r <= cp /\ ~(r + Modulus < Modulus64)
  <2>1. r2 = r + Modulus - Modulus64
    BY <1>1, <1>9, <1>16, ModNext, r + Modulus \in Modulus64 .. 2 * Modulus64 - 1
  <2>2. Distance(r, cp) < Distance(r2, cp)
    BY <1>1, <1>3, <1>8, <1>16, <2>1 DEF Distance
  <2>3. QED
    BY <1>1, <1>3, <1>10, <1>12, <1>13, <1>14, <1>16, <2>2
       DEF ClosestTo, Distance, UInt64
<1>17. CASE ~(r <= cp) /\ r - Modulus >= 0
  <2>1. r2 = r - Modulus
    BY <1>1, <1>9, <1>17, ModSmall, r - Modulus \in 0 .. Modulus64 - 1
  <2>2. r2 \in UInt64 /\ Wrap32_wrap(r2, zero) = raw
    BY <1>1, <1>9, <1>12, <1>17, <2>1 DEF UInt64
  <2>3. r - Modulus < cp
    BY <1>1, <1>8, <1>9
  <2>4. QED
    BY <1>1, <1>3, <1>10, <1>12, <1>13, <1>14, <1>17, <2>1, <2>2, <2>3
       DEF ClosestTo, Distance, UInt64
<1>18. CASE ~(r <= cp) /\ ~(r - Modulus >= 0)
  <2>1. r2 = r - Modulus + Modulus64
    BY <1>1, <1>9, <1>18, ModNegative, r - Modulus \in -Modulus64 .. -1
  <2>2. Distance(r, cp) < Distance(r2, cp)
    BY <1>1, <1>3, <1>8, <1>18, <2>1 DEF Distance
  <2>3. QED
    BY <1>1, <1>3, <1>10, <1>12, <1>13, <1>14, <1>18, <2>2
       DEF ClosestTo, Distance, UInt64
<1>19. QED
  BY <1>15, <1>16, <1>17, <1>18

\* unwrap undoes wrap for a number within half the range of the checkpoint:
\* any other number of its class is at least half the range away.
LEMMA RoundTrip ==
  ASSUME NEW zero \in UInt32, NEW n \in UInt64, NEW cp \in UInt64,
         2 * Distance(n, cp) < Modulus
  PROVE  Wrap32_unwrap(Wrap32_wrap(n, zero), zero, cp) = n
<1>1. Modulus \in Nat /\ Modulus > 0 /\ Modulus64 \in Nat
  BY ModulusAssumption
<1>2. n \in Nat /\ cp \in Nat
  BY <1>1 DEF UInt64
<1>3. PICK raw \in UInt32 : raw = Wrap32_wrap(n, zero)
  <2>1. n % Modulus \in 0 .. Modulus - 1
    BY <1>1, <1>2, DivMod
  <2>2. (n % Modulus) + zero \in Int
    BY <1>1, <2>1 DEF UInt32
  <2>3. ((n % Modulus) + zero) % Modulus \in 0 .. Modulus - 1
    BY <1>1, <2>2, DivMod
  <2>4. QED
    BY <2>3 DEF Wrap32_wrap, UInt32
<1>4. PICK u \in UInt64 : u = Wrap32_unwrap(raw, zero, cp)
  BY UnwrapClosest DEF ClosestTo
<1>5. Wrap32_wrap(u, zero) = raw /\ Distance(u, cp) <= Distance(n, cp)
  BY <1>3, <1>4, UnwrapClosest DEF ClosestTo
<1>6. u \in Nat
  BY <1>1 DEF UInt64
<1>7. u % Modulus = n % Modulus
  <2>1. u % Modulus = (raw - zero) % Modulus
    BY <1>5, <1>6, WrapIsResidue
  <2>2. n % Modulus = (raw - zero) % Modulus
    BY <1>2, <1>3, WrapIsResidue
  <2>3. QED
    BY <2>1, <2>2
<1>8. PICK p \in Int, q \in Int : u - n = Modulus * p - Modulus * q
  <2>1. /\ u \div Modulus \in Int /\ u = Modulus * (u \div Modulus) + (u % Modulus)
        /\ u % Modulus \in 0 .. Modulus - 1
    BY <1>1, <1>6, DivMod
  <2>2. /\ n \div Modulus \in Int /\ n = Modulus * (n \div Modulus) + (n % Modulus)
        /\ n % Modulus \in 0 .. Modulus - 1
    BY <1>1, <1>2, DivMod
  <2>3. u - n = Modulus * (u \div Modulus) - Modulus * (n \div Modulus)
    BY <1>1, <1>7, <2>1, <2>2
  <2>4. QED
    BY <2>1, <2>2, <2>3
<1>9. /\ p > q => Modulus * p >= Modulus * q + Modulus
      /\ p < q => Modulus * p <= Modulus * q - Modulus
  BY <1>1, MultiplesApart
<1>10. u = n \/ u >= n + Modulus \/ u <= n - Modulus
  BY <1>1, <1>2, <1>6, <1>8, <1>9
<1>11. u = n
  BY <1>1, <1>2, <1>5, <1>6, <1>10 DEF Distance
<1>12. QED
  BY <1>3, <1>4, <1>11

(***************************************************************************)
(* Strings of bytes.                                                       *)
(***************************************************************************)

\* The length and the bytes of a slice.
LEMMA SliceProperties ==
  ASSUME NEW S, NEW s \in Seq(S), NEW a \in Nat, NEW b \in a .. Len(s)
  PROVE  /\ Slice(s, a, b) \in Seq(S)
         /\ Len(Slice(s, a, b)) = b - a
         /\ \A i \in 1 .. b - a : Slice(s, a, b)[i] = s[a + i]
<1>1. \A i \in a + 1 .. b : s[i] \in S
  BY ElementOfSeq, LenProperties, a + 1 \in Nat
<1>2. QED
  BY <1>1, SubSeqProperties, LenProperties DEF Slice

\* An empty slice.
LEMMA SliceEmpty ==
  ASSUME NEW S, NEW s \in Seq(S), NEW a \in Nat
  PROVE  Slice(s, a, a) = <<>>
BY SubSeqEmpty, a + 1 \in Int, a \in Int, a < a + 1 DEF Slice

\* Two slices that meet are one.
LEMMA SliceConcat ==
  ASSUME NEW S, NEW s \in Seq(S),
         NEW a \in Nat, NEW b \in Nat, NEW c \in Nat, a <= b, b <= c, c <= Len(s)
  PROVE  Joined(Slice(s, a, b), Slice(s, b, c)) = Slice(s, a, c)
<1>1. /\ a + 1 \in 1 .. Len(s) + 1
      /\ b \in (a + 1) - 1 .. Len(s)
      /\ c \in b .. Len(s)
  BY LenProperties
<1>2. QED
  BY <1>1, ConcatAdjacentSubSeq DEF Slice, Joined

\* A slice of a slice is a slice.
LEMMA SliceOfSlice ==
  ASSUME NEW S, NEW s \in Seq(S),
         NEW a \in Nat, NEW b \in Nat, a <= b, b <= Len(s),
         NEW m \in Nat, NEW n \in Nat, m <= n, n <= b - a
  PROVE  Slice(Slice(s, a, b), m, n) = Slice(s, a + m, a + n)
<1> DEFINE t == Slice(s, a, b)
<1>1. t \in Seq(S) /\ Len(t) = b - a /\ \A i \in 1 .. b - a : t[i] = s[a + i]
  BY SliceProperties, b \in a .. Len(s), LenProperties
<1>2. /\ Slice(t, m, n) \in Seq(S)
      /\ Len(Slice(t, m, n)) = n - m
      /\ \A i \in 1 .. n - m : Slice(t, m, n)[i] = t[m + i]
  <2>1. n \in m .. Len(t)
    BY <1>1
  <2> HIDE DEF t
  <2>2. QED
    BY <1>1, <2>1, SliceProperties, Zenon
<1> DEFINE x == a + m
           y == a + n
<1>3. /\ Slice(s, x, y) \in Seq(S)
      /\ Len(Slice(s, x, y)) = n - m
      /\ \A i \in 1 .. n - m : Slice(s, x, y)[i] = s[a + m + i]
  <2>1. x \in Nat /\ y \in x .. Len(s) /\ y - x = n - m
    BY LenProperties
  <2>2. \A i \in 1 .. n - m : x + i = a + m + i
    OBVIOUS
  <2> HIDE DEF x, y
  <2>3. /\ Slice(s, x, y) \in Seq(S)
        /\ Len(Slice(s, x, y)) = y - x
        /\ \A i \in 1 .. y - x : Slice(s, x, y)[i] = s[x + i]
    BY <2>1, SliceProperties
  <2>4. QED
    BY <2>1, <2>2, <2>3
<1>4. \A i \in 1 .. n - m : Slice(t, m, n)[i] = Slice(s, a + m, a + n)[i]
  BY <1>1, <1>2, <1>3
<1>5. QED
  BY <1>2, <1>3, <1>4, SeqEqual


\* All of it about one string, which is how the proofs use it.
SliceAlgebra(s, S) ==
  /\ s \in Seq(S)
  /\ Len(s) \in Nat
  /\ \A a, b \in Nat : a <= b /\ b <= Len(s) =>
       Slice(s, a, b) \in Seq(S) /\ Len(Slice(s, a, b)) = b - a
  /\ \A a \in Nat : Slice(s, a, a) = <<>>
  /\ \A a, b, c \in Nat : a <= b /\ b <= c /\ c <= Len(s) =>
       Joined(Slice(s, a, b), Slice(s, b, c)) = Slice(s, a, c)
  /\ \A a, b, m, n \in Nat : a <= b /\ b <= Len(s) /\ m <= n /\ a + n <= b =>
       Slice(Slice(s, a, b), m, n) = Slice(s, a + m, a + n)

LEMMA SliceFacts ==
  ASSUME NEW S, NEW s \in Seq(S)
  PROVE  SliceAlgebra(s, S)
<1>1. Len(s) \in Nat
  BY LenProperties
<1>2. ASSUME NEW a \in Nat, NEW b \in Nat, a <= b, b <= Len(s)
      PROVE  Slice(s, a, b) \in Seq(S) /\ Len(Slice(s, a, b)) = b - a
  BY <1>1, <1>2, SliceProperties, b \in a .. Len(s)
<1>3. ASSUME NEW a \in Nat, NEW b \in Nat, NEW m \in Nat, NEW n \in Nat,
             a <= b, b <= Len(s), m <= n, a + n <= b
      PROVE  Slice(Slice(s, a, b), m, n) = Slice(s, a + m, a + n)
  BY <1>1, <1>3, SliceOfSlice, n <= b - a
<1>4. \A a, b, c \in Nat : a <= b /\ b <= c /\ c <= Len(s) =>
        Joined(Slice(s, a, b), Slice(s, b, c)) = Slice(s, a, c)
  BY SliceConcat
<1>5. \A a \in Nat : Slice(s, a, a) = <<>>
  BY SliceEmpty
<1>6. QED
  BY <1>1, <1>2, <1>3, <1>4, <1>5 DEF SliceAlgebra

(***************************************************************************)
(* The operations of a stream that carries src.                            *)
(***************************************************************************)

\* The buffer of such a stream.
LEMMA CarriesBuffer ==
  ASSUME NEW Byte, NEW capacity \in Nat, NEW src \in Seq(Byte),
         NEW s \in ByteStreams(Byte, capacity), Carries(s, src)
  PROVE  /\ s.bytes_popped_ \in Nat /\ s.bytes_pushed_ \in Nat
         /\ Len(s.buffer_) = s.bytes_pushed_ - s.bytes_popped_
         /\ Len(s.buffer_) <= capacity
         /\ s.capacity_ = capacity
<1>1. SliceAlgebra(src, Byte)
  BY SliceFacts
<1>2. QED
  BY <1>1 DEF SliceAlgebra, ByteStreams, Carries

\* A slice that starts where the stream ends extends it, up to the capacity.
LEMMA PushCarries ==
  ASSUME NEW Byte, NEW capacity \in Nat, NEW src \in Seq(Byte),
         NEW s \in ByteStreams(Byte, capacity), Carries(s, src),
         NEW end \in Nat, s.bytes_pushed_ <= end, end <= Len(src),
         NEW t, t = Writer_push(s, Slice(src, s.bytes_pushed_, end))
  PROVE  /\ t \in ByteStreams(Byte, capacity)
         /\ Carries(t, src)
         /\ t.bytes_pushed_ = Least(end, s.bytes_popped_ + capacity)
         /\ t.bytes_popped_ = s.bytes_popped_
         /\ t.is_close_ = s.is_close_
<1>1. SliceAlgebra(src, Byte)
  BY SliceFacts
<1>2. PICK a \in Nat, b \in Nat : a = s.bytes_popped_ /\ b = s.bytes_pushed_
  BY DEF ByteStreams
<1>3. /\ a <= b /\ b <= Len(src) /\ b - a <= capacity /\ s.buffer_ = Slice(src, a, b)
      /\ b <= end /\ end <= Len(src) /\ Len(src) \in Nat
      /\ Len(s.buffer_) = b - a /\ s.capacity_ = capacity
  BY <1>1, <1>2, CarriesBuffer DEF ByteStreams, Carries, SliceAlgebra
<1>4. PICK c \in Nat : c = Least(end, a + capacity)
  BY DEF Least
<1>5. /\ b <= c /\ c <= end /\ c <= a + capacity
      /\ Least(end - b, capacity - (b - a)) = c - b
  BY <1>3, <1>4 DEF Least
<1>6. Len(Slice(src, b, end)) = end - b
  BY <1>1, <1>3 DEF SliceAlgebra
<1>7. PICK n \in Nat : n = c - b
  BY <1>5
<1>8. t = [s EXCEPT !.buffer_ = Joined(@, Slice(Slice(src, b, end), 0, n)), !.bytes_pushed_ = @ + n]
  BY <1>2, <1>3, <1>5, <1>6, <1>7 DEF Writer_push, Writer_available_capacity
<1>9. Slice(Slice(src, b, end), 0, n) = Slice(src, b, c)
  <2>1. 0 \in Nat /\ 0 <= n /\ b + n <= end /\ b + 0 = b /\ b + n = c
    BY <1>5, <1>7
  <2>2. Slice(Slice(src, b, end), 0, n) = Slice(src, b + 0, b + n)
    BY <1>1, <1>3, <2>1, SMTT(30) DEF SliceAlgebra
  <2>3. QED
    BY <2>1, <2>2
<1>10. Joined(Slice(src, a, b), Slice(src, b, c)) = Slice(src, a, c) /\ Slice(src, a, c) \in Seq(Byte)
  <2>1. a <= c /\ c <= Len(src)
    BY <1>3, <1>5
  <2>2. Slice(src, a, c) \in Seq(Byte)
    BY <1>1, <2>1 DEF SliceAlgebra
  <2>3. Joined(Slice(src, a, b), Slice(src, b, c)) = Slice(src, a, c)
    <3>1. a <= b /\ b <= c
      BY <1>3, <1>5
    <3>2. QED
      BY <1>1, <2>1, <3>1 DEF SliceAlgebra
  <2>4. QED
    BY <2>2, <2>3
<1>11. t = [s EXCEPT !.buffer_ = Slice(src, a, c), !.bytes_pushed_ = c]
  <2>1. s.bytes_pushed_ + n = c
    BY <1>2, <1>5, <1>7
  <2>2. QED
    BY <1>3, <1>8, <1>9, <1>10, <2>1
<1>12. /\ t \in ByteStreams(Byte, capacity)
       /\ t.buffer_ = Slice(src, a, c) /\ t.bytes_pushed_ = c /\ t.bytes_popped_ = a
       /\ t.is_close_ = s.is_close_ /\ t.capacity_ = capacity
  BY <1>2, <1>3, <1>10, <1>11 DEF ByteStreams
<1>13. a <= c /\ c <= Len(src) /\ c - a <= capacity
  BY <1>3, <1>5
<1>14. QED
  BY <1>2, <1>4, <1>12, <1>13 DEF Carries

\* Reading takes the next slice and leaves the rest.
LEMMA ReadCarries ==
  ASSUME NEW Byte, NEW capacity \in Nat, NEW src \in Seq(Byte),
         NEW s \in ByteStreams(Byte, capacity), Carries(s, src),
         NEW len \in Nat,
         NEW t, t = read_rest(s, len)
  PROVE  /\ t \in ByteStreams(Byte, capacity)
         /\ Carries(t, src)
         /\ s.bytes_popped_ <= t.bytes_popped_
         /\ t.bytes_pushed_ = s.bytes_pushed_
         /\ t.is_close_ = s.is_close_
         /\ read_out(s, len) = Slice(src, s.bytes_popped_, t.bytes_popped_)
<1>1. SliceAlgebra(src, Byte)
  BY SliceFacts
<1>2. PICK a \in Nat, b \in Nat : a = s.bytes_popped_ /\ b = s.bytes_pushed_
  BY DEF ByteStreams
<1>3. /\ a <= b /\ b <= Len(src) /\ b - a <= capacity /\ s.buffer_ = Slice(src, a, b)
      /\ Len(src) \in Nat /\ Len(s.buffer_) = b - a /\ s.capacity_ = capacity
  BY <1>1, <1>2, CarriesBuffer DEF ByteStreams, Carries, SliceAlgebra
<1>d. PICK d \in Nat : d = b - a
  BY <1>3
<1>4. PICK k \in Nat : k = Least(len, d)
  BY DEF Least
<1>5. PICK c \in Nat : c = a + k
  OBVIOUS
<1>6. k <= d /\ a <= c /\ c <= b /\ a + d = b
  BY <1>3, <1>4, <1>5, <1>d DEF Least
<1>7. Slice(Slice(src, a, b), 0, k) = Slice(src, a, c)
  <2>1. 0 \in Nat /\ 0 <= k /\ a + k <= b /\ a + 0 = a /\ a + k = c
    BY <1>5, <1>6
  <2>2. Slice(Slice(src, a, b), 0, k) = Slice(src, a + 0, a + k)
    <3>1. a <= b /\ b <= Len(src)
      BY <1>3
    <3>2. QED
      BY <1>1, <2>1, <3>1 DEF SliceAlgebra
  <2>3. QED
    BY <2>1, <2>2
<1>8. Slice(Slice(src, a, b), k, d) = Slice(src, c, b)
  <2>1. a + d <= b
    BY <1>6
  <2>2. Slice(Slice(src, a, b), k, d) = Slice(src, a + k, a + d)
    BY <1>1, <1>3, <1>6, <2>1, SMTT(30) DEF SliceAlgebra
  <2>3. QED
    BY <1>5, <1>6, <2>2
<1>9. /\ read_out(s, len) = Slice(src, a, c)
      /\ t = [s EXCEPT !.buffer_ = Slice(src, c, b), !.bytes_popped_ = c]
  BY <1>2, <1>3, <1>4, <1>5, <1>d, <1>7, <1>8 DEF read_out, read_rest, Reader_pop, Reader_bytes_buffered
<1>10. Slice(src, c, b) \in Seq(Byte)
  BY <1>1, <1>3, <1>6 DEF SliceAlgebra
<1>11. /\ t \in ByteStreams(Byte, capacity)
       /\ t.buffer_ = Slice(src, c, b) /\ t.bytes_pushed_ = b /\ t.bytes_popped_ = c
       /\ t.is_close_ = s.is_close_ /\ t.capacity_ = capacity
  BY <1>2, <1>3, <1>9, <1>10 DEF ByteStreams
<1>12. b - c <= capacity
  BY <1>3, <1>6
<1>13. QED
  BY <1>2, <1>3, <1>6, <1>9, <1>11, <1>12 DEF Carries

LEMMA CloseCarries ==
  ASSUME NEW Byte, NEW capacity \in Nat, NEW src \in Seq(Byte),
         NEW s \in ByteStreams(Byte, capacity), Carries(s, src),
         NEW t, t = Writer_close(s)
  PROVE  /\ t \in ByteStreams(Byte, capacity)
         /\ Carries(t, src)
         /\ t.bytes_pushed_ = s.bytes_pushed_
         /\ t.bytes_popped_ = s.bytes_popped_
         /\ t.is_close_
BY DEF Writer_close, ByteStreams, Carries

(***************************************************************************)
(* The operations of a Reassembler whose blocks hold the bytes of one      *)
(* source: what the two walks over m_buf keep and cut, what                *)
(* insert_to_buffer stores, and what write_to_stream moves to the stream.  *)
(***************************************************************************)

\* The blocks of buf hold the bytes of src at their keys, none before index
\* low, and follow one another.
Blocks(buf, src, low) ==
  /\ DOMAIN buf \in SUBSET Nat
  /\ IsFunction(buf)
  /\ \A k \in DOMAIN buf :
       /\ low <= k
       /\ End(buf, k) \in Nat /\ k < End(buf, k) /\ End(buf, k) <= Len(src)
       /\ buf[k] = Slice(src, k, End(buf, k))
  /\ \A j, k \in DOMAIN buf : j < k => End(buf, j) <= k

\* The byte of index p is in a block.
Stored(buf, p) == \E k \in DOMAIN buf : k <= p /\ p < End(buf, k)

LEMMA BeforeProperties ==
  ASSUME NEW buf, DOMAIN buf \in SUBSET Nat, NEW k \in Nat, \E i \in DOMAIN buf : i < k
  PROVE  /\ Before(buf, k) \in DOMAIN buf /\ Before(buf, k) < k
         /\ \A j \in DOMAIN buf : j < k => j <= Before(buf, k)
<1> DEFINE T == {j \in DOMAIN buf : j < k}
<1>1. T \in SUBSET Nat /\ T # {} /\ \A j \in T : j <= k
  OBVIOUS
<1>2. Max(T) \in T /\ \A j \in T : j <= Max(T)
  <2> HIDE DEF T
  <2>1. QED
    BY <1>1, MaxProperties
<1>3. QED
  BY <1>2 DEF Before

\* The last key at or below p, which is where the walks of the code turn back.
LEMMA KeyAt ==
  ASSUME NEW buf, DOMAIN buf \in SUBSET Nat, NEW p \in Nat, NEW i \in DOMAIN buf, i <= p
  PROVE  \E k \in DOMAIN buf : k <= p /\ \A j \in DOMAIN buf : j <= p => j <= k
<1>1. PICK k : k = Before(buf, p + 1)
  OBVIOUS
<1>2. i < p + 1 /\ p + 1 \in Nat
  BY i \in Nat
<1>3. /\ k \in DOMAIN buf /\ k < p + 1
      /\ \A j \in DOMAIN buf : j < p + 1 => j <= k
  BY <1>1, <1>2, BeforeProperties
<1>4. QED
  BY <1>3

\* The key after k.
LEMMA NextKey ==
  ASSUME NEW buf, DOMAIN buf \in SUBSET Nat,
         NEW k \in DOMAIN buf, NEW m \in DOMAIN buf, k < m
  PROVE  \E n \in DOMAIN buf : /\ k < n /\ n <= m /\ Before(buf, n) = k
                               /\ \A j \in DOMAIN buf : k < j => n <= j
<1> DEFINE T == {j \in DOMAIN buf : k < j}
<1>1. T \in SUBSET Nat /\ T # {}
  OBVIOUS
<1>2. PICK n : n = Min(T)
  OBVIOUS
<1>3. n \in T /\ \A j \in T : n <= j
  <2> HIDE DEF T
  <2>1. QED
    BY <1>1, <1>2, MinProperties
<1>4. /\ Before(buf, n) \in DOMAIN buf /\ Before(buf, n) < n
      /\ \A j \in DOMAIN buf : j < n => j <= Before(buf, n)
  BY <1>3, BeforeProperties
<1>5. Before(buf, n) = k
  BY <1>3, <1>4
<1>6. QED
  BY <1>3, <1>5

(***************************************************************************)
(* Where the data of a substring is cut.                                   *)
(***************************************************************************)

\* No block crosses the end of the cut data, and the cut leaves out nothing
\* that fits and is not stored.
LEMMA ClampedEndProperties ==
  ASSUME NEW src, NEW buf, NEW low \in Nat, Blocks(buf, src, low),
         NEW accept_end \in Nat, NEW end_index \in Nat,
         NEW c, c = ClampedEnd(buf, accept_end, end_index)
  PROVE  /\ c \in Nat /\ c <= end_index
         /\ \A k \in DOMAIN buf : c <= k \/ End(buf, k) <= c
         /\ \A p \in Nat : c <= p /\ p < end_index => accept_end <= p \/ Stored(buf, p)
<1> DEFINE below == {k \in DOMAIN buf : k < end_index}
<1>1. CASE below = {}
  <2>1. c = Least(accept_end, end_index)
    BY <1>1 DEF ClampedEnd
  <2>2. \A k \in DOMAIN buf : k \in Nat /\ end_index <= k
    BY <1>1 DEF Blocks
  <2>3. QED
    BY <2>1, <2>2 DEF Least
<1>2. CASE below # {}
  <2>1. PICK m : m = Max(below)
    OBVIOUS
  <2>2. /\ m \in DOMAIN buf /\ m < end_index
        /\ \A k \in DOMAIN buf : k < end_index => k <= m
    <3>1. below \in SUBSET Nat /\ \A k \in below : k <= end_index
      BY DEF Blocks
    <3>2. m \in below /\ \A k \in below : k <= m
      <4> HIDE DEF below
      <4>1. QED
        BY <1>2, <2>1, <3>1, MaxProperties
    <3>3. QED
      BY <3>2
  <2>3. c = IF End(buf, m) >= end_index THEN m ELSE end_index
    BY <1>2, <2>1 DEF ClampedEnd
  <2>4. /\ \A k \in DOMAIN buf : k \in Nat /\ End(buf, k) \in Nat
        /\ \A j, k \in DOMAIN buf : j < k => End(buf, j) <= k
        /\ \A k \in DOMAIN buf : k < End(buf, k)
    BY DEF Blocks
  <2>5. CASE End(buf, m) >= end_index
    <3>1. c = m
      BY <2>3, <2>5
    <3>2. QED
      BY <2>2, <2>4, <2>5, <3>1 DEF Stored
  <2>6. CASE ~(End(buf, m) >= end_index)
    <3>1. c = end_index
      BY <2>3, <2>6
    <3>2. QED
      BY <2>2, <2>4, <2>6, <3>1
  <2>7. QED
    BY <2>5, <2>6
<1>3. QED
  BY <1>1, <1>2

\* The rest of the data begins in a gap, at or behind the bytes written, and
\* what is cut off in front of it is stored.  The blocks lie behind index low,
\* the next byte to write.
LEMMA ClampedBeginProperties ==
  ASSUME NEW src, Len(src) \in Nat, NEW buf, NEW low \in Nat, Blocks(buf, src, low + 1),
         NEW first_index \in Nat,
         NEW from, from = Most(low, first_index),
         NEW b, b = ClampedBegin(buf, first_index, from)
  PROVE  /\ b \in Nat /\ from <= b /\ b \notin DOMAIN buf
         /\ \A k \in DOMAIN buf : k < b => End(buf, k) <= b
         /\ \A p \in Nat : from <= p /\ p < b => Stored(buf, p)
<1> DEFINE at_or_below == {k \in DOMAIN buf : k <= first_index}
           start == IF at_or_below # {} THEN Max(at_or_below) ELSE Min(DOMAIN buf)
           skipped == {k \in DOMAIN buf :
                         k >= start /\ \A j \in DOMAIN buf :
                           start < j /\ j <= k => j <= End(buf, Before(buf, j))}
<1>1. b = IF DOMAIN buf = {} \/ start > from \/ End(buf, start) <= from THEN from
          ELSE End(buf, Max(skipped))
  BY DEF ClampedBegin
<1>2. from \in Nat /\ low <= from /\ first_index <= from /\ from \in {low, first_index}
  BY DEF Most
<1>3. /\ \A k \in DOMAIN buf : k \in Nat /\ End(buf, k) \in Nat
      /\ \A j, k \in DOMAIN buf : j < k => End(buf, j) <= k
      /\ \A k \in DOMAIN buf : k < End(buf, k) /\ low < k
      /\ DOMAIN buf \in SUBSET Nat
  BY DEF Blocks
<1>4. CASE DOMAIN buf = {}
  BY <1>1, <1>2, <1>4
<1>5. ASSUME DOMAIN buf # {}
      PROVE  /\ start \in DOMAIN buf
             /\ \A k \in DOMAIN buf : k < start => k <= first_index
             /\ \A k \in DOMAIN buf : k <= first_index => k <= start
             /\ start <= first_index \/ \A k \in DOMAIN buf : start <= k /\ first_index < k
  <2>1. CASE at_or_below = {}
    <3>1. start = Min(DOMAIN buf) /\ \A k \in DOMAIN buf : first_index < k
      BY <2>1, <1>3
    <3>2. start \in DOMAIN buf /\ \A k \in DOMAIN buf : start <= k
      <4> HIDE DEF start
      <4>1. QED
        BY <1>3, <1>5, <3>1, MinProperties
    <3>3. QED
      <4> HIDE DEF start
      <4>1. QED
        BY <3>1, <3>2, <1>3
  <2>2. CASE at_or_below # {}
    <3>1. start = Max(at_or_below)
      BY <2>2
    <3>2. at_or_below \in SUBSET Nat /\ \A k \in at_or_below : k <= first_index
      BY <1>3
    <3>3. start \in at_or_below /\ \A k \in at_or_below : k <= start
      <4> HIDE DEF start, at_or_below
      <4>1. QED
        BY <2>2, <3>1, <3>2, MaxProperties
    <3>4. QED
      <4> HIDE DEF start
      <4>1. QED
        BY <3>3, <1>3
  <2>3. QED
    BY <2>1, <2>2
<1> HIDE DEF start
<1>6. CASE DOMAIN buf # {} /\ (start > from \/ End(buf, start) <= from)
  <2>1. b = from
    BY <1>1, <1>6
  <2>2. CASE start > from
    BY <1>2, <1>3, <1>5, <1>6, <2>1, <2>2
  <2>3. CASE End(buf, start) <= from
    <3>1. start < from
      BY <1>2, <1>3, <1>5, <1>6, <2>3
    <3>2. from = first_index
      BY <1>2, <1>3, <1>5, <1>6, <3>1
    <3>3. QED
      BY <1>2, <1>3, <1>5, <1>6, <2>1, <2>3, <3>1, <3>2
  <2>4. QED
    BY <1>6, <2>2, <2>3
<1>7. CASE DOMAIN buf # {} /\ ~(start > from \/ End(buf, start) <= from)
  <2>1. start \in DOMAIN buf /\ start <= from /\ from < End(buf, start)
    BY <1>2, <1>3, <1>5, <1>7
  <2>2. PICK m : m = Max(skipped)
    OBVIOUS
  <2>3. b = End(buf, m)
    BY <1>1, <1>7, <2>2
  <2>4. m \in skipped /\ \A k \in skipped : k <= m
    <3>1. start \in skipped
      BY <1>3, <2>1
    <3>2. skipped \in SUBSET Nat /\ \A k \in skipped : k <= Len(src)
      BY <1>3 DEF Blocks
    <3>3. QED
      <4> HIDE DEF skipped
      <4>1. QED
        BY <2>2, <3>1, <3>2, MaxProperties
  <2>5. /\ m \in DOMAIN buf /\ start <= m
        /\ \A j \in DOMAIN buf : start < j /\ j <= m => j <= End(buf, Before(buf, j))
    BY <2>4
  <2>6. \A k \in DOMAIN buf : m < k =>
          \E j \in DOMAIN buf : start < j /\ j <= k /\ End(buf, Before(buf, j)) < j
    <3>1. SUFFICES ASSUME NEW k \in DOMAIN buf, m < k,
                          \A j \in DOMAIN buf : start < j /\ j <= k => j <= End(buf, Before(buf, j))
                   PROVE  FALSE
      <4>1. \A j \in DOMAIN buf : start < j => Before(buf, j) \in DOMAIN buf
        BY <1>3, <2>1, BeforeProperties
      <4>2. QED
        BY <1>3, <4>1
    <3>2. k \in skipped
      BY <1>3, <2>1, <2>5, <3>1
    <3>3. QED
      BY <1>3, <2>4, <3>1, <3>2
  <2> HIDE DEF skipped
  <2>7. b \in Nat /\ from < b
    BY <1>2, <1>3, <2>1, <2>3, <2>5
  <2>8. \A k \in DOMAIN buf : m < k => b < k
    <3>1. SUFFICES ASSUME NEW k \in DOMAIN buf, m < k PROVE b < k
      OBVIOUS
    <3>2. PICK j \in DOMAIN buf : start < j /\ j <= k /\ End(buf, Before(buf, j)) < j
      BY <2>6, <3>1
    <3>3. m < j
      <4>1. Before(buf, j) \in DOMAIN buf
        BY <1>3, <2>1, <3>2, BeforeProperties
      <4>2. QED
        BY <1>3, <2>5, <3>2, <4>1
    <3>4. Before(buf, j) \in DOMAIN buf /\ m <= Before(buf, j)
      BY <1>3, <2>5, <3>3, BeforeProperties
    <3>5. End(buf, m) <= End(buf, Before(buf, j))
      BY <1>3, <2>5, <3>4
    <3>6. QED
      BY <1>3, <2>3, <2>5, <3>2, <3>4, <3>5
  <2>9. \A k \in DOMAIN buf : k <= m => End(buf, k) <= b /\ k < b
    BY <1>3, <2>3, <2>5
  <2>10. ASSUME NEW p \in Nat, from <= p, p < b
         PROVE  Stored(buf, p)
    <3>1. PICK k \in DOMAIN buf : k <= p /\ \A j \in DOMAIN buf : j <= p => j <= k
      <4>1. start <= p
        BY <1>2, <1>3, <2>1, <2>10
      <4>2. QED
        BY <1>3, <2>1, <4>1, KeyAt
    <3>2. start <= k
      BY <1>2, <1>3, <2>1, <2>10, <3>1
    <3>3. CASE k = m
      BY <2>3, <2>10, <3>1, <3>3 DEF Stored
    <3>4. CASE m < k
      BY <1>3, <2>7, <2>8, <2>10, <3>1, <3>4
    <3>5. CASE k < m
      <4>1. PICK n \in DOMAIN buf : k < n /\ n <= m /\ Before(buf, n) = k
        BY <1>3, <2>5, <3>5, NextKey
      <4>2. n <= End(buf, k) /\ p < n
        BY <1>3, <2>1, <2>5, <3>1, <3>2, <4>1
      <4>3. QED
        BY <1>3, <2>10, <3>1, <4>2 DEF Stored
    <3>6. QED
      BY <1>3, <2>5, <3>3, <3>4, <3>5
  <2>11. QED
    BY <1>2, <1>3, <2>5, <2>7, <2>8, <2>9, <2>10
<1>8. QED
  BY <1>4, <1>6, <1>7

(***************************************************************************)
(* Storing a block.                                                        *)
(***************************************************************************)

\* A block of the bytes from b up to e would begin in a gap of buf, and no block
\* crosses its end.
Fits(buf, b, e) ==
  /\ b \notin DOMAIN buf
  /\ \A k \in DOMAIN buf : k < b => End(buf, k) <= b
  /\ \A k \in DOMAIN buf : e <= k \/ End(buf, k) <= e

\* The blocks at gone are the ones that would start inside it.
Inside(buf, gone, b, e) ==
  /\ \A k \in gone : k \in DOMAIN buf /\ b < k /\ End(buf, k) <= e
  /\ \A k \in DOMAIN buf \ gone : b < k => e <= k

\* new is buf without the blocks at gone, and with this block at b.
HasBlock(new, buf, gone, b, block) ==
  /\ DOMAIN new = (DOMAIN buf \ gone) \cup {b}
  /\ IsFunction(new)
  /\ new[b] = block
  /\ \A k \in DOMAIN buf \ gone : new[k] = buf[k]

\* A block that fits may take the place of those inside it.
LEMMA KeptBlocks ==
  ASSUME NEW Byte, NEW src \in Seq(Byte), NEW buf, NEW low \in Nat, Blocks(buf, src, low),
         NEW b \in Nat, NEW e \in Nat, low <= b, b < e, e <= Len(src), Fits(buf, b, e),
         NEW gone, Inside(buf, gone, b, e),
         NEW kept, HasBlock(kept, buf, gone, b, Slice(src, b, e))
  PROVE  /\ Blocks(kept, src, low)
         /\ \A p \in Nat : Stored(buf, p) \/ (b <= p /\ p < e) => Stored(kept, p)
<1>1. /\ \A k \in DOMAIN buf : k \in Nat /\ End(buf, k) \in Nat
      /\ \A j, k \in DOMAIN buf : j < k => End(buf, j) <= k
      /\ \A k \in DOMAIN buf : k < End(buf, k) /\ low <= k /\ End(buf, k) <= Len(src)
      /\ \A k \in DOMAIN buf : buf[k] = Slice(src, k, End(buf, k))
  BY DEF Blocks
<1>2. Len(Slice(src, b, e)) = e - b
  BY SliceFacts DEF SliceAlgebra
<1>3. End(kept, b) = e /\ kept[b] = Slice(src, b, e)
  BY <1>2 DEF End, HasBlock
<1>4. \A k \in DOMAIN buf \ gone : End(kept, k) = End(buf, k) /\ kept[k] = buf[k]
  BY DEF End, HasBlock
<1>5. /\ DOMAIN kept = (DOMAIN buf \ gone) \cup {b}
      /\ DOMAIN kept \in SUBSET Nat
      /\ IsFunction(kept)
  BY <1>1 DEF HasBlock
<1>6. /\ \A k \in gone : b < k /\ End(buf, k) <= e
      /\ \A k \in DOMAIN buf \ gone : b < k => e <= k
      /\ \A k \in DOMAIN buf : k < b => End(buf, k) <= b
      /\ b \notin DOMAIN buf
  BY DEF Inside, Fits
<1>7. ASSUME NEW k \in DOMAIN kept
      PROVE  /\ low <= k
             /\ End(kept, k) \in Nat /\ k < End(kept, k) /\ End(kept, k) <= Len(src)
             /\ kept[k] = Slice(src, k, End(kept, k))
  <2>1. CASE k = b
    BY <1>3, <2>1
  <2>2. CASE k # b
    BY <1>1, <1>4, <1>5, <2>2
  <2>3. QED
    BY <2>1, <2>2
<1>8. ASSUME NEW j \in DOMAIN kept, NEW k \in DOMAIN kept, j < k
      PROVE  End(kept, j) <= k
  <2>1. CASE j = b
    BY <1>3, <1>5, <1>6, <1>8, <2>1
  <2>2. CASE j # b /\ k = b
    BY <1>4, <1>5, <1>6, <1>8, <2>2
  <2>3. CASE j # b /\ k # b
    BY <1>1, <1>4, <1>5, <1>8, <2>3
  <2>4. QED
    BY <2>1, <2>2, <2>3
<1>9. ASSUME NEW p \in Nat, Stored(buf, p) \/ (b <= p /\ p < e)
      PROVE  Stored(kept, p)
  <2>1. CASE b <= p /\ p < e
    BY <1>3, <1>5, <2>1 DEF Stored
  <2>2. CASE Stored(buf, p) /\ ~(b <= p /\ p < e)
    <3>1. PICK k \in DOMAIN buf : k <= p /\ p < End(buf, k)
      BY <2>2 DEF Stored
    <3>2. k \notin gone
      BY <1>1, <1>6, <2>2, <3>1
    <3>3. QED
      BY <1>4, <1>5, <3>1, <3>2 DEF Stored
  <2>3. QED
    BY <1>9, <2>1, <2>2
<1>10. Blocks(kept, src, low)
  BY <1>5, <1>7, <1>8 DEF Blocks
<1>11. QED
  BY <1>9, <1>10

\* Which is what storing the data and then _delete_overlapping do.
LEMMA OverlappedInside ==
  ASSUME NEW buf, \A k \in DOMAIN buf : k \in Nat /\ End(buf, k) \in Nat,
         NEW b \in Nat, NEW e \in Nat, Fits(buf, b, e),
         NEW block, Len(block) = e - b,
         NEW new, HasBlock(new, buf, {}, b, block)
  PROVE  /\ Inside(buf, Overlapped(new, b), b, e)
         /\ HasBlock(Restrict(new, DOMAIN new \ Overlapped(new, b)),
                     buf, Overlapped(new, b), b, block)
<1> DEFINE gone == Overlapped(new, b)
           kept == Restrict(new, DOMAIN new \ gone)
<1>1. /\ DOMAIN new = DOMAIN buf \cup {b}
      /\ new[b] = block
      /\ \A k \in DOMAIN buf : new[k] = buf[k]
  BY DEF HasBlock
<1>2. End(new, b) = e /\ \A k \in DOMAIN buf : End(new, k) = End(buf, k)
  BY <1>1 DEF End
<1>3. \A k \in DOMAIN buf : e <= k \/ End(buf, k) <= e
  BY DEF Fits
<1>4. ASSUME NEW k \in gone
      PROVE  k \in DOMAIN buf /\ b < k /\ End(buf, k) <= e
  <2>1. /\ k \in DOMAIN new /\ k > b
        /\ \A j \in DOMAIN new : b < j /\ j <= k => End(new, j) <= e
    BY <1>2 DEF Overlapped
  <2>2. k \in DOMAIN buf
    BY <1>1, <2>1
  <2>3. k \in Nat
    BY <2>2
  <2>4. QED
    BY <1>2, <2>1, <2>2, <2>3
<1>5. ASSUME NEW k \in DOMAIN buf \ gone, b < k
      PROVE  e <= k
  <2>1. PICK j \in DOMAIN new : b < j /\ j <= k /\ ~(End(new, j) <= e)
    BY <1>1, <1>2, <1>5 DEF Overlapped
  <2>2. j \in DOMAIN buf
    BY <1>1, <2>1
  <2>3. e <= j
    BY <1>2, <1>3, <2>1, <2>2
  <2>4. k \in Nat /\ j \in Nat
    BY <2>2
  <2>5. QED
    BY <2>1, <2>3, <2>4
<1>6. /\ DOMAIN kept = DOMAIN new \ gone
      /\ IsFunction(kept)
      /\ \A k \in DOMAIN kept : kept[k] = new[k]
  BY DEF Restrict, IsFunction
<1> HIDE DEF gone, kept
<1>7. HasBlock(kept, buf, gone, b, block)
  BY <1>1, <1>4, <1>6 DEF HasBlock
<1>8. Inside(buf, gone, b, e)
  BY <1>4, <1>5 DEF Inside
<1>9. QED
  BY <1>7, <1>8 DEF gone, kept

\* The cuts make the data a block that fits.
LEMMA ClampedFits ==
  ASSUME NEW src, Len(src) \in Nat, NEW buf, NEW low \in Nat, Blocks(buf, src, low + 1),
         NEW first_index \in Nat, NEW accept_end \in Nat, NEW end_index \in Nat,
         NEW e, e = ClampedEnd(buf, accept_end, end_index),
         NEW b, b = ClampedBegin(buf, first_index, Most(low, first_index))
  PROVE  /\ b \in Nat /\ e \in Nat /\ low <= b /\ first_index <= b /\ e <= end_index
         /\ Fits(buf, b, e)
         /\ \A p \in Nat : /\ low <= p /\ first_index <= p /\ p < end_index /\ p < accept_end
                           /\ p < b \/ e <= p
                           => Stored(buf, p)
<1>1. PICK from : from = Most(low, first_index)
  OBVIOUS
<1>2. from \in Nat /\ low <= from /\ first_index <= from /\ from \in {low, first_index}
  BY <1>1 DEF Most
<1>3. /\ b \in Nat /\ from <= b /\ b \notin DOMAIN buf
      /\ \A k \in DOMAIN buf : k < b => End(buf, k) <= b
      /\ \A p \in Nat : from <= p /\ p < b => Stored(buf, p)
  BY <1>1, ClampedBeginProperties
<1>4. /\ e \in Nat /\ e <= end_index
      /\ \A k \in DOMAIN buf : e <= k \/ End(buf, k) <= e
      /\ \A p \in Nat : e <= p /\ p < end_index => accept_end <= p \/ Stored(buf, p)
  BY ClampedEndProperties, low + 1 \in Nat
<1>5. Fits(buf, b, e)
  BY <1>3, <1>4 DEF Fits
<1>6. QED
  BY <1>2, <1>3, <1>4, <1>5

\* _insert_to_buffer keeps the blocks in order and on src, gives up nothing it
\* held, and of the data holds whatever fits the available capacity.
LEMMA InsertToBuffer ==
  ASSUME NEW Byte, NEW src \in Seq(Byte), NEW r, NEW low \in Nat, NEW len \in Nat,
         DOMAIN r = {"m_buf", "m_bytes_pending", "m_stream_end"},
         Blocks(r.m_buf, src, low + 1),
         NEW first_index \in Nat, NEW end_index \in Nat,
         first_index <= end_index, end_index <= Len(src),
         NEW t, t = insert_to_buffer(r, low, len, first_index, Slice(src, first_index, end_index))
  PROVE  /\ DOMAIN t = {"m_buf", "m_bytes_pending", "m_stream_end"}
         /\ t.m_stream_end = r.m_stream_end
         /\ Blocks(t.m_buf, src, low)
         /\ \A p \in Nat : Stored(r.m_buf, p) => Stored(t.m_buf, p)
         /\ \A p \in Nat : first_index <= p /\ p < end_index /\ low <= p /\ p < low + len
              => Stored(t.m_buf, p)
<1>1. PICK data, buf, accept_end :
        /\ data = Slice(src, first_index, end_index)
        /\ buf = r.m_buf
        /\ accept_end = low + len
  OBVIOUS
<1>2. SliceAlgebra(src, Byte)
  BY SliceFacts
<1>3. Len(src) \in Nat /\ first_index + Len(data) = end_index /\ accept_end \in Nat
  <2>1. Len(src) \in Nat /\ Len(data) = end_index - first_index
    BY <1>1, <1>2 DEF SliceAlgebra
  <2>2. QED
    BY <1>1, <2>1
<1>4. PICK e, b : /\ e = ClampedEnd(buf, accept_end, end_index)
                  /\ b = ClampedBegin(buf, first_index, Most(low, first_index))
  OBVIOUS
<1>5. /\ b \in Nat /\ e \in Nat /\ low <= b /\ first_index <= b /\ e <= end_index
      /\ Fits(buf, b, e)
      /\ \A p \in Nat : /\ low <= p /\ first_index <= p /\ p < end_index /\ p < accept_end
                        /\ p < b \/ e <= p
                        => Stored(buf, p)
  BY <1>1, <1>3, <1>4, ClampedFits
<1>6. Blocks(buf, src, low)
  BY <1>1 DEF Blocks
<1>7. t = IF first_index >= accept_end \/ b >= e THEN r
          ELSE delete_overlapping(store(r, first_index, data, b, e), b)
  BY <1>1, <1>3, <1>4 DEF insert_to_buffer
<1>8. CASE first_index >= accept_end \/ b >= e
  BY <1>1, <1>5, <1>6, <1>7, <1>8
<1>9. CASE ~(first_index >= accept_end \/ b >= e)
  <2>1. b < e /\ e <= Len(src)
    BY <1>3, <1>5, <1>9
  <2>2. Slice(data, b - first_index, e - first_index) = Slice(src, b, e)
    <3>1. PICK m \in Nat, n \in Nat : m = b - first_index /\ n = e - first_index
      BY <1>5, <2>1
    <3>2. m <= n /\ first_index + n <= end_index /\ first_index + m = b /\ first_index + n = e
      BY <1>5, <2>1, <3>1
    <3>3. Slice(data, m, n) = Slice(src, first_index + m, first_index + n)
      BY <1>1, <1>2, <3>2 DEF SliceAlgebra
    <3>4. QED
      BY <3>1, <3>2, <3>3
  <2>3. PICK s : s = store(r, first_index, data, b, e)
    OBVIOUS
  <2>4. /\ DOMAIN s = DOMAIN r
        /\ s.m_stream_end = r.m_stream_end
        /\ s.m_buf = [k \in DOMAIN buf \cup {b} |-> IF k = b THEN Slice(src, b, e) ELSE buf[k]]
    BY <1>1, <2>2, <2>3 DEF store
  <2>5. HasBlock(s.m_buf, buf, {}, b, Slice(src, b, e))
    <3>1. b \notin DOMAIN buf
      BY <1>5 DEF Fits
    <3>2. QED
      BY <2>4, <3>1 DEF HasBlock, IsFunction
  <2>6. PICK gone : gone = Overlapped(s.m_buf, b)
    OBVIOUS
  <2>7. /\ DOMAIN t = DOMAIN s
        /\ t.m_stream_end = s.m_stream_end
        /\ t.m_buf = Restrict(s.m_buf, DOMAIN s.m_buf \ gone)
    BY <1>7, <1>9, <2>3, <2>4, <2>6 DEF delete_overlapping
  <2>8. Len(Slice(src, b, e)) = e - b
    BY <1>2, <1>5, <2>1 DEF SliceAlgebra
  <2>9. /\ Inside(buf, gone, b, e)
        /\ HasBlock(t.m_buf, buf, gone, b, Slice(src, b, e))
    <3>1. \A k \in DOMAIN buf : k \in Nat /\ End(buf, k) \in Nat
      BY <1>6 DEF Blocks
    <3>2. QED
      BY <1>5, <2>5, <2>6, <2>7, <2>8, <3>1, OverlappedInside
  <2>10. /\ Blocks(t.m_buf, src, low)
         /\ \A p \in Nat : Stored(buf, p) \/ (b <= p /\ p < e) => Stored(t.m_buf, p)
    BY <1>5, <1>6, <2>1, <2>9, KeptBlocks
  <2>11. \A p \in Nat : first_index <= p /\ p < end_index /\ low <= p /\ p < accept_end
           => Stored(t.m_buf, p)
    BY <1>5, <2>10
  <2>12. QED
    BY <1>1, <2>4, <2>7, <2>10, <2>11
<1>10. QED
  BY <1>8, <1>9

(***************************************************************************)
(* Writing the blocks that continue the stream.                            *)
(***************************************************************************)

\* A stored index has its byte of src.
LEMMA ByteAtProperties ==
  ASSUME NEW Byte, NEW src \in Seq(Byte), NEW buf, NEW low \in Nat, Blocks(buf, src, low),
         NEW p \in Nat, Stored(buf, p)
  PROVE  ByteAt(buf, p) = src[p + 1]
<1>1. PICK k \in DOMAIN buf : k <= p /\ p < End(buf, k)
  BY DEF Stored
<1>2. /\ \A j \in DOMAIN buf : j \in Nat /\ End(buf, j) \in Nat
      /\ \A i, j \in DOMAIN buf : i < j => End(buf, i) <= j
      /\ buf[k] = Slice(src, k, End(buf, k))
      /\ End(buf, k) <= Len(src)
  BY DEF Blocks
<1>3. Max({j \in DOMAIN buf : j <= p}) = k
  <2> DEFINE T == {j \in DOMAIN buf : j <= p}
  <2>1. T \in SUBSET Nat /\ T # {} /\ \A j \in T : j <= p
    BY <1>1, <1>2
  <2>2. Max(T) \in T /\ \A j \in T : j <= Max(T)
    <3> HIDE DEF T
    <3>1. QED
      BY <2>1, MaxProperties
  <2>3. k \in T /\ \A j \in T : j <= k
    BY <1>1, <1>2
  <2>4. QED
    <3>1. Max(T) \in Nat /\ k \in Nat /\ k <= Max(T) /\ Max(T) <= k
      BY <1>2, <2>2, <2>3
    <3>2. Max(T) = k
      <4> HIDE DEF T
      <4>1. QED
        BY <3>1
    <3>3. QED
      BY <3>2
<1>4. ByteAt(buf, p) = Slice(src, k, End(buf, k))[p - k + 1]
  BY <1>2, <1>3 DEF ByteAt
<1>5. Slice(src, k, End(buf, k))[p - k + 1] = src[p + 1]
  <2>1. PICK e \in Nat, i \in Nat : e = End(buf, k) /\ i = p - k + 1 /\ k + i = p + 1
    BY <1>1, <1>2, SMTT(30)
  <2>2. k \in Nat /\ e \in k .. Len(src) /\ i \in 1 .. e - k
    BY <1>1, <1>2, <2>1, LenProperties
  <2>3. Slice(src, k, e)[i] = src[k + i]
    BY <2>2, SliceProperties
  <2>4. QED
    BY <2>1, <2>3
<1>6. QED
  BY <1>4, <1>5

\* The blocks written: the first ones, without a gap between them from the next
\* byte to write on; those that stay lie behind that or behind what fits.
LEMMA WrittenProperties ==
  ASSUME NEW src, Len(src) \in Nat, NEW output,
         NEW pushed \in Nat, pushed = output.bytes_pushed_,
         NEW accept_end \in Nat, accept_end = pushed + Writer_available_capacity(output),
         pushed <= accept_end,
         NEW buf, Blocks(buf, src, pushed),
         NEW written, written = Written(buf, output)
  PROVE  /\ written = {} => \A k \in DOMAIN buf : pushed < k
         /\ written # {} =>
              /\ Max(written) \in DOMAIN buf
              /\ written \subseteq DOMAIN buf
              /\ \A p \in Nat : pushed <= p /\ p < End(buf, Max(written)) => Stored(buf, p)
              /\ \A k \in written : k <= Max(written)
              /\ \A k \in DOMAIN buf \ written :
                   /\ Max(written) < k
                   /\ End(buf, Max(written)) < k \/ accept_end < k
<1> DEFINE continues(j) ==
             /\ j <= accept_end
             /\ j = IF \E i \in DOMAIN buf : i < j THEN End(buf, Before(buf, j)) ELSE pushed
<1>1. written = {k \in DOMAIN buf : \A j \in DOMAIN buf : j <= k => continues(j)}
  BY DEF Written
<1>2. /\ \A k \in DOMAIN buf : k \in Nat /\ End(buf, k) \in Nat
      /\ \A j, k \in DOMAIN buf : j < k => End(buf, j) <= k
      /\ \A k \in DOMAIN buf : k < End(buf, k) /\ pushed <= k /\ End(buf, k) <= Len(src)
      /\ DOMAIN buf \in SUBSET Nat
  BY DEF Blocks
<1>3. ASSUME written = {}, NEW k \in DOMAIN buf
      PROVE  pushed < k
  <2>1. SUFFICES ASSUME k = pushed PROVE k \in written
    BY <1>2, <1>3
  <2>2. ASSUME NEW j \in DOMAIN buf, j <= k
        PROVE  continues(j)
    <3>1. j = pushed /\ ~\E i \in DOMAIN buf : i < j
      BY <1>2, <2>1, <2>2
    <3>2. QED
      BY <3>1
  <2>3. QED
    <3> HIDE DEF continues
    <3>1. QED
      BY <1>1, <2>2
<1>4. ASSUME written # {}
      PROVE  /\ Max(written) \in DOMAIN buf
             /\ written \subseteq DOMAIN buf
             /\ \A p \in Nat : pushed <= p /\ p < End(buf, Max(written)) => Stored(buf, p)
             /\ \A k \in written : k <= Max(written)
             /\ \A k \in DOMAIN buf \ written :
                  /\ Max(written) < k
                  /\ End(buf, Max(written)) < k \/ accept_end < k
  <2>1. PICK m : m = Max(written)
    OBVIOUS
  <2>2. written \in SUBSET Nat /\ \A k \in written : k <= Len(src)
    <3> HIDE DEF continues
    <3>1. QED
      BY <1>1, <1>2
  <2>3. m \in written /\ \A k \in written : k <= m
    BY <1>4, <2>1, <2>2, MaxProperties
  <2>4. m \in DOMAIN buf /\ \A j \in DOMAIN buf : j <= m => continues(j)
    <3> HIDE DEF continues
    <3>1. QED
      BY <1>1, <2>3
  <2>5. \A k \in DOMAIN buf : k <= m => k \in written
    <3> HIDE DEF continues
    <3>1. QED
      BY <1>1, <1>2, <2>4
  <2>6. ASSUME NEW k \in DOMAIN buf \ written
        PROVE  m < k /\ (End(buf, m) < k \/ accept_end < k)
    <3>1. m < k
      BY <1>2, <2>4, <2>5
    <3>2. End(buf, m) <= k
      BY <1>2, <2>4, <3>1
    <3>3. ASSUME k = End(buf, m), k <= accept_end
          PROVE  FALSE
      <4>1. /\ Before(buf, k) \in DOMAIN buf /\ Before(buf, k) < k
            /\ \A j \in DOMAIN buf : j < k => j <= Before(buf, k)
        BY <1>2, <2>4, <3>1, BeforeProperties
      <4>2. Before(buf, k) = m
        BY <1>2, <2>4, <3>1, <3>3, <4>1
      <4>3. continues(k)
        BY <2>4, <3>1, <3>3, <4>2
      <4>4. \A j \in DOMAIN buf : j <= k => j <= m \/ j = k
        BY <1>2, <2>4, <3>3
      <4>5. k \in written
        <5> HIDE DEF continues
        <5>1. QED
          BY <1>1, <2>4, <4>3, <4>4
      <4>6. QED
        BY <4>5
    <3>4. QED
      BY <1>2, <2>4, <3>1, <3>2, <3>3
  <2>7. ASSUME NEW p \in Nat, pushed <= p, p < End(buf, m)
        PROVE  Stored(buf, p)
    <3>1. pushed \in DOMAIN buf
      <4>1. PICK k \in DOMAIN buf : \A j \in DOMAIN buf : k <= j
        <5>1. PICK k : k = Min(DOMAIN buf)
          OBVIOUS
        <5>2. k \in DOMAIN buf /\ \A j \in DOMAIN buf : k <= j
          BY <1>2, <2>4, <5>1, MinProperties
        <5>3. QED
          BY <5>2
      <4>2. continues(k) /\ ~\E i \in DOMAIN buf : i < k
        BY <1>2, <2>4, <4>1
      <4>3. QED
        BY <4>2
    <3>2. PICK k \in DOMAIN buf : k <= p /\ \A j \in DOMAIN buf : j <= p => j <= k
      BY <1>2, <2>7, <3>1, KeyAt
    <3>3. CASE m <= k
      BY <1>2, <2>4, <2>7, <3>2, <3>3 DEF Stored
    <3>4. CASE k < m
      <4>1. PICK n \in DOMAIN buf :
              k < n /\ n <= m /\ Before(buf, n) = k /\ \A j \in DOMAIN buf : k < j => n <= j
        BY <1>2, <2>4, <3>4, NextKey
      <4>2. n = End(buf, k)
        <5>1. continues(n) /\ \E i \in DOMAIN buf : i < n
          BY <2>4, <4>1
        <5>2. QED
          BY <4>1, <5>1
      <4>3. p < n
        BY <1>2, <3>2, <4>1
      <4>4. QED
        BY <3>2, <4>2, <4>3 DEF Stored
    <3>5. QED
      BY <1>2, <2>4, <3>3, <3>4
  <2>8. written \subseteq DOMAIN buf
    <3> HIDE DEF continues
    <3>1. QED
      BY <1>1
  <2>9. QED
    BY <2>1, <2>3, <2>4, <2>6, <2>7, <2>8
<1>5. QED
  BY <1>3, <1>4

\* _write_to_stream pushes the next bytes of src, keeps the stream carrying it,
\* and of what is stored gives up only what lies behind the capacity.
LEMMA WriteToStream ==
  ASSUME NEW Byte, NEW capacity \in Nat, NEW src \in Seq(Byte),
         NEW s \in ByteStreams(Byte, capacity), Carries(s, src),
         NEW r, DOMAIN r = {"m_buf", "m_bytes_pending", "m_stream_end"},
         Blocks(r.m_buf, src, s.bytes_pushed_),
         NEW t, t = write_to_stream(r, s)
  PROVE  /\ DOMAIN t = {"reassembler", "output"}
         /\ t.output \in ByteStreams(Byte, capacity)
         /\ Carries(t.output, src)
         /\ s.bytes_pushed_ <= t.output.bytes_pushed_
         /\ t.output.bytes_popped_ = s.bytes_popped_
         /\ t.output.is_close_ = s.is_close_
         /\ DOMAIN t.reassembler = {"m_buf", "m_bytes_pending", "m_stream_end"}
         /\ t.reassembler.m_stream_end = r.m_stream_end
         /\ Blocks(t.reassembler.m_buf, src, t.output.bytes_pushed_ + 1)
         /\ \A p \in Nat : /\ Stored(r.m_buf, p)
                           /\ p < s.bytes_pushed_ + Writer_available_capacity(s)
                           => \/ p < t.output.bytes_pushed_
                              \/ Stored(t.reassembler.m_buf, p)
<1>1. PICK buf, pushed, written, accept_end :
        /\ buf = r.m_buf /\ pushed = s.bytes_pushed_ /\ written = Written(buf, s)
        /\ accept_end = pushed + Writer_available_capacity(s)
  OBVIOUS
<1>2. /\ pushed \in Nat /\ s.bytes_popped_ \in Nat /\ accept_end \in Nat /\ Len(src) \in Nat
      /\ pushed <= accept_end
      /\ accept_end = s.bytes_popped_ + capacity
  <2>1. /\ s.bytes_popped_ \in Nat /\ s.bytes_pushed_ \in Nat
        /\ Len(s.buffer_) = s.bytes_pushed_ - s.bytes_popped_
        /\ Len(s.buffer_) <= capacity
        /\ s.capacity_ = capacity
    BY CarriesBuffer
  <2>2. Writer_available_capacity(s) = capacity - (s.bytes_pushed_ - s.bytes_popped_)
    BY <2>1 DEF Writer_available_capacity
  <2>3. s.bytes_popped_ <= s.bytes_pushed_
    BY DEF Carries
  <2>4. QED
    BY <1>1, <2>1, <2>2, <2>3, LenProperties
<1>3. Blocks(buf, src, pushed)
  BY <1>1
<1>4. /\ \A k \in DOMAIN buf : k \in Nat /\ End(buf, k) \in Nat /\ pushed <= k /\ k < End(buf, k)
      /\ \A j, k \in DOMAIN buf : j < k => End(buf, j) <= k
      /\ \A k \in DOMAIN buf : End(buf, k) <= Len(src) /\ buf[k] = Slice(src, k, End(buf, k))
      /\ DOMAIN buf \in SUBSET Nat
  BY <1>3 DEF Blocks
<1>5. /\ written = {} => \A k \in DOMAIN buf : pushed < k
      /\ written # {} =>
           /\ Max(written) \in DOMAIN buf
           /\ written \subseteq DOMAIN buf
           /\ \A p \in Nat : pushed <= p /\ p < End(buf, Max(written)) => Stored(buf, p)
           /\ \A k \in written : k <= Max(written)
           /\ \A k \in DOMAIN buf \ written :
                /\ Max(written) < k
                /\ End(buf, Max(written)) < k \/ accept_end < k
  BY <1>1, <1>2, <1>3, WrittenProperties
<1>6. CASE written = {}
  <2>1. t = [reassembler |-> r, output |-> s]
    BY <1>1, <1>6 DEF write_to_stream
  <2>2. Blocks(buf, src, pushed + 1)
    BY <1>2, <1>3, <1>5, <1>6 DEF Blocks
  <2>3. QED
    BY <1>1, <1>2, <2>1, <2>2
<1>7. CASE written # {}
  <2>1. PICK m \in DOMAIN buf, end \in Nat : m = Max(written) /\ end = End(buf, m)
    BY <1>4, <1>5, <1>7
  <2>2. pushed < end /\ end <= Len(src)
    BY <1>2, <1>4, <2>1
  <2>3. PICK data : data = [i \in 1 .. end - pushed |-> ByteAt(buf, pushed + i - 1)]
    OBVIOUS
  <2>4. data = Slice(src, pushed, end)
    <3>1. /\ Slice(src, pushed, end) \in Seq(Byte)
          /\ Len(Slice(src, pushed, end)) = end - pushed
          /\ \A i \in 1 .. end - pushed : Slice(src, pushed, end)[i] = src[pushed + i]
      BY <1>2, <2>2, SliceProperties, end \in pushed .. Len(src)
    <3>2. ASSUME NEW i \in 1 .. end - pushed
          PROVE  ByteAt(buf, pushed + i - 1) = src[pushed + i]
      <4>1. PICK p \in Nat : p = pushed + i - 1 /\ pushed <= p /\ p < end /\ p + 1 = pushed + i
        BY <1>2
      <4>2. Stored(buf, p)
        BY <1>5, <1>7, <2>1, <4>1
      <4>3. QED
        BY <1>2, <1>3, <4>1, <4>2, ByteAtProperties
    <3>3. \A i \in 1 .. end - pushed : src[pushed + i] \in Byte
      <4>1. \A i \in 1 .. end - pushed : pushed + i \in 1 .. Len(src)
        BY <1>2, <2>2
      <4>2. QED
        BY <4>1, ElementOfSeq
    <3>4. data \in Seq(Byte) /\ Len(data) = end - pushed
      <4>1. end - pushed \in Nat
        BY <1>2, <2>2
      <4>2. data \in [1 .. end - pushed -> Byte]
        BY <2>3, <3>2, <3>3
      <4>3. QED
        BY <2>3, <4>1, <4>2, SeqDef, LenProperties
    <3>5. \A i \in 1 .. end - pushed : data[i] = Slice(src, pushed, end)[i]
      BY <2>3, <3>1, <3>2
    <3>6. QED
      BY <3>1, <3>4, <3>5, SeqEqual
  <2>5. PICK kept : kept = Restrict(buf, DOMAIN buf \ written)
    OBVIOUS
  <2>6. t = [reassembler |-> [r EXCEPT !.m_buf = kept, !.m_bytes_pending = @ - (end - pushed)],
             output |-> Writer_push(s, data)]
    BY <1>1, <1>7, <2>1, <2>3, <2>5 DEF write_to_stream
  <2>7. /\ DOMAIN t = {"reassembler", "output"}
        /\ t.output = Writer_push(s, Slice(src, pushed, end))
        /\ DOMAIN t.reassembler = {"m_buf", "m_bytes_pending", "m_stream_end"}
        /\ t.reassembler.m_stream_end = r.m_stream_end
        /\ t.reassembler.m_buf = kept
    <3>1. PICK left : left = [r EXCEPT !.m_buf = kept, !.m_bytes_pending = @ - (end - pushed)]
      OBVIOUS
    <3>2. /\ DOMAIN left = {"m_buf", "m_bytes_pending", "m_stream_end"}
          /\ left.m_stream_end = r.m_stream_end
          /\ left.m_buf = kept
      BY <3>1
    <3>3. t = [reassembler |-> left, output |-> Writer_push(s, data)]
      BY <2>6, <3>1
    <3>4. QED
      BY <2>4, <3>2, <3>3
  <2>8. /\ t.output \in ByteStreams(Byte, capacity)
        /\ Carries(t.output, src)
        /\ t.output.bytes_pushed_ = Least(end, s.bytes_popped_ + capacity)
        /\ t.output.bytes_popped_ = s.bytes_popped_
        /\ t.output.is_close_ = s.is_close_
    <3>1. s.bytes_pushed_ <= end /\ end <= Len(src)
      BY <1>1, <1>2, <2>2
    <3>2. t.output = Writer_push(s, Slice(src, s.bytes_pushed_, end))
      BY <1>1, <2>7, Zenon
    <3>3. QED
      BY <3>1, <3>2, PushCarries
  <2>9. PICK now \in Nat : /\ now = t.output.bytes_pushed_
                           /\ now = Least(end, accept_end)
                           /\ pushed <= now /\ now <= end /\ now <= accept_end
    BY <1>2, <2>2, <2>8 DEF Least
  <2>10. /\ DOMAIN kept = DOMAIN buf \ written
         /\ IsFunction(kept)
         /\ \A k \in DOMAIN kept : kept[k] = buf[k] /\ End(kept, k) = End(buf, k)
    BY <2>5 DEF Restrict, IsFunction, End
  <2>11. \A k \in DOMAIN kept : now < k
    BY <1>4, <1>5, <1>7, <2>1, <2>9, <2>10, <1>2, SMTT(30)
  <2>12. Blocks(kept, src, now + 1)
    <3>1. \A k \in DOMAIN kept : k \in DOMAIN buf /\ now + 1 <= k
      BY <1>4, <2>10, <2>11
    <3>2. QED
      BY <1>4, <2>10, <3>1 DEF Blocks
  <2>13. ASSUME NEW p \in Nat, Stored(buf, p), p < accept_end
         PROVE  p < now \/ Stored(kept, p)
    <3>1. PICK k \in DOMAIN buf : k <= p /\ p < End(buf, k)
      BY <2>13 DEF Stored
    <3>2. CASE k \in written
      <4>1. End(buf, k) <= end
        BY <1>4, <1>5, <1>7, <2>1, <3>2
      <4>2. p < end
        BY <1>4, <3>1, <4>1
      <4>3. QED
        BY <1>2, <2>9, <2>13, <4>2 DEF Least
    <3>3. CASE k \notin written
      BY <2>10, <3>1, <3>3 DEF Stored
    <3>4. QED
      BY <3>2, <3>3
  <2>14. QED
    BY <1>1, <2>7, <2>8, <2>9, <2>12, <2>13
<1>8. QED
  BY <1>6, <1>7

(***************************************************************************)
(* What m_bytes_pending counts.  The code adds and subtracts the lengths   *)
(* of blocks, and the fold that sums them over a set of keys is the number *)
(* of indices in those blocks, because no two have one in common.          *)
(***************************************************************************)
Indices(buf, S) == {p \in Nat : \E k \in S : k <= p /\ p < End(buf, k)}

TotalLength(buf, S) == MapThenSumSet(LAMBDA k : Len(buf[k]), S)

\* The blocks at S have ends, at most high, and follow one another.
BlocksFollow(buf, S, high) ==
  /\ high \in Nat
  /\ \A k \in S : /\ k \in Nat /\ Len(buf[k]) \in Nat /\ End(buf, k) \in Nat
                  /\ k <= End(buf, k) /\ End(buf, k) <= high
  /\ \A j, k \in S : j < k => End(buf, j) <= k

Adds(total, buf, S) ==
  /\ total \in [SUBSET S -> Nat]
  /\ total[{}] = 0
  /\ \A s \in SUBSET S : \A x \in s : total[s] = Len(buf[x]) + total[s \ {x}]

\* A function that is additive on the finite sets of keys is what the fold
\* computes, whatever the order in which it chooses the keys.
LEMMA FoldIsTotal ==
  ASSUME NEW buf, NEW S, IsFiniteSet(S), NEW total, Adds(total, buf, S)
  PROVE  TotalLength(buf, S) = total[S]
<1> USE DEF Adds
<1> DEFINE first(s) == CHOOSE x \in s : TRUE
           Sums(f) == f = [s \in SUBSET S |->
                             IF s = {} THEN 0 ELSE Len(buf[first(s)]) + f[s \ {first(s)}]]
           iter == CHOOSE f : Sums(f)
<1>1. Sums(total)
  <2>1. \A s \in SUBSET S :
          total[s] = IF s = {} THEN 0 ELSE Len(buf[first(s)]) + total[s \ {first(s)}]
    <3>1. \A s \in SUBSET S : s # {} => first(s) \in s
      OBVIOUS
    <3> HIDE DEF first
    <3>2. QED
      BY <3>1
  <2> HIDE DEF first
  <2>2. QED
    BY <2>1
<1>2. Sums(iter)
  <2> HIDE DEF Sums
  <2>1. QED
    BY <1>1
<1>3. \A s \in SUBSET S : iter[s] = total[s]
  <2> HIDE DEF iter
  <2> DEFINE C == {s \in SUBSET S : iter[s] # total[s]}
             N == {Cardinality(s) : s \in C}
  <2>1. SUFFICES ASSUME C # {} PROVE FALSE
    OBVIOUS
  <2>2. N \in SUBSET Nat /\ N # {}
    BY <2>1, FS_Subset, FS_CardinalityType
  <2>3. PICK m \in N : \A n \in N : m <= n
    <3> HIDE DEF N
    <3>1. QED
      BY <2>2, MinProperties
  <2>4. PICK u \in C : m = Cardinality(u)
    OBVIOUS
  <2>5. iter[{}] = 0
    BY <1>2
  <2>6. u # {}
    BY <2>5
  <2>7. PICK x \in u : x = first(u)
    BY <2>6
  <2>8. u \in SUBSET S /\ iter[u] = Len(buf[x]) + iter[u \ {x}]
    BY <1>2, <2>6, <2>7
  <2>9. Cardinality(u \ {x}) < Cardinality(u)
    BY <2>7, <2>8, FS_Subset, FS_RemoveElement, FS_CardinalityType
  <2>10. Cardinality(u) \in Nat /\ Cardinality(u \ {x}) \in Nat
    BY <2>8, FS_Subset, FS_CardinalityType
  <2>11. iter[u \ {x}] = total[u \ {x}]
    <3>1. SUFFICES ASSUME iter[u \ {x}] # total[u \ {x}] PROVE FALSE
      OBVIOUS
    <3>2. u \ {x} \in C
      BY <2>8, <3>1
    <3>3. Cardinality(u \ {x}) \in N
      BY <3>2, Zenon
    <3>4. Cardinality(u) <= Cardinality(u \ {x})
      BY <2>3, <2>4, <3>3, Zenon
    <3>5. QED
      BY <2>9, <2>10, <3>4
  <2>12. QED
    BY <2>7, <2>8, <2>11
<1>4. TotalLength(buf, S) = iter[S]
  BY DEF TotalLength, MapThenSumSet, MapThenFoldSet
<1>5. QED
  BY <1>3, <1>4

LEMMA IndicesFinite ==
  ASSUME NEW buf, NEW S, NEW high, BlocksFollow(buf, S, high), NEW T \in SUBSET S
  PROVE  /\ IsFiniteSet(Indices(buf, T)) /\ Cardinality(Indices(buf, T)) \in Nat
         /\ IsFiniteSet(S)
<1>1. Indices(buf, T) \in SUBSET Nat /\ \A p \in Indices(buf, T) : p <= high
  BY DEF Indices, BlocksFollow
<1>2. S \in SUBSET Nat /\ \A k \in S : k <= high
  BY DEF BlocksFollow
<1>3. high \in Nat
  BY DEF BlocksFollow
<1>4. QED
  BY <1>1, <1>2, <1>3, FS_BoundedSetOfNaturals, FS_CardinalityType

\* The indices of a block and of blocks that lie apart from it add up.
LEMMA UnionCount ==
  ASSUME NEW S, IsFiniteSet(S), NEW T, IsFiniteSet(T), S \cap T = {}
  PROVE  Cardinality(S \cup T) = Cardinality(S) + Cardinality(T)
<1>1. Cardinality(S \cup T) = Cardinality(S) + Cardinality(T) - 0
  BY FS_Union, FS_EmptySet
<1>2. Cardinality(S) \in Nat /\ Cardinality(T) \in Nat
  BY FS_CardinalityType
<1>3. QED
  BY <1>1, <1>2

LEMMA SumIsCount ==
  ASSUME NEW buf, NEW S, NEW high, BlocksFollow(buf, S, high)
  PROVE  TotalLength(buf, S) = Cardinality(Indices(buf, S))
<1>1. PICK total : total = [s \in SUBSET S |-> Cardinality(Indices(buf, s))]
  OBVIOUS
<1>2. total \in [SUBSET S -> Nat]
  BY <1>1, IndicesFinite
<1>3. total[{}] = 0
  <2>1. Indices(buf, {}) = {}
    BY DEF Indices
  <2>2. QED
    BY <1>1, <2>1, FS_EmptySet
<1>4. ASSUME NEW s \in SUBSET S, NEW x \in s
      PROVE  total[s] = Len(buf[x]) + total[s \ {x}]
  <2>1. PICK rest : rest = s \ {x}
    OBVIOUS
  <2>2. PICK e \in Nat, n \in Nat : /\ e = End(buf, x) /\ n = Len(buf[x]) /\ e = x + n
                                    /\ x \in Nat
    BY DEF BlocksFollow, End
  <2>3. Indices(buf, s) = (x .. e - 1) \cup Indices(buf, rest)
    <3>1. ASSUME NEW p PROVE p \in Indices(buf, s) <=> p \in (x .. e - 1) \cup Indices(buf, rest)
      <4>1. p \in x .. e - 1 <=> p \in Nat /\ x <= p /\ p < e
        BY <2>2
      <4>2. s = rest \cup {x}
        BY <2>1
      <4>3. QED
        BY <2>2, <4>1, <4>2 DEF Indices
    <3>2. QED
      BY <3>1
  <2>4. (x .. e - 1) \cap Indices(buf, rest) = {}
    <3>1. SUFFICES ASSUME NEW p \in Nat, x <= p, p < e, NEW k \in rest, k <= p, p < End(buf, k)
                   PROVE  FALSE
      BY <2>2 DEF Indices
    <3>2. k \in S /\ x \in S /\ k # x /\ k \in Nat /\ End(buf, k) \in Nat
      BY <2>1, <3>1 DEF BlocksFollow
    <3>3. CASE k < x
      <4>1. End(buf, k) <= x
        BY <3>2, <3>3 DEF BlocksFollow
      <4>2. QED
        BY <2>2, <3>1, <3>2, <4>1
    <3>4. CASE x < k
      <4>1. e <= k
        BY <2>2, <3>2, <3>4 DEF BlocksFollow
      <4>2. QED
        BY <2>2, <3>1, <3>2, <4>1
    <3>5. QED
      BY <2>2, <3>2, <3>3, <3>4
  <2>5. IsFiniteSet(x .. e - 1) /\ Cardinality(x .. e - 1) = n
    <3>1. x \in Int /\ e - 1 \in Int
      BY <2>2
    <3>2. /\ IsFiniteSet(x .. e - 1)
          /\ Cardinality(x .. e - 1) = IF x > e - 1 THEN 0 ELSE (e - 1) - x + 1
      BY <3>1, FS_Interval
    <3>3. QED
      BY <2>2, <3>2
  <2>6. IsFiniteSet(Indices(buf, rest)) /\ rest \in SUBSET S
    BY <2>1, IndicesFinite
  <2>7. Cardinality(Indices(buf, s)) = n + Cardinality(Indices(buf, rest))
    BY <2>3, <2>4, <2>5, <2>6, UnionCount
  <2>8. QED
    BY <1>1, <2>1, <2>2, <2>6, <2>7
<1>5. IsFiniteSet(S)
  BY IndicesFinite
<1>6. TotalLength(buf, S) = total[S]
  <2>1. Adds(total, buf, S)
    BY <1>2, <1>3, <1>4 DEF Adds
  <2>2. QED
    BY <1>5, <2>1, FoldIsTotal
<1>7. QED
  BY <1>1, <1>6

\* The counter is the number of indices stored.
Counted(r) == r.m_bytes_pending = Cardinality(Indices(r.m_buf, DOMAIN r.m_buf))

LEMMA BlocksApart ==
  ASSUME NEW Byte, NEW src \in Seq(Byte), NEW buf, NEW low \in Nat, Blocks(buf, src, low),
         NEW S \in SUBSET DOMAIN buf
  PROVE  BlocksFollow(buf, S, Len(src))
<1>1. Len(src) \in Nat /\ SliceAlgebra(src, Byte)
  BY LenProperties, SliceFacts
<1>2. ASSUME NEW k \in S
      PROVE  /\ k \in Nat /\ Len(buf[k]) \in Nat /\ End(buf, k) \in Nat
             /\ k <= End(buf, k) /\ End(buf, k) <= Len(src)
  <2>1. PICK e \in Nat : /\ e = End(buf, k) /\ k \in Nat /\ k < e /\ e <= Len(src)
                         /\ buf[k] = Slice(src, k, e)
    BY DEF Blocks
  <2>2. Len(buf[k]) = e - k
    <3>1. Len(Slice(src, k, e)) = e - k
      BY <1>1, <2>1, k <= e DEF SliceAlgebra
    <3>2. QED
      BY <2>1, <3>1
  <2>3. QED
    BY <2>1, <2>2
<1>3. \A j, k \in S : j < k => End(buf, j) <= k
  BY DEF Blocks
<1>4. QED
  BY <1>1, <1>2, <1>3 DEF BlocksFollow

\* The indices of the blocks at T are those of buf at T when the blocks are.
LEMMA SameIndices ==
  ASSUME NEW buf, NEW new, NEW T, \A k \in T : new[k] = buf[k]
  PROVE  Indices(new, T) = Indices(buf, T)
BY DEF Indices, End

\* Splitting the blocks in two splits the count.
LEMMA SplitCount ==
  ASSUME NEW buf, NEW high, BlocksFollow(buf, DOMAIN buf, high), NEW S \in SUBSET DOMAIN buf,
         NEW rest, rest = DOMAIN buf \ S
  PROVE  Cardinality(Indices(buf, DOMAIN buf)) =
           Cardinality(Indices(buf, S)) + Cardinality(Indices(buf, rest))
<1>1. Indices(buf, DOMAIN buf) = Indices(buf, S) \cup Indices(buf, rest)
  BY DEF Indices
<1>2. Indices(buf, S) \cap Indices(buf, rest) = {}
  <2>1. SUFFICES ASSUME NEW p \in Nat, NEW j \in S, j <= p, p < End(buf, j),
                        NEW k \in rest, k <= p, p < End(buf, k)
                 PROVE  FALSE
    BY DEF Indices
  <2>2. /\ j # k /\ j \in Nat /\ k \in Nat /\ End(buf, j) \in Nat /\ End(buf, k) \in Nat
        /\ j < k => End(buf, j) <= k
        /\ k < j => End(buf, k) <= j
    BY DEF BlocksFollow
  <2>3. QED
    BY <2>1, <2>2
<1>3. IsFiniteSet(Indices(buf, S)) /\ IsFiniteSet(Indices(buf, rest))
  BY IndicesFinite
<1>4. QED
  BY <1>1, <1>2, <1>3, UnionCount

LEMMA KeptCount ==
  ASSUME NEW buf, NEW high, BlocksFollow(buf, DOMAIN buf, high),
         NEW b \in Nat, NEW e \in Nat, b < e, Fits(buf, b, e),
         NEW gone, Inside(buf, gone, b, e),
         NEW block, Len(block) = e - b,
         NEW kept, HasBlock(kept, buf, gone, b, block)
  PROVE  /\ Cardinality(Indices(buf, DOMAIN buf)) \in Nat
         /\ Cardinality(Indices(buf, gone)) \in Nat
         /\ Cardinality(Indices(kept, DOMAIN kept)) =
              (Cardinality(Indices(buf, DOMAIN buf)) + (e - b)) - Cardinality(Indices(buf, gone))
<1>1. gone \in SUBSET DOMAIN buf
  BY DEF Inside
<1>2. PICK rest : rest = DOMAIN buf \ gone
  OBVIOUS
<1>3. Cardinality(Indices(buf, DOMAIN buf)) =
        Cardinality(Indices(buf, gone)) + Cardinality(Indices(buf, rest))
  BY <1>1, <1>2, SplitCount
<1>4. Indices(kept, rest) = Indices(buf, rest)
  BY <1>2, SameIndices DEF HasBlock
<1>5. Indices(kept, DOMAIN kept) = (b .. e - 1) \cup Indices(buf, rest)
  <2>1. DOMAIN kept = rest \cup {b} /\ End(kept, b) = e
    BY <1>2 DEF HasBlock, End
  <2>2. Indices(kept, {b}) = b .. e - 1
    <3>1. ASSUME NEW p PROVE p \in Indices(kept, {b}) <=> p \in b .. e - 1
      BY <2>1 DEF Indices
    <3>2. QED
      BY <3>1
  <2>3. Indices(kept, DOMAIN kept) = Indices(kept, {b}) \cup Indices(kept, rest)
    BY <2>1 DEF Indices
  <2>4. QED
    BY <1>4, <2>2, <2>3
<1>6. (b .. e - 1) \cap Indices(buf, rest) = {}
  <2>1. SUFFICES ASSUME NEW p \in Nat, b <= p, p < e, NEW k \in rest, k <= p, p < End(buf, k)
                 PROVE  FALSE
    BY DEF Indices
  <2>2. /\ k \in DOMAIN buf /\ k # b /\ k \in Nat /\ End(buf, k) \in Nat
        /\ k < b => End(buf, k) <= b
        /\ b < k => e <= k
    BY <1>2 DEF BlocksFollow, Fits, Inside
  <2>3. QED
    BY <2>1, <2>2
<1>7. IsFiniteSet(b .. e - 1) /\ Cardinality(b .. e - 1) = e - b
  <2>1. b \in Int /\ e - 1 \in Int
    OBVIOUS
  <2>2. /\ IsFiniteSet(b .. e - 1)
        /\ Cardinality(b .. e - 1) = IF b > e - 1 THEN 0 ELSE (e - 1) - b + 1
    BY <2>1, FS_Interval
  <2>3. QED
    BY <2>2
<1>8. /\ IsFiniteSet(Indices(buf, rest)) /\ Cardinality(Indices(buf, rest)) \in Nat
      /\ Cardinality(Indices(buf, gone)) \in Nat
  BY <1>1, <1>2, IndicesFinite
<1>9. Cardinality(Indices(kept, DOMAIN kept)) = (e - b) + Cardinality(Indices(buf, rest))
  BY <1>5, <1>6, <1>7, <1>8, UnionCount
<1>10. QED
  <2>1. PICK x \in Nat, y \in Nat : /\ x = Cardinality(Indices(buf, rest))
                                    /\ y = Cardinality(Indices(buf, gone))
    BY <1>8
  <2>2. QED
    BY <1>3, <1>9, <2>1

\* Storing a block counts its bytes, and erasing those it covers takes theirs
\* away: what is counted stays what is stored.
LEMMA InsertCounts ==
  ASSUME NEW Byte, NEW src \in Seq(Byte), NEW r, NEW low \in Nat, NEW len \in Nat,
         DOMAIN r = {"m_buf", "m_bytes_pending", "m_stream_end"},
         Blocks(r.m_buf, src, low + 1), Counted(r),
         NEW first_index \in Nat, NEW end_index \in Nat,
         first_index <= end_index, end_index <= Len(src),
         NEW t, t = insert_to_buffer(r, low, len, first_index, Slice(src, first_index, end_index))
  PROVE  Counted(t)
<1>1. PICK data, buf, accept_end :
        /\ data = Slice(src, first_index, end_index)
        /\ buf = r.m_buf
        /\ accept_end = low + len
  OBVIOUS
<1>2. SliceAlgebra(src, Byte)
  BY SliceFacts
<1>3. Len(src) \in Nat /\ first_index + Len(data) = end_index /\ accept_end \in Nat
  <2>1. Len(src) \in Nat /\ Len(data) = end_index - first_index
    BY <1>1, <1>2 DEF SliceAlgebra
  <2>2. QED
    BY <1>1, <2>1
<1>4. PICK e, b : /\ e = ClampedEnd(buf, accept_end, end_index)
                  /\ b = ClampedBegin(buf, first_index, Most(low, first_index))
  OBVIOUS
<1>5. /\ b \in Nat /\ e \in Nat /\ low <= b /\ first_index <= b /\ e <= end_index
      /\ Fits(buf, b, e)
  BY <1>1, <1>3, <1>4, ClampedFits
<1>6. /\ \A k \in DOMAIN buf : k \in Nat /\ End(buf, k) \in Nat
      /\ BlocksFollow(buf, DOMAIN buf, Len(src))
  <2>1. Blocks(buf, src, low + 1) /\ low + 1 \in Nat
    BY <1>1
  <2>2. QED
    BY <2>1, BlocksApart DEF Blocks
<1>7. t = IF first_index >= accept_end \/ b >= e THEN r
          ELSE delete_overlapping(store(r, first_index, data, b, e), b)
  BY <1>1, <1>3, <1>4 DEF insert_to_buffer
<1>8. CASE first_index >= accept_end \/ b >= e
  BY <1>7, <1>8
<1>9. CASE ~(first_index >= accept_end \/ b >= e)
  <2>1. b < e
    BY <1>5, <1>9
  <2>2. PICK block : block = Slice(data, b - first_index, e - first_index)
    OBVIOUS
  <2>3. Len(block) = e - b
    <3>1. PICK m \in Nat, n \in Nat : /\ m = b - first_index /\ n = e - first_index
                                      /\ m <= n /\ n - m = e - b
      BY <1>5, <2>1
    <3>2. n <= Len(data) /\ data \in Seq(Byte)
      <4>1. data \in Seq(Byte)
        BY <1>1, <1>2 DEF SliceAlgebra
      <4>2. Len(data) \in Nat
        BY <4>1, LenProperties
      <4>3. QED
        BY <1>3, <1>5, <3>1, <4>1, <4>2
    <3>3. Len(Slice(data, m, n)) = n - m
      <4>1. SliceAlgebra(data, Byte)
        BY <3>2, SliceFacts
      <4>2. QED
        BY <3>1, <3>2, <4>1 DEF SliceAlgebra
    <3>4. QED
      BY <2>2, <3>1, <3>3
  <2>4. PICK s : s = store(r, first_index, data, b, e)
    OBVIOUS
  <2>5. /\ DOMAIN s = DOMAIN r
        /\ s.m_bytes_pending = r.m_bytes_pending + (e - b)
        /\ s.m_buf = [k \in DOMAIN buf \cup {b} |-> IF k = b THEN block ELSE buf[k]]
    BY <1>1, <2>2, <2>3, <2>4 DEF store
  <2>6. HasBlock(s.m_buf, buf, {}, b, block)
    <3>1. b \notin DOMAIN buf
      BY <1>5 DEF Fits
    <3>2. QED
      BY <2>5, <3>1 DEF HasBlock, IsFunction
  <2>7. PICK gone : gone = Overlapped(s.m_buf, b)
    OBVIOUS
  <2>8. /\ t.m_bytes_pending = s.m_bytes_pending - TotalLength(s.m_buf, gone)
        /\ t.m_buf = Restrict(s.m_buf, DOMAIN s.m_buf \ gone)
    <3>1. t = delete_overlapping(s, b)
      BY <1>7, <1>9, <2>4
    <3>2. t = [s EXCEPT !.m_buf = Restrict(@, DOMAIN @ \ gone),
                        !.m_bytes_pending = @ - TotalLength(s.m_buf, gone)]
      BY <2>7, <3>1 DEF delete_overlapping, TotalLength
    <3>3. QED
      BY <2>5, <3>2
  <2>9. /\ Inside(buf, gone, b, e)
        /\ HasBlock(t.m_buf, buf, gone, b, block)
    BY <1>5, <1>6, <2>3, <2>6, <2>7, <2>8, OverlappedInside
  <2>10. TotalLength(s.m_buf, gone) = Cardinality(Indices(buf, gone))
    <3>1. gone \in SUBSET DOMAIN buf /\ b \notin gone
      BY <1>5, <2>9 DEF Inside, Fits
    <3>2. \A k \in gone : s.m_buf[k] = buf[k]
      BY <2>5, <3>1
    <3>3. BlocksFollow(s.m_buf, gone, Len(src))
      BY <1>6, <3>1, <3>2 DEF BlocksFollow, End
    <3>4. QED
      BY <3>2, <3>3, SumIsCount, SameIndices
  <2>11. /\ Cardinality(Indices(buf, DOMAIN buf)) \in Nat
         /\ Cardinality(Indices(buf, gone)) \in Nat
         /\ Cardinality(Indices(t.m_buf, DOMAIN t.m_buf)) =
              (Cardinality(Indices(buf, DOMAIN buf)) + (e - b)) - Cardinality(Indices(buf, gone))
    BY <1>5, <1>6, <2>1, <2>3, <2>9, KeptCount
  <2>12. QED
    BY <1>1, <2>5, <2>8, <2>10, <2>11 DEF Counted
<1>10. QED
  BY <1>8, <1>9

\* The blocks written cover what lies between the stream and the end of the
\* last of them: the size that is taken away is that of the blocks erased.
LEMMA WriteCounts ==
  ASSUME NEW Byte, NEW capacity \in Nat, NEW src \in Seq(Byte),
         NEW s \in ByteStreams(Byte, capacity), Carries(s, src),
         NEW r, DOMAIN r = {"m_buf", "m_bytes_pending", "m_stream_end"},
         Blocks(r.m_buf, src, s.bytes_pushed_), Counted(r),
         NEW t, t = write_to_stream(r, s)
  PROVE  Counted(t.reassembler)
<1>1. PICK buf, pushed, written, accept_end :
        /\ buf = r.m_buf /\ pushed = s.bytes_pushed_ /\ written = Written(buf, s)
        /\ accept_end = pushed + Writer_available_capacity(s)
  OBVIOUS
<1>2. /\ pushed \in Nat /\ accept_end \in Nat /\ Len(src) \in Nat /\ pushed <= accept_end
  <2>1. /\ s.bytes_popped_ \in Nat /\ s.bytes_pushed_ \in Nat
        /\ Len(s.buffer_) = s.bytes_pushed_ - s.bytes_popped_
        /\ Len(s.buffer_) <= capacity
        /\ s.capacity_ = capacity
    BY CarriesBuffer
  <2>2. Writer_available_capacity(s) = capacity - (s.bytes_pushed_ - s.bytes_popped_)
    BY <2>1 DEF Writer_available_capacity
  <2>3. s.bytes_popped_ <= s.bytes_pushed_
    BY DEF Carries
  <2>4. QED
    BY <1>1, <2>1, <2>2, <2>3, LenProperties
<1>3. Blocks(buf, src, pushed) /\ BlocksFollow(buf, DOMAIN buf, Len(src))
  BY <1>1, <1>2, BlocksApart
<1>4. /\ \A k \in DOMAIN buf : k \in Nat /\ End(buf, k) \in Nat /\ pushed <= k /\ k < End(buf, k)
      /\ \A j, k \in DOMAIN buf : j < k => End(buf, j) <= k
  BY <1>3 DEF Blocks
<1>5. written # {} =>
        /\ Max(written) \in DOMAIN buf
        /\ written \subseteq DOMAIN buf
        /\ \A p \in Nat : pushed <= p /\ p < End(buf, Max(written)) => Stored(buf, p)
        /\ \A k \in written : k <= Max(written)
        /\ \A k \in DOMAIN buf \ written : Max(written) < k
  BY <1>1, <1>2, <1>3, WrittenProperties
<1>6. CASE written = {}
  BY <1>1, <1>6 DEF write_to_stream
<1>7. CASE written # {}
  <2>1. PICK m \in DOMAIN buf, end \in Nat : m = Max(written) /\ end = End(buf, m)
    BY <1>4, <1>5, <1>7
  <2>2. m \in Nat /\ pushed < end
    BY <1>2, <1>4, <2>1
  <2>3. Indices(buf, written) = pushed .. end - 1
    <3>1. ASSUME NEW p \in Nat, NEW k \in written, k <= p, p < End(buf, k)
          PROVE  pushed <= p /\ p < end
      <4>1. k \in DOMAIN buf /\ k <= m /\ k \in Nat /\ pushed <= k /\ End(buf, k) \in Nat
        BY <1>4, <1>5, <1>7, <2>1
      <4>2. End(buf, k) <= end
        BY <1>4, <2>1, <2>2, <4>1
      <4>3. QED
        BY <1>2, <3>1, <4>1, <4>2
    <3>2. ASSUME NEW p \in Nat, pushed <= p, p < end
          PROVE  \E k \in written : k <= p /\ p < End(buf, k)
      <4>1. PICK k \in DOMAIN buf : k <= p /\ p < End(buf, k)
        BY <1>5, <1>7, <2>1, <3>2 DEF Stored
      <4>2. SUFFICES ASSUME k \notin written PROVE FALSE
        BY <4>1
      <4>3. m < k /\ end <= k /\ k \in Nat
        BY <1>4, <1>5, <1>7, <2>1, <4>2
      <4>4. QED
        BY <3>2, <4>1, <4>3
    <3>3. ASSUME NEW p PROVE p \in Indices(buf, written) <=> p \in pushed .. end - 1
      BY <1>2, <2>2, <3>1, <3>2 DEF Indices
    <3>4. QED
      BY <3>3
  <2>4. Cardinality(Indices(buf, written)) = end - pushed
    <3>1. pushed \in Int /\ end - 1 \in Int
      BY <1>2
    <3>2. Cardinality(pushed .. end - 1) = IF pushed > end - 1 THEN 0 ELSE (end - 1) - pushed + 1
      BY <3>1, FS_Interval
    <3>3. QED
      BY <1>2, <2>2, <2>3, <3>2
  <2>5. PICK rest, kept : rest = DOMAIN buf \ written /\ kept = Restrict(buf, rest)
    OBVIOUS
  <2>6. t.reassembler.m_buf = kept /\ t.reassembler.m_bytes_pending = r.m_bytes_pending - (end - pushed)
    <3>1. PICK left : left = [r EXCEPT !.m_buf = kept, !.m_bytes_pending = @ - (end - pushed)]
      OBVIOUS
    <3>2. t.reassembler = left
      BY <1>1, <1>7, <2>1, <2>5, <3>1 DEF write_to_stream
    <3>3. QED
      BY <3>1, <3>2
  <2>7. DOMAIN kept = rest /\ \A k \in rest : kept[k] = buf[k]
    BY <2>5 DEF Restrict
  <2>8. Indices(kept, DOMAIN kept) = Indices(buf, rest)
    BY <2>7, SameIndices
  <2>9. written \in SUBSET DOMAIN buf /\ rest \in SUBSET DOMAIN buf
    BY <1>5, <1>7, <2>5
  <2>10. Cardinality(Indices(buf, DOMAIN buf)) = (end - pushed) + Cardinality(Indices(buf, rest))
    BY <1>3, <2>4, <2>5, <2>9, SplitCount
  <2>11. Cardinality(Indices(buf, rest)) \in Nat
    BY <1>3, <2>9, IndicesFinite
  <2>12. QED
    BY <1>1, <1>2, <2>6, <2>8, <2>10, <2>11 DEF Counted
<1>8. QED
  BY <1>6, <1>7


(***************************************************************************)
(* A whole call of insert.                                                 *)
(***************************************************************************)

\* A reassembler q and the stream s it writes to, between two calls, when all
\* that was inserted is src.
Assembled(q, s, src, Byte, capacity) ==
  /\ DOMAIN q = {"m_buf", "m_bytes_pending", "m_stream_end"}
  /\ q.m_stream_end \in {Len(src), UINT64_MAX}
  /\ s \in ByteStreams(Byte, capacity)
  /\ Carries(s, src)
  /\ Blocks(q.m_buf, src, s.bytes_pushed_ + 1)
  /\ s.is_close_ <=> s.bytes_pushed_ = q.m_stream_end

LEMMA SourceNumbers ==
  ASSUME NEW Byte, NEW src \in Seq(Byte)
  PROVE  Len(src) \in Nat /\ Modulus64 \in Nat /\ SliceAlgebra(src, Byte)
BY ModulusAssumption, LenProperties, SliceFacts

LEMMA AssembledLengths ==
  ASSUME NEW Byte, NEW src \in Seq(Byte), NEW capacity \in Nat, Len(src) < UINT64_MAX,
         NEW q, NEW s, Assembled(q, s, src, Byte, capacity)
  PROVE  /\ s \in ByteStreams(Byte, capacity) /\ Carries(s, src)
         /\ s.bytes_popped_ \in Nat /\ s.bytes_pushed_ \in Nat
         /\ s.bytes_popped_ <= s.bytes_pushed_ /\ s.bytes_pushed_ <= Len(src)
         /\ Len(s.buffer_) = s.bytes_pushed_ - s.bytes_popped_
         /\ Len(s.buffer_) <= capacity
         /\ Writer_available_capacity(s) \in Nat
<1>1. s \in ByteStreams(Byte, capacity) /\ Carries(s, src)
  BY DEF Assembled
<1>2. /\ s.bytes_popped_ \in Nat /\ s.bytes_pushed_ \in Nat
      /\ Len(s.buffer_) = s.bytes_pushed_ - s.bytes_popped_
      /\ Len(s.buffer_) <= capacity
      /\ s.capacity_ = capacity
  BY <1>1, SourceNumbers, CarriesBuffer
<1>3. s.bytes_popped_ <= s.bytes_pushed_ /\ s.bytes_pushed_ <= Len(src)
  BY <1>1 DEF Carries
<1>4. Writer_available_capacity(s) \in Nat
  BY <1>2, <1>3, SourceNumbers DEF Writer_available_capacity
<1>5. QED
  BY <1>1, <1>2, <1>3, <1>4

\* The end it learns is the end of src: the sum does not wrap.
LEMMA LearnsEnd ==
  ASSUME NEW Byte, NEW src \in Seq(Byte), NEW capacity \in Nat, Len(src) < UINT64_MAX,
         NEW q, DOMAIN q = {"m_buf", "m_bytes_pending", "m_stream_end"},
         q.m_stream_end \in {Len(src), UINT64_MAX},
         NEW end \in 0 .. Len(src), NEW first \in 0 .. end,
         NEW last \in BOOLEAN, last => end = Len(src),
         NEW t, t = learn_end(q, first, Slice(src, first, end), last)
  PROVE  /\ DOMAIN t = DOMAIN q
         /\ t.m_buf = q.m_buf
         /\ t.m_stream_end = IF last THEN Len(src) ELSE q.m_stream_end
<1>1. first + Len(Slice(src, first, end)) = end
  <2>1. Len(Slice(src, first, end)) = end - first
    BY SourceNumbers DEF SliceAlgebra
  <2>2. QED
    BY <2>1
<1>2. CASE last
  <2>1. (first + Len(Slice(src, first, end))) % Modulus64 = Len(src)
    BY <1>1, <1>2, SourceNumbers DEF UINT64_MAX
  <2>2. t = [q EXCEPT !.m_stream_end = Len(src)]
    BY <1>2, <2>1 DEF learn_end
  <2>3. QED
    BY <1>2, <2>2
<1>3. CASE ~last
  BY <1>3 DEF learn_end
<1>4. QED
  BY <1>2, <1>3

\* Whatever stretch of src is inserted, the two stay consistent, nothing is
\* taken back, what fits is held, and what was held and fits stays.
LEMMA InsertIsAssembled ==
  ASSUME NEW Byte, NEW src \in Seq(Byte), NEW capacity \in Nat, Len(src) < UINT64_MAX,
         NEW q, NEW s, Assembled(q, s, src, Byte, capacity),
         NEW end \in 0 .. Len(src), NEW first \in 0 .. end,
         NEW last \in BOOLEAN, last => end = Len(src),
         NEW t, t = Reassembler_insert(q, first, Slice(src, first, end), last, s)
  PROVE  /\ DOMAIN t = {"reassembler", "output"}
         /\ Assembled(t.reassembler, t.output, src, Byte, capacity)
         /\ s.bytes_pushed_ <= t.output.bytes_pushed_
         /\ t.output.bytes_popped_ = s.bytes_popped_
         /\ s.is_close_ => t.output.is_close_
         /\ t.reassembler.m_stream_end = IF last THEN Len(src) ELSE q.m_stream_end
         /\ \A p \in Nat : /\ p < s.bytes_pushed_ + Writer_available_capacity(s)
                           /\ p < s.bytes_pushed_ \/ Stored(q.m_buf, p) \/ (first <= p /\ p < end)
                           => p < t.output.bytes_pushed_ \/ Stored(t.reassembler.m_buf, p)
<1>1. PICK pushed \in Nat, room \in Nat :
        pushed = s.bytes_pushed_ /\ room = Writer_available_capacity(s)
  BY AssembledLengths
<1>2. PICK known : known = learn_end(q, first, Slice(src, first, end), last)
  OBVIOUS
<1>3. /\ DOMAIN known = {"m_buf", "m_bytes_pending", "m_stream_end"}
      /\ known.m_buf = q.m_buf
      /\ known.m_stream_end = IF last THEN Len(src) ELSE q.m_stream_end
  BY <1>2, LearnsEnd DEF Assembled
<1>4. PICK stored : stored = insert_to_buffer(known, pushed, room, first, Slice(src, first, end))
  OBVIOUS
<1>5. /\ DOMAIN stored = {"m_buf", "m_bytes_pending", "m_stream_end"}
      /\ stored.m_stream_end = known.m_stream_end
      /\ Blocks(stored.m_buf, src, pushed)
      /\ \A p \in Nat : Stored(known.m_buf, p) => Stored(stored.m_buf, p)
      /\ \A p \in Nat : first <= p /\ p < end /\ pushed <= p /\ p < pushed + room
           => Stored(stored.m_buf, p)
  <2>1. Blocks(known.m_buf, src, pushed + 1)
    BY <1>1, <1>3 DEF Assembled
  <2>2. end \in Nat /\ first \in Nat /\ first <= end /\ end <= Len(src)
    BY SourceNumbers
  <2>3. src \in Seq(Byte) /\ DOMAIN known = {"m_buf", "m_bytes_pending", "m_stream_end"}
    BY <1>3, SourceNumbers
  <2>4. QED
    BY <1>4, <2>1, <2>2, <2>3, InsertToBuffer
<1>6. PICK w : w = write_to_stream(stored, s)
  OBVIOUS
<1>7. /\ DOMAIN w = {"reassembler", "output"}
      /\ w.output \in ByteStreams(Byte, capacity)
      /\ Carries(w.output, src)
      /\ pushed <= w.output.bytes_pushed_
      /\ w.output.bytes_popped_ = s.bytes_popped_
      /\ w.output.is_close_ = s.is_close_
      /\ DOMAIN w.reassembler = {"m_buf", "m_bytes_pending", "m_stream_end"}
      /\ w.reassembler.m_stream_end = stored.m_stream_end
      /\ Blocks(w.reassembler.m_buf, src, w.output.bytes_pushed_ + 1)
      /\ \A p \in Nat : Stored(stored.m_buf, p) /\ p < pushed + room
           => p < w.output.bytes_pushed_ \/ Stored(w.reassembler.m_buf, p)
  <2>1. Blocks(stored.m_buf, src, s.bytes_pushed_)
    BY <1>1, <1>5
  <2>2. QED
    BY <1>1, <1>5, <1>6, <2>1, AssembledLengths, SourceNumbers, WriteToStream
<1>8. t = close_at_end(w)
  BY <1>1, <1>2, <1>4, <1>6 DEF Reassembler_insert
<1>9. /\ DOMAIN t = DOMAIN w
      /\ t.reassembler = w.reassembler
      /\ t.output \in ByteStreams(Byte, capacity)
      /\ Carries(t.output, src)
      /\ t.output.bytes_pushed_ = w.output.bytes_pushed_
      /\ t.output.bytes_popped_ = w.output.bytes_popped_
      /\ t.output.is_close_ <=>
           w.output.is_close_ \/ w.output.bytes_pushed_ = w.reassembler.m_stream_end
  <2>1. CASE AtEnd(w.reassembler, w.output)
    <3>1. t = [w EXCEPT !.output = Writer_close(@)]
      BY <1>8, <2>1 DEF close_at_end
    <3>2. DOMAIN t = DOMAIN w /\ t.reassembler = w.reassembler /\ t.output = Writer_close(w.output)
      BY <1>7, <3>1
    <3>3. /\ t.output \in ByteStreams(Byte, capacity)
          /\ Carries(t.output, src)
          /\ t.output.bytes_pushed_ = w.output.bytes_pushed_
          /\ t.output.bytes_popped_ = w.output.bytes_popped_
          /\ t.output.is_close_
      BY <1>7, <3>2, SourceNumbers, CloseCarries
    <3>4. QED
      BY <2>1, <3>2, <3>3 DEF AtEnd
  <2>2. CASE ~AtEnd(w.reassembler, w.output)
    <3>1. t = w
      BY <1>8, <2>2 DEF close_at_end
    <3>2. QED
      BY <1>7, <2>2, <3>1 DEF AtEnd
  <2>3. QED
    BY <2>1, <2>2
<1>10. t.reassembler.m_stream_end = IF last THEN Len(src) ELSE q.m_stream_end
  BY <1>3, <1>5, <1>7, <1>9
<1>11. t.output.is_close_ <=> t.output.bytes_pushed_ = t.reassembler.m_stream_end
  <2>1. ASSUME s.is_close_
        PROVE  t.output.bytes_pushed_ = t.reassembler.m_stream_end
    <3>1. pushed = Len(src) /\ q.m_stream_end = Len(src)
      BY <1>1, <2>1, AssembledLengths, SourceNumbers DEF Assembled, UINT64_MAX
    <3>2. t.output.bytes_pushed_ \in Nat /\ t.output.bytes_pushed_ <= Len(src)
      BY <1>9 DEF ByteStreams, Carries
    <3>3. QED
      BY <1>7, <1>9, <1>10, <3>1, <3>2, SourceNumbers
  <2>2. QED
    BY <1>7, <1>9, <2>1
<1>12. Assembled(t.reassembler, t.output, src, Byte, capacity)
  <2>1. t.reassembler.m_stream_end \in {Len(src), UINT64_MAX}
    BY <1>10 DEF Assembled
  <2>2. DOMAIN t.reassembler = {"m_buf", "m_bytes_pending", "m_stream_end"}
    BY <1>7, <1>9
  <2>3. Blocks(t.reassembler.m_buf, src, t.output.bytes_pushed_ + 1)
    BY <1>7, <1>9
  <2>4. QED
    BY <1>9, <1>11, <2>1, <2>2, <2>3 DEF Assembled
<1>13. ASSUME NEW p \in Nat, p < pushed + room, p < s.bytes_pushed_ \/ Stored(q.m_buf, p) \/ (first <= p /\ p < end)
       PROVE  p < t.output.bytes_pushed_ \/ Stored(t.reassembler.m_buf, p)
  <2>1. p < pushed \/ Stored(stored.m_buf, p)
    BY <1>1, <1>3, <1>5, <1>13
  <2>2. t.output.bytes_pushed_ \in Nat
    BY <1>9 DEF ByteStreams
  <2>3. p < t.output.bytes_pushed_ \/ Stored(t.reassembler.m_buf, p)
    BY <1>7, <1>9, <1>13, <2>1, <2>2
  <2>4. QED
    BY <2>3
<1>14. QED
  BY <1>1, <1>7, <1>9, <1>10, <1>12, <1>13

\* One call of insert keeps the counter exact.
LEMMA InsertIsCounted ==
  ASSUME NEW Byte, NEW src \in Seq(Byte), NEW capacity \in Nat, Len(src) < UINT64_MAX,
         NEW q, NEW s, Assembled(q, s, src, Byte, capacity), Counted(q),
         NEW end \in 0 .. Len(src), NEW first \in 0 .. end,
         NEW last \in BOOLEAN, last => end = Len(src),
         NEW t, t = Reassembler_insert(q, first, Slice(src, first, end), last, s)
  PROVE  Counted(t.reassembler)
<1>1. PICK pushed \in Nat, room \in Nat :
        pushed = s.bytes_pushed_ /\ room = Writer_available_capacity(s)
  BY AssembledLengths
<1>2. PICK known : known = learn_end(q, first, Slice(src, first, end), last)
  OBVIOUS
<1>3. /\ DOMAIN known = {"m_buf", "m_bytes_pending", "m_stream_end"}
      /\ known.m_buf = q.m_buf
  BY <1>2, LearnsEnd DEF Assembled
<1>4. Counted(known)
  <2>1. known.m_bytes_pending = q.m_bytes_pending
    BY <1>2 DEF learn_end, Assembled
  <2>2. QED
    BY <1>3, <2>1 DEF Counted
<1>5. PICK stored : stored = insert_to_buffer(known, pushed, room, first, Slice(src, first, end))
  OBVIOUS
<1>6. /\ DOMAIN stored = {"m_buf", "m_bytes_pending", "m_stream_end"}
      /\ Blocks(stored.m_buf, src, pushed)
      /\ Counted(stored)
  <2>1. Blocks(known.m_buf, src, pushed + 1)
    BY <1>1, <1>3 DEF Assembled
  <2>2. end \in Nat /\ first \in Nat /\ first <= end /\ end <= Len(src)
    BY SourceNumbers
  <2>3. src \in Seq(Byte)
    BY SourceNumbers
  <2>4. QED
    BY <1>3, <1>4, <1>5, <2>1, <2>2, <2>3, InsertToBuffer, InsertCounts
<1>7. PICK w : w = write_to_stream(stored, s)
  OBVIOUS
<1>8. Counted(w.reassembler)
  <2>1. Blocks(stored.m_buf, src, s.bytes_pushed_)
    BY <1>1, <1>6
  <2>2. QED
    BY <1>6, <1>7, <2>1, AssembledLengths, SourceNumbers, WriteCounts
<1>9. t = close_at_end(w)
  BY <1>1, <1>2, <1>5, <1>7 DEF Reassembler_insert
<1>10. t.reassembler = w.reassembler
  BY <1>9 DEF close_at_end
<1>11. QED
  BY <1>8, <1>10

\* A substring without bytes that is not the last changes nothing at any index.
InsertsNothing(q, s, src, index) ==
  Reassembler_insert(q, index, <<>>, FALSE, s) =
    Reassembler_insert(q, 0, Slice(src, 0, 0), FALSE, s)

LEMMA InsertNothing ==
  ASSUME NEW Byte, NEW src \in Seq(Byte), NEW capacity \in Nat, Len(src) < UINT64_MAX,
         NEW q, NEW s, Assembled(q, s, src, Byte, capacity), NEW index \in Nat
  PROVE  InsertsNothing(q, s, src, index)
<1>1. PICK low \in Nat, room \in Nat :
        low = s.bytes_pushed_ /\ room = Writer_available_capacity(s)
  BY AssembledLengths
<1>2. Slice(src, 0, 0) = <<>> /\ Len(<<>>) = 0 /\ 0 \in Nat
  BY SliceEmpty, EmptySeq
<1>3. ASSUME NEW i \in Nat
      PROVE  insert_to_buffer(q, low, room, i, <<>>) = q
  <2>1. Blocks(q.m_buf, src, low + 1) /\ Len(src) \in Nat
    BY <1>1, SourceNumbers DEF Assembled
  <2>2. PICK e, b : /\ e = ClampedEnd(q.m_buf, low + room, i + Len(<<>>))
                    /\ b = ClampedBegin(q.m_buf, i, Most(low, i))
    OBVIOUS
  <2>3. i + Len(<<>>) = i /\ low + room \in Nat
    BY <1>2
  <2>4. b \in Nat /\ e \in Nat /\ i <= b /\ e <= i
    BY <2>1, <2>2, <2>3, ClampedFits
  <2>5. b >= e
    BY <2>4
  <2>6. QED
    BY <2>2, <2>5 DEF insert_to_buffer
<1>4. \A i : learn_end(q, i, <<>>, FALSE) = q
  BY DEF learn_end
<1>5. \A i \in Nat : Reassembler_insert(q, i, <<>>, FALSE, s) = close_at_end(write_to_stream(q, s))
  BY <1>1, <1>3, <1>4 DEF Reassembler_insert
<1>6. QED
  BY <1>2, <1>5 DEF InsertsNothing

\* insert leaves the error of the stream as it was.
LEMMA InsertKeepsError ==
  ASSUME NEW Byte, NEW capacity, NEW s \in ByteStreams(Byte, capacity),
         NEW q, NEW first, NEW data, NEW last,
         NEW t, t = Reassembler_insert(q, first, data, last, s)
  PROVE  t.output.error_ = s.error_
<1>1. PICK stored : t = close_at_end(write_to_stream(stored, s))
  BY DEF Reassembler_insert
<1>2. PICK w : w = write_to_stream(stored, s)
  OBVIOUS
<1>3. /\ DOMAIN w = {"reassembler", "output"}
      /\ "error_" \in DOMAIN w.output /\ w.output.error_ = s.error_
  <2>1. "error_" \in DOMAIN s
    BY DEF ByteStreams
  <2>2. ASSUME NEW data2
        PROVE  /\ "error_" \in DOMAIN Writer_push(s, data2)
               /\ Writer_push(s, data2).error_ = s.error_
    BY <2>1 DEF Writer_push
  <2>3. CASE Written(stored.m_buf, s) = {}
    BY <1>2, <2>1, <2>3 DEF write_to_stream
  <2>4. CASE Written(stored.m_buf, s) # {}
    <3>1. PICK rest, data2 : w = [reassembler |-> rest, output |-> Writer_push(s, data2)]
      BY <1>2, <2>4 DEF write_to_stream
    <3>2. QED
      BY <2>2, <3>1
  <2>5. QED
    BY <2>3, <2>4
<1>4. CASE AtEnd(w.reassembler, w.output)
  <2>1. t = [w EXCEPT !.output = Writer_close(@)]
    BY <1>1, <1>2, <1>4 DEF close_at_end
  <2>2. t.output = Writer_close(w.output)
    BY <1>3, <2>1
  <2>3. QED
    BY <1>3, <2>2 DEF Writer_close
<1>5. CASE ~AtEnd(w.reassembler, w.output)
  BY <1>1, <1>2, <1>3, <1>5 DEF close_at_end
<1>6. QED
  BY <1>4, <1>5

\* What was assembled from the beginning of src is so when more of src is
\* there to come, unless the end was learned.
LEMMA AssembledExtends ==
  ASSUME NEW Byte, NEW src \in Seq(Byte), NEW capacity \in Nat,
         NEW n \in Nat, NEW m \in Nat, n <= m, m <= Len(src),
         NEW q, NEW s, Assembled(q, s, Slice(src, 0, n), Byte, capacity),
         q.m_stream_end = UINT64_MAX \/ n = m
  PROVE  Assembled(q, s, Slice(src, 0, m), Byte, capacity)
<1>1. CASE n = m
  BY <1>1
<1>2. CASE q.m_stream_end = UINT64_MAX
  <2>1. PICK a, b : a = Slice(src, 0, n) /\ b = Slice(src, 0, m)
    OBVIOUS
  <2>2. SliceAlgebra(src, Byte) /\ Len(src) \in Nat /\ 0 \in Nat /\ 0 <= n /\ 0 <= m /\ n <= Len(src)
    BY SourceNumbers
  <2>3. Len(a) = n /\ Len(b) = m
    <3>1. Len(a) = n - 0 /\ Len(b) = m - 0
      BY <2>1, <2>2 DEF SliceAlgebra
    <3>2. QED
      BY <3>1
  <2>4. ASSUME NEW i \in Nat, NEW j \in Nat, i <= j, j <= n
        PROVE  Slice(a, i, j) = Slice(b, i, j)
    <3>1. j <= n - 0 /\ j <= m - 0 /\ 0 + i = i /\ 0 + j = j
      BY <2>4
    <3>2. Slice(a, i, j) = Slice(src, 0 + i, 0 + j)
      BY <2>1, <2>2, <2>4, <3>1, SliceOfSlice
    <3>3. Slice(b, i, j) = Slice(src, 0 + i, 0 + j)
      BY <2>1, <2>2, <2>4, <3>1, SliceOfSlice
    <3>4. QED
      BY <3>1, <3>2, <3>3
  <2>5. /\ DOMAIN q = {"m_buf", "m_bytes_pending", "m_stream_end"}
        /\ s \in ByteStreams(Byte, capacity) /\ Carries(s, a) /\ Blocks(q.m_buf, a, s.bytes_pushed_ + 1)
        /\ s.is_close_ <=> s.bytes_pushed_ = q.m_stream_end
    BY <2>1 DEF Assembled
  <2>6. PICK popped \in Nat, pushed \in Nat : popped = s.bytes_popped_ /\ pushed = s.bytes_pushed_
    BY <2>5 DEF ByteStreams
  <2>7. Carries(s, b)
    BY <2>3, <2>4, <2>5, <2>6 DEF Carries
  <2>8. Blocks(q.m_buf, b, s.bytes_pushed_ + 1)
    <3>1. ASSUME NEW k \in DOMAIN q.m_buf
          PROVE  /\ End(q.m_buf, k) <= m
                 /\ q.m_buf[k] = Slice(b, k, End(q.m_buf, k))
      <4>1. PICK e \in Nat : /\ e = End(q.m_buf, k) /\ k \in Nat /\ k < e /\ e <= n
                             /\ q.m_buf[k] = Slice(a, k, e)
        BY <2>3, <2>5 DEF Blocks
      <4>2. QED
        BY <2>4, <4>1
    <3>2. QED
      BY <2>3, <2>5, <3>1 DEF Blocks
  <2>9. QED
    BY <1>2, <2>1, <2>5, <2>7, <2>8 DEF Assembled
<1>3. QED
  BY <1>1, <1>2
=============================================================================
