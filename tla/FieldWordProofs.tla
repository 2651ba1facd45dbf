--------------------------- MODULE FieldWordProofs ---------------------------
(***************************************************************************)
(* A packed word of any width does what the pair algebra says, and a head  *)
(* counts blocks.                                                          *)
(***************************************************************************)
EXTENDS FieldWord, Integers, WellFoundedInduction, TLAPS

(* Every set of numbers has a least one.                                   *)
LEMMA LeastNumber == ASSUME NEW S \in SUBSET Nat, S # {} PROVE \E x \in S : \A y \in S : x <= y
<1> DEFINE R == {ss \in Nat \X Nat : ss[1] < ss[2]}
<1>1. IsWellFoundedOn(R, Nat)
  BY NatLessThanWellFounded, SMT DEF OpToRel
<1>2. \E x \in S : \A y \in S : ~ (<<y, x>> \in R)
  <2> HIDE DEF R
  <2> QED BY <1>1, WFMin
<1>3. \A x, y \in S : <<y, x>> \notin R => x <= y
  BY DEF R
<1>4. QED
  BY <1>2, <1>3

(* Induction, for a set of numbers.                                        *)
LEMMA Induction ==
    ASSUME NEW P, 0 \in P, \A n \in Nat : n \in P => n + 1 \in P
    PROVE  Nat \subseteq P
<1> DEFINE S == {n \in Nat : n \notin P}
<1>1. SUFFICES ASSUME S # {} PROVE FALSE
  OBVIOUS
<1>2. PICK x \in S : \A y \in S : x <= y
  BY <1>1, LeastNumber
<1>3. x # 0 /\ x - 1 \in Nat /\ x - 1 \notin S
  BY <1>2
<1>4. QED
  BY <1>2, <1>3
-----------------------------------------------------------------------------
(* f is 2^k as far as n.                                                   *)
PowersTo(n, f) == /\ f \in [0 .. n -> Nat \ {0}]
                  /\ f[0] = 1 /\ \A k \in 1 .. n : f[k] = 2 * f[k - 1]

(* There are powers of two as far as one wants.                            *)
LEMMA PowersReach == \A n \in Nat : \E f : PowersTo(n, f)
<1> DEFINE P == {n \in Nat : \E f : PowersTo(n, f)}
<1>1. 0 \in P
  <2>1. PowersTo(0, [k \in 0 .. 0 |-> 1])
    BY DEF PowersTo
  <2>2. QED
    BY <2>1
<1>2. ASSUME NEW n \in Nat, n \in P PROVE n + 1 \in P
  <2>1. PICK f : PowersTo(n, f)
    BY <1>2
  <2> DEFINE g == [k \in 0 .. n + 1 |-> IF k = n + 1 THEN 2 * f[n] ELSE f[k]]
  <2>2. PowersTo(n + 1, g)
    BY <2>1 DEF PowersTo
  <2>3. QED
    BY <2>2
<1>3. Nat \subseteq P
  <2> HIDE DEF P
  <2> QED BY <1>1, <1>2, Induction
<1>4. QED
  BY <1>3

(* They are the same however far one goes.                                 *)
LEMMA PowersAgree ==
    ASSUME NEW m \in Nat, NEW n \in Nat, NEW f, NEW g, PowersTo(m, f), PowersTo(n, g),
           NEW k \in Nat, k <= m, k <= n
    PROVE  f[k] = g[k]
<1> DEFINE S == {j \in Nat : j <= m /\ j <= n /\ f[j] # g[j]}
<1>1. SUFFICES ASSUME S # {} PROVE FALSE
  OBVIOUS
<1>2. PICK j \in S : \A i \in S : j <= i
  BY <1>1, LeastNumber
<1>3. j # 0
  BY <1>2 DEF PowersTo
<1>4. j - 1 \in Nat /\ j \in 1 .. m /\ j \in 1 .. n /\ f[j - 1] = g[j - 1]
  BY <1>2, <1>3
<1>5. QED
  BY <1>2, <1>4 DEF PowersTo

(* Pow2 is what it is defined to be.                                       *)
LEMMA PowerLemma ==
    /\ Pow2[0] = 1
    /\ \A k \in Nat : Pow2[k] \in Nat \ {0} /\ Pow2[k + 1] = 2 * Pow2[k]
<1> DEFINE to(n) == CHOOSE f : PowersTo(n, f)
           power == [n \in Nat |-> to(n)[n]]
<1>1. \A n \in Nat : PowersTo(n, to(n))
  BY PowersReach
<1>2. \A n \in Nat : power[n] \in Nat \ {0} /\ power[0] = 1 /\ power[n + 1] = 2 * power[n]
  <2>1. TAKE n \in Nat
  <2>2. PowersTo(n, to(n)) /\ PowersTo(n + 1, to(n + 1)) /\ PowersTo(0, to(0)) /\ n + 1 \in Nat
    BY <1>1
  <2>3. to(n + 1)[n] = to(n)[n]
    <3> HIDE DEF to
    <3> QED BY <2>2, PowersAgree
  <2>4. QED
    <3> HIDE DEF to
    <3> QED BY <2>2, <2>3 DEF PowersTo
<1>3. power = [k \in Nat |-> IF k = 0 THEN 1 ELSE 2 * power[k - 1]]
  <2>1. \A k \in Nat : k # 0 => k - 1 \in Nat /\ (k - 1) + 1 = k
    OBVIOUS
  <2>2. \A k \in Nat : power[k] = IF k = 0 THEN 1 ELSE 2 * power[k - 1]
    <3> HIDE DEF power
    <3> QED BY <1>2, <2>1
  <2>3. power = [k \in Nat |-> power[k]]
    OBVIOUS
  <2>4. QED
    <3> HIDE DEF power
    <3> QED BY <2>2, <2>3
<1>4. Pow2 = [k \in Nat |-> IF k = 0 THEN 1 ELSE 2 * Pow2[k - 1]]
  <2> HIDE DEF power
  <2> QED BY <1>3 DEF Pow2
<1>5. Pow2 = power
  <2> DEFINE S == {n \in Nat : Pow2[n] # power[n]}
  <2>1. \A k \in Nat : Pow2[k] = IF k = 0 THEN 1 ELSE 2 * Pow2[k - 1]
    BY <1>4
  <2>2. S = {}
    <3>1. SUFFICES ASSUME S # {} PROVE FALSE
      OBVIOUS
    <3>2. PICK n \in S : \A m \in S : n <= m
      BY <3>1, LeastNumber
    <3> HIDE DEF power
    <3>3. n # 0
      BY <1>2, <2>1, <3>2
    <3>4. n - 1 \in Nat /\ (n - 1) + 1 = n /\ n - 1 \notin S
      BY <3>2, <3>3
    <3>5. QED
      BY <1>2, <2>1, <3>2, <3>3, <3>4
  <2>3. \A n \in Nat : Pow2[n] = power[n]
    BY <2>2
  <2>4. Pow2 = [k \in Nat |-> Pow2[k]] /\ power = [k \in Nat |-> power[k]]
    BY <1>4
  <2>5. QED
    <3> HIDE DEF power
    <3> QED BY <2>3, <2>4
<1>6. QED
  <2> HIDE DEF power
  <2> QED BY <1>2, <1>5

(* Powers multiply.                                                        *)
LEMMA PowersMultiply == ASSUME NEW a \in Nat, NEW b \in Nat PROVE Pow2[a + b] = Pow2[a] * Pow2[b]
<1> DEFINE P == {n \in Nat : Pow2[a + n] = Pow2[a] * Pow2[n]}
<1>1. 0 \in P
  BY PowerLemma
<1>2. ASSUME NEW n \in Nat, n \in P PROVE n + 1 \in P
  <2>1. /\ Pow2[a + n] = Pow2[a] * Pow2[n] /\ Pow2[a] \in Nat /\ Pow2[n] \in Nat
        /\ Pow2[n + 1] = 2 * Pow2[n]
    BY <1>2, PowerLemma
  <2>2. Pow2[a + (n + 1)] = 2 * Pow2[a + n]
    <3>1. a + n \in Nat /\ a + (n + 1) = (a + n) + 1
      OBVIOUS
    <3>2. QED
      BY <3>1, PowerLemma
  <2>3. Pow2[a] * (2 * Pow2[n]) = 2 * (Pow2[a] * Pow2[n])
    BY <2>1
  <2>4. QED
    BY <2>1, <2>2, <2>3
<1>3. Nat \subseteq P
  <2> HIDE DEF P
  <2> QED BY <1>1, <1>2, Induction
<1>4. QED
  BY <1>3

(* Larger powers are at least twice as large.                              *)
LEMMA PowersDouble ==
    ASSUME NEW j \in Nat, NEW k \in Nat, j < k
    PROVE  2 * Pow2[j] <= Pow2[k]
<1>1. PICK d \in Nat : k = (j + 1) + d
  <2>1. k - (j + 1) \in Nat /\ k = (j + 1) + (k - (j + 1))
    OBVIOUS
  <2>2. QED
    BY <2>1
<1>2. Pow2[k] = Pow2[j + 1] * Pow2[d] /\ Pow2[j + 1] = 2 * Pow2[j]
  <2>1. j + 1 \in Nat
    OBVIOUS
  <2>2. Pow2[(j + 1) + d] = Pow2[j + 1] * Pow2[d]
    BY <2>1, PowersMultiply
  <2>3. QED
    BY <1>1, <2>2, PowerLemma
<1>3. Pow2[j + 1] \in Nat /\ Pow2[d] \in Nat /\ Pow2[d] >= 1
  BY PowerLemma
<1>4. Pow2[j + 1] * Pow2[d] >= Pow2[j + 1]
  BY <1>3
<1>5. QED
  BY <1>2, <1>3, <1>4
-----------------------------------------------------------------------------
(* What a word is made of: spans of indices, as many as there are versions.*)
Range == Pow2[Width - VersionShift]

(* The index bits hold index_max, and would not with one bit less.         *)
LEMMA ShiftLemma ==
    ASSUME indexMax \in 1 .. MaxIndexMax
    PROVE  /\ VersionShift \in 0 .. Width
           /\ Span \in Nat \ {0} /\ indexMax < Span /\ Span <= 2 * indexMax
           /\ Range \in Nat \ {0} /\ Pow2[Width] = Span * Range
<1> USE WidthAssumption
<1>1. /\ Width \in Nat /\ Width - 1 \in Nat /\ Pow2[Width - 1] \in Nat /\ indexMax \in Nat
      /\ Pow2[Width] = 2 * Pow2[Width - 1] /\ 1 <= indexMax /\ indexMax < Pow2[Width]
  <2>1. Width - 1 \in Nat /\ (Width - 1) + 1 = Width
    OBVIOUS
  <2>2. Pow2[Width - 1] \in Nat \ {0} /\ Pow2[Width] = 2 * Pow2[Width - 1]
    BY <2>1, PowerLemma
  <2>3. QED
    BY <2>1, <2>2
<1>2. \E k \in 0 .. Width : indexMax < Pow2[k] /\ (k = 0 \/ Pow2[k - 1] <= indexMax)
  <2> DEFINE S == {k \in Nat : indexMax < Pow2[k]}
  <2>1. Width \in S
    BY <1>1
  <2>2. PICK k \in S : \A j \in S : k <= j
    BY <2>1, LeastNumber
  <2>3. k # 0 => k - 1 \in Nat /\ k - 1 \notin S /\ Pow2[k - 1] \in Nat
    BY <2>2, PowerLemma
  <2>4. k \in 0 .. Width
    BY <2>1, <2>2
  <2>5. k = 0 \/ Pow2[k - 1] <= indexMax
    BY <1>1, <2>3
  <2>6. QED
    BY <2>2, <2>4, <2>5
<1>3. /\ VersionShift \in 0 .. Width /\ indexMax < Pow2[VersionShift]
      /\ VersionShift = 0 \/ Pow2[VersionShift - 1] <= indexMax
  BY <1>2 DEF VersionShift, BitLength
<1>4. VersionShift # 0
  BY <1>1, <1>3, PowerLemma
<1>5. /\ Pow2[VersionShift] = 2 * Pow2[VersionShift - 1] /\ Pow2[VersionShift] \in Nat \ {0}
      /\ Pow2[VersionShift - 1] \in Nat
  <2>1. VersionShift - 1 \in Nat /\ (VersionShift - 1) + 1 = VersionShift
    BY <1>1, <1>3, <1>4
  <2>2. QED
    BY <2>1, PowerLemma
<1>6. Width - VersionShift \in Nat /\ VersionShift \in Nat /\ VersionShift + (Width - VersionShift) = Width
  BY <1>1, <1>3
<1>7. Range \in Nat \ {0} /\ Pow2[Width] = Span * Range
  BY <1>6, PowerLemma, PowersMultiply DEF Range, Span
<1>8. QED
  BY <1>1, <1>3, <1>4, <1>5, <1>7 DEF Span

(* There is only one such power.                                           *)
LEMMA SpanLemma ==
    ASSUME indexMax \in 1 .. MaxIndexMax
    PROVE  IndexSpan = Span /\ Pow2[Width] \div IndexSpan = Range
<1>1. /\ VersionShift \in 0 .. Width /\ Span = Pow2[VersionShift]
      /\ Span \in Nat \ {0} /\ indexMax < Span /\ Span <= 2 * indexMax
      /\ Range \in Nat \ {0} /\ Pow2[Width] = Span * Range
  BY ShiftLemma DEF Span
<1>2. \A k \in 0 .. Width :
          indexMax < Pow2[k] /\ Pow2[k] <= 2 * indexMax => Pow2[k] = Span
  <2>1. SUFFICES ASSUME NEW k \in 0 .. Width, indexMax < Pow2[k], Pow2[k] <= 2 * indexMax,
                        k # VersionShift
                 PROVE  FALSE
    BY <1>1
  <2>2. k \in Nat /\ VersionShift \in Nat /\ Pow2[k] \in Nat /\ indexMax \in Nat
    BY <1>1, PowerLemma, WidthAssumption
  <2>3. ~ (k < VersionShift)
    BY <1>1, <2>1, <2>2, PowersDouble
  <2>4. ~ (VersionShift < k)
    BY <1>1, <2>1, <2>2, PowersDouble
  <2>5. QED
    BY <2>1, <2>2, <2>3, <2>4
<1>3. IndexSpan = Span
  <2> DEFINE C == {Pow2[k] : k \in 0 .. Width}
  <2>1. Span \in C
    BY <1>1
  <2>2. \A m \in C : indexMax < m /\ m <= 2 * indexMax => m = Span
    BY <1>2
  <2>3. QED
    BY <1>1, <2>1, <2>2 DEF IndexSpan
<1>4. (Span * Range) \div Span = Range
  <2> HIDE DEF Span, Range
  <2>1. Span \in Nat \ {0} /\ Range \in Nat
    BY <1>1
  <2>2. QED
    BY <2>1
<1>5. QED
  BY <1>1, <1>3, <1>4
-----------------------------------------------------------------------------
(* A quotient and a remainder are what they were made from.                *)
LEMMA QuotientLemma ==
    ASSUME NEW s \in Nat \ {0}, NEW q \in Nat, NEW r \in 0 .. s - 1
    PROVE  (s * q + r) \div s = q /\ (s * q + r) % s = r
<1> DEFINE n == s * q + r
<1>1. n \in Nat
  OBVIOUS
<1>2. n \div s \in Nat /\ n % s \in 0 .. s - 1 /\ n = s * (n \div s) + (n % s)
  <2> HIDE DEF n
  <2> QED BY <1>1
<1>3. n \div s = q
  <2> DEFINE d == n \div s
  <2>1. d \in Nat /\ s * q + r < s * d + s /\ s * d <= s * q + r
    <3> HIDE DEF d
    <3> QED BY <1>2 DEF d
  <2>2. ~ (d < q)
    <3> HIDE DEF d
    <3>1. d < q => s * (d + 1) <= s * q
      BY <2>1
    <3>2. s * (d + 1) = s * d + s
      BY <2>1
    <3>3. QED
      BY <2>1, <3>1, <3>2
  <2>3. ~ (q < d)
    <3> HIDE DEF d
    <3>1. q < d => s * (q + 1) <= s * d
      BY <2>1
    <3>2. s * (q + 1) = s * q + s
      OBVIOUS
    <3>3. QED
      BY <2>1, <3>1, <3>2
  <2>4. QED
    <3> HIDE DEF d
    <3>1. d = q
      BY <2>1, <2>2, <2>3
    <3>2. QED
      BY <3>1 DEF d
<1>4. n % s = r
  <2> HIDE DEF n
  <2>1. n = s * q + (n % s)
    BY <1>2, <1>3
  <2>2. n = s * q + r
    BY DEF n
  <2>3. n % s \in Int /\ s * q \in Int /\ r \in Int
    BY <1>2
  <2>4. QED
    <3> DEFINE m == n % s
               p == s * q
    <3>1. n = p + m /\ n = p + r /\ m \in Int /\ p \in Int /\ r \in Int
      BY <2>1, <2>2, <2>3
    <3>2. m = r
      <4> HIDE DEF m, p
      <4> QED BY <3>1
    <3>3. QED
      BY <3>2
<1>5. QED
  BY <1>3, <1>4

(* A word is a version and an index.                                       *)
LEMMA PartsLemma ==
    ASSUME indexMax \in 1 .. MaxIndexMax, NEW w \in 0 .. Pow2[Width] - 1
    PROVE  /\ GetVersion(w) \in 0 .. Range - 1 /\ GetIndex(w) \in 0 .. Span - 1
           /\ w = Span * GetVersion(w) + GetIndex(w)
<1>1. Span \in Nat \ {0} /\ Range \in Nat \ {0} /\ Pow2[Width] = Span * Range
  BY ShiftLemma
<1>2. Span * Range \in Nat
  BY <1>1
<1>3. w \in Nat /\ w < Span * Range
  BY <1>1, <1>2
<1>4. w \div Span \in Nat /\ w % Span \in 0 .. Span - 1 /\ w = Span * (w \div Span) + (w % Span)
  <2> HIDE DEF Span, Range
  <2> QED BY <1>1, <1>3
<1>5. w \div Span < Range
  <2> DEFINE d == w \div Span
  <2>1. d \in Nat /\ Span * d < Span * Range
    <3>1. d \in Nat /\ Span * d \in Nat /\ w = Span * d + (w % Span) /\ w % Span \in Nat
      BY <1>1, <1>4
    <3>2. QED
      BY <1>2, <1>3, <3>1
  <2>2. Range <= d => Span * Range <= Span * d
    <3> HIDE DEF d, Span, Range
    <3> QED BY <1>1, <2>1
  <2>3. d < Range
    <3> HIDE DEF d
    <3>1. Span * d \in Nat
      BY <1>1, <2>1
    <3>2. QED
      BY <1>1, <1>2, <2>1, <2>2, <3>1
  <2>4. QED
    BY <2>3
<1>6. QED
  BY <1>1, <1>4, <1>5 DEF GetVersion, GetIndex

(* Packing keeps the index, and the version up to its wrap-around.         *)
LEMMA PackLemma ==
    ASSUME indexMax \in 1 .. MaxIndexMax, NEW version \in Nat, NEW index \in 0 .. Span - 1
    PROVE  /\ Pack(version, index) \in 0 .. Pow2[Width] - 1
           /\ GetVersion(Pack(version, index)) = version % Range
           /\ GetIndex(Pack(version, index)) = index
<1>1. Span \in Nat \ {0} /\ Range \in Nat \ {0} /\ Pow2[Width] = Span * Range
  BY ShiftLemma
<1> DEFINE q == version \div Range
           r == version % Range
<1>2. q \in Nat /\ r \in 0 .. Range - 1 /\ version = Range * q + r
  <2>1. version \div Range \in Nat /\ version % Range \in 0 .. Range - 1
        /\ version = Range * (version \div Range) + (version % Range)
    <3> HIDE DEF Range
    <3> QED BY <1>1
  <2>2. QED
    BY <2>1
<1>3. /\ Span * Range \in Nat \ {0} /\ Span * r \in Nat /\ Span * r + Span <= Span * Range
      /\ version * Span = (Span * Range) * q + Span * r
  <2> HIDE DEF Span, Range, q, r
  <2>1. Span * Range \in Nat \ {0} /\ Span * r \in Nat
    BY <1>1, <1>2
  <2>2. Span * (r + 1) <= Span * Range
    BY <1>1, <1>2
  <2>3. Span * (r + 1) = Span * r + Span
    BY <1>1, <1>2
  <2>4. (Range * q + r) * Span = (Span * Range) * q + Span * r
    BY <1>1, <1>2
  <2>5. QED
    BY <1>2, <2>1, <2>2, <2>3, <2>4
<1>4. Usize(version * Span) = Span * r
  <2> DEFINE a == Span * Range
             b == Span * r
  <2>1. a \in Nat \ {0} /\ b \in 0 .. a - 1
    <3>1. a \in Nat \ {0} /\ b \in Nat /\ b + Span <= a
      BY <1>3
    <3> HIDE DEF a, b
    <3>2. QED
      BY <1>1, <3>1
  <2>2. (a * q + b) % a = b
    <3> HIDE DEF a, b, q
    <3> QED BY <1>2, <2>1, QuotientLemma
  <2>3. QED
    BY <1>1, <1>3, <2>2 DEF Usize
<1>5. index % Span = index
  <2> HIDE DEF Span
  <2> QED BY <1>1
<1>6. Pack(version, index) = Span * r + index
  BY <1>4, <1>5 DEF Pack
<1>7. (Span * r + index) \div Span = r /\ (Span * r + index) % Span = index
  <2> HIDE DEF Span, r
  <2> QED BY <1>1, <1>2, QuotientLemma
<1>8. Span * r + index \in 0 .. Span * Range - 1
  <2> DEFINE a == Span * Range
             b == Span * r
  <2>1. a \in Nat /\ b \in Nat /\ b + Span <= a
    BY <1>3
  <2>2. b + index \in 0 .. a - 1
    <3> HIDE DEF a, b, Span
    <3> QED BY <1>1, <2>1
  <2>3. QED
    BY <2>2
<1>9. QED
  BY <1>1, <1>6, <1>7, <1>8 DEF GetVersion, GetIndex

(* Words compare as the pairs they stand for.                              *)
LEMMA WordOrder ==
    ASSUME indexMax \in 1 .. MaxIndexMax,
           NEW w \in 0 .. Pow2[Width] - 1, NEW x \in 0 .. Pow2[Width] - 1
    PROVE  w <= x <=> \/ GetVersion(w) < GetVersion(x)
                      \/ GetVersion(w) = GetVersion(x) /\ GetIndex(w) <= GetIndex(x)
<1> DEFINE a == GetVersion(w)
           b == GetVersion(x)
           i == GetIndex(w)
           j == GetIndex(x)
<1>1. /\ a \in Nat /\ i \in 0 .. Span - 1 /\ w = Span * a + i
      /\ b \in Nat /\ j \in 0 .. Span - 1 /\ x = Span * b + j
  <2>1. /\ a \in 0 .. Range - 1 /\ i \in 0 .. Span - 1 /\ w = Span * a + i
        /\ b \in 0 .. Range - 1 /\ j \in 0 .. Span - 1 /\ x = Span * b + j
    BY PartsLemma
  <2>2. Range \in Nat
    BY ShiftLemma
  <2>3. QED
    BY <2>1, <2>2
<1>2. Span \in Nat \ {0}
  BY ShiftLemma
<1>3. Span * a + i <= Span * b + j <=> a < b \/ (a = b /\ i <= j)
  <2> HIDE DEF Span, a, b, i, j
  <2>1. Span * a \in Nat /\ Span * b \in Nat
    BY <1>1, <1>2
  <2>2. CASE a < b
    <3>1. Span * (a + 1) <= Span * b /\ Span * (a + 1) = Span * a + Span
      BY <1>1, <1>2, <2>2
    <3>2. QED
      BY <1>1, <1>2, <2>1, <2>2, <3>1
  <2>3. CASE b < a
    <3>1. Span * (b + 1) <= Span * a /\ Span * (b + 1) = Span * b + Span
      BY <1>1, <1>2, <2>3
    <3>2. QED
      BY <1>1, <1>2, <2>1, <2>3, <3>1
  <2>4. CASE a = b
    BY <1>1, <1>2, <2>1, <2>4
  <2>5. QED
    BY <1>1, <2>2, <2>3, <2>4
<1>4. QED
  BY <1>1, <1>3
-----------------------------------------------------------------------------
(* A word stays a word of its width, and index_max stays what it was.      *)
TypeOK == indexMax \in 1 .. MaxIndexMax /\ word \in 0 .. Pow2[Width] - 1

(* The pair a word stands for.                                             *)
PairOf(w) == [v |-> GetVersion(w), i |-> GetIndex(w)]

(* fetch_max of two words is fetch_max of their pairs.                     *)
LEMMA MaxMaps ==
    ASSUME indexMax \in 1 .. MaxIndexMax,
           NEW w \in 0 .. Pow2[Width] - 1, NEW x \in 0 .. Pow2[Width] - 1
    PROVE  /\ FetchMax(w, x) \in 0 .. Pow2[Width] - 1
           /\ PairOf(FetchMax(w, x)) = Pairs!MaxPair(PairOf(w), PairOf(x))
<1>1. w <= x <=> Pairs!AtMost(PairOf(w), PairOf(x))
  BY WordOrder DEF PairOf, Pairs!AtMost
<1>2. QED
  BY <1>1 DEF FetchMax, Pairs!MaxPair

(* A word whose index steps within its bits is followed by the next one.   *)
LEMMA AddFits ==
    ASSUME indexMax \in 1 .. MaxIndexMax, NEW w \in 0 .. Pow2[Width] - 1,
           GetIndex(w) + 1 < Span
    PROVE  /\ w + 1 \in 0 .. Pow2[Width] - 1 /\ FetchAdd(w) = w + 1
           /\ PairOf(w + 1) = [v |-> GetVersion(w), i |-> GetIndex(w) + 1]
<1> DEFINE a == GetVersion(w)
           i == GetIndex(w)
<1>1. /\ Span \in Nat \ {0} /\ Range \in Nat \ {0} /\ Pow2[Width] = Span * Range
      /\ a \in 0 .. Range - 1 /\ i \in 0 .. Span - 1 /\ i + 1 < Span /\ w = Span * a + i
  BY ShiftLemma, PartsLemma
<1>2. Span * Range \in Nat \ {0} /\ Span * a \in Nat
  <2> HIDE DEF Span, Range, a
  <2> QED BY <1>1
<1>3. Span * a + Span <= Span * Range
  <2> HIDE DEF Span, Range, a
  <2>1. Span * (a + 1) <= Span * Range /\ Span * (a + 1) = Span * a + Span
    BY <1>1
  <2>2. QED
    BY <2>1
<1>4. w + 1 \in 0 .. Pow2[Width] - 1 /\ w + 1 = Span * a + (i + 1)
  <2> DEFINE p == Span * Range
             q == Span * a
  <2>1. p \in Nat /\ q \in Nat /\ q + Span <= p /\ Pow2[Width] = p /\ w = q + i
    BY <1>1, <1>2, <1>3
  <2>2. w + 1 \in 0 .. p - 1 /\ w + 1 = q + (i + 1)
    <3> HIDE DEF p, q, Span, i, a
    <3> QED BY <1>1, <2>1
  <2>3. QED
    BY <2>1, <2>2
<1>5. FetchAdd(w) = w + 1
  BY <1>1, <1>2, <1>4 DEF FetchAdd, Usize
<1>6. (Span * a + (i + 1)) \div Span = a /\ (Span * a + (i + 1)) % Span = i + 1
  <2>1. a \in Nat /\ i + 1 \in 0 .. Span - 1
    BY <1>1
  <2> HIDE DEF Span, a, i
  <2>2. QED
    BY <1>1, <2>1, QuotientLemma
<1>7. PairOf(w + 1) = [v |-> a, i |-> i + 1]
  BY <1>4, <1>6 DEF PairOf, GetVersion, GetIndex
<1>8. QED
  BY <1>4, <1>5, <1>7

(* fetch_add(1) steps the index, carries into the version when the index   *)
(* bits are full, and wraps when the version bits are.                     *)
LEMMA AddMaps ==
    ASSUME indexMax \in 1 .. MaxIndexMax, NEW w \in 0 .. Pow2[Width] - 1
    PROVE  /\ FetchAdd(w) \in 0 .. Pow2[Width] - 1
           /\ PairOf(FetchAdd(w)) =
                  IF GetIndex(w) + 1 < Span THEN [v |-> GetVersion(w), i |-> GetIndex(w) + 1]
                  ELSE [v |-> (GetVersion(w) + 1) % Range, i |-> 0]
<1> DEFINE a == GetVersion(w)
           i == GetIndex(w)
<1>1. /\ Span \in Nat \ {0} /\ Range \in Nat \ {0} /\ Pow2[Width] = Span * Range
      /\ a \in 0 .. Range - 1 /\ i \in 0 .. Span - 1 /\ w = Span * a + i
  BY ShiftLemma, PartsLemma
<1>2. Span * Range \in Nat \ {0} /\ Span * a \in Nat
  <2> HIDE DEF Span, Range, a
  <2> QED BY <1>1
<1>3. CASE i + 1 < Span
  BY <1>3, AddFits
<1>4. CASE i + 1 = Span
  <2>1. w + 1 = (a + 1) * Span /\ a + 1 \in Nat /\ 0 \in 0 .. Span - 1
    <3> HIDE DEF Span, Range, a, i
    <3>1. (a + 1) * Span = Span * a + Span
      BY <1>1
    <3>2. QED
      BY <1>1, <1>2, <1>4, <3>1
  <2>2. Pack(a + 1, 0) = FetchAdd(w)
    <3>1. Usize((a + 1) * Span) = FetchAdd(w) /\ 0 % Span = 0
      BY <1>1, <2>1 DEF FetchAdd
    <3>2. FetchAdd(w) \in Nat
      BY <1>1, <1>2, <2>1 DEF FetchAdd, Usize
    <3>3. QED
      BY <3>1, <3>2 DEF Pack
  <2>3. /\ Pack(a + 1, 0) \in 0 .. Pow2[Width] - 1
        /\ GetVersion(Pack(a + 1, 0)) = (a + 1) % Range /\ GetIndex(Pack(a + 1, 0)) = 0
    <3> HIDE DEF a
    <3> QED BY <2>1, PackLemma
  <2>4. QED
    BY <1>1, <1>4, <2>2, <2>3 DEF PairOf
<1>5. QED
  BY <1>1, <1>3, <1>4

(* overflowing_add(1) of a block that is not done never overflows.         *)
LEMMA ReserveMaps ==
    ASSUME indexMax \in 1 .. MaxIndexMax, NEW w \in 0 .. Pow2[Width] - 1,
           GetIndex(w) < indexMax
    PROVE  /\ OverflowingAdd(w) \in 0 .. Pow2[Width] - 1
           /\ PairOf(OverflowingAdd(w)) = [v |-> GetVersion(w), i |-> GetIndex(w) + 1]
<1>1. indexMax \in Nat /\ Span \in Nat /\ indexMax < Span /\ GetIndex(w) \in 0 .. Span - 1
  BY ShiftLemma, PartsLemma, WidthAssumption
<1>2. GetIndex(w) + 1 < Span
  <2> HIDE DEF Span, GetIndex
  <2> QED BY <1>1
<1>3. QED
  BY <1>2, AddFits DEF OverflowingAdd

(* version_inc_add(1) of a head is the pair's, with the version wrapped.   *)
LEMMA AdvanceMaps ==
    ASSUME indexMax \in 1 .. MaxIndexMax, NEW w \in 0 .. Pow2[Width] - 1,
           GetIndex(w) < indexMax
    PROVE  LET i == GetIndex(w) + 1 IN
           /\ VersionIncAdd(w) \in 0 .. Pow2[Width] - 1
           /\ PairOf(VersionIncAdd(w)) = [v |-> (GetVersion(w) + i \div indexMax) % Range,
                                          i |-> i % indexMax]
           /\ GetVersion(w) + i \div indexMax \in Nat /\ i % indexMax \in 0 .. indexMax - 1
<1> DEFINE i == GetIndex(w) + 1
           version == GetVersion(w) + i \div indexMax
           index == i % indexMax
<1>1. /\ indexMax \in Nat \ {0} /\ Span \in Nat /\ indexMax < Span /\ Range \in Nat
      /\ GetVersion(w) \in 0 .. Range - 1 /\ GetIndex(w) \in 0 .. Span - 1
  BY ShiftLemma, PartsLemma, WidthAssumption
<1>2. i \in Nat /\ i \div indexMax \in Nat /\ index \in 0 .. indexMax - 1
  <2>1. i \in Nat
    BY <1>1
  <2>2. QED
    <3> HIDE DEF i
    <3> QED BY <1>1, <2>1
<1>3. version \in Nat /\ index \in 0 .. Span - 1
  <2> HIDE DEF index, i
  <2> QED BY <1>1, <1>2
<1>4. /\ Pack(version, index) \in 0 .. Pow2[Width] - 1
      /\ GetVersion(Pack(version, index)) = version % Range
      /\ GetIndex(Pack(version, index)) = index
  <2> HIDE DEF version, index
  <2> QED BY <1>3, PackLemma
<1>5. VersionIncAdd(w) = Pack(version, index)
  BY DEF VersionIncAdd
<1>6. QED
  BY <1>2, <1>3, <1>4, <1>5 DEF PairOf
-----------------------------------------------------------------------------
(* Every word a field holds is a word of its width.                        *)
LEMMA TypeStep == TypeOK /\ [Next]_vars => TypeOK'
<1> SUFFICES ASSUME TypeOK, [Next]_vars PROVE TypeOK'
  OBVIOUS
<1> USE DEF TypeOK
<1>1. CASE Add
  BY <1>1, AddMaps DEF Add
<1>2. ASSUME NEW version \in Versions, NEW index \in 0 .. indexMax, RaiseTo(version, index)
      PROVE  TypeOK'
  <2>1. version \in Nat /\ index \in 0 .. Span - 1
    BY <1>2, ShiftLemma, WidthAssumption DEF Versions, Range
  <2>2. Pack(version, index) \in 0 .. Pow2[Width] - 1
    BY <2>1, PackLemma
  <2>3. QED
    BY <1>2, <2>2, MaxMaps DEF RaiseTo
<1>3. CASE Advance
  BY <1>3, AdvanceMaps, MaxMaps DEF Advance
<1>4. CASE Reserve
  <2>1. OverflowingAdd(word) \in 0 .. Pow2[Width] - 1
    BY <1>4, ReserveMaps DEF Reserve
  <2>2. QED
    BY <1>4, <2>1, MaxMaps DEF Reserve
<1>5. CASE UNCHANGED vars
  BY <1>5 DEF vars
<1>6. QED
  BY <1>1, <1>2, <1>3, <1>4, <1>5 DEF Next

(* A field starts with one of two pairs.                                   *)
LEMMA InitMaps == Init => TypeOK /\ Pairs!Init
<1> SUFFICES ASSUME Init PROVE TypeOK /\ Pairs!Init
  OBVIOUS
<1>1. indexMax \in 1 .. MaxIndexMax /\ word \in {Pack(0, 0), Pack(0, indexMax)}
  BY DEF Init
<1>2. 0 \in 0 .. Span - 1 /\ indexMax \in 0 .. Span - 1 /\ 0 % Range = 0
  BY <1>1, ShiftLemma, WidthAssumption
<1>3. ASSUME NEW index \in 0 .. Span - 1
      PROVE  Pack(0, index) \in 0 .. Pow2[Width] - 1 /\ PairOf(Pack(0, index)) = [v |-> 0, i |-> index]
  BY <1>1, <1>2, PackLemma DEF PairOf
<1>4. TypeOK
  BY <1>1, <1>2, <1>3 DEF TypeOK
<1>5. PairOf(word) \in {[v |-> 0, i |-> 0], [v |-> 0, i |-> indexMax]}
  BY <1>1, <1>2, <1>3
<1>6. QED
  BY <1>4, <1>5 DEF PairOf, Pairs!Init, Pairs!Zero, Pairs!FromParts

(* A step of the word is a step of the pair it stands for.                 *)
LEMMA StepMaps ==
    TypeOK /\ [Next]_vars
        => [Pairs!Next]_<<PairOf(word), indexMax, IndexSpan, Pow2[Width] \div IndexSpan>>
<1> DEFINE versions == Pow2[Width] \div IndexSpan
<1> SUFFICES ASSUME TypeOK, [Next]_vars
             PROVE  [Pairs!Next]_<<PairOf(word), indexMax, IndexSpan, versions>>
  OBVIOUS
<1>1. indexMax \in 1 .. MaxIndexMax /\ word \in 0 .. Pow2[Width] - 1
  BY DEF TypeOK
<1>2. IndexSpan = Span /\ versions = Range
  BY <1>1, SpanLemma
<1>3. indexMax' = indexMax
  BY DEF Next, vars, Add, Reserve, RaiseTo, Advance
<1>4. PairOf(word)' = PairOf(word') /\ IndexSpan' = IndexSpan /\ versions' = versions
  BY <1>3 DEF PairOf, GetVersion, GetIndex, Span, VersionShift, IndexSpan
<1>5. PairOf(word).v = GetVersion(word) /\ PairOf(word).i = GetIndex(word)
  BY DEF PairOf
<1>6. CASE Add
  <2>1. Pairs!Wrapped(Pairs!Incr(IndexSpan, PairOf(word))) = PairOf(word')
    <3>1. 0 \in Nat /\ Range \in Nat \ {0} /\ GetVersion(word) \in 0 .. Range - 1
      BY <1>1, ShiftLemma, PartsLemma
    <3>2. GetVersion(word) % Range = GetVersion(word)
      BY <3>1
    <3>3. word' = FetchAdd(word)
      BY <1>6 DEF Add
    <3>4. PairOf(word') =
              IF GetIndex(word) + 1 < Span THEN [v |-> GetVersion(word), i |-> GetIndex(word) + 1]
              ELSE [v |-> (GetVersion(word) + 1) % Range, i |-> 0]
      BY <1>1, <3>3, AddMaps
    <3>5. Pairs!Wrapped(Pairs!Incr(IndexSpan, PairOf(word))) =
              IF GetIndex(word) + 1 < Span
              THEN [v |-> GetVersion(word) % Range, i |-> GetIndex(word) + 1]
              ELSE [v |-> (GetVersion(word) + 1) % Range, i |-> 0]
      BY <1>2 DEF PairOf, Pairs!Wrapped, Pairs!Incr, Pairs!FromParts
    <3>6. QED
      BY <3>2, <3>4, <3>5
  <2>2. Pairs!Add
    BY <1>4, <2>1 DEF Pairs!Add, PairOf
  <2>3. QED
    BY <1>3, <1>4, <2>2 DEF Pairs!Next
<1>7. ASSUME NEW version \in Versions, NEW index \in 0 .. indexMax, RaiseTo(version, index)
      PROVE  Pairs!Next
  <2> DEFINE x == Pack(version, index)
             f == [v |-> version, i |-> index]
  <2>1. version \in 0 .. Range - 1 /\ Range \in Nat \ {0} /\ index \in 0 .. Span - 1
    BY <1>1, ShiftLemma, WidthAssumption DEF Versions, Range
  <2>2. version \in Nat /\ version % Range = version
    <3> HIDE DEF Range
    <3> QED BY <2>1
  <2>3. x \in 0 .. Pow2[Width] - 1 /\ PairOf(x) = f
    BY <1>1, <2>1, <2>2, PackLemma DEF PairOf
  <2>4. PairOf(word') = Pairs!MaxPair(PairOf(word), f)
    <3> HIDE DEF x, f
    <3>1. word' = FetchMax(word, x)
      BY <1>7 DEF RaiseTo, x
    <3>2. QED
      BY <1>1, <2>3, <3>1, MaxMaps
  <2>5. Pairs!RaiseTo(f)
    BY <1>4, <2>4 DEF Pairs!RaiseTo, PairOf
  <2>6. f \in [v : 0 .. versions - 1, i : 0 .. indexMax]
    BY <1>2, <2>1
  <2>7. QED
    BY <1>3, <1>4, <2>5, <2>6 DEF Pairs!Next
<1>8. CASE Advance
  <2> DEFINE x == VersionIncAdd(word)
  <2>1. GetIndex(word) < indexMax /\ word' = FetchMax(word, x)
    BY <1>8 DEF Advance
  <2>2. /\ x \in 0 .. Pow2[Width] - 1
        /\ PairOf(x) = [v |-> (GetVersion(word) + ((GetIndex(word) + 1) \div indexMax)) % Range,
                        i |-> (GetIndex(word) + 1) % indexMax]
    BY <1>1, <2>1, AdvanceMaps
  <2>3. PairOf(x) = Pairs!Wrapped(Pairs!VersionIncAdd(indexMax, PairOf(word)))
    BY <1>2, <2>2 DEF PairOf, Pairs!Wrapped, Pairs!VersionIncAdd, Pairs!FromParts
  <2>4. PairOf(word') = Pairs!MaxPair(PairOf(word), PairOf(x))
    <3> HIDE DEF x
    <3> QED BY <1>1, <2>1, <2>2, MaxMaps
  <2>5. Pairs!Advance
    <3> HIDE DEF x
    <3> QED BY <1>4, <2>1, <2>3, <2>4 DEF Pairs!Advance, PairOf
  <2>6. QED
    BY <1>3, <1>4, <2>5 DEF Pairs!Next
<1>9. CASE Reserve
  <2> DEFINE x == OverflowingAdd(word)
  <2>1. GetIndex(word) < indexMax /\ word' = FetchMax(word, x)
    BY <1>9 DEF Reserve
  <2>2. /\ x \in 0 .. Pow2[Width] - 1
        /\ PairOf(x) = [v |-> GetVersion(word), i |-> GetIndex(word) + 1]
    BY <1>1, <2>1, ReserveMaps
  <2>3. PairOf(x) = [PairOf(word) EXCEPT !.i = @ + 1]
    BY <2>2 DEF PairOf
  <2>4. PairOf(word') = Pairs!MaxPair(PairOf(word), PairOf(x))
    <3> HIDE DEF x
    <3> QED BY <1>1, <2>1, <2>2, MaxMaps
  <2>5. Pairs!Reserve
    <3> HIDE DEF x
    <3> QED BY <1>4, <2>1, <2>3, <2>4 DEF Pairs!Reserve, PairOf
  <2>6. QED
    BY <1>3, <1>4, <2>5 DEF Pairs!Next
<1>10. CASE UNCHANGED vars
  BY <1>4, <1>10 DEF vars
<1>11. QED
  BY <1>6, <1>7, <1>8, <1>9, <1>10 DEF Next

(* A head below index_max counts one block, whatever its width, or the     *)
(* version has run out.                                                    *)
LEMMA HeadCounts == TypeOK => HeadCountsBlocks
<1> SUFFICES ASSUME TypeOK, GetIndex(word) < indexMax
             PROVE  \/ Position(VersionIncAdd(word)) = Position(word) + 1
                    \/ GetVersion(word) + 1 \notin Versions
  BY DEF HeadCountsBlocks
<1> DEFINE a == GetVersion(word)
           i == GetIndex(word)
<1>1. indexMax \in 1 .. MaxIndexMax /\ word \in 0 .. Pow2[Width] - 1
  BY DEF TypeOK
<1>2. /\ indexMax \in Nat \ {0} /\ Range \in Nat \ {0}
      /\ a \in 0 .. Range - 1 /\ i \in 0 .. indexMax - 1
  BY <1>1, ShiftLemma, PartsLemma, WidthAssumption
<1>3. Position(VersionIncAdd(word)) =
          ((a + ((i + 1) \div indexMax)) % Range) * indexMax + ((i + 1) % indexMax)
  BY <1>1, AdvanceMaps DEF Position, PairOf
<1>4. CASE i + 1 < indexMax
  <2>1. (i + 1) \div indexMax = 0 /\ (i + 1) % indexMax = i + 1 /\ (a + 0) % Range = a
    <3> HIDE DEF a, i, Range
    <3> QED BY <1>2, <1>4
  <2>2. QED
    BY <1>2, <1>3, <2>1 DEF Position
<1>5. CASE i + 1 = indexMax /\ a + 1 < Range
  <2>1. (i + 1) \div indexMax = 1 /\ (i + 1) % indexMax = 0 /\ (a + 1) % Range = a + 1
    <3> HIDE DEF a, i, Range
    <3> QED BY <1>2, <1>5
  <2>2. (a + 1) * indexMax + 0 = (a * indexMax + i) + 1
    <3> HIDE DEF a, i
    <3>1. (a + 1) * indexMax = a * indexMax + indexMax /\ a * indexMax \in Nat
      BY <1>2
    <3>2. QED
      BY <1>2, <1>5, <3>1
  <2>3. QED
    BY <1>3, <2>1, <2>2 DEF Position
<1>6. CASE a + 1 = Range
  BY <1>2, <1>6 DEF Versions, Range
<1>7. QED
  BY <1>2, <1>4, <1>5, <1>6
-----------------------------------------------------------------------------
(* src/field.rs: whatever its width and index_max, the word read as a pair *)
(* runs the pair algebra the rest of the project uses.                     *)
THEOREM WordsArePairs == Spec => ImplementsPairs
<1>1. Init => TypeOK /\ Pairs!Init
  BY InitMaps
<1>2. TypeOK /\ [Next]_vars => TypeOK'
  BY TypeStep
<1>3. TypeOK /\ [Next]_vars
        => [Pairs!Next]_<<[v |-> GetVersion(word), i |-> GetIndex(word)], indexMax,
                          IndexSpan, Pow2[Width] \div IndexSpan>>
  BY StepMaps DEF PairOf
<1>4. QED
  BY <1>1, <1>2, <1>3, PTL DEF Spec, ImplementsPairs, Pairs!Spec

(* src/field.rs, version_inc_add: a head of any width counts blocks one by *)
(* one until its version wraps.                                            *)
THEOREM HeadsCount == Spec => []HeadCountsBlocks
<1>1. Init => TypeOK
  BY InitMaps
<1>2. TypeOK /\ [Next]_vars => TypeOK'
  BY TypeStep
<1>3. TypeOK => HeadCountsBlocks
  BY HeadCounts
<1>4. QED
  BY <1>1, <1>2, <1>3, PTL DEF Spec
=============================================================================
