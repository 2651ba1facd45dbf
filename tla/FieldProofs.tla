----------------------------- MODULE FieldProofs -----------------------------
(* Facts about the pair algebra of Field, for pairs of any size, and about *)
(* numbers put together from two parts.                                    *)
EXTENDS Field, Integers, TLAPS

(* version_inc_add on an index below index_max steps it, or wraps it to 0  *)
(* and increments the version.                                             *)
LEMMA WrapLemma ==
    ASSUME NEW n \in Nat \ {0}, NEW i \in 0 .. n - 1
    PROVE  /\ i + 1 < n => (i + 1) % n = i + 1 /\ (i + 1) \div n = 0
           /\ i + 1 = n => (i + 1) % n = 0 /\ (i + 1) \div n = 1
  OBVIOUS

(* The order of packed words is a total order.                             *)
LEMMA AtMostIsOrder ==
    ASSUME NEW f \in Pair, NEW g \in Pair, NEW h \in Pair
    PROVE  /\ AtMost(f, f)
           /\ AtMost(f, g) \/ AtMost(g, f)
           /\ AtMost(f, g) /\ AtMost(g, h) => AtMost(f, h)
           /\ AtMost(f, g) /\ AtMost(g, f) => f = g
  BY DEF AtMost, Pair

(* fetch_max leaves a pair that is at least what was there and at least    *)
(* what was offered, and is one of the two.                                *)
LEMMA MaxPairLemma ==
    ASSUME NEW f \in Pair, NEW g \in Pair
    PROVE  /\ MaxPair(f, g) \in {f, g} /\ MaxPair(f, g) \in Pair
           /\ AtMost(f, MaxPair(f, g)) /\ AtMost(g, MaxPair(f, g))
  BY DEF MaxPair, AtMost, Pair

(* fetch_add(1) leaves a larger pair, whether or not the index carries.    *)
LEMMA IncrLemma ==
    ASSUME NEW span \in Nat \ {0}, NEW f \in Pair
    PROVE  /\ Incr(span, f) \in Pair
           /\ AtMost(f, Incr(span, f)) /\ Incr(span, f) # f
  BY DEF Incr, AtMost, Pair, FromParts

(* version_inc_add(1) steps through the indices below index_max and leaves *)
(* a larger pair.                                                          *)
LEMMA VersionIncAddLemma ==
    ASSUME NEW n \in Nat \ {0}, NEW f \in [v : Nat, i : 0 .. n - 1]
    PROVE  /\ VersionIncAdd(n, f) \in [v : Nat, i : 0 .. n - 1]
           /\ AtMost(f, VersionIncAdd(n, f)) /\ VersionIncAdd(n, f) # f
<1>1. CASE f.i + 1 < n
  BY <1>1, WrapLemma DEF VersionIncAdd, FromParts, AtMost
<1>2. CASE f.i + 1 = n
  BY <1>2, WrapLemma DEF VersionIncAdd, FromParts, AtMost
<1>3. QED
  BY <1>1, <1>2

(* Division takes apart what was put together.                             *)
LEMMA Remainders ==
    ASSUME NEW d \in Nat \ {0}, NEW q \in Nat, NEW r \in 0 .. d - 1
    PROVE  (q * d + r) \div d = q /\ (q * d + r) % d = r
  OBVIOUS

(* Numbers made of a quotient and a remainder compare by the quotient and  *)
(* then by the remainder, which may be one too large in the second.        *)
LEMMA Lexicographic ==
    ASSUME NEW d \in Nat \ {0}, NEW q \in Int, NEW r \in 0 .. d - 1, NEW p \in Int, NEW s \in 0 .. d
    PROVE  q * d + r < p * d + s <=> q < p \/ (q = p /\ r < s)
  OBVIOUS
=============================================================================
