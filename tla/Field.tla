------------------------------- MODULE Field -------------------------------
(***************************************************************************)
(* The version/index pair that every shared word of the FIFO holds         *)
(* (src/field.rs).  The code packs the pair into one usize, the version    *)
(* above the index, and compares, adds and maximises the packed words.     *)
(* This module is the algebra of the pairs the rest of the project uses;   *)
(* FieldWord checks that the packed words implement it.                    *)
(***************************************************************************)
EXTENDS Naturals

Pair == [v : Nat, i : Nat]

FromParts(version, index) == [v |-> version, i |-> index]

Zero == FromParts(0, 0)

(* The order of the packed words: the version decides, then the index.     *)
AtMost(f, g) == f.v < g.v \/ (f.v = g.v /\ f.i <= g.i)

(* What fetch_max leaves in a word that held f.                            *)
MaxPair(f, g) == IF AtMost(f, g) THEN g ELSE f

(* fetch_add(1): an index that outgrows the span of its bits carries into  *)
(* the version.  overflowing_add(1) is a plain addition to the word, used  *)
(* only where the index is below index_max and cannot carry.               *)
Incr(span, f) == IF f.i + 1 < span
                 THEN [f EXCEPT !.i = @ + 1]
                 ELSE FromParts(f.v + 1, 0)

(* version_inc_add(1): the index wraps at index_max, whatever its span.    *)
VersionIncAdd(indexMax, f) ==
    FromParts(f.v + (f.i + 1) \div indexMax, (f.i + 1) % indexMax)
=============================================================================
