----------------------------- MODULE FieldWord -----------------------------
(***************************************************************************)
(* One atomic word as the machine holds it: a Width-bit integer that packs *)
(* a version above an index (src/field.rs), with the updates the FIFOs     *)
(* make to it: fetch_add(1), and fetch_max of a pair, of overflowing_add(1) *)
(* and of version_inc_add(1).  It implements FieldPair, the same updates   *)
(* of a pair of numbers, up to the wrap-around of the version.             *)
(***************************************************************************)
EXTENDS Naturals

CONSTANTS Width,      \* bits of a usize
          MaxIndexMax \* the largest index_max tried

Pow2[k \in Nat] == IF k = 0 THEN 1 ELSE 2 * Pow2[k - 1]

ASSUME WidthAssumption == /\ Width \in Nat \ {0}
                          /\ MaxIndexMax \in 1 .. Pow2[Width - 1]

VARIABLES indexMax, \* the field's index_max, fixed at creation
          word      \* the packed usize

vars == <<indexMax, word>>

BitLength(n) == CHOOSE k \in 0 .. Width : n < Pow2[k] /\ (k = 0 \/ Pow2[k - 1] <= n)

(* Variant: the bits are sized for the slots alone, not for index_max.     *)
VersionShiftForSlots == BitLength(indexMax - 1)

(* usize::BITS - index_max.leading_zeros()                                 *)
VersionShift == BitLength(indexMax)

Span == Pow2[VersionShift]

Usize(n) == n % Pow2[Width]

(* (version << shift) | (index & mask)                                     *)
Pack(version, index) == Usize(version * Span) + (index % Span)

GetVersion(w) == w \div Span

GetIndex(w) == w % Span

(* The atomic addition wraps.                                              *)
FetchAdd(w) == Usize(w + 1)

(* inner + 1, which a debug build refuses to overflow.                     *)
OverflowingAdd(w) == w + 1

(* Variant: the version is not incremented when the index wraps.           *)
VersionIncAddNoCarry(w) == Pack(GetVersion(w), (GetIndex(w) + 1) % indexMax)

VersionIncAdd(w) == Pack(GetVersion(w) + (GetIndex(w) + 1) \div indexMax,
                         (GetIndex(w) + 1) % indexMax)

FetchMax(w, x) == IF w <= x THEN x ELSE w
-----------------------------------------------------------------------------
(* Versions are those that fit above the index.                            *)
Versions == 0 .. Pow2[Width - VersionShift] - 1

Init == /\ indexMax \in 1 .. MaxIndexMax
        /\ word \in {Pack(0, 0), Pack(0, indexMax)}

Add == /\ word' = FetchAdd(word)
       /\ UNCHANGED indexMax

(* reserved.fetch_max(reserved.overflowing_add(1)), of a block not done.   *)
Reserve == /\ GetIndex(word) < indexMax
           /\ word' = FetchMax(word, OverflowingAdd(word))
           /\ UNCHANGED indexMax

RaiseTo(version, index) == /\ word' = FetchMax(word, Pack(version, index))
                           /\ UNCHANGED indexMax

(* phead.fetch_max(ph.version_inc_add(1)), with ph the current value.      *)
Advance == /\ GetIndex(word) < indexMax
           /\ word' = FetchMax(word, VersionIncAdd(word))
           /\ UNCHANGED indexMax

Next == \/ Add
        \/ Reserve
        \/ \E version \in Versions, index \in 0 .. indexMax : RaiseTo(version, index)
        \/ Advance

Spec == Init /\ [][Next]_vars
-----------------------------------------------------------------------------
(* The index bits have room for index_max, the index of a full block, and  *)
(* no more bits than that takes.                                           *)
IndexSpan == CHOOSE m \in {Pow2[k] : k \in 0 .. Width} : indexMax < m /\ m <= 2 * indexMax

(* The word read as a pair runs the pair algebra: whatever sequence of     *)
(* updates the FIFOs apply, no index bit leaks into the version (other     *)
(* than by the carry of fetch_add that Field!Incr states), overflowing_add *)
(* never overflows and raw comparison is the order on pairs.               *)
Pairs == INSTANCE FieldPair WITH
             pair <- [v |-> GetVersion(word), i |-> GetIndex(word)],
             span <- IndexSpan,
             versions <- Pow2[Width] \div IndexSpan

ImplementsPairs == Pairs!Spec

(* src/field.rs, version_inc_add, on a head word: the head counts blocks   *)
(* one by one, so that version * index_max + index is the number of blocks *)
(* the head has left behind, until the version wraps.                      *)
Position(w) == GetVersion(w) * indexMax + GetIndex(w)

HeadCountsBlocks ==
    GetIndex(word) < indexMax =>
        \/ Position(VersionIncAdd(word)) = Position(word) + 1
        \/ GetVersion(word) + 1 \notin Versions
=============================================================================
