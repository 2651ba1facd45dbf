----------------------------- MODULE FieldPair -----------------------------
(***************************************************************************)
(* What a packed word stands for: a version and an index, with versions    *)
(* counted modulo the number that fit above the index.                     *)
(***************************************************************************)
EXTENDS Field

VARIABLES pair,     \* the pair a word stands for
          indexMax, \* the capacity the index counts up to
          span,     \* number of indices the index bits can hold
          versions  \* number of versions the version bits can hold

Wrapped(f) == [f EXCEPT !.v = @ % versions]

Init == pair \in {Zero, FromParts(0, indexMax)}

Add == pair' = Wrapped(Incr(span, pair))

(* A slot is reserved of a block that has one: nothing carries.            *)
Reserve == /\ pair.i < indexMax
           /\ pair' = MaxPair(pair, [pair EXCEPT !.i = @ + 1])

RaiseTo(f) == pair' = MaxPair(pair, f)

Advance == /\ pair.i < indexMax
           /\ pair' = MaxPair(pair, Wrapped(VersionIncAdd(indexMax, pair)))

Next == /\ \/ Add
           \/ Reserve
           \/ \E f \in [v : 0 .. versions - 1, i : 0 .. indexMax] : RaiseTo(f)
           \/ Advance
        /\ UNCHANGED <<indexMax, span, versions>>

Spec == Init /\ [][Next]_<<pair, indexMax, span, versions>>
=============================================================================
