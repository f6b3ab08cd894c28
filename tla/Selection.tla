------------------------------- MODULE Selection -------------------------------
(* What is kept of a set of numbers, or of a sequence, in order. *)
EXTENDS Integers, SequencesExt

\* A finite set of numbers in ascending order, each by its rank.
Ascending(S) ==
    [k \in 1 .. Cardinality(S) |-> CHOOSE n \in S : Cardinality({m \in S : m < n}) = k - 1]

\* The members of a sequence at these indices.
Picked(s, indices) ==
    LET order == Ascending(indices)
    IN  [k \in DOMAIN order |-> s[order[k]]]
=============================================================================
