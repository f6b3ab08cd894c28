--------------------------- MODULE LiveOperatorMC ---------------------------
(* A TLC instance of LiveOperator. *)
EXTENDS LiveOperator

SomeDelays  == {None, 0, 9}
SomeBounds  == {0, 2}
Quick       == {0, 1, 5}
Punctual    == {0, 1}

=============================================================================
