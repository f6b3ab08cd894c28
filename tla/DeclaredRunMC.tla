----------------------------- MODULE DeclaredRunMC -----------------------------
(* A TLC instance of DeclaredRun. *)
EXTENDS DeclaredRun

Candle(openedAt, low, close, high, score) ==
    [openedAt |-> openedAt, low |-> low, close |-> close, high |-> high, score |-> score]

\* Two overlapping BUYs, a weak one at the end; a gain, a loss and an equal extreme.
Base == << Candle(0, 1, 2, 3, 2), Candle(1, 2, 3, 4, 0), Candle(2, 1, 3, 4, 2),
           Candle(3, 2, 3, 3, 1), Candle(4, 1, 1, 2, 0), Candle(5, 1, 2, 4, 2) >>

\* The same market with one candle revised: inside the first window, or at the end.
RevisedEarly == [Base EXCEPT ![2].close = 1, ![2].low = 1]
RevisedLate == [Base EXCEPT ![5].high = 4]

Upto(history, n) == SubSeq(history, 1, n)

SomeHistories == {Base, RevisedEarly, RevisedLate}
SomeDatasets == {Upto(Base, 2), Upto(Base, 4), Base, Upto(RevisedEarly, 4), RevisedLate}
Strict == [chain |-> 2, horizon |-> 2]
Loose == [chain |-> 1, horizon |-> 2]
Short == [chain |-> 2, horizon |-> 1]
SomeConfigurations == {Strict, Loose, Short}
SomeBindings == [dataset : SomeDatasets, configuration : {Strict}]
    \union {[dataset |-> Base, configuration |-> c] : c \in {Loose, Short}}
=============================================================================
