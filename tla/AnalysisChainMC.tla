-------------------------- MODULE AnalysisChainMC --------------------------
(***************************************************************************)
(* A market that zigzags for five candles, upwards or downwards, and is    *)
(* then free to go on, to turn, or to fall back into an older zone.        *)
(***************************************************************************)
EXTENDS AnalysisChain

C(open, high, low, close) ==
    [open |-> open, high |-> high, low |-> low, close |-> close, lag |-> 0]
Late(shape) == [shape EXCEPT !.lag = 1]

\* The same candle in a market turned upside down.
Flip(shape) ==
    [shape EXCEPT !.open = 40 - @, !.close = 40 - @,
                  !.high = 40 - shape.low, !.low = 40 - shape.high]
Both(shapes) == shapes \cup {Flip(s) : s \in shapes}

MCFeed ==
    << Both({C(14, 15, 13, 14)}),
       Both({C(16, 20, 16, 19)}),
       Both({C(18, 18, 14, 15)}),
       Both({C(18, 24, 18, 23)}),
       Both({C(22, 22, 17, 18)}),
       Both({C(18, 24, 18, 23), C(19, 21, 18, 20), C(18, 26, 18, 25)}),
       Both({C(23, 28, 23, 28), C(25, 27, 22, 23), C(16, 16, 12, 13)})
           \cup {Late(C(23, 28, 23, 28))},
       Both({C(27, 27, 15, 15), C(24, 27, 20, 21), C(26, 31, 25, 30),
            C(9, 15, 9, 15), C(13, 17, 10, 11)}),
       {C(20, 22, 13, 14), Flip(C(11, 12, 8, 9))} >>

MCConfigurations ==
    {[selection |-> "nearest", basis |-> "full_range", allowDoji |-> FALSE,
      requireFvg |-> FALSE, structure |-> "bos_or_choch"],
     [selection |-> "nearest", basis |-> "body", allowDoji |-> FALSE,
      requireFvg |-> TRUE, structure |-> "displacement_only"],
     [selection |-> "earliest", basis |-> "full_range", allowDoji |-> TRUE,
      requireFvg |-> FALSE, structure |-> "choch"]}
=============================================================================
