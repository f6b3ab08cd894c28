------------------------------- MODULE ResearchMC -------------------------------
(***************************************************************************)
(* A small instance of Improvement: two series of one symbol and two       *)
(* timeframes, histories of six candles, windows of two development and    *)
(* two validation candles.                                                 *)
(***************************************************************************)
EXTENDS Improvement, TLC

CandleAt(i, close, low) == [openedAt |-> i - 1, low |-> low, close |-> close, high |-> close + 1]
Rising(closes) == [i \in DOMAIN closes |-> CandleAt(i, closes[i], closes[i] - 1)]

\* A rise is a BUY; a detection setting of 1 asks for a rise of two.
MCScore(prefix, detection) ==
    LET n == Len(prefix)
    IN  IF n > 1 /\ prefix[n].close > prefix[n - 1].close + detection THEN 2 ELSE 0

\* A BUY above 1 sweeps, a BUY over two rises leaves a gap; at 1 it has no label.
MCLabels(prefix, detection) ==
    LET n == Len(prefix)
    IN  (IF prefix[n].close > 2 THEN {"sweep"} ELSE {})
          \union (IF n > 2 /\ prefix[n - 1].close > prefix[n - 2].close THEN {"fvg"} ELSE {})

MCTaxonomy == <<"sweep", "fvg">>
MCCombination == [labels \in SUBSET {"sweep", "fvg"} |->
    CASE labels = {} -> "" [] labels = {"sweep"} -> "sweep" [] labels = {"fvg"} -> "fvg"
      [] OTHER -> "sweep+fvg"]
MCMonthNames == <<"2024-01", "2024-02">>
MCNames == <<"", "1h", "1h:btc", "2024-01", "2024-02", "5m", "5m:btc", "HIGH_VOLATILITY",
             "LOW_VOLATILITY", "RANGING", "TRENDING", "all", "btc", "fvg", "no_labels", "sweep",
             "sweep+fvg", "unclassified">>

MCSeries == {[key |-> "1h:btc", symbol |-> "btc", timeframe |-> "1h", id |-> "hours"],
             [key |-> "5m:btc", symbol |-> "btc", timeframe |-> "5m", id |-> "minutes"]}

History(hours, minutes) == ("1h:btc" :> Rising(hours)) @@ ("5m:btc" :> Rising(minutes))

MCMarkets == {
    History(<<2, 2, 3, 2, 5, 3>>, <<2, 3, 4, 3, 5, 3>>),    \* most signals lose
    History(<<2, 4, 3, 5, 3, 5>>, <<4, 3, 5, 6, 3, 5>>),    \* some win, some lose
    History(<<4, 3, 2, 2, 1, 2>>, <<3, 2, 1, 2, 1, 1>>)}    \* a BUY without a label

MCFirstRecorded == ("1h:btc" :> 3) @@ ("5m:btc" :> 6)
Configured(detection) ==
    [quality |-> 2, chain |-> 2, detection |-> detection, horizon |-> 1, minimum |-> 2]
MCBaselines == {Configured(0), Configured(1)}
MCFrozen == [quality |-> 2, chain |-> 2, detection |-> 0]
MCNewValues == [quality |-> {1}, chain |-> {2}, detection |-> {1}]

\* A bound each for what is compared, a finish on evidence, a creation from a hypothesis that was
\* generated and from one that was built, and the way to a decision.
Bound(e, h, c, k, v, d) ==
    [evidence |-> e, hypotheses |-> h, confirmations |-> c, candidates |-> k, versions |-> v,
     decisions |-> d]
MCBounds == {Bound(2, 0, 0, 1, 1, 0), Bound(1, 0, 0, 1, 3, 0), Bound(1, 0, 1, 1, 1, 0),
             Bound(0, 1, 1, 1, 1, 0), Bound(0, 0, 0, 1, 5, 2)}

MCProtocol ==
    [ids |-> {"hours", "minutes"}, minimum |-> 2,
     settings |-> [development |-> 2, validation |-> 2, step |-> 2, lookback |-> 2, multiple |-> 2,
                   minimum |-> 1, windows |-> 2, trend |-> <<3, 5>>, high |-> <<6, 5>>,
                   low |-> <<4, 5>>, floor |-> <<1, 2>>, spread |-> <<1, 2>>,
                   winner |-> <<1, 2>>, loser |-> <<1, 3>>, diagnosis |-> 1, ranking |-> 1]]
=============================================================================
