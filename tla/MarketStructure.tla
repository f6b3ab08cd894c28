-------------------------- MODULE MarketStructure --------------------------
(***************************************************************************)
(* Swings, trend and structure breaks of one series of closed candles      *)
(* (analysis/swings.py, trend.py, structure.py).                           *)
(*                                                                         *)
(* A candle is a record of its index, its prices and the time it became    *)
(* available.  The time unit is one candle: candle i opens at i and closes *)
(* at i + 1.  Prices are positive integers, so that 0 can stand for "no    *)
(* candle yet".                                                            *)
(***************************************************************************)
EXTENDS Integers, Sequences, FiniteSets

CONSTANT FractalLength      \* fractal_length of AnalysisConfig

ASSUME FractalAssumption == FractalLength \in Nat /\ FractalLength >= 3 /\ FractalLength % 2 = 1

VARIABLES
    window,          \* SwingDetector._window
    recent,          \* _highs and _lows: the newest two swings of a kind
    levels,          \* _active_high and _active_low, at most one of a kind
    previousClose,   \* _previous_close
    snapshot         \* _latest

structureVars == <<window, recent, levels, previousClose, snapshot>>

Kinds == {"high", "low"}

Radius == (FractalLength - 1) \div 2     \* confirmation_delay

\* What is left of s after x is appended to a deque that holds n.
Slide(s, x, n) ==
    LET t == Append(s, x) IN IF Len(t) <= n THEN t ELSE SubSeq(t, Len(t) - n + 1, Len(t))

Extreme(candle, kind) == IF kind = "high" THEN candle.high ELSE candle.low

\* a lies strictly beyond b, seen from a level of this kind.
Beyond(kind, a, b) == IF kind = "high" THEN a > b ELSE a < b

-----------------------------------------------------------------------------
(* The fractal in the middle of a full window: both flanks stay strictly   *)
(* inside of it.                                                           *)
IsPivot(w, kind) ==
    \A i \in 1 .. Len(w) \ {Radius + 1} :
        Beyond(kind, Extreme(w[Radius + 1], kind), Extreme(w[i], kind))

Confirmations(w) ==
    {[kind |-> kind, pivot |-> w[Radius + 1].index, price |-> Extreme(w[Radius + 1], kind),
      confirmed |-> w[Len(w)].index, available |-> w[Len(w)].available] :
        kind \in {k \in Kinds : Len(w) = FractalLength /\ IsPivot(w, k)}}

Ready(highs, lows) == Len(highs) = 2 /\ Len(lows) = 2

Trend(highs, lows) ==
    IF ~Ready(highs, lows) THEN "ranging"
    ELSE IF highs[2].price > highs[1].price /\ lows[2].price > lows[1].price THEN "bullish"
    ELSE IF highs[2].price < highs[1].price /\ lows[2].price < lows[1].price THEN "bearish"
    ELSE "ranging"

-----------------------------------------------------------------------------
(* A level is crossed by the first close beyond it that follows a close    *)
(* not beyond it.                                                          *)
Crossed(level, close) ==
    /\ previousClose # 0 /\ ~level.consumed
    /\ ~Beyond(level.swing.kind, previousClose, level.swing.price)
    /\ Beyond(level.swing.kind, close, level.swing.price)

Toward(kind) == IF kind = "high" THEN "bullish" ELSE "bearish"

BreakEvents(candle) ==
    {[index |-> candle.index,
      kind |-> IF Toward(l.swing.kind) = snapshot.trend THEN "BOS" ELSE "CHoCH",
      direction |-> Toward(l.swing.kind), level |-> l.swing,
      before |-> snapshot.trend, previousClose |-> previousClose, close |-> candle.close] :
        l \in {k \in levels : snapshot.trend # "ranging" /\ Crossed(k, candle.close)}}

\* A variant in which a break in a range leaves the level in place.
LevelsAfterRange(candle, swings) ==
    {[l EXCEPT !.consumed = @ \/ (snapshot.trend # "ranging" /\ Crossed(l, candle.close))] :
        l \in {k \in levels : \A s \in swings : s.kind # k.swing.kind}}
    \cup {[swing |-> s, consumed |-> FALSE] : s \in swings}

\* Every crossing spends its level, a break in a range as well; the swings
\* confirmed by this candle take over only after that.
LevelsAfter(candle, swings) ==
    {[l EXCEPT !.consumed = @ \/ Crossed(l, candle.close)] :
        l \in {k \in levels : \A s \in swings : s.kind # k.swing.kind}}
    \cup {[swing |-> s, consumed |-> FALSE] : s \in swings}

RecentAfter(swings) ==
    [k \in Kinds |->
        IF \E s \in swings : s.kind = k
        THEN Slide(recent[k], CHOOSE s \in swings : s.kind = k, 2)
        ELSE recent[k]]

StructureInit ==
    /\ window = <<>> /\ levels = {} /\ previousClose = 0
    /\ recent = [k \in Kinds |-> <<>>]
    /\ snapshot = [index |-> -1, available |-> 0, swings |-> {}, events |-> {},
                   trend |-> "ranging", ready |-> FALSE]

\* MarketStructureAnalyzer.update
StructureUpdate(candle) ==
    LET w == Slide(window, candle, FractalLength)
        swings == Confirmations(w)
        newest == RecentAfter(swings)
    IN  /\ window' = w
        /\ recent' = newest
        /\ levels' = LevelsAfter(candle, swings)
        /\ previousClose' = candle.close
        /\ snapshot' = [index |-> candle.index, available |-> candle.available,
                        swings |-> swings, events |-> BreakEvents(candle),
                        trend |-> Trend(newest["high"], newest["low"]),
                        ready |-> Ready(newest["high"], newest["low"])]
=============================================================================
