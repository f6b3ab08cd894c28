---------------------------- MODULE Displacement ----------------------------
(***************************************************************************)
(* Displacement candles (analysis/displacement) and the fair value gaps    *)
(* around them (analysis/fvg).  A candle is measured against the average   *)
(* true range of the candles before it, and the comparison is made on      *)
(* cross products: atr is the sum of AtrPeriod true ranges.                *)
(***************************************************************************)
EXTENDS Liquidity, FiniteSetsExt

CONSTANTS
    AtrPeriod, AtrFloor,
    MinBodyPct, MinRangePct,                 \* min_body_atr and min_range_atr, in percent
    BullishCloseMinPct, BearishCloseMaxPct,  \* close thresholds, in percent of the range
    SweepLookback,                           \* sweep_lookback_bars
    MinGap, GapNeedsDisplacement             \* FVGConfig

ASSUME DisplacementAssumption ==
    /\ AtrPeriod \in Nat \ {0} /\ AtrFloor \in Nat /\ SweepLookback \in Nat
    /\ MinBodyPct \in Nat \ {0} /\ MinRangePct \in Nat \ {0}
    /\ BullishCloseMinPct \in 0 .. 100 /\ BearishCloseMaxPct \in 0 .. BullishCloseMinPct
    /\ MinGap \in Nat /\ GapNeedsDisplacement \in BOOLEAN

VARIABLES
    observations,   \* _observations
    atr,            \* the total of atr_current, NoAtr while it is None
    sweepCache,     \* _sweeps
    displacement,   \* the newest frame; event tells whether it displaces
    gapWindow,      \* FVGAnalyzer._window
    gap             \* events of the newest FVG frame

displacementVars == <<observations, atr, sweepCache, displacement>>
gapVars == <<gapWindow, gap>>

NoAtr == -1

Distance(a, b) == IF a >= b THEN a - b ELSE b - a

TrueRange(previous, candle) ==
    Max({candle.high - candle.low, Distance(candle.high, previous.close),
         Distance(candle.low, previous.close)})

Body(candle) == Distance(candle.close, candle.open)
Span(candle) == candle.high - candle.low

Direction(candle) ==
    IF candle.close = candle.open THEN "none"
    ELSE IF candle.close > candle.open THEN "bullish" ELSE "bearish"

ClosesAway(candle) ==
    IF Direction(candle) = "bullish"
    THEN (candle.close - candle.low) * 100 >= BullishCloseMinPct * Span(candle)
    ELSE (candle.close - candle.low) * 100 <= BearishCloseMaxPct * Span(candle)

(* qualifies: total is the reference of the candle before.                 *)
Qualifies(candle, total) ==
    /\ total # NoAtr /\ Direction(candle) # "none" /\ Span(candle) # 0
    /\ total > AtrFloor * AtrPeriod
    /\ Body(candle) * AtrPeriod * 100 >= MinBodyPct * total
    /\ Span(candle) * AtrPeriod * 100 >= MinRangePct * total
    /\ ClosesAway(candle)

-----------------------------------------------------------------------------
InLookback(candle) == {s \in sweepCache : candle.index - s.index <= SweepLookback}

\* A variant that gathers the sweeps of several candles.
PrecedingAll(candle) == {s \in InLookback(candle) : s.available <= candle.index}

(* The newest cohort of sweeps that were known when the candle opened.     *)
Preceding(candle) ==
    LET known == {s \in InLookback(candle) : s.available <= candle.index}
    IN  {s \in known : \A t \in known : t.index <= s.index}

\* The sum of the true ranges, pair by pair.
AtrTotal(obs) ==
    LET total[k \in 0 .. AtrPeriod] ==
          IF k = 0 THEN 0 ELSE total[k - 1] + TrueRange(obs[k], obs[k + 1])
    IN  IF Len(obs) # AtrPeriod + 1 THEN NoAtr ELSE total[AtrPeriod]

DisplacementInit ==
    /\ observations = <<>> /\ atr = NoAtr /\ sweepCache = {}
    /\ displacement = [index |-> -1, event |-> FALSE, direction |-> "none",
                       preceding |-> {}, available |-> 0]

(* DisplacementAnalyzer.update: the candle is judged by the reference that *)
(* ends before it, and its own sweeps are kept for later candles only.     *)
DisplacementUpdate(candle) ==
    LET obs == Slide(observations, candle, AtrPeriod + 1)
    IN  /\ displacement' = [index |-> candle.index, event |-> Qualifies(candle, atr),
                            direction |-> Direction(candle),
                            preceding |-> Preceding(candle), available |-> candle.available]
        /\ observations' = obs
        /\ atr' = AtrTotal(obs)
        /\ sweepCache' = IF SweepLookback = 0 THEN {} ELSE InLookback(candle) \cup sweeps'

-----------------------------------------------------------------------------
(* gap_geometry and qualified_gap over a window of three frames.           *)
GapDirection(first, last) ==
    IF last.low > first.high THEN "bullish"
    ELSE IF last.high < first.low THEN "bearish" ELSE "none"

GapLower(first, last) == IF last.low > first.high THEN first.high ELSE last.high
GapUpper(first, last) == IF last.low > first.high THEN last.low ELSE first.low

QualifiedGap(w) ==
    /\ Len(w) = 3
    /\ GapDirection(w[1].candle, w[3].candle) # "none"
    /\ GapUpper(w[1].candle, w[3].candle) - GapLower(w[1].candle, w[3].candle) >= MinGap
    /\ GapNeedsDisplacement =>
         /\ w[2].displacement.event
         /\ w[2].displacement.direction = GapDirection(w[1].candle, w[3].candle)

GapInit == gapWindow = <<>> /\ gap = {}

(* FVGAnalyzer.update                                                      *)
GapUpdate(candle) ==
    LET w == Slide(gapWindow, [candle |-> candle, displacement |-> displacement'], 3)
    IN  /\ gapWindow' = w
        /\ gap' = IF QualifiedGap(w)
                  THEN {[index |-> candle.index, middle |-> w[2].displacement,
                         direction |-> GapDirection(w[1].candle, w[3].candle),
                         lower |-> GapLower(w[1].candle, w[3].candle),
                         upper |-> GapUpper(w[1].candle, w[3].candle),
                         available |-> candle.available]}
                  ELSE {}
=============================================================================
