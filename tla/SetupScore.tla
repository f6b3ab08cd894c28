----------------------------- MODULE SetupScore -----------------------------
(***************************************************************************)
(* From the facts of one frame to its publication status: the confluence   *)
(* of the higher timeframes (analysis/mtf/calculation.py), the quality     *)
(* score (analysis/setup_quality), the directional votes and eligibility   *)
(* (analysis/signal_eligibility) and the spot mapping of the signal engine *)
(* (analysis/signal_engine).  Operators only.                              *)
(*                                                                         *)
(* The facts of a frame are labels: the analysers that compute them from   *)
(* prices are modelled elsewhere.                                          *)
(***************************************************************************)
EXTENDS Integers

MTFDirection == {"BULLISH", "BEARISH", "MIXED", "NEUTRAL", "INSUFFICIENT_CONTEXT"}
PDClassification == {"PREMIUM", "DISCOUNT", "EQUILIBRIUM", "OUTSIDE_RANGE",
                     "INSUFFICIENT_CONTEXT"}
OTEClassification == {"INSIDE_OTE", "BELOW_OTE", "ABOVE_OTE", "INSUFFICIENT_CONTEXT"}
MarketBias == {"LONG_BIAS", "SHORT_BIAS", "NEUTRAL"}
SignalStatus == {"BUY_SIGNAL", "BEARISH_AVOID", "NO_SIGNAL"}

\* What a primary frame says: its trend, the directions of its structure
\* events, the direction of its first order block event, its OTE and dealing
\* range labels, and which events the candle published.
Facts == [trend : {"BULLISH", "BEARISH", "RANGING", "UNREADY"},
          structure : SUBSET {"BULLISH", "BEARISH", "RANGING"},
          block : {"BULLISH", "BEARISH", "NONE"},
          ote : OTEClassification,
          zone : [id : Nat, direction : {"BULLISH", "BEARISH", "NONE"}],
          pd : PDClassification,
          displacement : BOOLEAN, sweep : BOOLEAN, gap : BOOLEAN]

-----------------------------------------------------------------------------
(* Confluence. *)

\* Unweighted agreement of the higher timeframes that have a label.
Confluence(directions) ==
    LET known == directions \ {"INSUFFICIENT_CONTEXT"}
    IN IF known = {} THEN "INSUFFICIENT_CONTEXT"
       ELSE IF \E d \in known : known = {d} THEN CHOOSE d \in known : TRUE
       ELSE "MIXED"

-----------------------------------------------------------------------------
(* The score.  MSS, breaker and mitigation blocks never score: no join      *)
(* brings them into the frame.                                              *)

MtfPoints(mtf) ==
    CASE mtf \in {"BULLISH", "BEARISH"} -> 15
      [] mtf = "NEUTRAL" -> 8
      [] mtf = "MIXED" -> 5
      [] OTHER -> 0

PdPoints(pd) ==
    CASE pd = "DISCOUNT" -> 8
      [] pd = "EQUILIBRIUM" -> 5
      [] pd = "PREMIUM" -> 3
      [] pd = "OUTSIDE_RANGE" -> 1
      [] OTHER -> 0

OtePoints(ote) ==
    CASE ote = "INSIDE_OTE" -> 7
      [] ote \in {"BELOW_OTE", "ABOVE_OTE"} -> 3
      [] OTHER -> 0

Presence(present, weight) == IF present THEN weight ELSE 0

\* breakdown_for of a halal asset; HARAM and UNKNOWN score nothing.
Score(facts, mtf) ==
    10 + MtfPoints(mtf) + PdPoints(facts.pd) + OtePoints(facts.ote)
       + Presence(facts.displacement, 12) + Presence(facts.sweep, 10)
       + Presence(facts.gap, 8) + Presence(facts.block # "NONE", 10)

-----------------------------------------------------------------------------
(* Votes and bias. *)

Toward(direction) ==
    CASE direction = "BULLISH" -> {"LONG_BIAS"}
      [] direction = "BEARISH" -> {"SHORT_BIAS"}
      [] OTHER -> {}

VoteOte(facts) ==
    IF facts.ote = "INSIDE_OTE" THEN Toward(facts.zone.direction) ELSE {}

\* The directions that the votes of a frame name.
CollectVotes(facts, mtf) ==
    Toward(mtf) \cup Toward(facts.trend) \cup UNION {Toward(d) : d \in facts.structure}
        \cup Toward(facts.block) \cup VoteOte(facts)

\* A mixed vote or two directions cancel each other.
ResolveBias(facts, mtf) ==
    LET votes == CollectVotes(facts, mtf)
    IN IF mtf = "MIXED" \/ {"LONG_BIAS", "SHORT_BIAS"} \subseteq votes THEN "NEUTRAL"
       ELSE IF "LONG_BIAS" \in votes THEN "LONG_BIAS"
       ELSE IF "SHORT_BIAS" \in votes THEN "SHORT_BIAS"
       ELSE "NEUTRAL"

\* evaluate: HARAM and UNKNOWN are gated before the votes count.
Bias(halal, facts, mtf) == IF halal THEN ResolveBias(facts, mtf) ELSE "NEUTRAL"

\* Only an eligible asset passes, whatever the threshold.
ThresholdPassed(halal, facts, mtf, threshold) == halal /\ Score(facts, mtf) >= threshold

\* status_for: spot only, so a short bias is a warning.
StatusFor(halal, facts, mtf, threshold) ==
    IF ~ThresholdPassed(halal, facts, mtf, threshold) THEN "NO_SIGNAL"
    ELSE CASE Bias(halal, facts, mtf) = "SHORT_BIAS" -> "BEARISH_AVOID"
           [] Bias(halal, facts, mtf) = "LONG_BIAS" -> "BUY_SIGNAL"
           [] OTHER -> "NO_SIGNAL"
=============================================================================
