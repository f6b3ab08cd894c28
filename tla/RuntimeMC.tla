----------------------------- MODULE RuntimeMC -----------------------------
(***************************************************************************)
(* Instances of Runtime: a 15m series with 1h and 4h contexts, scaled down *)
(* to two and four primary candles to a higher one.                        *)
(***************************************************************************)
EXTENDS Runtime

CONSTANTS H1, H4

MCTimeframes == {H1, H4}
MCRatio == [tf \in MCTimeframes |-> IF tf = H1 THEN 2 ELSE 4]

\* Price rests in a discounted OTE zone of an up-trend; no events.
Resting(zone) ==
    [trend |-> "BULLISH", structure |-> {}, block |-> "NONE", ote |-> "INSIDE_OTE",
     zone |-> [id |-> zone, direction |-> "BULLISH"], pd |-> "DISCOUNT",
     displacement |-> FALSE, sweep |-> FALSE, gap |-> FALSE]

\* Everything at once, bullish.
Complete(zone) ==
    [Resting(zone) EXCEPT !.structure = {"BULLISH"}, !.block = "BULLISH",
                          !.displacement = TRUE, !.sweep = TRUE, !.gap = TRUE]

\* The same of a down-trend.
Falling(zone) ==
    [Resting(zone) EXCEPT !.trend = "BEARISH", !.zone.direction = "BEARISH"]

\* A displacement only, the structure against the trend.
Opposed(zone) == [Resting(zone) EXCEPT !.structure = {"BEARISH"}, !.displacement = TRUE]

Labels(h1, h4) == [tf \in MCTimeframes |-> [n \in HigherCandle |->
                      IF tf = H1 THEN h1[n] ELSE h4[n]]]

Market(kinds, trend, threshold, halal) ==
    [facts |-> [p \in Candle |-> kinds[p]], trend |-> trend,
     threshold |-> threshold, halal |-> halal]

Steady == Labels(<<"BULLISH", "BULLISH">>, <<"BULLISH", "BULLISH">>)
Turning == Labels(<<"BEARISH", "BULLISH">>, <<"INSUFFICIENT_CONTEXT", "BULLISH">>)
Split == Labels(<<"BULLISH", "NEUTRAL">>, <<"BULLISH", "BULLISH">>)

Down == Labels(<<"BEARISH", "BEARISH">>, <<"BEARISH", "BEARISH">>)

Quiet == <<Resting(1), Resting(1), Resting(1), Resting(2), Resting(2)>>
Busy  == <<Resting(1), Complete(1), Complete(1), Complete(2), Complete(2)>>
Slump == <<Resting(1), Falling(1), Falling(2), Falling(2), Falling(2)>>
Mixed == <<Resting(1), Opposed(1), Resting(1), Complete(1), Resting(1)>>

MCMarkets == {Market(Quiet, Steady, 25, TRUE), Market(Quiet, Turning, 25, TRUE),
              Market(Busy, Steady, 75, TRUE), Market(Busy, Split, 75, TRUE),
              Market(Busy, Turning, 75, TRUE), Market(Mixed, Split, 40, TRUE),
              Market(Slump, Down, 25, TRUE), Market(Busy, Steady, 0, FALSE)}
=============================================================================
