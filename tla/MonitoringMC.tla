----------------------------- MODULE MonitoringMC -----------------------------
(* A TLC instance of Monitoring. *)
EXTENDS Monitoring

Candle(at) == [openedAt |-> at, value |-> "a"]
Row(at, value) == [openedAt |-> at, value |-> value]

\* An empty answer, candles on the grid, one row twice, out of order, with a gap, off the grid on
\* either side, more than the window holds, with an empty, a conflicting and an unusable row.
SomePayloads ==
    {<<>>, <<Candle(0), Candle(2)>>, <<Candle(2), Candle(2)>>, <<Candle(2), Candle(0)>>,
     <<Candle(0), Candle(4)>>, <<Candle(0), Candle(3)>>, <<Candle(2), Candle(3)>>,
     <<Candle(0), Candle(2), Candle(4)>>,
     <<Candle(2), Row(4, "missing")>>, <<Candle(2), Row(2, "b")>>, <<Row(2, "malformed")>>,
     <<Candle(2), Row(6, "malformed")>>}

SomeErrors == {"RateLimitError"}
SomeInstants == {4, 6}
=============================================================================
