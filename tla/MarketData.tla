------------------------------ MODULE MarketData ------------------------------
(***************************************************************************)
(* How the candles of an exchange become a batch (data/binance.py,         *)
(* data/validation.py, data/models.py), and what an observer of the        *)
(* monitoring layer says of a batch (monitoring/observers/data.py).        *)
(*                                                                         *)
(* An instant is a natural number, a timeframe lasts Interval of them.  A  *)
(* row is [openedAt, value]: two values at one instant are two different   *)
(* candles, "missing" is a row with an empty field, "malformed" one that   *)
(* no policy lets through.  An event of the monitoring layer is its        *)
(* identity: the condition and its detail, not the instant.                *)
(***************************************************************************)
EXTENDS Selection

CONSTANTS
    None,
    Interval,        \* instants from the open of a candle to its close
    HistoryLimit,    \* MarketDataConfig.history_limit
    MissingPolicy,   \* MarketDataConfig.missing_value_policy
    StaleAfter,      \* MonitoringConfig.stale_after_intervals
    GapTolerance     \* MonitoringConfig.gap_tolerance_intervals

ASSUME MarketDataAssumption ==
    /\ Interval \in Nat \ {0} /\ HistoryLimit \in Nat \ {0}
    /\ MissingPolicy \in {"error", "drop"}
    /\ StaleAfter \in Nat \ {0} /\ GapTolerance \in Nat

-----------------------------------------------------------------------------
(* The batch.                                                              *)

\* OHLCV and _validate_prices: what cannot be a candle under any policy.
Malformed(row) == row.value = "malformed"

CloseOf(row) == row.openedAt + Interval

\* normalize_ohlcv raises on the first row it cannot use.
Refused(rows) ==
    \/ \E i \in DOMAIN rows : Malformed(rows[i])
    \/ MissingPolicy = "error" /\ \E i \in DOMAIN rows : rows[i].value = "missing"
    \/ \E i, j \in DOMAIN rows :
          /\ rows[i].value # "missing" /\ rows[j].value # "missing"
          /\ rows[i].openedAt = rows[j].openedAt /\ rows[i].value # rows[j].value

\* Where the rows that are candles come first.
FirstOf(rows) ==
    {i \in DOMAIN rows : /\ rows[i].value # "missing"
                         /\ \A j \in DOMAIN rows : j < i => rows[j] # rows[i]}

\* The candles of the rows by their instants.
CandlesOf(rows) ==
    LET opens == Ascending({rows[i].openedAt : i \in FirstOf(rows)})
    IN  [k \in DOMAIN opens |-> rows[CHOOSE i \in FirstOf(rows) : rows[i].openedAt = opens[k]]]

\* normalize_ohlcv: candles in order, the newest HistoryLimit of them, and the audit.
Normalized(rows) ==
    LET first   == FirstOf(rows)
        ordered == CandlesOf(rows)
        trimmed == IF Len(ordered) > HistoryLimit THEN Len(ordered) - HistoryLimit ELSE 0
        missing == Cardinality({i \in DOMAIN rows : rows[i].value = "missing"})
    IN  [candles |-> SubSeq(ordered, trimmed + 1, Len(ordered)),
         report  |-> [inputRows |-> Len(rows), outputRows |-> Len(ordered) - trimmed,
                      duplicates |-> Len(rows) - missing - Cardinality(first),
                      missing |-> missing, incomplete |-> 0, trimmed |-> trimmed,
                      reordered |-> \E i, j \in first :
                                       i < j /\ rows[j].openedAt < rows[i].openedAt]]

\* The rows of a payload that had closed at the cutoff.
Closed(payload, cutoff) ==
    Picked(payload, {i \in DOMAIN payload : CloseOf(payload[i]) <= cutoff})

\* Variant: the audit counts the rows the normalisation was given.
FetchedUncounted(payload, cutoff) ==
    LET complete == Closed(payload, cutoff)
        batch == Normalized(complete)
    IN  IF Refused(complete) THEN None
        ELSE [batch EXCEPT !.report.incomplete = Len(payload) - Len(complete)]

\* fetch_ohlcv: rows that have not closed at the cutoff are left out, unread and counted.
Fetched(payload, cutoff) ==
    LET complete == Closed(payload, cutoff)
        batch == Normalized(complete)
    IN  IF Refused(complete) THEN None
        ELSE [batch EXCEPT !.report.inputRows = Len(payload),
                           !.report.incomplete = Len(payload) - Len(complete)]

-----------------------------------------------------------------------------
(* What an observer says of it.                                            *)

\* SEVERITY_BY_CODE, of the codes that the session and this observer use.
Severity ==
    [RUN_STARTED |-> "INFO", RUN_COMPLETED |-> "INFO", RUN_FAILED |-> "CRITICAL",
     MONITOR_INTERNAL_FAILURE |-> "CRITICAL", MONITOR_OBSERVATION_DROPPED |-> "WARNING",
     DATA_FETCH_FAILED |-> "CRITICAL", DATA_PROVIDER_HTTP_ERROR |-> "WARNING",
     DATA_RATE_LIMITED |-> "WARNING", DATA_UNAVAILABLE |-> "CRITICAL",
     DATA_DUPLICATES_REMOVED |-> "INFO", DATA_MISSING_ROWS_DROPPED |-> "WARNING",
     DATA_INCOMPLETE_ROWS_DROPPED |-> "WARNING", DATA_ROWS_TRIMMED |-> "INFO",
     DATA_REORDERED |-> "WARNING", DATA_MALFORMED |-> "WARNING", DATA_STALE |-> "WARNING",
     DATA_GAP |-> "WARNING", DATA_INTERVAL_ANOMALY |-> "WARNING",
     DATA_FUTURE_TIMESTAMP |-> "CRITICAL"]

ComponentFor(code) ==
    IF code \in {"DATA_DUPLICATES_REMOVED", "DATA_MISSING_ROWS_DROPPED",
                 "DATA_INCOMPLETE_ROWS_DROPPED", "DATA_ROWS_TRIMMED", "DATA_REORDERED",
                 "DATA_MALFORMED"}
    THEN "DATA_INTEGRITY" ELSE "MARKET_DATA"

Event(component, code, detail) ==
    [component |-> component, code |-> code, severity |-> Severity[code], detail |-> detail]
Observed(code, amount) == Event(ComponentFor(code), code, <<amount>>)

When(condition, event) == IF condition THEN <<event>> ELSE <<>>

\* Conditions of the payload: the counts of the audit that are not zero.
IntegrityEvents(report) ==
    When(report.duplicates > 0, Observed("DATA_DUPLICATES_REMOVED", report.duplicates))
    \o When(report.missing > 0, Observed("DATA_MISSING_ROWS_DROPPED", report.missing))
    \o When(report.incomplete > 0, Observed("DATA_INCOMPLETE_ROWS_DROPPED", report.incomplete))
    \o When(report.trimmed > 0, Observed("DATA_ROWS_TRIMMED", report.trimmed))
    \o When(report.reordered, Observed("DATA_REORDERED", report.inputRows))

\* How old the newest close is.
FreshnessEvents(age) ==
    IF age < 0 THEN <<Observed("DATA_FUTURE_TIMESTAMP", -age)>>
    ELSE When(age > Interval * StaleAfter, Observed("DATA_STALE", age \div Interval))

IsGap(offset) == offset \div Interval > GapTolerance

\* One pair of neighbours, by how far the second opens after the first closed.
ContinuityEvents(offset) ==
    IF offset < 0 THEN <<Observed("DATA_INTERVAL_ANOMALY", offset)>>
    ELSE When(IsGap(offset), Observed("DATA_GAP", offset \div Interval))
         \o When(offset % Interval # 0, Observed("DATA_INTERVAL_ANOMALY", offset % Interval))

Offsets(candles) ==
    [i \in 1 .. Len(candles) - 1 |-> candles[i + 1].openedAt - CloseOf(candles[i])]

Counter(name, total) == [name |-> name, value |-> <<total>>]

\* observe_batch.
ObserveBatch(batch, at) ==
    LET report  == batch.report
        candles == batch.candles
        age     == at - CloseOf(Last(candles))
        offsets == Offsets(candles)
    IN  [events |->
            When(candles = <<>>, Observed("DATA_UNAVAILABLE", report.inputRows))
            \o IntegrityEvents(report)
            \o (IF candles = <<>> THEN <<>> ELSE FreshnessEvents(age))
            \o FlattenSeq([i \in DOMAIN offsets |-> ContinuityEvents(offsets[i])]),
         metrics |->
            <<Counter("rows.input", report.inputRows), Counter("rows.output", report.outputRows),
              Counter("rows.rejected", report.duplicates + report.missing + report.incomplete
                                       + report.trimmed),
              Counter("gaps", Cardinality({i \in DOMAIN offsets : IsGap(offsets[i])})),
              [name |-> "output_ratio", value |-> <<report.outputRows, report.inputRows>>]>>
            \o (IF candles # <<>> /\ age >= 0 THEN <<Counter("freshness_age", age)>> ELSE <<>>)]

\* observe_failure, with the code _classify_failure gives to an error of the data layer.
Failures ==
    [RateLimitError |-> "DATA_RATE_LIMITED", ProviderHTTPError |-> "DATA_PROVIDER_HTTP_ERROR",
     DataValidationError |-> "DATA_MALFORMED", DataConfigurationError |-> "DATA_UNAVAILABLE",
     DataProviderError |-> "DATA_FETCH_FAILED"]

ObserveFailure(error) ==
    [events  |-> <<Event(ComponentFor(Failures[error]), Failures[error], <<>>)>>,
     metrics |-> <<Counter("failures", 1)>>]

=============================================================================
