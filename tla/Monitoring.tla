------------------------------ MODULE Monitoring ------------------------------
(***************************************************************************)
(* A monitored run: MonitoringSession (monitoring/session.py) with its     *)
(* health map (health.py), its aggregates and its report (report.py), and  *)
(* a caller who fetches batches, has them observed and hands what is       *)
(* observed to the session, one event and one metric at a time, as the     *)
(* docstring of monitoring/observers/data.py leaves to her.                *)
(*                                                                         *)
(* The monitor the session forwards to may raise at any call.  The wall    *)
(* clock is read again at every use, and may have been set back since.     *)
(***************************************************************************)
EXTENDS MarketData

CONSTANTS
    Payloads,          \* what the exchange may answer
    Errors,            \* the errors a fetch may end in
    Instants,          \* bound: the readings of the wall clock
    MaxEventsPerRun,   \* MonitoringConfig.max_events_per_run
    MaxFetches,        \* bound: fetches of a run
    MaxMonitorFailures \* bound: calls at which the monitor raises

ASSUME MonitoringAssumption ==
    /\ Instants \subseteq Nat /\ Instants # {}
    /\ MaxEventsPerRun \in Nat \ {0} /\ MaxFetches \in Nat /\ MaxMonitorFailures \in Nat
    /\ Errors \subseteq DOMAIN Failures
    /\ Payloads \subseteq Seq([openedAt : Nat, value : STRING])

VARIABLES
    now,          \* the wall clock
    fetches,      \* how often the caller has fetched
    fetched,      \* the last fetch: payload, cutoff, batch or error; None before the first
    observation,  \* what the observer made of it; None until it has looked
    events, metrics,   \* what the caller has still to hand over
    session       \* the session, None before begin()

vars == <<now, fetches, fetched, observation, events, metrics, session>>

-----------------------------------------------------------------------------
(* Health.                                                                 *)

Components == {"MARKET_DATA", "DATA_INTEGRITY", "SIGNAL_ENGINE", "DELIVERY",
               "TELEGRAM_TRANSPORT", "MONITORING", "GOVERNANCE_OBSERVER", "RUN_LIFECYCLE"}

Rank == [HEALTHY |-> 0, UNKNOWN |-> 1, DEGRADED |-> 2, FAILING |-> 3]

WorseOf(left, right) == IF Rank[left] >= Rank[right] THEN left ELSE right

Floor == [INFO |-> "HEALTHY", WARNING |-> "DEGRADED", CRITICAL |-> "FAILING"]

\* transition: severity is a floor, an informational event changes nothing.
Transitioned(health, event) ==
    [health EXCEPT ![event.component] = WorseOf(@, Floor[event.severity])]

\* rollup.
Overall(health) ==
    CHOOSE state \in Range(health) : \A other \in Range(health) : Rank[other] <= Rank[state]

-----------------------------------------------------------------------------
(* Aggregates, by the identity of their event.                             *)

FromEvent(at) == [count |-> 1, first |-> at, last |-> at]

Merged(a, b) ==
    [count |-> a.count + b.count,
     first |-> IF a.first <= b.first THEN a.first ELSE b.first,
     last  |-> IF a.last >= b.last THEN a.last ELSE b.last]

\* Variant: a later observation is taken for a later instant.
AdvancedInOrder(aggregates, event, at) ==
    [known \in DOMAIN aggregates \union {event} |->
        IF known # event THEN aggregates[known]
        ELSE IF event \in DOMAIN aggregates
        THEN [aggregates[event] EXCEPT !.count = @ + 1, !.last = at]
        ELSE FromEvent(at)]

\* advance_aggregate: the seen-range is widened.
Advanced(aggregates, event, at) ==
    [known \in DOMAIN aggregates \union {event} |->
        IF known # event THEN aggregates[known]
        ELSE IF event \in DOMAIN aggregates THEN Merged(aggregates[event], FromEvent(at))
        ELSE FromEvent(at)]

NoAggregates == [event \in {} |-> FromEvent(0)]

AggregateEvents(retained) ==
    LET upTo[n \in 0 .. Len(retained)] ==
            IF n = 0 THEN NoAggregates
            ELSE Advanced(upTo[n - 1], retained[n].event, retained[n].at)
    IN  upTo[Len(retained)]

MergeAggregates(left, right) ==
    [event \in DOMAIN left \union DOMAIN right |->
        IF event \notin DOMAIN left THEN right[event]
        ELSE IF event \notin DOMAIN right THEN left[event]
        ELSE Merged(left[event], right[event])]

\* HealthEventAggregate refuses a range that is turned round.
AggregateIsValid(aggregate) == aggregate.count >= 1 /\ aggregate.first <= aggregate.last

\* MetricSummary refuses two metrics of one name.
SummaryIsValid(entries) ==
    \A i, j \in DOMAIN entries : entries[i].name = entries[j].name => i = j

-----------------------------------------------------------------------------
(* The session.                                                            *)

\* _quarantine: one of monitoring's own defects, at the clock of this moment.
Quarantined(s, code) ==
    LET event == Event("MONITORING", code, <<>>)
    IN  [s EXCEPT !.health = Transitioned(@, event),
                  !.quarantined = Advanced(@, event, now)]

\* _contain: a monitor that raises is counted, and the call goes on.
Forwarded(s, raises) ==
    IF raises THEN Quarantined([s EXCEPT !.selfFailures = @ + 1], "MONITOR_INTERNAL_FAILURE")
    ELSE s

\* Variant: a dropped event is forgotten.
RecordedIfRetained(s, event, at, raises) ==
    IF Len(s.retained) >= MaxEventsPerRun
    THEN Quarantined([s EXCEPT !.observed = @ + 1, !.dropped = @ + 1,
                               !.log = Append(@, [event |-> event, at |-> at])],
                     "MONITOR_OBSERVATION_DROPPED")
    ELSE Forwarded([s EXCEPT !.observed = @ + 1, !.health = Transitioned(@, event),
                             !.log = Append(@, [event |-> event, at |-> at]),
                             !.retained = Append(@, [event |-> event, at |-> at])], raises)

\* record.  log is what no part of the code keeps: everything that was recorded.
Recorded(s, event, at, raises) ==
    LET seen == [s EXCEPT !.observed = @ + 1, !.health = Transitioned(@, event),
                          !.log = Append(@, [event |-> event, at |-> at])]
    IN  IF Len(s.retained) >= MaxEventsPerRun
        THEN Quarantined([seen EXCEPT !.dropped = @ + 1], "MONITOR_OBSERVATION_DROPPED")
        ELSE Forwarded([seen EXCEPT !.retained = Append(@, [event |-> event, at |-> at])], raises)

\* record_metric.
MetricRecorded(s, metric, raises) ==
    Forwarded([s EXCEPT !.metrics = Append(@, metric)], raises)

\* __init__.  reports is what end() has returned: nothing, or the one report of the run.
NewSession(at) ==
    [startedAt |-> at, health |-> [component \in Components |-> "UNKNOWN"],
     quarantined |-> NoAggregates, retained |-> <<>>, metrics |-> <<>>,
     observed |-> 0, dropped |-> 0, selfFailures |-> 0, ended |-> FALSE,
     reports |-> {}, log |-> <<>>]

\* The report end() assembles, and what its constructors refuse.
Report(s, at, failed) ==
    [startedAt |-> s.startedAt, endedAt |-> at, failed |-> failed, health |-> s.health,
     aggregates |-> MergeAggregates(AggregateEvents(s.retained), s.quarantined),
     metrics |-> s.metrics, observed |-> s.observed, dropped |-> s.dropped,
     selfFailures |-> s.selfFailures]

ReportIsValid(report) ==
    /\ report.endedAt >= report.startedAt
    /\ \A event \in DOMAIN report.aggregates : AggregateIsValid(report.aggregates[event])
    /\ SummaryIsValid(report.metrics)
    /\ report.dropped <= report.observed

\* end: the lifecycle of a run that did not fail is settled, the run is closed, and only then
\* the report is built: when a constructor refuses, end raises and cannot be called again.
Ended(s, failed, raises) ==
    LET told    == Recorded(s, Event("RUN_LIFECYCLE", IF failed THEN "RUN_FAILED"
                                                      ELSE "RUN_COMPLETED", <<>>), now, raises)
        settled == IF failed THEN told
                   ELSE [told EXCEPT !.health["RUN_LIFECYCLE"] = "HEALTHY"]
        report  == Report(settled, now, failed)
    IN  [settled EXCEPT !.ended = TRUE,
                        !.reports = IF ReportIsValid(report) THEN {report} ELSE {}]

IsOpen == session # None /\ ~session.ended

\* Bound: the monitor raises no more than MaxMonitorFailures times.
MayRaise(s) == {raises \in BOOLEAN : raises => s.selfFailures < MaxMonitorFailures}

-----------------------------------------------------------------------------
(* The caller.                                                             *)

Init ==
    /\ now \in Instants
    /\ fetches = 0 /\ fetched = None /\ observation = None
    /\ events = <<>> /\ metrics = <<>> /\ session = None

Begin ==
    /\ session = None
    /\ \E raises \in MayRaise(NewSession(now)) :
          session' = Recorded(NewSession(now), Event("RUN_LIFECYCLE", "RUN_STARTED", <<>>), now,
                              raises)
    /\ UNCHANGED <<now, fetches, fetched, observation, events, metrics>>

Fetch(payload) ==
    /\ IsOpen /\ events = <<>> /\ metrics = <<>>
    /\ fetched = None \/ observation # None
    /\ fetches < MaxFetches /\ fetches' = fetches + 1
    /\ LET batch == Fetched(payload, now)
       IN  fetched' = [payload |-> payload, cutoff |-> now, batch |-> batch,
                       error |-> IF batch = None THEN "DataValidationError" ELSE None]
    /\ observation' = None
    /\ UNCHANGED <<now, events, metrics, session>>

FetchFails(error) ==
    /\ IsOpen /\ events = <<>> /\ metrics = <<>>
    /\ fetched = None \/ observation # None
    /\ fetches < MaxFetches /\ fetches' = fetches + 1
    /\ fetched' = [payload |-> <<>>, cutoff |-> now, batch |-> None, error |-> error]
    /\ observation' = None
    /\ UNCHANGED <<now, events, metrics, session>>

Observe ==
    /\ IsOpen /\ fetched # None /\ observation = None
    /\ LET observed == IF fetched.batch = None THEN ObserveFailure(fetched.error)
                       ELSE ObserveBatch(fetched.batch, now)
       IN  /\ observation' = [at |-> now, events |-> observed.events,
                              metrics |-> observed.metrics]
           /\ events' = observed.events /\ metrics' = observed.metrics
    /\ UNCHANGED <<now, fetches, fetched, session>>

Record ==
    /\ IsOpen /\ events # <<>>
    /\ \E raises \in MayRaise(session) :
          session' = Recorded(session, Head(events), observation.at, raises)
    /\ events' = Tail(events)
    /\ UNCHANGED <<now, fetches, fetched, observation, metrics>>

RecordMetric ==
    /\ IsOpen /\ events = <<>> /\ metrics # <<>>
    /\ \E raises \in MayRaise(session) : session' = MetricRecorded(session, Head(metrics), raises)
    /\ metrics' = Tail(metrics)
    /\ UNCHANGED <<now, fetches, fetched, observation, events>>

\* The caller may end the run whenever she likes; a clock before its start is refused and she
\* may try again.
End(failed) ==
    /\ IsOpen /\ now >= session.startedAt
    /\ \E raises \in MayRaise(session) : session' = Ended(session, failed, raises)
    /\ UNCHANGED <<now, fetches, fetched, observation, events, metrics>>

ClockIsSet(instant) ==
    /\ now' = instant /\ now' # now
    /\ UNCHANGED <<fetches, fetched, observation, events, metrics, session>>

Next ==
    \/ Begin \/ Observe \/ Record \/ RecordMetric
    \/ \E payload \in Payloads : Fetch(payload)
    \/ \E error \in Errors : FetchFails(error)
    \/ \E failed \in BOOLEAN : End(failed)
    \/ \E instant \in Instants : ClockIsSet(instant)

Spec == Init /\ [][Next]_vars

-----------------------------------------------------------------------------

\* The floors of what was ever recorded of a component, retained or dropped, and of what the
\* session had to say of itself.
FloorsOf(s, component) ==
    {Floor[s.log[i].event.severity] :
        i \in {j \in DOMAIN s.log : s.log[j].event.component = component}}
    \union (IF component = "MONITORING" /\ s.dropped > 0 THEN {"DEGRADED"} ELSE {})
    \union (IF component = "MONITORING" /\ s.selfFailures > 0 THEN {"FAILING"} ELSE {})

\* The worst of them, UNKNOWN where nothing worse was seen.
Verdict(floors) ==
    IF "FAILING" \in floors THEN "FAILING"
    ELSE IF "DEGRADED" \in floors THEN "DEGRADED"
    ELSE "UNKNOWN"

\* Health reflects every condition seen, retained or not, whatever the monitor and the clock did:
\* it is the worst of them, UNKNOWN where nothing worse was seen, and only a run that completed
\* settles its own lifecycle (session.py, module docstring).
HealthFollowsObservations ==
    session # None =>
        \A component \in Components :
            LET settled == /\ component = "RUN_LIFECYCLE" /\ session.ended
                           /\ Last(session.log).event.code = "RUN_COMPLETED"
            IN  session.health[component] =
                   IF settled THEN "HEALTHY" ELSE Verdict(FloorsOf(session, component))

Own == {"MONITOR_INTERNAL_FAILURE", "MONITOR_OBSERVATION_DROPPED"}

\* How often a report says that a condition was seen.
CountIn(aggregates, event) ==
    IF event \in DOMAIN aggregates THEN aggregates[event].count ELSE 0

\* A report says of the session's log what there is to say.
AddsUp(s, report) ==
    LET aggregates == report.aggregates
        counted == 1 .. Len(s.log) - report.dropped
    IN  /\ report.observed = Len(s.log)
        /\ \A event \in DOMAIN aggregates :
              /\ event.code \notin Own =>
                    /\ aggregates[event].count =
                          Cardinality({i \in counted : s.log[i].event = event})
                    /\ aggregates[event].count > 0
              /\ event.code \in Own => event = Event("MONITORING", event.code, <<>>)
        /\ \A i \in counted :
              LET entry == s.log[i]
              IN  /\ entry.event \in DOMAIN aggregates
                  /\ aggregates[entry.event].first <= entry.at
                  /\ entry.at <= aggregates[entry.event].last
        /\ CountIn(aggregates, Event("MONITORING", "MONITOR_OBSERVATION_DROPPED", <<>>))
              = report.dropped
        /\ CountIn(aggregates, Event("MONITORING", "MONITOR_INTERNAL_FAILURE", <<>>))
              = report.selfFailures
        /\ \A i \in DOMAIN s.log :
              s.log[i].event.component # "RUN_LIFECYCLE" =>
                 Rank[Floor[s.log[i].event.severity]] <= Rank[Overall(report.health)]

\* A run that ends has a report, and its report adds up: what was recorded first is retained and
\* counted, condition by condition, the rest is counted as dropped; the instants of every retained
\* event lie within the range of its aggregate, every failure of the monitor shows, nothing else
\* is in the report, and the overall verdict hides no condition of another component.  The only
\* run whose report is lost is one that recorded two metrics of one name, as a caller does who
\* observes two batches in a run (report.py, session.py).
EndedRunAddsUp ==
    session # None /\ session.ended =>
        /\ session.reports = {} => ~SummaryIsValid(session.metrics)
        /\ \A report \in session.reports : AddsUp(session, report)

\* The rows of a payload, judged without the normalisation: what an ideal feed would have sent.
Complete(rows, cutoff) == {i \in DOMAIN rows : CloseOf(rows[i]) <= cutoff}

\* Every row a candle that has closed, none twice, in order, no more than the window holds, on the
\* grid without a gap, and as new as the threshold asks.
Ideal(rows, cutoff, at) ==
    /\ rows # <<>> /\ Len(rows) <= HistoryLimit
    /\ Complete(rows, cutoff) = DOMAIN rows
    /\ \A i \in DOMAIN rows : rows[i].value # "missing"
    /\ \A i \in DOMAIN rows : i > 1 =>
          rows[i].openedAt - CloseOf(rows[i - 1]) \in {Interval * k : k \in 0 .. GapTolerance}
    /\ at - CloseOf(Last(rows)) \in 0 .. Interval * StaleAfter

\* What a metric of that name says.
ValueOf(entries, name) ==
    entries[CHOOSE i \in DOMAIN entries : entries[i].name = name].value[1]

\* An observer is silent exactly about a feed that could not be better.  Every row that was sent
\* is in the batch or counted as rejected, and a candle from the future is only seen when the
\* clock went back after the fetch (observe_batch, normalize_ohlcv, fetch_ohlcv).
ObservationMatchesFeed ==
    observation # None /\ fetched.batch # None =>
        LET Value(name) == ValueOf(observation.metrics, name)
        IN  /\ observation.events = <<>> <=> Ideal(fetched.payload, fetched.cutoff, observation.at)
            /\ Value("rows.input") = Value("rows.output") + Value("rows.rejected")
            /\ Value("rows.input") = Len(fetched.payload)
            /\ \A i \in DOMAIN observation.events :
                  observation.events[i].code = "DATA_FUTURE_TIMESTAMP" =>
                      observation.at < fetched.cutoff
=============================================================================
