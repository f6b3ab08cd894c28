---------------------------- MODULE OutcomeTracking ----------------------------
(***************************************************************************)
(* What becomes of the published signals (analysis/outcome_tracking and    *)
(* analytics): the evaluator that follows every BUY for a fixed number of  *)
(* candles, the observer that keeps the ledger of publications and finals, *)
(* the lifecycle that feeds both, the snapshot of the ledger and the       *)
(* statistics over it.  Everything is a function of values; the machines   *)
(* that use it are DeclaredRun and Research.                               *)
(*                                                                         *)
(* A candle carries the score the chain gives it, and a frame is a BUY     *)
(* when that score reaches the threshold of the declared configuration:    *)
(* the analysis chain itself is the subject of AnalysisChain and Runtime.  *)
(* An identity is the content it is a digest of.                           *)
(***************************************************************************)
EXTENDS Selection

CONSTANTS
    None,
    RatioUnit,      \* a ratio is counted in parts of this: a multiple of every price
    MonthLength     \* candles that open in one UTC month

ASSUME MonthAssumption == MonthLength \in Nat \ {0}
ASSUME RatioAssumption == RatioUnit \in Nat \ {0}

-----------------------------------------------------------------------------
(* Frames.                                                                 *)

Frame(prefix, chain) == [prefix |-> prefix, chain |-> chain]

FramesOf(history, chain) == [i \in 1..Len(history) |-> Frame(SubSeq(history, 1, i), chain)]

CurrentObservation(frame) ==
    LET n == Len(frame.prefix)
    IN  [index |-> n - 1, candle |-> frame.prefix[n], availableAt |-> frame.prefix[n].openedAt + 1]

IsBuy(frame) == CurrentObservation(frame).candle.score >= frame.chain

SignalId(frame) == frame
OutcomeIdentity(frame, settings) == [signal |-> SignalId(frame), horizon |-> settings.horizon]

-----------------------------------------------------------------------------
(* One outcome: SignalOutcome and its versions.                            *)

Ratio(numerator, denominator) == (numerator * RatioUnit) \div denominator

ClassifyOutcome(difference) ==
    IF difference > 0 THEN "WIN" ELSE IF difference < 0 THEN "LOSS" ELSE "FLAT"

ImprovedHigh(prior, price, index) ==
    IF prior = None \/ price > prior.price THEN [price |-> price, index |-> index] ELSE prior

ImprovedLow(prior, price, index) ==
    IF prior = None \/ price < prior.price THEN [price |-> price, index |-> index] ELSE prior

MfeReturn(outcome) == Ratio(outcome.mfe.price - outcome.referenceClose, outcome.referenceClose)
MaeReturn(outcome) == Ratio(outcome.mae.price - outcome.referenceClose, outcome.referenceClose)
FinalReturn(outcome) == Ratio(outcome.final.price - outcome.referenceClose, outcome.referenceClose)

OpenOutcome(frame, settings) ==
    LET seen == CurrentObservation(frame)
    IN  [settings |-> settings, status |-> "OPEN", id |-> OutcomeIdentity(frame, settings),
         signal |-> SignalId(frame),
         reference |-> [index |-> seen.index, openedAt |-> seen.candle.openedAt],
         referenceClose |-> seen.candle.close, observed |-> 0,
         mfe |-> None, mae |-> None, final |-> None,
         createdAt |-> seen.availableAt, evaluatedAt |-> None, finalizedAt |-> None,
         evidence |-> frame]

\* The next version of an open outcome; done when its horizon closes with this candle.
NextVersion(prior, frame, done) ==
    LET seen == CurrentObservation(frame)
    IN  [settings |-> prior.settings,
         status |-> IF done THEN ClassifyOutcome(seen.candle.close - prior.referenceClose)
                            ELSE "OPEN",
         id |-> prior.id, signal |-> prior.signal, reference |-> prior.reference,
         referenceClose |-> prior.referenceClose, observed |-> prior.observed + 1,
         mfe |-> ImprovedHigh(prior.mfe, seen.candle.high, seen.index),
         mae |-> ImprovedLow(prior.mae, seen.candle.low, seen.index),
         final |-> IF done THEN [price |-> seen.candle.close, index |-> seen.index] ELSE None,
         createdAt |-> prior.createdAt, evaluatedAt |-> seen.availableAt,
         finalizedAt |-> IF done THEN seen.availableAt ELSE None, evidence |-> frame]

\* Variant: the horizon closes one candle early.
AdvanceEarly(prior, frame) ==
    NextVersion(prior, frame, prior.observed + 2 >= prior.settings.horizon)

AdvanceOutcome(prior, frame) ==
    NextVersion(prior, frame, prior.observed + 1 = prior.settings.horizon)

\* SignalOutcome.__post_init__: what its constructor accepts.
OutcomeIsValid(o) ==
    /\ o.observed <= o.settings.horizon
    /\ o.evaluatedAt # None => o.evaluatedAt >= o.createdAt
    /\ o.finalizedAt # None => o.evaluatedAt # None /\ o.finalizedAt >= o.evaluatedAt
    /\ \A extreme \in {o.mfe, o.mae} \ {None} :
          extreme.index \in o.reference.index + 1 .. o.reference.index + o.observed
    /\ (o.observed = 0) = (o.mfe = None) /\ (o.observed = 0) = (o.evaluatedAt = None)
    /\ IF o.status = "OPEN"
       THEN o.final = None /\ o.finalizedAt = None /\ o.observed < o.settings.horizon
       ELSE /\ o.observed = o.settings.horizon
            /\ o.final.index = o.reference.index + o.observed
            /\ o.finalizedAt # None
            /\ o.status = ClassifyOutcome(o.final.price - o.referenceClose)

IsOpen(outcome) == outcome.status = "OPEN"
IsFinal(outcome) == ~IsOpen(outcome)

-----------------------------------------------------------------------------
(* The statistics over finalized outcomes: aggregate.                      *)

Total(values) ==
    LET sum[n \in 0 .. Len(values)] == IF n = 0 THEN 0 ELSE sum[n - 1] + values[n]
    IN  sum[Len(values)]

CountOf(status, records) == Cardinality({i \in DOMAIN records : records[i].status = status})

\* A rate is exact: the numerator and the denominator of the ratio.
Average(sum, count) == IF count = 0 THEN None ELSE <<sum, count>>

Aggregate(finalized, total, open) ==
    LET finals == Total([i \in DOMAIN finalized |-> FinalReturn(finalized[i])])
        mfe == Total([i \in DOMAIN finalized |-> MfeReturn(finalized[i])])
        mae == Total([i \in DOMAIN finalized |-> MaeReturn(finalized[i])])
        count == Len(finalized)
    IN  [total |-> total, open |-> open,
         wins |-> CountOf("WIN", finalized), losses |-> CountOf("LOSS", finalized),
         flats |-> CountOf("FLAT", finalized), finalized |-> count,
         finalSum |-> finals, mfeSum |-> mfe, maeSum |-> mae,
         winRate |-> Average(CountOf("WIN", finalized), count),
         averageFinal |-> Average(finals, count),
         averageMfe |-> Average(mfe, count), averageMae |-> Average(mae, count)]

\* The guards of aggregate and AnalyticsSummary.__post_init__.
SummaryIsValid(s) ==
    /\ s.wins + s.losses + s.flats = s.finalized
    /\ s.finalized + s.open = s.total
    /\ (s.finalized = 0) = (s.winRate = None)

-----------------------------------------------------------------------------
(* OutcomeTrackingAnalyzer: records are kept in the order of creation.     *)

NewTracker(settings) ==
    [settings |-> settings, latest |-> None, count |-> 0, records |-> <<>>, tracked |-> {},
     chain |-> None]

TrackerAccepts(tracker, frame) ==
    LET seen == CurrentObservation(frame)
    IN  /\ IsBuy(frame) => SignalId(frame) \notin tracker.tracked
        /\ seen.index = tracker.count
        /\ tracker.latest # None =>
              LET prior == CurrentObservation(tracker.latest)
              IN  seen.availableAt >= prior.availableAt
                  /\ seen.candle.openedAt > prior.candle.openedAt
        /\ tracker.chain # None => frame.chain = tracker.chain

Evaluated(tracker, frame) ==
    [i \in DOMAIN tracker.records |->
        IF IsOpen(tracker.records[i]) THEN AdvanceOutcome(tracker.records[i], frame)
                                      ELSE tracker.records[i]]

Created(tracker, frame) ==
    IF IsBuy(frame) THEN <<OpenOutcome(frame, tracker.settings)>> ELSE <<>>

UpdateTracker(tracker, frame) ==
    [settings |-> tracker.settings, latest |-> frame, count |-> tracker.count + 1,
     records |-> Evaluated(tracker, frame) \o Created(tracker, frame),
     tracked |-> tracker.tracked \union (IF IsBuy(frame) THEN {SignalId(frame)} ELSE {}),
     chain |-> frame.chain]

\* OutcomeSnapshot.completed: the versions this frame made final.
Completed(tracker, frame) ==
    {record \in ToSet(UpdateTracker(tracker, frame).records) :
        IsFinal(record) /\ record.evidence = frame}

-----------------------------------------------------------------------------
(* AnalyticsObserver: publications in order, and their finals by identity. *)

NewObserver(settings) == [settings |-> settings, observations |-> <<>>, finals |-> {}]

ObservedIds(observer) == {outcome.id : outcome \in ToSet(observer.observations)}
FinalIds(observer) == {outcome.id : outcome \in observer.finals}

Observe(observer, frame) ==
    IF IsBuy(frame) /\ OutcomeIdentity(frame, observer.settings) \notin ObservedIds(observer)
    THEN [observer EXCEPT !.observations = Append(@, OpenOutcome(frame, observer.settings))]
    ELSE observer

\* The refusals of record_finalized; the same final again is no error.
MayFinalize(observer, record) ==
    /\ IsFinal(record) /\ record.settings = observer.settings
    /\ record.id \in ObservedIds(observer)
    /\ \A final \in observer.finals : final.id = record.id => final = record

RecordFinalized(observer, records) == [observer EXCEPT !.finals = @ \union records]

FinalOf(observer, outcome) ==
    IF outcome.id \in FinalIds(observer)
    THEN CHOOSE final \in observer.finals : final.id = outcome.id
    ELSE outcome

\* Each observation in its current version; those that are final, in the same order.
CurrentVersions(observer) ==
    [i \in DOMAIN observer.observations |-> FinalOf(observer, observer.observations[i])]
FinalsIn(versions) == Picked(versions, {i \in DOMAIN versions : IsFinal(versions[i])})
FinalizedOutcomes(observer) == FinalsIn(CurrentVersions(observer))
OpenOutcomes(observer) ==
    LET versions == CurrentVersions(observer)
    IN  Picked(versions, {i \in DOMAIN versions : IsOpen(versions[i])})

StrategyStats(finalized, open) == Aggregate(finalized, open + Len(finalized), open)

Month(outcome) == outcome.reference.openedAt \div MonthLength

Summary(records) ==
    LET finalized == FinalsIn(records)
    IN  Aggregate(finalized, Len(records), Len(records) - Len(finalized))

OfMonth(month, versions) ==
    Picked(versions, {i \in DOMAIN versions : Month(versions[i]) = month})

MonthlyReport(versions) ==
    [month \in {Month(version) : version \in ToSet(versions)} |-> Summary(OfMonth(month, versions))]

\* MonthlyReport.__post_init__: the months account for the totals.
Accumulated(report, field) ==
    LET months == Ascending(DOMAIN report)
        sum[n \in 0 .. Cardinality(DOMAIN report)] ==
            IF n = 0 THEN 0 ELSE sum[n - 1] + report[months[n]][field]
    IN  sum[Cardinality(DOMAIN report)]

MonthsSumTo(report, totals) ==
    \A field \in {"total", "open", "finalized", "wins", "losses", "flats"} :
        Accumulated(report, field) = totals[field]

-----------------------------------------------------------------------------
(* SignalOutcomeLifecycle.                                                 *)

NewLifecycle(settings) == [tracker |-> NewTracker(settings), observer |-> NewObserver(settings)]

LifecycleAccepts(lifecycle, frame) ==
    /\ TrackerAccepts(lifecycle.tracker, frame)
    /\ \A record \in Completed(lifecycle.tracker, frame) :
          MayFinalize(Observe(lifecycle.observer, frame), record)

UpdateLifecycle(lifecycle, frame) ==
    [tracker |-> UpdateTracker(lifecycle.tracker, frame),
     observer |-> RecordFinalized(Observe(lifecycle.observer, frame),
                                  Completed(lifecycle.tracker, frame))]

\* LifecycleStep.__post_init__: the observer and the evaluator open the same record.
StepIsValid(lifecycle, frame) ==
    IsBuy(frame) =>
        Last(Observe(lifecycle.observer, frame).observations) = Created(lifecycle.tracker, frame)[1]

RunLifecycle(settings, frames) ==
    LET after[n \in 0 .. Len(frames)] ==
            IF n = 0 THEN NewLifecycle(settings) ELSE UpdateLifecycle(after[n - 1], frames[n])
    IN  after[Len(frames)]

-----------------------------------------------------------------------------
(* LedgerSnapshot: the projection of the observer that is stored.          *)

SnapshotLedger(lifecycle) ==
    [settings |-> lifecycle.observer.settings,
     observations |-> lifecycle.observer.observations,
     finalized |-> FinalizedOutcomes(lifecycle.observer)]

LedgerOf(history, configuration) ==
    SnapshotLedger(RunLifecycle([horizon |-> configuration.horizon],
                                FramesOf(history, configuration.chain)))

SnapshotIsValid(snapshot) ==
    /\ \A i, j \in DOMAIN snapshot.observations :
          snapshot.observations[i].id = snapshot.observations[j].id => i = j
    /\ \A i, j \in DOMAIN snapshot.finalized :
          snapshot.finalized[i].id = snapshot.finalized[j].id => i = j
    /\ \A final \in ToSet(snapshot.finalized) :
          /\ IsFinal(final) /\ final.settings = snapshot.settings /\ OutcomeIsValid(final)
          /\ \E seen \in ToSet(snapshot.observations) :
                seen.id = final.id /\ seen.signal = final.signal

\* RestoredAnalyticsLedger: the observer's views, computed from the snapshot alone.
Restored(snapshot) ==
    [settings |-> snapshot.settings, observations |-> snapshot.observations,
     finals |-> ToSet(snapshot.finalized)]

RestoredStats(snapshot) ==
    StrategyStats(snapshot.finalized, Len(snapshot.observations) - Len(snapshot.finalized))

RestoredReport(snapshot) == MonthlyReport(CurrentVersions(Restored(snapshot)))
=============================================================================
