------------------------------ MODULE Improvement ------------------------------
(***************************************************************************)
(* The controlled experiments of analysis/improvement over the reports of  *)
(* WalkForward.  A researcher calls the functions of the package in any    *)
(* order with the values earlier calls returned: evaluates a baseline,     *)
(* generates hypotheses from what lost or builds one of her own, confirms  *)
(* or rejects one, creates a candidate from a confirmed one or builds it   *)
(* outright, evaluates it, moves it through its states, compares, reviews  *)
(* and decides.  Nothing is stored by the package: every record is         *)
(* immutable, so the state is the set of the values the researcher holds,  *)
(* and an old version of a candidate stays in her hands.  She makes no     *)
(* record by calling its class.                                            *)
(*                                                                         *)
(* Meanwhile the recorded history of a market grows.  A dataset is named   *)
(* by its id and covers the candles recorded when it is read.              *)
(*                                                                         *)
(* The seven surfaces of the allow-list are three settings: quality and    *)
(* chain are the two publication thresholds, detection is any setting of   *)
(* the displacement and OTE analyzers.  An identity (a baseline hash, a    *)
(* run id, a candidate id) is the content it is a digest of.               *)
(***************************************************************************)
EXTENDS WalkForward

CONSTANTS
    Series,         \* the series that are recorded: key, symbol, timeframe and dataset id
    Markets,        \* the histories the candles of every series may be taken from
    FirstRecorded,  \* candles of every series recorded when the research starts
    Baselines,      \* the configurations a researcher may take as her baseline
    Frozen,         \* the baseline values of the allow-list
    NewValues,      \* the values a delta may declare, by setting
    Protocol,       \* the dataset ids, the settings and the minimum of the comparison
    Bounds          \* of the records a researcher holds, by kind: she stays within one of them

Surfaces == {"quality", "chain", "detection"}

Keys == {series.key : series \in Series}

\* A time, and three prices in a unit small enough for all.
Prices == [openedAt : Nat, low : Nat, close : Nat \ {0}, high : Nat]
Rates == Nat \X (Nat \ {0})
Detections == {baseline.detection : baseline \in Baselines} \union NewValues["detection"]

ASSUME SeriesAssumption ==
    /\ \A a, b \in Series : a.key = b.key => a = b
    /\ \A series \in Series : {series.key, series.symbol, series.timeframe} \subseteq ToSet(Names)

ASSUME MarketsAssumption ==
    \A history \in Markets :
        /\ DOMAIN history = Keys
        /\ \A key \in Keys :
              /\ history[key] \in Seq(Prices) /\ FirstRecorded[key] \in 0 .. Len(history[key])
              /\ \A i, j \in DOMAIN history[key] :
                    /\ i < j => history[key][i].openedAt < history[key][j].openedAt
                    /\ i <= j => \A detection \in Detections :
                          /\ Score(SubSeq(history[key], i, j), detection) \in Nat
                          /\ Labels(SubSeq(history[key], i, j), detection) \in DOMAIN Combination
              /\ \A i \in DOMAIN history[key] :
                    history[key][i].openedAt \div MonthLength + 1 \in DOMAIN MonthNames

ASSUME ProtocolAssumption ==
    /\ Protocol.minimum \in Nat \ {0}
    /\ Protocol.settings \in
          [development : Nat, validation : Nat, step : Nat, lookback : Nat, multiple : Nat,
           minimum : Nat, windows : Nat, trend : Rates, high : Rates, low : Rates, floor : Rates,
           spread : Rates, winner : Rates, loser : Rates, diagnosis : Nat, ranking : Nat]
    /\ SettingsAreValid(Protocol.settings)

ASSUME BaselinesAssumption ==
    /\ DOMAIN Frozen = Surfaces /\ DOMAIN NewValues = Surfaces
    /\ NewValues["quality"] \subseteq Nat /\ NewValues["chain"] \subseteq Nat
    /\ Baselines \subseteq [quality : Nat, chain : Nat, detection : Detections,
                            horizon : Nat \ {0}, minimum : Nat \ {0}]

VARIABLES
    market,         \* the candles every series will have had, by key
    recorded,       \* how many of them are recorded so far, by key
    evaluation,     \* what the last evaluation computed or refused
    evidence,       \* the CandidateEvidence records returned so far
    hypotheses, confirmations,
    versions,       \* every version of every candidate that was returned
    decisions

researched == <<market, recorded, evaluation, evidence, hypotheses, confirmations, versions,
                decisions>>

\* How many records she holds; of the hypotheses, those she built herself.
Held == [evidence |-> Cardinality(evidence),
         hypotheses |-> Cardinality({h \in hypotheses : h.weakness = None}),
         confirmations |-> Cardinality(confirmations),
         candidates |-> Cardinality({version.candidate : version \in versions}),
         versions |-> Cardinality(versions), decisions |-> Cardinality(decisions)]

RoomFor(kinds) ==
    \E bound \in Bounds : \A kind \in DOMAIN Held :
        Held[kind] + (IF kind \in kinds THEN 1 ELSE 0) <= bound[kind]

-----------------------------------------------------------------------------
(* The recorded datasets.                                                  *)

DatasetsAt(group, lengths) ==
    LET keys == Sorted({series.key : series \in group})
    IN  [i \in DOMAIN keys |->
        LET series == CHOOSE s \in group : s.key = keys[i]
        IN  [key |-> series.key, symbol |-> series.symbol, timeframe |-> series.timeframe,
             id |-> series.id,
             candles |-> SubSeq(market[series.key], 1, lengths[series.key])]]

Grow(key) ==
    /\ recorded[key] < Len(market[key])
    /\ recorded' = [recorded EXCEPT ![key] = @ + 1]
    /\ UNCHANGED <<market, evaluation, evidence, hypotheses, confirmations, versions, decisions>>

-----------------------------------------------------------------------------
(* Deltas and candidates.                                                  *)

\* CandidateDelta: on the allow-list, from the frozen value, to another legal one.
Deltas == {[setting |-> setting, old |-> Frozen[setting], new |-> new] :
              setting \in Surfaces, new \in UNION {NewValues[s] : s \in Surfaces}}
DeltaIsValid(delta) == delta.new \in NewValues[delta.setting] /\ delta.new # delta.old

\* _validate_deltas: at least one, and one to a surface.
DeltasAreValid(deltas) ==
    /\ deltas # {} /\ \A delta \in deltas : DeltaIsValid(delta)
    /\ \A a, b \in deltas : a.setting = b.setting => a = b

\* apply_candidate_deltas refuses a baseline that does not hold the old values.
AppliesTo(deltas, baseline) == \A delta \in deltas : baseline[delta.setting] = delta.old

Applied(baseline, deltas) ==
    [setting \in DOMAIN baseline |->
        IF \E delta \in deltas : delta.setting = setting
        THEN (CHOOSE delta \in deltas : delta.setting = setting).new
        ELSE baseline[setting]]

Candidate(baseline, deltas) == [baseline |-> baseline, deltas |-> deltas]
Version(candidate, status) == [candidate |-> candidate, status |-> status]

\* build_candidate asks for no hypothesis.
BuildCandidate(baseline, deltas) ==
    /\ DeltasAreValid(deltas)
    /\ RoomFor({"candidates", "versions"})
    /\ versions' = versions \union {Version(Candidate(baseline, deltas), "PROPOSED")}
    /\ UNCHANGED <<market, recorded, evaluation, evidence, hypotheses, confirmations, decisions>>

\* state.py: the transitions no human is asked for.
AutoTransitions ==
    [PROPOSED |-> {"EXPERIMENTAL"}, EXPERIMENTAL |-> {"EVALUATED", "FAILED"},
     EVALUATED |-> {"REVIEW_REQUIRED"}, REVIEW_REQUIRED |-> {}, APPROVED |-> {},
     REJECTED |-> {}, FAILED |-> {}]
Statuses == DOMAIN AutoTransitions
HumanOnly == {"APPROVED", "REJECTED"}

CanTransition(version, target) ==
    target \notin HumanOnly /\ target \in AutoTransitions[version.status]

\* transition, of any version that is held: it asks for no evidence.
Transition(version, target) ==
    /\ CanTransition(version, target)
    /\ RoomFor({"versions"})
    /\ versions' = versions \union {Version(version.candidate, target)}
    /\ UNCHANGED <<market, recorded, evaluation, evidence, hypotheses, confirmations, decisions>>

-----------------------------------------------------------------------------
(* Evaluation.                                                             *)

\* The metrics evaluate_config flattens: one row per cell.
MetricOf(cell) ==
    [value |-> [finalized |-> <<cell.summary.finalized, 1>>, winRate |-> cell.summary.winRate,
                averageFinal |-> cell.summary.averageFinal],
     sample |-> cell.summary.finalized]

Metrics(report) ==
    [name \in {<<"overall", "all">>}
              \union UNION {{<<dimension, cell.name>> : cell \in ToSet(report.by[dimension])} :
                                dimension \in Dimensions} |->
        MetricOf(IF name[1] = "overall" THEN report.overall
                 ELSE CHOOSE cell \in ToSet(report.by[name[1]]) : cell.name = name[2])]

\* What the engines compute of the datasets when nothing refuses.
ReportsOf(backtest, robustness) ==
    [performance |-> backtest.performance, robustness |-> robustness,
     intelligence |-> Intelligence(robustness, Protocol.settings)]

\* The refusals on the way: of the protocol, of the datasets and of the reports' constructors.
ReportsAreAccepted(ids, datasets, backtest, reports) ==
    /\ ids = Protocol.ids
    /\ \A i \in DOMAIN datasets : DatasetIsValid(datasets[i])
    /\ BacktestIsValid(backtest)
    /\ RobustnessIsValid(reports.robustness) /\ HasRows(reports.robustness)
    /\ IntelligenceIsValid(reports.intelligence)

Recorded(group) == [series \in group |-> recorded[series.key]]

Evidence(subject, baseline, group, configuration, reports) ==
    [subject |-> subject, baseline |-> baseline,
     runId |-> [configuration |-> configuration, ids |-> {series.id : series \in group}],
     provenance |-> Recorded(group),
     metrics |-> Metrics(reports.intelligence), status |-> "EVALUATED"]

NothingEvaluated == [outcome |-> "none"]

\* An evaluation that is refused raises and returns nothing.
Returned(subject, baseline, group, configuration, accepted, reports) ==
    /\ evaluation' =
          [outcome |-> IF accepted THEN "reports" ELSE "refused",
           subject |-> subject, baseline |-> baseline, configuration |-> configuration,
           group |-> group, recorded |-> recorded, reports |-> IF accepted THEN reports ELSE None]
    /\ evidence' = IF ~accepted THEN evidence
                   ELSE evidence \union
                          {Evidence(subject, baseline, group, configuration, reports)}
    /\ UNCHANGED <<market, recorded, hypotheses, confirmations, versions, decisions>>

ReturnReports(subject, baseline, group, configuration, datasets, backtest, reports) ==
    Returned(subject, baseline, group, configuration,
             ReportsAreAccepted({series.id : series \in group}, datasets, backtest, reports),
             reports)

EvaluateReplay(subject, baseline, group, configuration, datasets, backtest) ==
    ReturnReports(subject, baseline, group, configuration, datasets, backtest,
                  ReportsOf(backtest, Robustness(datasets, configuration, Protocol.settings)))

EvaluateConfig(subject, baseline, group, configuration, datasets) ==
    EvaluateReplay(subject, baseline, group, configuration, datasets,
                   Backtest(datasets, configuration))

\* The datasets of a group come in the order of their keys.
Evaluate(subject, baseline, group, configuration) ==
    EvaluateConfig(subject, baseline, group, configuration, DatasetsAt(group, recorded))

\* The same evaluation of the same candles returns the same value: it is not repeated.
IsNew(subject, group) ==
    /\ RoomFor({"evidence"})
    /\ evaluation.outcome # "none" =>
          <<evaluation.subject, evaluation.group, evaluation.recorded>> # <<subject, group, recorded>>
    /\ \A record \in evidence :
          <<record.subject, record.provenance>> # <<subject, Recorded(group)>>

EvaluateBaseline(baseline, group) ==
    /\ IsNew(baseline, group)
    /\ Evaluate(baseline, baseline, group, baseline)

\* evaluate_candidate takes a candidate in any status.
EvaluateCandidate(candidate, baseline, group) ==
    /\ IsNew(candidate, group)
    /\ candidate.baseline = baseline /\ AppliesTo(candidate.deltas, baseline)
    /\ Evaluate(candidate, baseline, group, Applied(baseline, candidate.deltas))

-----------------------------------------------------------------------------
(* Findings, hypotheses and confirmations.                                 *)

\* Variant: a weakness is found in a sample of any size.
IsFindingUnsampled(cell, minimum) ==
    cell.verdict.diagnostic = "WEAKNESS" \/ cell.verdict.pattern = "LOSER"

\* finding_from_cell: a sufficient sample and a weakness.
IsFinding(cell, minimum) ==
    cell.summary.finalized >= minimum
        /\ (cell.verdict.diagnostic = "WEAKNESS" \/ cell.verdict.pattern = "LOSER")

\* derive_findings.
FindingsOf(report, minimum) ==
    LET cells == {report.overall} \union UNION {ToSet(report.by[d]) : d \in Dimensions}
    IN  {[dimension |-> cell.dimension, name |-> cell.name, summary |-> cell.summary] :
            cell \in {c \in cells : IsFinding(c, minimum)}}

\* generate_hypotheses, once, on the findings of the last report: one hypothesis per finding that
\* is sampled enough.  The delta it is given becomes wording: nothing reads it back.
GenerateHypotheses(baseline) ==
    /\ \A hypothesis \in hypotheses : hypothesis.weakness = None
    /\ evaluation.outcome = "reports"
    /\ hypotheses' = hypotheses \union
          {[baseline |-> baseline, weakness |-> finding] :
              finding \in FindingsOf(evaluation.reports.intelligence, Protocol.minimum)}
    /\ UNCHANGED <<market, recorded, evaluation, evidence, confirmations, versions, decisions>>

\* build_hypothesis: a proposal that no finding was derived for, with or without a baseline.
BuildHypothesis(baseline) ==
    /\ RoomFor({"hypotheses"})
    /\ hypotheses' = hypotheses \union {[baseline |-> baseline, weakness |-> None]}
    /\ UNCHANGED <<market, recorded, evaluation, evidence, confirmations, versions, decisions>>

ConfirmHypothesis(hypothesis, decision) ==
    /\ RoomFor({"confirmations"})
    /\ confirmations' = confirmations \union {[hypothesis |-> hypothesis, decision |-> decision]}
    /\ UNCHANGED <<market, recorded, evaluation, evidence, hypotheses, versions, decisions>>

-----------------------------------------------------------------------------
(* The experiment.                                                         *)

\* create_candidate_from_confirmed_hypothesis: the delta is the caller's.
MayCreate(hypothesis, confirmation, baseline) ==
    /\ confirmation.hypothesis = hypothesis /\ confirmation.decision = "CONFIRMED"
    /\ hypothesis.baseline = baseline

CreateCandidate(hypothesis, confirmation, baseline, delta) ==
    /\ MayCreate(hypothesis, confirmation, baseline)
    /\ BuildCandidate(baseline, {delta})

StartExperiment(version) == Transition(version, "EXPERIMENTAL")

\* finish_experiment takes any evidence record.
FinishExperiment(version, record) ==
    Transition(version, IF record.status = "FAILED" THEN "FAILED" ELSE "EVALUATED")

-----------------------------------------------------------------------------
(* Comparison, review and decision.                                        *)

\* The refusals of compare.  The reference may be any record: its subject is not looked at.
MayCompare(reference, other) ==
    /\ reference.baseline = other.baseline
    /\ reference.runId.ids = other.runId.ids
    /\ other.subject # other.baseline

SampleIn(record, name) == IF name \in DOMAIN record.metrics THEN record.metrics[name].sample ELSE 0

\* Variant: one sample large enough makes a row conclusive.
ConclusiveOnEither(reference, other, name, minimum) ==
    SampleIn(other, name) >= minimum \/ SampleIn(reference, name) >= minimum

Conclusive(reference, other, name, minimum) ==
    SampleIn(other, name) >= minimum /\ SampleIn(reference, name) >= minimum

Difference(reference, other, name, metric) ==
    IF name \notin DOMAIN reference.metrics \/ name \notin DOMAIN other.metrics THEN None
    ELSE LET a == other.metrics[name].value[metric]
             b == reference.metrics[name].value[metric]
         IN  IF a = None \/ b = None THEN None ELSE Minus(a, b)

\* compare, of two records returned for one baseline: a value, like every report.
Compare(reference, other) ==
    [reference |-> reference, other |-> other, minimum |-> Protocol.minimum,
     rows |-> [name \in DOMAIN reference.metrics \union DOMAIN other.metrics |->
                 [conclusive |-> Conclusive(reference, other, name, Protocol.minimum),
                  difference |-> [metric \in {"finalized", "winRate", "averageFinal"} |->
                                    Difference(reference, other, name, metric)]]]]

OverallFinalized(record) == record.metrics[<<"overall", "all">>].sample

\* classify_evidence, as build_review_report calls it.
ReviewQuality(reference, record, comparison) ==
    IF record # None /\ record.status = "FAILED" THEN "FAILED"
    ELSE IF reference = None \/ record = None \/ comparison = None THEN "INCOMPLETE"
    ELSE IF OverallFinalized(record) < comparison.minimum THEN "INSUFFICIENT_SAMPLE"
    ELSE "SUFFICIENT"

\* build_decision takes a candidate in any state; the record may be applied later, or never.
BuildDecision(candidate, outcome) ==
    /\ RoomFor({"decisions"})
    /\ decisions' = decisions \union {[candidate |-> candidate, decision |-> outcome]}
    /\ UNCHANGED <<market, recorded, evaluation, evidence, hypotheses, confirmations, versions>>

\* Variant: the state of the version is not looked at.
MayApplyEarly(version, record) == record.candidate = version.candidate

MayApply(version, record) ==
    record.candidate = version.candidate /\ version.status = "REVIEW_REQUIRED"

ApplyHumanDecision(version, record) ==
    /\ MayApply(version, record)
    /\ RoomFor({"versions"})
    /\ versions' = versions \union {Version(version.candidate, record.decision)}
    /\ UNCHANGED <<market, recorded, evaluation, evidence, hypotheses, confirmations, decisions>>

-----------------------------------------------------------------------------
ResearchInit ==
    /\ market \in Markets
    /\ recorded = [key \in DOMAIN market |-> FirstRecorded[key]]
    /\ evaluation = NothingEvaluated
    /\ evidence = {} /\ hypotheses = {} /\ confirmations = {}
    /\ versions = {} /\ decisions = {}

ResearchNext ==
    \/ \E key \in DOMAIN market : Grow(key)
    \/ \E baseline \in Baselines, group \in SUBSET Series \ {{}} : EvaluateBaseline(baseline, group)
    \/ \E candidate \in {version.candidate : version \in versions}, baseline \in Baselines :
          EvaluateCandidate(candidate, baseline, Series)
    \/ \E baseline \in Baselines : GenerateHypotheses(baseline)
    \/ \E baseline \in Baselines \union {None} : BuildHypothesis(baseline)
    \/ \E hypothesis \in hypotheses, decision \in {"CONFIRMED", "REJECTED"} :
          ConfirmHypothesis(hypothesis, decision)
    \/ \E hypothesis \in hypotheses, confirmation \in confirmations, baseline \in Baselines,
          delta \in Deltas : CreateCandidate(hypothesis, confirmation, baseline, delta)
    \/ \E baseline \in Baselines, deltas \in SUBSET {delta \in Deltas : DeltaIsValid(delta)} :
          BuildCandidate(baseline, deltas)
    \/ \E version \in versions, target \in Statuses : Transition(version, target)
    \/ \E version \in versions : StartExperiment(version)
    \/ \E version \in versions, record \in evidence : FinishExperiment(version, record)
    \/ \E version \in versions, outcome \in HumanOnly : BuildDecision(version.candidate, outcome)
    \/ \E version \in versions, record \in decisions : ApplyHumanDecision(version, record)

ResearchSpec == ResearchInit /\ [][ResearchNext]_researched

-----------------------------------------------------------------------------
(* Properties.  The market is judged here without frames, trackers or      *)
(* reports: a candle is a BUY by the score of the candles of its window,   *)
(* and its verdict is the close one horizon further on, within the window. *)

Verdict(candles, i, window, horizon) ==
    IF i + horizon > window.end THEN "OPEN"
    ELSE ClassifyOutcome(candles[i + horizon].close - candles[i].close)

\* The signals of a dataset in its validation periods: candle, window and verdict.
Judged(dataset, configuration) ==
    LET windows == PlanWindows(dataset, Protocol.settings)
        Seen(k, i) == SubSeq(dataset.candles, windows[k].start + 1, i)
    IN  {[key |-> dataset.key, symbol |-> dataset.symbol, timeframe |-> dataset.timeframe,
          openedAt |-> dataset.candles[p[2]].openedAt,
          labels |-> Labels(Seen(p[1], p[2]), configuration.detection),
          regime |-> RegimeName(Regime(SubSeq(dataset.candles, 1, p[2]), Protocol.settings).regime),
          verdict |-> Verdict(dataset.candles, p[2], windows[p[1]], configuration.horizon)] :
            p \in {q \in (DOMAIN windows) \X (DOMAIN dataset.candles) :
                      /\ q[2] > windows[q[1]].split /\ q[2] <= windows[q[1]].end
                      /\ Score(Seen(q[1], q[2]), configuration.detection) >= configuration.chain}}

AllJudged(group, lengths, configuration) ==
    UNION {Judged(dataset, configuration) : dataset \in ToSet(DatasetsAt(group, lengths))}

\* Every BUY of a validation period is judged once, by the candles of its own window alone, and
\* nothing else is (plan_windows, _window_dataset, split_rows, evaluate_dataset).
EachSignalJudgedOnce ==
    evaluation.outcome = "reports" =>
        LET rows == evaluation.reports.robustness.rows
            judged == AllJudged(evaluation.group, evaluation.recorded, evaluation.configuration)
        IN  /\ Len(rows) = Cardinality(judged)
            /\ {<<row.key, row.openedAt, row.outcome.status>> : row \in ToSet(rows)}
                 = {<<signal.key, signal.openedAt, signal.verdict>> : signal \in judged}

\* An evaluation is refused for a cause a researcher can see in her inputs: the wrong datasets,
\* two thresholds, too few candles, a BUY without a label, or no BUY in a validation period.  No
\* constructor of the reports refuses what the engines computed (evaluate_config, the
\* __post_init__ of the reports).
RefusedOnlyForCause ==
    evaluation.outcome = "refused" =>
        \/ {series.id : series \in evaluation.group} # Protocol.ids
        \/ ~ConfigurationIsValid(evaluation.configuration)
        \/ \E dataset \in ToSet(DatasetsAt(evaluation.group, evaluation.recorded)) :
              \/ PlanWindows(dataset, Protocol.settings) = <<>>
              \/ \E i, j \in DOMAIN dataset.candles :
                    /\ i <= j
                    /\ LET prefix == SubSeq(dataset.candles, i, j)
                       IN  /\ Score(prefix, evaluation.configuration.detection) >= evaluation.configuration.chain
                           /\ Labels(prefix, evaluation.configuration.detection) = {}
        \/ AllJudged(evaluation.group, evaluation.recorded, evaluation.configuration) = {}

\* The reports tell one story: the rows of the robustness report are summed alike by its overall
\* bucket, by the cells of intelligence and by every dimension, and a monthly review quotes a change
\* exactly when both of its months are sampled enough (run_robustness, analyze_report,
\* build_monthly_reviews).
ReportsAgree ==
    evaluation.outcome = "reports" =>
        LET robustness == evaluation.reports.robustness
            intelligence == evaluation.reports.intelligence
            counted == {"total", "open", "wins", "losses", "flats", "finalized", "finalSum"}
            reviews == MonthlyReviews(evaluation.reports.performance, Protocol.minimum)
        IN  /\ robustness.overall.summary = intelligence.overall.summary
            /\ \A dimension \in Dimensions :
                  Partitions(counted, intelligence.by[dimension], robustness.overall)
            /\ \A groups \in {robustness.bySymbol, robustness.byTimeframe,
                              robustness.byCombination, robustness.byRegime} :
                  Partitions(counted, groups, robustness.overall)
            /\ \A i \in DOMAIN reviews :
                  /\ ReviewIsValid(reviews[i])
                  /\ i > 1 => (reviews[i].comparison.winRate # None)
                                = (/\ reviews[i].bucket.summary.finalized >= Protocol.minimum
                                   /\ reviews[i - 1].bucket.summary.finalized >= Protocol.minimum)

\* What an evaluation returns or refuses follows from the market its researcher can see, and its
\* reports agree on it.
EvaluationFollowsMarket == EachSignalJudgedOnce /\ ReportsAgree /\ RefusedOnlyForCause

\* More history adds windows and regimes and changes none that was reported before: no window
\* and no regime looks at a candle after its own end (plan_windows, RegimeAnalyzer).
WindowsIgnoreTheFuture ==
    [][/\ evaluation.outcome = "reports" /\ evaluation'.outcome = "reports"
       /\ evaluation'.configuration = evaluation.configuration /\ evaluation'.group = evaluation.group
       => \A i \in DOMAIN evaluation.reports.robustness.results :
             LET earlier == evaluation.reports.robustness.results[i]
                 later == evaluation'.reports.robustness.results[i]
             IN  IsPrefix(earlier.windows, later.windows)
                 /\ IsPrefix(earlier.regimes, later.regimes)]_evaluation

\* Every APPROVED or REJECTED version has a human's record of that outcome and all four states of
\* the way of its candidate behind it, whenever the record was built and whichever old version it is
\* applied to (transition, build_decision, apply_human_decision).
DecidedAfterReview ==
    \A version \in versions : version.status \in HumanOnly =>
        /\ [candidate |-> version.candidate, decision |-> version.status] \in decisions
        /\ \A status \in {"PROPOSED", "EXPERIMENTAL", "EVALUATED", "REVIEW_REQUIRED"} :
              Version(version.candidate, status) \in versions

GroupOf(signal, dimension) ==
    CASE dimension = "overall" -> "all"
      [] dimension = "setup" -> Combination[signal.labels]
      [] dimension = "symbol" -> signal.symbol
      [] dimension = "timeframe" -> signal.timeframe
      [] dimension = "month" -> MonthNames[signal.openedAt \div MonthLength + 1]
      [] dimension = "regime" -> signal.regime

DecidedIn(record, name) ==
    LET group == DOMAIN record.provenance
        lengths == [key \in DOMAIN market |->
                       record.provenance[CHOOSE series \in group : series.key = key]]
    IN  {signal \in AllJudged(group, lengths, record.runId.configuration) :
            signal.verdict # "OPEN" /\ GroupOf(signal, name[1]) = name[2]}

\* A row of a comparison is conclusive only when the market decided enough signals of its group in
\* both runs, and a review calls evidence sufficient only when it decided enough in all (compare,
\* build_review_report).
ConclusiveIsSampled ==
    \A reference, other \in evidence : MayCompare(reference, other) =>
        LET comparison == Compare(reference, other)
        IN  /\ \A name \in DOMAIN comparison.rows :
                  comparison.rows[name].conclusive =>
                      \A record \in {reference, other} :
                          Cardinality(DecidedIn(record, name)) >= Protocol.minimum
            /\ ReviewQuality(reference, other, comparison) = "SUFFICIENT" =>
                  Cardinality(DecidedIn(other, <<"overall", "all">>)) >= Protocol.minimum

\* A hypothesis that was generated names a group of which the market decided enough signals in some
\* evaluation, and lost one of them at least (finding_from_cell, generate_hypotheses).
HypothesesAreFounded ==
    \A hypothesis \in hypotheses : hypothesis.weakness # None =>
        LET name == <<hypothesis.weakness.dimension, hypothesis.weakness.name>>
        IN  \E record \in evidence :
                /\ Cardinality(DecidedIn(record, name)) >= Protocol.minimum
                /\ \E signal \in DecidedIn(record, name) : signal.verdict = "LOSS"
=============================================================================
