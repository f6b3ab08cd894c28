-------------------------------- MODULE Research --------------------------------
(***************************************************************************)
(* The historical research reports: the replay of a declared dataset       *)
(* (analysis/backtest) with its attribution (analysis/setup_attribution),  *)
(* the performance report and the monthly reviews over it                  *)
(* (analysis/performance, analysis/review), the walk-forward windows and   *)
(* the market regimes (analysis/robustness) and the cells of strategy      *)
(* intelligence (analysis/intelligence).  Each report is a value computed  *)
(* from datasets and a configuration, and each has the predicate that its  *)
(* constructor checks: what the constructor refuses is never published.    *)
(*                                                                         *)
(* A rate is kept exact, as <<numerator, denominator>>.  A name (a symbol, *)
(* a month, the joined labels of a setup) is a string whose place in the   *)
(* alphabet is its place in Names.                                         *)
(***************************************************************************)
EXTENDS OutcomeTracking

CONSTANTS
    Score(_, _),    \* the chain's score of the last candle of a prefix, under a detection setting
    Labels(_, _),   \* the labels the chain's evidence gives the same candle, a set
    Taxonomy,       \* the labels in the order of SetupLabel
    Combination,    \* the labels of a set joined by "+": a name for every set
    MonthNames,     \* the UTC months, in order
    Names           \* every group name, in alphabetical order

RegimeNames == {"TRENDING", "RANGING", "HIGH_VOLATILITY", "LOW_VOLATILITY"}

ASSUME NamesAssumption ==
    /\ Names \in Seq(ToSet(Names)) /\ Taxonomy \in Seq(ToSet(Taxonomy))
    /\ \A i, j \in DOMAIN Names : Names[i] = Names[j] => i = j
    /\ ToSet(MonthNames) \subseteq ToSet(Names) /\ ToSet(Taxonomy) \subseteq ToSet(Names)
    /\ RegimeNames \union {"unclassified", "no_labels"} \subseteq ToSet(Names)
    /\ DOMAIN Combination = SUBSET ToSet(Taxonomy)
    /\ \A labels \in DOMAIN Combination :
          Combination[labels] \in ToSet(Names) /\ (labels # {} => Combination[labels] # Combination[{}])

\* What stands for no value is none of the values it may stand in for.
ASSUME NoneAssumption ==
    None \notin ToSet(Names) \union RegimeNames /\ None \notin Nat /\ None \notin Int \X Int

-----------------------------------------------------------------------------
(* Exact rates.                                                            *)

AtMost(a, b) == a[1] * b[2] <= b[1] * a[2]
Below(a, b) == a[1] * b[2] < b[1] * a[2]
Same(a, b) == a[1] * b[2] = b[1] * a[2]
Minus(a, b) == <<a[1] * b[2] - b[1] * a[2], a[2] * b[2]>>
Zero == <<0, 1>>

Mean(rates) ==
    LET sum == FoldLeft(LAMBDA s, r : <<s[1] * r[2] + r[1] * s[2], s[2] * r[2]>>, Zero, rates)
    IN  IF rates = <<>> THEN None ELSE <<sum[1], sum[2] * Len(rates)>>

Highest(rates) == CHOOSE i \in DOMAIN rates :
    \A j \in DOMAIN rates : AtMost(rates[j], rates[i]) /\ (j < i => ~Same(rates[j], rates[i]))
Lowest(rates) == CHOOSE i \in DOMAIN rates :
    \A j \in DOMAIN rates : AtMost(rates[i], rates[j]) /\ (j < i => ~Same(rates[j], rates[i]))

\* The same sequence: TLC computes its elements here, once.
Listed(sequence) == sequence \o <<>>

Concatenated(sequences) ==
    LET joined[n \in 0 .. Len(sequences)] ==
            IF n = 0 THEN <<>> ELSE joined[n - 1] \o sequences[n]
    IN  joined[Len(sequences)]

Place(name) == CHOOSE i \in DOMAIN Names : Names[i] = name
Sorted(names) == Picked(Names, {i \in DOMAIN Names : Names[i] \in names})
InOrder(groups) ==
    \A i, j \in DOMAIN groups : i < j => Place(groups[i].name) < Place(groups[j].name)

-----------------------------------------------------------------------------
(* A dataset and its replay: one frame, one outcome step and one           *)
(* attribution per candle.                                                 *)

DatasetIsValid(dataset) ==
    /\ dataset.candles # <<>>
    /\ \A i \in 2..Len(dataset.candles) :
          dataset.candles[i].openedAt > dataset.candles[i - 1].openedAt

\* BacktestConfiguration.__post_init__: the two thresholds are one.
ConfigurationIsValid(configuration) == configuration.chain = configuration.quality

Analysed(candles, configuration) ==
    Listed([i \in DOMAIN candles |->
        [openedAt |-> candles[i].openedAt, low |-> candles[i].low, close |-> candles[i].close,
         high |-> candles[i].high,
         score |-> Score(SubSeq(candles, 1, i), configuration.detection)]])

\* build_attribution: the labels of the evidence behind a frame.
Attribution(frame, labels) ==
    [signal |-> SignalId(frame), labels |-> labels, combination |-> Combination[labels]]

\* SetupAttributionAnalyzer.update over the frames of one replay: those that are a BUY.
Attributions(frames, candles, configuration) ==
    {Attribution(frames[i], Labels(SubSeq(candles, 1, i), configuration.detection)) :
        i \in {j \in DOMAIN frames : IsBuy(frames[j])}}

\* OutcomeTrackingAnalyzer.update, frame by frame.
RunTracker(settings, frames) ==
    LET after[n \in 0 .. Len(frames)] ==
            IF n = 0 THEN NewTracker(settings) ELSE UpdateTracker(after[n - 1], frames[n])
    IN  after[Len(frames)]

ReplayHistory(dataset, configuration) ==
    LET frames == FramesOf(Analysed(dataset.candles, configuration), configuration.chain)
    IN  [dataset |-> dataset, configuration |-> configuration,
         latest |-> RunTracker([horizon |-> configuration.horizon], frames).records,
         profiles |-> Attributions(frames, dataset.candles, configuration)]

\* A BacktestSignalResult: a signal in its latest version, with its profile.
Row(replay, record) ==
    LET profile == CHOOSE p \in replay.profiles : p.signal = record.signal
    IN  [key |-> replay.dataset.key, symbol |-> replay.dataset.symbol,
         timeframe |-> replay.dataset.timeframe, signal |-> <<replay.dataset.key, record.signal>>,
         index |-> record.reference.index, openedAt |-> record.reference.openedAt,
         labels |-> profile.labels, combination |-> profile.combination, outcome |-> record]

SignalRows(replay) == Listed([i \in DOMAIN replay.latest |-> Row(replay, replay.latest[i])])

RowIsValid(row) ==
    /\ row.combination # Combination[{}]
    /\ OutcomeIsValid(row.outcome)

OutcomesOf(rows) == Listed([i \in DOMAIN rows |-> rows[i].outcome])

\* The name every row is grouped under.
MonthsOf(rows) == [i \in DOMAIN rows |-> MonthNames[Month(rows[i].outcome) + 1]]
SymbolsOf(rows) == [i \in DOMAIN rows |-> rows[i].symbol]
TimeframesOf(rows) == [i \in DOMAIN rows |-> rows[i].timeframe]
CombinationsOf(rows) == [i \in DOMAIN rows |-> rows[i].combination]
ReportedCombinations(rows) ==
    [i \in DOMAIN rows |-> IF rows[i].labels = {} THEN "no_labels" ELSE rows[i].combination]

-----------------------------------------------------------------------------
(* The performance report and the monthly reviews.                         *)

Bucket(name, rows, minimum) ==
    LET summary == Summary(OutcomesOf(rows))
    IN  [name |-> name, summary |-> summary, sufficient |-> summary.finalized >= minimum]

RowsOf(name, names, rows) == Picked(rows, {i \in DOMAIN rows : names[i] = name})

Buckets(names, rows, minimum) ==
    LET order == Sorted(ToSet(names))
    IN  Listed([i \in DOMAIN order |-> Bucket(order[i], RowsOf(order[i], names, rows), minimum)])

LabelBuckets(rows, minimum) ==
    LET labelled(label) == {i \in DOMAIN rows : label \in rows[i].labels}
        used == Picked(Taxonomy, {j \in DOMAIN Taxonomy : labelled(Taxonomy[j]) # {}})
    IN  Listed([i \in DOMAIN used |->
            Bucket(used[i], Picked(rows, labelled(used[i])), minimum)])

AverageReturns(buckets) == Listed([i \in DOMAIN buckets |-> buckets[i].summary.averageFinal])

Sufficient(buckets) == Picked(buckets, {i \in DOMAIN buckets : buckets[i].sufficient})

RankCombinations(buckets) ==
    LET sufficient == Sufficient(buckets)
        averages == AverageReturns(sufficient)
    IN  IF sufficient = <<>> THEN [best |-> None, worst |-> None]
        ELSE [best |-> sufficient[Highest(averages)], worst |-> sufficient[Lowest(averages)]]

PerformanceReport(keys, rows, combinations, minimum) ==
    [keys |-> keys, minimum |-> minimum, overall |-> Bucket("all", rows, minimum),
     bySymbol |-> Buckets(SymbolsOf(rows), rows, minimum),
     byTimeframe |-> Buckets(TimeframesOf(rows), rows, minimum),
     byMonth |-> Buckets(MonthsOf(rows), rows, minimum),
     byLabel |-> LabelBuckets(rows, minimum),
     byCombination |-> combinations, ranked |-> RankCombinations(combinations)]

\* analyze_performance, over the rows of every replay in the order of the series keys.
Performance(keys, rows, minimum) ==
    PerformanceReport(keys, rows, Buckets(ReportedCombinations(rows), rows, minimum), minimum)

SumOver(field, groups) == Total([i \in DOMAIN groups |-> groups[i].summary[field]])

Partitions(fields, groups, overall) ==
    \A field \in fields : SumOver(field, groups) = overall.summary[field]

PerformanceIsValid(report) ==
    LET sufficient == Sufficient(report.byCombination)
    IN  /\ \A buckets \in {report.bySymbol, report.byTimeframe, report.byMonth} :
              /\ InOrder(buckets)
              /\ Partitions({"total", "open", "finalized"}, buckets, report.overall)
        /\ InOrder(report.byCombination)
        /\ report.keys = Sorted(ToSet(report.keys)) /\ report.keys # <<>>
        /\ IF sufficient = <<>> THEN report.ranked = [best |-> None, worst |-> None]
           ELSE /\ {report.ranked.best, report.ranked.worst} \subseteq ToSet(sufficient)
                /\ \A bucket \in ToSet(sufficient) :
                      /\ AtMost(bucket.summary.averageFinal,
                                report.ranked.best.summary.averageFinal)
                      /\ AtMost(report.ranked.worst.summary.averageFinal,
                                bucket.summary.averageFinal)

\* _comparison: deltas are quoted when both months are sufficiently sampled.
MonthComparison(bucket, previous, minimum) ==
    LET both == bucket.summary.finalized >= minimum /\ previous.summary.finalized >= minimum
    IN  [month |-> bucket.name, previous |-> previous.name, both |-> both,
         winRate |-> IF both THEN Minus(bucket.summary.winRate, previous.summary.winRate)
                             ELSE None,
         average |-> IF both THEN Minus(bucket.summary.averageFinal, previous.summary.averageFinal)
                             ELSE None]

\* build_monthly_reviews: each month against the previous reported one.
MonthlyReviews(report, minimum) ==
    [i \in DOMAIN report.byMonth |->
        [bucket |-> report.byMonth[i],
         comparison |-> IF i = 1 THEN None
                        ELSE MonthComparison(report.byMonth[i], report.byMonth[i - 1], minimum)]]

ReviewIsValid(review) ==
    review.comparison # None =>
        /\ review.comparison.month = review.bucket.name
        /\ Place(review.comparison.previous) < Place(review.comparison.month)
        /\ review.comparison.both = (review.comparison.winRate # None)

-----------------------------------------------------------------------------
(* run_backtest.                                                           *)

\* Keys, replays and rows follow the order the datasets were sorted into (DatasetsAt).
KeysOf(datasets) == [i \in DOMAIN datasets |-> datasets[i].key]

\* The rows by opening time; the ties, broken by a digest, keep the order of the rows.
Earlier(rows, i) ==
    {j \in DOMAIN rows : \/ rows[j].openedAt < rows[i].openedAt
                         \/ rows[j].openedAt = rows[i].openedAt /\ j < i}
ByTime(rows) ==
    [k \in DOMAIN rows |->
        rows[CHOOSE i \in DOMAIN rows : Cardinality(Earlier(rows, i)) = k - 1]]

BacktestReport(keys, rows, configuration) ==
    [configuration |-> configuration, keys |-> keys, signals |-> ByTime(rows),
     performance |-> Performance(keys, rows, configuration.minimum)]

\* The datasets come in the order of their keys.
Backtest(ordered, configuration) ==
    BacktestReport(KeysOf(ordered),
                   Concatenated([i \in DOMAIN ordered |->
                                    SignalRows(ReplayHistory(ordered[i], configuration))]),
                   configuration)

\* What run_backtest and BacktestReport.__post_init__ refuse.
BacktestIsValid(report) ==
    /\ ConfigurationIsValid(report.configuration)
    /\ IsInjective(report.keys) /\ report.keys = report.performance.keys
    /\ \A row \in ToSet(report.signals) :
          RowIsValid(row) /\ row.key \in ToSet(report.keys)
          /\ row.outcome.settings.horizon = report.configuration.horizon
    /\ \A i, j \in DOMAIN report.signals :
          report.signals[i].signal = report.signals[j].signal => i = j
    /\ Summary(OutcomesOf(report.signals)).finalized = report.performance.overall.summary.finalized
    /\ Len(report.signals) = report.performance.overall.summary.total
    /\ PerformanceIsValid(report.performance)
=============================================================================
