------------------------------ MODULE WalkForward ------------------------------
(***************************************************************************)
(* The walk-forward reports over the replays of Research: the windows a    *)
(* dataset is cut into and the market regime of every candle               *)
(* (analysis/robustness), and the diagnosed and ranked cells of the        *)
(* validation rows (analysis/intelligence).                                *)
(*                                                                         *)
(* The settings of both are one record: development, validation, step,     *)
(* lookback and multiple count candles, minimum and windows are the        *)
(* stability minima, trend, high, low, floor, spread, winner and loser are *)
(* rates, diagnosis and ranking the minima of a cell.                      *)
(***************************************************************************)
EXTENDS Research

SettingsAreValid(s) ==
    /\ s.development >= 1 /\ s.validation >= 1 /\ s.step >= s.validation
    /\ s.lookback >= 1 /\ s.multiple >= 1 /\ s.minimum >= 1 /\ s.windows >= 1
    /\ Below(s.low, s.high) /\ Below(s.loser, s.winner)
    /\ s.ranking >= s.diagnosis /\ s.diagnosis >= 1

-----------------------------------------------------------------------------
(* Regimes: what the closes of the last baseline say, candle by candle.    *)

Moves(closes, bars) ==
    [i \in 1..bars |->
        LET n == Len(closes) - bars + i
        IN  IF closes[n] >= closes[n - 1] THEN closes[n] - closes[n - 1]
                                          ELSE closes[n - 1] - closes[n]]

Path(closes, bars) == Total(Moves(closes, bars))

EfficiencyRatio(closes, lookback) ==
    LET net == closes[Len(closes)] - closes[Len(closes) - lookback]
        path == Path(closes, lookback)
    IN  IF path = 0 THEN Zero ELSE <<IF net >= 0 THEN net ELSE -net, path>>

VolatilityRatio(closes, lookback, baseline) ==
    IF Path(closes, baseline) = 0 THEN None
    ELSE <<Path(closes, lookback) * baseline, Path(closes, baseline) * lookback>>

ClassifyRegime(efficiency, volatility, s) ==
    IF efficiency = None THEN None
    ELSE IF AtMost(s.trend, efficiency) THEN "TRENDING"
    ELSE IF volatility = None THEN "RANGING"
    ELSE IF AtMost(s.high, volatility) THEN "HIGH_VOLATILITY"
    ELSE IF AtMost(volatility, s.low) THEN "LOW_VOLATILITY"
    ELSE "RANGING"

\* RegimeAnalyzer.update over a prefix: a deque of baseline + 1 closes.
Regime(prefix, s) ==
    LET baseline == s.lookback * s.multiple
        kept == IF Len(prefix) <= baseline THEN prefix
                ELSE SubSeq(prefix, Len(prefix) - baseline, Len(prefix))
        closes == [i \in DOMAIN kept |-> kept[i].close]
        warmup == Len(kept) < baseline + 1
        efficiency == IF warmup THEN None ELSE EfficiencyRatio(closes, s.lookback)
        volatility == IF warmup THEN None ELSE VolatilityRatio(closes, s.lookback, baseline)
    IN  [openedAt |-> Last(prefix).openedAt, efficiency |-> efficiency, volatility |-> volatility,
         regime |-> ClassifyRegime(efficiency, volatility, s)]

AnalyzeRegimes(candles, s) ==
    Listed([i \in DOMAIN candles |-> Regime(SubSeq(candles, 1, i), s)])

RegimeIsValid(observation) ==
    /\ observation.regime # None => observation.efficiency # None
    /\ observation.efficiency # None => AtMost(observation.efficiency, <<1, 1>>)

RegimeAt(series, openedAt) ==
    series[CHOOSE i \in DOMAIN series : series[i].openedAt = openedAt].regime
RegimeName(regime) == IF regime = None THEN "unclassified" ELSE regime

-----------------------------------------------------------------------------
(* Windows: development bars, then validation bars, step bars further on.  *)

\* Variant: the last window ends with the dataset, and the others are counted back from it.
PlanWindowsFromEnd(dataset, s) ==
    LET needed == s.development + s.validation
        count == IF Len(dataset.candles) < needed THEN 0
                 ELSE (Len(dataset.candles) - needed) \div s.step + 1
        spare == Len(dataset.candles) - needed - (count - 1) * s.step
    IN  [k \in 1..count |-> [start |-> spare + (k - 1) * s.step,
                             split |-> spare + (k - 1) * s.step + s.development,
                             end |-> spare + (k - 1) * s.step + needed]]

PlanWindows(dataset, s) ==
    LET needed == s.development + s.validation
        count == IF Len(dataset.candles) < needed THEN 0
                 ELSE (Len(dataset.candles) - needed) \div s.step + 1
    IN  [k \in 1..count |-> [start |-> (k - 1) * s.step,
                             split |-> (k - 1) * s.step + s.development,
                             end |-> (k - 1) * s.step + needed]]

WindowsAreValid(windows) ==
    \A k \in 2..Len(windows) :
        windows[k].start >= windows[k - 1].start /\ windows[k].split >= windows[k - 1].end

\* Variant: the window is replayed over everything the parent dataset holds.
WindowDatasetOpen(dataset, window) ==
    [dataset EXCEPT !.candles = SubSeq(@, window.start + 1, Len(@))]

\* _window_dataset: the slice under the parent's identity.
WindowDataset(dataset, window) ==
    [dataset EXCEPT !.candles = SubSeq(@, window.start + 1, window.end)]

SegmentStatus(summary, s) ==
    IF summary.finalized < s.minimum THEN "UNDERSAMPLED"
    ELSE IF AtMost(s.floor, summary.winRate) /\ AtMost(Zero, summary.averageFinal)
         THEN "STABLE" ELSE "WEAK"

Segment(kind, name, regime, rows, s) ==
    LET summary == Summary(OutcomesOf(rows))
    IN  [kind |-> kind, name |-> name, regime |-> regime, summary |-> summary, rows |-> rows,
         status |-> IF kind = "validation" THEN SegmentStatus(summary, s) ELSE None]

WindowDegradation(development, validation) ==
    IF development.summary.winRate = None \/ validation.summary.winRate = None
    THEN [winRate |-> None, average |-> None]
    ELSE [winRate |-> Minus(validation.summary.winRate, development.summary.winRate),
          average |-> Minus(validation.summary.averageFinal, development.summary.averageFinal)]

PeriodName(dataset, index) ==
    MonthNames[dataset.candles[index + 1].openedAt \div MonthLength + 1]

WindowResult(window, development, validation) ==
    [window |-> window, development |-> development, validation |-> validation,
     degradation |-> WindowDegradation(development, validation)]

\* split_rows: the bars before the split are the first development bars of the slice.
SplitRows(dataset, window, rows, regimes, s) ==
    WindowResult(window,
        Segment("development", PeriodName(dataset, window.start), regimes[window.split].regime,
                Picked(rows, {i \in DOMAIN rows : rows[i].index < s.development}), s),
        Segment("validation", PeriodName(dataset, window.split), regimes[window.end].regime,
                Picked(rows, {i \in DOMAIN rows : rows[i].index >= s.development}), s))

EvaluateWindow(dataset, window, configuration, regimes, s) ==
    SplitRows(dataset, window,
              SignalRows(ReplayHistory(WindowDataset(dataset, window), configuration)), regimes, s)

EvaluateWindows(dataset, windows, regimes, configuration, s) ==
    [dataset |-> dataset, regimes |-> regimes,
     windows |-> Listed([k \in DOMAIN windows |->
                    EvaluateWindow(dataset, windows[k], configuration, regimes, s)])]

EvaluateDataset(dataset, configuration, s) ==
    EvaluateWindows(dataset, PlanWindows(dataset, s), AnalyzeRegimes(dataset.candles, s),
                    configuration, s)

ValidationRows(result) ==
    Concatenated([k \in DOMAIN result.windows |-> result.windows[k].validation.rows])

\* The refusal of evaluate_dataset, the rows' own constructor and DatasetRobustnessResult.
DatasetResultIsValid(result) ==
    /\ result.windows # <<>>
    /\ WindowsAreValid([k \in DOMAIN result.windows |-> result.windows[k].window])
    /\ \A observation \in ToSet(result.regimes) : RegimeIsValid(observation)
    /\ \A window \in ToSet(result.windows) :
          \A segment \in {window.development, window.validation} :
              /\ segment.summary.total = Len(segment.rows)
              /\ \A row \in ToSet(segment.rows) :
                    /\ RowIsValid(row)
                    /\ \E observation \in ToSet(result.regimes) :
                          observation.openedAt = row.openedAt

-----------------------------------------------------------------------------
(* run_robustness.                                                         *)

DegradationSummary(windows, s) ==
    LET comparable == Picked(windows, {k \in DOMAIN windows :
                          /\ windows[k].development.summary.finalized >= s.minimum
                          /\ windows[k].validation.summary.finalized >= s.minimum})
    IN  [windows |-> Len(windows), comparable |-> Len(comparable),
         winRate |-> Mean([k \in DOMAIN comparable |-> comparable[k].degradation.winRate]),
         average |-> Mean([k \in DOMAIN comparable |-> comparable[k].degradation.average])]

Spread(rates) == IF Len(rates) > 1 THEN Minus(rates[Highest(rates)], rates[Lowest(rates)]) ELSE None

StabilitySummary(segments, s) ==
    LET sufficient == Picked(segments, {k \in DOMAIN segments :
                                            segments[k].summary.finalized >= s.minimum})
        winRates == [i \in DOMAIN sufficient |-> sufficient[i].summary.winRate]
        averages == AverageReturns(sufficient)
        spread == Spread(winRates)
        steady == /\ \A segment \in ToSet(sufficient) : segment.status = "STABLE"
                  /\ spread = None \/ AtMost(spread, s.spread)
    IN  [segments |-> Len(segments), sufficient |-> Len(sufficient),
         positive |-> Cardinality({i \in DOMAIN averages : Below(Zero, averages[i])}),
         negative |-> Cardinality({i \in DOMAIN averages : Below(averages[i], Zero)}),
         spread |-> spread, averageSpread |-> Spread(averages),
         best |-> IF sufficient = <<>> THEN None ELSE sufficient[Highest(averages)].name,
         worst |-> IF sufficient = <<>> THEN None ELSE sufficient[Lowest(averages)].name,
         status |-> IF Len(sufficient) < s.windows THEN "UNDERSAMPLED"
                    ELSE IF steady THEN "STABLE" ELSE "WEAK"]

RowRegime(results, row) ==
    LET result == CHOOSE r \in ToSet(results) : r.dataset.key = row.key
    IN  RegimeName(RegimeAt(result.regimes, row.openedAt))

RegimesOf(results, rows) == Listed([i \in DOMAIN rows |-> RowRegime(results, rows[i])])

RegimeBuckets(names, rows, s) ==
    LET order == Sorted(ToSet(names))
    IN  Listed([i \in DOMAIN order |->
            Segment("validation", order[i], IF order[i] = "unclassified" THEN None ELSE order[i],
                    RowsOf(order[i], names, rows), s)])

RobustnessReport(results, windows, rows, minimum, s) ==
    [settings |-> s, keys |-> [i \in DOMAIN results |-> results[i].dataset.key],
     results |-> results, rows |-> rows, overall |-> Bucket("all", rows, minimum),
     bySymbol |-> Buckets(SymbolsOf(rows), rows, minimum),
     byTimeframe |-> Buckets(TimeframesOf(rows), rows, minimum),
     byCombination |-> Buckets(CombinationsOf(rows), rows, minimum),
     byRegime |-> RegimeBuckets(RegimesOf(results, rows), rows, s),
     degradation |-> DegradationSummary(windows, s),
     stability |-> StabilitySummary([k \in DOMAIN windows |-> windows[k].validation], s)]

ReportResults(results, minimum, s) ==
    RobustnessReport(results, Concatenated([i \in DOMAIN results |-> results[i].windows]),
                     Concatenated([i \in DOMAIN results |-> ValidationRows(results[i])]),
                     minimum, s)

\* The datasets come in the order of their keys.
Robustness(ordered, configuration, s) ==
    ReportResults(Listed([i \in DOMAIN ordered |-> EvaluateDataset(ordered[i], configuration, s)]),
                  configuration.minimum, s)

\* RobustnessReport.__post_init__ and the records it is made of.
RobustnessIsValid(report) ==
    /\ SettingsAreValid(report.settings)
    /\ IsInjective(report.keys) /\ report.keys = Sorted(ToSet(report.keys))
    /\ \A result \in ToSet(report.results) : DatasetResultIsValid(result)
    /\ \A buckets \in {report.bySymbol, report.byTimeframe} :
          InOrder(buckets) /\ Partitions({"total"}, buckets, report.overall)
    /\ InOrder(report.byCombination) /\ InOrder(report.byRegime)
    /\ report.degradation.comparable <= report.degradation.windows
    /\ report.stability.sufficient <= report.stability.segments
    /\ report.stability.positive + report.stability.negative <= report.stability.sufficient
    /\ (report.stability.best = None) = (report.stability.worst = None)

-----------------------------------------------------------------------------
(* Strategy intelligence: cells over the validation rows.                  *)

Diagnose(summary, s) ==
    IF summary.finalized < s.diagnosis
    THEN [sufficient |-> FALSE, pattern |-> "UNDERSAMPLED", diagnostic |-> "UNDETERMINED"]
    ELSE IF AtMost(s.winner, summary.winRate) /\ Below(Zero, summary.averageFinal)
    THEN [sufficient |-> TRUE, pattern |-> "WINNER", diagnostic |-> "STRENGTH"]
    ELSE IF AtMost(summary.winRate, s.loser) /\ Below(summary.averageFinal, Zero)
    THEN [sufficient |-> TRUE, pattern |-> "LOSER", diagnostic |-> "WEAKNESS"]
    ELSE [sufficient |-> TRUE, pattern |-> "NEUTRAL", diagnostic |-> "UNDETERMINED"]

Cell(dimension, name, rows, s) ==
    LET summary == Summary(OutcomesOf(rows))
    IN  [dimension |-> dimension, name |-> name, summary |-> summary,
         verdict |-> Diagnose(summary, s), rank |-> None]

\* The order of rank_cells: the better average, then the better rate, then the name.
RanksBefore(a, b) ==
    \/ Below(b.summary.averageFinal, a.summary.averageFinal)
    \/ /\ Same(a.summary.averageFinal, b.summary.averageFinal)
       /\ \/ Below(b.summary.winRate, a.summary.winRate)
          \/ /\ Same(a.summary.winRate, b.summary.winRate)
             /\ Place(a.name) < Place(b.name)

\* The position of an eligible cell in that order: how many come before it, and one.
RankCells(cells, s) ==
    LET eligible == {i \in DOMAIN cells : cells[i].summary.finalized >= s.ranking}
    IN  Listed([i \in DOMAIN cells |->
            IF i \in eligible
            THEN [cells[i] EXCEPT
                    !.rank = Cardinality({j \in eligible : RanksBefore(cells[j], cells[i])}) + 1]
            ELSE cells[i]])

Cells(dimension, names, rows, s) ==
    LET order == Sorted(ToSet(names))
    IN  RankCells(Listed([i \in DOMAIN order |->
                            Cell(dimension, order[i], RowsOf(order[i], names, rows), s)]), s)

Dimensions == {"setup", "symbol", "timeframe", "month", "regime"}

\* analyze_report, which asks for at least one validation row.
HasRows(report) == report.rows # <<>>

Intelligence(report, s) ==
    [settings |-> s, keys |-> report.keys, overall |-> Cell("overall", "all", report.rows, s),
     by |-> [setup |-> Cells("setup", CombinationsOf(report.rows), report.rows, s),
             symbol |-> Cells("symbol", SymbolsOf(report.rows), report.rows, s),
             timeframe |-> Cells("timeframe", TimeframesOf(report.rows), report.rows, s),
             month |-> Cells("month", MonthsOf(report.rows), report.rows, s),
             regime |-> Cells("regime", RegimesOf(report.results, report.rows), report.rows, s)]]

RanksAreValid(cells, s) ==
    LET ranked == {i \in DOMAIN cells : cells[i].rank # None}
    IN  /\ \A cell \in ToSet(cells) : (cell.rank # None) = (cell.summary.finalized >= s.ranking)
        /\ {cells[i].rank : i \in ranked} = 1..Cardinality(ranked)

IntelligenceIsValid(report) ==
    /\ report.keys # <<>>
    /\ \A dimension \in Dimensions :
          /\ InOrder(report.by[dimension])
          /\ Partitions({"total"}, report.by[dimension], report.overall)
          /\ RanksAreValid(report.by[dimension], report.settings)
=============================================================================
