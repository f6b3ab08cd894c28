---------------------------- MODULE ResearchProofs ----------------------------
(***************************************************************************)
(* The research over recorded histories, for any markets, series,          *)
(* configurations and settings and any order of the researcher's calls:    *)
(* what was reported of a window stays, every signal of a validation       *)
(* period is judged once, the reports tell one story, and what the         *)
(* researcher holds rests on what was recorded when she asked.  The engine *)
(* of a window is the lifecycle that OutcomeProofs is about.               *)
(***************************************************************************)
EXTENDS OutcomeProofs, Improvement

-----------------------------------------------------------------------------
(* The names of a report and the datasets it is about.                     *)

\* A list of m members.
IsList(s, m) == s = [k \in 1 .. m |-> s[k]]

LEMMA ListIs ==
    ASSUME NEW s, NEW m \in Nat, IsList(s, m)
    PROVE  IsASequence(s) /\ Len(s) = m /\ DOMAIN s = 1 .. m
BY FunctionIsASequence DEF IsList

\* Listing a list leaves it as it is.
LEMMA ListedIs ==
    ASSUME NEW s, NEW m \in Nat, IsList(s, m)
    PROVE  Listed(s) = s /\ IsASequence(s) /\ Len(s) = m /\ DOMAIN s = 1 .. m
<1>1. IsASequence(s) /\ Len(s) = m /\ DOMAIN s = 1 .. m
  BY ListIs
<1> DEFINE T == ToSet(s)
<1>2. s \in Seq(T)
  BY <1>1 DEF IsASequence
<1> HIDE DEF T
<1>3. s \o <<>> = s
  BY <1>2
<1> QED BY <1>1, <1>3 DEF Listed

\* The place of a name is its index among the names.
LEMMA PlaceIs ==
    ASSUME NEW i \in DOMAIN Names PROVE Place(Names[i]) = i
<1>1. \A k \in DOMAIN Names : Names[k] = Names[i] => k = i
  BY NamesAssumption
<1> QED BY <1>1 DEF Place

\* A set of names is listed in the order of the alphabet, each name once.
LEMMA SortedIs ==
    ASSUME NEW names
    PROVE  LET s == Sorted(names)
           IN  /\ Len(s) \in Nat /\ DOMAIN s = 1 .. Len(s) /\ IsList(s, Len(s))
               /\ ToSet(s) = names \intersect ToSet(Names)
               /\ \A i, j \in 1 .. Len(s) : i < j => Place(s[i]) < Place(s[j])
               /\ \A i, j \in 1 .. Len(s) : s[i] = s[j] => i = j
<1> DEFINE n == Len(Names)
           I == {i \in DOMAIN Names : Names[i] \in names}
           order == Ascending(I)
           m == Cardinality(I)
           s == Sorted(names)
<1>1. n \in Nat /\ DOMAIN Names = 1 .. n
  <2> DEFINE T == ToSet(Names)
  <2>1. Names \in Seq(T)
    BY NamesAssumption
  <2> HIDE DEF T
  <2> QED BY <2>1
<1>2. I \in SUBSET (1 .. n)
  BY <1>1
<1>3. IsFiniteSet(I) /\ m \in Nat /\ I \in SUBSET Nat
  <2> HIDE DEF I
  <2> QED BY <1>1, <1>2, IndexSet
<1>4. /\ order \in [1 .. m -> I]
      /\ \A i, j \in 1 .. m : i < j => order[i] < order[j]
  <2> HIDE DEF I
  <2> QED BY <1>3, AscendingLists
<1>5. s = [k \in 1 .. m |-> Names[order[k]]]
  <2>1. DOMAIN order = 1 .. m
    BY <1>4
  <2> QED BY <2>1 DEF Sorted, Picked
<1>6. ToSet(s) = {Names[i] : i \in I}
  <2>1. s = Picked(Names, I)
    BY DEF Sorted
  <2> HIDE DEF I, s
  <2> QED BY <1>1, <1>2, <2>1, PickedMembers
<1>7. ToSet(s) = names \intersect ToSet(Names)
  BY <1>6 DEF ToSet
<1>8. Len(s) = m /\ DOMAIN s = 1 .. m /\ IsList(s, m)
  <2> HIDE DEF m, order
  <2>1. IsList(s, m)
    BY <1>5 DEF IsList
  <2> HIDE DEF s
  <2> QED BY <1>3, <2>1, ListIs
<1>9. \A i \in 1 .. m : s[i] = Names[order[i]] /\ order[i] \in DOMAIN Names /\ order[i] \in Nat
  <2> HIDE DEF m, order, s
  <2> QED BY <1>1, <1>3, <1>4, <1>5
<1>10. \A i \in 1 .. m : Place(s[i]) = order[i]
  BY <1>9, PlaceIs
<1>11. \A i, j \in 1 .. m : i < j => Place(s[i]) < Place(s[j])
  <2> HIDE DEF m, order, s
  <2> QED BY <1>4, <1>10
<1>12. \A i, j \in 1 .. m : s[i] = s[j] => i = j
  <2> HIDE DEF m, order, s
  <2> SUFFICES ASSUME NEW i \in 1 .. m, NEW j \in 1 .. m, s[i] = s[j] PROVE i = j
    OBVIOUS
  <2>1. order[i] = order[j] /\ order[i] \in Nat /\ order[j] \in Nat
    BY <1>9, <1>10
  <2>2. (i < j => order[i] < order[j]) /\ (j < i => order[j] < order[i])
    BY <1>4
  <2> QED BY <1>3, <2>1, <2>2
<1> HIDE DEF m, order, s, I
<1> QED BY <1>3, <1>7, <1>8, <1>11, <1>12 DEF s

\* The dataset of a series with these candles.
DatasetWith(series, candles) ==
    [key |-> series.key, symbol |-> series.symbol, timeframe |-> series.timeframe,
     id |-> series.id, candles |-> candles]

\* What is recorded of a series in a market.
DatasetFrom(m, series, lengths) ==
    DatasetWith(series, SubSeq(m[series.key], 1, lengths[series.key]))

KeysIn(group) == Sorted({series.key : series \in group})
ItsSeries(group, i) == CHOOSE s \in group : s.key = KeysIn(group)[i]

DatasetsFrom(m, group, lengths) ==
    [i \in 1 .. Len(KeysIn(group)) |-> DatasetFrom(m, ItsSeries(group, i), lengths)]

\* The keys of a group, each of one of its series.
LEMMA KeysAre ==
    ASSUME NEW group \in SUBSET Series
    PROVE  LET n == Len(KeysIn(group))
           IN  /\ n \in Nat /\ DOMAIN KeysIn(group) = 1 .. n
               /\ \A i \in 1 .. n : /\ ItsSeries(group, i) \in group
                                    /\ ItsSeries(group, i).key = KeysIn(group)[i]
               /\ \A series \in group : \E i \in 1 .. n : series = ItsSeries(group, i)
               /\ \A i, j \in 1 .. n : ItsSeries(group, i) = ItsSeries(group, j) => i = j
               /\ KeysIn(group) = Sorted(ToSet(KeysIn(group)))
<1> DEFINE keys == KeysIn(group)
           n == Len(keys)
           names == {series.key : series \in group}
           Its(i) == ItsSeries(group, i)
<1>1. /\ n \in Nat /\ DOMAIN keys = 1 .. n /\ ToSet(keys) = names \intersect ToSet(Names)
      /\ \A i, j \in 1 .. n : keys[i] = keys[j] => i = j
  BY SortedIs DEF KeysIn
<1>2. ToSet(keys) = names
  BY <1>1, SeriesAssumption
<1>3. keys = Sorted(ToSet(keys))
  BY <1>2 DEF KeysIn
<1> HIDE DEF n
<1>4. ASSUME NEW i \in 1 .. n PROVE Its(i) \in group /\ Its(i).key = keys[i]
  <2>1. keys[i] \in ToSet(keys)
    BY <1>1 DEF ToSet
  <2>2. \E s \in group : s.key = keys[i]
    BY <1>2, <2>1
  <2> QED BY <2>2 DEF ItsSeries
<1>5. ASSUME NEW series \in group PROVE \E i \in 1 .. n : series = Its(i)
  <2>1. series.key \in ToSet(keys)
    BY <1>2
  <2>2. PICK i \in 1 .. n : keys[i] = series.key
    BY <1>1, <2>1 DEF ToSet
  <2>3. Its(i) \in Series /\ series \in Series /\ Its(i).key = series.key
    BY <1>4, <2>2
  <2> HIDE DEF Its
  <2> QED BY <2>2, <2>3, SeriesAssumption
<1>6. \A i, j \in 1 .. n : Its(i) = Its(j) => i = j
  BY <1>1, <1>4
<1> QED BY <1>1, <1>3, <1>4, <1>5, <1>6 DEF n

\* The datasets of a group are those of its series, in the order of their keys.
LEMMA DatasetsAre ==
    ASSUME NEW group \in SUBSET Series, NEW lengths
    PROVE  /\ DatasetsAt(group, lengths) = DatasetsFrom(market, group, lengths)
           /\ \A m : /\ Len(DatasetsFrom(m, group, lengths)) = Len(KeysIn(group))
                     /\ IsList(DatasetsFrom(m, group, lengths), Len(KeysIn(group)))
                     /\ DOMAIN DatasetsFrom(m, group, lengths) = 1 .. Len(KeysIn(group))
<1> DEFINE n == Len(KeysIn(group))
<1>1. n \in Nat /\ DOMAIN KeysIn(group) = 1 .. n
  BY KeysAre
<1>2. DatasetsAt(group, lengths) = DatasetsFrom(market, group, lengths)
  BY <1>1 DEF DatasetsAt, DatasetsFrom, DatasetFrom, DatasetWith, ItsSeries, KeysIn
<1>3. ASSUME NEW m
      PROVE  /\ Len(DatasetsFrom(m, group, lengths)) = n
             /\ IsList(DatasetsFrom(m, group, lengths), n)
             /\ DOMAIN DatasetsFrom(m, group, lengths) = 1 .. n
  <2>1. IsList(DatasetsFrom(m, group, lengths), n)
    BY DEF IsList, DatasetsFrom
  <2> QED BY <1>1, <2>1, ListIs
<1> QED BY <1>2, <1>3

-----------------------------------------------------------------------------
(* The windows of a dataset.                                               *)

LEMMA TimesKeepsOrder ==
    ASSUME NEW a \in Int, NEW b \in Int, NEW d \in Nat, a <= b PROVE a * d <= b * d
OBVIOUS

LEMMA TimesIsStrict ==
    ASSUME NEW a \in Int, NEW b \in Int, NEW d \in Nat \ {0}, a < b PROVE a * d + d <= b * d
OBVIOUS

\* What a quotient counts.
LEMMA QuotientCounts ==
    ASSUME NEW a \in Nat, NEW d \in Nat \ {0}, NEW k \in Nat
    PROVE  a \div d \in Nat /\ (k <= a \div d <=> k * d <= a)
<1> DEFINE q == a \div d
<1>1. q \in Int /\ q * d <= a /\ a < q * d + d
  OBVIOUS
<1> HIDE DEF q
<1>2. q \in Nat
  <2>1. ASSUME q < 0 PROVE FALSE
    <3>1. q * d + d <= 0 * d
      BY <1>1, <2>1, TimesIsStrict
    <3> QED BY <1>1, <3>1
  <2> QED BY <1>1, <2>1
<1>3. ASSUME k <= q PROVE k * d <= a
  BY <1>1, <1>3, TimesKeepsOrder
<1>4. ASSUME ~ (k <= q) PROVE ~ (k * d <= a)
  <2>1. q * d + d <= k * d
    BY <1>1, <1>4, TimesIsStrict
  <2>2. q * d \in Int /\ k * d \in Int
    BY <1>1
  <2> QED BY <1>1, <2>1, <2>2
<1> QED BY <1>2, <1>3, <1>4 DEF q

\* The settings of the comparison.
LEMMA SettingsAre ==
    LET s == Protocol.settings
    IN  /\ SettingsAreValid(s)
        /\ s.development \in Nat \ {0} /\ s.validation \in Nat \ {0} /\ s.step \in Nat \ {0}
        /\ s.step >= s.validation
        /\ s.lookback \in Nat \ {0} /\ s.multiple \in Nat \ {0}
        /\ s.minimum \in Nat \ {0} /\ s.windows \in Nat \ {0}
        /\ s.diagnosis \in Nat \ {0} /\ s.ranking \in Nat \ {0} /\ s.ranking >= s.diagnosis
        /\ s.trend \in Rates /\ s.high \in Rates /\ s.low \in Rates /\ s.floor \in Rates
        /\ s.spread \in Rates /\ s.winner \in Rates /\ s.loser \in Rates
<1> DEFINE s == Protocol.settings
<1>1. /\ s \in [development : Nat, validation : Nat, step : Nat, lookback : Nat, multiple : Nat,
                minimum : Nat, windows : Nat, trend : Rates, high : Rates, low : Rates,
                floor : Rates, spread : Rates, winner : Rates, loser : Rates, diagnosis : Nat,
                ranking : Nat]
      /\ SettingsAreValid(s)
  BY ProtocolAssumption
<1> HIDE DEF s
<1>2. /\ s.development >= 1 /\ s.validation >= 1 /\ s.step >= s.validation
      /\ s.lookback >= 1 /\ s.multiple >= 1 /\ s.minimum >= 1 /\ s.windows >= 1
      /\ s.ranking >= s.diagnosis /\ s.diagnosis >= 1
  BY <1>1 DEF SettingsAreValid
<1>3. /\ s.development \in Nat /\ s.validation \in Nat /\ s.step \in Nat /\ s.lookback \in Nat
      /\ s.multiple \in Nat /\ s.minimum \in Nat /\ s.windows \in Nat /\ s.diagnosis \in Nat
      /\ s.ranking \in Nat
      /\ s.trend \in Rates /\ s.high \in Rates /\ s.low \in Rates /\ s.floor \in Rates
      /\ s.spread \in Rates /\ s.winner \in Rates /\ s.loser \in Rates
  BY <1>1
<1>4. /\ s.development \in Nat \ {0} /\ s.validation \in Nat \ {0} /\ s.step \in Nat \ {0}
      /\ s.lookback \in Nat \ {0} /\ s.multiple \in Nat \ {0}
      /\ s.minimum \in Nat \ {0} /\ s.windows \in Nat \ {0}
      /\ s.diagnosis \in Nat \ {0} /\ s.ranking \in Nat \ {0}
  BY <1>2, <1>3
<1> QED BY <1>1, <1>2, <1>3, <1>4 DEF s

\* Where the k-th window starts.
StartOf(k) == (k - 1) * Protocol.settings.step

WindowAt(k) ==
    [start |-> StartOf(k), split |-> StartOf(k) + Protocol.settings.development,
     end |-> StartOf(k) + (Protocol.settings.development + Protocol.settings.validation)]

\* A window is planned wherever its candles are recorded.
LEMMA WindowsAre ==
    ASSUME NEW dataset, Len(dataset.candles) \in Nat
    PROVE  LET s == Protocol.settings
               windows == PlanWindows(dataset, s)
           IN  /\ Len(windows) \in Nat /\ DOMAIN windows = 1 .. Len(windows)
               /\ IsList(windows, Len(windows))
               /\ \A k \in 1 .. Len(windows) : windows[k] = WindowAt(k)
               /\ \A k \in Nat \ {0} :
                     k \in 1 .. Len(windows)
                        <=> StartOf(k) + s.development + s.validation <= Len(dataset.candles)
               /\ \A k \in 1 .. Len(windows) :
                     /\ windows[k].start = StartOf(k) /\ StartOf(k) \in Nat
                     /\ windows[k].split = StartOf(k) + s.development
                     /\ windows[k].end = StartOf(k) + s.development + s.validation
                     /\ windows[k].end <= Len(dataset.candles)
<1> DEFINE s == Protocol.settings
           n == Len(dataset.candles)
           needed == s.development + s.validation
           count == IF n < needed THEN 0 ELSE (n - needed) \div s.step + 1
           windows == PlanWindows(dataset, s)
<1>1. /\ s.development \in Nat \ {0} /\ s.validation \in Nat \ {0} /\ s.step \in Nat \ {0}
      /\ n \in Nat
  BY SettingsAre
<1>2. windows = [k \in 1 .. count |-> WindowAt(k)]
  BY DEF PlanWindows, StartOf, WindowAt
<1> HIDE DEF windows, s, n
<1>3. needed \in Nat
  BY <1>1
<1>4. /\ count \in Nat
      /\ \A k \in Nat \ {0} : k <= count <=> (k - 1) * s.step + needed <= n
  <2>1. CASE n < needed
    <3>1. \A k \in Nat \ {0} : (k - 1) * s.step >= 0
      BY <1>1
    <3>2. \A k \in Nat \ {0} : (k - 1) * s.step \in Int
      BY <1>1
    <3> HIDE DEF needed
    <3>3. ASSUME NEW k \in Nat \ {0} PROVE ~ ((k - 1) * s.step + needed <= n)
      <4> DEFINE x == (k - 1) * s.step
      <4>1. x \in Int /\ x >= 0
        BY <3>1, <3>2
      <4> HIDE DEF x
      <4>2. ~ (x + needed <= n)
        BY <1>1, <1>3, <2>1, <4>1
      <4> QED BY <4>2 DEF x
    <3> QED BY <2>1, <3>3
  <2>2. CASE ~ (n < needed)
    <3> DEFINE q == (n - needed) \div s.step
    <3> HIDE DEF needed
    <3>1. n - needed \in Nat
      BY <1>1, <1>3, <2>2
    <3>2. q \in Nat
      BY <1>1, <3>1, QuotientCounts
    <3> HIDE DEF q
    <3>3. ASSUME NEW k \in Nat \ {0} PROVE k <= q + 1 <=> (k - 1) * s.step + needed <= n
      <4> DEFINE j == k - 1
                 x == j * s.step
      <4>0. j \in Nat /\ k = j + 1 /\ k \in Nat
        OBVIOUS
      <4> HIDE DEF j
      <4>1. (j <= q <=> x <= n - needed) /\ x \in Int
        <5>1. j <= q <=> j * s.step <= n - needed
          BY <1>1, <3>1, <4>0, QuotientCounts DEF q
        <5>2. x \in Int
          BY <1>1, <4>0
        <5> QED BY <5>1, <5>2
      <4> HIDE DEF x
      <4>2. k <= q + 1 <=> x + needed <= n
        BY <1>1, <1>3, <3>2, <4>0, <4>1
      <4> QED BY <4>2 DEF x, j
    <3>4. count = q + 1
      BY <2>2 DEF q
    <3> HIDE DEF count
    <3> QED BY <3>2, <3>3, <3>4
  <2> QED BY <2>1, <2>2
<1> HIDE DEF count, needed
<1>5. /\ Len(windows) = count /\ DOMAIN windows = 1 .. count /\ IsList(windows, count)
      /\ \A k \in 1 .. count : windows[k] = WindowAt(k)
  <2>1. IsList(windows, count)
    BY <1>2 DEF IsList
  <2> QED BY <1>2, <1>4, <2>1, ListIs
<1>6. \A k \in 1 .. count : /\ windows[k].start = StartOf(k)
                            /\ windows[k].split = StartOf(k) + s.development
                            /\ windows[k].end = StartOf(k) + needed
  BY <1>2 DEF WindowAt, s, needed
<1>7. \A k \in Nat \ {0} : k \in 1 .. count <=> StartOf(k) + needed <= n
  <2>1. \A k \in Nat \ {0} : k \in 1 .. count <=> k <= count
    BY <1>4
  <2> QED BY <1>4, <2>1 DEF StartOf, s
<1>8. \A k \in 1 .. count : StartOf(k) \in Nat /\ StartOf(k) + needed <= n
  <2> SUFFICES ASSUME NEW k \in 1 .. count PROVE StartOf(k) \in Nat /\ StartOf(k) + needed <= n
    OBVIOUS
  <2>1. k \in Nat \ {0} /\ k - 1 \in Nat
    BY <1>4
  <2>2. (k - 1) * s.step \in Nat
    BY <1>1, <2>1
  <2> QED BY <1>7, <2>1, <2>2 DEF StartOf, s
<1>9. \A k \in Nat : StartOf(k) + needed = StartOf(k) + s.development + s.validation
  <2> SUFFICES ASSUME NEW k \in Nat
               PROVE  StartOf(k) + needed = StartOf(k) + s.development + s.validation
    OBVIOUS
  <2>1. StartOf(k) \in Int
    BY <1>1 DEF StartOf, s
  <2> QED BY <1>1, <2>1 DEF needed
<1>10. \A k \in 1 .. count : k \in Nat \ {0}
  BY <1>4
<1> QED BY <1>4, <1>5, <1>6, <1>7, <1>8, <1>9, <1>10 DEF s, n, windows

-----------------------------------------------------------------------------
(* More candles.                                                           *)

LEMMA WindowDatasetIs ==
    ASSUME NEW series, NEW candles, NEW window
    PROVE  WindowDataset(DatasetWith(series, candles), window)
              = DatasetWith(series, SubSeq(candles, window.start + 1, window.end))
<1> DEFINE part == SubSeq(candles, window.start + 1, window.end)
           dataset == DatasetWith(series, candles)
<1>1. dataset.candles = candles
  BY DEF DatasetWith
<1>2. WindowDataset(dataset, window) = [dataset EXCEPT !.candles = part]
  <2> HIDE DEF dataset
  <2> QED BY <1>1 DEF WindowDataset
<1> HIDE DEF part
<1> QED BY <1>2 DEF DatasetWith, part

\* Two lists, one with the first members of the other.
LEMMA PrefixByMembers ==
    ASSUME NEW s, NEW m \in Nat, IsList(s, m), NEW t, NEW n \in Nat, IsList(t, n), m <= n,
           \A k \in 1 .. m : s[k] = t[k]
    PROVE  IsPrefix(s, t)
<1> DEFINE S == ToSet(s) \union ToSet(t)
<1>1. /\ s \in Seq(ToSet(s)) /\ t \in Seq(ToSet(t)) /\ Len(s) = m /\ Len(t) = n
  BY ListIs DEF IsASequence
<1>2. s \in Seq(S) /\ t \in Seq(S)
  <2>1. ASSUME NEW A, NEW B, s \in Seq(A), t \in Seq(B)
        PROVE  s \in Seq(A \union B) /\ t \in Seq(A \union B)
    BY <2>1
  <2> QED BY <1>1, <2>1
<1> HIDE DEF S
<1> QED BY <1>1, <1>2, PrefixIs

\* The first candles of a part.
LEMMA PartOfAPart ==
    ASSUME NEW S, NEW h \in Seq(S), NEW n \in 0 .. Len(h), NEW i \in Nat, NEW j \in Nat,
           1 <= i, j <= n
    PROVE  SubSeq(SubSeq(h, 1, n), i, j) = SubSeq(h, i, j)
<1>1. n \in Nat /\ Len(h) \in Nat /\ n <= Len(h)
  OBVIOUS
<1> DEFINE g == SubSeq(h, 1, n)
<1>2. g \in Seq(S) /\ Len(g) = n /\ \A k \in 1 .. n : g[k] = h[k]
  BY <1>1
<1> HIDE DEF g
<1>3. CASE i <= j
  <2> DEFINE a == SubSeq(g, i, j)
             b == SubSeq(h, i, j)
  <2>1. a \in Seq(S) /\ Len(a) = j - i + 1 /\ \A k \in 1 .. j - i + 1 : a[k] = g[k + i - 1]
    BY <1>1, <1>2, <1>3
  <2>2. b \in Seq(S) /\ Len(b) = j - i + 1 /\ \A k \in 1 .. j - i + 1 : b[k] = h[k + i - 1]
    BY <1>1, <1>3
  <2>3. \A k \in 1 .. j - i + 1 : k + i - 1 \in 1 .. n
    BY <1>1
  <2>4. \A k \in 1 .. j - i + 1 : a[k] = b[k]
    BY <1>2, <2>1, <2>2, <2>3
  <2> HIDE DEF a, b
  <2>5. a = b
    BY <2>1, <2>2, <2>4
  <2> QED BY <2>5 DEF a, b, g
<1>4. CASE ~ (i <= j)
  <2>1. i > j
    BY <1>4
  <2>2. SubSeq(g, i, j) = <<>> /\ SubSeq(h, i, j) = <<>>
    BY <1>2, <2>1
  <2> QED BY <2>2 DEF g
<1> QED BY <1>3, <1>4 DEF g

\* The regimes of a dataset, candle by candle.
LEMMA RegimesAre ==
    ASSUME NEW S, NEW candles \in Seq(S), NEW s
    PROVE  LET regimes == AnalyzeRegimes(candles, s)
           IN  /\ Len(candles) \in Nat /\ Len(regimes) = Len(candles)
               /\ DOMAIN regimes = 1 .. Len(candles) /\ IsList(regimes, Len(candles))
               /\ \A i \in 1 .. Len(candles) : regimes[i] = Regime(SubSeq(candles, 1, i), s)
<1> DEFINE n == Len(candles)
           f == [i \in 1 .. n |-> Regime(SubSeq(candles, 1, i), s)]
           regimes == AnalyzeRegimes(candles, s)
<1>1. n \in Nat /\ DOMAIN candles = 1 .. n
  OBVIOUS
<1>2. IsList(f, n) /\ \A i \in 1 .. n : f[i] = Regime(SubSeq(candles, 1, i), s)
  BY DEF IsList
<1>3. regimes = Listed(f)
  BY <1>1 DEF AnalyzeRegimes
<1> HIDE DEF f, regimes, n
<1>4. Listed(f) = f /\ Len(f) = n /\ DOMAIN f = 1 .. n
  BY <1>1, <1>2, ListedIs
<1>5. regimes = f
  BY <1>3, <1>4
<1> QED BY <1>1, <1>2, <1>4, <1>5 DEF n, regimes

\* The result of a dataset is that of its windows.
LEMMA ResultIs ==
    ASSUME NEW dataset, Len(dataset.candles) \in Nat, NEW c
    PROVE  LET s == Protocol.settings
               plan == PlanWindows(dataset, s)
               result == EvaluateDataset(dataset, c, s)
           IN  /\ result.dataset = dataset
               /\ result.regimes = AnalyzeRegimes(dataset.candles, s)
               /\ Len(plan) \in Nat /\ Len(result.windows) = Len(plan)
               /\ DOMAIN result.windows = 1 .. Len(plan) /\ IsList(result.windows, Len(plan))
               /\ \A k \in 1 .. Len(plan) :
                     result.windows[k] = EvaluateWindow(dataset, plan[k], c, result.regimes, s)
<1> DEFINE s == Protocol.settings
           plan == PlanWindows(dataset, s)
           m == Len(plan)
           regimes == AnalyzeRegimes(dataset.candles, s)
           result == EvaluateDataset(dataset, c, s)
           f == [k \in 1 .. m |-> EvaluateWindow(dataset, plan[k], c, regimes, s)]
<1>1. m \in Nat /\ DOMAIN plan = 1 .. m
  BY WindowsAre
<1> HIDE DEF plan, m, regimes, s
<1>2. result = [dataset |-> dataset, regimes |-> regimes, windows |-> Listed(f)]
  BY <1>1 DEF EvaluateDataset, EvaluateWindows, plan, regimes
<1>3. /\ IsList(f, m)
      /\ \A k \in 1 .. m : f[k] = EvaluateWindow(dataset, plan[k], c, regimes, s)
  BY DEF IsList
<1> HIDE DEF f
<1>4. Listed(f) = f /\ Len(f) = m /\ DOMAIN f = 1 .. m
  BY <1>1, <1>3, ListedIs
<1> HIDE DEF result
<1>5. result.dataset = dataset /\ result.regimes = regimes /\ result.windows = f
  BY <1>2, <1>4
<1> QED BY <1>1, <1>3, <1>4, <1>5 DEF result, s, plan, m, regimes

\* What was reported of the first candles of a history is reported of the whole of it.
LEMMA ResultsStay ==
    ASSUME NEW series, NEW c, NEW S, NEW h \in Seq(S), NEW n \in 0 .. Len(h)
    PROVE  LET earlier == EvaluateDataset(DatasetWith(series, SubSeq(h, 1, n)), c,
                                          Protocol.settings)
               later == EvaluateDataset(DatasetWith(series, h), c, Protocol.settings)
           IN  IsPrefix(earlier.windows, later.windows) /\ IsPrefix(earlier.regimes, later.regimes)
<1> DEFINE s == Protocol.settings
           g == SubSeq(h, 1, n)
           d == DatasetWith(series, g)
           e == DatasetWith(series, h)
           dr == AnalyzeRegimes(g, s)
           er == AnalyzeRegimes(h, s)
           dw == EvaluateDataset(d, c, s).windows
           ew == EvaluateDataset(e, c, s).windows
           dp == PlanWindows(d, s)
           ep == PlanWindows(e, s)
           p == Len(dp)
           q == Len(ep)
<1>1. /\ n \in Nat /\ Len(h) \in Nat /\ n <= Len(h) /\ g \in Seq(S) /\ Len(g) = n
      /\ d.candles = g /\ e.candles = h /\ \A i \in 1 .. n : g[i] = h[i]
  BY DEF DatasetWith
<1>2. \A i \in 1 .. n : SubSeq(g, 1, i) = SubSeq(h, 1, i)
  BY <1>1, PartOfAPart
<1> HIDE DEF d, e, g
<1>3. /\ IsList(dr, n) /\ \A i \in 1 .. n : dr[i] = Regime(SubSeq(g, 1, i), s)
      /\ IsList(er, Len(h)) /\ \A i \in 1 .. Len(h) : er[i] = Regime(SubSeq(h, 1, i), s)
  BY <1>1, RegimesAre
<1>4. /\ p \in Nat /\ DOMAIN dp = 1 .. p /\ \A k \in 1 .. p : dp[k] = WindowAt(k)
      /\ \A k \in Nat \ {0} : k \in 1 .. p <=> StartOf(k) + s.development + s.validation <= n
      /\ \A k \in 1 .. p :
            /\ dp[k].start = StartOf(k) /\ StartOf(k) \in Nat
            /\ dp[k].split = StartOf(k) + s.development
            /\ dp[k].end = StartOf(k) + s.development + s.validation
            /\ dp[k].end <= n
  BY <1>1, WindowsAre
<1>5. /\ q \in Nat /\ DOMAIN ep = 1 .. q /\ \A k \in 1 .. q : ep[k] = WindowAt(k)
      /\ \A k \in Nat \ {0} : k \in 1 .. q <=> StartOf(k) + s.development + s.validation <= Len(h)
  BY <1>1, WindowsAre
<1>6. /\ EvaluateDataset(d, c, s).regimes = dr /\ EvaluateDataset(e, c, s).regimes = er
      /\ IsList(dw, p) /\ \A k \in 1 .. p : dw[k] = EvaluateWindow(d, dp[k], c, dr, s)
      /\ IsList(ew, q) /\ \A k \in 1 .. q : ew[k] = EvaluateWindow(e, ep[k], c, er, s)
  <2>1. EvaluateDataset(d, c, s).regimes = dr /\ EvaluateDataset(e, c, s).regimes = er
    BY <1>1, ResultIs
  <2>2. IsList(dw, p) /\ \A k \in 1 .. p : dw[k] = EvaluateWindow(d, dp[k], c, dr, s)
    <3>1. Len(d.candles) \in Nat
      BY <1>1
    <3>2. IsList(dw, p) /\ \A k \in 1 .. p :
             dw[k] = EvaluateWindow(d, dp[k], c, EvaluateDataset(d, c, s).regimes, s)
      BY <3>1, ResultIs
    <3> HIDE DEF dw, dp, dr, p, s
    <3> QED BY <2>1, <3>2
  <2>3. IsList(ew, q) /\ \A k \in 1 .. q : ew[k] = EvaluateWindow(e, ep[k], c, er, s)
    <3>1. Len(e.candles) \in Nat
      BY <1>1
    <3>2. IsList(ew, q) /\ \A k \in 1 .. q :
             ew[k] = EvaluateWindow(e, ep[k], c, EvaluateDataset(e, c, s).regimes, s)
      BY <3>1, ResultIs
    <3> HIDE DEF ew, ep, er, q, s
    <3> QED BY <2>1, <3>2
  <2> QED BY <2>1, <2>2, <2>3
<1> HIDE DEF dr, er, dw, ew, dp, ep, p, q
<1>7. ASSUME NEW i \in 1 .. n PROVE dr[i] = er[i]
  <2>1. i \in 1 .. Len(h)
    BY <1>1
  <2>2. dr[i] = Regime(SubSeq(g, 1, i), s) /\ er[i] = Regime(SubSeq(h, 1, i), s)
    BY <1>3, <2>1
  <2>3. SubSeq(g, 1, i) = SubSeq(h, 1, i)
    BY <1>2
  <2> QED BY <2>2, <2>3
<1>8. IsPrefix(dr, er)
  <2> HIDE DEF s
  <2> QED BY <1>1, <1>3, <1>7, PrefixByMembers
<1>9. \A k \in 1 .. p : k \in 1 .. q /\ ep[k] = dp[k]
  <2> SUFFICES ASSUME NEW k \in 1 .. p PROVE k \in 1 .. q /\ ep[k] = dp[k]
    OBVIOUS
  <2>1. k \in Nat \ {0} /\ StartOf(k) + s.development + s.validation <= n /\ StartOf(k) \in Nat
    BY <1>4
  <2>2. s.development \in Nat /\ s.validation \in Nat
    BY SettingsAre
  <2> HIDE DEF s
  <2>3. StartOf(k) + s.development + s.validation <= Len(h)
    BY <1>1, <2>1, <2>2
  <2>4. k \in 1 .. q
    BY <1>5, <2>1, <2>3
  <2> QED BY <1>4, <1>5, <2>4
<1>10. p <= q
  <2>1. p = 0 \/ p \in 1 .. p
    BY <1>4
  <2>2. p \in 1 .. p => p \in 1 .. q
    BY <1>9
  <2> QED BY <1>4, <1>5, <2>1, <2>2
<1>11. ASSUME NEW k \in 1 .. p PROVE dw[k] = ew[k]
  <2> DEFINE w == dp[k]
  <2>1. /\ w.start \in Nat /\ w.split \in Nat /\ w.end \in Nat
        /\ w.start + 1 <= w.split /\ w.split + 1 <= w.end /\ w.end <= n
    <3>1. /\ w.start = StartOf(k) /\ StartOf(k) \in Nat /\ w.split = StartOf(k) + s.development
          /\ w.end = StartOf(k) + s.development + s.validation /\ w.end <= n
      BY <1>4
    <3>2. s.development \in Nat \ {0} /\ s.validation \in Nat \ {0}
      BY SettingsAre
    <3> HIDE DEF s, w
    <3> QED BY <3>1, <3>2
  <2>2. dw[k] = EvaluateWindow(d, w, c, dr, s) /\ ew[k] = EvaluateWindow(e, w, c, er, s)
    BY <1>6, <1>9
  <2> HIDE DEF w, s
  <2>3. WindowDataset(d, w) = WindowDataset(e, w)
    <3>1. SubSeq(g, w.start + 1, w.end) = SubSeq(h, w.start + 1, w.end)
      <4>1. w.start + 1 \in Nat /\ 1 <= w.start + 1
        BY <2>1
      <4> QED BY <2>1, <4>1, PartOfAPart DEF g
    <3>2. WindowDataset(d, w) = DatasetWith(series, SubSeq(g, w.start + 1, w.end))
      BY WindowDatasetIs DEF d
    <3>3. WindowDataset(e, w) = DatasetWith(series, SubSeq(h, w.start + 1, w.end))
      BY WindowDatasetIs DEF e
    <3> QED BY <3>1, <3>2, <3>3
  <2>4. dr[w.split] = er[w.split] /\ dr[w.end] = er[w.end]
    BY <1>1, <1>7, <2>1
  <2>5. /\ PeriodName(d, w.start) = PeriodName(e, w.start)
        /\ PeriodName(d, w.split) = PeriodName(e, w.split)
    <3>1. g[w.start + 1] = h[w.start + 1] /\ g[w.split + 1] = h[w.split + 1]
      BY <1>1, <2>1
    <3> QED BY <1>1, <3>1 DEF PeriodName
  <2> DEFINE rows == SignalRows(ReplayHistory(WindowDataset(d, w), c))
  <2>6. EvaluateWindow(d, w, c, dr, s) = SplitRows(d, w, rows, dr, s)
    BY DEF EvaluateWindow
  <2>7. EvaluateWindow(e, w, c, er, s) = SplitRows(e, w, rows, er, s)
    BY <2>3 DEF EvaluateWindow
  <2> HIDE DEF rows
  <2>8. SplitRows(d, w, rows, dr, s) = SplitRows(e, w, rows, er, s)
    BY <2>4, <2>5 DEF SplitRows
  <2> QED BY <2>2, <2>6, <2>7, <2>8
<1>12. IsPrefix(dw, ew)
  <2> HIDE DEF s
  <2> QED BY <1>4, <1>5, <1>6, <1>10, <1>11, PrefixByMembers
<1> QED BY <1>6, <1>8, <1>12 DEF dw, ew, d, e, g

-----------------------------------------------------------------------------
(* What the researcher holds: reports and evidence of what was recorded,   *)
(* candidates that stand on a baseline, statuses that were earned.         *)

Groups == SUBSET Series
EngineSettings ==
    [quality : Nat, chain : Nat, detection : Detections, horizon : Nat \ {0},
     minimum : Nat \ {0}]

AreLengths(lengths, m) ==
    lengths \in [Keys -> Nat] /\ \A key \in Keys : lengths[key] <= Len(m[key])

ReportsFor(m, group, lengths, c) ==
    LET datasets == DatasetsFrom(m, group, lengths)
    IN  ReportsOf(Backtest(datasets, c), Robustness(datasets, c, Protocol.settings))

AcceptedFor(m, group, lengths, c) ==
    LET datasets == DatasetsFrom(m, group, lengths)
    IN  ReportsAreAccepted({series.id : series \in group}, datasets, Backtest(datasets, c),
                           ReportsFor(m, group, lengths, c))

IsEvaluation(e, m) ==
    /\ e.group \in Groups /\ e.configuration \in EngineSettings
    /\ AreLengths(e.recorded, m)
    /\ e.outcome = IF AcceptedFor(m, e.group, e.recorded, e.configuration)
                   THEN "reports" ELSE "refused"
    /\ e.outcome = "reports" => e.reports = ReportsFor(m, e.group, e.recorded, e.configuration)

EvidenceOf(record, m, group, lengths, c) ==
    /\ AcceptedFor(m, group, lengths, c)
    /\ record.runId = [configuration |-> c, ids |-> {series.id : series \in group}]
    /\ record.provenance = [series \in group |-> lengths[series.key]]
    /\ record.metrics = Metrics(ReportsFor(m, group, lengths, c).intelligence)
    /\ record.status = "EVALUATED"

IsEvidence(record, m) ==
    \E group \in Groups, c \in EngineSettings, lengths \in [Keys -> Nat] :
        AreLengths(lengths, m) /\ EvidenceOf(record, m, group, lengths, c)

MarketInv ==
    /\ market \in Markets /\ AreLengths(recorded, market)

EvaluationInv ==
    evaluation.outcome # "none" =>
        /\ IsEvaluation(evaluation, market)
        /\ \A key \in Keys : evaluation.recorded[key] <= recorded[key]

EvidenceInv == \A record \in evidence : IsEvidence(record, market)

\* The states a version has behind it.
Behind ==
    [PROPOSED |-> {}, EXPERIMENTAL |-> {"PROPOSED"}, EVALUATED |-> {"PROPOSED", "EXPERIMENTAL"},
     FAILED |-> {"PROPOSED", "EXPERIMENTAL"},
     REVIEW_REQUIRED |-> {"PROPOSED", "EXPERIMENTAL", "EVALUATED"},
     APPROVED |-> {"PROPOSED", "EXPERIMENTAL", "EVALUATED", "REVIEW_REQUIRED"},
     REJECTED |-> {"PROPOSED", "EXPERIMENTAL", "EVALUATED", "REVIEW_REQUIRED"}]

IsCandidate(candidate) ==
    \E baseline \in Baselines, deltas \in SUBSET Deltas :
        DeltasAreValid(deltas) /\ candidate = Candidate(baseline, deltas)

DecisionsInv == \A record \in decisions : record.decision \in HumanOnly
                    /\ record = [candidate |-> record.candidate, decision |-> record.decision]

VersionsInv ==
    \A version \in versions :
        /\ version = Version(version.candidate, version.status)
        /\ IsCandidate(version.candidate) /\ version.status \in Statuses
        /\ \A status \in Behind[version.status] : Version(version.candidate, status) \in versions
        /\ version.status \in HumanOnly =>
              [candidate |-> version.candidate, decision |-> version.status] \in decisions

ResearchInv == MarketInv /\ EvaluationInv /\ EvidenceInv /\ VersionsInv /\ DecisionsInv

\* What a market is.
LEMMA MarketIs ==
    ASSUME NEW m \in Markets
    PROVE  /\ DOMAIN m = Keys
           /\ \A key \in Keys :
                 /\ m[key] \in Seq(Prices) /\ Len(m[key]) \in Nat
                 /\ FirstRecorded[key] \in 0 .. Len(m[key])
<1>1. /\ DOMAIN m = Keys
      /\ \A key \in Keys : m[key] \in Seq(Prices) /\ FirstRecorded[key] \in 0 .. Len(m[key])
  BY MarketsAssumption
<1>2. ASSUME NEW key \in Keys PROVE Len(m[key]) \in Nat
  <2>1. m[key] \in Seq(Prices)
    BY <1>1
  <2> QED BY <2>1
<1> QED BY <1>1, <1>2

\* A configuration with the deltas of a candidate is one.
LEMMA AppliedIs ==
    ASSUME NEW baseline \in Baselines, NEW deltas \in SUBSET Deltas, DeltasAreValid(deltas)
    PROVE  Applied(baseline, deltas) \in EngineSettings
<1> DEFINE names == {"quality", "chain", "detection", "horizon", "minimum"}
           Changes(setting) == \E delta \in deltas : delta.setting = setting
           chosen(setting) == CHOOSE delta \in deltas : delta.setting = setting
           value(setting) == IF Changes(setting) THEN chosen(setting).new ELSE baseline[setting]
<1>1. baseline \in EngineSettings
  BY BaselinesAssumption DEF EngineSettings
<1>2. DOMAIN baseline = names
  BY <1>1 DEF EngineSettings
<1>3. ASSUME NEW setting, Changes(setting)
      PROVE  setting \in Surfaces /\ chosen(setting).new \in NewValues[setting]
  <2>1. chosen(setting) \in deltas /\ chosen(setting).setting = setting
    BY <1>3
  <2> DEFINE d == chosen(setting)
  <2> HIDE DEF d
  <2>2. d \in Deltas /\ d.setting = setting /\ d.new \in NewValues[d.setting]
    BY <2>1 DEF DeltasAreValid, DeltaIsValid, d
  <2>3. d.setting \in Surfaces
    BY <2>2 DEF Deltas
  <2> QED BY <2>2, <2>3 DEF d
<1>4. Applied(baseline, deltas) = [setting \in names |-> value(setting)]
  BY <1>2 DEF Applied
<1> HIDE DEF Changes, chosen
<1>5. value("quality") \in Nat
  BY <1>1, <1>3, BaselinesAssumption DEF EngineSettings
<1>6. value("chain") \in Nat
  BY <1>1, <1>3, BaselinesAssumption DEF EngineSettings
<1>7. value("detection") \in Detections
  <2>1. NewValues["detection"] \subseteq Detections /\ baseline["detection"] \in Detections
    BY <1>1 DEF Detections, EngineSettings
  <2> QED BY <1>3, <2>1
<1>8. value("horizon") = baseline.horizon /\ value("minimum") = baseline.minimum
  <2>1. ~ Changes("horizon") /\ ~ Changes("minimum")
    BY <1>3 DEF Surfaces
  <2> QED BY <2>1
<1>9. baseline.horizon \in Nat \ {0} /\ baseline.minimum \in Nat \ {0}
  BY <1>1 DEF EngineSettings
<1> DEFINE q == value("quality")
           c == value("chain")
           d == value("detection")
           h == value("horizon")
           m == value("minimum")
<1>10. Applied(baseline, deltas)
         = [quality |-> q, chain |-> c, detection |-> d, horizon |-> h, minimum |-> m]
  <2> HIDE DEF value
  <2> QED BY <1>4
<1> HIDE DEF value, q, c, d, h, m
<1>11. q \in Nat /\ c \in Nat /\ d \in Detections /\ h \in Nat \ {0} /\ m \in Nat \ {0}
  BY <1>5, <1>6, <1>7, <1>8, <1>9 DEF q, c, d, h, m
<1> QED BY <1>10, <1>11 DEF EngineSettings

\* A step that evaluates nothing leaves the market, the reports and the evidence alone.
LEMMA NothingIsEvaluated ==
    ASSUME MarketInv, EvaluationInv, EvidenceInv,
           UNCHANGED <<market, recorded, evaluation, evidence>>
    PROVE  MarketInv' /\ EvaluationInv' /\ EvidenceInv'
BY DEF MarketInv, EvaluationInv, EvidenceInv

LEMMA GrowStep ==
    ASSUME ResearchInv, NEW key \in DOMAIN market, Grow(key) PROVE ResearchInv'
<1>1. /\ market \in Markets /\ recorded \in [Keys -> Nat]
      /\ \A k \in Keys : recorded[k] <= Len(market[k])
  BY DEF ResearchInv, MarketInv, AreLengths
<1>2. /\ recorded' = [recorded EXCEPT ![key] = recorded[key] + 1] /\ market' = market
      /\ evaluation' = evaluation /\ evidence' = evidence /\ versions' = versions
      /\ decisions' = decisions /\ recorded[key] < Len(market[key])
  BY DEF Grow
<1>3. DOMAIN market = Keys /\ \A k \in Keys : Len(market[k]) \in Nat
  BY <1>1, MarketIs
<1>4. recorded' \in [Keys -> Nat]
  BY <1>1, <1>2, <1>3
<1>5. ASSUME NEW k \in Keys PROVE recorded[k] <= recorded'[k] /\ recorded'[k] <= Len(market[k])
  <2>1. recorded'[k] = IF k = key THEN recorded[k] + 1 ELSE recorded[k]
    BY <1>1, <1>2
  <2> DEFINE x == recorded[k]
             n == Len(market[k])
  <2>2. x \in Nat /\ n \in Nat /\ x <= n /\ (k = key => x < n)
    BY <1>1, <1>2, <1>3
  <2> HIDE DEF x, n
  <2>3. x <= x + 1 /\ (k = key => x + 1 <= n) /\ x <= x
    BY <2>2
  <2> QED BY <2>1, <2>2, <2>3 DEF x, n
<1>6. MarketInv'
  BY <1>1, <1>2, <1>4, <1>5 DEF MarketInv, AreLengths
<1>7. EvaluationInv'
  <2> SUFFICES ASSUME evaluation.outcome # "none"
               PROVE  /\ IsEvaluation(evaluation, market)
                      /\ \A k \in Keys : evaluation.recorded[k] <= recorded'[k]
    BY <1>2 DEF EvaluationInv
  <2>1. /\ IsEvaluation(evaluation, market)
        /\ \A k \in Keys : evaluation.recorded[k] <= recorded[k]
    BY DEF ResearchInv, EvaluationInv
  <2>2. evaluation.recorded \in [Keys -> Nat]
    BY <2>1 DEF IsEvaluation, AreLengths
  <2>3. ASSUME NEW k \in Keys PROVE evaluation.recorded[k] <= recorded'[k]
    <3>1. /\ evaluation.recorded[k] \in Nat /\ recorded[k] \in Nat /\ recorded'[k] \in Nat
          /\ evaluation.recorded[k] <= recorded[k] /\ recorded[k] <= recorded'[k]
      BY <1>1, <1>4, <1>5, <2>1, <2>2
    <3> QED BY <3>1
  <2> QED BY <2>1, <2>3
<1>8. EvidenceInv' /\ VersionsInv' /\ DecisionsInv'
  BY <1>2 DEF ResearchInv, EvidenceInv, VersionsInv, DecisionsInv
<1> QED BY <1>6, <1>7, <1>8 DEF ResearchInv

\* What an evaluation returns.
LEMMA EvaluateIs ==
    ASSUME NEW subject, NEW baseline, NEW group \in Groups, NEW c,
           Evaluate(subject, baseline, group, c)
    PROVE  LET accepted == AcceptedFor(market, group, recorded, c)
               reports == ReportsFor(market, group, recorded, c)
           IN  /\ evaluation'.outcome = (IF accepted THEN "reports" ELSE "refused")
               /\ evaluation'.group = group /\ evaluation'.configuration = c
               /\ evaluation'.recorded = recorded
               /\ accepted => evaluation'.reports = reports
               /\ evidence' = IF ~accepted THEN evidence
                              ELSE evidence \union {Evidence(subject, baseline, group, c, reports)}
               /\ UNCHANGED <<market, recorded, hypotheses, confirmations, versions, decisions>>
<1> DEFINE datasets == DatasetsFrom(market, group, recorded)
           backtest == Backtest(datasets, c)
           reports == ReportsFor(market, group, recorded, c)
           accepted == AcceptedFor(market, group, recorded, c)
<1>1. DatasetsAt(group, recorded) = datasets
  BY DatasetsAre DEF Groups
<1>2. /\ reports = ReportsOf(backtest, Robustness(datasets, c, Protocol.settings))
      /\ accepted = ReportsAreAccepted({series.id : series \in group}, datasets, backtest, reports)
  BY DEF ReportsFor, AcceptedFor
<1> HIDE DEF datasets, backtest, reports, accepted
<1>3. ReturnReports(subject, baseline, group, c, datasets, backtest, reports)
  BY <1>1, <1>2 DEF Evaluate, EvaluateConfig, EvaluateReplay, backtest
<1>4. Returned(subject, baseline, group, c, accepted, reports)
  BY <1>2, <1>3 DEF ReturnReports
<1> QED BY <1>4 DEF Returned, accepted, reports

LEMMA EvaluateStep ==
    ASSUME ResearchInv, NEW subject, NEW baseline, NEW group \in Groups,
           NEW c \in EngineSettings, Evaluate(subject, baseline, group, c)
    PROVE  ResearchInv'
<1> DEFINE accepted == AcceptedFor(market, group, recorded, c)
           reports == ReportsFor(market, group, recorded, c)
           new == Evidence(subject, baseline, group, c, reports)
<1>1. /\ evaluation'.outcome = (IF accepted THEN "reports" ELSE "refused")
      /\ evaluation'.group = group /\ evaluation'.configuration = c
      /\ evaluation'.recorded = recorded
      /\ accepted => evaluation'.reports = reports
      /\ evidence' = IF ~accepted THEN evidence ELSE evidence \union {new}
      /\ UNCHANGED <<market, recorded, hypotheses, confirmations, versions, decisions>>
  BY EvaluateIs
<1>2. AreLengths(recorded, market)
  BY DEF ResearchInv, MarketInv
<1>3. MarketInv'
  BY <1>1 DEF ResearchInv, MarketInv
<1>4. EvaluationInv'
  <2>1. IsEvaluation(evaluation', market)
    BY <1>1, <1>2 DEF IsEvaluation
  <2>2. \A key \in Keys : recorded[key] <= recorded[key]
    BY <1>2 DEF AreLengths
  <2> QED BY <1>1, <2>1, <2>2 DEF EvaluationInv
<1>5. EvidenceInv'
  <2>1. ASSUME accepted PROVE IsEvidence(new, market)
    <3>1. EvidenceOf(new, market, group, recorded, c)
      BY <2>1 DEF EvidenceOf, Evidence, Recorded
    <3>2. recorded \in [Keys -> Nat]
      BY <1>2 DEF AreLengths
    <3> QED BY <1>2, <3>1, <3>2 DEF IsEvidence
  <2> HIDE DEF new, accepted
  <2> QED BY <1>1, <2>1 DEF ResearchInv, EvidenceInv
<1>6. VersionsInv' /\ DecisionsInv'
  BY <1>1 DEF ResearchInv, VersionsInv, DecisionsInv
<1> QED BY <1>3, <1>4, <1>5, <1>6 DEF ResearchInv

\* A version more, of a candidate that is there or of a new one.
LEMMA VersionStep ==
    ASSUME ResearchInv, NEW candidate, IsCandidate(candidate), NEW status \in Statuses,
           \A earlier \in Behind[status] : Version(candidate, earlier) \in versions,
           status \in HumanOnly => [candidate |-> candidate, decision |-> status] \in decisions,
           versions' = versions \union {Version(candidate, status)},
           UNCHANGED <<market, recorded, evaluation, evidence, decisions>>
    PROVE  ResearchInv'
<1>1. MarketInv' /\ EvaluationInv' /\ EvidenceInv' /\ DecisionsInv'
  BY NothingIsEvaluated DEF ResearchInv, DecisionsInv
<1>2. VersionsInv'
  <2> SUFFICES ASSUME NEW version \in versions'
               PROVE  /\ version = Version(version.candidate, version.status)
                      /\ IsCandidate(version.candidate) /\ version.status \in Statuses
                      /\ \A earlier \in Behind[version.status] :
                            Version(version.candidate, earlier) \in versions'
                      /\ version.status \in HumanOnly =>
                            [candidate |-> version.candidate, decision |-> version.status]
                               \in decisions
    BY DEF VersionsInv
  <2>1. CASE version \in versions
    BY <2>1 DEF ResearchInv, VersionsInv
  <2>2. CASE version = Version(candidate, status)
    <3>1. version.candidate = candidate /\ version.status = status
      BY <2>2 DEF Version
    <3> QED BY <2>2, <3>1
  <2> QED BY <2>1, <2>2
<1> QED BY <1>1, <1>2 DEF ResearchInv

\* The versions and what they rest on are untouched.
LEMMA QuietResearch ==
    ASSUME ResearchInv, UNCHANGED <<market, recorded, evaluation, evidence, versions, decisions>>
    PROVE  ResearchInv'
<1>1. MarketInv' /\ EvaluationInv' /\ EvidenceInv' /\ DecisionsInv'
  BY NothingIsEvaluated DEF ResearchInv, DecisionsInv
<1>2. VersionsInv'
  BY DEF ResearchInv, VersionsInv
<1> QED BY <1>1, <1>2 DEF ResearchInv

LEMMA BuildCandidateStep ==
    ASSUME ResearchInv, NEW baseline \in Baselines, NEW deltas \in SUBSET Deltas,
           BuildCandidate(baseline, deltas)
    PROVE  ResearchInv'
<1>1. /\ DeltasAreValid(deltas)
      /\ versions' = versions \union {Version(Candidate(baseline, deltas), "PROPOSED")}
      /\ UNCHANGED <<market, recorded, evaluation, evidence, decisions>>
  BY DEF BuildCandidate
<1>2. IsCandidate(Candidate(baseline, deltas))
  BY <1>1 DEF IsCandidate
<1>3. "PROPOSED" \in Statuses /\ Behind["PROPOSED"] = {} /\ "PROPOSED" \notin HumanOnly
  BY DEF Statuses, AutoTransitions, HumanOnly, Behind
<1> QED BY <1>1, <1>2, <1>3, VersionStep

LEMMA TransitionStep ==
    ASSUME ResearchInv, NEW version \in versions, NEW target, Transition(version, target)
    PROVE  ResearchInv'
<1> DEFINE candidate == version.candidate
           status == version.status
<1>1. /\ version = Version(candidate, status)
      /\ IsCandidate(candidate) /\ status \in Statuses
      /\ \A earlier \in Behind[status] : Version(candidate, earlier) \in versions
  BY DEF ResearchInv, VersionsInv
<1>2. target \notin HumanOnly /\ target \in AutoTransitions[status]
      /\ versions' = versions \union {Version(candidate, target)}
      /\ UNCHANGED <<market, recorded, evaluation, evidence, decisions>>
  BY DEF Transition, CanTransition
<1> HIDE DEF candidate, status
<1>3. target \in Statuses /\ Behind[target] = Behind[status] \union {status}
  BY <1>1, <1>2 DEF Statuses, AutoTransitions, Behind
<1>4. \A earlier \in Behind[target] : Version(candidate, earlier) \in versions
  BY <1>1, <1>3
<1> QED BY <1>1, <1>2, <1>3, <1>4, VersionStep

LEMMA ApplyStep ==
    ASSUME ResearchInv, NEW version \in versions, NEW record \in decisions,
           ApplyHumanDecision(version, record)
    PROVE  ResearchInv'
<1> DEFINE candidate == version.candidate
           outcome == record.decision
<1>1. /\ version = Version(candidate, version.status) /\ IsCandidate(candidate)
      /\ \A earlier \in Behind[version.status] : Version(candidate, earlier) \in versions
      /\ version.status = "REVIEW_REQUIRED"
  BY DEF ResearchInv, VersionsInv, ApplyHumanDecision, MayApply
<1>2. /\ outcome \in HumanOnly /\ [candidate |-> candidate, decision |-> outcome] \in decisions
      /\ versions' = versions \union {Version(candidate, outcome)}
      /\ UNCHANGED <<market, recorded, evaluation, evidence, decisions>>
  BY DEF ResearchInv, DecisionsInv, ApplyHumanDecision, MayApply
<1> HIDE DEF candidate, outcome
<1>3. outcome \in Statuses /\ Behind[outcome] = Behind["REVIEW_REQUIRED"] \union {"REVIEW_REQUIRED"}
  BY <1>2 DEF HumanOnly, Statuses, AutoTransitions, Behind
<1>4. \A earlier \in Behind[outcome] : Version(candidate, earlier) \in versions
  BY <1>1, <1>3
<1> QED BY <1>1, <1>2, <1>3, <1>4, VersionStep

LEMMA BuildDecisionStep ==
    ASSUME ResearchInv, NEW candidate, NEW outcome \in HumanOnly, BuildDecision(candidate, outcome)
    PROVE  ResearchInv'
<1>1. /\ decisions' = decisions \union {[candidate |-> candidate, decision |-> outcome]}
      /\ UNCHANGED <<market, recorded, evaluation, evidence, versions>>
  BY DEF BuildDecision
<1>2. MarketInv' /\ EvaluationInv' /\ EvidenceInv'
  BY <1>1, NothingIsEvaluated DEF ResearchInv
<1>3. VersionsInv' /\ DecisionsInv'
  BY <1>1 DEF ResearchInv, VersionsInv, DecisionsInv
<1> QED BY <1>2, <1>3 DEF ResearchInv

LEMMA ResearchBegins == ResearchInit => ResearchInv
<1> SUFFICES ASSUME ResearchInit PROVE ResearchInv
  OBVIOUS
<1>1. /\ market \in Markets /\ recorded = [key \in DOMAIN market |-> FirstRecorded[key]]
      /\ evaluation = NothingEvaluated /\ evidence = {} /\ versions = {} /\ decisions = {}
  BY DEF ResearchInit
<1>2. /\ DOMAIN market = Keys
      /\ \A key \in Keys : /\ FirstRecorded[key] \in 0 .. Len(market[key])
                           /\ Len(market[key]) \in Nat
  BY <1>1, MarketIs
<1>3. \A key \in Keys : FirstRecorded[key] \in Nat /\ FirstRecorded[key] <= Len(market[key])
  BY <1>2
<1>4. MarketInv
  BY <1>1, <1>2, <1>3 DEF MarketInv, AreLengths
<1>5. EvaluationInv /\ EvidenceInv /\ VersionsInv /\ DecisionsInv
  BY <1>1 DEF EvaluationInv, EvidenceInv, VersionsInv, DecisionsInv, NothingEvaluated
<1> QED BY <1>4, <1>5 DEF ResearchInv

LEMMA ResearchNextKeeps == ResearchInv /\ [ResearchNext]_researched => ResearchInv'
<1> SUFFICES ASSUME ResearchInv, [ResearchNext]_researched PROVE ResearchInv'
  OBVIOUS
<1>1. CASE \E key \in DOMAIN market : Grow(key)
  BY <1>1, GrowStep
<1>2. ASSUME NEW baseline \in Baselines, NEW group \in Groups, EvaluateBaseline(baseline, group)
      PROVE  ResearchInv'
  <2>1. baseline \in EngineSettings
    BY BaselinesAssumption DEF EngineSettings
  <2> QED BY <1>2, <2>1, EvaluateStep DEF EvaluateBaseline
<1>3. ASSUME NEW candidate \in {version.candidate : version \in versions},
             NEW baseline \in Baselines, EvaluateCandidate(candidate, baseline, Series)
      PROVE  ResearchInv'
  <2>1. IsCandidate(candidate)
    BY DEF ResearchInv, VersionsInv
  <2>2. PICK b \in Baselines, deltas \in SUBSET Deltas :
           DeltasAreValid(deltas) /\ candidate = Candidate(b, deltas)
    BY <2>1 DEF IsCandidate
  <2>3. candidate.deltas = deltas
    BY <2>2 DEF Candidate
  <2>4. Applied(baseline, candidate.deltas) \in EngineSettings
    BY <2>2, <2>3, AppliedIs
  <2> QED BY <1>3, <2>4, EvaluateStep DEF EvaluateCandidate, Groups
<1>4. ASSUME NEW baseline \in Baselines, GenerateHypotheses(baseline) PROVE ResearchInv'
  <2>1. UNCHANGED <<market, recorded, evaluation, evidence, versions, decisions>>
    BY <1>4 DEF GenerateHypotheses
  <2> QED BY <2>1, QuietResearch
<1>5. ASSUME NEW hypothesis, NEW decision, ConfirmHypothesis(hypothesis, decision)
      PROVE  ResearchInv'
  <2>1. UNCHANGED <<market, recorded, evaluation, evidence, versions, decisions>>
    BY <1>5 DEF ConfirmHypothesis
  <2> QED BY <2>1, QuietResearch
<1>6. ASSUME NEW baseline, BuildHypothesis(baseline) PROVE ResearchInv'
  <2>1. UNCHANGED <<market, recorded, evaluation, evidence, versions, decisions>>
    BY <1>6 DEF BuildHypothesis
  <2> QED BY <2>1, QuietResearch
<1>7. ASSUME NEW baseline \in Baselines,
             \/ \E deltas \in SUBSET {delta \in Deltas : DeltaIsValid(delta)} :
                   BuildCandidate(baseline, deltas)
             \/ \E hypothesis \in hypotheses, confirmation \in confirmations, delta \in Deltas :
                   CreateCandidate(hypothesis, confirmation, baseline, delta)
      PROVE  ResearchInv'
  <2>1. ASSUME NEW deltas \in SUBSET Deltas, BuildCandidate(baseline, deltas) PROVE ResearchInv'
    BY <2>1, BuildCandidateStep
  <2>2. ASSUME NEW hypothesis, NEW confirmation, NEW delta \in Deltas,
               CreateCandidate(hypothesis, confirmation, baseline, delta)
        PROVE  ResearchInv'
    <3>1. BuildCandidate(baseline, {delta}) /\ {delta} \in SUBSET Deltas
      BY <2>2 DEF CreateCandidate
    <3> QED BY <2>1, <3>1
  <2>3. \A deltas \in SUBSET {delta \in Deltas : DeltaIsValid(delta)} : deltas \in SUBSET Deltas
    OBVIOUS
  <2> QED BY <1>7, <2>1, <2>2, <2>3
<1>8. ASSUME NEW version \in versions, NEW target, Transition(version, target) PROVE ResearchInv'
  BY <1>8, TransitionStep
<1>9. ASSUME NEW version \in versions,
             \/ StartExperiment(version)
             \/ \E record \in evidence : FinishExperiment(version, record)
      PROVE  ResearchInv'
  BY <1>8, <1>9 DEF StartExperiment, FinishExperiment
<1>10. CASE UNCHANGED researched
  <2>1. UNCHANGED <<market, recorded, evaluation, evidence, versions, decisions>>
    BY <1>10 DEF researched
  <2> QED BY <2>1, QuietResearch
<1>11. ASSUME NEW baseline \in Baselines, NEW group \in SUBSET Series \ {{}},
              EvaluateBaseline(baseline, group)
       PROVE  ResearchInv'
  BY <1>2, <1>11 DEF Groups
<1>12. ASSUME NEW version \in versions,
              \/ \E outcome \in HumanOnly : BuildDecision(version.candidate, outcome)
              \/ \E record \in decisions : ApplyHumanDecision(version, record)
       PROVE  ResearchInv'
  BY <1>12, BuildDecisionStep, ApplyStep
<1> QED BY <1>1, <1>3, <1>4, <1>5, <1>6, <1>7, <1>8, <1>9, <1>10, <1>11, <1>12 DEF ResearchNext

\* In whatever order a researcher calls: her reports and her evidence are those of candles that were
\* recorded when she asked, every candidate stands on a baseline and legal deltas, and every version
\* of it has the states before its own behind it (evaluate_config, build_candidate, state.py).
THEOREM ResearchIsSound == ResearchSpec => []ResearchInv
<1>1. ResearchInit => ResearchInv
  BY ResearchBegins
<1>2. ResearchInv /\ [ResearchNext]_researched => ResearchInv'
  BY ResearchNextKeeps
<1> QED BY <1>1, <1>2, PTL DEF ResearchSpec

-----------------------------------------------------------------------------
(* More candles, the same windows.                                         *)

\* The reports of more candles begin with those of fewer.
LEMMA LongerReports ==
    ASSUME NEW m \in Markets, NEW group \in Groups, NEW c, NEW fewer, NEW more,
           AreLengths(fewer, m), AreLengths(more, m), \A key \in Keys : fewer[key] <= more[key]
    PROVE  LET earlier == ReportsFor(m, group, fewer, c).robustness.results
               later == ReportsFor(m, group, more, c).robustness.results
           IN  \A i \in DOMAIN earlier :
                  /\ IsPrefix(earlier[i].windows, later[i].windows)
                  /\ IsPrefix(earlier[i].regimes, later[i].regimes)
<1> DEFINE n == Len(KeysIn(group))
           ResultAt(lengths, i) ==
               EvaluateDataset(DatasetFrom(m, ItsSeries(group, i), lengths), c, Protocol.settings)
<1>1. n \in Nat /\ \A i \in 1 .. n : ItsSeries(group, i) \in Series
  BY KeysAre DEF Groups
<1>2. ASSUME NEW lengths
      PROVE  LET results == ReportsFor(m, group, lengths, c).robustness.results
             IN  /\ DOMAIN results = 1 .. n
                 /\ \A i \in 1 .. n : results[i] = ResultAt(lengths, i)
  <2> DEFINE datasets == DatasetsFrom(m, group, lengths)
             f == [i \in DOMAIN datasets |-> EvaluateDataset(datasets[i], c, Protocol.settings)]
             results == ReportsFor(m, group, lengths, c).robustness.results
  <2>1. results = Listed(f)
    BY DEF ReportsFor, ReportsOf, Robustness, ReportResults, RobustnessReport
  <2>2. DOMAIN datasets = 1 .. n
    BY DatasetsAre DEF Groups
  <2>3. IsList(f, n) /\ \A i \in 1 .. n : f[i] = ResultAt(lengths, i)
    BY <2>2 DEF IsList, DatasetsFrom
  <2> HIDE DEF f, results, n
  <2>4. Listed(f) = f /\ DOMAIN f = 1 .. n
    BY <1>1, <2>3, ListedIs
  <2>5. DOMAIN results = 1 .. n /\ \A i \in 1 .. n : results[i] = ResultAt(lengths, i)
    BY <2>1, <2>3, <2>4
  <2> QED BY <2>5 DEF results
<1>3. ASSUME NEW i \in 1 .. n
      PROVE  /\ IsPrefix(ResultAt(fewer, i).windows, ResultAt(more, i).windows)
             /\ IsPrefix(ResultAt(fewer, i).regimes, ResultAt(more, i).regimes)
  <2> DEFINE series == ItsSeries(group, i)
             h == SubSeq(m[series.key], 1, more[series.key])
             k == fewer[series.key]
  <2>1. series.key \in Keys
    BY <1>1 DEF Keys
  <2>2. m[series.key] \in Seq(Prices) /\ Len(m[series.key]) \in Nat
    BY <2>1, MarketIs
  <2>3. /\ k \in Nat /\ more[series.key] \in Nat /\ k <= more[series.key]
        /\ more[series.key] <= Len(m[series.key])
    BY <2>1 DEF AreLengths
  <2>4. h \in Seq(Prices) /\ Len(h) = more[series.key]
    <3> DEFINE x == m[series.key]
               y == more[series.key]
    <3>1. x \in Seq(Prices) /\ y \in 0 .. Len(x)
      BY <2>2, <2>3
    <3> HIDE DEF x, y
    <3>2. SubSeq(x, 1, y) \in Seq(Prices) /\ Len(SubSeq(x, 1, y)) = y
      BY <3>1
    <3> QED BY <3>2 DEF x, y
  <2>5. SubSeq(h, 1, k) = SubSeq(m[series.key], 1, k) /\ k \in 0 .. Len(h)
    <3> DEFINE x == m[series.key]
               y == more[series.key]
    <3>1. x \in Seq(Prices) /\ y \in 0 .. Len(x) /\ k \in Nat /\ k <= y
      BY <2>2, <2>3
    <3> HIDE DEF x, y, k
    <3>2. SubSeq(SubSeq(x, 1, y), 1, k) = SubSeq(x, 1, k)
      BY <3>1, PartOfAPart
    <3>3. k \in 0 .. Len(h)
      BY <2>3, <2>4
    <3> QED BY <3>2, <3>3 DEF x, y
  <2>6. /\ DatasetFrom(m, series, more) = DatasetWith(series, h)
        /\ DatasetFrom(m, series, fewer) = DatasetWith(series, SubSeq(h, 1, k))
    BY <2>5 DEF DatasetFrom
  <2> HIDE DEF series, h, k
  <2> QED BY <2>4, <2>5, <2>6, ResultsStay DEF series
<1> HIDE DEF ResultAt, n
<1> QED BY <1>2, <1>3

\* More history adds windows and regimes to a report and changes none it had (plan_windows,
\* RegimeAnalyzer): an action property of the research.
THEOREM WindowsStay == ResearchSpec => WindowsIgnoreTheFuture
<1> DEFINE Stays ==
        evaluation.outcome = "reports" /\ evaluation'.outcome = "reports"
        /\ evaluation'.configuration = evaluation.configuration
        /\ evaluation'.group = evaluation.group
        => \A i \in DOMAIN evaluation.reports.robustness.results :
              LET earlier == evaluation.reports.robustness.results[i]
                  later == evaluation'.reports.robustness.results[i]
              IN  IsPrefix(earlier.windows, later.windows)
                  /\ IsPrefix(earlier.regimes, later.regimes)
<1>1. ASSUME ResearchInv, ResearchInv', [ResearchNext]_researched
      PROVE  [Stays]_evaluation
  <2> SUFFICES ASSUME evaluation' # evaluation, evaluation.outcome = "reports",
                      evaluation'.outcome = "reports",
                      evaluation'.configuration = evaluation.configuration,
                      evaluation'.group = evaluation.group
               PROVE  \A i \in DOMAIN evaluation.reports.robustness.results :
                         LET earlier == evaluation.reports.robustness.results[i]
                             later == evaluation'.reports.robustness.results[i]
                         IN  IsPrefix(earlier.windows, later.windows)
                             /\ IsPrefix(earlier.regimes, later.regimes)
    OBVIOUS
  <2>1. market' = market /\ recorded' = recorded /\ evaluation'.recorded = recorded
    <3>1. ASSUME NEW subject, NEW baseline, NEW group \in Groups, NEW c,
                 Evaluate(subject, baseline, group, c)
          PROVE  market' = market /\ recorded' = recorded /\ evaluation'.recorded = recorded
      BY <3>1, EvaluateIs
    <3>2. ASSUME NEW baseline, NEW group \in SUBSET Series \ {{}},
                 EvaluateBaseline(baseline, group)
          PROVE  market' = market /\ recorded' = recorded /\ evaluation'.recorded = recorded
      BY <3>1, <3>2 DEF EvaluateBaseline, Groups
    <3>3. ASSUME NEW candidate, NEW baseline, EvaluateCandidate(candidate, baseline, Series)
          PROVE  market' = market /\ recorded' = recorded /\ evaluation'.recorded = recorded
      BY <3>1, <3>3 DEF EvaluateCandidate, Groups
    <3>4. \/ \E baseline \in Baselines, group \in SUBSET Series \ {{}} :
                EvaluateBaseline(baseline, group)
          \/ \E candidate \in {version.candidate : version \in versions}, baseline \in Baselines :
                EvaluateCandidate(candidate, baseline, Series)
      BY <1>1 DEF ResearchNext, researched, Grow, GenerateHypotheses, ConfirmHypothesis,
             BuildHypothesis, CreateCandidate, BuildCandidate, Transition, StartExperiment,
             FinishExperiment, BuildDecision, ApplyHumanDecision
    <3> QED BY <3>2, <3>3, <3>4
  <2>2. /\ IsEvaluation(evaluation, market) /\ IsEvaluation(evaluation', market)
        /\ \A key \in Keys : evaluation.recorded[key] <= recorded[key]
        /\ market \in Markets
    <3>1. EvaluationInv /\ EvaluationInv' /\ market \in Markets
      BY <1>1 DEF ResearchInv, MarketInv
    <3>2. evaluation.outcome # "none" /\ evaluation'.outcome # "none"
      OBVIOUS
    <3>3. IsEvaluation(evaluation', market')
      BY <3>1, <3>2 DEF EvaluationInv
    <3>4. IsEvaluation(evaluation', market)
      BY <2>1, <3>3
    <3> QED BY <3>1, <3>2, <3>4 DEF EvaluationInv
  <2>3. /\ evaluation.reports
              = ReportsFor(market, evaluation.group, evaluation.recorded, evaluation.configuration)
        /\ evaluation'.reports
              = ReportsFor(market, evaluation.group, recorded, evaluation.configuration)
        /\ evaluation.group \in Groups
        /\ AreLengths(evaluation.recorded, market) /\ AreLengths(recorded, market)
    BY <2>1, <2>2 DEF IsEvaluation
  <2> QED BY <2>2, <2>3, LongerReports
<1>2. ResearchSpec => []ResearchInv
  BY ResearchIsSound
<1> QED BY <1>1, <1>2, PTL DEF ResearchSpec, WindowsIgnoreTheFuture

\* Every APPROVED or REJECTED version has a human's record of that outcome and all four states of
\* the way of its candidate behind it, whenever the record was built and whichever old version it is
\* applied to (transition, build_decision, apply_human_decision).
THEOREM DecisionsFollowReviews == ResearchSpec => []DecidedAfterReview
<1>1. ResearchInv => DecidedAfterReview
  <2> SUFFICES ASSUME ResearchInv, NEW version \in versions, version.status \in HumanOnly
               PROVE  /\ [candidate |-> version.candidate, decision |-> version.status] \in decisions
                      /\ \A status \in {"PROPOSED", "EXPERIMENTAL", "EVALUATED", "REVIEW_REQUIRED"} :
                            Version(version.candidate, status) \in versions
    BY DEF DecidedAfterReview
  <2>1. Behind[version.status] = {"PROPOSED", "EXPERIMENTAL", "EVALUATED", "REVIEW_REQUIRED"}
    BY DEF Behind, HumanOnly
  <2> QED BY <2>1 DEF ResearchInv, VersionsInv
<1> QED BY <1>1, ResearchIsSound, PTL

-----------------------------------------------------------------------------
(* Totals.                                                                 *)

\* f adds up the first n values.
Adds(f, values, n) == f = [k \in 0 .. n |-> IF k = 0 THEN 0 ELSE f[k - 1] + values[k]]

\* There is such a function.
LEMMA SumsExist == ASSUME NEW values PROVE \A n \in Nat : \E f : Adds(f, values, n)
<1> DEFINE S == {n \in Nat : \E f : Adds(f, values, n)}
<1>1. 0 \in S
  <2> DEFINE e == [k \in 0 .. 0 |-> 0]
             Step(k) == e[k - 1] + values[k]
  <2> HIDE DEF Step
  <2>1. e = [k \in 0 .. 0 |-> IF k = 0 THEN 0 ELSE Step(k)]
    OBVIOUS
  <2> HIDE DEF e
  <2>2. Adds(e, values, 0)
    BY <2>1 DEF Adds, Step
  <2> QED BY <2>2
<1>2. ASSUME NEW n \in Nat, n \in S PROVE n + 1 \in S
  <2>1. PICK f : Adds(f, values, n)
    BY <1>2
  <2> DEFINE Step(k, t) == t + values[k]
             g == [k \in 0 .. n + 1 |-> IF k = n + 1 THEN Step(k, f[n]) ELSE f[k]]
  <2>2. f = [k \in 0 .. n |-> IF k = 0 THEN 0 ELSE Step(k, f[k - 1])]
    BY <2>1 DEF Adds
  <2> HIDE DEF Step
  <2>3. ASSUME NEW k \in 0 .. n + 1
        PROVE  g[k] = IF k = 0 THEN 0 ELSE Step(k, g[k - 1])
    <3>1. CASE k = n + 1
      <4>1. n \in 0 .. n + 1 /\ n # n + 1 /\ k # 0 /\ k - 1 = n
        BY <3>1
      <4>2. g[n] = f[n] /\ g[k] = Step(k, f[n])
        BY <3>1, <4>1
      <4> QED BY <4>1, <4>2
    <3>2. CASE k \in 0 .. n
      <4>1. g[k] = f[k] /\ f[k] = IF k = 0 THEN 0 ELSE Step(k, f[k - 1])
        BY <2>2, <3>2
      <4>2. k # 0 => k - 1 \in 0 .. n
        BY <3>2
      <4>3. k # 0 => g[k - 1] = f[k - 1]
        BY <4>2
      <4> QED BY <4>1, <4>3
    <3> QED BY <3>1, <3>2
  <2>4. g = [k \in 0 .. n + 1 |-> g[k]]
    <3> DEFINE F(k) == IF k = n + 1 THEN Step(k, f[n]) ELSE f[k]
    <3>1. g = [k \in 0 .. n + 1 |-> F(k)]
      OBVIOUS
    <3> HIDE DEF F, g
    <3>2. DOMAIN g = 0 .. n + 1 /\ \A k \in 0 .. n + 1 : g[k] = F(k)
      BY <3>1
    <3> QED BY <3>1, <3>2
  <2> HIDE DEF g
  <2>5. g = [k \in 0 .. n + 1 |-> IF k = 0 THEN 0 ELSE Step(k, g[k - 1])]
    BY <2>3, <2>4
  <2>6. Adds(g, values, n + 1)
    BY <2>5 DEF Adds, Step
  <2> QED BY <2>6
<1> HIDE DEF S
<1>3. \A n \in Nat : n \in S
  BY <1>1, <1>2, Induction
<1> QED BY <1>3 DEF S

\* The total of no value is zero.
LEMMA NoTotal ==
    ASSUME NEW values, Len(values) = 0 PROVE Total(values) = 0
<1> DEFINE f == CHOOSE x : Adds(x, values, 0)
<1>1. Adds(f, values, 0)
  BY SumsExist
<1>2. Total(values) = f[0]
  BY DEF Total, Adds
<1> HIDE DEF f
<1> QED BY <1>1, <1>2 DEF Adds

\* One value more.
LEMMA OneMoreValue ==
    ASSUME NEW n \in Nat, NEW values, Len(values) = n + 1, NEW fewer, Len(fewer) = n,
           \A i \in 1 .. n : fewer[i] = values[i]
    PROVE  Total(values) = Total(fewer) + values[n + 1]
<1> DEFINE f == CHOOSE x : Adds(x, values, n + 1)
           g == CHOOSE x : Adds(x, fewer, n)
<1>1. Adds(f, values, n + 1) /\ Adds(g, fewer, n)
  <2>1. n + 1 \in Nat
    OBVIOUS
  <2> QED BY <2>1, SumsExist
<1>2. Total(values) = f[n + 1] /\ Total(fewer) = g[n]
  BY DEF Total, Adds
<1> HIDE DEF f, g
<1>3. \A k \in 0 .. n + 1 : f[k] = IF k = 0 THEN 0 ELSE f[k - 1] + values[k]
  BY <1>1 DEF Adds
<1>4. \A k \in 0 .. n : g[k] = IF k = 0 THEN 0 ELSE g[k - 1] + fewer[k]
  BY <1>1 DEF Adds
<1> DEFINE T == {k \in Nat : k \in 0 .. n => f[k] = g[k]}
<1>5. 0 \in T
  BY <1>3, <1>4
<1>6. ASSUME NEW k \in Nat, k \in T PROVE k + 1 \in T
  <2> SUFFICES ASSUME k + 1 \in 0 .. n PROVE f[k + 1] = g[k + 1]
    OBVIOUS
  <2>1. k \in 0 .. n /\ k + 1 # 0 /\ (k + 1) - 1 = k /\ k + 1 \in 1 .. n /\ k + 1 \in 0 .. n + 1
    OBVIOUS
  <2>2. f[k] = g[k] /\ fewer[k + 1] = values[k + 1]
    BY <1>6, <2>1
  <2> QED BY <1>3, <1>4, <2>1, <2>2
<1> HIDE DEF T
<1>7. n \in T
  BY <1>5, <1>6, Induction
<1>8. f[n] = g[n]
  BY <1>7 DEF T
<1>9. f[n + 1] = f[n] + values[n + 1]
  BY <1>3
<1> QED BY <1>2, <1>8, <1>9

\* The total of n values taken from a function.
TotalOf(f, n) == Total([i \in 1 .. n |-> f[i]])

LEMMA TotalOfSteps ==
    ASSUME NEW f
    PROVE  TotalOf(f, 0) = 0 /\ \A n \in Nat : TotalOf(f, n + 1) = TotalOf(f, n) + f[n + 1]
<1> DEFINE L(n) == [i \in 1 .. n |-> f[i]]
<1>1. ASSUME NEW n \in Nat PROVE Len(L(n)) = n /\ \A i \in 1 .. n : L(n)[i] = f[i]
  <2>1. IsList(L(n), n)
    BY DEF IsList
  <2> QED BY <2>1, ListIs
<1>2. TotalOf(f, 0) = 0
  <2>1. Len(L(0)) = 0
    BY <1>1
  <2> QED BY <2>1, NoTotal DEF TotalOf
<1>3. ASSUME NEW n \in Nat PROVE TotalOf(f, n + 1) = TotalOf(f, n) + f[n + 1]
  <2>1. /\ Len(L(n)) = n /\ \A i \in 1 .. n : L(n)[i] = f[i]
        /\ Len(L(n + 1)) = n + 1 /\ \A i \in 1 .. n + 1 : L(n + 1)[i] = f[i]
    <3>1. n + 1 \in Nat
      OBVIOUS
    <3> QED BY <1>1, <3>1
  <2>2. \A i \in 1 .. n : i \in 1 .. n + 1
    OBVIOUS
  <2>3. n + 1 \in 1 .. n + 1
    OBVIOUS
  <2> DEFINE a == L(n)
             b == L(n + 1)
  <2>4. TotalOf(f, n) = Total(a) /\ TotalOf(f, n + 1) = Total(b)
    BY DEF TotalOf
  <2>5. /\ Len(a) = n /\ Len(b) = n + 1 /\ \A i \in 1 .. n : a[i] = b[i]
        /\ b[n + 1] = f[n + 1]
    BY <2>1, <2>2, <2>3
  <2> HIDE DEF a, b
  <2>6. Total(b) = Total(a) + b[n + 1]
    BY <2>5, OneMoreValue
  <2> QED BY <2>4, <2>5, <2>6
<1> QED BY <1>2, <1>3

\* A list's total is that of its members.
LEMMA TotalIs ==
    ASSUME NEW s, NEW n \in Nat, IsList(s, n) PROVE Total(s) = TotalOf(s, n)
BY DEF TotalOf, IsList

\* Values that are the same have the same total, which is an integer.
LEMMA TotalsAgree ==
    ASSUME NEW f, NEW g, NEW n \in Nat, \A i \in 1 .. n : f[i] = g[i] /\ f[i] \in Int
    PROVE  TotalOf(f, n) = TotalOf(g, n) /\ TotalOf(f, n) \in Int
<1> DEFINE T == {k \in Nat : k <= n => TotalOf(f, k) = TotalOf(g, k) /\ TotalOf(f, k) \in Int}
<1>1. 0 \in T
  BY TotalOfSteps
<1>2. ASSUME NEW k \in Nat, k \in T PROVE k + 1 \in T
  <2> SUFFICES ASSUME k + 1 <= n
               PROVE  TotalOf(f, k + 1) = TotalOf(g, k + 1) /\ TotalOf(f, k + 1) \in Int
    OBVIOUS
  <2>1. TotalOf(f, k) = TotalOf(g, k) /\ TotalOf(f, k) \in Int
    BY <1>2
  <2>2. f[k + 1] = g[k + 1] /\ f[k + 1] \in Int
    OBVIOUS
  <2>3. /\ TotalOf(f, k + 1) = TotalOf(f, k) + f[k + 1]
        /\ TotalOf(g, k + 1) = TotalOf(g, k) + g[k + 1]
    BY TotalOfSteps
  <2> QED BY <2>1, <2>2, <2>3
<1> HIDE DEF T
<1>3. n \in T
  BY <1>1, <1>2, Induction
<1> QED BY <1>3 DEF T

\* The values of two lists, added one by one.
LEMMA TotalsAdd ==
    ASSUME NEW f, NEW g, NEW h, NEW n \in Nat,
           \A i \in 1 .. n : f[i] \in Int /\ g[i] \in Int /\ h[i] = f[i] + g[i]
    PROVE  TotalOf(h, n) = TotalOf(f, n) + TotalOf(g, n)
<1> DEFINE T == {k \in Nat : k <= n => /\ TotalOf(h, k) = TotalOf(f, k) + TotalOf(g, k)
                                       /\ TotalOf(f, k) \in Int /\ TotalOf(g, k) \in Int}
<1>1. 0 \in T
  BY TotalOfSteps
<1>2. ASSUME NEW k \in Nat, k \in T PROVE k + 1 \in T
  <2> SUFFICES ASSUME k + 1 <= n
               PROVE  /\ TotalOf(h, k + 1) = TotalOf(f, k + 1) + TotalOf(g, k + 1)
                      /\ TotalOf(f, k + 1) \in Int /\ TotalOf(g, k + 1) \in Int
    OBVIOUS
  <2>1. /\ TotalOf(h, k) = TotalOf(f, k) + TotalOf(g, k)
        /\ TotalOf(f, k) \in Int /\ TotalOf(g, k) \in Int
    BY <1>2
  <2>2. f[k + 1] \in Int /\ g[k + 1] \in Int /\ h[k + 1] = f[k + 1] + g[k + 1]
    OBVIOUS
  <2>3. /\ TotalOf(f, k + 1) = TotalOf(f, k) + f[k + 1]
        /\ TotalOf(g, k + 1) = TotalOf(g, k) + g[k + 1]
        /\ TotalOf(h, k + 1) = TotalOf(h, k) + h[k + 1]
    BY TotalOfSteps
  <2> QED BY <2>1, <2>2, <2>3
<1> HIDE DEF T
<1>3. n \in T
  BY <1>1, <1>2, Induction
<1> QED BY <1>3 DEF T

\* A single value that is not zero is the total.
LEMMA OneValue ==
    ASSUME NEW f, NEW n \in Nat, NEW p \in 1 .. n, f[p] \in Int,
           \A i \in 1 .. n : i # p => f[i] = 0
    PROVE  TotalOf(f, n) = f[p]
<1> DEFINE T == {k \in Nat : k <= n => TotalOf(f, k) = IF p <= k THEN f[p] ELSE 0}
<1>1. 0 \in T
  BY TotalOfSteps
<1>2. ASSUME NEW k \in Nat, k \in T PROVE k + 1 \in T
  <2> SUFFICES ASSUME k + 1 <= n PROVE TotalOf(f, k + 1) = IF p <= k + 1 THEN f[p] ELSE 0
    OBVIOUS
  <2>1. TotalOf(f, k) = IF p <= k THEN f[p] ELSE 0
    BY <1>2
  <2>2. TotalOf(f, k + 1) = TotalOf(f, k) + f[k + 1]
    BY TotalOfSteps
  <2>3. k + 1 # p => f[k + 1] = 0
    OBVIOUS
  <2> QED BY <2>1, <2>2, <2>3
<1> HIDE DEF T
<1>3. n \in T
  BY <1>1, <1>2, Induction
<1> QED BY <1>3 DEF T

LEMMA NoValue ==
    ASSUME NEW f, NEW n \in Nat, \A i \in 1 .. n : f[i] = 0 PROVE TotalOf(f, n) = 0
<1> DEFINE T == {k \in Nat : k <= n => TotalOf(f, k) = 0}
<1>1. 0 \in T
  BY TotalOfSteps
<1>2. ASSUME NEW k \in Nat, k \in T PROVE k + 1 \in T
  BY <1>2, TotalOfSteps
<1> HIDE DEF T
<1>3. n \in T
  BY <1>1, <1>2, Induction
<1> QED BY <1>3 DEF T

\* A total below zero has a value below zero.
LEMMA NegativeTotal ==
    ASSUME NEW f, NEW n \in Nat, \A i \in 1 .. n : f[i] \in Int, TotalOf(f, n) < 0
    PROVE  \E i \in 1 .. n : f[i] < 0
<1> SUFFICES ASSUME \A i \in 1 .. n : f[i] >= 0 PROVE FALSE
  OBVIOUS
<1> DEFINE T == {k \in Nat : k <= n => TotalOf(f, k) \in Nat}
<1>1. 0 \in T
  BY TotalOfSteps
<1>2. ASSUME NEW k \in Nat, k \in T PROVE k + 1 \in T
  <2> SUFFICES ASSUME k + 1 <= n PROVE TotalOf(f, k + 1) \in Nat
    OBVIOUS
  <2>1. TotalOf(f, k) \in Nat /\ f[k + 1] \in Int /\ f[k + 1] >= 0
    BY <1>2
  <2>2. TotalOf(f, k + 1) = TotalOf(f, k) + f[k + 1]
    BY TotalOfSteps
  <2> QED BY <2>1, <2>2
<1> HIDE DEF T
<1>3. n \in T
  BY <1>1, <1>2, Induction
<1> QED BY <1>3 DEF T

\* The greatest index comes last.
LEMMA GreatestComesLast ==
    ASSUME NEW n \in Nat, NEW J \in SUBSET (1 .. n)
    PROVE  LET I == J \union {n + 1}
               m == Cardinality(J)
           IN  /\ m \in Nat /\ Cardinality(I) = m + 1
               /\ \A k \in 1 .. m : Ascending(I)[k] = Ascending(J)[k] /\ Ascending(J)[k] \in J
               /\ Ascending(I)[m + 1] = n + 1
<1> DEFINE I == J \union {n + 1}
           m == Cardinality(J)
<1>1. IsFiniteSet(J) /\ m \in Nat /\ J \in SUBSET Nat
  BY IndexSet
<1>2. I \in SUBSET (1 .. n + 1) /\ n + 1 \in Nat /\ n + 1 \notin J
  OBVIOUS
<1>3. IsFiniteSet(I) /\ I \in SUBSET Nat
  <2> HIDE DEF I
  <2>1. IsFiniteSet(I)
    BY <1>2, IndexSet
  <2> QED BY <1>2, <2>1
<1>4. Cardinality(I) = m + 1
  BY <1>1, <1>2, FS_AddElement
<1>5. \A x \in J : Under(I, x) = Under(J, x)
  <2> SUFFICES ASSUME NEW x \in J PROVE Under(I, x) = Under(J, x)
    OBVIOUS
  <2>1. x \in Nat /\ ~ (n + 1 < x)
    OBVIOUS
  <2> QED BY <2>1 DEF Under
<1>6. Under(I, n + 1) = J
  <2>1. \A x \in J : x < n + 1
    OBVIOUS
  <2>2. ~ (n + 1 < n + 1)
    OBVIOUS
  <2> QED BY <2>1, <2>2 DEF Under
<1> HIDE DEF I, m
<1>7. /\ Ascending(J) \in [1 .. m -> J]
      /\ \A k \in 1 .. m : Cardinality(Under(J, Ascending(J)[k])) = k - 1
  BY <1>1, AscendingLists DEF m
<1>8. /\ Ascending(I) \in [1 .. m + 1 -> I]
      /\ \A k \in 1 .. m + 1 : Cardinality(Under(I, Ascending(I)[k])) = k - 1
  BY <1>3, <1>4, AscendingLists
<1>9. ASSUME NEW x \in I, NEW y \in I, Cardinality(Under(I, x)) = Cardinality(Under(I, y))
      PROVE  x = y
  <2>1. x \in Nat /\ y \in Nat
    BY <1>3
  <2>2. CASE x < y
    BY <1>3, <1>9, <2>2, RankGrows
  <2>3. CASE y < x
    BY <1>3, <1>9, <2>3, RankGrows
  <2> QED BY <2>1, <2>2, <2>3
<1>10. ASSUME NEW k \in 1 .. m PROVE Ascending(I)[k] = Ascending(J)[k] /\ Ascending(J)[k] \in J
  <2> DEFINE x == Ascending(I)[k]
             y == Ascending(J)[k]
  <2>1. k \in 1 .. m + 1
    BY <1>1
  <2>2. x \in I /\ Cardinality(Under(I, x)) = k - 1
    BY <1>8, <2>1
  <2>3. y \in J /\ Cardinality(Under(J, y)) = k - 1
    BY <1>7
  <2>4. y \in I /\ Under(I, y) = Under(J, y)
    BY <1>5, <2>3 DEF I
  <2> HIDE DEF x, y
  <2> QED BY <1>9, <2>2, <2>3, <2>4 DEF x, y
<1>11. Ascending(I)[m + 1] = n + 1
  <2> DEFINE x == Ascending(I)[m + 1]
             y == n + 1
  <2>1. m + 1 \in 1 .. m + 1 /\ (m + 1) - 1 = m
    BY <1>1
  <2>2. x \in I /\ Cardinality(Under(I, x)) = m
    BY <1>8, <2>1
  <2>3. y \in I /\ Cardinality(Under(I, y)) = m
    BY <1>6 DEF m, I
  <2> HIDE DEF x, y
  <2> QED BY <1>9, <2>2, <2>3 DEF x, y
<1> QED BY <1>1, <1>4, <1>10, <1>11 DEF I, m

\* The total of what is picked is that of the values at the indices.
LEMMA PickedTotal ==
    ASSUME NEW v, NEW n \in Nat, \A i \in 1 .. n : v[i] \in Int, NEW indices \in SUBSET (1 .. n)
    PROVE  LET m == Cardinality(indices)
           IN  TotalOf([k \in 1 .. m |-> v[Ascending(indices)[k]]], m)
                  = TotalOf([i \in 1 .. n |-> IF i \in indices THEN v[i] ELSE 0], n)
<1> DEFINE A(I) == [k \in 1 .. Cardinality(I) |-> v[Ascending(I)[k]]]
           B(I) == [i \in 1 .. n |-> IF i \in I THEN v[i] ELSE 0]
           Goal(j, I) == TotalOf(A(I), Cardinality(I)) = TotalOf(B(I), j)
           T == {j \in Nat : j <= n => \A I \in SUBSET (1 .. j) : Goal(j, I)}
<1>1. 0 \in T
  <2> SUFFICES ASSUME NEW I \in SUBSET (1 .. 0) PROVE Goal(0, I)
    OBVIOUS
  <2>1. I = {}
    OBVIOUS
  <2>2. Cardinality(I) = 0
    BY <2>1, FS_EmptySet
  <2> HIDE DEF A, B
  <2> QED BY <2>2, TotalOfSteps
<1>2. ASSUME NEW j \in Nat, j \in T PROVE j + 1 \in T
  <2> SUFFICES ASSUME j + 1 <= n, NEW I \in SUBSET (1 .. j + 1) PROVE Goal(j + 1, I)
    OBVIOUS
  <2>1. \A K \in SUBSET (1 .. j) : Goal(j, K)
    BY <1>2
  <2>2. j + 1 \in 1 .. n /\ v[j + 1] \in Int
    OBVIOUS
  <2>3. CASE j + 1 \notin I
    <3>1. I \in SUBSET (1 .. j)
      BY <2>3
    <3>2. Goal(j, I)
      BY <2>1, <3>1
    <3>3. B(I)[j + 1] = 0
      BY <2>2, <2>3
    <3>4. TotalOf(B(I), j) \in Int
      <4>1. \A i \in 1 .. j : B(I)[i] \in Int
        OBVIOUS
      <4> HIDE DEF B
      <4> QED BY <4>1, TotalsAgree
    <3>5. TotalOf(B(I), j + 1) = TotalOf(B(I), j) + B(I)[j + 1]
      BY TotalOfSteps
    <3> HIDE DEF A, B
    <3> QED BY <3>2, <3>3, <3>4, <3>5
  <2>4. CASE j + 1 \in I
    <3> DEFINE J == I \ {j + 1}
               m == Cardinality(J)
    <3>1. J \in SUBSET (1 .. j) /\ I = J \union {j + 1}
      BY <2>4
    <3>2. /\ m \in Nat /\ Cardinality(I) = m + 1
          /\ \A k \in 1 .. m : Ascending(I)[k] = Ascending(J)[k] /\ Ascending(J)[k] \in J
          /\ Ascending(I)[m + 1] = j + 1
      <4> HIDE DEF J
      <4> QED BY <3>1, GreatestComesLast
    <3>3. Goal(j, J)
      BY <2>1, <3>1
    <3> HIDE DEF J, m
    <3>4. A(I)[m + 1] = v[j + 1]
      BY <3>2
    <3>5. TotalOf(A(I), m + 1) = TotalOf(A(I), m) + A(I)[m + 1]
      BY <3>2, TotalOfSteps
    <3>6. TotalOf(A(I), m) = TotalOf(A(J), m)
      <4>1. \A k \in 1 .. m : A(J)[k] = A(I)[k] /\ A(J)[k] \in Int
        <5> SUFFICES ASSUME NEW k \in 1 .. m PROVE A(J)[k] = A(I)[k] /\ A(J)[k] \in Int
          OBVIOUS
        <5>1. k \in 1 .. m + 1
          BY <3>2
        <5>2. Ascending(I)[k] = Ascending(J)[k] /\ Ascending(J)[k] \in 1 .. n
          <6>1. Ascending(I)[k] = Ascending(J)[k] /\ Ascending(J)[k] \in 1 .. j
            BY <3>1, <3>2
          <6> QED BY <2>1, <6>1
        <5>3. A(I)[k] = v[Ascending(I)[k]] /\ A(J)[k] = v[Ascending(J)[k]]
          BY <3>2, <5>1 DEF m
        <5> HIDE DEF A
        <5> QED BY <5>2, <5>3
      <4> HIDE DEF A
      <4> QED BY <3>2, <4>1, TotalsAgree
    <3>7. TotalOf(B(I), j + 1) = TotalOf(B(I), j) + v[j + 1]
      <4>1. B(I)[j + 1] = v[j + 1]
        BY <2>2, <2>4
      <4> HIDE DEF B
      <4> QED BY <4>1, TotalOfSteps
    <3>8. TotalOf(B(I), j) = TotalOf(B(J), j)
      <4>1. \A i \in 1 .. j : B(I)[i] = B(J)[i] /\ B(I)[i] \in Int
        BY <3>1
      <4> HIDE DEF B
      <4> QED BY <4>1, TotalsAgree
    <3> HIDE DEF A, B
    <3> QED BY <3>2, <3>3, <3>4, <3>5, <3>6, <3>7, <3>8 DEF m
  <2> QED BY <2>3, <2>4
<1> HIDE DEF T
<1>3. n \in T
  BY <1>1, <1>2, Induction
<1>4. Goal(n, indices)
  BY <1>3 DEF T
<1> QED BY <1>4

\* Every value is shared out to the part of its name, and the parts are summed up.
Shares(sums, parts, order, m, names, v, n) ==
    /\ \A i \in 1 .. n : \E k \in 1 .. m : order[k] = names[i]
    /\ \A j, k \in 1 .. m : order[j] = order[k] => j = k
    /\ \A k \in 1 .. m, i \in 1 .. n : parts[k][i] = IF names[i] = order[k] THEN v[i] ELSE 0
    /\ \A k \in 1 .. m : sums[k] = TotalOf(parts[k], n)

\* Every value is added in the group of its name, and in no other.
LEMMA GroupTotals ==
    ASSUME NEW v, NEW n \in Nat, \A i \in 1 .. n : v[i] \in Int, NEW m \in Nat,
           NEW sums, NEW parts, NEW order, NEW names, Shares(sums, parts, order, m, names, v, n)
    PROVE  TotalOf(sums, m) = TotalOf(v, n)
<1> USE DEF Shares
<1> DEFINE Own(k) == [i \in 1 .. n |-> IF names[i] = order[k] THEN v[i] ELSE 0]
           SumsAt(j) == [k \in 1 .. m |-> TotalOf(Own(k), j)]
           T == {j \in Nat : j <= n => TotalOf(SumsAt(j), m) = TotalOf(v, j) /\ TotalOf(v, j) \in Int}
<1>1. 0 \in T
  <2>1. \A k \in 1 .. m : SumsAt(0)[k] = 0
    <3> HIDE DEF Own
    <3> QED BY TotalOfSteps
  <2> HIDE DEF SumsAt
  <2>2. TotalOf(SumsAt(0), m) = 0
    BY <2>1, NoValue
  <2> QED BY <2>2, TotalOfSteps
<1>2. ASSUME NEW j \in Nat, j \in T PROVE j + 1 \in T
  <2> SUFFICES ASSUME j + 1 <= n
               PROVE  TotalOf(SumsAt(j + 1), m) = TotalOf(v, j + 1) /\ TotalOf(v, j + 1) \in Int
    OBVIOUS
  <2>1. TotalOf(SumsAt(j), m) = TotalOf(v, j) /\ TotalOf(v, j) \in Int
    BY <1>2
  <2>2. j + 1 \in 1 .. n /\ v[j + 1] \in Int
    OBVIOUS
  <2>3. PICK p \in 1 .. m : order[p] = names[j + 1]
    BY <2>2
  <2> DEFINE delta == [k \in 1 .. m |-> IF k = p THEN v[j + 1] ELSE 0]
  <2>4. ASSUME NEW k \in 1 .. m PROVE Own(k)[j + 1] = delta[k]
    BY <2>2, <2>3
  <2>5. ASSUME NEW k \in 1 .. m
        PROVE  /\ SumsAt(j + 1)[k] = SumsAt(j)[k] + delta[k] /\ SumsAt(j)[k] \in Int
               /\ delta[k] \in Int
    <3>1. TotalOf(Own(k), j + 1) = TotalOf(Own(k), j) + Own(k)[j + 1]
      <4> HIDE DEF Own
      <4> QED BY TotalOfSteps
    <3>2. TotalOf(Own(k), j) \in Int
      <4>1. \A i \in 1 .. j : Own(k)[i] \in Int
        OBVIOUS
      <4> HIDE DEF Own
      <4> QED BY <4>1, TotalsAgree
    <3>3. delta[k] \in Int
      BY <2>2
    <3> HIDE DEF Own, delta
    <3> QED BY <2>4, <3>1, <3>2, <3>3
  <2>6. TotalOf(delta, m) = v[j + 1]
    <3>1. delta[p] = v[j + 1] /\ \A k \in 1 .. m : k # p => delta[k] = 0
      OBVIOUS
    <3> HIDE DEF delta
    <3> QED BY <2>2, <3>1, OneValue
  <2> DEFINE before == SumsAt(j)
             after == SumsAt(j + 1)
  <2> HIDE DEF delta, before, after
  <2>7. TotalOf(after, m) = TotalOf(before, m) + TotalOf(delta, m)
    <3>1. \A k \in 1 .. m : before[k] \in Int /\ delta[k] \in Int /\ after[k] = before[k] + delta[k]
      BY <2>5 DEF before, after
    <3> QED BY <3>1, TotalsAdd
  <2>8. TotalOf(v, j + 1) = TotalOf(v, j) + v[j + 1]
    BY TotalOfSteps
  <2>9. TotalOf(before, m) = TotalOf(v, j)
    BY <2>1 DEF before
  <2>10. TotalOf(after, m) = TotalOf(v, j + 1) /\ TotalOf(v, j + 1) \in Int
    BY <2>1, <2>2, <2>6, <2>7, <2>8, <2>9
  <2> QED BY <2>10 DEF after
<1> HIDE DEF T
<1>3. n \in T
  BY <1>1, <1>2, Induction
<1>4. TotalOf(SumsAt(n), m) = TotalOf(v, n)
  BY <1>3 DEF T
<1>5. \A k \in 1 .. m : sums[k] = SumsAt(n)[k] /\ sums[k] \in Int
  <2> SUFFICES ASSUME NEW k \in 1 .. m PROVE sums[k] = SumsAt(n)[k] /\ sums[k] \in Int
    OBVIOUS
  <2>1. \A i \in 1 .. n : Own(k)[i] = parts[k][i] /\ Own(k)[i] \in Int
    OBVIOUS
  <2> DEFINE own == Own(k)
             part == parts[k]
  <2>4. \A i \in 1 .. n : own[i] = part[i] /\ own[i] \in Int
    BY <2>1
  <2> HIDE DEF own, part
  <2>2. TotalOf(own, n) = TotalOf(part, n) /\ TotalOf(own, n) \in Int
    BY <2>4, TotalsAgree
  <2>3. SumsAt(n)[k] = TotalOf(own, n)
    BY DEF own
  <2> QED BY <2>2, <2>3 DEF part
<1> DEFINE all == SumsAt(n)
<1>7. \A k \in 1 .. m : sums[k] = all[k] /\ sums[k] \in Int
  BY <1>5
<1> HIDE DEF all
<1>6. TotalOf(sums, m) = TotalOf(all, m)
  BY <1>7, TotalsAgree
<1> QED BY <1>4, <1>6 DEF all

\* A count is the total of ones.
LEMMA CountIsTotal ==
    ASSUME NEW n \in Nat, NEW I \in SUBSET (1 .. n)
    PROVE  Cardinality(I) = TotalOf([i \in 1 .. n |-> IF i \in I THEN 1 ELSE 0], n)
<1> DEFINE one == [i \in 1 .. n |-> 1]
           m == Cardinality(I)
           ones == [k \in 1 .. m |-> one[Ascending(I)[k]]]
<1>1. m \in Nat /\ Ascending(I) \in [1 .. m -> I]
  <2>1. IsFiniteSet(I) /\ I \in SUBSET Nat
    BY IndexSet
  <2> QED BY <2>1, AscendingLists
<1>2. \A k \in 1 .. m : ones[k] = 1
  <2> HIDE DEF m
  <2> QED BY <1>1
<1>3. TotalOf(ones, m) = TotalOf([i \in 1 .. n |-> IF i \in I THEN one[i] ELSE 0], n)
  <2>1. \A i \in 1 .. n : one[i] \in Int
    OBVIOUS
  <2> HIDE DEF one
  <2> QED BY <2>1, PickedTotal
<1> HIDE DEF ones, m
<1> DEFINE S == {j \in Nat : j <= m => TotalOf(ones, j) = j}
<1>4. 0 \in S
  BY TotalOfSteps
<1>5. ASSUME NEW j \in Nat, j \in S PROVE j + 1 \in S
  <2> SUFFICES ASSUME j + 1 <= m PROVE TotalOf(ones, j + 1) = j + 1
    OBVIOUS
  <2>1. TotalOf(ones, j) = j /\ j + 1 \in 1 .. m
    BY <1>1, <1>5
  <2>2. TotalOf(ones, j + 1) = TotalOf(ones, j) + ones[j + 1]
    BY TotalOfSteps
  <2> QED BY <1>2, <2>1, <2>2
<1> HIDE DEF S
<1>6. m \in S
  BY <1>1, <1>4, <1>5, Induction
<1>7. TotalOf(ones, m) = m
  BY <1>1, <1>6 DEF S
<1>8. TotalOf([i \in 1 .. n |-> IF i \in I THEN one[i] ELSE 0], n)
         = TotalOf([i \in 1 .. n |-> IF i \in I THEN 1 ELSE 0], n)
  <2> DEFINE a == [i \in 1 .. n |-> IF i \in I THEN one[i] ELSE 0]
             b == [i \in 1 .. n |-> IF i \in I THEN 1 ELSE 0]
  <2>1. \A i \in 1 .. n : a[i] = b[i] /\ a[i] \in Int
    OBVIOUS
  <2> HIDE DEF a, b
  <2>2. TotalOf(a, n) = TotalOf(b, n)
    BY <2>1, TotalsAgree
  <2> QED BY <2>2 DEF a, b
<1> QED BY <1>3, <1>7, <1>8 DEF m

-----------------------------------------------------------------------------
(* The rows of a replay.                                                   *)

\* Candles of a market that the chain analyses under a detection setting.
Legible(q, detection) ==
    /\ q \in Seq(Prices)
    /\ \A i, j \in 1 .. Len(q) : i < j => q[i].openedAt < q[j].openedAt
    /\ \A i \in 1 .. Len(q) :
          /\ Score(SubSeq(q, 1, i), detection) \in Nat
          /\ Labels(SubSeq(q, 1, i), detection) \in DOMAIN Combination
          /\ q[i].openedAt \div MonthLength + 1 \in DOMAIN MonthNames

\* Two lists with the same members in the same places are one list.
LEMMA SameElements ==
    ASSUME NEW S, NEW x \in Seq(S), NEW y \in Seq(S), Len(x) = Len(y),
           \A k \in 1 .. Len(x) : x[k] = y[k]
    PROVE  x = y
OBVIOUS

\* The first members of a part.
LEMMA FirstOfAPart ==
    ASSUME NEW S, NEW h \in Seq(S), NEW a \in Nat \ {0}, NEW b \in Nat, a <= b, b <= Len(h),
           NEW i \in 1 .. b - a + 1
    PROVE  LET q == SubSeq(h, a, b)
           IN  /\ q \in Seq(S) /\ Len(q) = b - a + 1 /\ a + i - 1 \in 1 .. Len(h) /\ q[i] = h[a + i - 1]
               /\ SubSeq(q, 1, i) = SubSeq(h, a, a + i - 1)
<1> DEFINE q == SubSeq(h, a, b)
           e == a + i - 1
<1>1. /\ q \in Seq(S) /\ Len(q) = b - a + 1
      /\ \A k \in 1 .. b - a + 1 : q[k] = h[a + k - 1] /\ a + k - 1 \in 1 .. Len(h)
  OBVIOUS
<1>2. e \in Nat /\ a <= e /\ e <= Len(h) /\ e - a + 1 = i /\ Len(h) \in Nat
  BY <1>1
<1> HIDE DEF q
<1> DEFINE x == SubSeq(q, 1, i)
           y == SubSeq(h, a, e)
<1>3. x \in Seq(S) /\ Len(x) = i /\ \A k \in 1 .. i : x[k] = q[k]
  BY <1>1
<1> HIDE DEF e
<1>4. y \in Seq(S) /\ Len(y) = i /\ \A k \in 1 .. i : y[k] = h[a + k - 1]
  <2>1. y \in Seq(S)
    BY <1>2
  <2>2. Len(y) = e - a + 1
    BY <1>2
  <2>3. \A k \in 1 .. e - a + 1 : y[k] = h[a + k - 1]
    BY <1>2
  <2> HIDE DEF y
  <2> QED BY <1>2, <2>1, <2>2, <2>3
<1>5. \A k \in 1 .. i : k \in 1 .. b - a + 1
  OBVIOUS
<1> HIDE DEF x, y
<1>6. x = y
  <2>1. \A k \in 1 .. i : x[k] = y[k]
    BY <1>1, <1>3, <1>4, <1>5
  <2>2. x \in Seq(S) /\ y \in Seq(S) /\ Len(x) = Len(y) /\ Len(x) = i
    BY <1>3, <1>4
  <2>3. \A k \in 1 .. Len(x) : x[k] = y[k]
    BY <2>1, <2>2
  <2> QED BY <2>2, <2>3, SameElements
<1>7. i \in 1 .. b - a + 1 /\ q[i] = h[a + i - 1] /\ a + i - 1 \in 1 .. Len(h)
  BY <1>1
<1> QED BY <1>1, <1>6, <1>7 DEF q, x, y, e

LEMMA PartsAreLegible ==
    ASSUME NEW m \in Markets, NEW key \in Keys, NEW detection \in Detections,
           NEW a \in Nat \ {0}, NEW b \in Nat, b <= Len(m[key])
    PROVE  Legible(SubSeq(m[key], a, b), detection)
<1> DEFINE h == m[key]
           q == SubSeq(h, a, b)
<1>1. h \in Seq(Prices) /\ Len(h) \in Nat
  BY MarketIs
<1>2. /\ \A i, j \in DOMAIN h :
            /\ i < j => h[i].openedAt < h[j].openedAt
            /\ i <= j => /\ Score(SubSeq(h, i, j), detection) \in Nat
                         /\ Labels(SubSeq(h, i, j), detection) \in DOMAIN Combination
      /\ \A i \in DOMAIN h : h[i].openedAt \div MonthLength + 1 \in DOMAIN MonthNames
  BY MarketsAssumption
<1> HIDE DEF h
<1>3. CASE b < a
  <2>1. q = <<>>
    BY <1>1, <1>3
  <2>2. <<>> \in Seq(Prices) /\ Len(<<>>) = 0
    OBVIOUS
  <2> HIDE DEF q
  <2>3. Legible(q, detection)
    BY <2>1, <2>2 DEF Legible
  <2> QED BY <2>3 DEF q, h
<1>4. CASE a <= b
  <2> DEFINE n == b - a + 1
  <2>1. n \in Nat /\ n \in 1 .. n /\ b <= Len(h)
    BY <1>4 DEF h
  <2>2. q \in Seq(Prices) /\ Len(q) = n
    <3>1. n \in 1 .. b - a + 1
      BY <2>1
    <3> QED BY <1>1, <1>4, <2>1, <3>1, FirstOfAPart
  <2>3. ASSUME NEW i \in 1 .. n
        PROVE  /\ a + i - 1 \in DOMAIN h /\ a <= a + i - 1 /\ a \in DOMAIN h
               /\ q[i] = h[a + i - 1]
               /\ SubSeq(q, 1, i) = SubSeq(h, a, a + i - 1)
    <3>1. /\ a + i - 1 \in 1 .. Len(h) /\ q[i] = h[a + i - 1]
          /\ SubSeq(q, 1, i) = SubSeq(h, a, a + i - 1)
      BY <1>1, <1>4, <2>1, FirstOfAPart
    <3>2. a <= a + i - 1 /\ a \in 1 .. Len(h) /\ DOMAIN h = 1 .. Len(h)
      BY <1>1, <1>4, <2>1
    <3> QED BY <3>1, <3>2
  <2> HIDE DEF n, q
  <2>4. ASSUME NEW i \in 1 .. n, NEW j \in 1 .. n, i < j PROVE q[i].openedAt < q[j].openedAt
    <3>1. a + i - 1 < a + j - 1
      BY <2>1, <2>4
    <3> QED BY <1>2, <2>3, <3>1
  <2>5. \A i \in 1 .. n :
          /\ Score(SubSeq(q, 1, i), detection) \in Nat
          /\ Labels(SubSeq(q, 1, i), detection) \in DOMAIN Combination
          /\ q[i].openedAt \div MonthLength + 1 \in DOMAIN MonthNames
    BY <1>2, <2>3
  <2>6. Legible(q, detection)
    BY <2>2, <2>4, <2>5 DEF Legible
  <2> QED BY <2>6 DEF q, h
<1> QED BY <1>3, <1>4

\* The candles of a part of a market, in the ledger's terms.
LEMMA AnalysedIs ==
    ASSUME NEW q, NEW c, Legible(q, c.detection)
    PROVE  LET h == Analysed(q, c)
           IN  /\ Len(q) \in Nat /\ h \in Seq(Candles) /\ Len(h) = Len(q) /\ GoesForward(h)
               /\ \A i \in 1 .. Len(q) :
                     /\ h[i].openedAt = q[i].openedAt /\ h[i].close = q[i].close
                     /\ h[i].score = Score(SubSeq(q, 1, i), c.detection)
                     /\ q[i].close \in Nat \ {0} /\ q[i].openedAt \in Nat
<1> DEFINE n == Len(q)
           At(i) == [openedAt |-> q[i].openedAt, low |-> q[i].low, close |-> q[i].close,
                     high |-> q[i].high, score |-> Score(SubSeq(q, 1, i), c.detection)]
           f == [i \in 1 .. n |-> At(i)]
           h == Analysed(q, c)
<1>1. n \in Nat /\ DOMAIN q = 1 .. n /\ \A i \in 1 .. n : q[i] \in Prices
  BY DEF Legible
<1>2. h = Listed(f)
  BY <1>1 DEF Analysed
<1> HIDE DEF h, n
<1>3. ASSUME NEW i \in 1 .. n
      PROVE  /\ At(i) \in Candles
             /\ At(i).openedAt = q[i].openedAt /\ At(i).close = q[i].close
             /\ At(i).score = Score(SubSeq(q, 1, i), c.detection)
             /\ q[i].close \in Nat \ {0} /\ q[i].openedAt \in Nat
  <2>1. Score(SubSeq(q, 1, i), c.detection) \in Nat
    BY DEF Legible, n
  <2> DEFINE x == q[i]
             score == Score(SubSeq(q, 1, i), c.detection)
  <2>2. x \in Prices
    BY <1>1
  <2> HIDE DEF x, score
  <2>3. /\ x.openedAt \in Nat /\ x.low \in Nat /\ x.close \in Nat \ {0} /\ x.high \in Nat
    BY <2>2 DEF Prices
  <2>4. score \in Nat
    BY <2>1 DEF score
  <2>5. At(i) = [openedAt |-> x.openedAt, low |-> x.low, close |-> x.close, high |-> x.high,
                 score |-> score]
    BY DEF x, score
  <2> HIDE DEF At
  <2> QED BY <2>3, <2>4, <2>5 DEF Candles, x, score
<1> HIDE DEF At
<1>4. f \in [1 .. n -> Candles] /\ IsList(f, n)
  BY <1>3 DEF IsList
<1>5. \A i \in 1 .. n : f[i] = At(i)
  OBVIOUS
<1> HIDE DEF f
<1>6. h = f /\ Len(f) = n
  BY <1>1, <1>2, <1>4, ListedIs
<1>7. f \in Seq(Candles)
  BY <1>1, <1>4
<1>8. \A i, j \in 1 .. n : i < j => f[i].openedAt < f[j].openedAt
  BY <1>3, <1>5 DEF Legible, n
<1>9. GoesForward(f)
  BY <1>6, <1>8 DEF GoesForward
<1> QED BY <1>1, <1>3, <1>5, <1>6, <1>7, <1>9 DEF h, n

\* f runs the evaluator alone over the first of the frames.
TrackerRuns(f, settings, frames, n) ==
    f = [k \in 0 .. n |-> IF k = 0 THEN NewTracker(settings)
                          ELSE UpdateTracker(f[k - 1], frames[k])]

\* Alone, the evaluator goes the way it goes in the lifecycle.
LEMMA TheTrackerAlone ==
    ASSUME NEW settings, NEW frames, Len(frames) \in Nat
    PROVE  RunTracker(settings, frames) = RunLifecycle(settings, frames).tracker
<1> DEFINE n == Len(frames)
           l == CHOOSE x : Runs(x, settings, frames, n)
           t == CHOOSE x : TrackerRuns(x, settings, frames, n)
           g == [k \in 0 .. n |-> l[k].tracker]
<1>1. Runs(l, settings, frames, n) /\ n \in Nat
  BY RunsExist
<1>2. RunLifecycle(settings, frames) = l[n]
  BY DEF RunLifecycle, Runs
<1>3. RunTracker(settings, frames) = t[n]
  BY DEF RunTracker, TrackerRuns
<1> HIDE DEF l, n
<1>4. NewLifecycle(settings).tracker = NewTracker(settings)
  BY DEF NewLifecycle
<1>5. \A x, frame : UpdateLifecycle(x, frame).tracker = UpdateTracker(x.tracker, frame)
  BY DEF UpdateLifecycle
<1> DEFINE First == NewLifecycle(settings)
           Next1(x, k) == UpdateLifecycle(x, frames[k])
           TFirst == NewTracker(settings)
           TNext(x, k) == UpdateTracker(x, frames[k])
<1>6. l = [k \in 0 .. n |-> IF k = 0 THEN First ELSE Next1(l[k - 1], k)]
  BY <1>1 DEF Runs
<1>7. First.tracker = TFirst /\ \A x, k : Next1(x, k).tracker = TNext(x.tracker, k)
  BY <1>4, <1>5
<1> HIDE DEF First, Next1, TFirst, TNext
<1>8. ASSUME NEW k \in 0 .. n PROVE g[k] = IF k = 0 THEN TFirst ELSE TNext(g[k - 1], k)
  <2>1. CASE k = 0
    <3>1. l[k] = First /\ g[k] = l[k].tracker
      BY <1>6, <2>1
    <3> QED BY <1>7, <2>1, <3>1
  <2>2. CASE k # 0
    <3>1. k - 1 \in 0 .. n
      BY <1>1, <2>2
    <3>2. l[k] = Next1(l[k - 1], k) /\ g[k] = l[k].tracker /\ g[k - 1] = l[k - 1].tracker
      BY <1>6, <2>2, <3>1
    <3> HIDE DEF g
    <3> QED BY <1>7, <2>2, <3>2
  <2> QED BY <2>1, <2>2
<1>9. g = [k \in 0 .. n |-> g[k]]
  OBVIOUS
<1>10. \A k \in 0 .. n : g[k] = l[k].tracker
  OBVIOUS
<1> HIDE DEF g
<1>11. TrackerRuns(g, settings, frames, n)
  <2>1. g = [k \in 0 .. n |-> IF k = 0 THEN TFirst ELSE TNext(g[k - 1], k)]
    BY <1>8, <1>9
  <2> QED BY <2>1 DEF TrackerRuns, TFirst, TNext
<1>12. TrackerRuns(t, settings, frames, n)
  BY <1>11
<1> HIDE DEF t
<1>13. t = [k \in 0 .. n |-> IF k = 0 THEN TFirst ELSE TNext(t[k - 1], k)]
  BY <1>12 DEF TrackerRuns, TFirst, TNext
<1> DEFINE S == {k \in Nat : k <= n => t[k] = g[k]}
<1>14. 0 \in S
  BY <1>1, <1>8, <1>13
<1>15. ASSUME NEW k \in Nat, k \in S PROVE k + 1 \in S
  <2> SUFFICES ASSUME k + 1 <= n PROVE t[k + 1] = g[k + 1]
    OBVIOUS
  <2>1. k + 1 \in 0 .. n /\ k + 1 # 0 /\ (k + 1) - 1 = k /\ t[k] = g[k]
    BY <1>1, <1>15
  <2> DEFINE j == k + 1
  <2>2. j \in 0 .. n /\ j # 0 /\ t[j - 1] = g[j - 1]
    BY <2>1
  <2> HIDE DEF j
  <2>3. t[j] = TNext(t[j - 1], j)
    BY <1>13, <2>2
  <2>4. g[j] = TNext(g[j - 1], j)
    BY <1>8, <2>2
  <2>5. t[j] = g[j]
    BY <2>2, <2>3, <2>4
  <2> QED BY <2>5 DEF j
<1> HIDE DEF S
<1>16. n \in S
  BY <1>1, <1>14, <1>15, Induction
<1>17. t[n] = g[n] /\ n \in 0 .. n
  BY <1>1, <1>16 DEF S
<1>18. t[n] = l[n].tracker
  BY <1>10, <1>17
<1> QED BY <1>2, <1>3, <1>18

\* Every record is about the frame of its publication.
SignalsAre(l, h, c) ==
    \A k \in 1 .. Len(l.tracker.records) :
        LET r == l.tracker.records[k]
        IN  /\ r.reference.index + 1 \in 1 .. Len(h)
            /\ r.signal = Frame(SubSeq(h, 1, r.reference.index + 1), c.chain)
            /\ r.id = [signal |-> r.signal, horizon |-> c.horizon]

LEMMA SignalsGoOn ==
    ASSUME NEW c, NEW n \in Nat, NEW h \in Seq(Candles), Len(h) = n + 1,
           NEW l, Shape(l, SubSeq(h, 1, n), c), SignalsAre(l, SubSeq(h, 1, n), c)
    PROVE  SignalsAre(UpdateLifecycle(l, Frame(h, c.chain)), h, c)
<1> DEFINE g == SubSeq(h, 1, n)
           frame == Frame(h, c.chain)
           settings == SettingsOf(c)
           u == UpdateLifecycle(l, frame)
           before == l.tracker.records
           after == u.tracker.records
           m == Len(before)
           new == OpenOutcome(frame, settings)
<1>1. Updated(l, u, frame, settings)
  BY UpdateKeepsTheShape
<1>2. g \in Seq(Candles) /\ Len(g) = n
  OBVIOUS
<1>3. m \in Nat
  BY ShapeHasSequences DEF Shape, Pairs
<1>4. \A i \in 1 .. n : SubSeq(g, 1, i) = SubSeq(h, 1, i)
  <2> SUFFICES ASSUME NEW i \in 1 .. n PROVE SubSeq(g, 1, i) = SubSeq(h, 1, i)
    OBVIOUS
  <2>1. n \in 0 .. Len(h) /\ 1 \in Nat /\ i \in Nat /\ i <= n
    OBVIOUS
  <2> QED BY <2>1, PartOfAPart
<1>5. SubSeq(h, 1, n + 1) = h
  OBVIOUS
<1>6. \A k \in 1 .. m : /\ before[k].reference.index + 1 \in 1 .. n
                        /\ before[k].signal = Frame(SubSeq(g, 1, before[k].reference.index + 1), c.chain)
                        /\ before[k].id = [signal |-> before[k].signal, horizon |-> c.horizon]
  BY <1>2 DEF SignalsAre
<1>7. CurrentObservation(frame).index = n
  <2> DEFINE chain == c.chain
  <2> HIDE DEF chain
  <2>1. CurrentObservation(Frame(h, chain)).index = n
    BY FrameShows
  <2> QED BY <2>1 DEF chain
<1> HIDE DEF u, g, frame
<1>8. new.reference.index = n /\ new.signal = frame /\ new.id = [signal |-> frame, horizon |-> c.horizon]
  <2>1. settings.horizon = c.horizon
    BY DEF SettingsOf
  <2> HIDE DEF settings
  <2> QED BY <1>7, <2>1 DEF OpenOutcome, OutcomeIdentity, SignalId
<1>9. \A k \in 1 .. m :
          /\ IsFinal(before[k]) => after[k] = before[k]
          /\ IsOpen(before[k]) => after[k] = AdvanceOutcome(before[k], frame)
  BY <1>1 DEF Updated
<1>10. IF IsBuy(frame) THEN Len(after) = m + 1 /\ after[m + 1] = new
       ELSE Len(after) = m
  BY <1>1 DEF Updated
<1> HIDE DEF before, after, m, new
<1>11. ASSUME NEW k \in 1 .. m
       PROVE  /\ after[k].reference.index + 1 \in 1 .. n + 1
              /\ after[k].signal = Frame(SubSeq(h, 1, after[k].reference.index + 1), c.chain)
              /\ after[k].id = [signal |-> after[k].signal, horizon |-> c.horizon]
  <2>1. /\ after[k].signal = before[k].signal /\ after[k].id = before[k].id
        /\ after[k].reference = before[k].reference
    BY <1>9, VersionsKeep DEF IsFinal
  <2> DEFINE i == before[k].reference.index + 1
  <2>2. i \in 1 .. n /\ after[k].reference.index + 1 = i
    BY <1>6, <2>1
  <2>3. before[k].signal = Frame(SubSeq(g, 1, i), c.chain)
    BY <1>6
  <2> HIDE DEF i
  <2>4. i \in 1 .. n + 1
    BY <2>2
  <2>5. SubSeq(g, 1, i) = SubSeq(h, 1, i)
    BY <1>4, <2>2
  <2> QED BY <1>6, <2>1, <2>2, <2>3, <2>4, <2>5
<1>12. ASSUME NEW k \in 1 .. Len(after)
       PROVE  /\ after[k].reference.index + 1 \in 1 .. Len(h)
              /\ after[k].signal = Frame(SubSeq(h, 1, after[k].reference.index + 1), c.chain)
              /\ after[k].id = [signal |-> after[k].signal, horizon |-> c.horizon]
  <2>1. CASE k \in 1 .. m
    BY <1>11, <2>1
  <2>2. CASE k \notin 1 .. m
    <3>1. k = m + 1 /\ after[k] = new
      BY <1>3, <1>10, <2>2
    <3>2. n + 1 \in 1 .. n + 1
      OBVIOUS
    <3> QED BY <1>5, <1>8, <3>1, <3>2 DEF frame
  <2> QED BY <2>1, <2>2
<1> QED BY <1>12 DEF SignalsAre, after, u, frame

LEMMA EverySignalIs ==
    ASSUME NEW c PROVE \A h \in Seq(Candles) : SignalsAre(After(h, c), h, c)
<1> DEFINE S == {n \in Nat : \A h \in Seq(Candles) : Len(h) = n => SignalsAre(After(h, c), h, c)}
<1>1. 0 \in S
  <2> SUFFICES ASSUME NEW h \in Seq(Candles), Len(h) = 0 PROVE SignalsAre(After(h, c), h, c)
    OBVIOUS
  <2> DEFINE l == NewLifecycle(SettingsOf(c))
  <2>1. After(h, c) = l
    BY NoCandle
  <2>2. Len(l.tracker.records) = 0
    BY DEF NewLifecycle, NewTracker
  <2> HIDE DEF l
  <2> QED BY <2>1, <2>2 DEF SignalsAre
<1>2. ASSUME NEW n \in Nat, n \in S PROVE n + 1 \in S
  <2> SUFFICES ASSUME NEW h \in Seq(Candles), Len(h) = n + 1
               PROVE  SignalsAre(After(h, c), h, c)
    OBVIOUS
  <2> DEFINE g == SubSeq(h, 1, n)
  <2>1. g \in Seq(Candles) /\ Len(g) = n
    OBVIOUS
  <2>2. Shape(After(g, c), g, c) /\ SignalsAre(After(g, c), g, c)
    <3> HIDE DEF g
    <3> QED BY <1>2, <2>1, EveryHistoryHasTheShape
  <2>3. After(h, c) = UpdateLifecycle(After(g, c), Frame(h, c.chain))
    BY OneMoreCandle
  <2>4. SignalsAre(UpdateLifecycle(After(g, c), Frame(h, c.chain)), h, c)
    BY <2>2, SignalsGoOn
  <2> QED BY <2>3, <2>4
<1> HIDE DEF S
<1>3. \A n \in Nat : n \in S
  BY <1>1, <1>2, Induction
<1>4. \A h \in Seq(Candles) : Len(h) \in Nat
  OBVIOUS
<1> QED BY <1>3, <1>4 DEF S

\* What the candles of a part say of the BUY at the i-th.
SaysBuy(q, c, i) == i \in 1 .. Len(q) /\ Score(SubSeq(q, 1, i), c.detection) >= c.chain

OutcomeSays(o, q, c, i) ==
    /\ o.reference.index = i - 1 /\ o.reference.openedAt = q[i].openedAt
    /\ o.referenceClose = q[i].close /\ o.settings = SettingsOf(c) /\ OutcomeIsValid(o)
    /\ IF i + c.horizon > Len(q) THEN o.status = "OPEN"
       ELSE /\ o.status = ClassifyOutcome(q[i + c.horizon].close - q[i].close)
            /\ o.final.price = q[i + c.horizon].close

\* The row of a dataset for the BUY at its i-th candle.
RowSays(row, dataset, c, i) ==
    LET q == dataset.candles
    IN  /\ SaysBuy(q, c, i)
        /\ row.key = dataset.key /\ row.symbol = dataset.symbol
        /\ row.timeframe = dataset.timeframe
        /\ row.signal = <<dataset.key, row.outcome.signal>>
        /\ row.index = i - 1 /\ row.openedAt = q[i].openedAt
        /\ row.labels = Labels(SubSeq(q, 1, i), c.detection)
        /\ row.combination = Combination[row.labels]
        /\ OutcomeSays(row.outcome, q, c, i)

\* A configuration as the evaluator has it declared.
DeclaredBy(c) == [chain |-> c.chain, horizon |-> c.horizon]

\* The records of a replay.
LEMMA ReplayIs ==
    ASSUME NEW dataset, NEW c \in EngineSettings, Legible(dataset.candles, c.detection)
    PROVE  LET replay == ReplayHistory(dataset, c)
               h == Analysed(dataset.candles, c)
           IN  /\ replay.dataset = dataset
               /\ replay.latest = After(h, DeclaredBy(c)).tracker.records
               /\ replay.profiles = Attributions(FramesOf(h, c.chain), dataset.candles, c)
<1> DEFINE replay == ReplayHistory(dataset, c)
           h == Analysed(dataset.candles, c)
           frames == FramesOf(h, c.chain)
           d == DeclaredBy(c)
<1>1. h \in Seq(Candles) /\ Len(h) \in Nat
  BY AnalysedIs
<1> HIDE DEF h
<1>2. d.chain = c.chain /\ SettingsOf(d) = [horizon |-> c.horizon]
  BY DEF DeclaredBy, SettingsOf
<1>3. Len(frames) \in Nat
  BY <1>1 DEF FramesOf
<1> HIDE DEF frames, d
<1>4. RunTracker([horizon |-> c.horizon], frames)
         = RunLifecycle([horizon |-> c.horizon], frames).tracker
  BY <1>3, TheTrackerAlone
<1>5. After(h, d) = RunLifecycle([horizon |-> c.horizon], frames)
  BY <1>2 DEF After, frames
<1>6. /\ replay.dataset = dataset /\ replay.latest = RunTracker([horizon |-> c.horizon], frames).records
      /\ replay.profiles = Attributions(frames, dataset.candles, c)
  BY DEF ReplayHistory, frames, h
<1> QED BY <1>4, <1>5, <1>6 DEF d, frames, h

\* What a record says, in the terms of the part's candles.
LEMMA RecordSays ==
    ASSUME NEW q, NEW c \in EngineSettings, Legible(q, c.detection),
           NEW r, r.settings = SettingsOf(DeclaredBy(c)),
           Follows(r, Analysed(q, c), DeclaredBy(c))
    PROVE  \E i \in 1 .. Len(q) : SaysBuy(q, c, i) /\ OutcomeSays(r, q, c, i)
<1> DEFINE h == Analysed(q, c)
           d == DeclaredBy(c)
           n == Len(q)
<1>1. /\ n \in Nat /\ h \in Seq(Candles) /\ Len(h) = n /\ GoesForward(h)
      /\ \A i \in 1 .. n : /\ h[i].openedAt = q[i].openedAt /\ h[i].close = q[i].close
                           /\ h[i].score = Score(SubSeq(q, 1, i), c.detection)
                           /\ q[i].close \in Nat \ {0} /\ q[i].openedAt \in Nat
  BY AnalysedIs
<1>2. d \in Declarations /\ d.chain = c.chain /\ d.horizon = c.horizon /\ SettingsOf(d) = SettingsOf(c)
  BY DEF EngineSettings, DeclaredBy, Declarations, SettingsOf
<1> HIDE DEF h, d, n
<1>3. OutcomeIsValid(r)
  BY <1>1, <1>2, FollowersAreValid DEF h, d
<1>4. PICK i \in Nat, k \in Nat : Tracks(r, h, d, i, k)
  BY DEF Follows, h, d
<1>5. /\ i \in DOMAIN h /\ h[i].score >= c.chain /\ k \in 0 .. c.horizon /\ i + k <= Len(h)
      /\ r.reference.index = i - 1 /\ r.reference.openedAt = h[i].openedAt
      /\ r.referenceClose = h[i].close
      /\ IF k < c.horizon THEN r.status = "OPEN" /\ i + k = Len(h)
         ELSE /\ r.status = ClassifyOutcome(h[i + k].close - h[i].close)
              /\ r.final.price = h[i + k].close
  BY <1>2, <1>4 DEF Tracks, Published
<1>6. c.horizon \in Nat \ {0}
  BY DEF EngineSettings
<1>7. i \in 1 .. n
  BY <1>1, <1>5
<1>8. SaysBuy(q, c, i)
  BY <1>1, <1>5, <1>7 DEF SaysBuy, n
<1>9. IF i + c.horizon > n THEN r.status = "OPEN"
      ELSE /\ r.status = ClassifyOutcome(q[i + c.horizon].close - q[i].close)
           /\ r.final.price = q[i + c.horizon].close
  <2>1. CASE k < c.horizon
    <3>1. i + c.horizon > n
      BY <1>1, <1>5, <1>6, <2>1
    <3> QED BY <1>5, <2>1, <3>1
  <2>2. CASE ~ (k < c.horizon)
    <3>1. k = c.horizon
      BY <1>5, <1>6, <2>2
    <3>2. ~ (i + c.horizon > n) /\ i + k \in 1 .. n
      BY <1>1, <1>5, <1>6, <1>7, <3>1
    <3>3. h[i + k].close = q[i + k].close /\ h[i].close = q[i].close
      BY <1>1, <1>7, <3>2
    <3> QED BY <1>5, <2>2, <3>1, <3>2, <3>3
  <2> QED BY <2>1, <2>2
<1>10. OutcomeSays(r, q, c, i)
  BY <1>1, <1>2, <1>3, <1>5, <1>7, <1>9 DEF OutcomeSays, d, n
<1> QED BY <1>7, <1>8, <1>10 DEF n

\* The profile of a BUY, found by its signal.
LEMMA ProfileIs ==
    ASSUME NEW q, NEW c \in EngineSettings, Legible(q, c.detection), NEW i, SaysBuy(q, c, i)
    PROVE  LET h == Analysed(q, c)
               profiles == Attributions(FramesOf(h, c.chain), q, c)
               signal == Frame(SubSeq(h, 1, i), c.chain)
               profile == CHOOSE p \in profiles : p.signal = signal
               labels == Labels(SubSeq(q, 1, i), c.detection)
           IN  profile.labels = labels /\ profile.combination = Combination[labels]
<1> DEFINE h == Analysed(q, c)
           n == Len(q)
           chain == c.chain
           frames == FramesOf(h, chain)
           buys == {j \in DOMAIN frames : IsBuy(frames[j])}
           LabelsAt(j) == Labels(SubSeq(q, 1, j), c.detection)
           profiles == Attributions(frames, q, c)
           signal == Frame(SubSeq(h, 1, i), chain)
<1>1. /\ n \in Nat /\ h \in Seq(Candles) /\ Len(h) = n
      /\ \A j \in 1 .. n : h[j].score = Score(SubSeq(q, 1, j), c.detection)
  BY AnalysedIs
<1>2. i \in 1 .. n /\ h[i].score >= chain
  BY <1>1 DEF SaysBuy
<1> HIDE DEF h, n, chain
<1>3. frames = [j \in 1 .. n |-> Frame(SubSeq(h, 1, j), chain)]
  BY <1>1 DEF FramesOf
<1> HIDE DEF frames
<1>4. \A j \in 1 .. n : Len(SubSeq(h, 1, j)) = j /\ SubSeq(h, 1, j) \in Seq(Candles)
                        /\ SubSeq(h, 1, j)[j] = h[j]
  BY <1>1
<1>5. ASSUME NEW j \in 1 .. n, frames[j] = frames[i] PROVE j = i
  <2> DEFINE a == SubSeq(h, 1, j)
             b == SubSeq(h, 1, i)
  <2>1. Len(a) = j /\ Len(b) = i /\ Frame(a, chain) = Frame(b, chain)
    BY <1>2, <1>3, <1>4, <1>5
  <2> HIDE DEF a, b
  <2>2. a = b
    BY <2>1 DEF Frame
  <2> QED BY <2>1, <2>2
<1>6. IsBuy(frames[i])
  <2> DEFINE g == SubSeq(h, 1, i)
             m == i - 1
  <2>1. m \in Nat /\ g \in Seq(Candles) /\ Len(g) = m + 1 /\ g[m + 1] = h[i]
    BY <1>1, <1>2, <1>4
  <2>2. frames[i] = Frame(g, chain)
    BY <1>2, <1>3
  <2> HIDE DEF g, m
  <2>3. IsBuy(Frame(g, chain)) <=> g[m + 1].score >= chain
    BY <2>1, FrameShows
  <2> QED BY <1>2, <2>1, <2>2, <2>3
<1>7. i \in buys /\ buys \subseteq 1 .. n
  BY <1>2, <1>3, <1>6
<1>8. profiles = {Attribution(frames[j], LabelsAt(j)) : j \in buys}
  BY DEF Attributions
<1>9. signal = frames[i]
  BY <1>2, <1>3
<1> HIDE DEF profiles, buys, LabelsAt, signal
<1>10. \A frame, labels : /\ Attribution(frame, labels).signal = frame
                          /\ Attribution(frame, labels).labels = labels
                          /\ Attribution(frame, labels).combination = Combination[labels]
  BY DEF Attribution, SignalId
<1>11. \E p \in profiles : p.signal = signal
  BY <1>7, <1>8, <1>9, <1>10
<1>12. ASSUME NEW p \in profiles, p.signal = signal
       PROVE  p.labels = LabelsAt(i) /\ p.combination = Combination[LabelsAt(i)]
  <2>1. PICK j \in buys : p = Attribution(frames[j], LabelsAt(j))
    BY <1>8
  <2>2. frames[j] = frames[i]
    BY <1>9, <1>10, <1>12, <2>1
  <2>3. j = i
    BY <1>5, <1>7, <2>2
  <2> QED BY <1>10, <2>1, <2>3
<1>13. LET profile == CHOOSE p \in profiles : p.signal = signal
       IN  profile.labels = LabelsAt(i) /\ profile.combination = Combination[LabelsAt(i)]
  BY <1>11, <1>12
<1> QED BY <1>13 DEF profiles, frames, signal, LabelsAt, h, chain

\* A replay has one row for every BUY, and it says what became of it.
LEMMA RowsAre ==
    ASSUME NEW dataset, NEW c \in EngineSettings, Legible(dataset.candles, c.detection)
    PROVE  LET q == dataset.candles
               rows == SignalRows(ReplayHistory(dataset, c))
               m == Len(rows)
           IN  /\ m \in Nat /\ IsList(rows, m) /\ DOMAIN rows = 1 .. m
               /\ \A k \in 1 .. m : \E i \in 1 .. Len(q) : RowSays(rows[k], dataset, c, i)
               /\ \A i \in 1 .. Len(q) :
                     SaysBuy(q, c, i) => \E k \in 1 .. m : rows[k].index = i - 1
               /\ \A k, l \in 1 .. m : rows[k].index = rows[l].index => k = l
<1> DEFINE q == dataset.candles
           replay == ReplayHistory(dataset, c)
           h == Analysed(q, c)
           d == DeclaredBy(c)
           l == After(h, d)
           records == l.tracker.records
           m == Len(records)
           rows == SignalRows(replay)
<1>1. /\ Len(q) \in Nat /\ h \in Seq(Candles) /\ Len(h) = Len(q) /\ GoesForward(h)
      /\ \A i \in 1 .. Len(q) : h[i].score = Score(SubSeq(q, 1, i), c.detection)
  BY AnalysedIs
<1>2. /\ replay.dataset = dataset /\ replay.latest = records
      /\ replay.profiles = Attributions(FramesOf(h, c.chain), q, c)
  BY ReplayIs
<1>3. d \in Declarations /\ d.chain = c.chain /\ d.horizon = c.horizon
  BY DEF EngineSettings, DeclaredBy, Declarations
<1> HIDE DEF replay, h, d, q
<1>4. Shape(l, h, d) /\ TellsTheMarket(l, h, d) /\ SignalsAre(l, h, d)
  BY <1>1, <1>3, EveryHistoryHasTheShape, TheMarketIsTold, EverySignalIs
<1> HIDE DEF l
<1>5. /\ m \in Nat /\ DOMAIN records = 1 .. m
      /\ \A k \in 1 .. m : records[k].settings = SettingsOf(d)
      /\ \A j, k \in 1 .. m : records[j].id = records[k].id => j = k
  <2>1. Pairs(records, l.observer.observations, Len(h), SettingsOf(d))
    BY <1>4 DEF Shape
  <2>2. m \in Nat /\ DOMAIN records = 1 .. m
    <3> DEFINE T == ToSet(records)
    <3>1. records \in Seq(T)
      BY <2>1 DEF Pairs, IsASequence
    <3> HIDE DEF T, records
    <3> QED BY <3>1
  <2> QED BY <2>1, <2>2 DEF Pairs
<1>6. /\ \A k \in 1 .. m : Follows(records[k], h, d)
      /\ \A i \in Published(h, d) : \E k \in 1 .. m : records[k].reference.index + 1 = i
  BY <1>4 DEF TellsTheMarket
<1>7. \A k \in 1 .. m : /\ records[k].reference.index + 1 \in 1 .. Len(h)
                        /\ records[k].signal = Frame(SubSeq(h, 1, records[k].reference.index + 1), c.chain)
                        /\ records[k].id = [signal |-> records[k].signal, horizon |-> c.horizon]
  BY <1>3, <1>4 DEF SignalsAre
<1> HIDE DEF records, m
<1>8. \A k \in 1 .. m : \E i \in 1 .. Len(q) : SaysBuy(q, c, i) /\ OutcomeSays(records[k], q, c, i)
  BY <1>5, <1>6, RecordSays DEF d, h, q
<1> DEFINE RowAt(k) == Row(replay, records[k])
           f == [k \in 1 .. m |-> RowAt(k)]
<1>9. rows = Listed(f)
  BY <1>2, <1>5 DEF SignalRows
<1>10. IsList(f, m) /\ \A k \in 1 .. m : f[k] = RowAt(k)
  BY DEF IsList
<1> HIDE DEF f, rows, RowAt
<1>11. rows = f /\ Len(rows) = m /\ DOMAIN rows = 1 .. m
  BY <1>5, <1>9, <1>10, ListedIs
<1>12. ASSUME NEW k \in 1 .. m
       PROVE  /\ rows[k].index = records[k].reference.index /\ rows[k].outcome = records[k]
              /\ \E i \in 1 .. Len(q) : RowSays(rows[k], dataset, c, i)
  <2> DEFINE r == records[k]
             row == rows[k]
             profile == CHOOSE p \in replay.profiles : p.signal = r.signal
  <2>1. row = [key |-> dataset.key, symbol |-> dataset.symbol,
               timeframe |-> dataset.timeframe, signal |-> <<dataset.key, r.signal>>,
               index |-> r.reference.index, openedAt |-> r.reference.openedAt,
               labels |-> profile.labels, combination |-> profile.combination, outcome |-> r]
    BY <1>2, <1>10, <1>11 DEF RowAt, Row
  <2>2. PICK i \in 1 .. Len(q) : SaysBuy(q, c, i) /\ OutcomeSays(r, q, c, i)
    BY <1>8
  <2>3. /\ r.reference.index = i - 1 /\ r.reference.openedAt = q[i].openedAt
    BY <2>2 DEF OutcomeSays
  <2>4. r.signal = Frame(SubSeq(h, 1, i), c.chain)
    <3>1. (i - 1) + 1 = i
      BY <1>1
    <3> QED BY <1>7, <2>3, <3>1
  <2>5. /\ profile.labels = Labels(SubSeq(q, 1, i), c.detection)
        /\ profile.combination = Combination[Labels(SubSeq(q, 1, i), c.detection)]
    BY <1>2, <2>2, <2>4, ProfileIs DEF h, q
  <2> HIDE DEF r, row, profile
  <2>6. /\ row.key = dataset.key /\ row.symbol = dataset.symbol
        /\ row.timeframe = dataset.timeframe /\ row.signal = <<dataset.key, r.signal>>
        /\ row.index = r.reference.index /\ row.openedAt = r.reference.openedAt
        /\ row.labels = profile.labels /\ row.combination = profile.combination
        /\ row.outcome = r
    BY <2>1
  <2>7. RowSays(row, dataset, c, i)
    BY <2>2, <2>3, <2>5, <2>6 DEF RowSays, q
  <2> QED BY <2>6, <2>7 DEF r, row
<1>13. ASSUME NEW i \in 1 .. Len(q), SaysBuy(q, c, i)
       PROVE  \E k \in 1 .. m : rows[k].index = i - 1
  <2>1. i \in Published(h, d)
    <3>1. i \in DOMAIN h
      BY <1>1
    <3>2. h[i].score >= d.chain
      BY <1>1, <1>3, <1>13 DEF SaysBuy
    <3> QED BY <3>1, <3>2 DEF Published
  <2>2. PICK k \in 1 .. m : records[k].reference.index + 1 = i
    BY <1>6, <2>1
  <2>3. PICK j \in 1 .. Len(q) : OutcomeSays(records[k], q, c, j)
    BY <1>8
  <2>4. records[k].reference.index = j - 1
    BY <2>3 DEF OutcomeSays
  <2>5. j - 1 = i - 1
    <3>1. (j - 1) + 1 = i /\ j \in Int /\ i \in Int
      BY <1>1, <2>2, <2>4
    <3> QED BY <3>1
  <2> QED BY <1>12, <2>4, <2>5
<1>14. ASSUME NEW j \in 1 .. m, NEW k \in 1 .. m, rows[j].index = rows[k].index PROVE j = k
  <2>1. records[j].reference.index = records[k].reference.index
    BY <1>12, <1>14
  <2>2. records[j].id = records[k].id
    BY <1>7, <2>1
  <2> QED BY <1>5, <2>2
<1> QED BY <1>5, <1>10, <1>11, <1>12, <1>13, <1>14 DEF rows, replay, q

-----------------------------------------------------------------------------
(* Lists, one after the other.                                             *)

IsChained(u, s, t) == u = s \o t

LEMMA TwoLists ==
    ASSUME NEW s, NEW m \in Nat, IsList(s, m), NEW t, NEW n \in Nat, IsList(t, n),
           NEW u, IsChained(u, s, t)
    PROVE  /\ IsList(u, m + n) /\ Len(u) = m + n
           /\ \A p \in 1 .. m : u[p] = s[p]
           /\ \A p \in 1 .. n : u[m + p] = t[p]
<1> DEFINE S == ToSet(s) \union ToSet(t)
<1>1. s \in Seq(ToSet(s)) /\ t \in Seq(ToSet(t)) /\ Len(s) = m /\ Len(t) = n
  BY ListIs DEF IsASequence
<1>2. s \in Seq(S) /\ t \in Seq(S)
  <2>1. ASSUME NEW A, NEW B, s \in Seq(A), t \in Seq(B)
        PROVE  s \in Seq(A \union B) /\ t \in Seq(A \union B)
    BY <2>1
  <2> QED BY <1>1, <2>1
<1> HIDE DEF S
<1> DEFINE v == s \o t
<1>3. v \in Seq(S) /\ Len(v) = m + n /\ \A p \in 1 .. m : v[p] = s[p]
  BY <1>1, <1>2
<1>4. \A p \in 1 .. n : v[m + p] = t[p]
  BY <1>1, <1>2
<1>6. u = v
  BY DEF IsChained
<1> HIDE DEF v
<1>5. v = [p \in 1 .. m + n |-> v[p]]
  BY <1>3
<1> QED BY <1>3, <1>4, <1>5, <1>6 DEF IsList

\* Where the members of n lists are.
Places(lists, n) == {x \in Nat \X Nat : x[1] \in 1 .. n /\ x[2] \in 1 .. Len(lists[x[1]])}

\* s has every member of the lists in a place of its own.
Lays(at, s, lists, n) ==
    /\ \A p \in 1 .. Len(s) : at[p] \in Places(lists, n) /\ s[p] = lists[at[p][1]][at[p][2]]
    /\ \A x \in Places(lists, n) : \E p \in 1 .. Len(s) : at[p] = x
    /\ \A p, q \in 1 .. Len(s) : at[p] = at[q] => p = q

IsJoined(s, lists, n) ==
    /\ Len(s) \in Nat /\ IsList(s, Len(s))
    /\ \E at : Lays(at, s, lists, n)

\* One list more.
LEMMA OneListMore ==
    ASSUME NEW n \in Nat, NEW lists, NEW s, IsJoined(s, lists, n),
           Len(lists[n + 1]) \in Nat, IsList(lists[n + 1], Len(lists[n + 1]))
    PROVE  IsJoined(s \o lists[n + 1], lists, n + 1)
<1> DEFINE t == lists[n + 1]
           m == Len(s)
           l == Len(t)
           u == s \o t
<1>1. m \in Nat /\ l \in Nat /\ IsList(s, m) /\ IsList(t, l)
  BY DEF IsJoined
<1>2. PICK at : Lays(at, s, lists, n)
  BY DEF IsJoined
<1>3. IsChained(u, s, t)
  BY DEF IsChained
<1> HIDE DEF m, l, t, u
<1>13. /\ Len(u) = m + l /\ IsList(u, m + l) /\ \A p \in 1 .. m : u[p] = s[p]
      /\ \A p \in 1 .. l : u[m + p] = t[p]
  BY <1>1, <1>3, TwoLists
<1>4. /\ \A p \in 1 .. m : at[p] \in Places(lists, n) /\ s[p] = lists[at[p][1]][at[p][2]]
      /\ \A x \in Places(lists, n) : \E p \in 1 .. m : at[p] = x
      /\ \A p, q \in 1 .. m : at[p] = at[q] => p = q
  BY <1>2 DEF Lays, m
<1> DEFINE by == [p \in 1 .. m + l |-> IF p <= m THEN at[p] ELSE <<n + 1, p - m>>]
<1>5. /\ Places(lists, n) \subseteq Places(lists, n + 1)
      /\ \A j \in 1 .. l : <<n + 1, j>> \in Places(lists, n + 1)
      /\ \A x \in Places(lists, n + 1) :
            x \in Places(lists, n) \/ \E j \in 1 .. l : x = <<n + 1, j>>
      /\ \A x \in Places(lists, n) : x[1] \in 1 .. n
  <2>1. \A k : k \in 1 .. n + 1 <=> k \in 1 .. n \/ k = n + 1
    OBVIOUS
  <2>2. ASSUME NEW x \in Places(lists, n + 1), x \notin Places(lists, n)
        PROVE  \E j \in 1 .. l : x = <<n + 1, j>>
    <3>1. x \in Nat \X Nat /\ x[1] = n + 1 /\ x[2] \in 1 .. Len(lists[x[1]])
      BY <2>1, <2>2 DEF Places
    <3>2. x[2] \in 1 .. l
      BY <3>1 DEF l, t
    <3>3. x = <<x[1], x[2]>>
      BY <3>1
    <3> QED BY <3>1, <3>2, <3>3
  <2>3. Places(lists, n) \subseteq Places(lists, n + 1)
    BY <2>1 DEF Places
  <2>4. ASSUME NEW j \in 1 .. l PROVE <<n + 1, j>> \in Places(lists, n + 1)
    <3>1. j \in Nat /\ n + 1 \in Nat /\ n + 1 \in 1 .. n + 1 /\ j \in 1 .. Len(lists[n + 1])
      BY <1>1 DEF l, t
    <3> QED BY <3>1 DEF Places
  <2>5. \A x \in Places(lists, n) : x[1] \in 1 .. n
    BY DEF Places
  <2> QED BY <2>2, <2>3, <2>4, <2>5
<1>6. /\ \A p \in 1 .. m : p \in 1 .. m + l /\ by[p] = at[p]
      /\ \A j \in 1 .. l : m + j \in 1 .. m + l /\ by[m + j] = <<n + 1, j>>
      /\ \A p \in 1 .. m + l : p \in 1 .. m \/ \E j \in 1 .. l : p = m + j
  <2>1. ASSUME NEW j \in 1 .. l PROVE m + j \in 1 .. m + l /\ by[m + j] = <<n + 1, j>>
    <3>1. m + j \in 1 .. m + l /\ ~ (m + j <= m) /\ (m + j) - m = j
      BY <1>1
    <3> QED BY <3>1
  <2>2. ASSUME NEW p \in 1 .. m + l, p \notin 1 .. m PROVE \E j \in 1 .. l : p = m + j
    <3>1. p - m \in 1 .. l /\ p = m + (p - m)
      BY <1>1, <2>2
    <3> QED BY <3>1
  <2>3. ASSUME NEW p \in 1 .. m PROVE p \in 1 .. m + l /\ by[p] = at[p]
    BY <1>1
  <2> QED BY <2>1, <2>2, <2>3
<1> HIDE DEF by
<1>7. ASSUME NEW p \in 1 .. m + l
      PROVE  by[p] \in Places(lists, n + 1) /\ u[p] = lists[by[p][1]][by[p][2]]
  <2>1. CASE p \in 1 .. m
    BY <1>13, <1>4, <1>5, <1>6, <2>1
  <2>2. CASE p \notin 1 .. m
    <3>1. PICK j \in 1 .. l : p = m + j
      BY <1>6, <2>2
    <3>2. by[p] = <<n + 1, j>> /\ u[p] = t[j]
      BY <1>13, <1>6, <3>1
    <3>3. <<n + 1, j>>[1] = n + 1 /\ <<n + 1, j>>[2] = j
      OBVIOUS
    <3> QED BY <1>5, <3>2, <3>3 DEF t
  <2> QED BY <2>1, <2>2
<1>8. ASSUME NEW x \in Places(lists, n + 1) PROVE \E p \in 1 .. m + l : by[p] = x
  <2>1. CASE x \in Places(lists, n)
    <3>1. PICK p \in 1 .. m : at[p] = x
      BY <1>4, <2>1
    <3> QED BY <1>6, <3>1
  <2>2. CASE \E j \in 1 .. l : x = <<n + 1, j>>
    BY <1>6, <2>2
  <2> QED BY <1>5, <2>1, <2>2
<1>9. ASSUME NEW p \in 1 .. m + l, NEW q \in 1 .. m + l, by[p] = by[q] PROVE p = q
  <2>1. \A i \in 1 .. m : by[i][1] \in 1 .. n
    BY <1>4, <1>5, <1>6
  <2>2. \A j \in 1 .. l : by[m + j][1] = n + 1 /\ by[m + j][2] = j
    BY <1>6
  <2>3. n + 1 \notin 1 .. n
    OBVIOUS
  <2>4. CASE p \in 1 .. m /\ q \in 1 .. m
    BY <1>4, <1>6, <1>9, <2>4
  <2>5. CASE p \notin 1 .. m /\ q \notin 1 .. m
    <3>1. PICK i \in 1 .. l : p = m + i
      BY <1>6, <2>5
    <3>2. PICK j \in 1 .. l : q = m + j
      BY <1>6, <2>5
    <3>3. i = j
      BY <1>9, <2>2, <3>1, <3>2
    <3> QED BY <3>1, <3>2, <3>3
  <2>6. CASE p \in 1 .. m /\ q \notin 1 .. m
    <3>1. PICK j \in 1 .. l : q = m + j
      BY <1>6, <2>6
    <3> QED BY <1>9, <2>1, <2>2, <2>3, <2>6, <3>1
  <2>7. CASE p \notin 1 .. m /\ q \in 1 .. m
    <3>1. PICK j \in 1 .. l : p = m + j
      BY <1>6, <2>7
    <3> QED BY <1>9, <2>1, <2>2, <2>3, <2>7, <3>1
  <2> QED BY <2>4, <2>5, <2>6, <2>7
<1>10. Lays(by, u, lists, n + 1)
  BY <1>13, <1>7, <1>8, <1>9 DEF Lays
<1>11. Len(u) \in Nat /\ IsList(u, Len(u))
  BY <1>1, <1>13
<1>12. IsJoined(u, lists, n + 1)
  BY <1>10, <1>11 DEF IsJoined
<1> QED BY <1>12 DEF u, t

\* f joins the first of the lists, up to the n-th.
Joins(f, lists, n) ==
    f = [k \in 0 .. n |-> IF k = 0 THEN <<>> ELSE f[k - 1] \o lists[k]]

LEMMA JoinsExist == ASSUME NEW lists PROVE \A n \in Nat : \E f : Joins(f, lists, n)
<1> DEFINE S == {n \in Nat : \E f : Joins(f, lists, n)}
<1>1. 0 \in S
  <2> DEFINE e == [k \in 0 .. 0 |-> <<>>]
             Step(k) == e[k - 1] \o lists[k]
  <2> HIDE DEF Step
  <2>1. e = [k \in 0 .. 0 |-> IF k = 0 THEN <<>> ELSE Step(k)]
    OBVIOUS
  <2> HIDE DEF e
  <2>2. Joins(e, lists, 0)
    BY <2>1 DEF Joins, Step
  <2> QED BY <2>2
<1>2. ASSUME NEW n \in Nat, n \in S PROVE n + 1 \in S
  <2>1. PICK f : Joins(f, lists, n)
    BY <1>2
  <2> DEFINE Step(k, t) == t \o lists[k]
             base == <<>>
             g == [k \in 0 .. n + 1 |-> IF k = n + 1 THEN Step(k, f[n]) ELSE f[k]]
  <2>2. f = [k \in 0 .. n |-> IF k = 0 THEN base ELSE Step(k, f[k - 1])]
    BY <2>1 DEF Joins
  <2> HIDE DEF Step, base
  <2>3. ASSUME NEW k \in 0 .. n + 1
        PROVE  g[k] = IF k = 0 THEN base ELSE Step(k, g[k - 1])
    <3>1. CASE k = n + 1
      <4>1. n \in 0 .. n + 1 /\ n # n + 1 /\ k # 0 /\ k - 1 = n
        BY <3>1
      <4>2. g[n] = f[n] /\ g[k] = Step(k, f[n])
        BY <3>1, <4>1
      <4> QED BY <4>1, <4>2
    <3>2. CASE k \in 0 .. n
      <4>1. g[k] = f[k] /\ f[k] = IF k = 0 THEN base ELSE Step(k, f[k - 1])
        BY <2>2, <3>2
      <4>2. k # 0 => k - 1 \in 0 .. n
        BY <3>2
      <4>3. k # 0 => g[k - 1] = f[k - 1]
        BY <4>2
      <4> QED BY <4>1, <4>3
    <3> QED BY <3>1, <3>2
  <2>4. g = [k \in 0 .. n + 1 |-> g[k]]
    <3> DEFINE F(k) == IF k = n + 1 THEN Step(k, f[n]) ELSE f[k]
    <3>1. g = [k \in 0 .. n + 1 |-> F(k)]
      OBVIOUS
    <3> HIDE DEF F, g
    <3>2. DOMAIN g = 0 .. n + 1 /\ \A k \in 0 .. n + 1 : g[k] = F(k)
      BY <3>1
    <3> QED BY <3>1, <3>2
  <2> HIDE DEF g
  <2>5. g = [k \in 0 .. n + 1 |-> IF k = 0 THEN base ELSE Step(k, g[k - 1])]
    BY <2>3, <2>4
  <2>6. Joins(g, lists, n + 1)
    BY <2>5 DEF Joins, Step, base
  <2> QED BY <2>6
<1> HIDE DEF S
<1>3. \A n \in Nat : n \in S
  BY <1>1, <1>2, Induction
<1> QED BY <1>3 DEF S

\* A concatenation has every member of the lists in a place of its own.
LEMMA ConcatenatedIs ==
    ASSUME NEW n \in Nat, NEW lists, Len(lists) = n,
           \A k \in 1 .. n : Len(lists[k]) \in Nat /\ IsList(lists[k], Len(lists[k]))
    PROVE  IsJoined(Concatenated(lists), lists, n)
<1> DEFINE f == CHOOSE x : Joins(x, lists, n)
           S == {k \in Nat : k <= n => IsJoined(f[k], lists, k)}
<1>1. Joins(f, lists, n)
  BY JoinsExist
<1>2. Concatenated(lists) = f[n]
  BY DEF Concatenated, Joins
<1> HIDE DEF f
<1> DEFINE base == <<>>
           Step(k, t) == t \o lists[k]
<1>3. f = [k \in 0 .. n |-> IF k = 0 THEN base ELSE Step(k, f[k - 1])]
  BY <1>1 DEF Joins
<1> HIDE DEF base, Step
<1>4. f[0] = base /\ \A k \in Nat : k + 1 <= n => f[k + 1] = Step(k + 1, f[k])
  <2>1. ASSUME NEW k \in Nat, k + 1 <= n PROVE f[k + 1] = Step(k + 1, f[k])
    <3>1. k + 1 \in 0 .. n /\ k + 1 # 0 /\ (k + 1) - 1 = k
      BY <2>1
    <3> DEFINE j == k + 1
    <3>2. j \in 0 .. n /\ j # 0 /\ j - 1 = k
      BY <3>1
    <3> HIDE DEF j
    <3>3. f[j] = Step(j, f[j - 1])
      BY <1>3, <3>2
    <3> QED BY <3>2, <3>3 DEF j
  <2>2. 0 \in 0 .. n
    OBVIOUS
  <2> QED BY <1>3, <2>1, <2>2
<1>5. 0 \in S
  <2>1. Len(base) = 0 /\ IsList(base, 0)
    BY DEF IsList, base
  <2>2. Places(lists, 0) = {}
    BY DEF Places
  <2>3. Lays(base, base, lists, 0)
    BY <2>1, <2>2 DEF Lays
  <2>4. IsJoined(base, lists, 0)
    BY <2>1, <2>3 DEF IsJoined
  <2> QED BY <1>4, <2>4
<1>6. ASSUME NEW k \in Nat, k \in S PROVE k + 1 \in S
  <2> SUFFICES ASSUME k + 1 <= n PROVE IsJoined(f[k + 1], lists, k + 1)
    OBVIOUS
  <2>1. IsJoined(f[k], lists, k) /\ k + 1 \in 1 .. n
    BY <1>6
  <2>2. Len(lists[k + 1]) \in Nat /\ IsList(lists[k + 1], Len(lists[k + 1]))
    BY <2>1
  <2>3. IsJoined(f[k] \o lists[k + 1], lists, k + 1)
    BY <2>1, <2>2, OneListMore
  <2> QED BY <1>4, <2>3 DEF Step
<1> HIDE DEF S
<1>7. n \in S
  BY <1>5, <1>6, Induction
<1> QED BY <1>2, <1>7 DEF S

-----------------------------------------------------------------------------
(* The rows of the validation periods.                                     *)

\* Two places of what is taken come from two members, or are one place.
LEMMA TakenOnce ==
    ASSUME NEW p, NEW s, NEW I, TakesOnce(p, s, I), NEW j \in DOMAIN p, NEW l \in DOMAIN p
    PROVE  \E a \in I, b \in I : p[j] = s[a] /\ p[l] = s[b] /\ (a = b => j = l)
BY DEF TakesOnce

\* What is picked by a condition, each member once.
LEMMA PickedList ==
    ASSUME NEW s, NEW n \in Nat, NEW I \in SUBSET (1 .. n)
    PROVE  LET p == Picked(s, I)
           IN  /\ Len(p) \in Nat /\ IsList(p, Len(p)) /\ DOMAIN p = 1 .. Len(p)
               /\ \A a \in 1 .. Len(p) : \E i \in I : p[a] = s[i]
               /\ \A i \in I : \E a \in 1 .. Len(p) : p[a] = s[i]
               /\ TakesOnce(p, s, I)
<1> DEFINE p == Picked(s, I)
           m == Cardinality(I)
<1>1. /\ Len(p) = m /\ m \in Nat /\ DOMAIN p = 1 .. m
      /\ \A a \in DOMAIN p : \E i \in I : p[a] = s[i]
      /\ \A i \in I : \E a \in DOMAIN p : p[a] = s[i]
  BY PickedIs
<1>2. p = [a \in 1 .. m |-> p[a]]
  <2> DEFINE order == Ascending(I)
  <2>1. p = [a \in DOMAIN order |-> s[order[a]]]
    BY DEF Picked
  <2> HIDE DEF order, p, m
  <2>2. DOMAIN order = 1 .. m
    BY <1>1, <2>1
  <2> QED BY <2>1, <2>2
<1>3. TakesOnce(p, s, I)
  BY PickedOnce
<1> HIDE DEF p, m
<1>4. IsList(p, Len(p))
  BY <1>1, <1>2 DEF IsList
<1> QED BY <1>1, <1>3, <1>4 DEF p

PartOf(dataset, k) == WindowDataset(dataset, WindowAt(k))

\* The validation rows of a window.
LEMMA ValidationRowsAre ==
    ASSUME NEW dataset, Len(dataset.candles) \in Nat, NEW c \in EngineSettings,
           NEW k \in 1 .. Len(PlanWindows(dataset, Protocol.settings)),
           Legible(PartOf(dataset, k).candles, c.detection)
    PROVE  LET s == Protocol.settings
               rows == EvaluateDataset(dataset, c, s).windows[k].validation.rows
               part == PartOf(dataset, k)
               m == Len(rows)
           IN  /\ m \in Nat /\ IsList(rows, m)
               /\ \A j \in 1 .. m : \E i \in 1 .. Len(part.candles) :
                     i > s.development /\ RowSays(rows[j], part, c, i)
               /\ \A i \in 1 .. Len(part.candles) :
                     i > s.development /\ SaysBuy(part.candles, c, i)
                     => \E j \in 1 .. m : rows[j].index = i - 1
               /\ \A j, l \in 1 .. m : rows[j].index = rows[l].index => j = l
<1> DEFINE s == Protocol.settings
           plan == PlanWindows(dataset, s)
           part == PartOf(dataset, k)
           q == part.candles
           all == SignalRows(ReplayHistory(part, c))
           n == Len(all)
           I == {i \in 1 .. n : all[i].index >= s.development}
           rows == EvaluateDataset(dataset, c, s).windows[k].validation.rows
<1>1. /\ n \in Nat /\ DOMAIN all = 1 .. n
      /\ \A j \in 1 .. n : \E i \in 1 .. Len(q) : RowSays(all[j], part, c, i)
      /\ \A i \in 1 .. Len(q) : SaysBuy(q, c, i) => \E j \in 1 .. n : all[j].index = i - 1
      /\ \A j, l \in 1 .. n : all[j].index = all[l].index => j = l
  BY RowsAre
<1>2. plan[k] = WindowAt(k)
  BY WindowsAre
<1>3. rows = Picked(all, I)
  <2> DEFINE result == EvaluateDataset(dataset, c, s)
  <2>1. result.windows[k] = EvaluateWindow(dataset, plan[k], c, result.regimes, s)
    BY ResultIs
  <2> DEFINE regimes == result.regimes
             window == WindowAt(k)
  <2> HIDE DEF regimes, window, plan
  <2>2. EvaluateWindow(dataset, window, c, regimes, s) = SplitRows(dataset, window, all, regimes, s)
    BY DEF EvaluateWindow, PartOf, window
  <2> HIDE DEF all, s
  <2>3. SplitRows(dataset, window, all, regimes, s).validation.rows
           = Picked(all, {i \in DOMAIN all : all[i].index >= s.development})
    BY DEF SplitRows, WindowResult, Segment
  <2>4. result.windows[k] = SplitRows(dataset, window, all, regimes, s)
    BY <1>2, <2>1, <2>2 DEF regimes, window
  <2> QED BY <1>1, <2>3, <2>4 DEF s
<1> HIDE DEF all, n, rows, part, plan
<1>4. I \in SUBSET (1 .. n)
  OBVIOUS
<1>5. ASSUME NEW j \in 1 .. n, NEW i \in 1 .. Len(q), RowSays(all[j], part, c, i)
      PROVE  all[j].index = i - 1
  BY <1>5 DEF RowSays
<1>6. s.development \in Nat /\ Len(q) \in Nat
  <2>1. Len(q) \in Nat
    BY AnalysedIs DEF part
  <2> QED BY <2>1, SettingsAre
<1>7. \A j \in I : j \in 1 .. n /\ \E i \in 1 .. Len(q) : i > s.development /\ RowSays(all[j], part, c, i)
  <2> SUFFICES ASSUME NEW j \in I
               PROVE  \E i \in 1 .. Len(q) : i > s.development /\ RowSays(all[j], part, c, i)
    OBVIOUS
  <2>1. PICK i \in 1 .. Len(q) : RowSays(all[j], part, c, i)
    BY <1>1
  <2>2. i - 1 >= s.development
    BY <1>5, <2>1
  <2> HIDE DEF s
  <2>3. i > s.development
    BY <1>6, <2>2
  <2> QED BY <2>1, <2>3
<1>8. ASSUME NEW i \in 1 .. Len(q), i > s.development, SaysBuy(q, c, i)
      PROVE  \E j \in I : all[j].index = i - 1
  <2>1. PICK j \in 1 .. n : all[j].index = i - 1
    BY <1>1, <1>8
  <2>2. i - 1 >= s.development
    <3> HIDE DEF s
    <3> QED BY <1>6, <1>8
  <2> QED BY <2>1, <2>2
<1> HIDE DEF I, s, q
<1> DEFINE m == Len(rows)
<1>9. /\ m \in Nat /\ IsList(rows, m)
      /\ \A a \in 1 .. m : \E i \in I : rows[a] = all[i]
      /\ \A i \in I : \E a \in 1 .. m : rows[a] = all[i]
      /\ TakesOnce(rows, all, I) /\ DOMAIN rows = 1 .. m
  <2> DEFINE t == Picked(all, I)
  <2>1. /\ Len(t) \in Nat /\ IsList(t, Len(t)) /\ DOMAIN t = 1 .. Len(t)
        /\ \A a \in 1 .. Len(t) : \E i \in I : t[a] = all[i]
        /\ \A i \in I : \E a \in 1 .. Len(t) : t[a] = all[i]
        /\ TakesOnce(t, all, I)
    BY <1>1, <1>4, PickedList
  <2> HIDE DEF t
  <2>2. t = rows
    BY <1>3 DEF t
  <2> QED BY <2>1, <2>2
<1>10. \A j \in 1 .. m : \E i \in 1 .. Len(q) : i > s.development /\ RowSays(rows[j], part, c, i)
  BY <1>7, <1>9
<1>11. \A i \in 1 .. Len(q) : i > s.development /\ SaysBuy(q, c, i)
                              => \E j \in 1 .. m : rows[j].index = i - 1
  BY <1>8, <1>9
<1>12. \A j, l \in 1 .. m : rows[j].index = rows[l].index => j = l
  <2> SUFFICES ASSUME NEW j \in 1 .. m, NEW l \in 1 .. m, rows[j].index = rows[l].index PROVE j = l
    OBVIOUS
  <2>0. j \in DOMAIN rows /\ l \in DOMAIN rows /\ TakesOnce(rows, all, I)
    BY <1>9
  <2>1. PICK a \in I, b \in I : rows[j] = all[a] /\ rows[l] = all[b] /\ (a = b => j = l)
    BY <2>0, TakenOnce
  <2>2. a \in 1 .. n /\ b \in 1 .. n
    BY <1>4
  <2> QED BY <1>1, <2>1, <2>2
<1> QED BY <1>9, <1>10, <1>11, <1>12 DEF s, q, part, rows

\* The candles a window has shown before the p-th closed, and whether that is a BUY to be judged.
SeenBy(q, k, p) == SubSeq(q, StartOf(k) + 1, p)
IsJudged(q, c, k, p) ==
    /\ p \in 1 .. Len(q) /\ p > WindowAt(k).split /\ p <= WindowAt(k).end
    /\ Score(SeenBy(q, k, p), c.detection) >= c.chain

\* What a row says of the BUY at the p-th candle of a dataset, in its k-th window.
RowJudges(row, series, q, c, k, p) ==
    LET o == row.outcome
    IN  /\ row.key = series.key /\ row.symbol = series.symbol /\ row.timeframe = series.timeframe
        /\ row.index = p - StartOf(k) - 1 /\ row.openedAt = q[p].openedAt
        /\ row.labels = Labels(SeenBy(q, k, p), c.detection)
        /\ row.combination = Combination[row.labels]
        /\ o.reference.openedAt = q[p].openedAt /\ o.referenceClose = q[p].close
        /\ o.settings = SettingsOf(c) /\ OutcomeIsValid(o)
        /\ IF p + c.horizon > WindowAt(k).end THEN o.status = "OPEN"
           ELSE /\ o.status = ClassifyOutcome(q[p + c.horizon].close - q[p].close)
                /\ o.final.price = q[p + c.horizon].close

\* A window reaches from its start to its end.
LEMMA WindowReaches ==
    ASSUME NEW k \in Nat \ {0}
    PROVE  /\ StartOf(k) \in Nat /\ Protocol.settings.development \in Nat \ {0}
           /\ Protocol.settings.validation \in Nat \ {0}
           /\ WindowAt(k).start = StartOf(k)
           /\ WindowAt(k).split = StartOf(k) + Protocol.settings.development
           /\ WindowAt(k).end = StartOf(k) + Protocol.settings.development + Protocol.settings.validation
<1> DEFINE s == Protocol.settings
<1>1. s.development \in Nat \ {0} /\ s.validation \in Nat \ {0} /\ s.step \in Nat \ {0}
  BY SettingsAre
<1>2. k - 1 \in Nat
  OBVIOUS
<1>3. StartOf(k) \in Nat
  <2>1. \A a, b \in Nat : a * b \in Nat
    OBVIOUS
  <2> HIDE DEF s
  <2> QED BY <1>1, <1>2, <2>1 DEF StartOf, s
<1>4. /\ WindowAt(k).start = StartOf(k) /\ WindowAt(k).split = StartOf(k) + s.development
      /\ WindowAt(k).end = StartOf(k) + (s.development + s.validation)
  BY DEF WindowAt
<1> HIDE DEF s
<1>5. StartOf(k) + (s.development + s.validation) = StartOf(k) + s.development + s.validation
  BY <1>1, <1>3
<1> QED BY <1>1, <1>3, <1>4, <1>5 DEF s

\* Windows judge no candle twice.
LEMMA WindowsDoNotOverlap ==
    ASSUME NEW k \in Nat \ {0}, NEW l \in Nat \ {0}, NEW p \in Nat,
           p > WindowAt(k).split, p <= WindowAt(k).end, p > WindowAt(l).split, p <= WindowAt(l).end
    PROVE  k = l
<1> DEFINE s == Protocol.settings
<1>1. s.step \in Nat \ {0} /\ s.validation \in Nat /\ s.development \in Nat /\ s.step >= s.validation
  BY SettingsAre
<1>2. ASSUME NEW a \in Nat \ {0}, NEW b \in Nat \ {0}, a < b
      PROVE  WindowAt(a).end <= WindowAt(b).split
  <2> DEFINE x == a - 1
             y == b - 1
             d == s.step
  <2>1. x \in Int /\ y \in Int /\ x < y /\ d \in Nat \ {0}
    BY <1>1, <1>2
  <2> HIDE DEF x, y, d
  <2>2. x * d + d <= y * d
    BY <2>1, TimesIsStrict
  <2>3. StartOf(a) = x * d /\ StartOf(b) = y * d
    BY DEF StartOf, x, y, d
  <2>4. /\ StartOf(a) \in Nat /\ StartOf(b) \in Nat
        /\ WindowAt(b).split = StartOf(b) + s.development
        /\ WindowAt(a).end = StartOf(a) + s.development + s.validation
    BY WindowReaches
  <2> DEFINE u == StartOf(a)
             v == StartOf(b)
  <2>5. u + d <= v /\ d >= s.validation /\ u \in Nat /\ v \in Nat
    BY <1>1, <2>2, <2>3, <2>4 DEF d
  <2> HIDE DEF s, u, v
  <2>6. u + s.development + s.validation <= v + s.development
    BY <1>1, <2>1, <2>5
  <2> QED BY <2>4, <2>6 DEF s, u, v
<1>3. /\ WindowAt(k).end \in Nat /\ WindowAt(k).split \in Nat
      /\ WindowAt(l).end \in Nat /\ WindowAt(l).split \in Nat
  <2>1. \A j \in Nat \ {0} : WindowAt(j).end \in Nat /\ WindowAt(j).split \in Nat
    BY WindowReaches
  <2> QED BY <2>1
<1>4. ~ (k < l) /\ ~ (l < k)
  BY <1>2, <1>3
<1> QED BY <1>4

-----------------------------------------------------------------------------
(* What the summaries of a report add up to.                               *)

CountedFields == {"total", "open", "wins", "losses", "flats", "finalized", "finalSum"}

\* What an outcome adds to a field of the summary it is in.
Worth(field, o) ==
    IF field = "finalSum" THEN IF IsFinal(o) THEN FinalReturn(o) ELSE 0
    ELSE IF Counts(field, o) THEN 1 ELSE 0

CanBeSummed(o) == IsFinal(o) => FinalReturn(o) \in Int

LEMMA WorthIsWhole ==
    ASSUME NEW field, NEW o, CanBeSummed(o) PROVE Worth(field, o) \in Int
BY DEF Worth, CanBeSummed

\* The sum of the final returns of a list.
LEMMA FinalSumIs ==
    ASSUME NEW q, NEW n \in Nat, IsList(q, n), \A i \in 1 .. n : CanBeSummed(q[i])
    PROVE  Summary(q).finalSum = TotalOf([i \in 1 .. n |-> Worth("finalSum", q[i])], n)
<1> DEFINE v == [i \in 1 .. n |-> Worth("finalSum", q[i])]
           I == {i \in 1 .. n : IsFinal(q[i])}
           m == Cardinality(I)
           f == FinalsIn(q)
           order == Ascending(I)
           picked == [k \in 1 .. m |-> v[order[k]]]
           all == [i \in 1 .. n |-> IF i \in I THEN v[i] ELSE 0]
           returns == [i \in DOMAIN f |-> FinalReturn(f[i])]
<1>1. I \in SUBSET (1 .. n) /\ DOMAIN q = 1 .. n
  BY ListIs
<1>2. m \in Nat /\ order \in [1 .. m -> I]
  <2> HIDE DEF I
  <2>1. IsFiniteSet(I) /\ I \in SUBSET Nat /\ m \in Nat
    BY <1>1, IndexSet
  <2> QED BY <2>1, AscendingLists
<1>3. f = [k \in 1 .. m |-> q[order[k]]]
  <2>1. f = Picked(q, I)
    BY <1>1 DEF FinalsIn
  <2>2. DOMAIN order = 1 .. m
    BY <1>2
  <2> HIDE DEF m, f
  <2> QED BY <2>1, <2>2 DEF Picked
<1>4. \A i \in 1 .. n : v[i] \in Int
  BY WorthIsWhole
<1>5. TotalOf(picked, m) = TotalOf(all, n)
  <2> HIDE DEF v, I
  <2> QED BY <1>1, <1>4, PickedTotal
<1>6. TotalOf(all, n) = TotalOf(v, n)
  <2>1. \A i \in 1 .. n : all[i] = v[i] /\ all[i] \in Int
    <3>1. \A i \in 1 .. n : i \notin I => v[i] = 0
      BY DEF Worth
    <3> HIDE DEF v
    <3> QED BY <1>4, <3>1
  <2> HIDE DEF all, v
  <2> QED BY <2>1, TotalsAgree
<1>7. \A k \in 1 .. m : order[k] \in I /\ picked[k] = FinalReturn(q[order[k]])
  <2> SUFFICES ASSUME NEW k \in 1 .. m
               PROVE  order[k] \in I /\ picked[k] = FinalReturn(q[order[k]])
    OBVIOUS
  <2>1. order[k] \in I
    <3> HIDE DEF m, I
    <3> QED BY <1>2
  <2>2. picked[k] = v[order[k]]
    <3> HIDE DEF m, I, v, order
    <3> QED OBVIOUS
  <2>3. \A i \in I : v[i] = FinalReturn(q[i])
    BY DEF Worth
  <2> HIDE DEF I, v, picked, m
  <2> QED BY <2>1, <2>2, <2>3
<1> HIDE DEF I, m, order, v, all
<1>8. DOMAIN f = 1 .. m /\ \A k \in 1 .. m : f[k] = q[order[k]]
  <2> HIDE DEF f
  <2> QED BY <1>3
<1> HIDE DEF f, picked
<1>9. returns = [k \in 1 .. m |-> picked[k]]
  BY <1>7, <1>8
<1>10. Total(returns) = TotalOf(picked, m)
  BY <1>9 DEF TotalOf
<1>11. Summary(q).finalSum = Total(returns)
  <2> HIDE DEF returns
  <2>1. Summary(q) = Aggregate(f, Len(q), Len(q) - Len(f))
    BY DEF Summary, f
  <2> QED BY <2>1 DEF Aggregate, returns
<1> QED BY <1>5, <1>6, <1>10, <1>11 DEF v

\* Every field of a summary is a total over the list.
LEMMA SummaryIsTotal ==
    ASSUME NEW q, NEW n \in Nat, IsList(q, n), \A i \in 1 .. n : CanBeSummed(q[i]),
           NEW field \in CountedFields
    PROVE  Summary(q)[field] = TotalOf([i \in 1 .. n |-> Worth(field, q[i])], n)
<1>1. CASE field = "finalSum"
  BY <1>1, FinalSumIs
<1>2. CASE field # "finalSum"
  <2> DEFINE I == {i \in 1 .. n : Counts(field, q[i])}
             a == [i \in 1 .. n |-> IF i \in I THEN 1 ELSE 0]
             b == [i \in 1 .. n |-> Worth(field, q[i])]
  <2>1. field \in Fields
    BY <1>2 DEF Fields, CountedFields
  <2>2. Summary(q)[field] = CountedBy(field, q, 1 .. n)
    BY <2>1, ListIs, SummaryCounts
  <2>3. CountedBy(field, q, 1 .. n) = Cardinality(I)
    BY DEF CountedBy
  <2>4. Cardinality(I) = TotalOf(a, n)
    <3>1. I \in SUBSET (1 .. n)
      OBVIOUS
    <3> HIDE DEF I
    <3> QED BY <3>1, CountIsTotal
  <2>5. \A i \in 1 .. n : a[i] = b[i] /\ a[i] \in Int
    BY <1>2 DEF Worth
  <2> HIDE DEF a, b, I
  <2>6. TotalOf(a, n) = TotalOf(b, n)
    BY <2>5, TotalsAgree
  <2> QED BY <2>2, <2>3, <2>4, <2>6 DEF b
<1> QED BY <1>1, <1>2

\* The outcomes of a list of rows.
LEMMA OutcomesAre ==
    ASSUME NEW rows, NEW n \in Nat, IsList(rows, n)
    PROVE  LET q == OutcomesOf(rows)
           IN  /\ IsList(q, n) /\ Len(q) = n /\ DOMAIN q = 1 .. n
               /\ \A i \in 1 .. n : q[i] = rows[i].outcome
<1> DEFINE f == [i \in 1 .. n |-> rows[i].outcome]
<1>1. DOMAIN rows = 1 .. n
  BY ListIs
<1>2. OutcomesOf(rows) = Listed(f)
  BY <1>1 DEF OutcomesOf
<1>3. IsList(f, n) /\ \A i \in 1 .. n : f[i] = rows[i].outcome
  BY DEF IsList
<1> HIDE DEF f
<1>4. Listed(f) = f /\ Len(f) = n /\ DOMAIN f = 1 .. n
  BY <1>3, ListedIs
<1> QED BY <1>2, <1>3, <1>4

RowsCanBeSummed(rows, n) == \A i \in 1 .. n : CanBeSummed(rows[i].outcome)

\* What is summed up of the rows picked is what they add to the whole.
LEMMA PickedSummary ==
    ASSUME NEW rows, NEW n \in Nat, IsList(rows, n), RowsCanBeSummed(rows, n),
           NEW I \in SUBSET (1 .. n), NEW field \in CountedFields
    PROVE  LET v == [i \in 1 .. n |-> Worth(field, rows[i].outcome)]
           IN  Summary(OutcomesOf(Picked(rows, I)))[field]
                  = TotalOf([i \in 1 .. n |-> IF i \in I THEN v[i] ELSE 0], n)
<1> DEFINE v == [i \in 1 .. n |-> Worth(field, rows[i].outcome)]
           m == Cardinality(I)
           order == Ascending(I)
           p == Picked(rows, I)
           q == OutcomesOf(p)
           picked == [k \in 1 .. m |-> v[order[k]]]
           all == [i \in 1 .. n |-> IF i \in I THEN v[i] ELSE 0]
           own == [k \in 1 .. m |-> Worth(field, q[k])]
<1>1. m \in Nat /\ order \in [1 .. m -> I]
  <2>1. IsFiniteSet(I) /\ I \in SUBSET Nat /\ m \in Nat
    BY IndexSet
  <2> QED BY <2>1, AscendingLists
<1>2. IsList(p, m) /\ \A k \in 1 .. m : p[k] = rows[order[k]] /\ order[k] \in I
  <2>1. DOMAIN order = 1 .. m
    BY <1>1
  <2>2. p = [k \in 1 .. m |-> rows[order[k]]]
    BY <2>1 DEF Picked
  <2> HIDE DEF p, m, order
  <2> QED BY <1>1, <2>2 DEF IsList
<1> HIDE DEF p, m, order
<1>3. IsList(q, m) /\ \A k \in 1 .. m : q[k] = p[k].outcome
  BY <1>1, <1>2, OutcomesAre
<1>4. \A i \in 1 .. n : v[i] \in Int /\ v[i] = Worth(field, rows[i].outcome)
  BY WorthIsWhole DEF RowsCanBeSummed
<1> HIDE DEF q, v
<1>5. \A k \in 1 .. m : CanBeSummed(q[k])
  <2>1. \A i \in I : CanBeSummed(rows[i].outcome)
    BY DEF RowsCanBeSummed
  <2> QED BY <1>2, <1>3, <2>1
<1>6. Summary(q)[field] = TotalOf(own, m)
  BY <1>1, <1>3, <1>5, SummaryIsTotal
<1>7. \A k \in 1 .. m : picked[k] = own[k] /\ picked[k] \in Int
  <2> SUFFICES ASSUME NEW k \in 1 .. m PROVE picked[k] = own[k] /\ picked[k] \in Int
    OBVIOUS
  <2>1. order[k] \in 1 .. n /\ q[k] = rows[order[k]].outcome
    BY <1>2, <1>3
  <2>2. picked[k] = v[order[k]] /\ own[k] = Worth(field, q[k])
    OBVIOUS
  <2> QED BY <1>4, <2>1, <2>2
<1> HIDE DEF own
<1>8. TotalOf(picked, m) = TotalOf(all, n)
  BY <1>4, PickedTotal DEF m, order
<1> HIDE DEF picked
<1>9. TotalOf(picked, m) = TotalOf(own, m)
  BY <1>1, <1>7, TotalsAgree
<1> QED BY <1>6, <1>8, <1>9 DEF q, p, v

\* Groups of rows by name: one for each name, in the order of the alphabet.
AreGroups(groups, names, rows) ==
    LET order == Sorted(ToSet(names))
    IN  /\ IsList(groups, Len(order))
        /\ \A k \in 1 .. Len(order) :
              /\ groups[k].name = order[k]
              /\ groups[k].summary = Summary(OutcomesOf(RowsOf(order[k], names, rows)))

AreNames(names, n) == DOMAIN names = 1 .. n /\ \A i \in 1 .. n : names[i] \in ToSet(Names)

\* The groups add up to the whole.
LEMMA GroupsAddUp ==
    ASSUME NEW rows, NEW n \in Nat, IsList(rows, n), RowsCanBeSummed(rows, n),
           NEW names, AreNames(names, n), NEW groups, AreGroups(groups, names, rows),
           NEW overall, overall.summary = Summary(OutcomesOf(rows))
    PROVE  Partitions(CountedFields, groups, overall)
<1> SUFFICES ASSUME NEW field \in CountedFields
             PROVE  SumOver(field, groups) = overall.summary[field]
  BY DEF Partitions
<1> DEFINE order == Sorted(ToSet(names))
           m == Len(order)
           v == [i \in 1 .. n |-> Worth(field, rows[i].outcome)]
           In(k) == [i \in 1 .. n |-> IF names[i] = order[k] THEN v[i] ELSE 0]
           sums == [k \in 1 .. m |-> TotalOf(In(k), n)]
           fields == [k \in DOMAIN groups |-> groups[k].summary[field]]
<1>1. /\ m \in Nat /\ DOMAIN order = 1 .. m /\ ToSet(order) = ToSet(names) \intersect ToSet(Names)
      /\ \A i, j \in 1 .. m : order[i] = order[j] => i = j
  BY SortedIs
<1>2. ASSUME NEW i \in 1 .. n PROVE \E k \in 1 .. m : order[k] = names[i]
  <2>1. names[i] \in ToSet(names) /\ names[i] \in ToSet(Names)
    BY DEF AreNames, ToSet
  <2>2. names[i] \in ToSet(order)
    <3> HIDE DEF order
    <3> QED BY <1>1, <2>1
  <2> HIDE DEF order, m
  <2> QED BY <1>1, <2>2 DEF ToSet
<1>3. DOMAIN groups = 1 .. m /\ \A k \in 1 .. m : groups[k].summary = Summary(OutcomesOf(RowsOf(order[k], names, rows)))
  BY <1>1, ListIs DEF AreGroups
<1>4. \A i \in 1 .. n : v[i] \in Int
  BY WorthIsWhole DEF RowsCanBeSummed
<1> HIDE DEF order, m
<1>5. ASSUME NEW k \in 1 .. m PROVE groups[k].summary[field] = TotalOf(In(k), n)
  <2> DEFINE I == {i \in 1 .. n : names[i] = order[k]}
             w == [i \in 1 .. n |-> IF i \in I THEN v[i] ELSE 0]
  <2>1. RowsOf(order[k], names, rows) = Picked(rows, I)
    BY ListIs DEF RowsOf
  <2>2. w = In(k)
    <3> HIDE DEF v
    <3> QED OBVIOUS
  <2>3. I \in SUBSET (1 .. n)
    OBVIOUS
  <2> HIDE DEF I
  <2>4. Summary(OutcomesOf(Picked(rows, I)))[field] = TotalOf(w, n)
    BY <2>3, PickedSummary
  <2> HIDE DEF w, In
  <2> QED BY <1>3, <2>1, <2>2, <2>4
<1>6. TotalOf(sums, m) = TotalOf(v, n)
  <2> DEFINE parts == [k \in 1 .. m |-> In(k)]
  <2>1. \A i \in 1 .. n : \E k \in 1 .. m : order[k] = names[i]
    BY <1>2
  <2>2. /\ m \in Nat /\ \A j, k \in 1 .. m : order[j] = order[k] => j = k
        /\ \A i \in 1 .. n : v[i] \in Int
    BY <1>1, <1>4
  <2> HIDE DEF v
  <2>3. \A k \in 1 .. m, i \in 1 .. n : parts[k][i] = IF names[i] = order[k] THEN v[i] ELSE 0
    OBVIOUS
  <2>4. \A k \in 1 .. m : sums[k] = TotalOf(parts[k], n)
    <3> HIDE DEF In
    <3> QED OBVIOUS
  <2> HIDE DEF parts, sums, In
  <2>5. Shares(sums, parts, order, m, names, v, n)
    BY <2>1, <2>2, <2>3, <2>4 DEF Shares
  <2> QED BY <2>2, <2>5, GroupTotals
<1>7. SumOver(field, groups) = Total(fields)
  BY DEF SumOver
<1> HIDE DEF In
<1>8. fields = sums
  BY <1>3, <1>5
<1>9. Total(sums) = TotalOf(sums, m)
  <2>1. IsList(sums, m)
    BY DEF IsList
  <2> HIDE DEF sums
  <2> QED BY <1>1, <2>1, TotalIs
<1> HIDE DEF fields, sums
<1>10. overall.summary[field] = TotalOf(v, n)
  <2> DEFINE q == OutcomesOf(rows)
             u == [i \in 1 .. n |-> Worth(field, q[i])]
  <2>1. IsList(q, n) /\ \A i \in 1 .. n : q[i] = rows[i].outcome
    BY OutcomesAre
  <2> HIDE DEF q
  <2>2. \A i \in 1 .. n : CanBeSummed(q[i])
    BY <2>1 DEF RowsCanBeSummed
  <2>3. Summary(q)[field] = TotalOf(u, n)
    BY <2>1, <2>2, SummaryIsTotal
  <2>4. u = v
    BY <2>1
  <2> HIDE DEF u, v
  <2> QED BY <2>3, <2>4 DEF q
<1> QED BY <1>6, <1>7, <1>8, <1>9, <1>10

-----------------------------------------------------------------------------
(* The groups of a report.                                                 *)

\* The buckets of a report, the buckets of its regimes and its cells are groups of its rows.
LEMMA BucketsAre ==
    ASSUME NEW names, NEW rows, NEW minimum
    PROVE  AreGroups(Buckets(names, rows, minimum), names, rows)
<1> DEFINE order == Sorted(ToSet(names))
           m == Len(order)
           f == [k \in 1 .. m |-> Bucket(order[k], RowsOf(order[k], names, rows), minimum)]
<1>1. m \in Nat /\ DOMAIN order = 1 .. m
  BY SortedIs
<1>2. IsList(f, m) /\ \A k \in 1 .. m : f[k] = Bucket(order[k], RowsOf(order[k], names, rows), minimum)
  BY DEF IsList
<1>3. Buckets(names, rows, minimum) = Listed(f)
  <2> HIDE DEF m
  <2> QED BY <1>1 DEF Buckets
<1> HIDE DEF f, order, m
<1>4. Listed(f) = f
  BY <1>1, <1>2, ListedIs
<1>5. \A k \in 1 .. m : /\ f[k].name = order[k]
                        /\ f[k].summary = Summary(OutcomesOf(RowsOf(order[k], names, rows)))
  <2> SUFFICES ASSUME NEW k \in 1 .. m
               PROVE  /\ f[k].name = order[k]
                      /\ f[k].summary = Summary(OutcomesOf(RowsOf(order[k], names, rows)))
    OBVIOUS
  <2> DEFINE name == order[k]
             own == RowsOf(name, names, rows)
  <2>1. f[k] = Bucket(name, own, minimum)
    BY <1>2
  <2> HIDE DEF name, own
  <2>2. f[k].name = name /\ f[k].summary = Summary(OutcomesOf(own))
    BY <2>1 DEF Bucket
  <2> QED BY <2>2 DEF name, own
<1> QED BY <1>2, <1>3, <1>4, <1>5 DEF AreGroups, order, m

LEMMA RegimeBucketsAre ==
    ASSUME NEW names, NEW rows, NEW s
    PROVE  AreGroups(RegimeBuckets(names, rows, s), names, rows)
<1> DEFINE order == Sorted(ToSet(names))
           m == Len(order)
           At(k) == Segment("validation", order[k],
                            IF order[k] = "unclassified" THEN None ELSE order[k],
                            RowsOf(order[k], names, rows), s)
           f == [k \in 1 .. m |-> At(k)]
<1>1. m \in Nat /\ DOMAIN order = 1 .. m
  BY SortedIs
<1>2. IsList(f, m) /\ \A k \in 1 .. m : f[k] = At(k)
  BY DEF IsList
<1>3. RegimeBuckets(names, rows, s) = Listed(f)
  <2> HIDE DEF m
  <2> QED BY <1>1 DEF RegimeBuckets
<1> HIDE DEF f, order, m
<1>4. Listed(f) = f
  BY <1>1, <1>2, ListedIs
<1>5. \A k \in 1 .. m : /\ f[k].name = order[k]
                        /\ f[k].summary = Summary(OutcomesOf(RowsOf(order[k], names, rows)))
  <2> SUFFICES ASSUME NEW k \in 1 .. m
               PROVE  /\ f[k].name = order[k]
                      /\ f[k].summary = Summary(OutcomesOf(RowsOf(order[k], names, rows)))
    OBVIOUS
  <2> DEFINE name == order[k]
             own == RowsOf(name, names, rows)
  <2>1. f[k] = Segment("validation", name, IF name = "unclassified" THEN None ELSE name, own, s)
    BY <1>2
  <2> HIDE DEF name, own
  <2>2. f[k].name = name /\ f[k].summary = Summary(OutcomesOf(own))
    BY <2>1 DEF Segment
  <2> QED BY <2>2 DEF name, own
<1> QED BY <1>2, <1>3, <1>4, <1>5 DEF AreGroups, order, m

\* Ranking the cells of a list leaves their names and their summaries.
LEMMA RankedCellsAre ==
    ASSUME NEW cells, NEW m \in Nat, IsList(cells, m), NEW s,
           \A k \in 1 .. m : \E dimension, name, rows : cells[k] = Cell(dimension, name, rows, s)
    PROVE  LET ranked == RankCells(cells, s)
           IN  /\ IsList(ranked, m)
               /\ \A k \in 1 .. m : /\ ranked[k].dimension = cells[k].dimension
                                    /\ ranked[k].name = cells[k].name
                                    /\ ranked[k].summary = cells[k].summary
                                    /\ ranked[k].verdict = cells[k].verdict
<1> DEFINE eligible == {i \in DOMAIN cells : cells[i].summary.finalized >= s.ranking}
           Rank(i) == Cardinality({j \in eligible : RanksBefore(cells[j], cells[i])}) + 1
           f == [i \in DOMAIN cells |->
                    IF i \in eligible THEN [cells[i] EXCEPT !.rank = Rank(i)] ELSE cells[i]]
<1>1. DOMAIN cells = 1 .. m
  BY ListIs
<1>2. RankCells(cells, s) = Listed(f)
  BY DEF RankCells
<1> HIDE DEF eligible, Rank
<1>3. IsList(f, m) /\ \A k \in 1 .. m : f[k] = IF k \in eligible
                                               THEN [cells[k] EXCEPT !.rank = Rank(k)] ELSE cells[k]
  BY <1>1 DEF IsList
<1>4. ASSUME NEW k \in 1 .. m
      PROVE  f[k].name = cells[k].name /\ f[k].summary = cells[k].summary
             /\ f[k].verdict = cells[k].verdict /\ f[k].dimension = cells[k].dimension
  <2>1. PICK dimension, name, rows : cells[k] = Cell(dimension, name, rows, s)
    OBVIOUS
  <2> DEFINE cell == cells[k]
             rank == Rank(k)
             summary == Summary(OutcomesOf(rows))
             verdict == Diagnose(summary, s)
  <2> HIDE DEF summary, verdict
  <2>2. cell = [dimension |-> dimension, name |-> name, summary |-> summary,
                verdict |-> verdict, rank |-> None]
    BY <2>1 DEF Cell, summary, verdict
  <2>3. f[k] = cell \/ f[k] = [cell EXCEPT !.rank = rank]
    BY <1>3
  <2> HIDE DEF rank, cell, f
  <2>4. f[k].name = cell.name /\ f[k].summary = cell.summary /\ f[k].verdict = cell.verdict
        /\ f[k].dimension = cell.dimension
    BY <2>2, <2>3
  <2> QED BY <2>4 DEF cell
<1> HIDE DEF f
<1>5. Listed(f) = f
  BY <1>3, ListedIs
<1> QED BY <1>2, <1>3, <1>4, <1>5

LEMMA CellsAre ==
    ASSUME NEW dimension, NEW names, NEW rows, NEW s
    PROVE  /\ AreGroups(Cells(dimension, names, rows, s), names, rows)
           /\ LET order == Sorted(ToSet(names))
                  cells == Cells(dimension, names, rows, s)
              IN  \A k \in 1 .. Len(order) : /\ cells[k].verdict = Diagnose(cells[k].summary, s)
                                            /\ cells[k].dimension = dimension
<1> DEFINE order == Sorted(ToSet(names))
           m == Len(order)
           At(k) == Cell(dimension, order[k], RowsOf(order[k], names, rows), s)
           f == [k \in 1 .. m |-> At(k)]
<1>1. m \in Nat /\ DOMAIN order = 1 .. m
  BY SortedIs
<1>2. IsList(f, m) /\ \A k \in 1 .. m : f[k] = At(k)
  BY DEF IsList
<1>3. Cells(dimension, names, rows, s) = RankCells(Listed(f), s)
  <2> HIDE DEF m
  <2> QED BY <1>1 DEF Cells
<1> HIDE DEF f, order, m
<1>4. Listed(f) = f
  BY <1>1, <1>2, ListedIs
<1>5. \A k \in 1 .. m : /\ f[k].name = order[k]
                        /\ f[k].summary = Summary(OutcomesOf(RowsOf(order[k], names, rows)))
                        /\ f[k].verdict = Diagnose(f[k].summary, s) /\ f[k].dimension = dimension
  <2> SUFFICES ASSUME NEW k \in 1 .. m
               PROVE  /\ f[k].name = order[k]
                      /\ f[k].summary = Summary(OutcomesOf(RowsOf(order[k], names, rows)))
                      /\ f[k].verdict = Diagnose(f[k].summary, s) /\ f[k].dimension = dimension
    OBVIOUS
  <2> DEFINE name == order[k]
             own == RowsOf(name, names, rows)
  <2>1. f[k] = Cell(dimension, name, own, s)
    BY <1>2
  <2> HIDE DEF name, own
  <2>2. /\ f[k].name = name /\ f[k].summary = Summary(OutcomesOf(own))
        /\ f[k].verdict = Diagnose(f[k].summary, s) /\ f[k].dimension = dimension
    BY <2>1 DEF Cell
  <2> QED BY <2>2 DEF name, own
<1>6. \A k \in 1 .. m : \E d, n, r : f[k] = Cell(d, n, r, s)
  <2> SUFFICES ASSUME NEW k \in 1 .. m PROVE \E d, n, r : f[k] = Cell(d, n, r, s)
    OBVIOUS
  <2> WITNESS dimension, order[k], RowsOf(order[k], names, rows)
  <2> QED BY <1>2
<1> DEFINE ranked == RankCells(f, s)
<1>7. /\ IsList(ranked, m)
      /\ \A k \in 1 .. m : /\ ranked[k].name = f[k].name /\ ranked[k].summary = f[k].summary
                           /\ ranked[k].verdict = f[k].verdict /\ ranked[k].dimension = f[k].dimension
  BY <1>1, <1>2, <1>6, RankedCellsAre
<1> HIDE DEF ranked
<1>8. Cells(dimension, names, rows, s) = ranked
  BY <1>3, <1>4 DEF ranked
<1> QED BY <1>5, <1>7, <1>8 DEF AreGroups, order, m

-----------------------------------------------------------------------------
(* The rows of a report, candle by candle.                                 *)

\* What a window has of the candles of its dataset.
LEMMA PartIs ==
    ASSUME NEW m \in Markets, NEW series \in Series, NEW L \in Nat, L <= Len(m[series.key]),
           NEW detection \in Detections, NEW k \in Nat \ {0},
           WindowAt(k).end <= L
    PROVE  LET q == SubSeq(m[series.key], 1, L)
               part == PartOf(DatasetWith(series, q), k)
               w == Protocol.settings.development + Protocol.settings.validation
           IN  /\ part = DatasetWith(series, part.candles)
               /\ Legible(part.candles, detection) /\ w \in Nat /\ Len(part.candles) = w
               /\ Len(q) = L
               /\ \A i \in 1 .. w :
                     /\ part.candles[i] = q[StartOf(k) + i] /\ StartOf(k) + i \in 1 .. L
                     /\ SubSeq(part.candles, 1, i) = SeenBy(q, k, StartOf(k) + i)
<1> DEFINE h == m[series.key]
           q == SubSeq(h, 1, L)
           part == PartOf(DatasetWith(series, q), k)
           w == Protocol.settings.development + Protocol.settings.validation
           a == StartOf(k) + 1
           b == StartOf(k) + w
           Own == SubSeq(q, a, b)
<1>1. series.key \in Keys
  BY DEF Keys
<1>2. h \in Seq(Prices)
  BY <1>1, MarketIs
<1>3. /\ StartOf(k) \in Nat /\ WindowAt(k).start = StartOf(k) /\ WindowAt(k).end = b
      /\ w \in Nat /\ w >= 1 /\ b <= L
  <2> DEFINE d == Protocol.settings.development
             v == Protocol.settings.validation
             u == StartOf(k)
             e == WindowAt(k).end
  <2>1. /\ u \in Nat /\ d \in Nat \ {0} /\ v \in Nat \ {0} /\ WindowAt(k).start = u
        /\ e = u + d + v
    BY WindowReaches
  <2> HIDE DEF u, d, v, e
  <2>2. e = u + (d + v) /\ d + v \in Nat /\ d + v >= 1
    BY <2>1
  <2> QED BY <2>1, <2>2 DEF u, d, v, e
<1>4. part = DatasetWith(series, Own)
  <2> DEFINE window == WindowAt(k)
  <2> HIDE DEF q, window
  <2>1. WindowDataset(DatasetWith(series, q), window)
          = DatasetWith(series, SubSeq(q, window.start + 1, window.end))
    BY WindowDatasetIs
  <2> QED BY <1>3, <2>1 DEF PartOf, window
<1> HIDE DEF h
<1>5. q \in Seq(Prices) /\ Len(q) = L
  BY <1>2 DEF h
<1> HIDE DEF w
<1>6. a \in Nat \ {0} /\ b \in Nat /\ a <= b /\ b - a + 1 = w
  BY <1>3
<1>7. Own = SubSeq(h, a, b)
  <2> HIDE DEF a, b
  <2> QED BY <1>2, <1>3, <1>6, PartOfAPart DEF h
<1> HIDE DEF a, b, Own
<1>8. Legible(Own, detection)
  BY <1>1, <1>3, <1>6, <1>7, PartsAreLegible DEF h
<1>9. ASSUME NEW i \in 1 .. w
      PROVE  /\ Own[i] = q[StartOf(k) + i] /\ StartOf(k) + i \in 1 .. L
             /\ SubSeq(Own, 1, i) = SubSeq(q, StartOf(k) + 1, StartOf(k) + i)
  <2>1. i \in 1 .. b - a + 1 /\ b <= Len(q)
    BY <1>3, <1>5, <1>6
  <2> DEFINE p == a + i - 1
  <2> HIDE DEF q
  <2>2. /\ p \in 1 .. Len(q) /\ Own[i] = q[p] /\ SubSeq(Own, 1, i) = SubSeq(q, a, p)
    BY <1>5, <1>6, <2>1, FirstOfAPart DEF Own
  <2>3. p = StartOf(k) + i
    BY <1>3, <1>6 DEF a
  <2> QED BY <1>5, <2>2, <2>3 DEF a
<1>10. Len(Own) = w
  <2> HIDE DEF q
  <2> QED BY <1>3, <1>5, <1>6 DEF Own
<1>11. part.candles = Own
  BY <1>4 DEF DatasetWith
<1> HIDE DEF part, q
<1> QED BY <1>3, <1>4, <1>5, <1>8, <1>9, <1>10, <1>11 DEF part, q, SeenBy, w, h

\* A row of a window judges a BUY of the dataset.
LEMMA RowJudgesIt ==
    ASSUME NEW m \in Markets, NEW series \in Series, NEW L \in Nat, L <= Len(m[series.key]),
           NEW c \in EngineSettings, NEW k \in Nat \ {0}, WindowAt(k).end <= L,
           NEW row, NEW i \in Nat, i > Protocol.settings.development,
           LET q == SubSeq(m[series.key], 1, L)
               part == PartOf(DatasetWith(series, q), k)
           IN  i \in 1 .. Len(part.candles) /\ RowSays(row, part, c, i)
    PROVE  LET q == SubSeq(m[series.key], 1, L)
               p == StartOf(k) + i
           IN  IsJudged(q, c, k, p) /\ RowJudges(row, series, q, c, k, p)
<1> DEFINE q == SubSeq(m[series.key], 1, L)
           part == PartOf(DatasetWith(series, q), k)
           u == StartOf(k)
           d == Protocol.settings.development
           v == Protocol.settings.validation
           w == d + v
           p == u + i
           own == part.candles
           g == c.horizon
           split == WindowAt(k).split
           end == WindowAt(k).end
           o == row.outcome
<1>1. c.detection \in Detections /\ g \in Nat \ {0}
  BY DEF EngineSettings
<1>2. /\ part = DatasetWith(series, own) /\ w \in Nat /\ Len(own) = w /\ Len(q) = L
      /\ \A j \in 1 .. w : /\ own[j] = q[u + j] /\ u + j \in 1 .. L
                           /\ SubSeq(own, 1, j) = SeenBy(q, k, u + j)
  BY <1>1, PartIs
<1>3. /\ u \in Nat /\ d \in Nat \ {0} /\ v \in Nat \ {0} /\ split = u + d /\ end = u + d + v
  BY WindowReaches
<1>4. i \in 1 .. w /\ i > d /\ RowSays(row, part, c, i)
  BY <1>2
<1>5. /\ part.key = series.key /\ part.symbol = series.symbol
      /\ part.timeframe = series.timeframe
  BY <1>2 DEF DatasetWith
<1> HIDE DEF q, part, own, u, d, v, g, split, end
<1>6. /\ SaysBuy(own, c, i) /\ row.key = part.key /\ row.symbol = part.symbol
      /\ row.timeframe = part.timeframe /\ row.index = i - 1 /\ row.openedAt = own[i].openedAt
      /\ row.labels = Labels(SubSeq(own, 1, i), c.detection)
      /\ row.combination = Combination[row.labels] /\ OutcomeSays(o, own, c, i)
  BY <1>4 DEF RowSays, own
<1>7. own[i] = q[p] /\ p \in 1 .. L /\ SubSeq(own, 1, i) = SeenBy(q, k, p)
  BY <1>2, <1>4
<1>8. p > split /\ p <= end /\ p - u - 1 = i - 1 /\ (i + g > w <=> p + g > end)
  BY <1>1, <1>3, <1>4
<1>9. ~ (p + g > end) => own[i + g] = q[p + g]
  <2> SUFFICES ASSUME ~ (p + g > end) PROVE own[i + g] = q[p + g]
    OBVIOUS
  <2>1. i + g \in 1 .. w /\ u + (i + g) = p + g
    BY <1>1, <1>3, <1>4, <1>8
  <2> QED BY <1>2, <2>1
<1>10. IsJudged(q, c, k, p)
  BY <1>2, <1>6, <1>7, <1>8 DEF IsJudged, SaysBuy, split, end
<1> HIDE DEF p, w, o
<1>11. /\ o.reference.openedAt = own[i].openedAt /\ o.referenceClose = own[i].close
       /\ o.settings = SettingsOf(c) /\ OutcomeIsValid(o)
       /\ IF i + g > w THEN o.status = "OPEN"
          ELSE /\ o.status = ClassifyOutcome(own[i + g].close - own[i].close)
               /\ o.final.price = own[i + g].close
  BY <1>2, <1>6 DEF OutcomeSays, g
<1>12. IF p + g > end THEN o.status = "OPEN"
       ELSE /\ o.status = ClassifyOutcome(q[p + g].close - q[p].close)
            /\ o.final.price = q[p + g].close
  BY <1>7, <1>8, <1>9, <1>11
<1>13. RowJudges(row, series, q, c, k, p)
  BY <1>5, <1>6, <1>7, <1>8, <1>11, <1>12 DEF RowJudges, o, g, end, u
<1> QED BY <1>10, <1>13 DEF q, p, u

\* Rows that judge the BUYs of one window, each once.
JudgeWindow(rows, series, q, c, k) ==
    /\ Len(rows) \in Nat /\ IsList(rows, Len(rows))
    /\ \A j \in 1 .. Len(rows) :
          \E p \in 1 .. Len(q) : IsJudged(q, c, k, p) /\ RowJudges(rows[j], series, q, c, k, p)
    /\ \A p \in 1 .. Len(q) :
          IsJudged(q, c, k, p) => \E j \in 1 .. Len(rows) : RowJudges(rows[j], series, q, c, k, p)
    /\ \A j, l \in 1 .. Len(rows) : rows[j].index = rows[l].index => j = l

LEMMA WindowRowsAre ==
    ASSUME NEW m \in Markets, NEW series \in Series, NEW L \in Nat, L <= Len(m[series.key]),
           NEW c \in EngineSettings, NEW k \in Nat \ {0}, WindowAt(k).end <= L
    PROVE  LET q == SubSeq(m[series.key], 1, L)
               result == EvaluateDataset(DatasetWith(series, q), c, Protocol.settings)
           IN  /\ k \in 1 .. Len(result.windows)
               /\ JudgeWindow(result.windows[k].validation.rows, series, q, c, k)
<1> DEFINE q == SubSeq(m[series.key], 1, L)
           dataset == DatasetWith(series, q)
           result == EvaluateDataset(dataset, c, Protocol.settings)
           rows == result.windows[k].validation.rows
           n == Len(rows)
           part == PartOf(dataset, k)
           own == part.candles
           u == StartOf(k)
           d == Protocol.settings.development
           v == Protocol.settings.validation
           w == d + v
<1>1. c.detection \in Detections
  BY DEF EngineSettings
<1>2. /\ Legible(own, c.detection) /\ w \in Nat /\ Len(own) = w /\ Len(q) = L
      /\ \A j \in 1 .. w : /\ own[j] = q[u + j] /\ u + j \in 1 .. L
                           /\ SubSeq(own, 1, j) = SeenBy(q, k, u + j)
  BY <1>1, PartIs
<1>3. /\ u \in Nat /\ d \in Nat \ {0} /\ v \in Nat \ {0}
      /\ WindowAt(k).split = u + d /\ WindowAt(k).end = u + d + v
  BY WindowReaches
<1>4. dataset.candles = q
  BY DEF DatasetWith
<1>5. ASSUME NEW row, NEW i \in 1 .. w, i > d, RowSays(row, part, c, i)
      PROVE  IsJudged(q, c, k, u + i) /\ RowJudges(row, series, q, c, k, u + i)
  <2>1. i \in Nat /\ i \in 1 .. Len(own)
    BY <1>2, <1>5
  <2> QED BY <1>5, <2>1, RowJudgesIt
<1> HIDE DEF q, dataset, u, d, v
<1>6. k \in 1 .. Len(PlanWindows(dataset, Protocol.settings))
  <2>1. u + d + v <= Len(dataset.candles) /\ Len(dataset.candles) \in Nat
    BY <1>2, <1>3, <1>4
  <2> QED BY <2>1, WindowsAre DEF u, d, v
<1>7. k \in 1 .. Len(result.windows)
  <2> HIDE DEF result
  <2>1. Len(dataset.candles) \in Nat
    BY <1>2, <1>4
  <2>2. Len(result.windows) = Len(PlanWindows(dataset, Protocol.settings))
    BY <2>1, ResultIs DEF result
  <2> QED BY <1>6, <2>2
<1>8. /\ n \in Nat /\ IsList(rows, n)
      /\ \A j \in 1 .. n : \E i \in 1 .. Len(own) : i > d /\ RowSays(rows[j], part, c, i)
      /\ \A i \in 1 .. Len(own) : i > d /\ SaysBuy(own, c, i) => \E j \in 1 .. n : rows[j].index = i - 1
      /\ \A j, l \in 1 .. n : rows[j].index = rows[l].index => j = l
  <2>1. Len(dataset.candles) \in Nat
    BY <1>2, <1>4
  <2> QED BY <1>2, <1>6, <2>1, ValidationRowsAre DEF d
<1> HIDE DEF result, rows, n, part, own, w
<1>9. ASSUME NEW j \in 1 .. n
      PROVE  \E p \in 1 .. Len(q) : IsJudged(q, c, k, p) /\ RowJudges(rows[j], series, q, c, k, p)
  <2>1. PICK i \in 1 .. Len(own) : i > d /\ RowSays(rows[j], part, c, i)
    BY <1>8
  <2>2. i \in 1 .. w
    BY <1>2
  <2> DEFINE p == u + i
  <2>3. p \in 1 .. Len(q) /\ IsJudged(q, c, k, p) /\ RowJudges(rows[j], series, q, c, k, p)
    BY <1>2, <1>5, <2>1, <2>2
  <2> HIDE DEF p
  <2> QED BY <2>3
<1>10. ASSUME NEW p \in 1 .. Len(q), IsJudged(q, c, k, p)
       PROVE  \E j \in 1 .. n : RowJudges(rows[j], series, q, c, k, p)
  <2> DEFINE i == p - u
  <2>1. p > u + d /\ p <= u + d + v /\ Score(SeenBy(q, k, p), c.detection) >= c.chain
    BY <1>3, <1>10 DEF IsJudged
  <2>2. p \in Nat /\ i \in 1 .. w /\ i > d /\ u + i = p
    <3>1. p \in Nat
      BY <1>2
    <3> QED BY <1>3, <2>1, <3>1 DEF w
  <2> HIDE DEF i
  <2>3. SaysBuy(own, c, i)
    BY <1>2, <2>1, <2>2 DEF SaysBuy
  <2>4. PICK j \in 1 .. n : rows[j].index = i - 1
    BY <1>2, <1>8, <2>2, <2>3
  <2>5. PICK l \in 1 .. w : l > d /\ RowSays(rows[j], part, c, l)
    BY <1>2, <1>8
  <2>6. l = i
    <3>1. rows[j].index = l - 1
      BY <2>5 DEF RowSays
    <3> QED BY <1>2, <2>2, <2>4, <3>1
  <2>7. RowJudges(rows[j], series, q, c, k, p)
    BY <1>5, <2>2, <2>5, <2>6
  <2> QED BY <2>7
<1>11. JudgeWindow(rows, series, q, c, k)
  BY <1>8, <1>9, <1>10 DEF JudgeWindow, n
<1> QED BY <1>7, <1>11 DEF rows, q, result, dataset

\* Where the BUYs of a dataset are judged: window and candle.
Judgments(q, c) ==
    {x \in Nat \X Nat : /\ x[1] >= 1 /\ WindowAt(x[1]).end <= Len(q)
                        /\ x[2] \in 1 .. Len(q) /\ IsJudged(q, c, x[1], x[2])}

\* Rows that judge the BUYs of a dataset, each once.
JudgeDataset(rows, series, q, c) ==
    /\ Len(rows) \in Nat /\ IsList(rows, Len(rows))
    /\ \A j \in 1 .. Len(rows) :
          \E x \in Judgments(q, c) : RowJudges(rows[j], series, q, c, x[1], x[2])
    /\ \A x \in Judgments(q, c) :
          \E j \in 1 .. Len(rows) : RowJudges(rows[j], series, q, c, x[1], x[2])
    /\ \A j, l \in 1 .. Len(rows) : rows[j].openedAt = rows[l].openedAt => j = l

\* A candle is judged in one window.
LEMMA JudgedOnce ==
    ASSUME NEW q, Len(q) \in Nat, NEW c, NEW x \in Judgments(q, c), NEW y \in Judgments(q, c),
           x[2] = y[2]
    PROVE  x = y
<1>1. /\ x = <<x[1], x[2]>> /\ y = <<y[1], y[2]>>
      /\ x[1] \in Nat \ {0} /\ y[1] \in Nat \ {0} /\ x[2] \in Nat
      /\ x[2] > WindowAt(x[1]).split /\ x[2] <= WindowAt(x[1]).end
      /\ y[2] > WindowAt(y[1]).split /\ y[2] <= WindowAt(y[1]).end
  BY DEF Judgments, IsJudged
<1>2. x[1] = y[1]
  BY <1>1, WindowsDoNotOverlap
<1> QED BY <1>1, <1>2

\* The validation rows of a dataset.
LEMMA DatasetRowsAre ==
    ASSUME NEW m \in Markets, NEW series \in Series, NEW L \in Nat, L <= Len(m[series.key]),
           NEW c \in EngineSettings
    PROVE  LET q == SubSeq(m[series.key], 1, L)
               result == EvaluateDataset(DatasetWith(series, q), c, Protocol.settings)
           IN  JudgeDataset(ValidationRows(result), series, q, c)
<1> DEFINE q == SubSeq(m[series.key], 1, L)
           dataset == DatasetWith(series, q)
           result == EvaluateDataset(dataset, c, Protocol.settings)
           W == Len(result.windows)
           lists == [k \in DOMAIN result.windows |-> result.windows[k].validation.rows]
           rows == Concatenated(lists)
           n == Len(rows)
<1>1. series.key \in Keys
  BY DEF Keys
<1>2. m[series.key] \in Seq(Prices)
  BY <1>1, MarketIs
<1>3. /\ q \in Seq(Prices) /\ Len(q) = L
      /\ \A i \in 1 .. L : q[i] = m[series.key][i]
  <2> DEFINE h == m[series.key]
  <2> HIDE DEF h
  <2>1. h \in Seq(Prices) /\ L <= Len(h)
    BY <1>2 DEF h
  <2>2. SubSeq(h, 1, L) \in Seq(Prices) /\ Len(SubSeq(h, 1, L)) = L
        /\ \A i \in 1 .. L : SubSeq(h, 1, L)[i] = h[i]
    BY <2>1
  <2> QED BY <2>2 DEF h
<1>4. dataset.candles = q
  BY DEF DatasetWith
<1>5. \A k \in Nat \ {0} : WindowAt(k).end <= L =>
         k \in 1 .. W /\ JudgeWindow(result.windows[k].validation.rows, series, q, c, k)
  BY WindowRowsAre
<1>6. \A i, j \in 1 .. L : i < j => q[i].openedAt < q[j].openedAt
  <2> SUFFICES ASSUME NEW i \in 1 .. L, NEW j \in 1 .. L, i < j
               PROVE  q[i].openedAt < q[j].openedAt
    OBVIOUS
  <2> DEFINE h == m[series.key]
  <2>1. i \in DOMAIN h /\ j \in DOMAIN h
    <3> HIDE DEF h
    <3>1. h \in Seq(Prices) /\ L <= Len(h)
      BY <1>2 DEF h
    <3> QED BY <3>1
  <2>2. h[i].openedAt < h[j].openedAt
    BY <1>1, <2>1, MarketsAssumption
  <2> HIDE DEF q
  <2> QED BY <1>3, <2>2
<1> HIDE DEF q, dataset
<1>7. /\ W \in Nat /\ DOMAIN result.windows = 1 .. W
      /\ \A k \in 1 .. W : k \in Nat \ {0} /\ WindowAt(k).end <= L
  <2> HIDE DEF result
  <2> DEFINE plan == PlanWindows(dataset, Protocol.settings)
  <2>1. Len(dataset.candles) \in Nat /\ Len(dataset.candles) = L
    BY <1>3, <1>4
  <2>2. Len(plan) \in Nat /\ W = Len(plan) /\ DOMAIN result.windows = 1 .. W
    BY <2>1, ResultIs DEF result
  <2>3. \A k \in 1 .. Len(plan) : plan[k] = WindowAt(k) /\ plan[k].end <= Len(dataset.candles)
    BY <2>1, WindowsAre
  <2> HIDE DEF plan
  <2> QED BY <2>1, <2>2, <2>3
<1> HIDE DEF result, W
<1>8. \A k \in 1 .. W : lists[k] = result.windows[k].validation.rows
  BY <1>7
<1>9. Len(lists) = W /\ IsList(lists, W)
  <2>1. IsList(lists, W)
    BY <1>7 DEF IsList
  <2> HIDE DEF lists
  <2> QED BY <1>7, <2>1, ListIs
<1>10. \A k \in 1 .. W : JudgeWindow(lists[k], series, q, c, k)
  BY <1>5, <1>7, <1>8
<1> HIDE DEF lists
<1>11. IsJoined(rows, lists, W)
  <2>1. \A k \in 1 .. W : Len(lists[k]) \in Nat /\ IsList(lists[k], Len(lists[k]))
    BY <1>10 DEF JudgeWindow
  <2> QED BY <1>7, <1>9, <2>1, ConcatenatedIs
<1> HIDE DEF rows
<1>12. n \in Nat /\ IsList(rows, n)
  BY <1>11 DEF IsJoined
<1>13. PICK at : Lays(at, rows, lists, W)
  BY <1>11 DEF IsJoined
<1> HIDE DEF n
<1>14. \A j \in 1 .. n : /\ at[j] \in Places(lists, W)
                         /\ rows[j] = lists[at[j][1]][at[j][2]]
  BY <1>13 DEF Lays, n
<1>15. ASSUME NEW j \in 1 .. n
       PROVE  \E p \in 1 .. L : /\ <<at[j][1], p>> \in Judgments(q, c)
                                /\ RowJudges(rows[j], series, q, c, at[j][1], p)
  <2> DEFINE k == at[j][1]
             l == at[j][2]
  <2>1. k \in 1 .. W /\ l \in 1 .. Len(lists[k]) /\ rows[j] = lists[k][l]
    BY <1>14 DEF Places
  <2>2. PICK p \in 1 .. Len(q) : IsJudged(q, c, k, p) /\ RowJudges(lists[k][l], series, q, c, k, p)
    BY <1>10, <2>1 DEF JudgeWindow
  <2> DEFINE x == <<k, p>>
  <2>3. x \in Nat \X Nat /\ x[1] = k /\ x[2] = p
    BY <1>3, <1>7, <2>1
  <2> HIDE DEF x, k
  <2>4. x \in Judgments(q, c)
    BY <1>3, <1>7, <2>1, <2>2, <2>3 DEF Judgments
  <2> QED BY <1>3, <2>1, <2>2, <2>4 DEF x, k
<1>16. ASSUME NEW j \in 1 .. n
       PROVE  \E x \in Judgments(q, c) : RowJudges(rows[j], series, q, c, x[1], x[2])
  <2>1. PICK p \in 1 .. L : /\ <<at[j][1], p>> \in Judgments(q, c)
                            /\ RowJudges(rows[j], series, q, c, at[j][1], p)
    BY <1>15
  <2> DEFINE x == <<at[j][1], p>>
  <2>2. x \in Judgments(q, c) /\ x[1] = at[j][1] /\ x[2] = p
    BY <2>1
  <2> HIDE DEF x
  <2> QED BY <2>1, <2>2
<1>17. ASSUME NEW x \in Judgments(q, c)
       PROVE  \E j \in 1 .. n : RowJudges(rows[j], series, q, c, x[1], x[2])
  <2>1. /\ x[1] \in 1 .. W /\ x[2] \in 1 .. Len(q) /\ IsJudged(q, c, x[1], x[2])
    <3>1. x[1] \in Nat \ {0} /\ WindowAt(x[1]).end <= L
      BY <1>3 DEF Judgments
    <3> QED BY <1>5, <3>1 DEF Judgments
  <2>2. PICK l \in 1 .. Len(lists[x[1]]) : RowJudges(lists[x[1]][l], series, q, c, x[1], x[2])
    BY <1>10, <2>1 DEF JudgeWindow
  <2> DEFINE y == <<x[1], l>>
  <2>3. y[1] = x[1] /\ y[2] = l /\ y \in Places(lists, W)
    <3>1. x[1] \in Nat /\ l \in Nat
      <4>1. Len(lists[x[1]]) \in Nat
        BY <1>10, <2>1 DEF JudgeWindow
      <4> QED BY <1>7, <2>1, <4>1
    <3> QED BY <2>1, <3>1 DEF Places
  <2> HIDE DEF y
  <2>4. PICK j \in 1 .. n : at[j] = y
    BY <1>13, <2>3 DEF Lays, n
  <2>5. rows[j] = lists[x[1]][l]
    BY <1>14, <2>3, <2>4
  <2> QED BY <2>2, <2>5
<1>18. ASSUME NEW j \in 1 .. n, NEW l \in 1 .. n, rows[j].openedAt = rows[l].openedAt
       PROVE  j = l
  <2> DEFINE J == at[j][1]
             K == at[l][1]
  <2>1. PICK p \in 1 .. L : /\ <<J, p>> \in Judgments(q, c)
                            /\ RowJudges(rows[j], series, q, c, J, p)
    BY <1>15
  <2>2. PICK r \in 1 .. L : /\ <<K, r>> \in Judgments(q, c)
                            /\ RowJudges(rows[l], series, q, c, K, r)
    BY <1>15
  <2>3. q[p].openedAt = q[r].openedAt
    BY <1>18, <2>1, <2>2 DEF RowJudges
  <2>4. p = r
    <3>1. q[p] \in Prices /\ q[r] \in Prices
      BY <1>3
    <3>2. q[p].openedAt \in Nat /\ q[r].openedAt \in Nat
      BY <3>1 DEF Prices
    <3>3. ~ (p < r) /\ ~ (r < p)
      BY <1>6, <2>3, <3>2
    <3> QED BY <3>3
  <2> DEFINE x == <<J, p>>
             y == <<K, r>>
  <2>5. x \in Judgments(q, c) /\ y \in Judgments(q, c) /\ x[2] = y[2] /\ x[1] = J /\ y[1] = K
    BY <2>1, <2>2, <2>4
  <2> HIDE DEF x, y
  <2>6. J = K
    BY <1>3, <2>5, JudgedOnce
  <2>7. rows[j].index = rows[l].index
    BY <2>1, <2>2, <2>4, <2>6 DEF RowJudges
  <2>8. /\ J \in 1 .. W /\ at[j] = <<J, at[j][2]>> /\ at[l] = <<K, at[l][2]>>
        /\ at[j][2] \in 1 .. Len(lists[J]) /\ at[l][2] \in 1 .. Len(lists[J])
        /\ rows[j] = lists[J][at[j][2]] /\ rows[l] = lists[J][at[l][2]]
    <3>1. \A i \in 1 .. n : /\ at[i] = <<at[i][1], at[i][2]>> /\ at[i][1] \in 1 .. W
                            /\ at[i][2] \in 1 .. Len(lists[at[i][1]])
                            /\ rows[i] = lists[at[i][1]][at[i][2]]
      <4> SUFFICES ASSUME NEW i \in 1 .. n
                   PROVE  /\ at[i] = <<at[i][1], at[i][2]>> /\ at[i][1] \in 1 .. W
                          /\ at[i][2] \in 1 .. Len(lists[at[i][1]])
                          /\ rows[i] = lists[at[i][1]][at[i][2]]
        OBVIOUS
      <4> DEFINE a == at[i]
      <4>1. a \in Places(lists, W) /\ rows[i] = lists[a[1]][a[2]]
        BY <1>14
      <4> HIDE DEF a
      <4>2. /\ a = <<a[1], a[2]>> /\ a[1] \in 1 .. W /\ a[2] \in 1 .. Len(lists[a[1]])
        BY <4>1 DEF Places
      <4> QED BY <4>1, <4>2 DEF a
    <3> QED BY <2>6, <3>1
  <2>9. at[j][2] = at[l][2]
    BY <1>10, <2>7, <2>8 DEF JudgeWindow
  <2>10. at[j] = at[l]
    BY <2>6, <2>8, <2>9
  <2> QED BY <1>13, <2>10 DEF Lays, n
<1>19. JudgeDataset(rows, series, q, c)
  BY <1>12, <1>16, <1>17, <1>18 DEF JudgeDataset, n
<1>20. ValidationRows(result) = rows
  BY DEF ValidationRows, rows, lists
<1> QED BY <1>19, <1>20 DEF q, result, dataset

\* The candles recorded of a series.
Known(m, series, lengths) == SubSeq(m[series.key], 1, lengths[series.key])

\* Rows that judge the BUYs of a group of series, each once.
JudgeGroup(rows, m, group, lengths, c) ==
    /\ Len(rows) \in Nat /\ IsList(rows, Len(rows))
    /\ \A j \in 1 .. Len(rows) :
          \E series \in group : \E x \in Judgments(Known(m, series, lengths), c) :
              RowJudges(rows[j], series, Known(m, series, lengths), c, x[1], x[2])
    /\ \A series \in group : \A x \in Judgments(Known(m, series, lengths), c) :
          \E j \in 1 .. Len(rows) :
              RowJudges(rows[j], series, Known(m, series, lengths), c, x[1], x[2])
    /\ \A j, l \in 1 .. Len(rows) :
          rows[j].key = rows[l].key /\ rows[j].openedAt = rows[l].openedAt => j = l

\* The results of a report, one for each series of the group.
LEMMA ResultsAre ==
    ASSUME NEW m, NEW group \in Groups, NEW lengths, NEW c
    PROVE  LET results == ReportsFor(m, group, lengths, c).robustness.results
               n == Len(KeysIn(group))
           IN  /\ Len(results) = n /\ IsList(results, n) /\ DOMAIN results = 1 .. n
               /\ \A i \in 1 .. n :
                     results[i] = EvaluateDataset(DatasetFrom(m, ItsSeries(group, i), lengths), c,
                                                  Protocol.settings)
<1> DEFINE datasets == DatasetsFrom(m, group, lengths)
           n == Len(KeysIn(group))
           At(i) == EvaluateDataset(DatasetFrom(m, ItsSeries(group, i), lengths), c, Protocol.settings)
           f == [i \in DOMAIN datasets |-> EvaluateDataset(datasets[i], c, Protocol.settings)]
           results == ReportsFor(m, group, lengths, c).robustness.results
<1>1. results = Listed(f)
  BY DEF ReportsFor, ReportsOf, Robustness, ReportResults, RobustnessReport
<1>2. DOMAIN datasets = 1 .. n /\ n \in Nat
  BY DatasetsAre, KeysAre DEF Groups
<1>3. IsList(f, n) /\ \A i \in 1 .. n : f[i] = At(i)
  BY <1>2 DEF IsList, DatasetsFrom
<1> HIDE DEF f, results, n, At
<1>4. Listed(f) = f /\ Len(f) = n /\ DOMAIN f = 1 .. n
  BY <1>2, <1>3, ListedIs
<1> QED BY <1>1, <1>3, <1>4 DEF results, n, At

\* The rows of a robustness report.
LEMMA ReportRowsAre ==
    ASSUME NEW m \in Markets, NEW group \in Groups, NEW lengths, AreLengths(lengths, m),
           NEW c \in EngineSettings
    PROVE  JudgeGroup(ReportsFor(m, group, lengths, c).robustness.rows, m, group, lengths, c)
<1> DEFINE N == Len(KeysIn(group))
           report == ReportsFor(m, group, lengths, c).robustness
           results == report.results
           Its(i) == ItsSeries(group, i)
           K(i) == Known(m, Its(i), lengths)
           lists == [i \in DOMAIN results |-> ValidationRows(results[i])]
           rows == report.rows
           n == Len(rows)
<1>1. /\ N \in Nat /\ \A i \in 1 .. N : Its(i) \in Series /\ Its(i) \in group
      /\ \A series \in group : \E i \in 1 .. N : series = Its(i)
      /\ \A i, j \in 1 .. N : Its(i) = Its(j) => i = j
  BY KeysAre DEF Groups
<1>2. DOMAIN results = 1 .. N /\ \A i \in 1 .. N :
         results[i] = EvaluateDataset(DatasetFrom(m, Its(i), lengths), c, Protocol.settings)
  BY ResultsAre
<1>3. rows = Concatenated(lists)
  <2> DEFINE datasets == DatasetsFrom(m, group, lengths)
             f == Listed([i \in DOMAIN datasets |-> EvaluateDataset(datasets[i], c, Protocol.settings)])
  <2>1. report = ReportResults(f, c.minimum, Protocol.settings)
    BY DEF ReportsFor, ReportsOf, Robustness
  <2> HIDE DEF f
  <2>2. results = f /\ rows = Concatenated([i \in DOMAIN f |-> ValidationRows(f[i])])
    BY <2>1 DEF ReportResults, RobustnessReport
  <2> HIDE DEF report
  <2> QED BY <2>2
<1> HIDE DEF report, N, Its
<1>4. ASSUME NEW i \in 1 .. N PROVE JudgeDataset(lists[i], Its(i), K(i), c)
  <2> DEFINE series == Its(i)
             L == lengths[series.key]
  <2>1. series \in Series /\ L \in Nat /\ L <= Len(m[series.key])
    <3>1. series \in Series /\ series.key \in Keys
      BY <1>1 DEF Keys
    <3> QED BY <3>1 DEF AreLengths
  <2>2. lists[i] = ValidationRows(results[i])
    BY <1>2
  <2>3. results[i] = EvaluateDataset(DatasetWith(series, SubSeq(m[series.key], 1, L)), c,
                                     Protocol.settings)
    BY <1>2 DEF DatasetFrom
  <2> HIDE DEF series, L, lists, results
  <2>4. JudgeDataset(ValidationRows(results[i]), series, SubSeq(m[series.key], 1, L), c)
    BY <2>1, <2>3, DatasetRowsAre
  <2> QED BY <2>2, <2>4 DEF Known, series, L
<1>5. Len(lists) = N /\ IsList(lists, N)
  <2>1. IsList(lists, N)
    BY <1>2 DEF IsList
  <2> HIDE DEF lists
  <2> QED BY <1>1, <2>1, ListIs
<1> HIDE DEF lists, rows, results, K
<1>6. IsJoined(rows, lists, N)
  <2>1. \A i \in 1 .. N : Len(lists[i]) \in Nat /\ IsList(lists[i], Len(lists[i]))
    BY <1>4 DEF JudgeDataset
  <2> QED BY <1>1, <1>3, <1>5, <2>1, ConcatenatedIs
<1>7. n \in Nat /\ IsList(rows, n)
  BY <1>6 DEF IsJoined
<1>8. PICK at : Lays(at, rows, lists, N)
  BY <1>6 DEF IsJoined
<1> HIDE DEF n
<1>9. ASSUME NEW j \in 1 .. n
      PROVE  /\ at[j] = <<at[j][1], at[j][2]>> /\ at[j][1] \in 1 .. N
             /\ at[j][2] \in 1 .. Len(lists[at[j][1]])
             /\ rows[j] = lists[at[j][1]][at[j][2]]
  <2> DEFINE a == at[j]
  <2>1. a \in Places(lists, N) /\ rows[j] = lists[a[1]][a[2]]
    BY <1>8 DEF Lays, n
  <2> HIDE DEF a
  <2>2. a = <<a[1], a[2]>> /\ a[1] \in 1 .. N /\ a[2] \in 1 .. Len(lists[a[1]])
    BY <2>1 DEF Places
  <2> QED BY <2>1, <2>2 DEF a
<1>10. ASSUME NEW j \in 1 .. n
       PROVE  \E x \in Judgments(K(at[j][1]), c) :
                  RowJudges(rows[j], Its(at[j][1]), K(at[j][1]), c, x[1], x[2])
  BY <1>4, <1>9 DEF JudgeDataset
<1>11. ASSUME NEW j \in 1 .. n
       PROVE  \E series \in group : \E x \in Judgments(Known(m, series, lengths), c) :
                  RowJudges(rows[j], series, Known(m, series, lengths), c, x[1], x[2])
  <2>1. Its(at[j][1]) \in group
    BY <1>1, <1>9
  <2> QED BY <1>10, <2>1 DEF K
<1>12. ASSUME NEW series \in group, NEW x \in Judgments(Known(m, series, lengths), c)
       PROVE  \E j \in 1 .. n :
                  RowJudges(rows[j], series, Known(m, series, lengths), c, x[1], x[2])
  <2>1. PICK i \in 1 .. N : series = Its(i)
    BY <1>1
  <2>2. Known(m, series, lengths) = K(i)
    BY <2>1 DEF K
  <2>3. PICK l \in 1 .. Len(lists[i]) : RowJudges(lists[i][l], series, K(i), c, x[1], x[2])
    BY <1>4, <2>1, <2>2 DEF JudgeDataset
  <2> DEFINE y == <<i, l>>
  <2>4. y \in Places(lists, N) /\ y[1] = i /\ y[2] = l
    <3>1. Len(lists[i]) \in Nat
      BY <1>4 DEF JudgeDataset
    <3>2. l \in Nat /\ i \in Nat
      BY <1>1, <3>1
    <3> QED BY <3>2 DEF Places
  <2> HIDE DEF y
  <2>5. PICK j \in 1 .. n : at[j] = y
    BY <1>8, <2>4 DEF Lays, n
  <2>6. rows[j] = lists[i][l]
    BY <1>9, <2>4, <2>5
  <2> QED BY <2>2, <2>3, <2>6
<1>13. ASSUME NEW j \in 1 .. n, NEW l \in 1 .. n,
              rows[j].key = rows[l].key, rows[j].openedAt = rows[l].openedAt
       PROVE  j = l
  <2> DEFINE a == at[j][1]
             b == at[l][1]
  <2>1. Its(a).key = rows[j].key /\ Its(b).key = rows[l].key
    BY <1>10 DEF RowJudges
  <2>2. a \in 1 .. N /\ b \in 1 .. N
    BY <1>9
  <2>3. Its(a) = Its(b)
    <3>1. Its(a) \in Series /\ Its(b) \in Series
      BY <1>1, <2>2
    <3> QED BY <1>13, <2>1, <3>1, SeriesAssumption
  <2>4. a = b
    BY <1>1, <2>2, <2>3
  <2>5. at[j][2] = at[l][2]
    <3>1. /\ at[j][2] \in 1 .. Len(lists[a]) /\ at[l][2] \in 1 .. Len(lists[a])
          /\ rows[j] = lists[a][at[j][2]] /\ rows[l] = lists[a][at[l][2]]
      BY <1>9, <2>4
    <3>2. JudgeDataset(lists[a], Its(a), K(a), c)
      BY <1>4, <2>2
    <3> HIDE DEF a, b
    <3> QED BY <1>13, <3>1, <3>2 DEF JudgeDataset
  <2>6. at[j] = at[l]
    <3>1. at[j] = <<a, at[j][2]>> /\ at[l] = <<b, at[l][2]>>
      BY <1>9
    <3> QED BY <2>4, <2>5, <3>1
  <2> QED BY <1>8, <2>6 DEF Lays, n
<1>14. JudgeGroup(rows, m, group, lengths, c)
  BY <1>7, <1>11, <1>12, <1>13 DEF JudgeGroup, n
<1> QED BY <1>14 DEF rows, report

-----------------------------------------------------------------------------
(* The groups a row is in.                                                 *)

\* A decided outcome is of the class of its price against the close of its reference.
IsClear(o) ==
    IsFinal(o) => /\ o.referenceClose \in Nat \ {0} /\ o.final.price \in Int
                  /\ o.status = ClassifyOutcome(o.final.price - o.referenceClose)

\* A row whose names are known and whose outcome can be summed up.
RowIsWhole(row) ==
    /\ {row.symbol, row.timeframe, row.combination} \subseteq ToSet(Names)
    /\ MonthNames[Month(row.outcome) + 1] \in ToSet(Names)
    /\ IsClear(row.outcome) /\ CanBeSummed(row.outcome)

\* A return is a whole number of parts.
LEMMA RatioIsWhole == ASSUME NEW a \in Int, NEW b \in Nat \ {0} PROVE Ratio(a, b) \in Int
<1> DEFINE x == a * RatioUnit
<1>1. x \in Int
  BY RatioAssumption
<1> HIDE DEF x
<1>2. x \div b \in Int
  BY <1>1
<1> QED BY <1>2 DEF Ratio, x

\* What a judgment looks at.
LEMMA JudgmentIs ==
    ASSUME NEW m \in Markets, NEW series \in Series, NEW L \in Nat, L <= Len(m[series.key]),
           NEW c \in EngineSettings, NEW x \in Judgments(SubSeq(m[series.key], 1, L), c)
    PROVE  LET q == SubSeq(m[series.key], 1, L)
               k == x[1]
               p == x[2]
           IN  /\ k \in Nat \ {0} /\ WindowAt(k).end <= L /\ WindowAt(k).end \in Nat
               /\ p \in 1 .. L /\ p <= WindowAt(k).end
               /\ q \in Seq(Prices) /\ Len(q) = L
               /\ \A i \in 1 .. L : q[i].close \in Nat \ {0} /\ q[i].openedAt \in Nat
               /\ \A i, j \in 1 .. L : i < j => q[i].openedAt < q[j].openedAt
               /\ q[p].openedAt \div MonthLength + 1 \in DOMAIN MonthNames
               /\ Score(SeenBy(q, k, p), c.detection) \in Nat
               /\ Labels(SeenBy(q, k, p), c.detection) \in DOMAIN Combination
<1> DEFINE h == m[series.key]
           q == SubSeq(h, 1, L)
           k == x[1]
           p == x[2]
           a == StartOf(k) + 1
<1>1. series.key \in Keys /\ c.detection \in Detections
  BY DEF Keys, EngineSettings
<1>2. h \in Seq(Prices) /\ Len(h) \in Nat /\ DOMAIN h = 1 .. Len(h) /\ L <= Len(h)
  BY <1>1, MarketIs
<1>3. /\ \A i, j \in DOMAIN h :
            /\ i < j => h[i].openedAt < h[j].openedAt
            /\ i <= j => /\ Score(SubSeq(h, i, j), c.detection) \in Nat
                         /\ Labels(SubSeq(h, i, j), c.detection) \in DOMAIN Combination
      /\ \A i \in DOMAIN h : h[i].openedAt \div MonthLength + 1 \in DOMAIN MonthNames
  BY <1>1, MarketsAssumption
<1> HIDE DEF h
<1>4. q \in Seq(Prices) /\ Len(q) = L /\ \A i \in 1 .. L : q[i] = h[i] /\ i \in DOMAIN h
  BY <1>2
<1>5. \A i \in 1 .. L : q[i].close \in Nat \ {0} /\ q[i].openedAt \in Nat
  <2> SUFFICES ASSUME NEW i \in 1 .. L PROVE q[i].close \in Nat \ {0} /\ q[i].openedAt \in Nat
    OBVIOUS
  <2>1. q[i] \in Prices
    <3> HIDE DEF q
    <3> QED BY <1>4
  <2> HIDE DEF q
  <2> QED BY <2>1 DEF Prices
<1>6. /\ k \in Nat \ {0} /\ p \in 1 .. L /\ WindowAt(k).end <= L
      /\ p > WindowAt(k).split /\ p <= WindowAt(k).end
  <2>1. x \in Judgments(q, c)
    BY DEF h
  <2> HIDE DEF q
  <2> QED BY <1>4, <2>1 DEF Judgments, IsJudged
<1>7. a \in Nat \ {0} /\ a <= p /\ WindowAt(k).end \in Nat
  <2> DEFINE u == StartOf(k)
             d == Protocol.settings.development
             v == Protocol.settings.validation
  <2>1. /\ u \in Nat /\ d \in Nat \ {0} /\ v \in Nat \ {0} /\ WindowAt(k).split = u + d
        /\ WindowAt(k).end = u + d + v
    BY <1>6, WindowReaches
  <2> HIDE DEF u, d, v, k, p
  <2> QED BY <1>6, <2>1 DEF u
<1> HIDE DEF a, k, p
<1>8. SubSeq(q, a, p) = SubSeq(h, a, p) /\ a \in DOMAIN h /\ p \in DOMAIN h
  <2>1. L \in 0 .. Len(h) /\ p \in Nat /\ 1 <= a /\ p <= L
    BY <1>2, <1>6, <1>7
  <2>2. SubSeq(SubSeq(h, 1, L), a, p) = SubSeq(h, a, p)
    BY <1>2, <1>7, <2>1, PartOfAPart
  <2> QED BY <1>2, <1>7, <2>1, <2>2
<1>9. SeenBy(q, k, p) = SubSeq(h, a, p)
  BY <1>8 DEF SeenBy, a
<1>10. \A i, j \in 1 .. L : i < j => q[i].openedAt < q[j].openedAt
  <2> HIDE DEF q
  <2> QED BY <1>3, <1>4
<1>11. q[p].openedAt \div MonthLength + 1 \in DOMAIN MonthNames
  <2> HIDE DEF q
  <2> QED BY <1>3, <1>4, <1>6
<1>12. /\ Score(SeenBy(q, k, p), c.detection) \in Nat
       /\ Labels(SeenBy(q, k, p), c.detection) \in DOMAIN Combination
  BY <1>3, <1>7, <1>8, <1>9
<1> HIDE DEF q
<1> QED BY <1>4, <1>5, <1>6, <1>7, <1>10, <1>11, <1>12 DEF q, h, k, p

LEMMA RowIsReadable ==
    ASSUME NEW m \in Markets, NEW series \in Series, NEW L \in Nat, L <= Len(m[series.key]),
           NEW c \in EngineSettings, NEW x \in Judgments(SubSeq(m[series.key], 1, L), c), NEW row,
           RowJudges(row, series, SubSeq(m[series.key], 1, L), c, x[1], x[2])
    PROVE  RowIsWhole(row)
<1> DEFINE q == SubSeq(m[series.key], 1, L)
           k == x[1]
           p == x[2]
           o == row.outcome
           g == c.horizon
           end == WindowAt(k).end
<1>1. /\ end \in Nat /\ end <= L /\ p \in 1 .. L
      /\ \A i \in 1 .. L : q[i].close \in Nat \ {0}
      /\ q[p].openedAt \div MonthLength + 1 \in DOMAIN MonthNames
      /\ Labels(SeenBy(q, k, p), c.detection) \in DOMAIN Combination
  BY JudgmentIs
<1> HIDE DEF q
<1>2. /\ row.symbol = series.symbol /\ row.timeframe = series.timeframe
      /\ row.combination = Combination[Labels(SeenBy(q, k, p), c.detection)]
      /\ o.reference.openedAt = q[p].openedAt /\ o.referenceClose = q[p].close
      /\ IF p + g > end THEN o.status = "OPEN"
         ELSE /\ o.status = ClassifyOutcome(q[p + g].close - q[p].close)
              /\ o.final.price = q[p + g].close
  BY DEF RowJudges, q
<1> HIDE DEF k, p, g, end, o
<1>3. {row.symbol, row.timeframe} \subseteq ToSet(Names)
  BY <1>2, SeriesAssumption
<1>4. row.combination \in ToSet(Names)
  BY <1>1, <1>2, NamesAssumption
<1>5. MonthNames[Month(o) + 1] \in ToSet(Names)
  <2>1. Month(o) + 1 \in DOMAIN MonthNames
    BY <1>1, <1>2 DEF Month
  <2>2. MonthNames[Month(o) + 1] \in ToSet(MonthNames)
    BY <2>1 DEF ToSet
  <2> QED BY <2>2, NamesAssumption
<1>6. IsClear(o)
  <2> SUFFICES ASSUME IsFinal(o)
               PROVE  /\ o.referenceClose \in Nat \ {0} /\ o.final.price \in Int
                      /\ o.status = ClassifyOutcome(o.final.price - o.referenceClose)
    BY DEF IsClear
  <2>1. g \in Nat \ {0}
    BY DEF EngineSettings, g
  <2>2. /\ ~ (p + g > end) /\ o.final.price = q[p + g].close
        /\ o.status = ClassifyOutcome(q[p + g].close - q[p].close)
    BY <1>2 DEF IsFinal, IsOpen
  <2>3. p + g \in 1 .. L
    BY <1>1, <2>1, <2>2
  <2> QED BY <1>1, <1>2, <2>2, <2>3
<1>7. CanBeSummed(o)
  <2> SUFFICES ASSUME IsFinal(o) PROVE FinalReturn(o) \in Int
    BY DEF CanBeSummed
  <2>1. o.final.price - o.referenceClose \in Int /\ o.referenceClose \in Nat \ {0}
    BY <1>6 DEF IsClear
  <2> QED BY <2>1, RatioIsWhole DEF FinalReturn
<1> QED BY <1>3, <1>4, <1>5, <1>6, <1>7 DEF RowIsWhole, o

\* A regime has a name.
LEMMA RegimeHasAName ==
    ASSUME NEW prefix, NEW s PROVE RegimeName(Regime(prefix, s).regime) \in ToSet(Names)
<1>1. \A efficiency, volatility :
         ClassifyRegime(efficiency, volatility, s) \in {None} \union RegimeNames
  BY DEF ClassifyRegime, RegimeNames
<1>2. Regime(prefix, s).regime \in {None} \union RegimeNames
  BY <1>1 DEF Regime
<1> DEFINE regime == Regime(prefix, s).regime
<1> HIDE DEF regime
<1>3. RegimeName(regime) \in RegimeNames \union {"unclassified"}
  BY <1>2 DEF RegimeName, regime
<1> QED BY <1>3, NamesAssumption DEF regime

\* A series of a group and the candles recorded of it.
LEMMA SeriesIs ==
    ASSUME NEW m \in Markets, NEW group \in Groups, NEW series \in group, NEW lengths,
           AreLengths(lengths, m)
    PROVE  LET L == lengths[series.key]
           IN  /\ series \in Series /\ L \in Nat /\ L <= Len(m[series.key])
               /\ Known(m, series, lengths) = SubSeq(m[series.key], 1, L)
               /\ DatasetFrom(m, series, lengths) = DatasetWith(series, Known(m, series, lengths))
<1>1. series \in Series /\ series.key \in Keys
  BY DEF Groups, Keys
<1> QED BY <1>1 DEF AreLengths, Known, DatasetFrom

\* The regime of a row is that of its candle.
LEMMA RowRegimeIs ==
    ASSUME NEW m \in Markets, NEW group \in Groups, NEW lengths, AreLengths(lengths, m),
           NEW c \in EngineSettings, NEW series \in group,
           NEW x \in Judgments(Known(m, series, lengths), c),
           NEW row, RowJudges(row, series, Known(m, series, lengths), c, x[1], x[2])
    PROVE  RowRegime(ReportsFor(m, group, lengths, c).robustness.results, row)
              = RegimeName(Regime(SubSeq(Known(m, series, lengths), 1, x[2]),
                                  Protocol.settings).regime)
<1> DEFINE s == Protocol.settings
           results == ReportsFor(m, group, lengths, c).robustness.results
           N == Len(KeysIn(group))
           Its(i) == ItsSeries(group, i)
           q == Known(m, series, lengths)
           L == lengths[series.key]
           p == x[2]
           result == CHOOSE r \in ToSet(results) : r.dataset.key = row.key
           regimes == result.regimes
           i == CHOOSE j \in DOMAIN regimes : regimes[j].openedAt = row.openedAt
<1>1. /\ N \in Nat /\ \A j \in 1 .. N : Its(j) \in Series /\ Its(j) \in group
      /\ \E j \in 1 .. N : series = Its(j)
  BY KeysAre DEF Groups
<1>2. /\ DOMAIN results = 1 .. N
      /\ \A j \in 1 .. N : results[j] = EvaluateDataset(DatasetFrom(m, Its(j), lengths), c, s)
  BY ResultsAre
<1>3. series \in Series /\ L \in Nat /\ L <= Len(m[series.key]) /\ q = SubSeq(m[series.key], 1, L)
  BY SeriesIs
<1>4. /\ p \in 1 .. L /\ q \in Seq(Prices) /\ Len(q) = L
      /\ \A j \in 1 .. L : q[j].openedAt \in Nat
      /\ \A j, l \in 1 .. L : j < l => q[j].openedAt < q[l].openedAt
  BY <1>3, JudgmentIs
<1>5. row.key = series.key /\ row.openedAt = q[p].openedAt
  BY DEF RowJudges
<1> HIDE DEF q, L, p, results, N, Its, s
<1>6. ASSUME NEW j \in 1 .. N
      PROVE  /\ results[j].dataset = DatasetWith(Its(j), Known(m, Its(j), lengths))
             /\ results[j].dataset.key = Its(j).key
             /\ results[j].regimes = AnalyzeRegimes(Known(m, Its(j), lengths), s)
  <2> DEFINE own == Its(j)
             h == Known(m, own, lengths)
             d == DatasetWith(own, h)
  <2>1. own \in group
    BY <1>1
  <2>2. /\ DatasetFrom(m, own, lengths) = d /\ lengths[own.key] \in Nat
        /\ h = SubSeq(m[own.key], 1, lengths[own.key]) /\ own \in Series
        /\ lengths[own.key] <= Len(m[own.key])
    <3> HIDE DEF own
    <3> QED BY <2>1, SeriesIs
  <2>3. d.candles = h /\ d.key = own.key
    BY DEF DatasetWith
  <2>4. Len(h) \in Nat
    <3>1. m[own.key] \in Seq(Prices)
      <4>1. own.key \in Keys
        BY <2>2 DEF Keys
      <4> QED BY <4>1, MarketIs
    <3> DEFINE all == m[own.key]
               n == lengths[own.key]
    <3> HIDE DEF all, n, h
    <3>2. all \in Seq(Prices) /\ n \in 0 .. Len(all) /\ h = SubSeq(all, 1, n)
      BY <2>2, <3>1 DEF all, n
    <3> QED BY <3>2
  <2> HIDE DEF d, h, own
  <2>5. results[j] = EvaluateDataset(d, c, s)
    BY <1>2, <2>2 DEF own
  <2>6. results[j].dataset = d /\ results[j].regimes = AnalyzeRegimes(d.candles, s)
    BY <2>3, <2>4, <2>5, ResultIs DEF s
  <2> QED BY <2>3, <2>6 DEF d, h, own
<1>7. result \in ToSet(results) /\ result.dataset.key = row.key
  <2>1. PICK j \in 1 .. N : series = Its(j)
    BY <1>1
  <2>2. results[j] \in ToSet(results) /\ results[j].dataset.key = row.key
    BY <1>2, <1>5, <1>6, <2>1 DEF ToSet
  <2> QED BY <2>2
<1>8. PICK j \in 1 .. N : result = results[j]
  BY <1>2, <1>7 DEF ToSet
<1> HIDE DEF result
<1>9. Its(j) = series
  <2>1. Its(j).key = series.key /\ Its(j) \in Series
    BY <1>1, <1>5, <1>6, <1>7, <1>8
  <2> QED BY <1>3, <2>1, SeriesAssumption
<1>10. regimes = AnalyzeRegimes(q, s)
  BY <1>6, <1>8, <1>9 DEF q
<1>11. /\ DOMAIN regimes = 1 .. L
       /\ \A l \in 1 .. L : regimes[l] = Regime(SubSeq(q, 1, l), s)
  BY <1>4, <1>10, RegimesAre
<1>12. \A l \in 1 .. L : regimes[l].openedAt = q[l].openedAt
  <2> SUFFICES ASSUME NEW l \in 1 .. L PROVE regimes[l].openedAt = q[l].openedAt
    OBVIOUS
  <2> DEFINE prefix == SubSeq(q, 1, l)
  <2>1. Len(prefix) = l /\ prefix[l] = q[l] /\ prefix \in Seq(Prices)
    BY <1>4
  <2>2. Last(prefix) = q[l]
    <3> HIDE DEF prefix
    <3> QED BY <2>1 DEF Last
  <2> HIDE DEF prefix
  <2>3. Regime(prefix, s).openedAt = Last(prefix).openedAt
    BY DEF Regime
  <2> QED BY <1>11, <2>2, <2>3 DEF prefix
<1> HIDE DEF regimes
<1>13. i \in 1 .. L /\ regimes[i].openedAt = q[p].openedAt
  <2>1. \E l \in DOMAIN regimes : regimes[l].openedAt = row.openedAt
    BY <1>4, <1>5, <1>11, <1>12
  <2>2. i \in DOMAIN regimes /\ regimes[i].openedAt = row.openedAt
    BY <2>1
  <2> HIDE DEF i
  <2> QED BY <1>5, <1>11, <2>2
<1> HIDE DEF i
<1>14. i = p
  <2>1. q[i].openedAt = q[p].openedAt
    BY <1>12, <1>13
  <2>2. ~ (i < p) /\ ~ (p < i)
    BY <1>4, <1>13, <2>1
  <2> QED BY <1>4, <1>13, <2>2
<1>15. RowRegime(results, row) = RegimeName(regimes[i].regime)
  BY DEF RowRegime, RegimeAt, result, regimes, i
<1> QED BY <1>4, <1>11, <1>14, <1>15 DEF results, q, p, s

-----------------------------------------------------------------------------
(* The reports of one evaluation.                                          *)

\* The rows of a report can be read.
LEMMA RowsAreReadable ==
    ASSUME NEW m \in Markets, NEW group \in Groups, NEW lengths, AreLengths(lengths, m),
           NEW c \in EngineSettings
    PROVE  LET robustness == ReportsFor(m, group, lengths, c).robustness
               rows == robustness.rows
           IN  /\ Len(rows) \in Nat /\ IsList(rows, Len(rows))
               /\ \A j \in 1 .. Len(rows) :
                     RowIsWhole(rows[j]) /\ RowRegime(robustness.results, rows[j]) \in ToSet(Names)
<1> DEFINE robustness == ReportsFor(m, group, lengths, c).robustness
           rows == robustness.rows
<1>1. JudgeGroup(rows, m, group, lengths, c)
  BY ReportRowsAre
<1>2. ASSUME NEW j \in 1 .. Len(rows)
      PROVE  RowIsWhole(rows[j]) /\ RowRegime(robustness.results, rows[j]) \in ToSet(Names)
  <2>1. \E series \in group : \E x \in Judgments(Known(m, series, lengths), c) :
            RowJudges(rows[j], series, Known(m, series, lengths), c, x[1], x[2])
    <3> HIDE DEF rows
    <3> QED BY <1>1 DEF JudgeGroup
  <2>2. PICK series \in group : \E x \in Judgments(Known(m, series, lengths), c) :
            RowJudges(rows[j], series, Known(m, series, lengths), c, x[1], x[2])
    BY <2>1
  <2>3. PICK x \in Judgments(Known(m, series, lengths), c) :
            RowJudges(rows[j], series, Known(m, series, lengths), c, x[1], x[2])
    BY <2>2
  <2>4. RowRegime(robustness.results, rows[j])
          = RegimeName(Regime(SubSeq(Known(m, series, lengths), 1, x[2]), Protocol.settings).regime)
    BY <2>3, RowRegimeIs
  <2> DEFINE row == rows[j]
             L == lengths[series.key]
  <2> HIDE DEF row
  <2>5. /\ series \in Series /\ L \in Nat /\ L <= Len(m[series.key])
        /\ Known(m, series, lengths) = SubSeq(m[series.key], 1, L)
    BY SeriesIs
  <2>6. RowIsWhole(row)
    BY <2>3, <2>5, RowIsReadable DEF row
  <2> QED BY <2>4, <2>6, RegimeHasAName DEF row
<1> HIDE DEF rows
<1> QED BY <1>1, <1>2 DEF JudgeGroup, rows

\* The names the rows are grouped under.
LEMMA NamesAre ==
    ASSUME NEW rows, NEW n \in Nat, IsList(rows, n), NEW results,
           \A j \in 1 .. n : RowIsWhole(rows[j]) /\ RowRegime(results, rows[j]) \in ToSet(Names)
    PROVE  /\ RowsCanBeSummed(rows, n)
           /\ AreNames(CombinationsOf(rows), n) /\ AreNames(SymbolsOf(rows), n)
           /\ AreNames(TimeframesOf(rows), n) /\ AreNames(MonthsOf(rows), n)
           /\ AreNames(RegimesOf(results, rows), n)
           /\ \A j \in 1 .. n : RegimesOf(results, rows)[j] = RowRegime(results, rows[j])
<1>1. DOMAIN rows = 1 .. n
  BY ListIs
<1>2. RowsCanBeSummed(rows, n)
  BY DEF RowsCanBeSummed, RowIsWhole
<1>3. /\ AreNames(CombinationsOf(rows), n) /\ AreNames(SymbolsOf(rows), n)
      /\ AreNames(TimeframesOf(rows), n)
  BY <1>1 DEF AreNames, CombinationsOf, SymbolsOf, TimeframesOf, RowIsWhole
<1>4. AreNames(MonthsOf(rows), n)
  BY <1>1 DEF AreNames, MonthsOf, RowIsWhole
<1> DEFINE f == [i \in DOMAIN rows |-> RowRegime(results, rows[i])]
<1>5. RegimesOf(results, rows) = Listed(f)
  BY DEF RegimesOf
<1>6. IsList(f, n) /\ \A j \in 1 .. n : f[j] = RowRegime(results, rows[j])
  BY <1>1 DEF IsList
<1> HIDE DEF f
<1>7. Listed(f) = f /\ DOMAIN f = 1 .. n
  BY <1>6, ListedIs
<1>8. AreNames(RegimesOf(results, rows), n)
  BY <1>5, <1>6, <1>7 DEF AreNames
<1> QED BY <1>2, <1>3, <1>4, <1>5, <1>6, <1>7, <1>8

\* The names the rows are grouped under in a dimension.
NamesFor(dimension, results, rows) ==
    CASE dimension = "setup" -> CombinationsOf(rows)
      [] dimension = "symbol" -> SymbolsOf(rows)
      [] dimension = "timeframe" -> TimeframesOf(rows)
      [] dimension = "month" -> MonthsOf(rows)
      [] dimension = "regime" -> RegimesOf(results, rows)

\* The cells of an intelligence report, dimension by dimension.
LEMMA TheCellsAre ==
    ASSUME NEW m \in Markets, NEW group \in Groups, NEW lengths, AreLengths(lengths, m),
           NEW c \in EngineSettings
    PROVE  LET reports == ReportsFor(m, group, lengths, c)
               results == reports.robustness.results
               rows == reports.robustness.rows
           IN  /\ reports.intelligence.overall = Cell("overall", "all", rows, Protocol.settings)
               /\ \A dimension \in Dimensions :
                     LET names == NamesFor(dimension, results, rows)
                     IN  /\ AreNames(names, Len(rows))
                         /\ reports.intelligence.by[dimension]
                               = Cells(dimension, names, rows, Protocol.settings)
<1> DEFINE reports == ReportsFor(m, group, lengths, c)
           robustness == reports.robustness
           rows == robustness.rows
           results == robustness.results
           n == Len(rows)
           s == Protocol.settings
           by == reports.intelligence.by
<1>1. /\ n \in Nat /\ IsList(rows, n)
      /\ \A j \in 1 .. n : RowIsWhole(rows[j]) /\ RowRegime(results, rows[j]) \in ToSet(Names)
  BY RowsAreReadable
<1>2. reports.intelligence = Intelligence(robustness, s)
  BY DEF ReportsFor, ReportsOf
<1>3. /\ reports.intelligence.overall = Cell("overall", "all", rows, s)
      /\ by["setup"] = Cells("setup", CombinationsOf(rows), rows, s)
      /\ by["symbol"] = Cells("symbol", SymbolsOf(rows), rows, s)
      /\ by["timeframe"] = Cells("timeframe", TimeframesOf(rows), rows, s)
      /\ by["month"] = Cells("month", MonthsOf(rows), rows, s)
      /\ by["regime"] = Cells("regime", RegimesOf(results, rows), rows, s)
  <2> HIDE DEF robustness
  <2> QED BY <1>2 DEF Intelligence
<1> HIDE DEF reports, robustness, rows, results, n, s, by
<1>4. /\ AreNames(CombinationsOf(rows), n) /\ AreNames(SymbolsOf(rows), n)
      /\ AreNames(TimeframesOf(rows), n) /\ AreNames(MonthsOf(rows), n)
      /\ AreNames(RegimesOf(results, rows), n)
  BY <1>1, NamesAre
<1>5. ASSUME NEW dimension \in Dimensions
      PROVE  /\ AreNames(NamesFor(dimension, results, rows), n)
             /\ by[dimension] = Cells(dimension, NamesFor(dimension, results, rows), rows, s)
  BY <1>3, <1>4 DEF Dimensions, NamesFor
<1> QED BY <1>3, <1>5 DEF reports, robustness, rows, results, n, s, by

\* Every grouping of the rows adds up to the whole of them.
LEMMA TheRowsAddUp ==
    ASSUME NEW m \in Markets, NEW group \in Groups, NEW lengths, AreLengths(lengths, m),
           NEW c \in EngineSettings
    PROVE  LET reports == ReportsFor(m, group, lengths, c)
               robustness == reports.robustness
               intelligence == reports.intelligence
           IN  /\ robustness.overall.summary = intelligence.overall.summary
               /\ \A dimension \in Dimensions :
                     Partitions(CountedFields, intelligence.by[dimension], robustness.overall)
               /\ \A groups \in {robustness.bySymbol, robustness.byTimeframe,
                                 robustness.byCombination, robustness.byRegime} :
                     Partitions(CountedFields, groups, robustness.overall)
<1> DEFINE reports == ReportsFor(m, group, lengths, c)
           robustness == reports.robustness
           intelligence == reports.intelligence
           rows == robustness.rows
           results == robustness.results
           n == Len(rows)
           s == Protocol.settings
           minimum == c.minimum
           overall == robustness.overall
<1>1. /\ n \in Nat /\ IsList(rows, n)
      /\ \A j \in 1 .. n : RowIsWhole(rows[j]) /\ RowRegime(results, rows[j]) \in ToSet(Names)
  BY RowsAreReadable
<1>2. intelligence = Intelligence(robustness, s)
  BY DEF ReportsFor, ReportsOf
<1>3. /\ overall = Bucket("all", rows, minimum)
      /\ robustness.bySymbol = Buckets(SymbolsOf(rows), rows, minimum)
      /\ robustness.byTimeframe = Buckets(TimeframesOf(rows), rows, minimum)
      /\ robustness.byCombination = Buckets(CombinationsOf(rows), rows, minimum)
      /\ robustness.byRegime = RegimeBuckets(RegimesOf(results, rows), rows, s)
  <2> DEFINE datasets == DatasetsFrom(m, group, lengths)
             r == Listed([i \in DOMAIN datasets |-> EvaluateDataset(datasets[i], c, s)])
             w == Concatenated([i \in DOMAIN r |-> r[i].windows])
             v == Concatenated([i \in DOMAIN r |-> ValidationRows(r[i])])
  <2>1. robustness = RobustnessReport(r, w, v, minimum, s)
    BY DEF ReportsFor, ReportsOf, Robustness, ReportResults
  <2> HIDE DEF r, w, v, s
  <2>2. /\ results = r /\ rows = v /\ overall = Bucket("all", v, minimum)
        /\ robustness.bySymbol = Buckets(SymbolsOf(v), v, minimum)
        /\ robustness.byTimeframe = Buckets(TimeframesOf(v), v, minimum)
        /\ robustness.byCombination = Buckets(CombinationsOf(v), v, minimum)
        /\ robustness.byRegime = RegimeBuckets(RegimesOf(r, v), v, s)
    <3> HIDE DEF robustness
    <3> QED BY <2>1 DEF RobustnessReport
  <2> HIDE DEF results, rows, overall, robustness
  <2> QED BY <2>2
<1> HIDE DEF robustness, intelligence, rows, results, n, s, minimum, overall
<1>4. /\ RowsCanBeSummed(rows, n)
      /\ AreNames(CombinationsOf(rows), n) /\ AreNames(SymbolsOf(rows), n)
      /\ AreNames(TimeframesOf(rows), n) /\ AreNames(RegimesOf(results, rows), n)
  BY <1>1, NamesAre
<1>5. overall.summary = Summary(OutcomesOf(rows))
  BY <1>3 DEF Bucket
<1>6. intelligence.overall.summary = Summary(OutcomesOf(rows))
  BY <1>2 DEF Intelligence, Cell, rows
<1>7. ASSUME NEW names, AreNames(names, n), NEW groups, AreGroups(groups, names, rows)
      PROVE  Partitions(CountedFields, groups, overall)
  BY <1>1, <1>4, <1>5, <1>7, GroupsAddUp
<1>8. ASSUME NEW dimension \in Dimensions
      PROVE  Partitions(CountedFields, intelligence.by[dimension], overall)
  <2> DEFINE names == NamesFor(dimension, results, rows)
  <2>1. AreNames(names, n) /\ intelligence.by[dimension] = Cells(dimension, names, rows, s)
    BY TheCellsAre DEF rows, results, robustness, intelligence, n, s
  <2> HIDE DEF names
  <2>2. AreGroups(intelligence.by[dimension], names, rows)
    BY <2>1, CellsAre
  <2> QED BY <1>7, <2>1, <2>2
<1>9. /\ AreGroups(robustness.bySymbol, SymbolsOf(rows), rows)
      /\ AreGroups(robustness.byTimeframe, TimeframesOf(rows), rows)
      /\ AreGroups(robustness.byCombination, CombinationsOf(rows), rows)
      /\ AreGroups(robustness.byRegime, RegimesOf(results, rows), rows)
  BY <1>3, BucketsAre, RegimeBucketsAre
<1>10. /\ Partitions(CountedFields, robustness.bySymbol, overall)
       /\ Partitions(CountedFields, robustness.byTimeframe, overall)
       /\ Partitions(CountedFields, robustness.byCombination, overall)
       /\ Partitions(CountedFields, robustness.byRegime, overall)
  BY <1>4, <1>7, <1>9
<1> QED BY <1>5, <1>6, <1>8, <1>10 DEF robustness, intelligence, overall

\* The rates of a summary: a part of what it decided.
RatesAreWhole(summary) ==
    /\ summary.finalized \in Nat
    /\ summary.finalized # 0 => summary.winRate \in Int \X Int

LEMMA SummaryRates ==
    ASSUME NEW rows, NEW n \in Nat, IsList(rows, n)
    PROVE  RatesAreWhole(Summary(OutcomesOf(rows)))
<1> DEFINE q == OutcomesOf(rows)
           finals == {i \in 1 .. n : IsFinal(q[i])}
           f == FinalsIn(q)
           summary == Summary(q)
           wins == CountOf("WIN", f)
           count == Len(f)
<1>1. DOMAIN q = 1 .. n
  BY OutcomesAre
<1>2. finals \in SUBSET (1 .. n)
  OBVIOUS
<1>3. f = Picked(q, finals)
  BY <1>1 DEF FinalsIn
<1> HIDE DEF q, finals, f
<1>4. count \in Nat /\ DOMAIN f = 1 .. count
  <2> DEFINE p == Picked(q, finals)
  <2>1. Len(p) \in Nat /\ DOMAIN p = 1 .. Len(p)
    BY <1>2, PickedList
  <2> HIDE DEF p
  <2> QED BY <1>3, <2>1 DEF p
<1>5. wins \in Nat
  <2> DEFINE won == {i \in 1 .. count : f[i].status = "WIN"}
  <2>1. won \in SUBSET (1 .. count)
    OBVIOUS
  <2>2. wins = Cardinality(won)
    BY <1>4 DEF CountOf
  <2> HIDE DEF won, wins
  <2> QED BY <1>4, <2>1, <2>2, IndexSet
<1> HIDE DEF wins, count
<1>6. summary.finalized = count /\ summary.winRate = Average(wins, count)
  <2>1. summary = Aggregate(f, Len(q), Len(q) - count)
    BY DEF Summary, f, count
  <2> HIDE DEF summary
  <2> QED BY <2>1 DEF Aggregate, wins, count
<1> HIDE DEF summary
<1>7. RatesAreWhole(summary)
  BY <1>4, <1>5, <1>6 DEF RatesAreWhole, Average
<1> QED BY <1>7 DEF summary, q

\* The difference of two rates is a rate.
LEMMA DifferenceIsARate ==
    ASSUME NEW a \in Int \X Int, NEW b \in Int \X Int PROVE Minus(a, b) # None
<1> DEFINE x == a[1]
           y == a[2]
           u == b[1]
           v == b[2]
<1>1. x \in Int /\ y \in Int /\ u \in Int /\ v \in Int
  OBVIOUS
<1>2. Minus(a, b) = <<x * v - u * y, y * v>>
  BY DEF Minus
<1> HIDE DEF x, y, u, v
<1> DEFINE e == x * v - u * y
           d == y * v
<1>3. e \in Int /\ d \in Int
  BY <1>1
<1> HIDE DEF e, d
<1>4. <<e, d>> \in Int \X Int
  BY <1>3
<1> QED BY <1>2, <1>4, NoneAssumption DEF e, d

\* The reviews of months in order quote a change between two that are sampled enough.
LEMMA ReviewsQuote ==
    ASSUME NEW report, NEW n \in Nat, IsList(report.byMonth, n), InOrder(report.byMonth),
           \A i \in 1 .. n : RatesAreWhole(report.byMonth[i].summary),
           NEW minimum \in Nat \ {0}
    PROVE  LET reviews == MonthlyReviews(report, minimum)
           IN  \A i \in DOMAIN reviews :
                  /\ ReviewIsValid(reviews[i])
                  /\ i > 1 => (reviews[i].comparison.winRate # None)
                                = (/\ reviews[i].bucket.summary.finalized >= minimum
                                   /\ reviews[i - 1].bucket.summary.finalized >= minimum)
<1> DEFINE months == report.byMonth
           At(i) == [bucket |-> months[i],
                     comparison |-> IF i = 1 THEN None
                                    ELSE MonthComparison(months[i], months[i - 1], minimum)]
           reviews == MonthlyReviews(report, minimum)
<1>1. DOMAIN months = 1 .. n
  BY ListIs
<1>2. reviews = [i \in 1 .. n |-> At(i)]
  BY <1>1 DEF MonthlyReviews
<1> HIDE DEF reviews, months
<1> SUFFICES ASSUME NEW i \in 1 .. n
             PROVE  /\ ReviewIsValid(reviews[i])
                    /\ i > 1 => (reviews[i].comparison.winRate # None)
                                  = (/\ reviews[i].bucket.summary.finalized >= minimum
                                     /\ reviews[i - 1].bucket.summary.finalized >= minimum)
  BY <1>2 DEF reviews
<1>3. CASE i = 1
  <2>1. reviews[i].comparison = None
    BY <1>2, <1>3
  <2> QED BY <1>3, <2>1 DEF ReviewIsValid
<1>4. CASE i # 1
  <2> DEFINE j == i - 1
             a == months[i]
             b == months[j]
             both == a.summary.finalized >= minimum /\ b.summary.finalized >= minimum
             change == MonthComparison(a, b, minimum)
  <2>1. i > 1 /\ j \in 1 .. n /\ j < i /\ j \in Nat
    BY <1>4
  <2>2. reviews[i].bucket = a /\ reviews[i].comparison = change /\ reviews[j].bucket = b
    BY <1>2, <1>4, <2>1
  <2>3. Place(b.name) < Place(a.name)
    BY <1>1, <2>1 DEF InOrder, months
  <2>4. RatesAreWhole(a.summary) /\ RatesAreWhole(b.summary)
    BY <2>1 DEF months
  <2> HIDE DEF a, b, j
  <2>5. /\ change.month = a.name /\ change.previous = b.name /\ change.both = both
        /\ change.winRate = IF both THEN Minus(a.summary.winRate, b.summary.winRate) ELSE None
    BY DEF MonthComparison
  <2>6. both => Minus(a.summary.winRate, b.summary.winRate) # None
    <3> SUFFICES ASSUME both PROVE Minus(a.summary.winRate, b.summary.winRate) # None
      OBVIOUS
    <3>1. a.summary.finalized # 0 /\ b.summary.finalized # 0
      BY <2>4 DEF RatesAreWhole
    <3>2. a.summary.winRate \in Int \X Int /\ b.summary.winRate \in Int \X Int
      BY <2>4, <3>1 DEF RatesAreWhole
    <3> QED BY <3>2, DifferenceIsARate
  <2>7. both \in BOOLEAN
    OBVIOUS
  <2> HIDE DEF change, both
  <2>8. (change.winRate # None) = both
    BY <2>5, <2>6, <2>7
  <2>9. ReviewIsValid(reviews[i])
    BY <2>2, <2>3, <2>5, <2>8 DEF ReviewIsValid
  <2>10. (reviews[i].comparison.winRate # None) = both
    BY <2>2, <2>8
  <2> QED BY <2>2, <2>9, <2>10 DEF both, j
<1> QED BY <1>3, <1>4

\* The rows of all replays, and the months they are grouped under.
LEMMA MonthsAre ==
    ASSUME NEW m \in Markets, NEW group \in Groups, NEW lengths, AreLengths(lengths, m),
           NEW c \in EngineSettings
    PROVE  LET months == ReportsFor(m, group, lengths, c).performance.byMonth
           IN  \E n \in Nat : /\ IsList(months, n)
                              /\ \A i \in 1 .. n : RatesAreWhole(months[i].summary)
<1> DEFINE datasets == DatasetsFrom(m, group, lengths)
           lists == [i \in DOMAIN datasets |-> SignalRows(ReplayHistory(datasets[i], c))]
           rows == Concatenated(lists)
           N == Len(KeysIn(group))
           Its(i) == ItsSeries(group, i)
           names == MonthsOf(rows)
           order == Sorted(ToSet(names))
           n == Len(order)
           months == ReportsFor(m, group, lengths, c).performance.byMonth
<1>1. /\ N \in Nat /\ \A i \in 1 .. N : Its(i) \in group /\ DOMAIN datasets = 1 .. N
      /\ Len(datasets) = N /\ DOMAIN datasets = 1 .. N
      /\ \A i \in 1 .. N : datasets[i] = DatasetFrom(m, Its(i), lengths)
  <2>1. /\ N \in Nat /\ \A i \in 1 .. N : Its(i) \in group
    BY KeysAre DEF Groups
  <2>2. Len(datasets) = N /\ DOMAIN datasets = 1 .. N
    BY DatasetsAre DEF Groups
  <2>3. \A i \in 1 .. N : datasets[i] = DatasetFrom(m, Its(i), lengths)
    BY DEF DatasetsFrom
  <2> QED BY <2>1, <2>2, <2>3
<1>2. months = Buckets(names, rows, c.minimum)
  BY DEF ReportsFor, ReportsOf, Backtest, BacktestReport, Performance, PerformanceReport
<1> HIDE DEF datasets, N, Its
<1>3. ASSUME NEW i \in 1 .. N PROVE Len(lists[i]) \in Nat /\ IsList(lists[i], Len(lists[i]))
  <2> DEFINE own == Its(i)
             L == lengths[own.key]
             q == Known(m, own, lengths)
             d == DatasetWith(own, q)
  <2>1. own \in group
    BY <1>1
  <2>2. /\ own \in Series /\ L \in Nat /\ L <= Len(m[own.key]) /\ q = SubSeq(m[own.key], 1, L)
        /\ DatasetFrom(m, own, lengths) = d
    <3> HIDE DEF own
    <3> QED BY <2>1, SeriesIs
  <2>3. Legible(q, c.detection)
    <3>1. own.key \in Keys /\ c.detection \in Detections /\ 1 \in Nat \ {0}
      BY <2>2 DEF Keys, EngineSettings
    <3> HIDE DEF own, L, q
    <3> QED BY <2>2, <3>1, PartsAreLegible
  <2>4. d.candles = q
    BY DEF DatasetWith
  <2>5. lists[i] = SignalRows(ReplayHistory(d, c))
    BY <1>1, <2>2
  <2> HIDE DEF d, q, lists
  <2>6. LET r == SignalRows(ReplayHistory(d, c)) IN Len(r) \in Nat /\ IsList(r, Len(r))
    BY <2>3, <2>4, RowsAre
  <2> QED BY <2>5, <2>6
<1>4. Len(lists) = N
  <2>1. IsList(lists, N)
    BY <1>1 DEF IsList
  <2> HIDE DEF lists
  <2> QED BY <1>1, <2>1, ListIs
<1> HIDE DEF lists
<1>5. Len(rows) \in Nat /\ IsList(rows, Len(rows))
  <2>1. IsJoined(rows, lists, N)
    BY <1>1, <1>3, <1>4, ConcatenatedIs
  <2> HIDE DEF rows
  <2> QED BY <2>1 DEF IsJoined
<1>6. /\ n \in Nat /\ IsList(months, n)
      /\ \A i \in 1 .. n : months[i].summary = Summary(OutcomesOf(RowsOf(order[i], names, rows)))
  <2> HIDE DEF months
  <2>1. AreGroups(months, names, rows)
    BY <1>2, BucketsAre
  <2>2. n \in Nat
    BY SortedIs
  <2> HIDE DEF rows, names
  <2> QED BY <2>1, <2>2 DEF AreGroups
<1>7. ASSUME NEW i \in 1 .. n PROVE RatesAreWhole(months[i].summary)
  <2> DEFINE name == order[i]
             I == {j \in 1 .. Len(rows) : names[j] = name}
             p == Picked(rows, I)
  <2>1. RowsOf(name, names, rows) = p
    <3> HIDE DEF rows, names, name
    <3>1. DOMAIN rows = 1 .. Len(rows)
      BY <1>5, ListIs
    <3> QED BY <3>1 DEF RowsOf
  <2>2. I \in SUBSET (1 .. Len(rows))
    OBVIOUS
  <2> HIDE DEF I, rows
  <2>3. Len(p) \in Nat /\ IsList(p, Len(p))
    BY <1>5, <2>2, PickedList
  <2> HIDE DEF p
  <2>4. RatesAreWhole(Summary(OutcomesOf(p)))
    BY <2>3, SummaryRates
  <2> QED BY <1>6, <2>1, <2>4 DEF rows
<1> HIDE DEF n, months
<1> QED BY <1>6, <1>7 DEF months

\* The monthly reviews of a performance report are those the review model admits, and compare a
\* month with the one before it exactly when both have the sample.
ReviewsTell(report, minimum) ==
    LET reviews == MonthlyReviews(report, minimum)
    IN  \A i \in DOMAIN reviews :
           /\ ReviewIsValid(reviews[i])
           /\ i > 1 => (reviews[i].comparison.winRate # None)
                         = (/\ reviews[i].bucket.summary.finalized >= minimum
                            /\ reviews[i - 1].bucket.summary.finalized >= minimum)

\* What an accepted evaluation reports tells one story.
LEMMA TheReportsAgree ==
    ASSUME NEW m \in Markets, NEW group \in Groups, NEW lengths, AreLengths(lengths, m),
           NEW c \in EngineSettings, AcceptedFor(m, group, lengths, c)
    PROVE  ReviewsTell(ReportsFor(m, group, lengths, c).performance, Protocol.minimum)
<1> DEFINE backtest == Backtest(DatasetsFrom(m, group, lengths), c)
           report == ReportsFor(m, group, lengths, c).performance
           minimum == Protocol.minimum
<1>1. report = backtest.performance
  BY DEF ReportsFor, ReportsOf
<1>2. InOrder(report.byMonth)
  <2> HIDE DEF backtest, report
  <2>1. BacktestIsValid(backtest)
    BY DEF AcceptedFor, ReportsAreAccepted, backtest
  <2> QED BY <1>1, <2>1 DEF BacktestIsValid, PerformanceIsValid
<1>3. PICK n \in Nat : /\ IsList(report.byMonth, n)
                       /\ \A i \in 1 .. n : RatesAreWhole(report.byMonth[i].summary)
  BY MonthsAre
<1>4. minimum \in Nat \ {0}
  BY ProtocolAssumption
<1> HIDE DEF report, minimum
<1>5. LET reviews == MonthlyReviews(report, minimum)
      IN  \A i \in DOMAIN reviews :
             /\ ReviewIsValid(reviews[i])
             /\ i > 1 => (reviews[i].comparison.winRate # None)
                           = (/\ reviews[i].bucket.summary.finalized >= minimum
                              /\ reviews[i - 1].bucket.summary.finalized >= minimum)
  BY <1>2, <1>3, <1>4, ReviewsQuote
<1> QED BY <1>5, Zenon DEF ReviewsTell, report, minimum

\* The reports of every evaluation tell one story, for any markets, series, configurations and
\* settings (run_robustness, analyze_report, build_monthly_reviews).
THEOREM OneStory == ResearchSpec => []ReportsAgree
<1>1. ResearchInv => ReportsAgree
  <2> SUFFICES ASSUME ResearchInv, evaluation.outcome = "reports" PROVE ReportsAgree
    BY DEF ReportsAgree
  <2> DEFINE m == market
             group == evaluation.group
             lengths == evaluation.recorded
             c == evaluation.configuration
  <2>1. /\ m \in Markets /\ group \in Groups /\ AreLengths(lengths, m) /\ c \in EngineSettings
        /\ AcceptedFor(m, group, lengths, c)
        /\ evaluation.reports = ReportsFor(m, group, lengths, c)
    BY DEF ResearchInv, MarketInv, EvaluationInv, IsEvaluation
  <2> HIDE DEF m, group, lengths, c
  <2> DEFINE reports == evaluation.reports
             robustness == reports.robustness
             intelligence == reports.intelligence
             reviews == MonthlyReviews(reports.performance, Protocol.minimum)
  <2>2. /\ robustness.overall.summary = intelligence.overall.summary
        /\ \A dimension \in Dimensions :
              Partitions(CountedFields, intelligence.by[dimension], robustness.overall)
        /\ \A groups \in {robustness.bySymbol, robustness.byTimeframe,
                          robustness.byCombination, robustness.byRegime} :
              Partitions(CountedFields, groups, robustness.overall)
    BY <2>1, TheRowsAddUp
  <2>3. ReviewsTell(reports.performance, Protocol.minimum)
    BY <2>1, TheReportsAgree
  <2>4. \A i \in DOMAIN reviews :
           /\ ReviewIsValid(reviews[i])
           /\ i > 1 => (reviews[i].comparison.winRate # None)
                         = (/\ reviews[i].bucket.summary.finalized >= Protocol.minimum
                            /\ reviews[i - 1].bucket.summary.finalized >= Protocol.minimum)
    BY <2>3, Zenon DEF ReviewsTell
  <2> QED BY <2>2, <2>4 DEF ReportsAgree, CountedFields
<1> QED BY <1>1, ResearchIsSound, PTL

-----------------------------------------------------------------------------
(* The signals that the market shows, and the rows about them.             *)

\* The signal of the BUY at the x[2]-th candle of a series, judged in its x[1]-th window.
SignalAt(series, q, c, x) ==
    [key |-> series.key, symbol |-> series.symbol, timeframe |-> series.timeframe,
     openedAt |-> q[x[2]].openedAt,
     labels |-> Labels(SeenBy(q, x[1], x[2]), c.detection),
     regime |-> RegimeName(Regime(SubSeq(q, 1, x[2]), Protocol.settings).regime),
     verdict |-> Verdict(q, x[2], WindowAt(x[1]), c.horizon)]

SignalsAt(series, q, c) == {SignalAt(series, q, c, x) : x \in Judgments(q, c)}

SignalsIn(m, group, lengths, c) ==
    UNION {SignalsAt(series, Known(m, series, lengths), c) : series \in group}

\* What is judged of a dataset are its signals.
LEMMA JudgedAre ==
    ASSUME NEW series, NEW q, Len(q) \in Nat, DOMAIN q = 1 .. Len(q), NEW c
    PROVE  Judged(DatasetWith(series, q), c) = SignalsAt(series, q, c)
<1> DEFINE dataset == DatasetWith(series, q)
           windows == PlanWindows(dataset, Protocol.settings)
           JudgedPairs == {y \in (DOMAIN windows) \X (DOMAIN q) :
                         /\ y[2] > windows[y[1]].split /\ y[2] <= windows[y[1]].end
                         /\ Score(SubSeq(q, windows[y[1]].start + 1, y[2]), c.detection) >= c.chain}
           AsSignal(x) == [key |-> series.key, symbol |-> series.symbol,
                       timeframe |-> series.timeframe, openedAt |-> q[x[2]].openedAt,
                       labels |-> Labels(SubSeq(q, windows[x[1]].start + 1, x[2]), c.detection),
                       regime |-> RegimeName(Regime(SubSeq(q, 1, x[2]), Protocol.settings).regime),
                       verdict |-> Verdict(q, x[2], windows[x[1]], c.horizon)]
<1>1. /\ dataset.candles = q /\ dataset.key = series.key /\ dataset.symbol = series.symbol
      /\ dataset.timeframe = series.timeframe
  BY DEF DatasetWith
<1>2. Judged(dataset, c) = {AsSignal(x) : x \in JudgedPairs}
  BY <1>1 DEF Judged
<1>3. /\ Len(windows) \in Nat /\ DOMAIN windows = 1 .. Len(windows)
      /\ \A k \in 1 .. Len(windows) : windows[k] = WindowAt(k)
      /\ \A k \in Nat \ {0} : k \in 1 .. Len(windows) <=> WindowAt(k).end <= Len(q)
  <2>1. /\ Len(windows) \in Nat /\ DOMAIN windows = 1 .. Len(windows)
        /\ \A k \in 1 .. Len(windows) : windows[k] = WindowAt(k)
        /\ \A k \in Nat \ {0} : k \in 1 .. Len(windows)
              <=> StartOf(k) + Protocol.settings.development + Protocol.settings.validation <= Len(q)
    <3> HIDE DEF dataset
    <3> QED BY <1>1, WindowsAre
  <2>2. \A k \in Nat \ {0} : WindowAt(k).end
           = StartOf(k) + Protocol.settings.development + Protocol.settings.validation
    BY WindowReaches
  <2> QED BY <2>1, <2>2
<1> HIDE DEF windows, dataset
<1>4. \A k \in 1 .. Len(windows) : k \in Nat \ {0} /\ windows[k].start = StartOf(k)
  BY <1>3 DEF WindowAt
<1>5. ASSUME NEW x \in JudgedPairs PROVE x \in Judgments(q, c) /\ AsSignal(x) = SignalAt(series, q, c, x)
  <2> DEFINE k == x[1]
             p == x[2]
  <2>1. /\ x = <<k, p>> /\ k \in 1 .. Len(windows) /\ p \in 1 .. Len(q)
        /\ p > windows[k].split /\ p <= windows[k].end
        /\ Score(SubSeq(q, windows[k].start + 1, p), c.detection) >= c.chain
    BY <1>3
  <2>2. windows[k] = WindowAt(k) /\ windows[k].start = StartOf(k) /\ k \in Nat \ {0}
    BY <1>3, <1>4, <2>1
  <2>3. WindowAt(k).end <= Len(q)
    BY <1>3, <2>1, <2>2
  <2>4. IsJudged(q, c, k, p)
    BY <2>1, <2>2 DEF IsJudged, SeenBy
  <2>5. x \in Judgments(q, c)
    BY <2>1, <2>2, <2>3, <2>4 DEF Judgments
  <2>6. AsSignal(x) = SignalAt(series, q, c, x)
    BY <2>2 DEF SignalAt, SeenBy
  <2> QED BY <2>5, <2>6
<1>6. ASSUME NEW x \in Judgments(q, c) PROVE x \in JudgedPairs
  <2> DEFINE k == x[1]
             p == x[2]
  <2>1. /\ x = <<k, p>> /\ k \in Nat \ {0} /\ p \in 1 .. Len(q) /\ WindowAt(k).end <= Len(q)
        /\ IsJudged(q, c, k, p)
    BY DEF Judgments
  <2>2. k \in 1 .. Len(windows)
    BY <1>3, <2>1
  <2>3. windows[k] = WindowAt(k) /\ windows[k].start = StartOf(k)
    BY <1>3, <1>4, <2>2
  <2>4. /\ p > windows[k].split /\ p <= windows[k].end
        /\ Score(SubSeq(q, windows[k].start + 1, p), c.detection) >= c.chain
    BY <2>1, <2>3 DEF IsJudged, SeenBy
  <2> QED BY <1>3, <2>1, <2>2, <2>4
<1> HIDE DEF AsSignal, JudgedPairs
<1>7. {AsSignal(x) : x \in JudgedPairs} = {SignalAt(series, q, c, x) : x \in Judgments(q, c)}
  BY <1>5, <1>6
<1> QED BY <1>2, <1>7 DEF SignalsAt, dataset

LEMMA AllJudgedAre ==
    ASSUME NEW group \in Groups, NEW lengths, market \in Markets, AreLengths(lengths, market), NEW c
    PROVE  AllJudged(group, lengths, c) = SignalsIn(market, group, lengths, c)
<1> DEFINE datasets == DatasetsFrom(market, group, lengths)
           N == Len(KeysIn(group))
           Its(i) == ItsSeries(group, i)
           K(series) == Known(market, series, lengths)
<1>1. /\ N \in Nat /\ \A i \in 1 .. N : Its(i) \in group
      /\ \A series \in group : \E i \in 1 .. N : series = Its(i)
  BY KeysAre DEF Groups
<1>2. DatasetsAt(group, lengths) = datasets /\ DOMAIN datasets = 1 .. N
  BY DatasetsAre DEF Groups
<1>3. \A i \in 1 .. N : datasets[i] = DatasetFrom(market, Its(i), lengths)
  BY DEF DatasetsFrom
<1> HIDE DEF datasets, N, Its
<1>4. ASSUME NEW series \in group
      PROVE  Judged(DatasetFrom(market, series, lengths), c) = SignalsAt(series, K(series), c)
  <2> DEFINE L == lengths[series.key]
  <2>1. /\ series \in Series /\ L \in Nat /\ L <= Len(market[series.key])
        /\ K(series) = SubSeq(market[series.key], 1, L)
        /\ DatasetFrom(market, series, lengths) = DatasetWith(series, K(series))
    BY SeriesIs
  <2>2. market[series.key] \in Seq(Prices)
    BY <2>1, MarketIs DEF Keys
  <2>3. Len(K(series)) \in Nat /\ DOMAIN K(series) = 1 .. Len(K(series))
    <3> DEFINE h == market[series.key]
               q == SubSeq(h, 1, L)
    <3>1. q \in Seq(Prices)
      <4> HIDE DEF h, L
      <4> QED BY <2>1, <2>2 DEF h
    <3> HIDE DEF q
    <3>2. Len(q) \in Nat /\ DOMAIN q = 1 .. Len(q)
      BY <3>1
    <3> QED BY <2>1, <3>2 DEF q
  <2> HIDE DEF K
  <2> QED BY <2>1, <2>3, JudgedAre
<1>5. AllJudged(group, lengths, c) = UNION {Judged(dataset, c) : dataset \in ToSet(datasets)}
  BY <1>2 DEF AllJudged
<1>6. ToSet(datasets) = {DatasetFrom(market, series, lengths) : series \in group}
  BY <1>1, <1>2, <1>3 DEF ToSet
<1>7. {Judged(dataset, c) : dataset \in ToSet(datasets)}
         = {SignalsAt(series, K(series), c) : series \in group}
  BY <1>4, <1>6
<1> QED BY <1>5, <1>7 DEF SignalsIn

\* A signal is the only one of its series at its time.
LEMMA SignalsAreTold ==
    ASSUME NEW m \in Markets, NEW group \in Groups, NEW lengths, AreLengths(lengths, m),
           NEW c \in EngineSettings, NEW a \in SignalsIn(m, group, lengths, c),
           NEW b \in SignalsIn(m, group, lengths, c), a.key = b.key, a.openedAt = b.openedAt
    PROVE  a = b
<1>1. PICK s \in group : a \in SignalsAt(s, Known(m, s, lengths), c)
  BY DEF SignalsIn
<1>2. PICK t \in group : b \in SignalsAt(t, Known(m, t, lengths), c)
  BY DEF SignalsIn
<1> DEFINE q == Known(m, s, lengths)
           L == lengths[s.key]
<1>3. PICK x \in Judgments(q, c) : a = SignalAt(s, q, c, x)
  BY <1>1 DEF SignalsAt
<1>4. s = t
  <2>1. a.key = s.key /\ b.key = t.key
    BY <1>1, <1>2 DEF SignalsAt, SignalAt
  <2> QED BY <2>1, SeriesAssumption DEF Groups
<1>5. PICK y \in Judgments(q, c) : b = SignalAt(s, q, c, y)
  BY <1>2, <1>4 DEF SignalsAt
<1>6. s \in Series /\ L \in Nat /\ L <= Len(m[s.key]) /\ q = SubSeq(m[s.key], 1, L)
  BY SeriesIs
<1>7. /\ x[2] \in 1 .. L /\ Len(q) = L /\ \A i \in 1 .. L : q[i].openedAt \in Nat
      /\ \A i, j \in 1 .. L : i < j => q[i].openedAt < q[j].openedAt
  <2>1. x \in Judgments(SubSeq(m[s.key], 1, L), c)
    BY <1>3, <1>6
  <2> HIDE DEF q, L
  <2>2. LET z == SubSeq(m[s.key], 1, L)
        IN  /\ x[2] \in 1 .. L /\ Len(z) = L /\ \A i \in 1 .. L : z[i].openedAt \in Nat
            /\ \A i, j \in 1 .. L : i < j => z[i].openedAt < z[j].openedAt
    BY <1>6, <2>1, JudgmentIs
  <2> QED BY <1>6, <2>2
<1>8. y[2] \in 1 .. L
  <2>1. y \in Judgments(SubSeq(m[s.key], 1, L), c)
    BY <1>5, <1>6
  <2> HIDE DEF q, L
  <2> QED BY <1>6, <2>1, JudgmentIs
<1>9. q[x[2]].openedAt = q[y[2]].openedAt
  BY <1>3, <1>5 DEF SignalAt
<1> HIDE DEF q, L
<1>10. x[2] = y[2]
  <2> DEFINE i == x[2]
             j == y[2]
  <2>1. ~ (i < j) /\ ~ (j < i)
    <3>1. i < j => q[i].openedAt < q[j].openedAt
      BY <1>7, <1>8
    <3>2. j < i => q[j].openedAt < q[i].openedAt
      BY <1>7, <1>8
    <3>3. q[i].openedAt \in Nat
      BY <1>7
    <3> QED BY <1>9, <3>1, <3>2, <3>3
  <2> QED BY <1>6, <1>7, <1>8, <2>1
<1>11. x = y
  BY <1>3, <1>5, <1>6, <1>7, <1>10, JudgedOnce
<1> QED BY <1>3, <1>5, <1>11

\* What a row of a report says of the signal it is about.
RowTells(row, results, signal) ==
    /\ row.key = signal.key /\ row.openedAt = signal.openedAt
    /\ row.symbol = signal.symbol /\ row.timeframe = signal.timeframe
    /\ row.combination = Combination[signal.labels]
    /\ row.outcome.reference.openedAt = signal.openedAt
    /\ row.outcome.status = signal.verdict /\ OutcomeIsValid(row.outcome)
    /\ RowRegime(results, row) = signal.regime

LEMMA RowTellsIt ==
    ASSUME NEW m \in Markets, NEW group \in Groups, NEW lengths, AreLengths(lengths, m),
           NEW c \in EngineSettings, NEW series \in group,
           NEW x \in Judgments(Known(m, series, lengths), c),
           NEW row, RowJudges(row, series, Known(m, series, lengths), c, x[1], x[2])
    PROVE  LET signal == SignalAt(series, Known(m, series, lengths), c, x)
           IN  /\ signal \in SignalsIn(m, group, lengths, c)
               /\ RowTells(row, ReportsFor(m, group, lengths, c).robustness.results, signal)
<1> DEFINE q == Known(m, series, lengths)
           results == ReportsFor(m, group, lengths, c).robustness.results
           signal == SignalAt(series, q, c, x)
<1>1. RowRegime(results, row) = RegimeName(Regime(SubSeq(q, 1, x[2]), Protocol.settings).regime)
  BY RowRegimeIs
<1>2. signal \in SignalsIn(m, group, lengths, c)
  BY DEF SignalsIn, SignalsAt
<1> HIDE DEF results, q
<1>3. RowTells(row, results, signal)
  BY <1>1 DEF RowTells, RowJudges, SignalAt, Verdict, q
<1> QED BY <1>2, <1>3 DEF q, results

\* at gives every row of a report the one signal it is about, and every signal one row.
AreAbout(at, rows, results, signals) ==
    /\ Len(rows) \in Nat /\ IsList(rows, Len(rows))
    /\ at \in Bijection(1 .. Len(rows), signals)
    /\ \A j \in 1 .. Len(rows) : RowTells(rows[j], results, at[j])

LEMMA RowsAreSignals ==
    ASSUME NEW m \in Markets, NEW group \in Groups, NEW lengths, AreLengths(lengths, m),
           NEW c \in EngineSettings
    PROVE  LET report == ReportsFor(m, group, lengths, c).robustness
           IN  \E at : AreAbout(at, report.rows, report.results, SignalsIn(m, group, lengths, c))
<1> DEFINE report == ReportsFor(m, group, lengths, c).robustness
           rows == report.rows
           results == report.results
           n == Len(rows)
           signals == SignalsIn(m, group, lengths, c)
           at == [j \in 1 .. n |-> CHOOSE s \in signals : RowTells(rows[j], results, s)]
<1>1. JudgeGroup(rows, m, group, lengths, c)
  BY ReportRowsAre
<1>2. /\ n \in Nat /\ IsList(rows, n)
      /\ \A j, l \in 1 .. n : rows[j].key = rows[l].key /\ rows[j].openedAt = rows[l].openedAt => j = l
  BY <1>1 DEF JudgeGroup
<1>3. \A row : \A series \in group : \A x \in Judgments(Known(m, series, lengths), c) :
         RowJudges(row, series, Known(m, series, lengths), c, x[1], x[2])
         => /\ SignalAt(series, Known(m, series, lengths), c, x) \in signals
            /\ RowTells(row, results, SignalAt(series, Known(m, series, lengths), c, x))
  BY RowTellsIt
<1>4. ASSUME NEW j \in 1 .. n PROVE \E s \in signals : RowTells(rows[j], results, s)
  <2>1. PICK series \in group : \E x \in Judgments(Known(m, series, lengths), c) :
            RowJudges(rows[j], series, Known(m, series, lengths), c, x[1], x[2])
    <3> HIDE DEF rows
    <3> QED BY <1>1 DEF JudgeGroup
  <2>2. PICK x \in Judgments(Known(m, series, lengths), c) :
            RowJudges(rows[j], series, Known(m, series, lengths), c, x[1], x[2])
    BY <2>1
  <2> HIDE DEF rows, results, signals
  <2> QED BY <1>3, <2>2
<1>5. \A a, b \in signals : a.key = b.key /\ a.openedAt = b.openedAt => a = b
  BY SignalsAreTold
<1>6. ASSUME NEW series \in group, NEW x \in Judgments(Known(m, series, lengths), c)
      PROVE  \E j \in 1 .. n : RowTells(rows[j], results, SignalAt(series, Known(m, series, lengths), c, x))
  <2>1. PICK j \in 1 .. n : RowJudges(rows[j], series, Known(m, series, lengths), c, x[1], x[2])
    <3> HIDE DEF rows
    <3> QED BY <1>1 DEF JudgeGroup
  <2> HIDE DEF rows, results, signals, n
  <2> QED BY <1>3, <2>1
<1>7. ASSUME NEW s \in signals PROVE \E j \in 1 .. n : RowTells(rows[j], results, s)
  <2>1. PICK series \in group : s \in SignalsAt(series, Known(m, series, lengths), c)
    BY DEF SignalsIn
  <2>2. PICK x \in Judgments(Known(m, series, lengths), c) :
            s = SignalAt(series, Known(m, series, lengths), c, x)
    BY <2>1 DEF SignalsAt
  <2> HIDE DEF rows, results, signals, n
  <2> QED BY <1>6, <2>2
<1> HIDE DEF rows, results, signals, n
<1>8. ASSUME NEW j \in 1 .. n PROVE at[j] \in signals /\ RowTells(rows[j], results, at[j])
  BY <1>4
<1> HIDE DEF at
<1>9. at = [j \in 1 .. n |-> at[j]]
  BY DEF at
<1>10. at \in [1 .. n -> signals]
  BY <1>8, <1>9
<1>11. \A j, l \in 1 .. n : at[j] = at[l] => j = l
  BY <1>2, <1>8 DEF RowTells
<1>12. ASSUME NEW s \in signals PROVE \E j \in 1 .. n : at[j] = s
  <2>1. PICK j \in 1 .. n : RowTells(rows[j], results, s)
    BY <1>7
  <2>2. at[j].key = s.key /\ at[j].openedAt = s.openedAt
    BY <1>8, <2>1 DEF RowTells
  <2> QED BY <1>5, <1>8, <2>2
<1>13. at \in Bijection(1 .. n, signals)
  BY <1>10, <1>11, <1>12 DEF Bijection, Injection, Surjection, IsInjective
<1>14. AreAbout(at, rows, results, signals)
  BY <1>2, <1>8, <1>13 DEF AreAbout, n
<1> QED BY <1>14 DEF rows, results, signals

\* Every BUY of a validation period is judged once, by the candles of its own window alone, and
\* nothing else is (plan_windows, _window_dataset, split_rows, evaluate_dataset).
THEOREM SignalsAreJudgedOnce == ResearchSpec => []EachSignalJudgedOnce
<1>1. ResearchInv => EachSignalJudgedOnce
  <2> SUFFICES ASSUME ResearchInv, evaluation.outcome = "reports" PROVE EachSignalJudgedOnce
    BY DEF EachSignalJudgedOnce
  <2> DEFINE m == market
             group == evaluation.group
             lengths == evaluation.recorded
             c == evaluation.configuration
             rows == evaluation.reports.robustness.rows
             results == evaluation.reports.robustness.results
             signals == SignalsIn(m, group, lengths, c)
             n == Len(rows)
  <2>1. /\ m \in Markets /\ group \in Groups /\ AreLengths(lengths, m) /\ c \in EngineSettings
        /\ evaluation.reports = ReportsFor(m, group, lengths, c)
    BY DEF ResearchInv, MarketInv, EvaluationInv, IsEvaluation
  <2>2. AllJudged(group, lengths, c) = signals
    <3> HIDE DEF group, lengths, c
    <3> QED BY <2>1, AllJudgedAre
  <2>3. PICK at : AreAbout(at, rows, results, signals)
    <3> HIDE DEF m, group, lengths, c
    <3> QED BY <2>1, RowsAreSignals
  <2>4. /\ n \in Nat /\ DOMAIN rows = 1 .. n /\ at \in Bijection(1 .. n, signals)
        /\ \A j \in 1 .. n : RowTells(rows[j], results, at[j])
    <3> HIDE DEF rows, signals, results
    <3> QED BY <2>3, ListIs DEF AreAbout
  <2> HIDE DEF rows, signals, results, n
  <2>5. n = Cardinality(signals)
    <3>1. IsFiniteSet(1 .. n) /\ Cardinality(1 .. n) = n
      BY <2>4, FS_Interval
    <3> QED BY <2>4, <3>1, FS_Bijection DEF ExistsBijection
  <2>6. {<<row.key, row.openedAt, row.outcome.status>> : row \in ToSet(rows)}
           = {<<signal.key, signal.openedAt, signal.verdict>> : signal \in signals}
    <3>1. ASSUME NEW j \in 1 .. n
          PROVE  /\ at[j] \in signals
                 /\ <<rows[j].key, rows[j].openedAt, rows[j].outcome.status>>
                       = <<at[j].key, at[j].openedAt, at[j].verdict>>
      BY <2>4 DEF RowTells, Bijection, Injection
    <3>2. \A s \in signals : \E j \in 1 .. n : at[j] = s
      BY <2>4 DEF Bijection, Surjection
    <3>3. ToSet(rows) = {rows[j] : j \in 1 .. n}
      BY <2>4 DEF ToSet
    <3> QED BY <3>1, <3>2, <3>3
  <2> QED BY <2>2, <2>5, <2>6 DEF EachSignalJudgedOnce, rows, n
<1> QED BY <1>1, ResearchIsSound, PTL

-----------------------------------------------------------------------------
(* What a finding rests on.                                                *)

\* A decided outcome with a negative return is a loss.
LEMMA NegativeIsALoss ==
    ASSUME NEW o, IsClear(o), IsFinal(o), FinalReturn(o) < 0
    PROVE  o.status = "LOSS"
<1> DEFINE a == o.final.price - o.referenceClose
           b == o.referenceClose
           u == RatioUnit
<1>1. a \in Int /\ b \in Nat \ {0} /\ u \in Nat \ {0} /\ o.status = ClassifyOutcome(a)
  BY RatioAssumption DEF IsClear
<1>2. (a * u) \div b < 0
  BY DEF FinalReturn, Ratio
<1> HIDE DEF a, b, u
<1>3. a < 0
  <2> SUFFICES ASSUME a >= 0 PROVE FALSE
    BY <1>1
  <2> DEFINE x == a * u
  <2>1. x \in Nat
    BY <1>1
  <2>2. x \div b < 0
    BY <1>2
  <2> HIDE DEF x
  <2>3. x \div b >= 0
    BY <1>1, <2>1
  <2> QED BY <1>1, <2>1, <2>2, <2>3
<1> QED BY <1>1, <1>3 DEF ClassifyOutcome

\* A list that loses on average holds a loss.
LEMMA LoserHasALoss ==
    ASSUME NEW q, NEW n \in Nat, IsList(q, n), \A i \in 1 .. n : IsClear(q[i]) /\ CanBeSummed(q[i]),
           Summary(q).finalized >= Protocol.minimum, Below(Summary(q).averageFinal, Zero)
    PROVE  \E i \in 1 .. n : q[i].status = "LOSS"
<1> DEFINE s == Summary(q)
           v == [i \in 1 .. n |-> Worth("finalSum", q[i])]
<1>1. Len(q) = n /\ DOMAIN q = 1 .. n
  BY ListIs
<1>2. s.finalized = Len(FinalsIn(q)) /\ s.averageFinal = Average(s.finalSum, s.finalized)
  BY DEF Summary, Aggregate
<1>3. Len(FinalsIn(q)) \in Nat
  <2>1. "losses" \in Fields
    BY DEF Fields
  <2> QED BY <1>1, <2>1, StatisticsCount
<1>4. s.finalSum = TotalOf(v, n)
  BY FinalSumIs
<1>5. \A i \in 1 .. n : v[i] \in Int
  BY WorthIsWhole
<1>6. s.finalSum < 0
  <2>1. s.finalized # 0
    BY <1>2, <1>3, ProtocolAssumption
  <2>2. TotalOf(v, n) \in Int
    <3> HIDE DEF v
    <3> QED BY <1>5, TotalsAgree
  <2>3. s.averageFinal = <<s.finalSum, s.finalized>>
    BY <1>2, <2>1 DEF Average
  <2> DEFINE f == s.finalSum
             d == s.finalized
  <2>4. f \in Int /\ d \in Nat
    BY <1>2, <1>3, <1>4, <2>2
  <2>5. Below(<<f, d>>, <<0, 1>>)
    BY <2>3 DEF Zero
  <2> HIDE DEF f, d, s
  <2>6. f < 0
    BY <2>4, <2>5 DEF Below
  <2> QED BY <2>6 DEF f
<1>7. PICK i \in 1 .. n : v[i] < 0
  <2> HIDE DEF v, s
  <2> QED BY <1>4, <1>5, <1>6, NegativeTotal
<1>8. IsFinal(q[i]) /\ FinalReturn(q[i]) < 0
  BY <1>7 DEF Worth
<1> QED BY <1>8, NegativeIsALoss

\* Rows that make a finding hold a loss.
LEMMA FindingHasALoss ==
    ASSUME NEW rows, NEW n \in Nat, IsList(rows, n), \A i \in 1 .. n : RowIsWhole(rows[i]),
           NEW cell, cell.summary = Summary(OutcomesOf(rows)),
           cell.verdict = Diagnose(cell.summary, Protocol.settings),
           IsFinding(cell, Protocol.minimum)
    PROVE  \E i \in 1 .. n : rows[i].outcome.status = "LOSS"
<1> DEFINE q == OutcomesOf(rows)
           s == cell.summary
<1>1. IsList(q, n) /\ \A i \in 1 .. n : q[i] = rows[i].outcome
  BY OutcomesAre
<1> HIDE DEF q
<1>2. \A i \in 1 .. n : IsClear(q[i]) /\ CanBeSummed(q[i])
  BY <1>1 DEF RowIsWhole
<1>3. s = Summary(q)
  BY DEF q
<1>4. s.finalized >= Protocol.minimum
  BY DEF IsFinding
<1>5. Below(s.averageFinal, Zero)
  <2>1. cell.verdict.diagnostic = "WEAKNESS" \/ cell.verdict.pattern = "LOSER"
    BY DEF IsFinding
  <2> HIDE DEF s
  <2>2. cell.verdict = Diagnose(s, Protocol.settings)
    BY DEF s
  <2> QED BY <2>1, <2>2 DEF Diagnose
<1> HIDE DEF s
<1>6. \E i \in 1 .. n : q[i].status = "LOSS"
  BY <1>1, <1>2, <1>3, <1>4, <1>5, LoserHasALoss
<1> QED BY <1>1, <1>6

-----------------------------------------------------------------------------
(* The sample of a metric, and the signals that the market decided.        *)

\* A part of a finite set is as large as what a bijection makes of it.
LEMMA AsManyOnBothSides ==
    ASSUME NEW n \in Nat, NEW T, NEW at \in Bijection(1 .. n, T), NEW J \in SUBSET (1 .. n),
           NEW D \in SUBSET T, \A j \in 1 .. n : j \in J <=> at[j] \in D
    PROVE  Cardinality(J) = Cardinality(D) /\ Cardinality(J) \in Nat
<1> DEFINE f == [j \in J |-> at[j]]
<1>1. /\ \A j \in 1 .. n : at[j] \in T
      /\ \A j, l \in 1 .. n : at[j] = at[l] => j = l
      /\ \A t \in T : \E j \in 1 .. n : at[j] = t
  BY DEF Bijection, Injection, Surjection, IsInjective
<1>2. f \in [J -> D]
  OBVIOUS
<1>3. \A j, l \in J : f[j] = f[l] => j = l
  BY <1>1
<1>4. \A t \in D : \E j \in J : f[j] = t
  BY <1>1
<1>5. f \in Bijection(J, D)
  <2> HIDE DEF f
  <2> QED BY <1>2, <1>3, <1>4 DEF Bijection, Injection, Surjection, IsInjective
<1>6. IsFiniteSet(J) /\ Cardinality(J) \in Nat
  BY IndexSet
<1> QED BY <1>5, <1>6, FS_Bijection DEF ExistsBijection

\* What is decided of the rows picked is counted once.
LEMMA PickedSample ==
    ASSUME NEW rows, NEW n \in Nat, IsList(rows, n), RowsCanBeSummed(rows, n),
           NEW I \in SUBSET (1 .. n)
    PROVE  Summary(OutcomesOf(Picked(rows, I))).finalized
              = Cardinality({i \in I : IsFinal(rows[i].outcome)})
<1> DEFINE J == {i \in I : IsFinal(rows[i].outcome)}
           v == [i \in 1 .. n |-> Worth("finalized", rows[i].outcome)]
           a == [i \in 1 .. n |-> IF i \in I THEN v[i] ELSE 0]
           b == [i \in 1 .. n |-> IF i \in J THEN 1 ELSE 0]
<1>1. Summary(OutcomesOf(Picked(rows, I)))["finalized"] = TotalOf(a, n)
  <2>1. "finalized" \in CountedFields
    BY DEF CountedFields
  <2> QED BY <2>1, PickedSummary
<1>2. \A i \in 1 .. n : a[i] = b[i] /\ a[i] \in Int
  BY DEF Worth, Counts
<1>3. J \in SUBSET (1 .. n)
  OBVIOUS
<1> HIDE DEF J, a
<1>4. Cardinality(J) = TotalOf(b, n)
  BY <1>3, CountIsTotal
<1> HIDE DEF b
<1>5. TotalOf(a, n) = TotalOf(b, n)
  BY <1>2, TotalsAgree
<1> QED BY <1>1, <1>4, <1>5 DEF J

LEMMA WholeSample ==
    ASSUME NEW rows, NEW n \in Nat, IsList(rows, n), RowsCanBeSummed(rows, n)
    PROVE  Summary(OutcomesOf(rows)).finalized = Cardinality({i \in 1 .. n : IsFinal(rows[i].outcome)})
<1> DEFINE q == OutcomesOf(rows)
           J == {i \in 1 .. n : IsFinal(rows[i].outcome)}
           a == [i \in 1 .. n |-> Worth("finalized", q[i])]
           b == [i \in 1 .. n |-> IF i \in J THEN 1 ELSE 0]
<1>1. IsList(q, n) /\ \A i \in 1 .. n : q[i] = rows[i].outcome
  BY OutcomesAre
<1> HIDE DEF q
<1>2. \A i \in 1 .. n : CanBeSummed(q[i])
  BY <1>1 DEF RowsCanBeSummed
<1>3. Summary(q)["finalized"] = TotalOf(a, n)
  <2>1. "finalized" \in CountedFields
    BY DEF CountedFields
  <2> QED BY <1>1, <1>2, <2>1, SummaryIsTotal
<1>4. \A i \in 1 .. n : a[i] = b[i] /\ a[i] \in Int
  BY <1>1 DEF Worth, Counts
<1>5. J \in SUBSET (1 .. n)
  OBVIOUS
<1> HIDE DEF J, a
<1>6. Cardinality(J) = TotalOf(b, n)
  BY <1>5, CountIsTotal
<1> HIDE DEF b
<1>7. TotalOf(a, n) = TotalOf(b, n)
  BY <1>4, TotalsAgree
<1> QED BY <1>3, <1>6, <1>7 DEF J, q

\* The decided signals of a group.
DecidedAmong(signals, dimension, name) ==
    {signal \in signals : signal.verdict # "OPEN" /\ GroupOf(signal, dimension) = name}

\* The rows of a group are about its signals.
LEMMA GroupIsDecided ==
    ASSUME NEW at, NEW rows, NEW results, NEW signals, AreAbout(at, rows, results, signals),
           RowsCanBeSummed(rows, Len(rows)), NEW dimension, NEW names,
           \A j \in 1 .. Len(rows) : names[j] = GroupOf(at[j], dimension), NEW name
    PROVE  /\ Summary(OutcomesOf(RowsOf(name, names, rows))).finalized
                 = Cardinality(DecidedAmong(signals, dimension, name))
           /\ Cardinality(DecidedAmong(signals, dimension, name)) \in Nat
<1> DEFINE n == Len(rows)
           I == {i \in 1 .. n : names[i] = name}
           J == {i \in I : IsFinal(rows[i].outcome)}
           D == DecidedAmong(signals, dimension, name)
<1>1. /\ n \in Nat /\ IsList(rows, n) /\ at \in Bijection(1 .. n, signals)
      /\ \A j \in 1 .. n : RowTells(rows[j], results, at[j])
  BY DEF AreAbout
<1>2. DOMAIN rows = 1 .. n
  <2> HIDE DEF n
  <2> QED BY <1>1, ListIs
<1> HIDE DEF n
<1>3. RowsOf(name, names, rows) = Picked(rows, I)
  BY <1>2 DEF RowsOf
<1>4. Summary(OutcomesOf(Picked(rows, I))).finalized = Cardinality(J)
  <2>1. I \in SUBSET (1 .. n)
    OBVIOUS
  <2> HIDE DEF I
  <2> QED BY <1>1, <2>1, PickedSample DEF n
<1>5. \A j \in 1 .. n : /\ at[j] \in signals
                        /\ IsFinal(rows[j].outcome) <=> at[j].verdict # "OPEN"
  BY <1>1 DEF RowTells, IsFinal, IsOpen, Bijection, Injection
<1>6. \A j \in 1 .. n : j \in J <=> at[j] \in D
  BY <1>5 DEF DecidedAmong, n
<1>7. J \in SUBSET (1 .. n) /\ D \in SUBSET signals
  BY DEF DecidedAmong
<1> HIDE DEF J, D
<1>8. Cardinality(J) = Cardinality(D) /\ Cardinality(D) \in Nat
  <2>1. Cardinality(J) = Cardinality(D)
    BY <1>1, <1>6, <1>7, AsManyOnBothSides
  <2>2. Cardinality(J) \in Nat
    BY <1>1, <1>6, <1>7, AsManyOnBothSides
  <2> QED BY <2>1, <2>2
<1> QED BY <1>3, <1>4, <1>8 DEF D

LEMMA AllIsDecided ==
    ASSUME NEW at, NEW rows, NEW results, NEW signals, AreAbout(at, rows, results, signals),
           RowsCanBeSummed(rows, Len(rows))
    PROVE  /\ Summary(OutcomesOf(rows)).finalized
                 = Cardinality(DecidedAmong(signals, "overall", "all"))
           /\ Cardinality(DecidedAmong(signals, "overall", "all")) \in Nat
<1> DEFINE n == Len(rows)
           J == {i \in 1 .. n : IsFinal(rows[i].outcome)}
           D == DecidedAmong(signals, "overall", "all")
<1>1. /\ n \in Nat /\ IsList(rows, n) /\ at \in Bijection(1 .. n, signals)
      /\ \A j \in 1 .. n : RowTells(rows[j], results, at[j])
  BY DEF AreAbout
<1> HIDE DEF n
<1>2. Summary(OutcomesOf(rows)).finalized = Cardinality(J)
  BY <1>1, WholeSample DEF n
<1>3. \A j \in 1 .. n : /\ at[j] \in signals
                        /\ IsFinal(rows[j].outcome) <=> at[j].verdict # "OPEN"
  BY <1>1 DEF RowTells, IsFinal, IsOpen, Bijection, Injection
<1>4. \A j \in 1 .. n : j \in J <=> at[j] \in D
  BY <1>3 DEF DecidedAmong, GroupOf
<1>5. J \in SUBSET (1 .. n) /\ D \in SUBSET signals
  BY DEF DecidedAmong
<1> HIDE DEF J, D
<1>6. Cardinality(J) = Cardinality(D) /\ Cardinality(D) \in Nat
  <2>1. Cardinality(J) = Cardinality(D)
    BY <1>1, <1>4, <1>5, AsManyOnBothSides
  <2>2. Cardinality(J) \in Nat
    BY <1>1, <1>4, <1>5, AsManyOnBothSides
  <2> QED BY <2>1, <2>2
<1> QED BY <1>2, <1>6 DEF D

\* The name a row is grouped under is the group of the signal it is about.
LEMMA NamesAreGroups ==
    ASSUME NEW at, NEW rows, NEW results, NEW signals, AreAbout(at, rows, results, signals),
           NEW dimension \in Dimensions, NEW j \in 1 .. Len(rows)
    PROVE  NamesFor(dimension, results, rows)[j] = GroupOf(at[j], dimension)
<1> DEFINE n == Len(rows)
           f == [i \in DOMAIN rows |-> RowRegime(results, rows[i])]
<1>1. n \in Nat /\ IsList(rows, n) /\ RowTells(rows[j], results, at[j]) /\ j \in 1 .. n
  BY DEF AreAbout
<1> HIDE DEF n
<1>2. DOMAIN rows = 1 .. n
  BY <1>1, ListIs
<1>3. CombinationsOf(rows)[j] = Combination[at[j].labels]
  BY <1>1, <1>2 DEF CombinationsOf, RowTells
<1>4. SymbolsOf(rows)[j] = at[j].symbol /\ TimeframesOf(rows)[j] = at[j].timeframe
  BY <1>1, <1>2 DEF SymbolsOf, TimeframesOf, RowTells
<1>5. MonthsOf(rows)[j] = MonthNames[at[j].openedAt \div MonthLength + 1]
  BY <1>1, <1>2 DEF MonthsOf, Month, RowTells
<1>6. RegimesOf(results, rows)[j] = at[j].regime
  <2>1. RegimesOf(results, rows) = Listed(f)
    BY DEF RegimesOf
  <2>2. IsList(f, n) /\ f[j] = RowRegime(results, rows[j])
    BY <1>1, <1>2 DEF IsList
  <2> HIDE DEF f
  <2>3. Listed(f) = f
    BY <1>1, <2>2, ListedIs
  <2> QED BY <1>1, <2>1, <2>2, <2>3 DEF RowTells
<1> QED BY <1>3, <1>4, <1>5, <1>6 DEF Dimensions, NamesFor, GroupOf

\* The sample of a metric counts the signals of its group that the market decided.
LEMMA SampleIsDecided ==
    ASSUME NEW m \in Markets, NEW group \in Groups, NEW lengths, AreLengths(lengths, m),
           NEW c \in EngineSettings,
           NEW name \in DOMAIN Metrics(ReportsFor(m, group, lengths, c).intelligence)
    PROVE  LET decided == DecidedAmong(SignalsIn(m, group, lengths, c), name[1], name[2])
           IN  /\ Metrics(ReportsFor(m, group, lengths, c).intelligence)[name].sample
                     = Cardinality(decided)
               /\ Cardinality(decided) \in Nat
<1> DEFINE reports == ReportsFor(m, group, lengths, c)
           report == reports.intelligence
           rows == reports.robustness.rows
           results == reports.robustness.results
           n == Len(rows)
           s == Protocol.settings
           signals == SignalsIn(m, group, lengths, c)
           metrics == Metrics(report)
           cell == IF name[1] = "overall" THEN report.overall
                   ELSE CHOOSE x \in ToSet(report.by[name[1]]) : x.name = name[2]
<1>1. PICK at : AreAbout(at, rows, results, signals)
  BY RowsAreSignals
<1>2. /\ n \in Nat /\ IsList(rows, n)
      /\ \A j \in 1 .. n : RowIsWhole(rows[j]) /\ RowRegime(results, rows[j]) \in ToSet(Names)
  BY RowsAreReadable
<1>3. /\ report.overall = Cell("overall", "all", rows, s)
      /\ \A dimension \in Dimensions :
            report.by[dimension] = Cells(dimension, NamesFor(dimension, results, rows), rows, s)
  BY TheCellsAre
<1>4. /\ metrics[name].sample = cell.summary.finalized
      /\ \/ name = <<"overall", "all">>
         \/ \E d \in Dimensions : \E x \in ToSet(report.by[d]) : name = <<d, x.name>>
  <2> DEFINE NamesOf(d) == {<<d, x.name>> : x \in ToSet(report.by[d])}
             all == {<<"overall", "all">>} \union UNION {NamesOf(d) : d \in Dimensions}
             f == [y \in all |-> MetricOf(IF y[1] = "overall" THEN report.overall
                                          ELSE CHOOSE x \in ToSet(report.by[y[1]]) : x.name = y[2])]
  <2>1. metrics = f /\ name \in DOMAIN metrics
    BY DEF Metrics
  <2> HIDE DEF metrics
  <2>2. name \in all
    BY <2>1
  <2>3. f[name] = MetricOf(cell)
    BY <2>2
  <2>4. metrics[name].sample = cell.summary.finalized
    <3> HIDE DEF f, cell
    <3> QED BY <2>1, <2>3 DEF MetricOf
  <2>5. name = <<"overall", "all">> \/ \E d \in Dimensions : name \in NamesOf(d)
    BY <2>2
  <2> QED BY <2>4, <2>5
<1> HIDE DEF reports, report, rows, results, signals, metrics, cell
<1>5. RowsCanBeSummed(rows, n)
  BY <1>2 DEF RowsCanBeSummed, RowIsWhole
<1>6. CASE name = <<"overall", "all">>
  <2>1. cell.summary = Summary(OutcomesOf(rows))
    BY <1>3, <1>6 DEF cell, Cell
  <2>2. /\ Summary(OutcomesOf(rows)).finalized = Cardinality(DecidedAmong(signals, "overall", "all"))
        /\ Cardinality(DecidedAmong(signals, "overall", "all")) \in Nat
    BY <1>1, <1>5, AllIsDecided
  <2> QED BY <1>4, <1>6, <2>1, <2>2 DEF metrics, signals, report, reports
<1>7. ASSUME NEW d \in Dimensions, NEW x \in ToSet(report.by[d]), name = <<d, x.name>>
      PROVE  /\ metrics[name].sample = Cardinality(DecidedAmong(signals, name[1], name[2]))
             /\ Cardinality(DecidedAmong(signals, name[1], name[2])) \in Nat
  <2> DEFINE cells == report.by[d]
             names == NamesFor(d, results, rows)
             order == Sorted(ToSet(names))
  <2>1. AreGroups(cells, names, rows)
    BY <1>3, CellsAre
  <2>2. Len(order) \in Nat
    BY SortedIs
  <2>3. d # "overall" /\ name[1] = d /\ name[2] = x.name
    BY <1>7 DEF Dimensions
  <2>4. cell = CHOOSE y \in ToSet(cells) : y.name = name[2]
    BY <2>3 DEF cell
  <2>5. cell \in ToSet(cells) /\ cell.name = name[2]
    BY <1>7, <2>3, <2>4
  <2>6. \A j \in 1 .. n : names[j] = GroupOf(at[j], d)
    BY <1>1, NamesAreGroups
  <2> HIDE DEF cells, names
  <2>7. IsList(cells, Len(order))
    BY <2>1 DEF AreGroups
  <2>8. PICK k \in 1 .. Len(order) : cell = cells[k]
    <3> HIDE DEF order
    <3> QED BY <2>2, <2>5, <2>7, ListIs DEF ToSet
  <2>9. cell.summary = Summary(OutcomesOf(RowsOf(name[2], names, rows)))
    BY <2>1, <2>5, <2>8 DEF AreGroups
  <2>10. /\ Summary(OutcomesOf(RowsOf(name[2], names, rows))).finalized
               = Cardinality(DecidedAmong(signals, d, name[2]))
         /\ Cardinality(DecidedAmong(signals, d, name[2])) \in Nat
    BY <1>1, <1>5, <2>6, GroupIsDecided
  <2> QED BY <1>4, <2>3, <2>9, <2>10
<1> QED BY <1>4, <1>6, <1>7 DEF metrics, signals, report, reports

\* The signals a record of evidence is about are those its provenance and its configuration show.
LEMMA DecidedInIs ==
    ASSUME market \in Markets, NEW group \in Groups, NEW lengths \in [Keys -> Nat],
           AreLengths(lengths, market), NEW c \in EngineSettings,
           NEW record, EvidenceOf(record, market, group, lengths, c), NEW name
    PROVE  DecidedIn(record, name)
              = DecidedAmong(SignalsIn(market, group, lengths, c), name[1], name[2])
<1> DEFINE provenance == record.provenance
           own == [key \in DOMAIN market |->
                      provenance[CHOOSE series \in DOMAIN provenance : series.key = key]]
           N == Len(KeysIn(group))
           Its(i) == ItsSeries(group, i)
<1>1. /\ provenance = [series \in group |-> lengths[series.key]]
      /\ record.runId.configuration = c
  BY DEF EvidenceOf
<1>2. ASSUME NEW series \in group PROVE own[series.key] = lengths[series.key]
  <2>1. series.key \in DOMAIN market
    BY MarketIs DEF Groups, Keys
  <2> DEFINE chosen == CHOOSE t \in DOMAIN provenance : t.key = series.key
  <2>2. DOMAIN provenance = group
    BY <1>1
  <2>3. chosen \in group /\ chosen.key = series.key
    BY <2>2
  <2> HIDE DEF chosen, provenance
  <2>4. provenance[chosen] = lengths[series.key]
    BY <1>1, <2>3
  <2> QED BY <2>1, <2>4 DEF chosen
<1> HIDE DEF own
<1>3. /\ N \in Nat /\ \A i \in 1 .. N : Its(i) \in group
  BY KeysAre DEF Groups
<1>4. DatasetsFrom(market, group, own) = DatasetsFrom(market, group, lengths)
  <2>1. \A i \in 1 .. N : DatasetFrom(market, Its(i), own) = DatasetFrom(market, Its(i), lengths)
    BY <1>2, <1>3 DEF DatasetFrom
  <2> HIDE DEF N, Its
  <2>2. /\ DatasetsFrom(market, group, own) = [i \in 1 .. N |-> DatasetFrom(market, Its(i), own)]
        /\ DatasetsFrom(market, group, lengths)
              = [i \in 1 .. N |-> DatasetFrom(market, Its(i), lengths)]
    BY DEF DatasetsFrom, N, Its
  <2> QED BY <2>1, <2>2
<1>5. AllJudged(group, own, c) = SignalsIn(market, group, lengths, c)
  <2>1. DatasetsAt(group, own) = DatasetsAt(group, lengths)
    BY <1>4, DatasetsAre DEF Groups
  <2>2. AllJudged(group, own, c) = AllJudged(group, lengths, c)
    BY <2>1 DEF AllJudged
  <2> QED BY <2>2, AllJudgedAre
<1> QED
  <2>1. DOMAIN provenance = group
    BY <1>1
  <2> QED BY <1>1, <1>5, <2>1 DEF DecidedIn, DecidedAmong, own

\* What a record of evidence says of a sample, the market says.
LEMMA EvidenceIsSampled ==
    ASSUME ResearchInv, NEW record \in evidence, NEW name,
           SampleIn(record, name) >= Protocol.minimum
    PROVE  Cardinality(DecidedIn(record, name)) >= Protocol.minimum
<1>1. market \in Markets /\ IsEvidence(record, market)
  BY DEF ResearchInv, MarketInv, EvidenceInv
<1>2. PICK group \in Groups, c \in EngineSettings, lengths \in [Keys -> Nat] :
         AreLengths(lengths, market) /\ EvidenceOf(record, market, group, lengths, c)
  BY <1>1 DEF IsEvidence
<1> DEFINE metrics == Metrics(ReportsFor(market, group, lengths, c).intelligence)
<1>3. record.metrics = metrics
  BY <1>2 DEF EvidenceOf
<1> HIDE DEF metrics
<1>4. DecidedIn(record, name)
         = DecidedAmong(SignalsIn(market, group, lengths, c), name[1], name[2])
  BY <1>1, <1>2, DecidedInIs
<1>5. name \in DOMAIN metrics /\ metrics[name].sample >= Protocol.minimum
  <2>1. ~ (0 >= Protocol.minimum)
    BY ProtocolAssumption
  <2> QED BY <1>3, <2>1 DEF SampleIn
<1>6. metrics[name].sample
          = Cardinality(DecidedAmong(SignalsIn(market, group, lengths, c), name[1], name[2]))
  BY <1>1, <1>2, <1>5, SampleIsDecided DEF metrics
<1> QED BY <1>4, <1>5, <1>6

\* A row of a comparison is conclusive only when the market decided enough signals of its group in
\* both runs, and a review calls evidence sufficient only when it decided enough in all (compare,
\* build_review_report).
THEOREM ConclusiveMeansSampled == ResearchSpec => []ConclusiveIsSampled
<1>1. ResearchInv => ConclusiveIsSampled
  <2> SUFFICES ASSUME ResearchInv, NEW reference \in evidence, NEW other \in evidence
               PROVE  LET comparison == Compare(reference, other)
                      IN  /\ \A name \in DOMAIN comparison.rows :
                                comparison.rows[name].conclusive =>
                                    \A record \in {reference, other} :
                                        Cardinality(DecidedIn(record, name)) >= Protocol.minimum
                          /\ ReviewQuality(reference, other, comparison) = "SUFFICIENT" =>
                                Cardinality(DecidedIn(other, <<"overall", "all">>))
                                   >= Protocol.minimum
    BY DEF ConclusiveIsSampled
  <2> DEFINE comparison == Compare(reference, other)
  <2>1. ASSUME NEW name \in DOMAIN comparison.rows, comparison.rows[name].conclusive,
               NEW record \in {reference, other}
        PROVE  Cardinality(DecidedIn(record, name)) >= Protocol.minimum
    <3>1. Conclusive(reference, other, name, Protocol.minimum)
      BY <2>1 DEF Compare
    <3>2. SampleIn(record, name) >= Protocol.minimum
      BY <2>1, <3>1 DEF Conclusive
    <3> QED BY <3>2, EvidenceIsSampled
  <2>2. ASSUME ReviewQuality(reference, other, comparison) = "SUFFICIENT"
        PROVE  Cardinality(DecidedIn(other, <<"overall", "all">>)) >= Protocol.minimum
    <3> DEFINE name == <<"overall", "all">>
    <3>1. ~ (OverallFinalized(other) < comparison.minimum)
      BY <2>2 DEF ReviewQuality
    <3>2. comparison.minimum = Protocol.minimum
      BY DEF Compare
    <3>3. PICK group \in Groups, c \in EngineSettings, lengths \in [Keys -> Nat] :
             AreLengths(lengths, market) /\ EvidenceOf(other, market, group, lengths, c)
      BY DEF ResearchInv, EvidenceInv, IsEvidence
    <3> DEFINE report == ReportsFor(market, group, lengths, c).intelligence
    <3>4. other.metrics = Metrics(report) /\ market \in Markets
      BY <3>3 DEF EvidenceOf, ResearchInv, MarketInv
    <3> HIDE DEF report
    <3>5. name \in DOMAIN Metrics(report)
      BY DEF Metrics
    <3>6. Metrics(report)[name].sample \in Nat
      BY <3>3, <3>4, <3>5, SampleIsDecided DEF report
    <3>7. SampleIn(other, name) = OverallFinalized(other) /\ OverallFinalized(other) \in Nat
      BY <3>4, <3>5, <3>6 DEF SampleIn, OverallFinalized
    <3>8. SampleIn(other, name) >= Protocol.minimum
      BY <3>1, <3>2, <3>7, ProtocolAssumption
    <3> QED BY <3>8, EvidenceIsSampled
  <2> QED BY <2>1, <2>2
<1> QED BY <1>1, ResearchIsSound, PTL

-----------------------------------------------------------------------------
(* The hypotheses that were generated.                                     *)

\* A group of which the market decided enough signals and lost one at least.
IsLosing(m, group, lengths, c, dimension, name) ==
    LET decided == DecidedAmong(SignalsIn(m, group, lengths, c), dimension, name)
    IN  /\ Cardinality(decided) >= Protocol.minimum
        /\ \E signal \in decided : signal.verdict = "LOSS"

LEMMA FindingsAreLosing ==
    ASSUME NEW m \in Markets, NEW group \in Groups, NEW lengths, AreLengths(lengths, m),
           NEW c \in EngineSettings,
           NEW finding \in FindingsOf(ReportsFor(m, group, lengths, c).intelligence, Protocol.minimum)
    PROVE  IsLosing(m, group, lengths, c, finding.dimension, finding.name)
<1> DEFINE reports == ReportsFor(m, group, lengths, c)
           report == reports.intelligence
           rows == reports.robustness.rows
           results == reports.robustness.results
           n == Len(rows)
           s == Protocol.settings
           signals == SignalsIn(m, group, lengths, c)
<1>1. n \in Nat /\ IsList(rows, n) /\ \A j \in 1 .. n : RowIsWhole(rows[j])
  BY RowsAreReadable
<1>2. /\ report.overall = Cell("overall", "all", rows, s)
      /\ \A dimension \in Dimensions :
            report.by[dimension] = Cells(dimension, NamesFor(dimension, results, rows), rows, s)
  BY TheCellsAre
<1>3. PICK at : AreAbout(at, rows, results, signals)
  BY RowsAreSignals
<1> HIDE DEF report, rows, results, n, signals
<1>4. PICK cell \in {report.overall} \union UNION {ToSet(report.by[d]) : d \in Dimensions} :
         /\ IsFinding(cell, Protocol.minimum)
         /\ finding.dimension = cell.dimension /\ finding.name = cell.name
  BY DEF FindingsOf, report
<1>5. RowsCanBeSummed(rows, Len(rows)) /\ Len(rows) = n
  BY <1>1 DEF RowsCanBeSummed, RowIsWhole, n
<1>6. \A j \in 1 .. n : at[j] \in signals /\ rows[j].outcome.status = at[j].verdict
  BY <1>3 DEF AreAbout, RowTells, Bijection, Injection, n
<1>7. CASE cell = report.overall
  <2>1. /\ cell.dimension = "overall" /\ cell.name = "all"
        /\ cell.summary = Summary(OutcomesOf(rows)) /\ cell.verdict = Diagnose(cell.summary, s)
    BY <1>2, <1>7 DEF Cell
  <2> DEFINE decided == DecidedAmong(signals, "overall", "all")
  <2>2. Cardinality(decided) = cell.summary.finalized
    BY <1>3, <1>5, <2>1, AllIsDecided
  <2>3. PICK i \in 1 .. n : rows[i].outcome.status = "LOSS"
    BY <1>1, <1>4, <2>1, FindingHasALoss
  <2>4. at[i] \in decided /\ at[i].verdict = "LOSS"
    BY <1>6, <2>3 DEF DecidedAmong, GroupOf
  <2> HIDE DEF decided
  <2>5. cell.summary.finalized >= Protocol.minimum
    BY <1>4 DEF IsFinding
  <2> QED BY <1>4, <2>1, <2>2, <2>4, <2>5 DEF IsLosing, decided, signals
<1>8. ASSUME NEW d \in Dimensions, cell \in ToSet(report.by[d])
      PROVE  IsLosing(m, group, lengths, c, finding.dimension, finding.name)
  <2> DEFINE names == NamesFor(d, results, rows)
             order == Sorted(ToSet(names))
             cells == report.by[d]
  <2>1. /\ AreGroups(cells, names, rows)
        /\ \A k \in 1 .. Len(order) : /\ cells[k].verdict = Diagnose(cells[k].summary, s)
                                      /\ cells[k].dimension = d
    BY <1>2, CellsAre
  <2>2. Len(order) \in Nat
    BY SortedIs
  <2>3. \A j \in 1 .. n : names[j] = GroupOf(at[j], d)
    BY <1>3, NamesAreGroups DEF n
  <2> HIDE DEF names, cells
  <2>4. IsList(cells, Len(order))
    BY <2>1 DEF AreGroups
  <2> HIDE DEF order
  <2>5. PICK k \in 1 .. Len(order) : cell = cells[k]
    BY <1>8, <2>2, <2>4, ListIs DEF ToSet, cells
  <2> DEFINE name == cell.name
             I == {i \in DOMAIN rows : names[i] = name}
             p == Picked(rows, I)
             decided == DecidedAmong(signals, d, name)
  <2>6. /\ cell.summary = Summary(OutcomesOf(RowsOf(name, names, rows)))
        /\ cell.verdict = Diagnose(cell.summary, s) /\ cell.dimension = d
    BY <2>1, <2>5 DEF AreGroups, order
  <2>7. I \in SUBSET (1 .. n) /\ \A i \in I : names[i] = name
    BY <1>1, ListIs
  <2>8. RowsOf(name, names, rows) = p
    BY DEF RowsOf
  <2>9. Cardinality(decided) = cell.summary.finalized
    <3> HIDE DEF name
    <3> QED BY <1>3, <1>5, <2>3, <2>6, GroupIsDecided
  <2> HIDE DEF I, name
  <2>10. /\ Len(p) \in Nat /\ IsList(p, Len(p))
         /\ \A a \in 1 .. Len(p) : \E i \in I : p[a] = rows[i]
    BY <1>1, <2>7, PickedList
  <2> HIDE DEF p
  <2>11. \A a \in 1 .. Len(p) : RowIsWhole(p[a])
    BY <1>1, <2>7, <2>10
  <2>12. PICK a \in 1 .. Len(p) : p[a].outcome.status = "LOSS"
    BY <1>4, <2>6, <2>8, <2>10, <2>11, FindingHasALoss
  <2>13. PICK i \in I : p[a] = rows[i]
    BY <2>10
  <2>14. at[i] \in decided /\ at[i].verdict = "LOSS"
    BY <1>6, <2>3, <2>7, <2>12, <2>13 DEF DecidedAmong
  <2> HIDE DEF decided
  <2>15. cell.summary.finalized >= Protocol.minimum
    BY <1>4 DEF IsFinding
  <2> QED BY <1>4, <2>6, <2>9, <2>14, <2>15 DEF IsLosing, decided, signals, name
<1> QED BY <1>4, <1>7, <1>8

\* The reports a researcher generates from are in her evidence, and what she generated was found in
\* some of it.
FoundedInv ==
    /\ evaluation.outcome = "reports" =>
          \E record \in evidence :
              EvidenceOf(record, market, evaluation.group, evaluation.recorded,
                         evaluation.configuration)
    /\ \A hypothesis \in hypotheses : hypothesis.weakness # None =>
          \E record \in evidence, group \in Groups, c \in EngineSettings, lengths \in [Keys -> Nat] :
              /\ AreLengths(lengths, market) /\ EvidenceOf(record, market, group, lengths, c)
              /\ IsLosing(market, group, lengths, c, hypothesis.weakness.dimension,
                          hypothesis.weakness.name)

LEMMA EvaluationIsFounded ==
    ASSUME FoundedInv, NEW subject, NEW baseline, NEW group \in Groups, NEW c,
           Evaluate(subject, baseline, group, c)
    PROVE  FoundedInv'
<1> DEFINE accepted == AcceptedFor(market, group, recorded, c)
           reports == ReportsFor(market, group, recorded, c)
           new == Evidence(subject, baseline, group, c, reports)
<1>1. /\ evaluation'.outcome = (IF accepted THEN "reports" ELSE "refused")
      /\ evaluation'.group = group /\ evaluation'.configuration = c
      /\ evaluation'.recorded = recorded
      /\ evidence' = IF ~accepted THEN evidence ELSE evidence \union {new}
      /\ UNCHANGED <<market, hypotheses>>
  BY EvaluateIs
<1>2. ASSUME accepted PROVE EvidenceOf(new, market, group, recorded, c)
  BY <1>2 DEF EvidenceOf, Evidence, Recorded
<1> HIDE DEF new, accepted
<1>3. evaluation'.outcome = "reports" => accepted /\ new \in evidence'
  BY <1>1
<1>4. evidence \subseteq evidence'
  BY <1>1
<1> QED BY <1>1, <1>2, <1>3, <1>4 DEF FoundedInv

LEMMA GenerationIsFounded ==
    ASSUME ResearchInv, FoundedInv, NEW baseline, GenerateHypotheses(baseline)
    PROVE  FoundedInv'
<1> DEFINE m == market
           group == evaluation.group
           lengths == evaluation.recorded
           c == evaluation.configuration
           findings == FindingsOf(evaluation.reports.intelligence, Protocol.minimum)
<1>1. /\ evaluation.outcome = "reports" /\ UNCHANGED <<market, evaluation, evidence>>
      /\ hypotheses' = hypotheses \union
            {[baseline |-> baseline, weakness |-> finding] : finding \in findings}
  BY DEF GenerateHypotheses
<1>2. /\ m \in Markets /\ group \in Groups /\ AreLengths(lengths, m) /\ c \in EngineSettings
      /\ evaluation.reports = ReportsFor(m, group, lengths, c)
  BY <1>1 DEF ResearchInv, MarketInv, EvaluationInv, IsEvaluation
<1>3. PICK record \in evidence : EvidenceOf(record, m, group, lengths, c)
  BY <1>1 DEF FoundedInv
<1>4. lengths \in [Keys -> Nat]
  BY <1>2 DEF AreLengths
<1> HIDE DEF m, group, lengths, c
<1>5. ASSUME NEW finding \in findings
      PROVE  IsLosing(m, group, lengths, c, finding.dimension, finding.name)
  BY <1>2, FindingsAreLosing
<1>6. ASSUME NEW hypothesis \in hypotheses', hypothesis.weakness # None
      PROVE  \E r \in evidence, g \in Groups, k \in EngineSettings, l \in [Keys -> Nat] :
                 /\ AreLengths(l, m) /\ EvidenceOf(r, m, g, l, k)
                 /\ IsLosing(m, g, l, k, hypothesis.weakness.dimension, hypothesis.weakness.name)
  <2>1. CASE hypothesis \in hypotheses
    BY <1>6, <2>1 DEF FoundedInv, m
  <2>2. ASSUME NEW finding \in findings, hypothesis = [baseline |-> baseline, weakness |-> finding]
        PROVE  IsLosing(m, group, lengths, c, hypothesis.weakness.dimension,
                        hypothesis.weakness.name)
    <3>1. hypothesis.weakness = finding
      BY <2>2
    <3> HIDE DEF findings
    <3> QED BY <1>5, <3>1
  <2> HIDE DEF findings
  <2> QED BY <1>1, <1>2, <1>3, <1>4, <2>1, <2>2
<1>7. market' = m /\ evidence' = evidence /\ evaluation' = evaluation
  BY <1>1 DEF m
<1>8. evaluation'.outcome = "reports" =>
         \E r \in evidence' : EvidenceOf(r, market', evaluation'.group, evaluation'.recorded,
                                         evaluation'.configuration)
  BY <1>1 DEF FoundedInv
<1> QED BY <1>6, <1>7, <1>8 DEF FoundedInv

LEMMA FoundedKeeps == ResearchInv /\ FoundedInv /\ [ResearchNext]_researched => FoundedInv'
<1> SUFFICES ASSUME ResearchInv, FoundedInv, [ResearchNext]_researched PROVE FoundedInv'
  OBVIOUS
<1>1. CASE UNCHANGED <<market, evaluation, evidence, hypotheses>>
  BY <1>1 DEF FoundedInv
<1>2. ASSUME NEW baseline, NEW group \in SUBSET Series \ {{}}, EvaluateBaseline(baseline, group)
      PROVE  FoundedInv'
  BY <1>2, EvaluationIsFounded DEF EvaluateBaseline, Groups
<1>3. ASSUME NEW candidate, NEW baseline, EvaluateCandidate(candidate, baseline, Series)
      PROVE  FoundedInv'
  BY <1>3, EvaluationIsFounded DEF EvaluateCandidate, Groups
<1>4. ASSUME NEW baseline, GenerateHypotheses(baseline) PROVE FoundedInv'
  BY <1>4, GenerationIsFounded
<1>5. ASSUME NEW baseline, BuildHypothesis(baseline) PROVE FoundedInv'
  <2>1. /\ hypotheses' = hypotheses \union {[baseline |-> baseline, weakness |-> None]}
        /\ UNCHANGED <<market, evaluation, evidence>>
    BY <1>5 DEF BuildHypothesis
  <2>2. \A hypothesis \in hypotheses' : hypothesis.weakness # None => hypothesis \in hypotheses
    BY <2>1
  <2> QED BY <2>1, <2>2 DEF FoundedInv
<1>6. CASE UNCHANGED researched
  BY <1>1, <1>6 DEF researched
<1>7. ASSUME NEW key, Grow(key) PROVE UNCHANGED <<market, evaluation, evidence, hypotheses>>
  BY <1>7 DEF Grow
<1>8. CASE ResearchNext
  <2>1. \/ \E key \in DOMAIN market : Grow(key)
        \/ \E baseline \in Baselines, group \in SUBSET Series \ {{}} :
              EvaluateBaseline(baseline, group)
        \/ \E candidate \in {version.candidate : version \in versions}, baseline \in Baselines :
              EvaluateCandidate(candidate, baseline, Series)
        \/ \E baseline \in Baselines : GenerateHypotheses(baseline)
        \/ \E baseline \in Baselines \union {None} : BuildHypothesis(baseline)
        \/ UNCHANGED <<market, evaluation, evidence, hypotheses>>
    BY <1>8 DEF ResearchNext, ConfirmHypothesis, CreateCandidate, BuildCandidate, Transition,
           StartExperiment, FinishExperiment, BuildDecision, ApplyHumanDecision
  <2> QED BY <1>1, <1>2, <1>3, <1>4, <1>5, <1>7, <2>1
<1> QED BY <1>6, <1>8

\* A hypothesis that was generated names a group of which the market decided enough signals in some
\* evaluation, and lost one of them at least (finding_from_cell, generate_hypotheses).
THEOREM GeneratedAreFounded == ResearchSpec => []HypothesesAreFounded
<1>1. ResearchInit => FoundedInv
  BY DEF ResearchInit, FoundedInv, NothingEvaluated
<1>2. ResearchInv /\ FoundedInv => HypothesesAreFounded
  <2> SUFFICES ASSUME ResearchInv, FoundedInv,
                      NEW hypothesis \in hypotheses, hypothesis.weakness # None
               PROVE  LET name == <<hypothesis.weakness.dimension, hypothesis.weakness.name>>
                      IN  \E record \in evidence :
                              /\ Cardinality(DecidedIn(record, name)) >= Protocol.minimum
                              /\ \E signal \in DecidedIn(record, name) : signal.verdict = "LOSS"
    BY DEF HypothesesAreFounded
  <2> DEFINE name == <<hypothesis.weakness.dimension, hypothesis.weakness.name>>
  <2>1. PICK record \in evidence, group \in Groups, c \in EngineSettings, lengths \in [Keys -> Nat] :
           /\ AreLengths(lengths, market) /\ EvidenceOf(record, market, group, lengths, c)
           /\ IsLosing(market, group, lengths, c, name[1], name[2])
    BY DEF FoundedInv
  <2>2. market \in Markets
    BY DEF ResearchInv, MarketInv
  <2> HIDE DEF name
  <2>3. DecidedIn(record, name)
           = DecidedAmong(SignalsIn(market, group, lengths, c), name[1], name[2])
    BY <2>1, <2>2, DecidedInIs
  <2> QED BY <2>1, <2>3 DEF IsLosing, name
<1> QED BY <1>1, <1>2, FoundedKeeps, ResearchIsSound, PTL DEF ResearchSpec
=============================================================================
