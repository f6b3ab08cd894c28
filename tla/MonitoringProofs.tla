--------------------------- MODULE MonitoringProofs ---------------------------
(***************************************************************************)
(* A monitored run, for any payloads, errors, clock readings, retention    *)
(* and number of failures of the monitor: health is the worst that was     *)
(* seen, and the report of a run adds up.                                  *)
(***************************************************************************)
EXTENDS Monitoring, FiniteSetTheorems, WellFoundedInduction, TLAPS

-----------------------------------------------------------------------------
(* Numbers, sets and sequences.                                            *)

\* The order of the natural numbers.
LessThan == {ss \in Nat \X Nat : ss[1] < ss[2]}

\* A set of naturals that holds 0 and every successor holds them all.
LEMMA Induction ==
    ASSUME NEW S, 0 \in S, \A n \in Nat : n \in S => n + 1 \in S
    PROVE  \A n \in Nat : n \in S
<1> DEFINE T == {n \in Nat : n \notin S}
<1> SUFFICES ASSUME T # {} PROVE FALSE
  OBVIOUS
<1>1. T \subseteq Nat
  OBVIOUS
<1> HIDE DEF T
<1>2. IsWellFoundedOn(LessThan, Nat)
  BY NatLessThanWellFounded DEF OpToRel, LessThan
<1>3. PICK x \in T : \A y \in T : ~ (<<y, x>> \in LessThan)
  BY <1>1, <1>2, WFMin
<1>4. x \in Nat /\ x \notin S /\ x # 0
  BY <1>3 DEF T
<1>5. x - 1 \in Nat /\ x - 1 < x /\ (x - 1) + 1 = x
  BY <1>4
<1>6. x - 1 \notin T
  BY <1>3, <1>4, <1>5 DEF LessThan
<1> QED BY <1>4, <1>5, <1>6 DEF T

\* f joins the first of the sequences s, up to the n-th.
Joins(f, s, n) ==
    f = [k \in 1 .. n |-> IF k = 1 THEN s[k] ELSE f[k - 1] \o s[k]]

\* There is such a function.
LEMMA JoinsExist ==
    ASSUME NEW s PROVE \A n \in Nat : \E f : Joins(f, s, n)
<1> DEFINE S == {n \in Nat : \E f : Joins(f, s, n)}
<1>1. 0 \in S
  <2> DEFINE e == [k \in 1 .. 0 |-> s[k]]
  <2>1. e = [k \in 1 .. 0 |-> IF k = 1 THEN s[k] ELSE e[k - 1] \o s[k]]
    OBVIOUS
  <2> QED BY <2>1 DEF Joins
<1>2. ASSUME NEW n \in Nat, n \in S PROVE n + 1 \in S
  <2>1. PICK f : Joins(f, s, n)
    BY <1>2
  <2> DEFINE Joint(k, t) == IF k = 1 THEN s[k] ELSE t \o s[k]
             g == [k \in 1 .. n + 1 |-> IF k = n + 1 THEN Joint(k, f[n]) ELSE f[k]]
  <2>2. f = [k \in 1 .. n |-> Joint(k, f[k - 1])]
    BY <2>1 DEF Joins
  <2>3. g = [k \in 1 .. n + 1 |-> Joint(k, g[k - 1])]
    <3> HIDE DEF Joint
    <3>1. ASSUME NEW k \in 1 .. n + 1 PROVE g[k] = Joint(k, g[k - 1])
      <4>1. CASE k = n + 1 /\ n = 0
        <5>1. k = 1
          BY <4>1
        <5>2. \A t, u : Joint(1, t) = Joint(1, u)
          BY DEF Joint
        <5> QED BY <4>1, <5>1, <5>2
      <4>2. CASE k = n + 1 /\ n # 0
        BY <4>2
      <4>3. CASE k \in 1 .. n
        <5>1. f[k] = Joint(k, f[k - 1]) /\ g[k] = f[k]
          BY <2>2, <4>3
        <5>2. CASE k = 1
          <6>1. \A t, u : Joint(1, t) = Joint(1, u)
            BY DEF Joint
          <6> QED BY <5>1, <5>2, <6>1
        <5>3. CASE k # 1
          BY <4>3, <5>1, <5>3
        <5> QED BY <5>2, <5>3
      <4> QED BY <4>1, <4>2, <4>3
    <3> HIDE DEF g
    <3>2. g = [k \in 1 .. n + 1 |-> g[k]]
      BY DEF g
    <3> QED BY <3>1, <3>2
  <2>4. Joins(g, s, n + 1)
    <3> HIDE DEF g
    <3> QED BY <2>3 DEF Joins
  <2> QED BY <2>4
<1> HIDE DEF S
<1>3. \A n \in Nat : n \in S
  BY <1>1, <1>2, Induction
<1> QED BY <1>3 DEF S

\* Sequences over a set, joined, are a sequence over that set, empty when they all are.
LEMMA FlattenType ==
    ASSUME NEW S, NEW s, Len(s) \in Nat, \A i \in 1 .. Len(s) : s[i] \in Seq(S),
           Len(s) = 0 => s = <<>>
    PROVE  /\ FlattenSeq(s) \in Seq(S)
           /\ FlattenSeq(s) = <<>> <=> \A i \in 1 .. Len(s) : s[i] = <<>>
<1>1. CASE Len(s) = 0
  BY <1>1 DEF FlattenSeq
<1>2. CASE Len(s) # 0
  <2> DEFINE f == CHOOSE x : Joins(x, s, Len(s))
             Joined(n) == /\ f[n] \in Seq(S)
                          /\ f[n] = <<>> <=> \A i \in 1 .. n : s[i] = <<>>
             T == {n \in Nat : n + 1 \in 1 .. Len(s) => Joined(n + 1)}
  <2>1. Joins(f, s, Len(s))
    BY JoinsExist
  <2>2. FlattenSeq(s) = f[Len(s)]
    BY <1>2 DEF FlattenSeq, Joins
  <2> HIDE DEF f
  <2>3. \A k \in 1 .. Len(s) : f[k] = IF k = 1 THEN s[k] ELSE f[k - 1] \o s[k]
    BY <2>1 DEF Joins
  <2>4. 0 \in T
    <3>1. 0 + 1 = 1 /\ \A i : i \in 1 .. 1 <=> i = 1
      OBVIOUS
    <3>2. 1 \in 1 .. Len(s) => f[1] = s[1] /\ s[1] \in Seq(S)
      BY <2>3
    <3> QED BY <3>1, <3>2
  <2>5. ASSUME NEW n \in Nat, n \in T PROVE n + 1 \in T
    <3> DEFINE m == n + 1
               a == f[m]
               b == s[m + 1]
    <3> SUFFICES ASSUME m + 1 \in 1 .. Len(s) PROVE Joined(m + 1)
      OBVIOUS
    <3>1. m \in 1 .. Len(s) /\ (m + 1) - 1 = m /\ m + 1 # 1 /\ m \in Nat
      OBVIOUS
    <3>2. Joined(m)
      BY <2>5, <3>1
    <3>3. f[m + 1] = a \o b
      BY <2>3, <3>1
    <3>4. a \in Seq(S) /\ b \in Seq(S)
      BY <3>2
    <3>5. \A i : i \in 1 .. m + 1 <=> i \in 1 .. m \/ i = m + 1
      <4> HIDE DEF m
      <4> QED BY <3>1
    <3> HIDE DEF m
    <3>6. (\A i \in 1 .. m + 1 : s[i] = <<>>) <=> a = <<>> /\ b = <<>>
      BY <3>2, <3>5
    <3> HIDE DEF a, b
    <3>7. a \o b \in Seq(S) /\ (a \o b = <<>> <=> a = <<>> /\ b = <<>>)
      BY <3>4
    <3> QED BY <3>3, <3>6, <3>7
  <2> HIDE DEF T
  <2>6. \A n \in Nat : n \in T
    BY <2>4, <2>5, Induction
  <2>7. Len(s) - 1 \in Nat /\ (Len(s) - 1) + 1 = Len(s) /\ Len(s) \in 1 .. Len(s)
    BY <1>2
  <2>8. Joined(Len(s))
    <3> HIDE DEF Joined
    <3>1. (Len(s) - 1) \in T
      BY <2>6, <2>7
    <3> QED BY <2>7, <3>1 DEF T
  <2> QED BY <2>2, <2>8
<1> QED BY <1>1, <1>2

\* The members of a set below a number.
Below(S, x) == {m \in S : m < x}

\* Of two members of a set, the greater has more below it.
LEMMA RankGrows ==
    ASSUME NEW S \in SUBSET Nat, IsFiniteSet(S), NEW x \in S, NEW y \in S, x < y
    PROVE  /\ Cardinality(Below(S, x)) \in Nat /\ Cardinality(Below(S, y)) \in Nat
           /\ Cardinality(Below(S, x)) < Cardinality(Below(S, y))
<1>1. IsFiniteSet(Below(S, x)) /\ IsFiniteSet(Below(S, y))
  BY FS_Subset DEF Below
<1>2. Below(S, x) \in SUBSET Below(S, y) /\ x \in Below(S, y) /\ x \notin Below(S, x)
  <2>1. x \in Nat /\ y \in Nat /\ ~ (x < x)
    OBVIOUS
  <2>2. ASSUME NEW m \in Below(S, x) PROVE m \in Below(S, y)
    <3>1. m \in S /\ m \in Nat /\ m < x
      BY DEF Below
    <3>2. m < y
      BY <2>1, <3>1
    <3> QED BY <3>1, <3>2 DEF Below
  <2>3. x \in Below(S, y) /\ x \notin Below(S, x)
    BY <2>1 DEF Below
  <2> QED BY <2>2, <2>3
<1>3. /\ Cardinality(Below(S, x)) <= Cardinality(Below(S, y))
      /\ Cardinality(Below(S, y)) # Cardinality(Below(S, x))
  BY <1>1, <1>2, FS_Subset
<1>4. Cardinality(Below(S, x)) \in Nat /\ Cardinality(Below(S, y)) \in Nat
  BY <1>1, FS_CardinalityType
<1> QED BY <1>3, <1>4

\* Every rank is taken.
LEMMA RanksAreTaken ==
    ASSUME NEW S \in SUBSET Nat, IsFiniteSet(S), NEW k \in 1 .. Cardinality(S)
    PROVE  \E x \in S : Cardinality(Below(S, x)) = k - 1
<1> DEFINE n == Cardinality(S)
           T == 0 .. n - 1
           f == [x \in S |-> Cardinality(Below(S, x))]
<1>1. n \in Nat /\ n # 0
  BY FS_CardinalityType
<1>2. IsFiniteSet(T) /\ Cardinality(T) = n
  <2> HIDE DEF n
  <2>1. 0 \in Int /\ n - 1 \in Int
    BY <1>1
  <2> QED BY <1>1, <2>1, FS_Interval
<1>3. ASSUME NEW x \in S PROVE Cardinality(Below(S, x)) \in T
  <2>1. Below(S, x) \in SUBSET S /\ x \notin Below(S, x)
    BY DEF Below
  <2>2. IsFiniteSet(Below(S, x)) /\ Cardinality(Below(S, x)) <= n
        /\ (Cardinality(Below(S, x)) # n)
    BY <2>1, FS_Subset
  <2>3. Cardinality(Below(S, x)) \in Nat
    BY <2>2, FS_CardinalityType
  <2> HIDE DEF n
  <2> QED BY <1>1, <2>2, <2>3
<1>4. f \in Injection(S, T)
  <2>1. f \in [S -> T]
    BY <1>3
  <2>2. ASSUME NEW x \in S, NEW y \in S, f[x] = f[y] PROVE x = y
    <3>1. ~ (x < y)
      BY <2>2, RankGrows
    <3>2. ~ (y < x)
      BY <2>2, RankGrows
    <3> QED BY <3>1, <3>2
  <2> HIDE DEF f, T
  <2> QED BY <2>1, <2>2 DEF Injection, IsInjective
<1>5. f \in Surjection(S, T)
  <2> HIDE DEF f, T
  <2> QED BY <1>2, <1>4, FS_Injection
<1>6. k - 1 \in T
  BY <1>1
<1>7. PICK x \in S : f[x] = k - 1
  <2> HIDE DEF f, T
  <2> QED BY <1>5, <1>6 DEF Surjection
<1> QED BY <1>7

\* The members of a finite set of numbers are listed once each, in ascending order.
LEMMA AscendingLists ==
    ASSUME NEW S \in SUBSET Nat, IsFiniteSet(S)
    PROVE  /\ Ascending(S) \in [1 .. Cardinality(S) -> S] /\ Cardinality(S) \in Nat
           /\ \A k \in 1 .. Cardinality(S) :
                 Cardinality(Below(S, Ascending(S)[k])) = k - 1
           /\ \A i, j \in 1 .. Cardinality(S) : i < j => Ascending(S)[i] < Ascending(S)[j]
<1>1. Cardinality(S) \in Nat
  BY FS_CardinalityType
<1>2. ASSUME NEW k \in 1 .. Cardinality(S)
      PROVE  Ascending(S)[k] \in S /\ Cardinality(Below(S, Ascending(S)[k])) = k - 1
  <2>1. PICK x \in S : Cardinality(Below(S, x)) = k - 1
    BY RanksAreTaken
  <2>2. Ascending(S)[k] = CHOOSE n \in S : Cardinality(Below(S, n)) = k - 1
    BY DEF Ascending, Below
  <2> QED BY <2>1, <2>2
<1>3. ASSUME NEW i \in 1 .. Cardinality(S), NEW j \in 1 .. Cardinality(S), i < j
      PROVE  Ascending(S)[i] < Ascending(S)[j]
  <2> DEFINE x == Ascending(S)[i]
             y == Ascending(S)[j]
  <2>1. x \in S /\ y \in S /\ Cardinality(Below(S, x)) = i - 1 /\ Cardinality(Below(S, y)) = j - 1
    BY <1>2
  <2> HIDE DEF x, y
  <2>2. x # y /\ ~ (y < x)
    BY <2>1, <1>3, RankGrows
  <2>3. x < y
    BY <2>1, <2>2
  <2> QED BY <2>3 DEF x, y
<1>4. Ascending(S) = [k \in 1 .. Cardinality(S) |-> Ascending(S)[k]]
  <2> DEFINE F(k) == CHOOSE n \in S : Cardinality({m \in S : m < n}) = k - 1
             a == [k \in 1 .. Cardinality(S) |-> F(k)]
  <2>1. Ascending(S) = a
    BY DEF Ascending
  <2> HIDE DEF F
  <2>2. a = [k \in 1 .. Cardinality(S) |-> a[k]]
    OBVIOUS
  <2> QED BY <2>1, <2>2
<1> QED BY <1>1, <1>2, <1>3, <1>4

-----------------------------------------------------------------------------
(* What an observer may say.                                               *)

Codes == DOMAIN Severity
Levels == {"INFO", "WARNING", "CRITICAL"}

\* The rows of an exchange.
Rows == [openedAt : Nat, value : STRING]

\* The conditions that are recorded, by whoever records them.
Conditions ==
    {e \in [component : Components, code : Codes \ Own, severity : Levels, detail : Seq(Int)] :
        e.severity = Severity[e.code]}

\* Those that do not say that a candle is from the future.
Timely == {e \in Conditions : e.code # "DATA_FUTURE_TIMESTAMP"}

\* Every code has a severity, every severity a floor.
LEMMA FloorType ==
    /\ \A code \in Codes : Severity[code] \in Levels
    /\ \A level \in Levels : Floor[level] \in {"HEALTHY", "DEGRADED", "FAILING"}
    /\ \A code : ComponentFor(code) \in {"DATA_INTEGRITY", "MARKET_DATA"}
<1>1. \A code \in Codes : Severity[code] \in Levels
  BY DEF Codes, Severity, Levels
<1>2. \A level \in Levels : Floor[level] \in {"HEALTHY", "DEGRADED", "FAILING"}
  BY DEF Levels, Floor
<1>3. \A code : ComponentFor(code) \in {"DATA_INTEGRITY", "MARKET_DATA"}
  BY DEF ComponentFor
<1> QED BY <1>1, <1>2, <1>3

\* An event of a code of others is a condition.
LEMMA EventType ==
    ASSUME NEW component \in Components, NEW code \in Codes \ Own, NEW detail \in Seq(Int)
    PROVE  /\ Event(component, code, detail) \in Conditions
           /\ Event(component, code, detail).component = component
           /\ Event(component, code, detail).code = code
BY FloorType DEF Event, Conditions

\* The same with one amount, about a component of the data.
LEMMA ObservedType ==
    ASSUME NEW code \in Codes \ Own, NEW amount \in Int
    PROVE  /\ <<Observed(code, amount)>> \in Seq(Conditions)
           /\ code # "DATA_FUTURE_TIMESTAMP" => <<Observed(code, amount)>> \in Seq(Timely)
<1> DEFINE e == Observed(code, amount)
           d == <<amount>>
<1>1. d \in Seq(Int)
  OBVIOUS
<1>2. e = Event(ComponentFor(code), code, d)
  BY DEF Observed
<1>3. ComponentFor(code) \in Components
  BY FloorType DEF Components
<1>4. e \in Conditions /\ e.code = code
  <2> HIDE DEF d, e
  <2> QED BY <1>1, <1>2, <1>3, EventType
<1> HIDE DEF e
<1>5. <<e>> \in Seq(Conditions) /\ (code # "DATA_FUTURE_TIMESTAMP" => <<e>> \in Seq(Timely))
  BY <1>4 DEF Timely
<1> QED BY <1>5 DEF e

\* At most one of them.
LEMMA WhenType ==
    ASSUME NEW condition \in BOOLEAN, NEW code \in Codes \ Own, NEW amount \in Int,
           code # "DATA_FUTURE_TIMESTAMP"
    PROVE  /\ When(condition, Observed(code, amount)) \in Seq(Timely)
           /\ When(condition, Observed(code, amount)) = <<>> <=> ~ condition
<1> DEFINE e == Observed(code, amount)
           s == <<e>>
<1>1. s \in Seq(Timely) /\ s # <<>>
  BY ObservedType
<1>2. <<>> \in Seq(Timely)
  OBVIOUS
<1>3. When(condition, e) = IF condition THEN s ELSE <<>>
  BY DEF When
<1> HIDE DEF e, s
<1>4. /\ When(condition, e) \in Seq(Timely)
      /\ When(condition, e) = <<>> <=> ~ condition
  BY <1>1, <1>2, <1>3
<1> QED BY <1>4 DEF e

\* The codes an observer of data uses.
LEMMA DataCodes ==
    {"DATA_FETCH_FAILED", "DATA_PROVIDER_HTTP_ERROR", "DATA_RATE_LIMITED", "DATA_UNAVAILABLE",
     "DATA_DUPLICATES_REMOVED", "DATA_MISSING_ROWS_DROPPED", "DATA_INCOMPLETE_ROWS_DROPPED",
     "DATA_ROWS_TRIMMED", "DATA_REORDERED", "DATA_MALFORMED", "DATA_STALE", "DATA_GAP",
     "DATA_INTERVAL_ANOMALY", "DATA_FUTURE_TIMESTAMP", "RUN_STARTED", "RUN_COMPLETED",
     "RUN_FAILED"} = Codes \ Own
BY DEF Codes, Severity, Own

\* A finite set of indices.
LEMMA IndexSet ==
    ASSUME NEW n \in Nat, NEW T \in SUBSET (1 .. n)
    PROVE  IsFiniteSet(T) /\ Cardinality(T) \in 0 .. n /\ (Cardinality(T) = n <=> T = 1 .. n)
<1>1. IsFiniteSet(1 .. n) /\ Cardinality(1 .. n) = n
  <2>1. IsFiniteSet(1 .. n) /\ Cardinality(1 .. n) = IF 1 > n THEN 0 ELSE n - 1 + 1
    BY FS_Interval
  <2> QED BY <2>1
<1>2. IsFiniteSet(T) /\ Cardinality(T) <= n /\ (n = Cardinality(T) => 1 .. n = T)
  BY <1>1, FS_Subset
<1>3. Cardinality(T) \in Nat
  BY <1>2, FS_CardinalityType
<1> QED BY <1>1, <1>2, <1>3

\* Where the candles of a sequence of rows come first, one row for each instant.
LEMMA FirstRows ==
    ASSUME NEW rows \in Seq(Rows), ~ Refused(rows)
    PROVE  LET first == FirstOf(rows)
               opens == {rows[i].openedAt : i \in first}
           IN  /\ first \in SUBSET (1 .. Len(rows)) /\ opens \in SUBSET Nat
               /\ IsFiniteSet(opens) /\ Cardinality(opens) = Cardinality(first)
               /\ \A i, j \in first : rows[i].openedAt = rows[j].openedAt => i = j
<1> DEFINE first == FirstOf(rows)
           opens == {rows[i].openedAt : i \in first}
           f == [i \in first |-> rows[i].openedAt]
<1>1. /\ first \in SUBSET (1 .. Len(rows)) /\ Len(rows) \in Nat
      /\ \A i \in first : rows[i] \in Rows /\ rows[i].value # "missing"
  BY DEF FirstOf
<1>2. opens \in SUBSET Nat
  BY <1>1 DEF Rows
<1>3. ASSUME NEW i \in first, NEW j \in first, rows[i].openedAt = rows[j].openedAt
      PROVE  i = j
  <2>1. rows[i].value = rows[j].value
    BY <1>1, <1>3 DEF Refused
  <2>2. rows[i] = rows[j]
    BY <1>1, <1>3, <2>1 DEF Rows
  <2>3. i \in Nat /\ j \in Nat /\ ~ (i < j) /\ ~ (j < i)
    BY <1>1, <2>2 DEF FirstOf
  <2> QED BY <2>3
<1> HIDE DEF first
<1>4. IsFiniteSet(first)
  BY <1>1, IndexSet
<1>5. f \in Bijection(first, opens)
  BY <1>3 DEF Bijection, Injection, IsInjective, Surjection
<1>6. IsFiniteSet(opens) /\ Cardinality(opens) = Cardinality(first)
  <2> HIDE DEF opens, f
  <2> QED BY <1>4, <1>5, FS_Bijection DEF ExistsBijection
<1> QED BY <1>1, <1>2, <1>3, <1>6 DEF first

\* The candles of the rows are rows, in ascending order of their instants.
LEMMA CandlesType ==
    ASSUME NEW rows \in Seq(Rows), ~ Refused(rows)
    PROVE  /\ CandlesOf(rows) \in Seq(Rows) /\ Len(CandlesOf(rows)) = Cardinality(FirstOf(rows))
           /\ Cardinality(FirstOf(rows)) \in Nat
           /\ \A i, j \in 1 .. Len(CandlesOf(rows)) :
                 i < j => CandlesOf(rows)[i].openedAt < CandlesOf(rows)[j].openedAt
           /\ \A k \in 1 .. Len(CandlesOf(rows)) :
                 \E i \in 1 .. Len(rows) : CandlesOf(rows)[k] = rows[i]
<1> DEFINE first == FirstOf(rows)
           S == {rows[i].openedAt : i \in first}
           n == Cardinality(first)
           opens == Ascending(S)
           At(k) == CHOOSE i \in first : rows[i].openedAt = opens[k]
           c == [k \in 1 .. n |-> rows[At(k)]]
<1>1. /\ first \in SUBSET (1 .. Len(rows)) /\ S \in SUBSET Nat
      /\ IsFiniteSet(S) /\ Cardinality(S) = n
  BY FirstRows
<1>2. /\ opens \in [1 .. n -> S] /\ n \in Nat
      /\ \A i, j \in 1 .. n : i < j => opens[i] < opens[j]
  <2> HIDE DEF S, n
  <2> QED BY <1>1, AscendingLists
<1>3. CandlesOf(rows) = c
  <2>1. DOMAIN opens = 1 .. n
    BY <1>2
  <2> HIDE DEF n
  <2> QED BY <2>1 DEF CandlesOf
<1> HIDE DEF opens
<1>4. ASSUME NEW k \in 1 .. n PROVE At(k) \in first /\ rows[At(k)].openedAt = opens[k]
  <2>1. \E i \in first : rows[i].openedAt = opens[k]
    BY <1>2
  <2> QED BY <2>1
<1> HIDE DEF At, n, first
<1>5. c \in [1 .. n -> Rows] /\ \A k \in 1 .. n : c[k].openedAt = opens[k]
  <2>1. \A i \in first : rows[i] \in Rows
    BY <1>1
  <2>2. \A k \in 1 .. n : rows[At(k)] \in Rows /\ rows[At(k)].openedAt = opens[k]
    BY <2>1, <1>4
  <2> QED BY <2>2
<1>8. \A k \in 1 .. n : \E i \in 1 .. Len(rows) : c[k] = rows[i]
  <2>1. \A k \in 1 .. n : At(k) \in 1 .. Len(rows)
    BY <1>1, <1>4
  <2> QED BY <2>1
<1> HIDE DEF c
<1>6. c \in Seq(Rows) /\ Len(c) = n
  BY <1>2, <1>5
<1>7. ASSUME NEW i \in 1 .. Len(c), NEW j \in 1 .. Len(c), i < j
      PROVE  c[i].openedAt < c[j].openedAt
  BY <1>2, <1>5, <1>6, <1>7
<1> QED BY <1>2, <1>3, <1>6, <1>7, <1>8 DEF n, first

\* The rows that had closed are rows.
LEMMA ClosedType ==
    ASSUME NEW payload \in Seq(Rows), NEW cutoff \in Nat
    PROVE  LET kept == {i \in DOMAIN payload : CloseOf(payload[i]) <= cutoff}
           IN  /\ Closed(payload, cutoff) \in Seq(Rows)
               /\ Len(Closed(payload, cutoff)) = Cardinality(kept)
               /\ Cardinality(kept) \in 0 .. Len(payload)
               /\ kept = DOMAIN payload => Closed(payload, cutoff) = payload
<1> DEFINE kept == {i \in DOMAIN payload : CloseOf(payload[i]) <= cutoff}
           n == Cardinality(kept)
           at == Ascending(kept)
           c == [k \in 1 .. n |-> payload[at[k]]]
<1>0. Len(payload) \in Nat /\ DOMAIN payload = 1 .. Len(payload)
      /\ \A i \in 1 .. Len(payload) : payload[i] \in Rows
  OBVIOUS
<1>1. kept \in SUBSET (1 .. Len(payload))
  BY <1>0
<1>2. IsFiniteSet(kept) /\ n \in 0 .. Len(payload) /\ kept \in SUBSET Nat
  BY <1>0, <1>1, IndexSet
<1>3. /\ at \in [1 .. n -> kept] /\ \A k \in 1 .. n : Cardinality(Below(kept, at[k])) = k - 1
  <2> HIDE DEF kept
  <2> QED BY <1>2, AscendingLists
<1>4. Closed(payload, cutoff) = c
  <2>1. DOMAIN at = 1 .. n
    BY <1>3
  <2> HIDE DEF n
  <2> QED BY <2>1 DEF Closed, Picked
<1> HIDE DEF at, n
<1>5. c \in [1 .. n -> Rows]
  <2>1. \A k \in 1 .. n : at[k] \in 1 .. Len(payload)
    BY <1>1, <1>3
  <2> QED BY <2>1, <1>0
<1>6. c \in Seq(Rows) /\ Len(c) = n
  <2> HIDE DEF c
  <2> QED BY <1>2, <1>5
<1>7. ASSUME kept = DOMAIN payload PROVE c = payload
  <2>1. n = Len(payload)
    BY <1>0, <1>1, <1>7, IndexSet DEF n
  <2>2. ASSUME NEW k \in 1 .. n PROVE at[k] = k
    <3>1. at[k] \in 1 .. Len(payload)
      BY <1>1, <1>3
    <3> DEFINE x == at[k]
    <3> HIDE DEF x
    <3>2. Below(kept, x) = 1 .. x - 1
      <4>1. kept = 1 .. Len(payload) /\ x \in 1 .. Len(payload)
        BY <1>0, <1>7, <3>1 DEF x
      <4> HIDE DEF kept
      <4>2. \A m : m \in Below(kept, x) <=> m \in 1 .. x - 1
        BY <4>1, <1>0 DEF Below
      <4> QED BY <4>2
    <3>3. x \in Nat /\ x # 0
      BY <3>1, <1>0 DEF x
    <3>4. Cardinality(1 .. x - 1) = x - 1
      <4>1. 1 \in Int /\ x - 1 \in Int
        BY <3>3
      <4>2. Cardinality(1 .. x - 1) = IF 1 > x - 1 THEN 0 ELSE (x - 1) - 1 + 1
        BY <4>1, FS_Interval
      <4> QED BY <3>3, <4>2
    <3>5. x - 1 = k - 1
      <4> HIDE DEF kept
      <4> QED BY <1>3, <3>2, <3>4 DEF x
    <3>6. k \in Nat
      BY <1>2
    <3>7. x = k
      BY <3>3, <3>5, <3>6
    <3> QED BY <3>7 DEF x
  <2>3. \A k \in 1 .. n : c[k] = payload[k]
    BY <2>2
  <2> HIDE DEF c
  <2> QED BY <1>0, <1>5, <2>1, <2>3
<1> QED BY <1>2, <1>4, <1>6, <1>7 DEF n

\* The batch: candles in ascending order, and a report in numbers.
Reports ==
    [inputRows : Nat, outputRows : Nat, duplicates : Int, missing : Nat, incomplete : Nat,
     trimmed : Nat, reordered : BOOLEAN]

LEMMA NormalizedType ==
    ASSUME NEW rows \in Seq(Rows), ~ Refused(rows)
    PROVE  /\ Normalized(rows) = [candles |-> Normalized(rows).candles,
                                  report |-> Normalized(rows).report]
           /\ Normalized(rows).candles \in Seq(Rows)
           /\ Normalized(rows).report \in Reports
           /\ Len(Normalized(rows).candles) = Normalized(rows).report.outputRows
<1> DEFINE ordered == CandlesOf(rows)
           trimmed == IF Len(ordered) > HistoryLimit THEN Len(ordered) - HistoryLimit ELSE 0
           gone == {i \in DOMAIN rows : rows[i].value = "missing"}
           missing == Cardinality(gone)
           first == Cardinality(FirstOf(rows))
           candles == SubSeq(ordered, trimmed + 1, Len(ordered))
           reordered == \E i, j \in FirstOf(rows) :
                            i < j /\ rows[j].openedAt < rows[i].openedAt
           report == [inputRows |-> Len(rows), outputRows |-> Len(ordered) - trimmed,
                      duplicates |-> Len(rows) - missing - first, missing |-> missing,
                      incomplete |-> 0, trimmed |-> trimmed, reordered |-> reordered]
<1>1. Normalized(rows) = [candles |-> candles, report |-> report]
  BY DEF Normalized
<1>2. ordered \in Seq(Rows) /\ first \in Nat /\ Len(ordered) \in Nat
  BY CandlesType
<1>3. Len(rows) \in Nat /\ missing \in Nat
  <2>1. gone \in SUBSET (1 .. Len(rows)) /\ Len(rows) \in Nat
    OBVIOUS
  <2> HIDE DEF gone
  <2> QED BY <2>1, IndexSet
<1> HIDE DEF ordered, missing, first
<1>4. trimmed \in Nat /\ trimmed <= Len(ordered) /\ Len(ordered) - trimmed \in Nat
  BY <1>2, MarketDataAssumption
<1> HIDE DEF trimmed
<1>5. candles \in Seq(Rows) /\ Len(candles) = Len(ordered) - trimmed
  BY <1>2, <1>4
<1>6. report \in Reports
  <2>1. reordered \in BOOLEAN
    OBVIOUS
  <2> HIDE DEF reordered
  <2>2. Len(rows) - missing - first \in Int
    BY <1>2, <1>3
  <2> QED BY <1>3, <1>4, <2>1, <2>2 DEF Reports
<1> HIDE DEF candles
<1>7. report.outputRows = Len(ordered) - trimmed
  OBVIOUS
<1> HIDE DEF report
<1> QED BY <1>1, <1>5, <1>6, <1>7

\* What a fetch may return.
Batches ==
    {b \in [candles : Seq(Rows), report : Reports] : Len(b.candles) = b.report.outputRows}

LEMMA FetchedType ==
    ASSUME NEW payload \in Payloads, NEW cutoff \in Nat, ~ Refused(Closed(payload, cutoff))
    PROVE  Fetched(payload, cutoff) \in Batches
<1> DEFINE rows == Closed(payload, cutoff)
           b == Normalized(rows)
           f == [b EXCEPT !.report.inputRows = Len(payload),
                          !.report.incomplete = Len(payload) - Len(rows)]
<1>1. payload \in Seq(Rows)
  BY MonitoringAssumption DEF Rows
<1>2. rows \in Seq(Rows) /\ Len(rows) \in 0 .. Len(payload) /\ Len(payload) \in Nat
  <2> DEFINE kept == {i \in DOMAIN payload : CloseOf(payload[i]) <= cutoff}
  <2>1. rows \in Seq(Rows) /\ Len(rows) = Cardinality(kept) /\ Cardinality(kept) \in 0 .. Len(payload)
    BY <1>1, ClosedType
  <2> HIDE DEF rows, kept
  <2> QED BY <1>1, <2>1
<1>3. /\ b \in [candles : Seq(Rows), report : Reports] /\ Len(b.candles) = b.report.outputRows
  <2> HIDE DEF rows
  <2>1. /\ Normalized(rows) = [candles |-> Normalized(rows).candles,
                               report |-> Normalized(rows).report]
        /\ Normalized(rows).candles \in Seq(Rows)
        /\ Normalized(rows).report \in Reports
        /\ Len(Normalized(rows).candles) = Normalized(rows).report.outputRows
    BY <1>2, NormalizedType DEF rows
  <2> QED BY <2>1
<1>4. Fetched(payload, cutoff) = f
  BY DEF Fetched
<1> HIDE DEF rows, b
<1>5. Len(payload) - Len(rows) \in Nat
  BY <1>2
<1>6. /\ f \in [candles : Seq(Rows), report : Reports] /\ f.candles = b.candles
      /\ f.report.outputRows = b.report.outputRows
  BY <1>2, <1>3, <1>5 DEF Reports
<1> HIDE DEF f
<1> QED BY <1>3, <1>4, <1>6 DEF Batches

\* What an observer says of the freshness of a batch.
LEMMA FreshnessType ==
    ASSUME NEW age \in Int
    PROVE  /\ FreshnessEvents(age) \in Seq(Conditions)
           /\ age >= 0 => FreshnessEvents(age) \in Seq(Timely)
           /\ FreshnessEvents(age) = <<>> <=> age \in 0 .. Interval * StaleAfter
<1>0. Interval \in Nat \ {0} /\ StaleAfter \in Nat \ {0}
  BY MarketDataAssumption
<1>1. -age \in Int /\ age \div Interval \in Int /\ Interval * StaleAfter \in Nat
  BY <1>0
<1>2. CASE age < 0
  <2> DEFINE s == <<Observed("DATA_FUTURE_TIMESTAMP", -age)>>
  <2>1. s \in Seq(Conditions) /\ s # <<>>
    BY <1>1, ObservedType, DataCodes
  <2>2. FreshnessEvents(age) = s
    BY <1>2 DEF FreshnessEvents
  <2> HIDE DEF s
  <2> QED BY <1>2, <2>1, <2>2
<1>3. CASE ~ (age < 0)
  <2> DEFINE old == age > Interval * StaleAfter
             e == When(old, Observed("DATA_STALE", age \div Interval))
  <2>1. e \in Seq(Timely) /\ (e = <<>> <=> ~ old)
    <3>1. old \in BOOLEAN
      OBVIOUS
    <3>2. "DATA_STALE" \in Codes \ Own /\ "DATA_STALE" # "DATA_FUTURE_TIMESTAMP"
      BY DataCodes
    <3> HIDE DEF old
    <3> QED BY <1>1, <3>1, <3>2, WhenType
  <2>2. FreshnessEvents(age) = e
    BY <1>3 DEF FreshnessEvents
  <2> HIDE DEF e
  <2>3. ~ old <=> age \in 0 .. Interval * StaleAfter
    BY <1>1, <1>3
  <2>4. e \in Seq(Conditions)
    BY <2>1 DEF Timely
  <2> QED BY <2>1, <2>2, <2>3, <2>4
<1> QED BY <1>2, <1>3

\* What it says of one pair of neighbours.
LEMMA ContinuityType ==
    ASSUME NEW offset \in Int
    PROVE  /\ ContinuityEvents(offset) \in Seq(Timely)
           /\ ContinuityEvents(offset) = <<>> <=>
                 /\ offset >= 0 /\ ~ IsGap(offset) /\ offset % Interval = 0
<1>0. Interval \in Nat \ {0}
  BY MarketDataAssumption
<1>1. offset \div Interval \in Int /\ offset % Interval \in Int
  BY <1>0
<1>2. CASE offset < 0
  <2> DEFINE s == <<Observed("DATA_INTERVAL_ANOMALY", offset)>>
  <2>1. s \in Seq(Timely) /\ s # <<>>
    BY ObservedType, DataCodes
  <2>2. ContinuityEvents(offset) = s
    BY <1>2 DEF ContinuityEvents
  <2> HIDE DEF s
  <2> QED BY <1>2, <2>1, <2>2
<1>3. CASE ~ (offset < 0)
  <2> DEFINE odd == offset % Interval # 0
             a == When(IsGap(offset), Observed("DATA_GAP", offset \div Interval))
             b == When(odd, Observed("DATA_INTERVAL_ANOMALY", offset % Interval))
  <2>1. IsGap(offset) \in BOOLEAN
    BY DEF IsGap
  <2>2. a \in Seq(Timely) /\ (a = <<>> <=> ~ IsGap(offset))
    <3>1. "DATA_GAP" \in Codes \ Own /\ "DATA_GAP" # "DATA_FUTURE_TIMESTAMP"
      BY DataCodes
    <3> QED BY <1>1, <2>1, <3>1, WhenType
  <2>3. b \in Seq(Timely) /\ (b = <<>> <=> ~ odd)
    <3>1. /\ "DATA_INTERVAL_ANOMALY" \in Codes \ Own
          /\ "DATA_INTERVAL_ANOMALY" # "DATA_FUTURE_TIMESTAMP"
      BY DataCodes
    <3>2. odd \in BOOLEAN
      OBVIOUS
    <3> HIDE DEF odd
    <3> QED BY <1>1, <3>1, <3>2, WhenType
  <2>4. ContinuityEvents(offset) = a \o b
    BY <1>3 DEF ContinuityEvents
  <2> HIDE DEF a, b
  <2>5. a \o b \in Seq(Timely) /\ (a \o b = <<>> <=> a = <<>> /\ b = <<>>)
    BY <2>2, <2>3
  <2> QED BY <1>3, <2>2, <2>3, <2>4, <2>5
<1> QED BY <1>2, <1>3

\* What an observer says of the payload.
LEMMA IntegrityType ==
    ASSUME NEW report \in Reports
    PROVE  /\ IntegrityEvents(report) \in Seq(Timely)
           /\ IntegrityEvents(report) = <<>> <=>
                 /\ ~ (report.duplicates > 0) /\ ~ (report.missing > 0)
                 /\ ~ (report.incomplete > 0) /\ ~ (report.trimmed > 0) /\ ~ report.reordered
<1> DEFINE a == When(report.duplicates > 0, Observed("DATA_DUPLICATES_REMOVED", report.duplicates))
           b == When(report.missing > 0, Observed("DATA_MISSING_ROWS_DROPPED", report.missing))
           c == When(report.incomplete > 0,
                     Observed("DATA_INCOMPLETE_ROWS_DROPPED", report.incomplete))
           d == When(report.trimmed > 0, Observed("DATA_ROWS_TRIMMED", report.trimmed))
           e == When(report.reordered, Observed("DATA_REORDERED", report.inputRows))
<1>1. /\ report.duplicates \in Int /\ report.missing \in Int /\ report.incomplete \in Int
      /\ report.trimmed \in Int /\ report.reordered \in BOOLEAN /\ report.inputRows \in Int
  BY DEF Reports
<1>2. ASSUME NEW code \in Codes \ Own, NEW n \in Int, code # "DATA_FUTURE_TIMESTAMP"
      PROVE  /\ When(n > 0, Observed(code, n)) \in Seq(Timely)
             /\ When(n > 0, Observed(code, n)) = <<>> <=> ~ (n > 0)
  <2> DEFINE some == n > 0
  <2>1. some \in BOOLEAN
    OBVIOUS
  <2> HIDE DEF some
  <2>2. /\ When(some, Observed(code, n)) \in Seq(Timely)
        /\ When(some, Observed(code, n)) = <<>> <=> ~ some
    BY <1>2, <2>1, WhenType
  <2> QED BY <2>2 DEF some
<1>3. a \in Seq(Timely) /\ (a = <<>> <=> ~ (report.duplicates > 0))
  BY <1>1, <1>2, DataCodes
<1>4. b \in Seq(Timely) /\ (b = <<>> <=> ~ (report.missing > 0))
  BY <1>1, <1>2, DataCodes
<1>5. c \in Seq(Timely) /\ (c = <<>> <=> ~ (report.incomplete > 0))
  BY <1>1, <1>2, DataCodes
<1>6. d \in Seq(Timely) /\ (d = <<>> <=> ~ (report.trimmed > 0))
  BY <1>1, <1>2, DataCodes
<1>7. e \in Seq(Timely) /\ (e = <<>> <=> ~ report.reordered)
  <2> DEFINE some == report.reordered
             n == report.inputRows
  <2>1. some \in BOOLEAN /\ n \in Int /\ "DATA_REORDERED" \in Codes \ Own
    BY <1>1, DataCodes
  <2> HIDE DEF some, n
  <2>2. /\ When(some, Observed("DATA_REORDERED", n)) \in Seq(Timely)
        /\ When(some, Observed("DATA_REORDERED", n)) = <<>> <=> ~ some
    BY <2>1, WhenType
  <2> QED BY <2>2 DEF some, n
<1>8. IntegrityEvents(report) = a \o b \o c \o d \o e
  BY DEF IntegrityEvents
<1> HIDE DEF a, b, c, d, e
<1>9. /\ a \o b \in Seq(Timely) /\ (a \o b = <<>> <=> a = <<>> /\ b = <<>>)
      /\ \A s, t \in Seq(Timely) :
            s \o t \in Seq(Timely) /\ (s \o t = <<>> <=> s = <<>> /\ t = <<>>)
  BY <1>3, <1>4
<1> DEFINE s == a \o b
           t == s \o c
           u == t \o d
           v == u \o e
<1>10. s \in Seq(Timely) /\ (s = <<>> <=> a = <<>> /\ b = <<>>)
  BY <1>9
<1>11. t \in Seq(Timely) /\ (t = <<>> <=> s = <<>> /\ c = <<>>)
  <2> HIDE DEF s
  <2> QED BY <1>5, <1>9, <1>10
<1>12. u \in Seq(Timely) /\ (u = <<>> <=> t = <<>> /\ d = <<>>)
  <2> HIDE DEF t
  <2> QED BY <1>6, <1>9, <1>11
<1>13. v \in Seq(Timely) /\ (v = <<>> <=> u = <<>> /\ e = <<>>)
  <2> HIDE DEF u
  <2> QED BY <1>7, <1>9, <1>12
<1>14. IntegrityEvents(report) = v
  BY <1>8
<1> HIDE DEF s, t, u, v
<1> QED BY <1>3, <1>4, <1>5, <1>6, <1>7, <1>10, <1>11, <1>12, <1>13, <1>14

\* What an observer says of a batch: nothing exactly when nothing is to be said.
LEMMA ObserveBatchType ==
    ASSUME NEW batch \in Batches, NEW at \in Nat
    PROVE  /\ ObserveBatch(batch, at).events \in Seq(Conditions)
           /\ \/ batch.candles = <<>>
              \/ at - CloseOf(Last(batch.candles)) >= 0
              => ObserveBatch(batch, at).events \in Seq(Timely)
           /\ ObserveBatch(batch, at).events = <<>> <=>
                 /\ batch.candles # <<>> /\ IntegrityEvents(batch.report) = <<>>
                 /\ at - CloseOf(Last(batch.candles)) \in 0 .. Interval * StaleAfter
                 /\ \A i \in 1 .. Len(batch.candles) - 1 :
                       ContinuityEvents(Offsets(batch.candles)[i]) = <<>>
<1> DEFINE report == batch.report
           candles == batch.candles
           none == candles = <<>>
           age == at - CloseOf(Last(candles))
           offsets == Offsets(candles)
           pairs == [i \in DOMAIN offsets |-> ContinuityEvents(offsets[i])]
           a == When(none, Observed("DATA_UNAVAILABLE", report.inputRows))
           b == IntegrityEvents(report)
           c == IF none THEN <<>> ELSE FreshnessEvents(age)
           d == FlattenSeq(pairs)
<1>0. Interval \in Nat \ {0}
  BY MarketDataAssumption
<1>1. candles \in Seq(Rows) /\ report \in Reports /\ report.inputRows \in Int
  BY DEF Batches, Reports
<1>2. a \in Seq(Timely) /\ (a = <<>> <=> ~ none)
  <2>1. none \in BOOLEAN
    OBVIOUS
  <2>2. "DATA_UNAVAILABLE" \in Codes \ Own /\ "DATA_UNAVAILABLE" # "DATA_FUTURE_TIMESTAMP"
    BY DataCodes
  <2> HIDE DEF none, report
  <2> QED BY <1>1, <2>1, <2>2, WhenType
<1>3. b \in Seq(Timely)
  <2> HIDE DEF report
  <2> QED BY <1>1, IntegrityType
<1>4. /\ c \in Seq(Conditions) /\ (none \/ age >= 0 => c \in Seq(Timely))
      /\ ~ none => (c = <<>> <=> age \in 0 .. Interval * StaleAfter)
  <2>1. CASE none
    <3> DEFINE no == <<>>
    <3>1. no \in Seq(Conditions) /\ no \in Seq(Timely)
      OBVIOUS
    <3> QED BY <2>1, <3>1
  <2>2. CASE ~ none
    <3>1. Last(candles) \in Rows
      BY <1>1, <2>2 DEF Last
    <3>2. age \in Int
      BY <1>0, <3>1 DEF CloseOf, Rows
    <3> HIDE DEF age
    <3> QED BY <2>2, <3>2, FreshnessType
  <2> QED BY <2>1, <2>2
<1>5. DOMAIN offsets = 1 .. Len(candles) - 1 /\ \A i \in 1 .. Len(candles) - 1 : offsets[i] \in Int
  <2>1. offsets = [i \in 1 .. Len(candles) - 1 |-> candles[i + 1].openedAt - CloseOf(candles[i])]
    BY DEF Offsets
  <2>2. ASSUME NEW i \in 1 .. Len(candles) - 1
        PROVE  candles[i + 1].openedAt - CloseOf(candles[i]) \in Int
    <3>1. i \in 1 .. Len(candles) /\ i + 1 \in 1 .. Len(candles)
      BY <1>1
    <3>2. candles[i] \in Rows /\ candles[i + 1] \in Rows
      BY <1>1, <3>1
    <3> QED BY <1>0, <3>2 DEF CloseOf, Rows
  <2> HIDE DEF offsets
  <2> QED BY <2>1, <2>2
<1> HIDE DEF offsets
<1>6. d \in Seq(Timely) /\ (d = <<>> <=> \A i \in 1 .. Len(candles) - 1 : pairs[i] = <<>>)
  <2> DEFINE n == IF none THEN 0 ELSE Len(candles) - 1
  <2>1. n \in Nat /\ 1 .. Len(candles) - 1 = 1 .. n
    <3>1. Len(candles) \in Nat /\ (none <=> Len(candles) = 0)
      BY <1>1
    <3>2. CASE none
      BY <3>1, <3>2
    <3>3. CASE ~ none
      BY <3>1, <3>3
    <3> QED BY <3>2, <3>3
  <2>2. pairs = [i \in 1 .. n |-> ContinuityEvents(offsets[i])]
    BY <1>5, <2>1
  <2>3. \A i \in 1 .. n : ContinuityEvents(offsets[i]) \in Seq(Timely)
    BY <1>5, <2>1, ContinuityType
  <2> HIDE DEF n, pairs
  <2>4. Len(pairs) = n /\ (n = 0 => pairs = <<>>)
        /\ \A i \in 1 .. n : pairs[i] = ContinuityEvents(offsets[i])
    BY <2>1, <2>2
  <2>5. /\ Len(pairs) \in Nat /\ \A i \in 1 .. Len(pairs) : pairs[i] \in Seq(Timely)
        /\ Len(pairs) = 0 => pairs = <<>>
    BY <2>1, <2>3, <2>4
  <2>6. /\ FlattenSeq(pairs) \in Seq(Timely)
        /\ FlattenSeq(pairs) = <<>> <=> \A i \in 1 .. Len(pairs) : pairs[i] = <<>>
    BY <2>5, FlattenType
  <2> QED BY <2>1, <2>4, <2>6
<1>7. \A i \in 1 .. Len(candles) - 1 : pairs[i] = ContinuityEvents(offsets[i])
  BY <1>5
<1>8. ObserveBatch(batch, at).events = a \o b \o c \o d
  BY DEF ObserveBatch, offsets
<1> HIDE DEF a, b, c, d
<1>9. \A S : \A x, y \in Seq(S) :
         x \o y \in Seq(S) /\ (x \o y = <<>> <=> x = <<>> /\ y = <<>>)
  OBVIOUS
<1>10. /\ a \in Seq(Conditions) /\ b \in Seq(Conditions) /\ d \in Seq(Conditions)
  BY <1>2, <1>3, <1>6 DEF Timely
<1> DEFINE s == a \o b
           t == s \o c
           u == t \o d
<1>11. /\ s \in Seq(Conditions) /\ s \in Seq(Timely) /\ (s = <<>> <=> a = <<>> /\ b = <<>>)
  BY <1>2, <1>3, <1>9, <1>10
<1>12. /\ t \in Seq(Conditions) /\ (none \/ age >= 0 => t \in Seq(Timely))
       /\ (t = <<>> <=> s = <<>> /\ c = <<>>)
  <2> HIDE DEF s, age, none
  <2> QED BY <1>4, <1>9, <1>11
<1>13. /\ u \in Seq(Conditions) /\ (none \/ age >= 0 => u \in Seq(Timely))
       /\ (u = <<>> <=> t = <<>> /\ d = <<>>)
  <2> HIDE DEF t, age, none
  <2> QED BY <1>6, <1>9, <1>10, <1>12
<1>14. ObserveBatch(batch, at).events = u
  BY <1>8
<1> HIDE DEF s, t, u, pairs
<1>15. /\ u \in Seq(Conditions) /\ (none \/ age >= 0 => u \in Seq(Timely))
       /\ u = <<>> <=>
             /\ ~ none /\ b = <<>> /\ age \in 0 .. Interval * StaleAfter
             /\ \A i \in 1 .. Len(candles) - 1 : ContinuityEvents(offsets[i]) = <<>>
  <2> HIDE DEF age, none
  <2> QED BY <1>2, <1>4, <1>6, <1>7, <1>11, <1>12, <1>13
<1> HIDE DEF u
<1> QED BY <1>14, <1>15 DEF b, offsets

-----------------------------------------------------------------------------
(* An ideal feed.                                                          *)

\* Numbers that are listed in ascending order are listed as they are.
LEMMA AscendingIsUnique ==
    ASSUME NEW n \in Nat, NEW g, NEW S \in SUBSET Nat, IsFiniteSet(S), Cardinality(S) = n,
           g \in [1 .. n -> S], \A i, j \in 1 .. n : i < j => g[i] < g[j]
    PROVE  Ascending(S) = g
<1> DEFINE a == Ascending(S)
<1>1. /\ a \in [1 .. n -> S] /\ \A k \in 1 .. n : Cardinality(Below(S, a[k])) = k - 1
  BY AscendingLists
<1> HIDE DEF a
<1>2. IsFiniteSet(1 .. n) /\ Cardinality(1 .. n) = n
  BY IndexSet
<1>3. g \in Injection(1 .. n, S)
  <2>1. ASSUME NEW i \in 1 .. n, NEW j \in 1 .. n, g[i] = g[j] PROVE i = j
    <3>1. g[i] \in Nat /\ g[j] \in Nat
      OBVIOUS
    <3>2. ~ (g[i] < g[j]) /\ ~ (g[j] < g[i])
      BY <2>1, <3>1
    <3>3. ~ (i < j) /\ ~ (j < i)
      BY <3>2
    <3> QED BY <3>3
  <2> QED BY <2>1 DEF Injection, IsInjective
<1>4. g \in Surjection(1 .. n, S)
  BY <1>2, <1>3, FS_Injection
<1>5. ASSUME NEW k \in 1 .. n PROVE Cardinality(Below(S, g[k])) = k - 1
  <2> DEFINE B == Below(S, g[k])
             D == 1 .. k - 1
             h == [i \in D |-> g[i]]
  <2>1. k \in Nat /\ k - 1 \in Nat /\ D \in SUBSET (1 .. n) /\ \A i \in 1 .. n : i < k <=> i \in D
    OBVIOUS
  <2>2. \A i \in 1 .. n : g[i] \in Nat /\ g[i] \in S
    OBVIOUS
  <2>3. \A i \in 1 .. n : i < k <=> g[i] < g[k]
    <3> TAKE i \in 1 .. n
    <3>1. CASE i < k
      BY <3>1
    <3>2. CASE i = k
      BY <2>2, <3>2
    <3>3. CASE k < i
      BY <2>2, <3>3
    <3> QED BY <3>1, <3>2, <3>3
  <2>4. IsFiniteSet(D) /\ Cardinality(D) = k - 1
    <3> DEFINE m == k - 1
    <3>1. m \in Nat
      BY <2>1
    <3> HIDE DEF m
    <3>2. IsFiniteSet(1 .. m) /\ Cardinality(1 .. m) = m
      BY <3>1, IndexSet
    <3> QED BY <3>2 DEF m
  <2> HIDE DEF D
  <2>5. h \in Bijection(D, B)
    <3>1. \A i \in D : g[i] \in B
      BY <2>1, <2>2, <2>3 DEF Below
    <3>2. \A i, j \in D : g[i] = g[j] => i = j
      BY <1>3, <2>1 DEF Injection, IsInjective
    <3>3. ASSUME NEW x \in B PROVE \E i \in D : g[i] = x
      <4>1. x \in S /\ x < g[k]
        BY DEF Below
      <4>2. PICK i \in 1 .. n : g[i] = x
        BY <1>4, <4>1 DEF Surjection
      <4> QED BY <2>1, <2>3, <4>1, <4>2
    <3> HIDE DEF B
    <3> QED BY <3>1, <3>2, <3>3 DEF Bijection, Injection, IsInjective, Surjection
  <2> HIDE DEF B, h
  <2>6. Cardinality(B) = Cardinality(D)
    BY <2>4, <2>5, FS_Bijection DEF ExistsBijection
  <2> QED BY <2>4, <2>6 DEF B
<1>6. ASSUME NEW k \in 1 .. n PROVE a[k] = g[k]
  <2> DEFINE x == a[k]
             y == g[k]
  <2>1. x \in S /\ y \in S /\ Cardinality(Below(S, x)) = k - 1 /\ Cardinality(Below(S, y)) = k - 1
    BY <1>1, <1>5
  <2> HIDE DEF x, y
  <2>2. x \in Nat /\ y \in Nat
    BY <2>1
  <2>3. ~ (x < y) /\ ~ (y < x)
    BY <2>1, RankGrows
  <2>4. x = y
    BY <2>2, <2>3
  <2> QED BY <2>4 DEF x, y
<1> QED BY <1>1, <1>6 DEF a

\* Rows that are candles in order are the candles.
LEMMA InOrder ==
    ASSUME NEW rows \in Seq(Rows), ~ Refused(rows), FirstOf(rows) = 1 .. Len(rows),
           \A i, j \in 1 .. Len(rows) : i < j => rows[i].openedAt < rows[j].openedAt
    PROVE  CandlesOf(rows) = rows
<1> DEFINE n == Len(rows)
           first == FirstOf(rows)
           g == [i \in 1 .. n |-> rows[i].openedAt]
           S == {rows[i].openedAt : i \in first}
           At(k) == CHOOSE i \in first : rows[i].openedAt = g[k]
<1>1. /\ n \in Nat /\ first = 1 .. n /\ \A i \in 1 .. n : rows[i] \in Rows
  OBVIOUS
<1>2. S \in SUBSET Nat /\ IsFiniteSet(S) /\ Cardinality(S) = Cardinality(first)
  BY FirstRows
<1>3. Cardinality(S) = n
  <2>1. Cardinality(1 .. n) = n
    BY <1>1, IndexSet
  <2> QED BY <1>1, <1>2, <2>1
<1>4. g \in [1 .. n -> S] /\ \A i, j \in 1 .. n : i < j => g[i] < g[j]
  BY <1>1
<1>5. Ascending(S) = g
  <2> HIDE DEF S, g, n
  <2> QED BY <1>1, <1>2, <1>3, <1>4, AscendingIsUnique
<1>6. CandlesOf(rows) = [k \in 1 .. n |-> rows[At(k)]]
  <2> DEFINE opens == Ascending({rows[i].openedAt : i \in FirstOf(rows)})
  <2>1. CandlesOf(rows) =
           [k \in DOMAIN opens |-> rows[CHOOSE i \in FirstOf(rows) : rows[i].openedAt = opens[k]]]
    BY DEF CandlesOf
  <2>2. opens = g /\ DOMAIN g = 1 .. n
    BY <1>5
  <2> HIDE DEF opens, g, n
  <2> QED BY <2>1, <2>2
<1>7. ASSUME NEW k \in 1 .. n PROVE At(k) = k
  <2>1. k \in first /\ rows[k].openedAt = g[k]
    BY <1>1
  <2> DEFINE i == At(k)
  <2>2. i \in first /\ rows[i].openedAt = g[k]
    BY <2>1
  <2> HIDE DEF i
  <2>3. \A x, y \in first : rows[x].openedAt = rows[y].openedAt => x = y
    BY FirstRows
  <2>4. i = k
    <3> HIDE DEF g, first
    <3> QED BY <2>1, <2>2, <2>3
  <2> QED BY <2>4 DEF i
<1> HIDE DEF At
<1>8. CandlesOf(rows) = [k \in 1 .. n |-> rows[k]]
  BY <1>6, <1>7
<1> QED BY <1>8

\* The candles of rows that are all of them good, each new and none too late, are the rows; and
\* rows that are not good, new or in time are counted.
LEMMA GoodRows ==
    ASSUME NEW rows \in Seq(Rows), ~ Refused(rows)
    PROVE  LET gone  == {i \in DOMAIN rows : rows[i].value = "missing"}
               first == FirstOf(rows)
               late  == \E i, j \in first : i < j /\ rows[j].openedAt < rows[i].openedAt
               good  == /\ gone = {}
                        /\ \A i, j \in DOMAIN rows : i < j => rows[i].openedAt < rows[j].openedAt
           IN  /\ good <=> gone = {} /\ Cardinality(first) = Len(rows) /\ ~ late
               /\ good => CandlesOf(rows) = rows
<1> DEFINE n == Len(rows)
           gone == {i \in DOMAIN rows : rows[i].value = "missing"}
           first == FirstOf(rows)
           late == \E i, j \in first : i < j /\ rows[j].openedAt < rows[i].openedAt
           good == /\ gone = {}
                   /\ \A i, j \in DOMAIN rows : i < j => rows[i].openedAt < rows[j].openedAt
<1>1. /\ n \in Nat /\ DOMAIN rows = 1 .. n /\ first \in SUBSET (1 .. n)
      /\ \A i \in 1 .. n : rows[i] \in Rows /\ rows[i].openedAt \in Nat
  <2>1. n \in Nat /\ DOMAIN rows = 1 .. n /\ \A i \in 1 .. n : rows[i] \in Rows
    OBVIOUS
  <2>2. first \in SUBSET (1 .. n)
    BY FirstRows
  <2>3. \A row \in Rows : row.openedAt \in Nat
    BY DEF Rows
  <2> QED BY <2>1, <2>2, <2>3
<1>2. Cardinality(first) = n <=> first = 1 .. n
  BY <1>1, IndexSet
<1>3. ASSUME good PROVE first = 1 .. n /\ ~ late
  <2>1. ASSUME NEW i \in 1 .. n PROVE i \in first
    <3>1. rows[i].value # "missing"
      BY <1>1, <1>3
    <3>2. ASSUME NEW j \in DOMAIN rows, j < i PROVE rows[j] # rows[i]
      <4>1. rows[j].openedAt < rows[i].openedAt /\ rows[i].openedAt \in Nat
        BY <1>1, <1>3, <3>2
      <4> QED BY <4>1
    <3> QED BY <1>1, <3>1, <3>2 DEF FirstOf
  <2>2. ASSUME NEW i \in first, NEW j \in first, i < j, rows[j].openedAt < rows[i].openedAt
        PROVE  FALSE
    <3>1. /\ rows[i].openedAt < rows[j].openedAt
          /\ rows[i].openedAt \in Nat /\ rows[j].openedAt \in Nat
      BY <1>1, <1>3, <2>2
    <3> QED BY <2>2, <3>1
  <2> QED BY <1>1, <2>1, <2>2
<1>4. ASSUME gone = {}, first = 1 .. n, ~ late PROVE good
  <2>1. ASSUME NEW i \in 1 .. n, NEW j \in 1 .. n, i < j
        PROVE  rows[i].openedAt < rows[j].openedAt
    <3>1. ~ (rows[j].openedAt < rows[i].openedAt)
      BY <1>4, <2>1
    <3>2. rows[i].openedAt # rows[j].openedAt
      <4>1. \A x, y \in first : rows[x].openedAt = rows[y].openedAt => x = y
        BY FirstRows
      <4>2. i \in first /\ j \in first /\ i # j
        BY <1>4, <2>1
      <4> HIDE DEF first
      <4> QED BY <4>1, <4>2
    <3> QED BY <1>1, <3>1, <3>2
  <2> QED BY <1>1, <1>4, <2>1
<1>5. ASSUME good PROVE CandlesOf(rows) = rows
  <2>1. FirstOf(rows) = 1 .. Len(rows)
    BY <1>3, <1>5
  <2>2. \A i, j \in 1 .. Len(rows) : i < j => rows[i].openedAt < rows[j].openedAt
    BY <1>1, <1>5
  <2> QED BY <2>1, <2>2, InOrder
<1> HIDE DEF first, gone, late, n
<1> QED BY <1>2, <1>3, <1>4, <1>5 DEF first, gone, late, n

\* The batch of a payload, field by field.
LEMMA FetchedIs ==
    ASSUME NEW payload \in Payloads, NEW cutoff \in Nat, ~ Refused(Closed(payload, cutoff))
    PROVE  LET rows    == Closed(payload, cutoff)
               first   == FirstOf(rows)
               n       == Cardinality(first)
               trimmed == IF n > HistoryLimit THEN n - HistoryLimit ELSE 0
               missing == Cardinality({i \in DOMAIN rows : rows[i].value = "missing"})
               batch   == Fetched(payload, cutoff)
           IN  /\ batch.candles = SubSeq(CandlesOf(rows), trimmed + 1, n)
               /\ batch.report.inputRows = Len(payload)
               /\ batch.report.outputRows = n - trimmed
               /\ batch.report.duplicates = Len(rows) - missing - n
               /\ batch.report.missing = missing
               /\ batch.report.incomplete = Len(payload) - Len(rows)
               /\ batch.report.trimmed = trimmed
               /\ batch.report.reordered = \E i, j \in first :
                                              i < j /\ rows[j].openedAt < rows[i].openedAt
<1> DEFINE rows == Closed(payload, cutoff)
           first == FirstOf(rows)
           n == Cardinality(first)
           trimmed == IF n > HistoryLimit THEN n - HistoryLimit ELSE 0
           missing == Cardinality({i \in DOMAIN rows : rows[i].value = "missing"})
           late == \E i, j \in first : i < j /\ rows[j].openedAt < rows[i].openedAt
           candles == SubSeq(CandlesOf(rows), trimmed + 1, n)
           dups == Len(rows) - missing - n
           out == n - trimmed
           all == Len(payload)
           rest == Len(payload) - Len(rows)
           size == Len(rows)
           zero == 0
           report == [inputRows |-> size, outputRows |-> out, duplicates |-> dups,
                      missing |-> missing, incomplete |-> zero, trimmed |-> trimmed,
                      reordered |-> late]
           b == Normalized(rows)
           f == [b EXCEPT !.report.inputRows = all, !.report.incomplete = rest]
<1>1. rows \in Seq(Rows)
  <2>1. payload \in Seq(Rows)
    BY MonitoringAssumption DEF Rows
  <2> QED BY <2>1, ClosedType
<1>2. Len(CandlesOf(rows)) = n
  <2> HIDE DEF rows
  <2> QED BY <1>1, CandlesType DEF rows
<1>3. b = [candles |-> candles, report |-> report]
  <2> HIDE DEF rows
  <2> QED BY <1>2 DEF Normalized
<1>4. Fetched(payload, cutoff) = f
  BY DEF Fetched
<1> HIDE DEF rows, first, n, trimmed, missing, late, candles, dups, out, all, rest, size, zero, b
<1>5. f = [[b EXCEPT !.report.inputRows = all] EXCEPT !.report.incomplete = rest]
  OBVIOUS
<1> DEFINE r1 == [report EXCEPT !.inputRows = all]
           r2 == [r1 EXCEPT !.incomplete = rest]
<1>6. [b EXCEPT !.report.inputRows = all] = [candles |-> candles, report |-> r1]
  <2>1. [b EXCEPT !.report.inputRows = all] = [b EXCEPT !.report = r1]
    BY <1>3
  <2> HIDE DEF r1, report
  <2> QED BY <1>3, <2>1
<1> DEFINE c == [candles |-> candles, report |-> r1]
<1>7. [c EXCEPT !.report.incomplete = rest] = [candles |-> candles, report |-> r2]
  <2>1. [c EXCEPT !.report.incomplete = rest] = [c EXCEPT !.report = r2]
    BY DEF c
  <2> HIDE DEF r1, r2
  <2> QED BY <2>1
<1>8. r1 = [inputRows |-> all, outputRows |-> out, duplicates |-> dups,
            missing |-> missing, incomplete |-> zero, trimmed |-> trimmed, reordered |-> late]
  OBVIOUS
<1> HIDE DEF r1
<1>9. r2 = [inputRows |-> all, outputRows |-> out, duplicates |-> dups,
            missing |-> missing, incomplete |-> rest, trimmed |-> trimmed, reordered |-> late]
  BY <1>8
<1> HIDE DEF f, c, r1, r2, report
<1>10. f.candles = candles /\ f.report = r2
  BY <1>5, <1>6, <1>7 DEF c
<1>11. /\ f.candles = candles /\ f.report.inputRows = all /\ f.report.outputRows = out
       /\ f.report.duplicates = dups /\ f.report.missing = missing
       /\ f.report.incomplete = rest /\ f.report.trimmed = trimmed /\ f.report.reordered = late
  BY <1>9, <1>10
<1> QED BY <1>4, <1>11 DEF rows, first, n, trimmed, missing, late, candles, dups, out, all, rest, size

\* The rows of a batch are accounted for.
LEMMA RowsAddUp ==
    ASSUME NEW payload \in Payloads, NEW cutoff \in Nat, ~ Refused(Closed(payload, cutoff))
    PROVE  LET report == Fetched(payload, cutoff).report
           IN  report.inputRows = report.outputRows + (report.duplicates + report.missing
                                                       + report.incomplete + report.trimmed)
<1> DEFINE rows == Closed(payload, cutoff)
           n == Cardinality(FirstOf(rows))
           trimmed == IF n > HistoryLimit THEN n - HistoryLimit ELSE 0
           missing == Cardinality({i \in DOMAIN rows : rows[i].value = "missing"})
           report == Fetched(payload, cutoff).report
<1>1. payload \in Seq(Rows)
  BY MonitoringAssumption DEF Rows
<1>2. rows \in Seq(Rows)
  BY <1>1, ClosedType
<1>3. /\ report.inputRows = Len(payload) /\ report.outputRows = n - trimmed
      /\ report.duplicates = Len(rows) - missing - n /\ report.missing = missing
      /\ report.incomplete = Len(payload) - Len(rows) /\ report.trimmed = trimmed
  BY FetchedIs
<1>4. n \in Nat
  <2> HIDE DEF rows
  <2> QED BY <1>2, CandlesType DEF rows
<1>5. Len(payload) \in Nat /\ Len(rows) \in Nat
  BY <1>1, <1>2
<1>6. trimmed \in Int
  <2> HIDE DEF n
  <2> QED BY <1>4, MarketDataAssumption
<1>7. missing \in Nat
  <2> DEFINE gone == {i \in DOMAIN rows : rows[i].value = "missing"}
  <2>1. gone \in SUBSET (1 .. Len(rows))
    BY <1>2
  <2> HIDE DEF gone, rows
  <2>2. Cardinality(gone) \in Nat
    BY <1>5, <2>1, IndexSet
  <2> QED BY <2>2 DEF gone, rows
<1> HIDE DEF rows, n, trimmed, missing, report
<1>8. report.inputRows = report.outputRows + (report.duplicates + report.missing
                                                       + report.incomplete + report.trimmed)
  BY <1>3, <1>4, <1>5, <1>6, <1>7
<1> QED BY <1>8 DEF report

\* Every candle of a batch had closed at the cutoff.
LEMMA CandlesHadClosed ==
    ASSUME NEW payload \in Payloads, NEW cutoff \in Nat, ~ Refused(Closed(payload, cutoff)),
           NEW i \in 1 .. Len(Fetched(payload, cutoff).candles)
    PROVE  CloseOf(Fetched(payload, cutoff).candles[i]) <= cutoff
<1> DEFINE rows == Closed(payload, cutoff)
           first == FirstOf(rows)
           n == Cardinality(first)
           trimmed == IF n > HistoryLimit THEN n - HistoryLimit ELSE 0
           candles == Fetched(payload, cutoff).candles
           ordered == CandlesOf(rows)
<1>1. payload \in Seq(Rows)
  BY MonitoringAssumption DEF Rows
<1>2. rows \in Seq(Rows)
  BY <1>1, ClosedType
<1>3. \A k \in 1 .. Len(rows) : CloseOf(rows[k]) <= cutoff
  <2> DEFINE kept == {k \in DOMAIN payload : CloseOf(payload[k]) <= cutoff}
             a == Ascending(kept)
             m == Cardinality(kept)
  <2>1. kept \in SUBSET (1 .. Len(payload)) /\ Len(payload) \in Nat
    BY <1>1
  <2>2. kept \in SUBSET Nat /\ IsFiniteSet(kept)
    <3> HIDE DEF kept
    <3> QED BY <2>1, IndexSet
  <2>3. a \in [1 .. m -> kept] /\ m \in Nat
    <3> HIDE DEF kept
    <3> QED BY <2>2, AscendingLists
  <2>4. rows = [k \in 1 .. m |-> payload[a[k]]]
    <3>1. DOMAIN a = 1 .. m
      BY <2>3
    <3> HIDE DEF m
    <3> QED BY <3>1 DEF Closed, Picked
  <2>5. \A k \in kept : CloseOf(payload[k]) <= cutoff
    OBVIOUS
  <2> HIDE DEF a, m, kept, rows
  <2>6. Len(rows) = m
    BY <2>3, <2>4
  <2> QED BY <2>3, <2>4, <2>5, <2>6
<1>4. ordered \in Seq(Rows) /\ Len(ordered) = n /\ n \in Nat
  <2> HIDE DEF rows
  <2> QED BY <1>2, CandlesType DEF rows
<1>5. candles = SubSeq(ordered, trimmed + 1, n)
  BY FetchedIs
<1>6. \A k \in 1 .. n : \E j \in 1 .. Len(rows) : ordered[k] = rows[j]
  <2> HIDE DEF rows
  <2> QED BY <1>2, CandlesType DEF rows
<1> HIDE DEF ordered, candles, n
<1>7. trimmed \in Nat /\ trimmed <= n
  BY <1>4, MarketDataAssumption
<1> HIDE DEF trimmed
<1>8. \E k \in 1 .. n : candles[i] = ordered[k]
  <2>1. Len(candles) = n - trimmed
    BY <1>4, <1>5, <1>7
  <2>2. i \in 1 .. n - trimmed
    BY <2>1 DEF candles
  <2>3. candles[i] = ordered[trimmed + i] /\ trimmed + i \in 1 .. n
    BY <1>4, <1>5, <1>7, <2>2
  <2> QED BY <2>3
<1>9. CloseOf(candles[i]) <= cutoff
  <2> HIDE DEF rows
  <2> QED BY <1>3, <1>6, <1>8
<1> QED BY <1>9 DEF candles

\* Division with remainder.
LEMMA Division ==
    ASSUME NEW a \in Int, NEW b \in Nat, b > 0
    PROVE  /\ a \div b \in Int /\ a % b \in 0 .. b - 1
           /\ a % b = 0 => a = b * (a \div b)
           /\ \A k \in Nat : a = b * k => a \div b = k /\ a % b = 0 /\ a >= 0
           /\ a >= 0 => a \div b >= 0
<1>1. a \div b \in Int /\ a % b \in 0 .. b - 1
  OBVIOUS
<1>2. ASSUME a % b = 0 PROVE a = b * (a \div b)
  BY <1>2
<1>3. ASSUME NEW k \in Nat, a = b * k PROVE a \div b = k /\ a % b = 0 /\ a >= 0
  <2>1. a >= 0
    BY <1>3
  <2>2. a \div b = k
    BY <1>3
  <2>3. a % b = 0
    BY <1>3
  <2> QED BY <2>1, <2>2, <2>3
<1>4. ASSUME a >= 0 PROVE a \div b >= 0
  BY <1>4
<1> QED BY <1>1, <1>2, <1>3, <1>4

\* An offset is on the grid and no gap exactly when it is some few intervals.
LEMMA OnTheGrid ==
    ASSUME NEW offset \in Int
    PROVE  /\ offset >= 0 /\ ~ IsGap(offset) /\ offset % Interval = 0
           <=> offset \in {Interval * k : k \in 0 .. GapTolerance}
<1>0. Interval \in Nat /\ Interval > 0 /\ GapTolerance \in Nat
  BY MarketDataAssumption
<1> DEFINE q == offset \div Interval
           rest == offset % Interval
           Times(k) == Interval * k
<1>1. /\ q \in Int /\ (rest = 0 => offset = Times(q))
      /\ \A k \in Nat : offset = Times(k) => q = k /\ rest = 0 /\ offset >= 0
      /\ offset >= 0 => q >= 0
  BY <1>0, Division
<1>2. IsGap(offset) <=> q > GapTolerance
  BY DEF IsGap
<1> HIDE DEF q, rest, Times
<1>3. /\ offset >= 0 /\ ~ IsGap(offset) /\ rest = 0
      <=> \E k \in 0 .. GapTolerance : offset = Times(k)
  BY <1>0, <1>1, <1>2
<1> QED BY <1>3 DEF rest, Times

\* Rows each of which opens after the one before are in order.
LEMMA InAscendingOrder ==
    ASSUME NEW rows \in Seq(Rows),
           \A i \in 1 .. Len(rows) - 1 : rows[i].openedAt < rows[i + 1].openedAt
    PROVE  \A i, j \in 1 .. Len(rows) : i < j => rows[i].openedAt < rows[j].openedAt
<1> DEFINE n == Len(rows)
           at(i) == rows[i].openedAt
           T == {d \in Nat : \A i \in 1 .. n : i + d + 1 \in 1 .. n => at(i) < at(i + d + 1)}
<1>1. n \in Nat /\ \A i \in 1 .. n : at(i) \in Nat
  <2>1. n \in Nat /\ \A i \in 1 .. n : rows[i] \in Rows
    OBVIOUS
  <2>2. \A row \in Rows : row.openedAt \in Nat
    BY DEF Rows
  <2> QED BY <2>1, <2>2
<1>2. \A i \in 1 .. n - 1 : at(i) < at(i + 1)
  OBVIOUS
<1> HIDE DEF n, at
<1>3. 0 \in T
  BY <1>1, <1>2
<1>4. ASSUME NEW d \in Nat, d \in T PROVE d + 1 \in T
  <2> SUFFICES ASSUME NEW i \in 1 .. n, i + (d + 1) + 1 \in 1 .. n
               PROVE  at(i) < at(i + (d + 1) + 1)
    OBVIOUS
  <2> DEFINE j == i + d + 1
  <2>1. j \in 1 .. n /\ j \in 1 .. n - 1 /\ i + (d + 1) + 1 = j + 1 /\ j + 1 \in 1 .. n
    BY <1>1
  <2>2. at(i) < at(j)
    BY <1>4, <2>1
  <2> HIDE DEF j
  <2>3. at(j) < at(j + 1)
    BY <1>2, <2>1
  <2>4. at(i) \in Nat /\ at(j) \in Nat /\ at(j + 1) \in Nat
    BY <1>1, <2>1
  <2>5. at(i) < at(j + 1)
    BY <2>2, <2>3, <2>4
  <2> QED BY <2>1, <2>5
<1> HIDE DEF T
<1>5. \A d \in Nat : d \in T
  BY <1>3, <1>4, Induction
<1>6. ASSUME NEW i \in 1 .. n, NEW j \in 1 .. n, i < j PROVE at(i) < at(j)
  <2> DEFINE d == j - i - 1
  <2>1. d \in Nat /\ i + d + 1 = j
    BY <1>1, <1>6
  <2> HIDE DEF d
  <2>2. d \in T
    BY <1>5, <2>1
  <2> QED BY <2>1, <2>2 DEF T
<1> QED BY <1>6 DEF n, at

\* An observer is silent exactly about an ideal feed.
LEMMA SilentIsIdeal ==
    ASSUME NEW payload \in Payloads, NEW cutoff \in Nat, ~ Refused(Closed(payload, cutoff)),
           NEW at \in Nat
    PROVE  ObserveBatch(Fetched(payload, cutoff), at).events = <<>> <=> Ideal(payload, cutoff, at)
<1> DEFINE rows == Closed(payload, cutoff)
           first == FirstOf(rows)
           n == Cardinality(first)
           trimmed == IF n > HistoryLimit THEN n - HistoryLimit ELSE 0
           gone == {i \in DOMAIN rows : rows[i].value = "missing"}
           missing == Cardinality(gone)
           late == \E i, j \in first : i < j /\ rows[j].openedAt < rows[i].openedAt
           batch == Fetched(payload, cutoff)
           candles == batch.candles
           report == batch.report
           silent == ObserveBatch(batch, at).events = <<>>
           kept == {i \in DOMAIN payload : CloseOf(payload[i]) <= cutoff}
           Fresh(c) == at - CloseOf(Last(c)) \in 0 .. Interval * StaleAfter
           Joined(c) == \A i \in 1 .. Len(c) - 1 :
                           c[i + 1].openedAt - CloseOf(c[i])
                              \in {Interval * k : k \in 0 .. GapTolerance}
           good == /\ gone = {}
                   /\ \A i, j \in DOMAIN rows : i < j => rows[i].openedAt < rows[j].openedAt
<1>1. payload \in Seq(Rows) /\ Len(payload) \in Nat
  BY MonitoringAssumption DEF Rows
<1>2. /\ rows \in Seq(Rows) /\ Len(rows) = Cardinality(kept)
      /\ Cardinality(kept) \in 0 .. Len(payload)
      /\ kept = DOMAIN payload => rows = payload
  BY <1>1, ClosedType
<1>3. Cardinality(kept) = Len(payload) <=> kept = DOMAIN payload
  <2>1. kept \in SUBSET (1 .. Len(payload)) /\ DOMAIN payload = 1 .. Len(payload)
    BY <1>1
  <2> HIDE DEF kept
  <2> QED BY <1>1, <2>1, IndexSet
<1>4. /\ candles = SubSeq(CandlesOf(rows), trimmed + 1, n)
      /\ report.duplicates = Len(rows) - missing - n /\ report.missing = missing
      /\ report.incomplete = Len(payload) - Len(rows) /\ report.trimmed = trimmed
      /\ report.reordered = late
  BY FetchedIs
<1>5. batch \in Batches /\ candles \in Seq(Rows) /\ report \in Reports
  <2>1. batch \in Batches
    BY FetchedType
  <2> HIDE DEF batch
  <2> QED BY <2>1 DEF Batches
<1>6. silent <=>
         /\ candles # <<>> /\ IntegrityEvents(report) = <<>> /\ Fresh(candles)
         /\ \A i \in 1 .. Len(candles) - 1 : ContinuityEvents(Offsets(candles)[i]) = <<>>
  <2> HIDE DEF batch
  <2> QED BY <1>5, ObserveBatchType
<1>7. IntegrityEvents(report) = <<>> <=>
         /\ ~ (report.duplicates > 0) /\ ~ (report.missing > 0)
         /\ ~ (report.incomplete > 0) /\ ~ (report.trimmed > 0) /\ ~ report.reordered
  <2> HIDE DEF report
  <2> QED BY <1>5, IntegrityType
<1>8. ASSUME NEW c \in Seq(Rows)
      PROVE  (\A i \in 1 .. Len(c) - 1 : ContinuityEvents(Offsets(c)[i]) = <<>>) <=> Joined(c)
  <2>1. ASSUME NEW i \in 1 .. Len(c) - 1
        PROVE  ContinuityEvents(Offsets(c)[i]) = <<>> <=>
                  c[i + 1].openedAt - CloseOf(c[i]) \in {Interval * k : k \in 0 .. GapTolerance}
    <3> DEFINE offset == c[i + 1].openedAt - CloseOf(c[i])
    <3>1. Offsets(c)[i] = offset
      BY DEF Offsets
    <3>2. offset \in Int
      <4>1. c[i] \in Rows /\ c[i + 1] \in Rows
        OBVIOUS
      <4> QED BY <4>1, MarketDataAssumption DEF Rows, CloseOf
    <3> HIDE DEF offset
    <3>3. ContinuityEvents(offset) = <<>> <=>
             offset \in {Interval * k : k \in 0 .. GapTolerance}
      BY <3>2, ContinuityType, OnTheGrid
    <3> QED BY <3>1, <3>3 DEF offset
  <2> QED BY <2>1
<1>9. /\ good <=> gone = {} /\ n = Len(rows) /\ ~ late
      /\ good => CandlesOf(rows) = rows
  <2> HIDE DEF rows
  <2> QED BY <1>2, GoodRows DEF rows
<1>10. n \in 0 .. Len(rows) /\ missing \in Nat /\ (missing = 0 <=> gone = {})
  <2>1. first \in SUBSET (1 .. Len(rows)) /\ gone \in SUBSET (1 .. Len(rows)) /\ Len(rows) \in Nat
    BY <1>2 DEF FirstOf
  <2> HIDE DEF rows, first, gone
  <2>2. n \in 0 .. Len(rows) /\ missing \in Nat /\ IsFiniteSet(gone)
    BY <2>1, IndexSet
  <2>3. missing = 0 <=> gone = {}
    BY <2>2, FS_EmptySet
  <2> QED BY <2>2, <2>3
<1>11. HistoryLimit \in Nat \ {0} /\ Interval \in Nat \ {0} /\ GapTolerance \in Nat
  BY MarketDataAssumption
<1>12. Ideal(payload, cutoff, at) <=>
          /\ payload # <<>> /\ Len(payload) <= HistoryLimit /\ kept = DOMAIN payload
          /\ \A i \in DOMAIN payload : payload[i].value # "missing"
          /\ Joined(payload) /\ Fresh(payload)
  <2>1. (\A i \in DOMAIN payload : i > 1 =>
            payload[i].openedAt - CloseOf(payload[i - 1])
               \in {Interval * k : k \in 0 .. GapTolerance}) <=> Joined(payload)
    <3> DEFINE In(i, j) == payload[j].openedAt - CloseOf(payload[i])
                             \in {Interval * k : k \in 0 .. GapTolerance}
    <3>1. DOMAIN payload = 1 .. Len(payload)
      BY <1>1
    <3> HIDE DEF In
    <3>2. (\A i \in 1 .. Len(payload) : i > 1 => In(i - 1, i))
             <=> \A i \in 1 .. Len(payload) - 1 : In(i, i + 1)
      <4>1. ASSUME \A i \in 1 .. Len(payload) : i > 1 => In(i - 1, i),
                   NEW i \in 1 .. Len(payload) - 1
            PROVE  In(i, i + 1)
        <5>1. i + 1 \in 1 .. Len(payload) /\ i + 1 > 1 /\ (i + 1) - 1 = i
          BY <1>1
        <5> QED BY <4>1, <5>1
      <4>2. ASSUME \A i \in 1 .. Len(payload) - 1 : In(i, i + 1),
                   NEW i \in 1 .. Len(payload), i > 1
            PROVE  In(i - 1, i)
        <5>1. i - 1 \in 1 .. Len(payload) - 1 /\ (i - 1) + 1 = i
          BY <1>1, <4>2
        <5> QED BY <4>2, <5>1
      <4> QED BY <4>1, <4>2
    <3> QED BY <3>1, <3>2 DEF In
  <2>2. Complete(payload, cutoff) = kept
    BY DEF Complete
  <2> HIDE DEF Joined, kept
  <2> QED BY <2>1, <2>2 DEF Ideal
<1> HIDE DEF silent, candles, report, late, missing, n, batch
<1>13. CASE kept # DOMAIN payload
  <2>1. report.incomplete > 0
    BY <1>1, <1>2, <1>3, <1>4, <1>13
  <2> HIDE DEF kept, rows, Fresh, Joined, first, gone, good
  <2>2. ~ silent /\ ~ Ideal(payload, cutoff, at)
    BY <1>6, <1>7, <1>12, <1>13, <2>1
  <2> QED BY <2>2 DEF silent, batch
<1>14. CASE kept = DOMAIN payload
  <2>1. rows = payload /\ report.incomplete = 0
    <3>1. rows = payload
      BY <1>2, <1>14
    <3> HIDE DEF rows, first, trimmed
    <3> QED BY <1>1, <1>4, <3>1
  <2> HIDE DEF kept, rows, Fresh, Joined, first, gone, good
  <2>2. IntegrityEvents(report) = <<>> <=> good /\ n <= HistoryLimit
    <3>1. ~ report.reordered <=> ~ late
      BY <1>4
    <3>2. /\ report.duplicates = Len(rows) - missing - n /\ report.missing = missing
          /\ report.trimmed = trimmed /\ Len(rows) \in Nat
      BY <1>2, <1>4
    <3>3. ~ (report.trimmed > 0) <=> n <= HistoryLimit
      BY <1>10, <1>11, <3>2
    <3>4. ~ (report.missing > 0) <=> gone = {}
      BY <1>10, <3>2
    <3>5. gone = {} => (~ (report.duplicates > 0) <=> n = Len(rows))
      BY <1>10, <3>2
    <3>6. ~ (report.incomplete > 0)
      BY <2>1
    <3> HIDE DEF trimmed
    <3> QED BY <1>7, <1>9, <3>1, <3>3, <3>4, <3>5, <3>6
  <2>3. ASSUME good, n <= HistoryLimit PROVE candles = payload
    <3>1. trimmed = 0 /\ n = Len(payload) /\ CandlesOf(rows) = payload
      BY <1>9, <1>10, <1>11, <2>1, <2>3
    <3> QED BY <1>1, <1>4, <3>1
  <2>4. silent <=> good /\ Len(payload) <= HistoryLimit /\ payload # <<>> /\ Fresh(payload)
                   /\ Joined(payload)
    <3>1. good => n = Len(payload)
      BY <1>9, <2>1
    <3> QED BY <1>5, <1>6, <1>8, <2>2, <2>3, <3>1
  <2>5. Joined(payload) /\ (\A i \in DOMAIN payload : payload[i].value # "missing") => good
    <3> SUFFICES ASSUME Joined(payload), \A i \in DOMAIN payload : payload[i].value # "missing"
                 PROVE  good
      OBVIOUS
    <3>1. gone = {}
      BY <2>1 DEF gone
    <3>2. ASSUME NEW i \in 1 .. Len(payload) - 1
          PROVE  payload[i].openedAt < payload[i + 1].openedAt
      <4>1. PICK k \in 0 .. GapTolerance :
               payload[i + 1].openedAt - CloseOf(payload[i]) = Interval * k
        BY DEF Joined
      <4>2. payload[i] \in Rows /\ payload[i + 1] \in Rows
        BY <1>1
      <4>3. payload[i].openedAt \in Nat /\ payload[i + 1].openedAt \in Nat
        BY <4>2 DEF Rows
      <4>4. Interval * k \in Nat
        BY <1>11
      <4>5. CloseOf(payload[i]) = payload[i].openedAt + Interval
        BY DEF CloseOf
      <4> DEFINE x == Interval * k
                 y == payload[i].openedAt
                 z == payload[i + 1].openedAt
      <4>6. z - (y + Interval) = x /\ x \in Nat /\ y \in Nat /\ z \in Nat
        BY <4>1, <4>3, <4>4, <4>5
      <4> HIDE DEF x, y, z
      <4>7. y < z
        BY <1>11, <4>6
      <4> QED BY <4>7 DEF y, z
    <3>3. \A i, j \in 1 .. Len(payload) : i < j => payload[i].openedAt < payload[j].openedAt
      BY <1>1, <3>2, InAscendingOrder
    <3>4. DOMAIN payload = 1 .. Len(payload)
      BY <1>1
    <3> QED BY <2>1, <3>1, <3>3, <3>4 DEF good
  <2>6. good => \A i \in DOMAIN payload : payload[i].value # "missing"
    BY <2>1 DEF good, gone
  <2> QED BY <1>12, <1>14, <2>4, <2>5, <2>6 DEF silent, batch
<1> QED BY <1>13, <1>14

\* The metrics of a batch, by their names.
LEMMA MetricsAre ==
    ASSUME NEW batch, NEW at
    PROVE  LET entries == ObserveBatch(batch, at).metrics
               report == batch.report
           IN  /\ ValueOf(entries, "rows.input") = report.inputRows
               /\ ValueOf(entries, "rows.output") = report.outputRows
               /\ ValueOf(entries, "rows.rejected") =
                     report.duplicates + report.missing + report.incomplete + report.trimmed
<1> DEFINE report == batch.report
           candles == batch.candles
           age == at - CloseOf(Last(candles))
           in == report.inputRows
           out == report.outputRows
           no == report.duplicates + report.missing + report.incomplete + report.trimmed
           gaps == Cardinality({i \in DOMAIN Offsets(candles) : IsGap(Offsets(candles)[i])})
           ratio == <<out, in>>
           a == Counter("rows.input", in)
           b == Counter("rows.output", out)
           c == Counter("rows.rejected", no)
           d == Counter("gaps", gaps)
           e == [name |-> "output_ratio", value |-> ratio]
           f == Counter("freshness_age", age)
           last == <<f>>
           more == IF candles # <<>> /\ age >= 0 THEN last ELSE <<>>
           five == <<a, b, c, d, e>>
           entries == five \o more
<1>1. ObserveBatch(batch, at).metrics = entries
  BY DEF ObserveBatch
<1>2. /\ a.name = "rows.input" /\ a.value[1] = in /\ b.name = "rows.output" /\ b.value[1] = out
      /\ c.name = "rows.rejected" /\ c.value[1] = no /\ d.name = "gaps"
      /\ e.name = "output_ratio" /\ f.name = "freshness_age"
  <2> HIDE DEF in, out, no, gaps, ratio, age
  <2>1. \A name, x : Counter(name, x).name = name /\ Counter(name, x).value[1] = x
    BY DEF Counter
  <2> QED BY <2>1
<1> HIDE DEF a, b, c, d, e, f, in, out, no, age
<1>3. /\ Len(five) = 5 /\ five[1] = a /\ five[2] = b /\ five[3] = c /\ five[4] = d /\ five[5] = e
      /\ five \in Seq({a, b, c, d, e})
  OBVIOUS
<1>4. Len(last) = 1 /\ last[1] = f /\ last \in Seq({f})
  OBVIOUS
<1> HIDE DEF five, last
<1>5. /\ DOMAIN entries \in {1 .. 5, 1 .. 6} /\ entries[1] = a /\ entries[2] = b /\ entries[3] = c
      /\ entries[4] = d /\ entries[5] = e
      /\ 6 \in DOMAIN entries => entries[6] = f
  <2> DEFINE S == {a, b, c, d, e, f}
             none == <<>>
  <2>0. five \in Seq(S) /\ last \in Seq(S) /\ none \in Seq(S) /\ Len(none) = 0
    BY <1>3, <1>4
  <2> HIDE DEF none, S
  <2>1. more = last \/ more = none
    BY DEF none
  <2> HIDE DEF more
  <2>4. \A x, y \in Seq(S) :
           /\ DOMAIN (x \o y) = 1 .. Len(x) + Len(y)
           /\ \A i \in 1 .. Len(x) : (x \o y)[i] = x[i]
           /\ Len(y) = 1 => (x \o y)[Len(x) + 1] = y[1]
    OBVIOUS
  <2>5. \A i \in {1, 2, 3, 4, 5} : i \in 1 .. Len(five)
    BY <1>3
  <2>6. /\ DOMAIN entries = 1 .. 5 + Len(more) /\ \A i \in {1, 2, 3, 4, 5} : entries[i] = five[i]
        /\ Len(more) = 1 => entries[6] = more[1]
    <3>1. more \in Seq(S)
      BY <2>0, <2>1
    <3>2. /\ DOMAIN entries = 1 .. Len(five) + Len(more)
          /\ \A i \in 1 .. Len(five) : entries[i] = five[i]
          /\ Len(more) = 1 => entries[Len(five) + 1] = more[1]
      BY <2>0, <2>4, <3>1
    <3> HIDE DEF entries
    <3> QED BY <1>3, <2>5, <3>2
  <2> HIDE DEF entries
  <2>2. CASE more = none
    <3>1. DOMAIN entries = 1 .. 5 /\ ~ (6 \in 1 .. 5)
      BY <2>0, <2>2, <2>6
    <3> QED BY <1>3, <2>6, <3>1
  <2>3. CASE more = last
    <3>1. DOMAIN entries = 1 .. 6 /\ entries[6] = f
      BY <1>4, <2>3, <2>6
    <3> QED BY <1>3, <2>6, <3>1
  <2> QED BY <2>1, <2>2, <2>3
<1> HIDE DEF entries
<1>6. \A i \in DOMAIN entries : i \in {1, 2, 3, 4, 5, 6}
  BY <1>5
<1>7. (CHOOSE i \in DOMAIN entries : entries[i].name = "rows.input") = 1
  <2>1. 1 \in DOMAIN entries /\ entries[1].name = "rows.input"
    BY <1>2, <1>5
  <2>2. \A i \in DOMAIN entries : entries[i].name = "rows.input" => i = 1
    BY <1>2, <1>5, <1>6
  <2> QED BY <2>1, <2>2
<1>8. (CHOOSE i \in DOMAIN entries : entries[i].name = "rows.output") = 2
  <2>1. 2 \in DOMAIN entries /\ entries[2].name = "rows.output"
    BY <1>2, <1>5
  <2>2. \A i \in DOMAIN entries : entries[i].name = "rows.output" => i = 2
    BY <1>2, <1>5, <1>6
  <2> QED BY <2>1, <2>2
<1>9. (CHOOSE i \in DOMAIN entries : entries[i].name = "rows.rejected") = 3
  <2>1. 3 \in DOMAIN entries /\ entries[3].name = "rows.rejected"
    BY <1>2, <1>5
  <2>2. \A i \in DOMAIN entries : entries[i].name = "rows.rejected" => i = 3
    BY <1>2, <1>5, <1>6
  <2> QED BY <2>1, <2>2
<1>10. ValueOf(entries, "rows.input") = in /\ ValueOf(entries, "rows.output") = out
       /\ ValueOf(entries, "rows.rejected") = no
  BY <1>2, <1>5, <1>7, <1>8, <1>9 DEF ValueOf
<1> QED BY <1>1, <1>10 DEF in, out, no

\* What ObservationMatchesFeed says, of a batch and what was observed of it.
LEMMA FeedMatches ==
    ASSUME NEW payload \in Payloads, NEW cutoff \in Nat, ~ Refused(Closed(payload, cutoff)),
           NEW at \in Nat
    PROVE  LET seen == ObserveBatch(Fetched(payload, cutoff), at)
               Value(name) == ValueOf(seen.metrics, name)
           IN  /\ seen.events \in Seq(Conditions)
               /\ seen.events = <<>> <=> Ideal(payload, cutoff, at)
               /\ Value("rows.input") = Value("rows.output") + Value("rows.rejected")
               /\ Value("rows.input") = Len(payload)
               /\ \A i \in DOMAIN seen.events :
                     seen.events[i].code = "DATA_FUTURE_TIMESTAMP" => at < cutoff
<1> DEFINE batch == Fetched(payload, cutoff)
           seen == ObserveBatch(batch, at)
           Value(name) == ValueOf(seen.metrics, name)
           candles == batch.candles
           age == at - CloseOf(Last(candles))
           told == seen.events
<1>1. batch \in Batches /\ candles \in Seq(Rows)
  <2>1. batch \in Batches
    BY FetchedType
  <2> HIDE DEF batch
  <2> QED BY <2>1 DEF Batches
<1>2. told = <<>> <=> Ideal(payload, cutoff, at)
  BY SilentIsIdeal
<1>3. Value("rows.input") = Value("rows.output") + Value("rows.rejected")
      /\ Value("rows.input") = Len(payload)
  <2>1. batch.report.inputRows = batch.report.outputRows
           + (batch.report.duplicates + batch.report.missing + batch.report.incomplete
              + batch.report.trimmed)
    BY RowsAddUp
  <2>2. batch.report.inputRows = Len(payload)
    BY FetchedIs
  <2> HIDE DEF batch
  <2>3. /\ Value("rows.input") = batch.report.inputRows
        /\ Value("rows.output") = batch.report.outputRows
        /\ Value("rows.rejected") = batch.report.duplicates + batch.report.missing
                                    + batch.report.incomplete + batch.report.trimmed
    BY MetricsAre
  <2> HIDE DEF Value
  <2> QED BY <2>1, <2>2, <2>3
<1>4. told \in Seq(Conditions) /\ (candles = <<>> \/ age >= 0 => told \in Seq(Timely))
  <2> HIDE DEF batch
  <2> QED BY <1>1, ObserveBatchType
<1>5. ASSUME NEW i \in DOMAIN told, told[i].code = "DATA_FUTURE_TIMESTAMP"
      PROVE  at < cutoff
  <2>1. ~ (told \in Seq(Timely))
    <3> HIDE DEF told
    <3> SUFFICES ASSUME told \in Seq(Timely) PROVE FALSE
      OBVIOUS
    <3>1. told[i] \in Timely
      OBVIOUS
    <3> QED BY <1>5, <3>1 DEF Timely
  <2>2. candles # <<>> /\ ~ (age >= 0)
    BY <1>4, <2>1
  <2> HIDE DEF candles
  <2>3. Len(candles) \in 1 .. Len(candles) /\ Last(candles) = candles[Len(candles)]
        /\ Last(candles) \in Rows
    BY <1>1, <2>2 DEF Last
  <2>4. CloseOf(Last(candles)) <= cutoff
    BY <2>3, CandlesHadClosed DEF candles
  <2>5. CloseOf(Last(candles)) \in Nat
    BY <2>3, MarketDataAssumption DEF CloseOf, Rows
  <2> QED BY <2>2, <2>4, <2>5
<1> QED BY <1>2, <1>3, <1>4, <1>5

-----------------------------------------------------------------------------
(* Health.                                                                 *)

HealthStates == {"HEALTHY", "UNKNOWN", "DEGRADED", "FAILING"}

Entries == [event : Conditions, at : Nat]

\* Every component is as bad as the worst that was seen of it.
HealthTold(s) ==
    /\ s.health \in [Components -> HealthStates]
    /\ \A component \in Components : s.health[component] = Verdict(FloorsOf(s, component))

\* An event makes a component as bad as its floor, and no better.
LEMMA HealthMoves ==
    ASSUME NEW s, NEW t, NEW e, e.component \in Components, e.severity \in Levels,
           HealthTold(s), t.health = Transitioned(s.health, e),
           \A c \in Components :
              FloorsOf(t, c) = FloorsOf(s, c)
                                 \union (IF c = e.component THEN {Floor[e.severity]} ELSE {})
    PROVE  HealthTold(t)
<1> DEFINE floor == Floor[e.severity]
           F(c) == FloorsOf(s, c)
           G(c) == FloorsOf(t, c)
<1>1. floor \in {"HEALTHY", "DEGRADED", "FAILING"}
  BY FloorType
<1>2. /\ s.health \in [Components -> HealthStates]
      /\ \A c \in Components : s.health[c] = Verdict(F(c))
  BY DEF HealthTold
<1>3. t.health = [s.health EXCEPT ![e.component] = WorseOf(@, floor)]
  BY DEF Transitioned
<1>4. \A c \in Components : G(c) = F(c) \union (IF c = e.component THEN {floor} ELSE {})
  OBVIOUS
<1> HIDE DEF floor, F, G
<1>5. WorseOf(Verdict(F(e.component)), floor) = Verdict(G(e.component))
  <2>1. G(e.component) = F(e.component) \union {floor}
    BY <1>4
  <2> QED BY <1>1, <2>1 DEF WorseOf, Verdict, Rank
<1>6. \A c \in Components : t.health[c] = Verdict(G(c))
  <2>1. \A c \in Components : c # e.component => G(c) = F(c) \/ G(c) = F(c) \union {}
    BY <1>4
  <2>2. ASSUME NEW c \in Components PROVE t.health[c] = Verdict(G(c))
    <3>1. CASE c = e.component
      BY <1>2, <1>3, <1>5, <3>1
    <3>2. CASE c # e.component
      <4>1. G(c) = F(c) /\ t.health[c] = s.health[c]
        BY <1>2, <1>3, <2>1, <3>2
      <4> QED BY <1>2, <4>1
    <3> QED BY <3>1, <3>2
  <2> QED BY <2>2
<1>7. t.health \in [Components -> HealthStates]
  <2>1. WorseOf(s.health[e.component], floor) \in HealthStates
    BY <1>1, <1>2 DEF WorseOf, HealthStates
  <2> QED BY <1>2, <1>3, <2>1
<1> QED BY <1>6, <1>7 DEF HealthTold, G

\* A recorded event adds its floor to those of its component.
LEMMA LogFloors ==
    ASSUME NEW s, NEW t, NEW entry \in Entries, s.log \in Seq(Entries),
           t.log = Append(s.log, entry), t.dropped = s.dropped, t.selfFailures = s.selfFailures
    PROVE  \A c \in Components :
              FloorsOf(t, c) = FloorsOf(s, c)
                 \union (IF c = entry.event.component THEN {Floor[entry.event.severity]} ELSE {})
<1> DEFINE n == Len(s.log)
           L(i) == Floor[t.log[i].event.severity]
           C(i) == t.log[i].event.component
<1>1. /\ n \in Nat /\ DOMAIN t.log = 1 .. n + 1 /\ DOMAIN s.log = 1 .. n
      /\ t.log[n + 1] = entry /\ \A i \in 1 .. n : t.log[i] = s.log[i]
  OBVIOUS
<1>2. \A i : i \in 1 .. n + 1 <=> i \in 1 .. n \/ i = n + 1
  BY <1>1
<1> TAKE c \in Components
<1> DEFINE old == {Floor[s.log[i].event.severity] :
                      i \in {j \in DOMAIN s.log : s.log[j].event.component = c}}
           new == {Floor[t.log[i].event.severity] :
                      i \in {j \in DOMAIN t.log : t.log[j].event.component = c}}
           own == (IF c = "MONITORING" /\ s.dropped > 0 THEN {"DEGRADED"} ELSE {})
                    \union (IF c = "MONITORING" /\ s.selfFailures > 0 THEN {"FAILING"} ELSE {})
           more == IF c = entry.event.component THEN {Floor[entry.event.severity]} ELSE {}
<1>3. old = {L(i) : i \in {j \in 1 .. n : C(j) = c}}
  BY <1>1
<1>4. new = {L(i) : i \in {j \in 1 .. n + 1 : C(j) = c}}
  BY <1>1
<1>5. L(n + 1) = Floor[entry.event.severity] /\ C(n + 1) = entry.event.component
  BY <1>1
<1>6. new = old \union more
  <2> HIDE DEF L, C, n, old, new
  <2> QED BY <1>2, <1>3, <1>4, <1>5
<1>7. FloorsOf(s, c) = old \union own /\ FloorsOf(t, c) = new \union own
  BY DEF FloorsOf
<1> HIDE DEF old, new, own, more
<1>8. FloorsOf(t, c) = FloorsOf(s, c) \union more
  BY <1>6, <1>7
<1> QED BY <1>8 DEF more

\* So does an event of the session's own, of which only the number is kept.
LEMMA OwnFloors ==
    ASSUME NEW s, NEW t, t.log = s.log, s.dropped \in Nat, s.selfFailures \in Nat,
           NEW code \in Own,
           t.dropped = IF code = "MONITOR_OBSERVATION_DROPPED" THEN s.dropped + 1 ELSE s.dropped,
           t.selfFailures = IF code = "MONITOR_INTERNAL_FAILURE" THEN s.selfFailures + 1
                            ELSE s.selfFailures
    PROVE  \A c \in Components :
              FloorsOf(t, c) = FloorsOf(s, c)
                 \union (IF c = "MONITORING" THEN {Floor[Severity[code]]} ELSE {})
<1>1. /\ code = "MONITOR_OBSERVATION_DROPPED" => Floor[Severity[code]] = "DEGRADED"
      /\ code = "MONITOR_INTERNAL_FAILURE" => Floor[Severity[code]] = "FAILING"
  BY DEF Floor, Severity
<1> TAKE c \in Components
<1> DEFINE old == {Floor[s.log[i].event.severity] :
                      i \in {j \in DOMAIN s.log : s.log[j].event.component = c}}
<1>2. /\ FloorsOf(s, c) = old
            \union (IF c = "MONITORING" /\ s.dropped > 0 THEN {"DEGRADED"} ELSE {})
            \union (IF c = "MONITORING" /\ s.selfFailures > 0 THEN {"FAILING"} ELSE {})
      /\ FloorsOf(t, c) = old
            \union (IF c = "MONITORING" /\ t.dropped > 0 THEN {"DEGRADED"} ELSE {})
            \union (IF c = "MONITORING" /\ t.selfFailures > 0 THEN {"FAILING"} ELSE {})
  BY DEF FloorsOf
<1> HIDE DEF old
<1>3. CASE code = "MONITOR_OBSERVATION_DROPPED"
  <2>1. t.dropped > 0 /\ t.selfFailures = s.selfFailures
    BY <1>3
  <2> QED BY <1>1, <1>2, <1>3, <2>1
<1>4. CASE code = "MONITOR_INTERNAL_FAILURE"
  <2>1. t.selfFailures > 0 /\ t.dropped = s.dropped
    BY <1>4
  <2> QED BY <1>1, <1>2, <1>4, <2>1
<1> QED BY <1>3, <1>4 DEF Own

-----------------------------------------------------------------------------
(* The session.                                                            *)

Lost    == Event("MONITORING", "MONITOR_OBSERVATION_DROPPED", <<>>)
Failure == Event("MONITORING", "MONITOR_INTERNAL_FAILURE", <<>>)

\* An aggregate that its constructor accepts.
Ranges == {a \in [count : Nat \ {0}, first : Nat, last : Nat] : a.first <= a.last}

\* A session by its fields.
Made(a, h, q, r, m, o, d, f, z, p, l) ==
    [startedAt |-> a, health |-> h, quarantined |-> q, retained |-> r, metrics |-> m,
     observed |-> o, dropped |-> d, selfFailures |-> f, ended |-> z, reports |-> p, log |-> l]

IsSession(s) ==
    s = Made(s.startedAt, s.health, s.quarantined, s.retained, s.metrics, s.observed, s.dropped,
             s.selfFailures, s.ended, s.reports, s.log)

\* The session's own events are counted as often as they happened.
OwnCounted(s) ==
    /\ DOMAIN s.quarantined \subseteq {Lost, Failure}
    /\ \A e \in DOMAIN s.quarantined : s.quarantined[e] \in Ranges
    /\ CountIn(s.quarantined, Lost) = s.dropped
    /\ CountIn(s.quarantined, Failure) = s.selfFailures

\* What is retained is what was recorded first, and the rest is counted as dropped.
Retains(s) ==
    /\ s.log \in Seq(Entries) /\ s.retained \in Seq(Entries)
    /\ s.dropped \in Nat /\ s.selfFailures \in Nat
    /\ s.observed = Len(s.log) /\ Len(s.retained) = Len(s.log) - s.dropped
    /\ \A i \in 1 .. Len(s.retained) : s.retained[i] = s.log[i]
    /\ s.dropped > 0 => Len(s.retained) >= MaxEventsPerRun

SessionOK(s) ==
    IsSession(s) /\ s.startedAt \in Nat /\ Retains(s) /\ OwnCounted(s) /\ HealthTold(s)

\* The two events are different, and neither is a condition of others.
LEMMA OwnEvents ==
    /\ Lost # Failure /\ Lost \notin Conditions /\ Failure \notin Conditions
    /\ Lost.component = "MONITORING" /\ Lost.severity = "WARNING" /\ Lost.code \in Own
    /\ Failure.component = "MONITORING" /\ Failure.severity = "CRITICAL" /\ Failure.code \in Own
    /\ Lost.code = "MONITOR_OBSERVATION_DROPPED" /\ Failure.code = "MONITOR_INTERNAL_FAILURE"
BY DEF Lost, Failure, Event, Severity, Own, Conditions

\* One more of an event widens its aggregate and keeps the others.
LEMMA AdvancedIs ==
    ASSUME NEW aggregates, \A e \in DOMAIN aggregates : aggregates[e] \in Ranges,
           NEW event, NEW at \in Nat
    PROVE  LET more == Advanced(aggregates, event, at)
           IN  /\ DOMAIN more = DOMAIN aggregates \union {event}
               /\ \A e \in DOMAIN more : more[e] \in Ranges
               /\ CountIn(more, event) = CountIn(aggregates, event) + 1
               /\ \A e : e # event => CountIn(more, e) = CountIn(aggregates, e)
               /\ more[event].first <= at /\ at <= more[event].last
               /\ \A e \in DOMAIN aggregates : more[e].first <= aggregates[e].first
                                               /\ aggregates[e].last <= more[e].last
<1> DEFINE more == Advanced(aggregates, event, at)
           one == FromEvent(at)
           D == DOMAIN aggregates
           val(known) == IF known # event THEN aggregates[known]
                         ELSE IF event \in D THEN Merged(aggregates[event], one) ELSE one
<1>1. more = [known \in D \union {event} |-> val(known)]
  BY DEF Advanced
<1>2. one = [count |-> 1, first |-> at, last |-> at] /\ one \in Ranges
  BY DEF FromEvent, Ranges
<1>3. ASSUME NEW a \in Ranges
      PROVE  /\ Merged(a, one) \in Ranges /\ Merged(a, one).count = a.count + 1
             /\ Merged(a, one).first <= at /\ at <= Merged(a, one).last
             /\ Merged(a, one).first <= a.first /\ a.last <= Merged(a, one).last
  <2> HIDE DEF one
  <2>1. /\ one.count = 1 /\ one.first = at /\ one.last = at
        /\ a.count \in Nat \ {0} /\ a.first \in Nat /\ a.last \in Nat /\ a.first <= a.last
    BY <1>2 DEF Ranges
  <2>2. Merged(a, one) = [count |-> a.count + 1, first |-> IF a.first <= at THEN a.first ELSE at,
                          last |-> IF a.last >= at THEN a.last ELSE at]
    BY <2>1 DEF Merged
  <2> QED BY <2>1, <2>2 DEF Ranges
<1> HIDE DEF one
<1>4. /\ \A e : e # event => val(e) = aggregates[e]
      /\ event \in D => val(event) = Merged(aggregates[event], one)
      /\ event \notin D => val(event) = one
  OBVIOUS
<1> HIDE DEF val
<1>5. DOMAIN more = D \union {event} /\ \A e \in D \union {event} : more[e] = val(e)
  BY <1>1
<1> HIDE DEF more
<1>6. \A e \in D \union {event} : more[e] \in Ranges
  <2>1. \A e \in D : aggregates[e] \in Ranges
    OBVIOUS
  <2> QED BY <1>2, <1>3, <1>4, <1>5, <2>1
<1>7. CountIn(more, event) = CountIn(aggregates, event) + 1
  <2>1. CASE event \in D
    <3>1. aggregates[event] \in Ranges /\ more[event] = Merged(aggregates[event], one)
      BY <1>4, <1>5, <2>1
    <3> QED BY <1>3, <1>5, <2>1, <3>1 DEF CountIn
  <2>2. CASE event \notin D
    BY <1>2, <1>4, <1>5, <2>2 DEF CountIn
  <2> QED BY <2>1, <2>2
<1>8. \A e : e # event => CountIn(more, e) = CountIn(aggregates, e)
  BY <1>4, <1>5 DEF CountIn
<1>9. more[event].first <= at /\ at <= more[event].last
  <2>1. CASE event \in D
    BY <1>3, <1>4, <1>5, <2>1
  <2>2. CASE event \notin D
    BY <1>2, <1>4, <1>5, <2>2
  <2> QED BY <2>1, <2>2
<1>10. ASSUME NEW e \in D
       PROVE  more[e].first <= aggregates[e].first /\ aggregates[e].last <= more[e].last
  <2>1. aggregates[e] \in Ranges
    OBVIOUS
  <2>2. aggregates[e].first \in Nat /\ aggregates[e].last \in Nat
    BY <2>1 DEF Ranges
  <2>3. CASE e = event
    BY <1>3, <1>4, <1>5, <2>1, <2>3
  <2>4. CASE e # event
    BY <1>4, <1>5, <2>2, <2>4
  <2> QED BY <2>3, <2>4
<1> QED BY <1>5, <1>6, <1>7, <1>8, <1>9, <1>10 DEF more

\* What happens to a session at a defect of the session's own.
LEMMA QuarantinedFields ==
    ASSUME NEW a, NEW h, NEW q, NEW r, NEW m, NEW o, NEW d, NEW f, NEW z, NEW p, NEW l, NEW code
    PROVE  LET own == Event("MONITORING", code, <<>>)
           IN  Quarantined(Made(a, h, q, r, m, o, d, f, z, p, l), code) =
                  Made(a, Transitioned(h, own), Advanced(q, own, now), r, m, o, d, f, z, p, l)
<1> DEFINE s == Made(a, h, q, r, m, o, d, f, z, p, l)
           own == Event("MONITORING", code, <<>>)
           x == Transitioned(h, own)
           y == Advanced(q, own, now)
           t == Made(a, x, q, r, m, o, d, f, z, p, l)
<1>1. s.health = h /\ s.quarantined = q
  BY DEF Made
<1>2. Quarantined(s, code) = [s EXCEPT !.health = Transitioned(@, own),
                                       !.quarantined = Advanced(@, own, now)]
  BY DEF Quarantined
<1>3. [s EXCEPT !.health = x] = t
  <2> HIDE DEF x
  <2> QED BY DEF Made
<1>4. [t EXCEPT !.quarantined = y] = Made(a, x, y, r, m, o, d, f, z, p, l)
  <2> HIDE DEF x, y
  <2> QED BY DEF Made
<1> HIDE DEF s, own, t
<1>5. Quarantined(s, code) = [s EXCEPT !.health = x, !.quarantined = y]
  BY <1>1, <1>2
<1> HIDE DEF x, y
<1>6. Quarantined(s, code) = [[s EXCEPT !.health = x] EXCEPT !.quarantined = y]
  BY <1>5
<1>7. Quarantined(s, code) = Made(a, x, y, r, m, o, d, f, z, p, l)
  BY <1>3, <1>4, <1>6
<1> QED BY <1>7 DEF s, x, y, own

\* What recording an event makes of a session: it is seen, it is retained unless the session is
\* full, and what is lost, or raised at, is told.
LEMMA RecordedFields ==
    ASSUME NEW a, NEW h, NEW q, NEW r, NEW m, NEW o, NEW d, NEW f, NEW z, NEW p, NEW l,
           NEW e, NEW at, NEW raises \in BOOLEAN
    PROVE  LET s == Made(a, h, q, r, m, o, d, f, z, p, l)
               t == Recorded(s, e, at, raises)
               one  == Transitioned(h, e)
               entry == [event |-> e, at |-> at]
               full == Len(r) >= MaxEventsPerRun
           IN  /\ full =>
                     t = Made(a, Transitioned(one, Lost), Advanced(q, Lost, now), r, m, o + 1,
                              d + 1, f, z, p, Append(l, entry))
               /\ ~ full /\ ~ raises =>
                     t = Made(a, one, q, Append(r, entry), m, o + 1, d, f, z, p, Append(l, entry))
               /\ ~ full /\ raises =>
                     t = Made(a, Transitioned(one, Failure), Advanced(q, Failure, now),
                              Append(r, entry), m, o + 1, d, f + 1, z, p, Append(l, entry))
<1> DEFINE s == Made(a, h, q, r, m, o, d, f, z, p, l)
           t == Recorded(s, e, at, raises)
           entry == [event |-> e, at |-> at]
           full == Len(r) >= MaxEventsPerRun
           one == Transitioned(h, e)
           more == o + 1
           gone == d + 1
           failed == f + 1
           log == Append(l, entry)
           kept == Append(r, entry)
           seen == Made(a, one, q, r, m, more, d, f, z, p, log)
           all == Made(a, one, q, kept, m, more, d, f, z, p, log)
           some == Made(a, one, q, r, m, more, gone, f, z, p, log)
           made == [s EXCEPT !.observed = @ + 1, !.health = Transitioned(@, e),
                             !.log = Append(@, entry)]
<1>1. made = seen
  <2>1. s.observed = o /\ s.health = h /\ s.log = l
    BY DEF Made
  <2> HIDE DEF s, entry
  <2>2. made = [s EXCEPT !.observed = more, !.health = one, !.log = log]
    BY <2>1
  <2> HIDE DEF more, one, log, made
  <2>3. made = [[[s EXCEPT !.observed = more] EXCEPT !.health = one] EXCEPT !.log = log]
    BY <2>2
  <2> DEFINE s1 == Made(a, h, q, r, m, more, d, f, z, p, l)
             s2 == Made(a, one, q, r, m, more, d, f, z, p, l)
  <2>4. [s EXCEPT !.observed = more] = s1
    BY DEF Made, s
  <2>5. [s1 EXCEPT !.health = one] = s2
    BY DEF Made
  <2>6. [s2 EXCEPT !.log = log] = seen
    BY DEF Made
  <2> HIDE DEF s1, s2, seen
  <2> QED BY <2>3, <2>4, <2>5, <2>6
<1>2. s.retained = r /\ seen.retained = r /\ seen.dropped = d
  <2> HIDE DEF one, log, more
  <2> QED BY DEF Made
<1>3. [seen EXCEPT !.retained = kept] = all /\ [seen EXCEPT !.dropped = gone] = some
  <2> HIDE DEF one, log, more, kept, gone
  <2> QED BY DEF Made
<1>4. t = IF full THEN Quarantined([made EXCEPT !.dropped = @ + 1], "MONITOR_OBSERVATION_DROPPED")
          ELSE Forwarded([made EXCEPT !.retained = Append(@, entry)], raises)
  <2>1. Recorded(s, e, at, raises) =
           IF Len(s.retained) >= MaxEventsPerRun
           THEN Quarantined([made EXCEPT !.dropped = @ + 1], "MONITOR_OBSERVATION_DROPPED")
           ELSE Forwarded([made EXCEPT !.retained = Append(@, entry)], raises)
    <3> HIDE DEF s
    <3> QED BY DEF Recorded
  <2> HIDE DEF s, entry, made
  <2> QED BY <1>2, <2>1 DEF full
<1> HIDE DEF s, t, made
<1>5. full => t = Quarantined([seen EXCEPT !.dropped = gone], "MONITOR_OBSERVATION_DROPPED")
  <2> HIDE DEF seen
  <2> QED BY <1>1, <1>2, <1>4
<1>6. ~ full => t = Forwarded([seen EXCEPT !.retained = kept], raises)
  <2> HIDE DEF seen, entry
  <2> QED BY <1>1, <1>2, <1>4
<1> HIDE DEF one, log, more, kept, gone, failed, full
<1>7. full => t = Made(a, Transitioned(one, Lost), Advanced(q, Lost, now), r, m, more, gone, f,
                       z, p, log)
  <2>1. Quarantined(some, "MONITOR_OBSERVATION_DROPPED") =
           Made(a, Transitioned(one, Lost), Advanced(q, Lost, now), r, m, more, gone, f, z, p, log)
    BY QuarantinedFields DEF Lost
  <2> HIDE DEF some, seen
  <2> QED BY <1>3, <1>5, <2>1
<1>8. ~ full /\ ~ raises => t = all
  <2> SUFFICES ASSUME ~ full, ~ raises PROVE t = all
    OBVIOUS
  <2>1. Forwarded(all, FALSE) = all
    BY DEF Forwarded
  <2> HIDE DEF all, seen
  <2>2. t = Forwarded(all, FALSE)
    BY <1>3, <1>6
  <2> QED BY <2>1, <2>2
<1>9. ~ full /\ raises =>
         t = Made(a, Transitioned(one, Failure), Advanced(q, Failure, now), kept, m, more, d,
                  failed, z, p, log)
  <2> SUFFICES ASSUME ~ full, raises
               PROVE  t = Made(a, Transitioned(one, Failure), Advanced(q, Failure, now), kept, m,
                               more, d, failed, z, p, log)
    OBVIOUS
  <2> DEFINE bad == Made(a, one, q, kept, m, more, d, failed, z, p, log)
  <2>1. Forwarded(all, TRUE) =
           Made(a, Transitioned(one, Failure), Advanced(q, Failure, now), kept, m, more, d,
                failed, z, p, log)
    <3>1. all.selfFailures = f
      BY DEF Made
    <3>2. [all EXCEPT !.selfFailures = failed] = bad
      BY DEF Made
    <3> HIDE DEF all
    <3>3. [all EXCEPT !.selfFailures = @ + 1] = [all EXCEPT !.selfFailures = failed]
      BY <3>1 DEF failed
    <3>4. Forwarded(all, TRUE) = Quarantined([all EXCEPT !.selfFailures = failed],
                                             "MONITOR_INTERNAL_FAILURE")
      BY <3>3 DEF Forwarded
    <3>5. Quarantined(bad, "MONITOR_INTERNAL_FAILURE") =
             Made(a, Transitioned(one, Failure), Advanced(q, Failure, now), kept, m, more, d,
                  failed, z, p, log)
      BY QuarantinedFields DEF Failure
    <3> HIDE DEF bad
    <3> QED BY <3>2, <3>4, <3>5
  <2> HIDE DEF all, seen
  <2>2. t = Forwarded(all, TRUE)
    BY <1>3, <1>6
  <2> QED BY <2>1, <2>2
<1> QED BY <1>7, <1>8, <1>9 DEF one, log, more, kept, gone, failed, full, t, s

\* The fields of a session are what it was made of.
LEMMA MadeIs ==
    ASSUME NEW a, NEW h, NEW q, NEW r, NEW m, NEW o, NEW d, NEW f, NEW z, NEW p, NEW l, NEW s,
           s = Made(a, h, q, r, m, o, d, f, z, p, l)
    PROVE  /\ IsSession(s) /\ s.startedAt = a /\ s.health = h /\ s.quarantined = q
           /\ s.retained = r /\ s.metrics = m /\ s.observed = o /\ s.dropped = d
           /\ s.selfFailures = f /\ s.ended = z /\ s.reports = p /\ s.log = l
<1>1. /\ s.startedAt = a /\ s.health = h /\ s.quarantined = q
      /\ s.retained = r /\ s.metrics = m /\ s.observed = o /\ s.dropped = d
      /\ s.selfFailures = f /\ s.ended = z /\ s.reports = p /\ s.log = l
  BY DEF Made
<1> QED BY <1>1 DEF IsSession

\* A session that tells of a defect of its own, counts it once.
LEMMA OwnCountedOnce ==
    ASSUME NEW s, NEW t, OwnCounted(s), s.dropped \in Nat, s.selfFailures \in Nat, now \in Nat,
           NEW own \in {Lost, Failure}, t.quarantined = Advanced(s.quarantined, own, now),
           t.dropped = IF own = Lost THEN s.dropped + 1 ELSE s.dropped,
           t.selfFailures = IF own = Failure THEN s.selfFailures + 1 ELSE s.selfFailures
    PROVE  OwnCounted(t)
<1> DEFINE q == s.quarantined
           more == Advanced(q, own, now)
<1>1. /\ DOMAIN q \subseteq {Lost, Failure} /\ \A e \in DOMAIN q : q[e] \in Ranges
      /\ CountIn(q, Lost) = s.dropped /\ CountIn(q, Failure) = s.selfFailures
  BY DEF OwnCounted
<1> HIDE DEF q
<1>2. /\ DOMAIN more = DOMAIN q \union {own} /\ \A e \in DOMAIN more : more[e] \in Ranges
      /\ CountIn(more, own) = CountIn(q, own) + 1
      /\ \A e : e # own => CountIn(more, e) = CountIn(q, e)
  <2>1. \A e \in DOMAIN q : q[e] \in Ranges
    BY <1>1
  <2> DEFINE at == now
  <2>2. at \in Nat
    OBVIOUS
  <2> HIDE DEF at
  <2>3. DOMAIN Advanced(q, own, at) = DOMAIN q \union {own}
    BY <2>1, <2>2, AdvancedIs
  <2>4. \A e \in DOMAIN Advanced(q, own, at) : Advanced(q, own, at)[e] \in Ranges
    BY <2>1, <2>2, AdvancedIs
  <2>5. CountIn(Advanced(q, own, at), own) = CountIn(q, own) + 1
    BY <2>1, <2>2, AdvancedIs
  <2>6. ASSUME NEW e, e # own PROVE CountIn(Advanced(q, own, at), e) = CountIn(q, e)
    BY <2>6 DEF Advanced, CountIn
  <2> QED BY <2>3, <2>4, <2>5, <2>6 DEF at
<1>3. t.quarantined = more
  BY DEF q
<1> HIDE DEF more
<1>4. CountIn(more, Lost) = t.dropped /\ CountIn(more, Failure) = t.selfFailures
  <2>1. Lost # Failure
    BY OwnEvents
  <2>2. CASE own = Lost
    BY <1>1, <1>2, <2>1, <2>2
  <2>3. CASE own = Failure
    BY <1>1, <1>2, <2>1, <2>3
  <2> QED BY <2>2, <2>3
<1> QED BY <1>1, <1>2, <1>3, <1>4 DEF OwnCounted

\* Telling of it moves the health of the monitoring component alone.
LEMMA OwnTold ==
    ASSUME NEW s, NEW t, HealthTold(s), s.dropped \in Nat, s.selfFailures \in Nat,
           NEW own \in {Lost, Failure}, t.health = Transitioned(s.health, own), t.log = s.log,
           t.dropped = IF own = Lost THEN s.dropped + 1 ELSE s.dropped,
           t.selfFailures = IF own = Failure THEN s.selfFailures + 1 ELSE s.selfFailures
    PROVE  HealthTold(t)
<1> DEFINE code == own.code
<1>1. /\ own.component = "MONITORING" /\ own.component \in Components /\ own.severity \in Levels
      /\ code \in Own /\ own.severity = Severity[code]
      /\ own = Lost <=> code = "MONITOR_OBSERVATION_DROPPED"
      /\ own = Failure <=> code = "MONITOR_INTERNAL_FAILURE"
  BY OwnEvents DEF Components, Levels, Severity
<1> HIDE DEF code
<1>2. \A c \in Components :
         FloorsOf(t, c) = FloorsOf(s, c)
            \union (IF c = "MONITORING" THEN {Floor[Severity[code]]} ELSE {})
  BY <1>1, OwnFloors
<1>3. \A c \in Components :
         FloorsOf(t, c) = FloorsOf(s, c)
            \union (IF c = own.component THEN {Floor[own.severity]} ELSE {})
  BY <1>1, <1>2
<1> QED BY <1>1, <1>3, HealthMoves

\* Recording keeps a session's books.
LEMMA RecordedType ==
    ASSUME NEW s, SessionOK(s), now \in Nat, NEW e \in Conditions, NEW at \in Nat,
           NEW raises \in BOOLEAN
    PROVE  LET t == Recorded(s, e, at, raises)
           IN  /\ SessionOK(t) /\ t.log = Append(s.log, [event |-> e, at |-> at])
               /\ t.startedAt = s.startedAt /\ t.ended = s.ended /\ t.reports = s.reports
               /\ t.metrics = s.metrics
<1> DEFINE t == Recorded(s, e, at, raises)
           a == s.startedAt
           h == s.health
           q == s.quarantined
           r == s.retained
           m == s.metrics
           o == s.observed
           d == s.dropped
           f == s.selfFailures
           z == s.ended
           p == s.reports
           l == s.log
           full == Len(r) >= MaxEventsPerRun
           one == Transitioned(h, e)
           entry == [event |-> e, at |-> at]
           log == Append(l, entry)
           kept == Append(r, entry)
           u == Made(a, one, q, r, m, o + 1, d, f, z, p, log)
           lost == Made(a, Transitioned(one, Lost), Advanced(q, Lost, now), r, m, o + 1,
                        d + 1, f, z, p, log)
           quiet == Made(a, one, q, kept, m, o + 1, d, f, z, p, log)
           failed == Made(a, Transitioned(one, Failure), Advanced(q, Failure, now), kept, m,
                          o + 1, d, f + 1, z, p, log)
<1>1. s = Made(a, h, q, r, m, o, d, f, z, p, l)
  BY DEF SessionOK, IsSession
<1>2. /\ l \in Seq(Entries) /\ r \in Seq(Entries) /\ d \in Nat /\ f \in Nat
      /\ o = Len(l) /\ Len(r) = Len(l) - d /\ \A i \in 1 .. Len(r) : r[i] = l[i]
      /\ d > 0 => full
      /\ OwnCounted(s) /\ HealthTold(s) /\ a \in Nat
  BY DEF SessionOK, Retains
<1>3. MaxEventsPerRun \in Nat \ {0} /\ entry \in Entries
  BY MonitoringAssumption DEF Entries
<1>4. /\ full => t = lost
      /\ ~ full /\ ~ raises => t = quiet
      /\ ~ full /\ raises => t = failed
  <2> HIDE DEF a, h, q, r, m, o, d, f, z, p, l
  <2> QED BY <1>1, RecordedFields
<1> HIDE DEF a, h, q, r, m, o, d, f, z, p, l, t, one, entry
<1>5. /\ log \in Seq(Entries) /\ kept \in Seq(Entries) /\ Len(log) = Len(l) + 1
      /\ Len(kept) = Len(r) + 1
      /\ \A i \in 1 .. Len(l) : log[i] = l[i]
      /\ \A i \in 1 .. Len(r) : kept[i] = r[i]
  <2>1. /\ log \in Seq(Entries) /\ Len(log) = Len(l) + 1
        /\ \A i \in 1 .. Len(l) : log[i] = l[i]
    BY <1>2, <1>3
  <2>2. /\ kept \in Seq(Entries) /\ Len(kept) = Len(r) + 1
        /\ \A i \in 1 .. Len(r) : kept[i] = r[i]
    BY <1>2, <1>3
  <2> QED BY <2>1, <2>2
<1>10. ASSUME Len(l) = Len(r) PROVE log[Len(r) + 1] = kept[Len(r) + 1]
  BY <1>2, <1>3, <1>10
<1>6. HealthTold(u) /\ u.dropped = d /\ u.selfFailures = f /\ u.health = one /\ u.log = log
      /\ u.quarantined = q
  <2>1. u.dropped = d /\ u.selfFailures = f /\ u.health = one /\ u.log = log
        /\ u.quarantined = q
    <3> HIDE DEF log
    <3> QED BY MadeIs
  <2> HIDE DEF u
  <2>2. e.component \in Components /\ e.severity \in Levels /\ entry.event = e
    BY DEF Conditions, entry
  <2>3. \A c \in Components :
           FloorsOf(u, c) = FloorsOf(s, c)
              \union (IF c = entry.event.component THEN {Floor[entry.event.severity]} ELSE {})
    <3>1. /\ entry \in Entries /\ s.log \in Seq(Entries) /\ u.log = Append(s.log, entry)
          /\ u.dropped = s.dropped /\ u.selfFailures = s.selfFailures
      BY <1>2, <1>3, <2>1 DEF l, d, f
    <3> QED BY <3>1, LogFloors
  <2>4. u.health = Transitioned(s.health, e)
    BY <2>1 DEF one, h
  <2>5. HealthTold(u)
    BY <1>2, <2>2, <2>3, <2>4, HealthMoves
  <2> QED BY <2>1, <2>5
<1> HIDE DEF u, log, kept, full
<1>7. CASE full
  <2>1. t = lost
    BY <1>4, <1>7
  <2>2. /\ IsSession(t) /\ t.startedAt = a /\ t.health = Transitioned(one, Lost)
        /\ t.quarantined = Advanced(q, Lost, now) /\ t.retained = r /\ t.metrics = m
        /\ t.observed = o + 1 /\ t.dropped = d + 1 /\ t.selfFailures = f /\ t.ended = z
        /\ t.reports = p /\ t.log = log
    BY <2>1, MadeIs
  <2> HIDE DEF lost
  <2>3. Lost # Failure
    BY OwnEvents
  <2>4. HealthTold(t)
    BY <1>2, <1>6, <2>2, <2>3, OwnTold
  <2>5. OwnCounted(t)
    BY <1>2, <2>2, <2>3, OwnCountedOnce DEF q, d, f
  <2>6. Retains(t)
    <3>1. t.log \in Seq(Entries) /\ t.retained \in Seq(Entries) /\ t.dropped \in Nat
          /\ t.selfFailures \in Nat /\ t.observed = Len(t.log)
      BY <1>2, <1>5, <2>2
    <3>2. Len(t.retained) = Len(t.log) - t.dropped
      <4>1. Len(l) \in Nat /\ Len(r) \in Nat
        BY <1>2
      <4>2. /\ Len(t.retained) = Len(r) /\ Len(t.log) = Len(l) + 1 /\ t.dropped = d + 1
        BY <1>5, <2>2
      <4>3. Len(r) = Len(l) - d /\ d \in Nat
        BY <1>2
      <4> QED BY <1>5, <4>1, <4>2, <4>3
    <3>3. \A i \in 1 .. Len(t.retained) : t.retained[i] = t.log[i]
      <4>1. Len(l) \in Nat /\ Len(r) \in Nat /\ Len(r) <= Len(l)
        BY <1>2
      <4>2. \A i \in 1 .. Len(r) : i \in 1 .. Len(l)
        BY <4>1
      <4>3. \A i \in 1 .. Len(r) : r[i] = log[i]
        BY <1>2, <1>5, <4>2
      <4> QED BY <2>2, <4>3
    <3>4. t.dropped > 0 => Len(t.retained) >= MaxEventsPerRun
      BY <1>2, <1>3, <1>5, <1>7, <2>2 DEF full
    <3> QED BY <3>1, <3>2, <3>3, <3>4 DEF Retains
  <2> QED BY <1>2, <2>2, <2>4, <2>5, <2>6 DEF SessionOK, t, log, a, z, p, m, l, entry
<1>8. CASE ~ full /\ ~ raises
  <2>1. t = quiet
    BY <1>4, <1>8
  <2>2. /\ IsSession(t) /\ t.startedAt = a /\ t.health = one
        /\ t.quarantined = q /\ t.retained = kept /\ t.metrics = m
        /\ t.observed = o + 1 /\ t.dropped = d /\ t.selfFailures = f /\ t.ended = z
        /\ t.reports = p /\ t.log = log
    BY <2>1, MadeIs
  <2> HIDE DEF quiet
  <2>4. HealthTold(t)
    <3>1. \A c \in Components : FloorsOf(t, c) = FloorsOf(u, c)
      BY <1>6, <2>2 DEF FloorsOf
    <3> QED BY <1>6, <2>2, <3>1 DEF HealthTold
  <2>5. OwnCounted(t)
    BY <1>2, <2>2 DEF OwnCounted, q, d, f
  <2>6. Retains(t)
    <3>1. t.log \in Seq(Entries) /\ t.retained \in Seq(Entries) /\ t.dropped \in Nat
          /\ t.selfFailures \in Nat /\ t.observed = Len(t.log)
      BY <1>2, <1>5, <2>2
    <3>2. Len(t.retained) = Len(t.log) - t.dropped
      <4>1. Len(l) \in Nat /\ Len(r) \in Nat
        BY <1>2
      <4>2. /\ Len(t.retained) = Len(kept) /\ Len(t.log) = Len(l) + 1 /\ t.dropped = d
        BY <1>5, <2>2
      <4>3. Len(r) = Len(l) - d /\ d \in Nat
        BY <1>2
      <4> QED BY <1>5, <4>1, <4>2, <4>3
    <3>3. \A i \in 1 .. Len(t.retained) : t.retained[i] = t.log[i]
      <4>1. Len(l) \in Nat /\ Len(r) = Len(l)
        BY <1>2, <1>8
      <4>2. \A i \in 1 .. Len(r) : kept[i] = log[i]
        BY <1>2, <1>5, <4>1
      <4>3. \A i : i \in 1 .. Len(r) + 1 <=> i \in 1 .. Len(r) \/ i = Len(r) + 1
        BY <4>1
      <4>4. \A i \in 1 .. Len(r) + 1 : kept[i] = log[i]
        <5>1. kept[Len(r) + 1] = log[Len(r) + 1]
          BY <1>10, <4>1
        <5> QED BY <4>2, <4>3, <5>1
      <4> QED BY <1>5, <2>2, <4>4
    <3>4. t.dropped > 0 => Len(t.retained) >= MaxEventsPerRun
      BY <1>2, <1>3, <1>5, <1>8, <2>2 DEF full
    <3> QED BY <3>1, <3>2, <3>3, <3>4 DEF Retains
  <2> QED BY <1>2, <2>2, <2>4, <2>5, <2>6 DEF SessionOK, t, log, a, z, p, m, l, entry
<1>9. CASE ~ full /\ raises
  <2>1. t = failed
    BY <1>4, <1>9
  <2>2. /\ IsSession(t) /\ t.startedAt = a /\ t.health = Transitioned(one, Failure)
        /\ t.quarantined = Advanced(q, Failure, now) /\ t.retained = kept /\ t.metrics = m
        /\ t.observed = o + 1 /\ t.dropped = d /\ t.selfFailures = f + 1 /\ t.ended = z
        /\ t.reports = p /\ t.log = log
    BY <2>1, MadeIs
  <2> HIDE DEF failed
  <2>3. Lost # Failure
    BY OwnEvents
  <2>4. HealthTold(t)
    BY <1>2, <1>6, <2>2, <2>3, OwnTold
  <2>5. OwnCounted(t)
    BY <1>2, <2>2, <2>3, OwnCountedOnce DEF q, d, f
  <2>6. Retains(t)
    <3>1. t.log \in Seq(Entries) /\ t.retained \in Seq(Entries) /\ t.dropped \in Nat
          /\ t.selfFailures \in Nat /\ t.observed = Len(t.log)
      BY <1>2, <1>5, <2>2
    <3>2. Len(t.retained) = Len(t.log) - t.dropped
      <4>1. Len(l) \in Nat /\ Len(r) \in Nat
        BY <1>2
      <4>2. /\ Len(t.retained) = Len(kept) /\ Len(t.log) = Len(l) + 1 /\ t.dropped = d
        BY <1>5, <2>2
      <4>3. Len(r) = Len(l) - d /\ d \in Nat
        BY <1>2
      <4> QED BY <1>5, <4>1, <4>2, <4>3
    <3>3. \A i \in 1 .. Len(t.retained) : t.retained[i] = t.log[i]
      <4>1. Len(l) \in Nat /\ Len(r) = Len(l)
        BY <1>2, <1>9
      <4>2. \A i \in 1 .. Len(r) : kept[i] = log[i]
        BY <1>2, <1>5, <4>1
      <4>3. \A i : i \in 1 .. Len(r) + 1 <=> i \in 1 .. Len(r) \/ i = Len(r) + 1
        BY <4>1
      <4>4. \A i \in 1 .. Len(r) + 1 : kept[i] = log[i]
        <5>1. kept[Len(r) + 1] = log[Len(r) + 1]
          BY <1>10, <4>1
        <5> QED BY <4>2, <4>3, <5>1
      <4> QED BY <1>5, <2>2, <4>4
    <3>4. t.dropped > 0 => Len(t.retained) >= MaxEventsPerRun
      BY <1>2, <1>3, <1>5, <1>9, <2>2 DEF full
    <3> QED BY <3>1, <3>2, <3>3, <3>4 DEF Retains
  <2> QED BY <1>2, <2>2, <2>4, <2>5, <2>6 DEF SessionOK, t, log, a, z, p, m, l, entry
<1> QED BY <1>7, <1>8, <1>9

\* A new session has seen nothing.
LEMMA NewSessionType ==
    ASSUME NEW at \in Nat
    PROVE  LET s == NewSession(at)
           IN  SessionOK(s) /\ s.log = <<>> /\ s.ended = FALSE /\ s.startedAt = at
<1> DEFINE s == NewSession(at)
           h == [component \in Components |-> "UNKNOWN"]
           none == <<>>
<1>1. s = Made(at, h, NoAggregates, none, none, 0, 0, 0, FALSE, {}, none)
  BY DEF NewSession, Made
<1>2. none \in Seq(Entries) /\ Len(none) = 0 /\ DOMAIN none = {}
  OBVIOUS
<1> HIDE DEF s, none, h
<1>3. /\ IsSession(s) /\ s.startedAt = at /\ s.health = h /\ s.quarantined = NoAggregates
      /\ s.retained = none /\ s.metrics = none /\ s.observed = 0 /\ s.dropped = 0
      /\ s.selfFailures = 0 /\ s.ended = FALSE /\ s.reports = {} /\ s.log = none
  BY <1>1 DEF Made, IsSession
<1>4. DOMAIN NoAggregates = {}
  BY DEF NoAggregates
<1>5. OwnCounted(s)
  BY <1>3, <1>4 DEF OwnCounted, CountIn
<1>6. Retains(s)
  BY <1>2, <1>3 DEF Retains
<1>7. HealthTold(s)
  <2>1. \A c \in Components : FloorsOf(s, c) = {}
    <3> TAKE c \in Components
    <3> DEFINE old == {Floor[s.log[i].event.severity] :
                          i \in {j \in DOMAIN s.log : s.log[j].event.component = c}}
    <3>1. old = {}
      BY <1>2, <1>3
    <3>2. FloorsOf(s, c) = old
            \union (IF c = "MONITORING" /\ s.dropped > 0 THEN {"DEGRADED"} ELSE {})
            \union (IF c = "MONITORING" /\ s.selfFailures > 0 THEN {"FAILING"} ELSE {})
      BY DEF FloorsOf
    <3> HIDE DEF old
    <3>3. ~ (s.dropped > 0) /\ ~ (s.selfFailures > 0)
      BY <1>3
    <3> QED BY <3>1, <3>2, <3>3
  <2>2. h \in [Components -> HealthStates] /\ \A c \in Components : h[c] = "UNKNOWN"
    BY DEF h, HealthStates
  <2>3. Verdict({}) = "UNKNOWN"
    BY DEF Verdict
  <2> QED BY <1>3, <2>1, <2>2, <2>3 DEF HealthTold
<1> QED BY <1>2, <1>3, <1>5, <1>6, <1>7 DEF SessionOK, s, none

\* Recording a metric keeps a session's books.
LEMMA MetricRecordedType ==
    ASSUME NEW s, SessionOK(s), now \in Nat, NEW metric, NEW raises \in BOOLEAN
    PROVE  LET t == MetricRecorded(s, metric, raises)
           IN  /\ SessionOK(t) /\ t.log = s.log /\ t.startedAt = s.startedAt
               /\ t.ended = s.ended /\ t.reports = s.reports
<1> DEFINE t == MetricRecorded(s, metric, raises)
           a == s.startedAt
           h == s.health
           q == s.quarantined
           r == s.retained
           m == s.metrics
           o == s.observed
           d == s.dropped
           f == s.selfFailures
           z == s.ended
           p == s.reports
           l == s.log
           more == Append(m, metric)
           fails == f + 1
           u == Made(a, h, q, r, more, o, d, f, z, p, l)
           v == Made(a, h, q, r, more, o, d, fails, z, p, l)
           w == Made(a, Transitioned(h, Failure), Advanced(q, Failure, now), r, more, o, d, fails,
                     z, p, l)
<1>1. s = Made(a, h, q, r, m, o, d, f, z, p, l)
  BY DEF SessionOK, IsSession
<1>2. /\ Retains(s) /\ d \in Nat /\ f \in Nat /\ OwnCounted(s) /\ HealthTold(s) /\ a \in Nat
  BY DEF SessionOK, Retains
<1>3. t = Forwarded([s EXCEPT !.metrics = more], raises)
  BY DEF MetricRecorded
<1>4. [s EXCEPT !.metrics = more] = u
  <2> HIDE DEF a, h, q, r, m, o, d, f, z, p, l, more
  <2> QED BY <1>1 DEF Made
<1> HIDE DEF t, more
<1>5. t = Forwarded(u, raises)
  <2> HIDE DEF u
  <2> QED BY <1>3, <1>4
<1>6. CASE ~ raises
  <2>1. t = u
    <3> HIDE DEF u
    <3> QED BY <1>5, <1>6 DEF Forwarded
  <2>2. /\ IsSession(t) /\ t.startedAt = a /\ t.health = h /\ t.quarantined = q
        /\ t.retained = r /\ t.observed = o /\ t.dropped = d
        /\ t.selfFailures = f /\ t.ended = z /\ t.reports = p /\ t.log = l
    <3> HIDE DEF a, h, q, r, m, o, d, f, z, p, l
    <3> QED BY <2>1, MadeIs
  <2>3. HealthTold(t)
    <3>1. \A c \in Components : FloorsOf(t, c) = FloorsOf(s, c)
      BY <2>2 DEF FloorsOf
    <3> QED BY <1>2, <2>2, <3>1 DEF HealthTold
  <2>4. OwnCounted(t)
    BY <1>2, <2>2 DEF OwnCounted
  <2>5. Retains(t)
    BY <1>2, <2>2 DEF Retains
  <2> QED BY <1>2, <2>2, <2>3, <2>4, <2>5 DEF SessionOK, t
<1>7. CASE raises
  <2> HIDE DEF a, h, q, r, m, o, d, f, z, p, l
  <2>1. u.selfFailures = f /\ [u EXCEPT !.selfFailures = fails] = v
    <3> HIDE DEF fails
    <3> QED BY DEF Made
  <2>2. Forwarded(u, TRUE) = Quarantined([u EXCEPT !.selfFailures = fails],
                                         "MONITOR_INTERNAL_FAILURE")
    <3> HIDE DEF u
    <3>1. [u EXCEPT !.selfFailures = @ + 1] = [u EXCEPT !.selfFailures = fails]
      BY <2>1
    <3> HIDE DEF fails
    <3> QED BY <3>1 DEF Forwarded
  <2>3. Quarantined(v, "MONITOR_INTERNAL_FAILURE") = w
    <3> HIDE DEF fails
    <3> QED BY QuarantinedFields DEF Failure
  <2>4. t = w
    <3> HIDE DEF u, v, w
    <3> QED BY <1>5, <1>7, <2>1, <2>2, <2>3
  <2>5. /\ IsSession(t) /\ t.startedAt = a /\ t.health = Transitioned(h, Failure)
        /\ t.quarantined = Advanced(q, Failure, now) /\ t.retained = r /\ t.observed = o
        /\ t.dropped = d /\ t.selfFailures = fails /\ t.ended = z /\ t.reports = p /\ t.log = l
    BY <2>4, MadeIs
  <2>6. Lost # Failure
    BY OwnEvents
  <2>7. HealthTold(t)
    BY <1>2, <2>5, <2>6, OwnTold DEF h, l, d, f
  <2>8. OwnCounted(t)
    BY <1>2, <2>5, <2>6, OwnCountedOnce DEF q, d, f
  <2>9. Retains(t)
    <3>1. fails \in Nat
      BY <1>2
    <3> QED BY <1>2, <2>5, <3>1 DEF Retains, l, r, o, d
  <2> QED BY <1>2, <2>5, <2>7, <2>8, <2>9 DEF SessionOK, t, a, z, p, l
<1> QED BY <1>6, <1>7

-----------------------------------------------------------------------------
(* The aggregates of a report.                                             *)

\* f aggregates the first of the entries r, up to the n-th.
Aggregating(f, r, n) ==
    f = [k \in 0 .. n |-> IF k = 0 THEN NoAggregates
                          ELSE Advanced(f[k - 1], r[k].event, r[k].at)]

\* There is such a function.
LEMMA AggregatingExists ==
    ASSUME NEW r PROVE \A n \in Nat : \E f : Aggregating(f, r, n)
<1> DEFINE S == {n \in Nat : \E f : Aggregating(f, r, n)}
<1>1. 0 \in S
  <2> DEFINE e == [k \in 0 .. 0 |-> NoAggregates]
             Step(k) == Advanced(e[k - 1], r[k].event, r[k].at)
  <2> HIDE DEF Step
  <2>1. e = [k \in 0 .. 0 |-> IF k = 0 THEN NoAggregates ELSE Step(k)]
    OBVIOUS
  <2> HIDE DEF e
  <2>2. Aggregating(e, r, 0)
    BY <2>1 DEF Aggregating, Step
  <2> QED BY <2>2
<1>2. ASSUME NEW n \in Nat, n \in S PROVE n + 1 \in S
  <2>1. PICK f : Aggregating(f, r, n)
    BY <1>2
  <2> DEFINE Step(k, t) == Advanced(t, r[k].event, r[k].at)
             g == [k \in 0 .. n + 1 |-> IF k = n + 1 THEN Step(k, f[n]) ELSE f[k]]
  <2>2. f = [k \in 0 .. n |-> IF k = 0 THEN NoAggregates ELSE Step(k, f[k - 1])]
    BY <2>1 DEF Aggregating
  <2> HIDE DEF Step
  <2>3. ASSUME NEW k \in 0 .. n + 1
        PROVE  g[k] = IF k = 0 THEN NoAggregates ELSE Step(k, g[k - 1])
    <3>1. CASE k = n + 1
      <4>1. n \in 0 .. n + 1 /\ n # n + 1 /\ k # 0 /\ k - 1 = n
        BY <3>1
      <4>2. g[n] = f[n] /\ g[k] = Step(k, f[n])
        BY <3>1, <4>1
      <4> QED BY <4>1, <4>2
    <3>2. CASE k \in 0 .. n
      <4>1. g[k] = f[k] /\ f[k] = IF k = 0 THEN NoAggregates ELSE Step(k, f[k - 1])
        BY <2>2, <3>2
      <4>2. k # 0 => k - 1 \in 0 .. n
        BY <3>2
      <4>3. k # 0 => g[k - 1] = f[k - 1]
        BY <4>2
      <4> QED BY <4>1, <4>3
    <3> QED BY <3>1, <3>2
  <2>4. g = [k \in 0 .. n + 1 |-> g[k]]
    <3> DEFINE F(k) == IF k = n + 1 THEN Step(k, f[n]) ELSE f[k]
    <3>1. g = [k \in 0 .. n + 1 |-> F(k)]
      OBVIOUS
    <3> HIDE DEF F, g
    <3>2. DOMAIN g = 0 .. n + 1 /\ \A k \in 0 .. n + 1 : g[k] = F(k)
      BY <3>1
    <3> QED BY <3>1, <3>2
  <2> HIDE DEF g
  <2>5. g = [k \in 0 .. n + 1 |-> IF k = 0 THEN NoAggregates ELSE Step(k, g[k - 1])]
    BY <2>3, <2>4
  <2>6. Aggregating(g, r, n + 1)
    BY <2>5 DEF Aggregating, Step
  <2> QED BY <2>6
<1> HIDE DEF S
<1>3. \A n \in Nat : n \in S
  BY <1>1, <1>2, Induction
<1> QED BY <1>3 DEF S

\* The indices of an event among the first n entries.
Seen(r, n, e) == {i \in 1 .. n : r[i].event = e}

\* One entry more is one index more of its event.
LEMMA SeenGrows ==
    ASSUME NEW r, NEW n \in Nat, NEW e
    PROVE  /\ Cardinality(Seen(r, 0, e)) = 0 /\ Cardinality(Seen(r, n, e)) \in Nat
           /\ Cardinality(Seen(r, n + 1, e)) =
                 Cardinality(Seen(r, n, e)) + (IF r[n + 1].event = e THEN 1 ELSE 0)
<1>1. Seen(r, 0, e) = {}
  BY DEF Seen
<1>2. Seen(r, n, e) \in SUBSET (1 .. n)
  BY DEF Seen
<1>3. IsFiniteSet(Seen(r, n, e)) /\ Cardinality(Seen(r, n, e)) \in Nat
  BY <1>2, IndexSet
<1>4. n + 1 \notin Seen(r, n, e)
  BY DEF Seen
<1>5. CASE r[n + 1].event = e
  <2>1. Seen(r, n + 1, e) = Seen(r, n, e) \union {n + 1}
    BY <1>5 DEF Seen
  <2>2. Cardinality(Seen(r, n, e) \union {n + 1}) = Cardinality(Seen(r, n, e)) + 1
    BY <1>3, <1>4, FS_AddElement
  <2> QED BY <1>1, <1>3, <1>5, <2>1, <2>2, FS_EmptySet
<1>6. CASE r[n + 1].event # e
  <2>1. Seen(r, n + 1, e) = Seen(r, n, e)
    BY <1>6 DEF Seen
  <2> QED BY <1>1, <1>3, <1>6, <2>1, FS_EmptySet
<1> QED BY <1>5, <1>6

\* What a map of aggregates says of the first n entries.
Tells(map, r, n) ==
    /\ DOMAIN map = {r[i].event : i \in 1 .. n}
    /\ \A e \in DOMAIN map : map[e] \in Ranges
    /\ \A e : CountIn(map, e) = Cardinality(Seen(r, n, e))
    /\ \A i \in 1 .. n : map[r[i].event].first <= r[i].at /\ r[i].at <= map[r[i].event].last

\* The aggregates of the entries are the conditions that were seen, each as often as it was and
\* with a range that holds every instant of it.
LEMMA AggregateEventsIs ==
    ASSUME NEW r \in Seq(Entries)
    PROVE  Tells(AggregateEvents(r), r, Len(r))
<1> DEFINE N == Len(r)
           f == CHOOSE x : Aggregating(x, r, N)
           T == {n \in Nat : n \in 0 .. N => Tells(f[n], r, n)}
<1>0. N \in Nat /\ \A i \in 1 .. N : r[i] \in Entries
  OBVIOUS
<1>1. Aggregating(f, r, N)
  BY <1>0, AggregatingExists
<1>2. AggregateEvents(r) = f[N]
  BY DEF AggregateEvents, Aggregating
<1> HIDE DEF f
<1>3. \A k \in 0 .. N : f[k] = IF k = 0 THEN NoAggregates
                               ELSE Advanced(f[k - 1], r[k].event, r[k].at)
  BY <1>1 DEF Aggregating
<1> HIDE DEF N
<1>4. 0 \in T
  <2>1. f[0] = NoAggregates
    BY <1>0, <1>3
  <2>2. DOMAIN NoAggregates = {}
    BY DEF NoAggregates
  <2>3. \A e : CountIn(NoAggregates, e) = 0 /\ Cardinality(Seen(r, 0, e)) = 0
    BY <2>2, SeenGrows DEF CountIn
  <2>4. 1 .. 0 = {}
    OBVIOUS
  <2>5. Tells(NoAggregates, r, 0)
    BY <2>2, <2>3, <2>4 DEF Tells
  <2> QED BY <2>1, <2>5
<1>5. ASSUME NEW n \in Nat, n \in T PROVE n + 1 \in T
  <2> SUFFICES ASSUME n + 1 \in 0 .. N PROVE Tells(f[n + 1], r, n + 1)
    OBVIOUS
  <2> DEFINE old == f[n]
             event == r[n + 1].event
             at == r[n + 1].at
             more == Advanced(old, event, at)
  <2>1. n \in 0 .. N /\ n + 1 \in 1 .. N /\ n + 1 # 0 /\ (n + 1) - 1 = n
    BY <1>0
  <2>2. f[n + 1] = more
    BY <1>3, <2>1
  <2>3. Tells(old, r, n)
    BY <1>5, <2>1
  <2>4. at \in Nat /\ event \in Conditions
    BY <1>0, <2>1 DEF Entries
  <2>5. \A i \in 1 .. n : r[i].at \in Nat
    <3>1. \A i \in 1 .. n : i \in 1 .. N
      BY <1>0, <2>1
    <3> QED BY <1>0, <3>1 DEF Entries
  <2>6. \A i : i \in 1 .. n + 1 <=> i \in 1 .. n \/ i = n + 1
    OBVIOUS
  <2> HIDE DEF old
  <2>7. /\ DOMAIN old = {r[i].event : i \in 1 .. n} /\ \A e \in DOMAIN old : old[e] \in Ranges
        /\ \A e : CountIn(old, e) = Cardinality(Seen(r, n, e))
        /\ \A i \in 1 .. n : old[r[i].event].first <= r[i].at /\ r[i].at <= old[r[i].event].last
    BY <2>3 DEF Tells
  <2>8. /\ DOMAIN more = DOMAIN old \union {event}
        /\ \A e \in DOMAIN more : more[e] \in Ranges
        /\ CountIn(more, event) = CountIn(old, event) + 1
        /\ \A e : e # event => CountIn(more, e) = CountIn(old, e)
        /\ more[event].first <= at /\ at <= more[event].last
        /\ \A e \in DOMAIN old : more[e].first <= old[e].first /\ old[e].last <= more[e].last
    <3> HIDE DEF at, event
    <3>1. \A e \in DOMAIN old : old[e] \in Ranges
      BY <2>7
    <3> QED BY <2>4, <3>1, AdvancedIs
  <2> HIDE DEF more, at, event
  <2>9. DOMAIN more = {r[i].event : i \in 1 .. n + 1}
    <3>1. event = r[n + 1].event
      BY DEF event
    <3> QED BY <2>6, <2>7, <2>8, <3>1
  <2>10. \A e : CountIn(more, e) = Cardinality(Seen(r, n + 1, e))
    <3> TAKE e
    <3>1. Cardinality(Seen(r, n + 1, e)) =
             Cardinality(Seen(r, n, e)) + (IF event = e THEN 1 ELSE 0)
          /\ Cardinality(Seen(r, n, e)) \in Nat
      BY SeenGrows DEF event
    <3>2. CountIn(old, e) = Cardinality(Seen(r, n, e))
      BY <2>7
    <3>3. CASE event = e
      <4>1. CountIn(more, e) = CountIn(old, e) + 1
        BY <2>8, <3>3
      <4> QED BY <3>1, <3>2, <3>3, <4>1
    <3>4. CASE event # e
      <4>1. CountIn(more, e) = CountIn(old, e)
        BY <2>8, <3>4
      <4> QED BY <3>1, <3>2, <3>4, <4>1
    <3> QED BY <3>3, <3>4
  <2>11. ASSUME NEW i \in 1 .. n + 1
         PROVE  more[r[i].event].first <= r[i].at /\ r[i].at <= more[r[i].event].last
    <3>1. CASE i = n + 1
      BY <2>8, <3>1 DEF event, at
    <3>2. CASE i \in 1 .. n
      <4> DEFINE e == r[i].event
                 a == old[e]
                 b == more[e]
                 t == r[i].at
      <4>1. e \in DOMAIN old /\ e \in DOMAIN more
        BY <2>7, <2>8, <3>2
      <4>2. a \in Ranges /\ b \in Ranges /\ t \in Nat
        BY <2>5, <2>7, <2>8, <3>2, <4>1
      <4>3. a.first <= t /\ t <= a.last /\ b.first <= a.first /\ a.last <= b.last
        BY <2>7, <2>8, <3>2, <4>1
      <4> HIDE DEF a, b, t
      <4>4. a.first \in Nat /\ a.last \in Nat /\ b.first \in Nat /\ b.last \in Nat
        BY <4>2 DEF Ranges
      <4>5. b.first <= t /\ t <= b.last
        BY <4>2, <4>3, <4>4
      <4> QED BY <4>5 DEF b, t
    <3> QED BY <2>6, <3>1, <3>2
  <2> QED BY <2>2, <2>8, <2>9, <2>10, <2>11 DEF Tells
<1> HIDE DEF T
<1>6. N \in T
  BY <1>0, <1>4, <1>5, Induction
<1>7. Tells(f[N], r, N)
  BY <1>0, <1>6 DEF T
<1> QED BY <1>2, <1>7 DEF N

\* The aggregates of a report: those of the retained conditions and the session's own.
LEMMA ReportAggregates ==
    ASSUME NEW s, Retains(s), OwnCounted(s)
    PROVE  LET r == s.retained
               all == MergeAggregates(AggregateEvents(r), s.quarantined)
           IN  /\ \A e \in DOMAIN all : all[e] \in Ranges /\ (e \in Conditions \/ e \in {Lost, Failure})
               /\ \A e \in Conditions : CountIn(all, e) = Cardinality(Seen(r, Len(r), e))
               /\ \A i \in 1 .. Len(r) : /\ r[i].event \in DOMAIN all
                                         /\ all[r[i].event].first <= r[i].at
                                         /\ r[i].at <= all[r[i].event].last
               /\ CountIn(all, Lost) = s.dropped /\ CountIn(all, Failure) = s.selfFailures
<1> DEFINE r == s.retained
           a == AggregateEvents(r)
           q == s.quarantined
           all == MergeAggregates(a, q)
           F(e) == IF e \notin DOMAIN a THEN q[e]
                   ELSE IF e \notin DOMAIN q THEN a[e] ELSE Merged(a[e], q[e])
<1>1. r \in Seq(Entries) /\ Len(r) \in Nat /\ \A i \in 1 .. Len(r) : r[i] \in Entries
  BY DEF Retains
<1>2. Tells(a, r, Len(r))
  BY <1>1, AggregateEventsIs
<1>3. all = [e \in DOMAIN a \union DOMAIN q |-> F(e)]
  BY DEF MergeAggregates
<1> HIDE DEF a
<1>4. /\ DOMAIN a = {r[i].event : i \in 1 .. Len(r)} /\ \A e \in DOMAIN a : a[e] \in Ranges
      /\ \A e : CountIn(a, e) = Cardinality(Seen(r, Len(r), e))
      /\ \A i \in 1 .. Len(r) : a[r[i].event].first <= r[i].at /\ r[i].at <= a[r[i].event].last
  BY <1>2 DEF Tells
<1>5. /\ DOMAIN q \subseteq {Lost, Failure} /\ \A e \in DOMAIN q : q[e] \in Ranges
      /\ CountIn(q, Lost) = s.dropped /\ CountIn(q, Failure) = s.selfFailures
  BY DEF OwnCounted
<1>6. DOMAIN a \subseteq Conditions
  <2>1. \A i \in 1 .. Len(r) : r[i].event \in Conditions
    BY <1>1 DEF Entries
  <2> QED BY <1>4, <2>1
<1>7. Lost \notin Conditions /\ Failure \notin Conditions
  BY OwnEvents
<1>8. \A e \in DOMAIN a : e \notin DOMAIN q
  BY <1>5, <1>6, <1>7
<1>9. (\A e \in DOMAIN a : F(e) = a[e]) /\ \A e \in DOMAIN q : F(e) = q[e]
  BY <1>8
<1> HIDE DEF F, all, r, q
<1>10. /\ DOMAIN all = DOMAIN a \union DOMAIN q
       /\ \A e \in DOMAIN a : all[e] = a[e]
       /\ \A e \in DOMAIN q : all[e] = q[e]
  <2>1. DOMAIN all = DOMAIN a \union DOMAIN q /\ \A e \in DOMAIN a \union DOMAIN q : all[e] = F(e)
    BY <1>3
  <2> QED BY <1>9, <2>1
<1>11. \A e \in DOMAIN all : all[e] \in Ranges /\ (e \in Conditions \/ e \in {Lost, Failure})
  BY <1>4, <1>5, <1>6, <1>10
<1>12. \A e \in Conditions : CountIn(all, e) = Cardinality(Seen(r, Len(r), e))
  <2>1. \A e \in Conditions : e \notin DOMAIN q
    BY <1>5, <1>7
  <2>2. \A e \in Conditions : e \in DOMAIN all <=> e \in DOMAIN a
    BY <1>10, <2>1
  <2>3. \A e \in Conditions : CountIn(all, e) = CountIn(a, e)
    BY <1>10, <2>2 DEF CountIn
  <2> QED BY <1>4, <2>3
<1>13. \A i \in 1 .. Len(r) : /\ r[i].event \in DOMAIN all
                              /\ all[r[i].event].first <= r[i].at
                              /\ r[i].at <= all[r[i].event].last
  <2>1. \A i \in 1 .. Len(r) : r[i].event \in DOMAIN a
    BY <1>4
  <2> QED BY <1>4, <1>10, <2>1
<1>14. \A e \in {Lost, Failure} : CountIn(all, e) = CountIn(q, e)
  <2>1. \A e \in {Lost, Failure} : e \notin DOMAIN a
    BY <1>6, <1>7
  <2>2. \A e \in {Lost, Failure} : e \in DOMAIN all <=> e \in DOMAIN q
    BY <1>10, <2>1
  <2> QED BY <1>10, <2>2 DEF CountIn
<1> QED BY <1>5, <1>11, <1>12, <1>13, <1>14 DEF all, r, q, a

\* No component is worse than the overall verdict.
LEMMA OverallIs ==
    ASSUME NEW health \in [Components -> HealthStates], NEW c \in Components
    PROVE  Rank[health[c]] <= Rank[Overall(health)] /\ Overall(health) \in HealthStates
<1> DEFINE S == Range(health)
<1>1. S \subseteq HealthStates /\ health[c] \in S
  BY DEF Range
<1>2. \A x \in HealthStates : Rank[x] \in 0 .. 3
  BY DEF HealthStates, Rank
<1>3. Overall(health) = CHOOSE x \in S : \A y \in S : Rank[y] <= Rank[x]
  BY DEF Overall
<1> HIDE DEF S
<1>4. \E x \in S : \A y \in S : Rank[y] <= Rank[x]
  <2>1. /\ Rank["FAILING"] = 3 /\ Rank["DEGRADED"] = 2 /\ Rank["UNKNOWN"] = 1
        /\ Rank["HEALTHY"] = 0
    BY DEF Rank
  <2>2. CASE "FAILING" \in S
    BY <1>1, <1>2, <2>1, <2>2
  <2>3. CASE "FAILING" \notin S /\ "DEGRADED" \in S
    <3>1. \A y \in S : y \in {"HEALTHY", "UNKNOWN", "DEGRADED"}
      BY <1>1, <2>3 DEF HealthStates
    <3> QED BY <2>1, <2>3, <3>1
  <2>4. CASE "FAILING" \notin S /\ "DEGRADED" \notin S /\ "UNKNOWN" \in S
    <3>1. \A y \in S : y \in {"HEALTHY", "UNKNOWN"}
      BY <1>1, <2>4 DEF HealthStates
    <3> QED BY <2>1, <2>4, <3>1
  <2>5. CASE "FAILING" \notin S /\ "DEGRADED" \notin S /\ "UNKNOWN" \notin S
    <3>1. \A y \in S : y = "HEALTHY"
      BY <1>1, <2>5 DEF HealthStates
    <3> QED BY <1>1, <2>1, <3>1
  <2> QED BY <2>2, <2>3, <2>4, <2>5
<1> DEFINE x == Overall(health)
<1> HIDE DEF x
<1>5. x \in S /\ \A y \in S : Rank[y] <= Rank[x]
  BY <1>3, <1>4 DEF x
<1> QED BY <1>1, <1>5 DEF x

\* The verdict on a component is no better than the floor of anything recorded of it.
LEMMA VerdictIs ==
    ASSUME NEW s, HealthTold(s), s.log \in Seq(Entries), NEW i \in 1 .. Len(s.log)
    PROVE  LET event == s.log[i].event
           IN  /\ event.component \in Components
               /\ Rank[Floor[event.severity]] \in 0 .. 3
               /\ Rank[s.health[event.component]] \in 0 .. 3
               /\ Rank[Floor[event.severity]] <= Rank[s.health[event.component]]
<1> DEFINE event == s.log[i].event
           c == event.component
           floor == Floor[event.severity]
           floors == FloorsOf(s, c)
<1>1. c \in Components /\ event.severity \in Levels
  <2>1. s.log[i] \in Entries
    OBVIOUS
  <2> QED BY <2>1 DEF Entries, Conditions
<1>2. floor \in {"HEALTHY", "DEGRADED", "FAILING"}
  BY <1>1, FloorType
<1>3. floor \in floors
  <2>1. i \in {j \in DOMAIN s.log : s.log[j].event.component = c}
    OBVIOUS
  <2> QED BY <2>1 DEF FloorsOf
<1>4. s.health[c] = Verdict(floors)
  BY <1>1 DEF HealthTold
<1> HIDE DEF floor, floors
<1>5. /\ Rank[floor] \in 0 .. 3 /\ Rank[Verdict(floors)] \in 0 .. 3
      /\ Rank[floor] <= Rank[Verdict(floors)]
  BY <1>2, <1>3 DEF Verdict, Rank
<1> QED BY <1>1, <1>4, <1>5 DEF floor

-----------------------------------------------------------------------------
(* The end of a run.                                                       *)

\* What a run that has ended leaves behind.
ClosedOK(s) ==
    /\ s.ended = TRUE
    /\ s.reports = {} => ~SummaryIsValid(s.metrics)
    /\ \A report \in s.reports : AddsUp(s, report)
    /\ \A c \in Components :
          s.health[c] = IF c = "RUN_LIFECYCLE" /\ Last(s.log).event.code = "RUN_COMPLETED"
                        THEN "HEALTHY" ELSE Verdict(FloorsOf(s, c))

\* A report that keeps the books of a session adds up, whatever it says of the life of the run.
LEMMA ReportAddsUp ==
    ASSUME NEW s, SessionOK(s), NEW t, t.log = s.log, NEW report,
           report.aggregates = MergeAggregates(AggregateEvents(s.retained), s.quarantined),
           report.observed = s.observed, report.dropped = s.dropped,
           report.selfFailures = s.selfFailures, report.health \in [Components -> HealthStates],
           \A c \in Components : c # "RUN_LIFECYCLE" => report.health[c] = s.health[c]
    PROVE  AddsUp(t, report)
<1> DEFINE l == s.log
           r == s.retained
           d == s.dropped
           all == report.aggregates
           counted == 1 .. Len(l) - d
<1>1. /\ l \in Seq(Entries) /\ r \in Seq(Entries) /\ Len(l) \in Nat /\ Len(r) \in Nat
      /\ Len(r) = Len(l) - d /\ d \in Nat
      /\ \A i \in 1 .. Len(r) : r[i] = l[i]
      /\ report.observed = Len(l)
  BY DEF SessionOK, Retains
<1>2. counted = 1 .. Len(r)
  BY <1>1
<1>3. /\ \A e \in DOMAIN all : all[e] \in Ranges /\ (e \in Conditions \/ e \in {Lost, Failure})
      /\ \A e \in Conditions : CountIn(all, e) = Cardinality(Seen(r, Len(r), e))
      /\ \A i \in 1 .. Len(r) : /\ r[i].event \in DOMAIN all
                                /\ all[r[i].event].first <= r[i].at
                                /\ r[i].at <= all[r[i].event].last
      /\ CountIn(all, Lost) = d /\ CountIn(all, Failure) = s.selfFailures
  BY ReportAggregates DEF SessionOK
<1>4. HealthTold(s)
  BY DEF SessionOK
<1> HIDE DEF l, r, d, all, counted
<1>5. ASSUME NEW e \in DOMAIN all
      PROVE  /\ e.code \notin Own =>
                   /\ all[e].count = Cardinality({i \in counted : l[i].event = e})
                   /\ all[e].count > 0
             /\ e.code \in Own => e = Event("MONITORING", e.code, <<>>)
  <2>1. ASSUME e.code \notin Own
        PROVE  /\ all[e].count = Cardinality({i \in counted : l[i].event = e})
               /\ all[e].count > 0
    <3>1. e \in Conditions /\ all[e] \in Ranges
      BY <1>3, <2>1, OwnEvents
    <3>2. {i \in counted : l[i].event = e} = Seen(r, Len(r), e)
      BY <1>1, <1>2 DEF Seen
    <3>3. CountIn(all, e) = all[e].count
      BY DEF CountIn
    <3>4. all[e].count = Cardinality(Seen(r, Len(r), e))
      BY <1>3, <3>1, <3>3
    <3>5. all[e].count > 0
      BY <3>1 DEF Ranges
    <3> QED BY <3>2, <3>4, <3>5
  <2>2. ASSUME e.code \in Own PROVE e = Event("MONITORING", e.code, <<>>)
    <3>1. e \in {Lost, Failure}
      BY <1>3, <2>2 DEF Conditions
    <3>2. Lost.code = "MONITOR_OBSERVATION_DROPPED" /\ Failure.code = "MONITOR_INTERNAL_FAILURE"
      BY OwnEvents
    <3> QED BY <3>1, <3>2 DEF Lost, Failure
  <2> QED BY <2>1, <2>2
<1>6. ASSUME NEW i \in counted
      PROVE  LET entry == l[i]
             IN  /\ entry.event \in DOMAIN all
                 /\ all[entry.event].first <= entry.at
                 /\ entry.at <= all[entry.event].last
  BY <1>1, <1>2, <1>3
<1>7. ASSUME NEW i \in DOMAIN l, l[i].event.component # "RUN_LIFECYCLE"
      PROVE  Rank[Floor[l[i].event.severity]] <= Rank[Overall(report.health)]
  <2> DEFINE c == l[i].event.component
             x == Rank[Floor[l[i].event.severity]]
             y == Rank[s.health[c]]
             z == Rank[Overall(report.health)]
             h == report.health
  <2>1. i \in 1 .. Len(s.log) /\ s.log \in Seq(Entries)
    BY <1>1 DEF l
  <2>2. c \in Components /\ x \in 0 .. 3 /\ y \in 0 .. 3 /\ x <= y
    BY <1>4, <2>1, VerdictIs DEF l
  <2>3. h \in [Components -> HealthStates] /\ s.health[c] = h[c]
    BY <1>7, <2>2
  <2>4. y <= Rank[Overall(h)]
    <3> HIDE DEF h, c
    <3> QED BY <2>2, <2>3, OverallIs
  <2>5. z \in 0 .. 3
    <3> HIDE DEF h
    <3>1. Overall(h) \in HealthStates
      BY <2>2, <2>3, OverallIs
    <3> QED BY <3>1 DEF HealthStates, Rank, h
  <2> HIDE DEF x, y, z
  <2>6. x <= z
    BY <2>2, <2>4, <2>5 DEF z
  <2> QED BY <2>6 DEF x, z
<1>8. /\ CountIn(all, Event("MONITORING", "MONITOR_OBSERVATION_DROPPED", <<>>)) = report.dropped
      /\ CountIn(all, Event("MONITORING", "MONITOR_INTERNAL_FAILURE", <<>>)) = report.selfFailures
  BY <1>3 DEF Lost, Failure, d
<1>9. report.dropped = d /\ t.log = l
  BY DEF d, l
<1> QED BY <1>1, <1>5, <1>6, <1>7, <1>8, <1>9 DEF AddsUp, all, counted

\* The event that ends a run is a condition of its lifecycle.
LEMMA LastEvent ==
    ASSUME NEW failed \in BOOLEAN
    PROVE  LET code == IF failed THEN "RUN_FAILED" ELSE "RUN_COMPLETED"
               e == Event("RUN_LIFECYCLE", code, <<>>)
           IN  e \in Conditions /\ (e.code = "RUN_COMPLETED" <=> ~ failed)
<1> DEFINE code == IF failed THEN "RUN_FAILED" ELSE "RUN_COMPLETED"
           e == Event("RUN_LIFECYCLE", code, <<>>)
           none == <<>>
<1>1. "RUN_LIFECYCLE" \in Components /\ none \in Seq(Int)
  BY DEF Components
<1>2. code \in Codes \ Own
  BY DataCodes
<1>3. code = "RUN_COMPLETED" <=> ~ failed
  OBVIOUS
<1> HIDE DEF none, code
<1>4. Event("RUN_LIFECYCLE", code, none) \in Conditions
      /\ Event("RUN_LIFECYCLE", code, none).code = code
  BY <1>1, <1>2, EventType
<1> QED BY <1>3, <1>4 DEF none, code

\* A run ends with a report that adds up, unless two of its metrics have one name.
LEMMA EndedType ==
    ASSUME NEW s, SessionOK(s), now \in Nat, now >= s.startedAt, NEW failed \in BOOLEAN,
           NEW raises \in BOOLEAN
    PROVE  ClosedOK(Ended(s, failed, raises))
<1> DEFINE e == Event("RUN_LIFECYCLE", IF failed THEN "RUN_FAILED" ELSE "RUN_COMPLETED", <<>>)
           told == Recorded(s, e, now, raises)
           a == told.startedAt
           h == told.health
           q == told.quarantined
           r == told.retained
           m == told.metrics
           o == told.observed
           d == told.dropped
           f == told.selfFailures
           z == told.ended
           p == told.reports
           l == told.log
           h2 == IF failed THEN h ELSE [h EXCEPT !["RUN_LIFECYCLE"] = "HEALTHY"]
           settled == IF failed THEN told
                      ELSE [told EXCEPT !.health["RUN_LIFECYCLE"] = "HEALTHY"]
           report == Report(settled, now, failed)
           result == IF ReportIsValid(report) THEN {report} ELSE {}
           u == Made(a, h2, q, r, m, o, d, f, z, p, l)
           t == [settled EXCEPT !.ended = TRUE, !.reports = result]
<1>0. e \in Conditions /\ (e.code = "RUN_COMPLETED" <=> ~ failed)
  BY LastEvent
<1>1. /\ SessionOK(told) /\ a = s.startedAt /\ l = Append(s.log, [event |-> e, at |-> now])
  <2> HIDE DEF e
  <2> QED BY <1>0, RecordedType
<1>2. Ended(s, failed, raises) = t
  BY DEF Ended
<1> HIDE DEF told
<1>3. told = Made(a, h, q, r, m, o, d, f, z, p, l)
  BY <1>1 DEF SessionOK, IsSession
<1>4. h \in [Components -> HealthStates] /\ HealthTold(told) /\ Retains(told)
  BY <1>1 DEF SessionOK, HealthTold
<1>5. settled = u
  <2>1. CASE failed
    BY <1>3, <2>1
  <2>2. CASE ~ failed
    <3> DEFINE g == [h EXCEPT !["RUN_LIFECYCLE"] = "HEALTHY"]
    <3>1. [told EXCEPT !.health["RUN_LIFECYCLE"] = "HEALTHY"] = [told EXCEPT !.health = g]
      OBVIOUS
    <3>2. [told EXCEPT !.health = g] = Made(a, g, q, r, m, o, d, f, z, p, l)
      <4> HIDE DEF g, a, h, q, r, m, o, d, f, z, p, l
      <4> QED BY <1>3 DEF Made
    <3> QED BY <2>2, <3>1, <3>2
  <2> QED BY <2>1, <2>2
<1>6. h2 \in [Components -> HealthStates]
      /\ \A c \in Components : h2[c] = IF c = "RUN_LIFECYCLE" /\ ~ failed THEN "HEALTHY" ELSE h[c]
  BY <1>4 DEF HealthStates
<1>7. l # <<>> /\ Last(l).event = e /\ l \in Seq(Entries)
  <2> DEFINE entry == [event |-> e, at |-> now]
  <2>1. entry \in Entries
    <3> HIDE DEF e
    <3> QED BY <1>0 DEF Entries
  <2>2. s.log \in Seq(Entries)
    BY DEF SessionOK, Retains
  <2>3. entry.event = e
    OBVIOUS
  <2> HIDE DEF entry
  <2>4. l = Append(s.log, entry)
    BY <1>1 DEF entry
  <2> HIDE DEF l
  <2>5. Len(l) = Len(s.log) + 1 /\ l[Len(l)] = entry /\ l \in Seq(Entries) /\ l # <<>>
    BY <2>1, <2>2, <2>4
  <2> QED BY <2>3, <2>5 DEF Last
<1> HIDE DEF settled, h2
<1>8. /\ u.startedAt = a /\ u.health = h2 /\ u.quarantined = q /\ u.retained = r
      /\ u.metrics = m /\ u.observed = o /\ u.dropped = d /\ u.selfFailures = f /\ u.log = l
  <2> HIDE DEF a, h, q, r, m, o, d, f, z, p, l
  <2> QED BY MadeIs
<1>9. /\ t.ended = TRUE /\ t.reports = result /\ t.health = h2 /\ t.log = l /\ t.metrics = m
      /\ t.dropped = d /\ t.selfFailures = f
  <2> HIDE DEF a, h, q, r, m, o, d, f, z, p, l, result
  <2> DEFINE yes == TRUE
             v == Made(a, h2, q, r, m, o, d, f, yes, p, l)
             w == Made(a, h2, q, r, m, o, d, f, yes, result, l)
  <2>1. t = [[u EXCEPT !.ended = yes] EXCEPT !.reports = result]
    BY <1>5
  <2> HIDE DEF yes
  <2>2. [u EXCEPT !.ended = yes] = v
    BY DEF Made
  <2>3. [v EXCEPT !.reports = result] = w
    BY DEF Made
  <2>4. t = w
    <3> HIDE DEF t, u, v
    <3> QED BY <2>1, <2>2, <2>3
  <2> HIDE DEF t, u
  <2>5. /\ t.ended = yes /\ t.reports = result /\ t.health = h2 /\ t.log = l /\ t.metrics = m
        /\ t.dropped = d /\ t.selfFailures = f
    BY <2>4, MadeIs
  <2> HIDE DEF v, w
  <2> QED BY <2>5 DEF yes
<1>10. /\ report.startedAt = a /\ report.endedAt = now /\ report.health = h2
       /\ report.aggregates = MergeAggregates(AggregateEvents(r), q)
       /\ report.metrics = m /\ report.observed = o /\ report.dropped = d
       /\ report.selfFailures = f
  <2> HIDE DEF a, h, q, r, m, o, d, f, z, p, l, u
  <2> QED BY <1>5, <1>8 DEF Report
<1> HIDE DEF t, report, u
<1>11. AddsUp(t, report)
  <2>1. \A c \in Components : c # "RUN_LIFECYCLE" => report.health[c] = told.health[c]
    BY <1>6, <1>10
  <2>2. report.health \in [Components -> HealthStates]
    BY <1>6, <1>10
  <2>3. report.aggregates = MergeAggregates(AggregateEvents(told.retained), told.quarantined)
        /\ report.observed = told.observed /\ report.dropped = told.dropped
        /\ report.selfFailures = told.selfFailures /\ t.log = told.log
    BY <1>9, <1>10
  <2> HIDE DEF a, h, q, r, m, o, d, f, z, p, l
  <2> QED BY <1>1, <2>1, <2>2, <2>3, ReportAddsUp
<1>12. ASSUME SummaryIsValid(m) PROVE ReportIsValid(report)
  <2>1. report.endedAt >= report.startedAt
    BY <1>1, <1>10
  <2>2. ASSUME NEW x \in DOMAIN report.aggregates
        PROVE  AggregateIsValid(report.aggregates[x])
    <3>1. report.aggregates[x] \in Ranges
      BY <1>1, <1>10, ReportAggregates DEF SessionOK
    <3> QED BY <3>1 DEF AggregateIsValid, Ranges
  <2>3. report.dropped <= report.observed
    <3>1. d \in Nat /\ o = Len(l) /\ Len(r) = Len(l) - d /\ r \in Seq(Entries) /\ l \in Seq(Entries)
      BY <1>4 DEF Retains
    <3> HIDE DEF d, o, l, r
    <3>2. Len(l) \in Nat /\ Len(r) \in Nat
      BY <3>1
    <3> QED BY <1>10, <3>1, <3>2
  <2> QED BY <1>10, <1>12, <2>1, <2>2, <2>3 DEF ReportIsValid
<1>13. t.reports = {} => ~ SummaryIsValid(t.metrics)
  BY <1>9, <1>12
<1>14. \A x \in t.reports : AddsUp(t, x)
  BY <1>9, <1>11
<1>15. ASSUME NEW c \in Components
       PROVE  t.health[c] = IF c = "RUN_LIFECYCLE" /\ Last(t.log).event.code = "RUN_COMPLETED"
                            THEN "HEALTHY" ELSE Verdict(FloorsOf(t, c))
  <2>1. FloorsOf(t, c) = FloorsOf(told, c)
    BY <1>9 DEF FloorsOf
  <2>2. h[c] = Verdict(FloorsOf(told, c))
    BY <1>4 DEF HealthTold
  <2>3. Last(t.log).event.code = "RUN_COMPLETED" <=> ~ failed
    BY <1>0, <1>7, <1>9
  <2> QED BY <1>6, <1>9, <2>1, <2>2, <2>3
<1> QED BY <1>2, <1>9, <1>13, <1>14, <1>15 DEF ClosedOK

-----------------------------------------------------------------------------
(* The invariant.                                                          *)

\* A fetch is what the exchange answered at its cutoff, or an error that is known.
FetchedInv ==
    fetched # None =>
        /\ fetched.cutoff \in Nat
        /\ fetched.batch # None =>
              /\ fetched.payload \in Payloads
              /\ ~ Refused(Closed(fetched.payload, fetched.cutoff))
              /\ fetched.batch = Fetched(fetched.payload, fetched.cutoff)
        /\ fetched.batch = None => fetched.error \in DOMAIN Failures

\* What was observed is what the observer says of the batch that was fetched.
ObservedInv ==
    observation # None =>
        /\ fetched # None /\ observation.at \in Nat
        /\ fetched.batch # None =>
              LET seen == ObserveBatch(fetched.batch, observation.at)
              IN  observation.events = seen.events /\ observation.metrics = seen.metrics

\* What is still to be recorded are conditions, seen at an instant.
PendingInv ==
    /\ now \in Nat /\ events \in Seq(Conditions)
    /\ events # <<>> => observation.at \in Nat

\* A run that is open keeps its books, a run that has ended has closed them.
SessionInv ==
    session # None =>
        /\ session.ended \in BOOLEAN
        /\ IF session.ended THEN ClosedOK(session) ELSE SessionOK(session)

MonitoringInvariant == FetchedInv /\ ObservedInv /\ PendingInv /\ SessionInv

\* A run starts with nothing fetched, nothing observed and no session.
LEMMA InvariantHoldsFirst == Init => MonitoringInvariant
<1> SUFFICES ASSUME Init PROVE MonitoringInvariant
  OBVIOUS
<1>1. now \in Nat
  BY MonitoringAssumption DEF Init
<1>2. events \in Seq(Conditions) /\ events = <<>>
  BY DEF Init
<1> QED BY <1>1, <1>2 DEF Init, MonitoringInvariant, FetchedInv, ObservedInv, PendingInv, SessionInv

\* The first event of a run is a condition of its lifecycle.
LEMMA FirstEvent == Event("RUN_LIFECYCLE", "RUN_STARTED", <<>>) \in Conditions
<1> DEFINE code == "RUN_STARTED"
           none == <<>>
<1>1. "RUN_LIFECYCLE" \in Components /\ none \in Seq(Int)
  BY DEF Components
<1>2. code \in Codes \ Own
  BY DataCodes
<1> HIDE DEF none, code
<1>3. Event("RUN_LIFECYCLE", code, none) \in Conditions
  BY <1>1, <1>2, EventType
<1> QED BY <1>3 DEF none, code

\* What is said of a failure is one condition.
LEMMA FailureType ==
    ASSUME NEW error \in DOMAIN Failures
    PROVE  ObserveFailure(error).events \in Seq(Conditions)
<1> DEFINE code == Failures[error]
           none == <<>>
           e == Event(ComponentFor(code), code, none)
           s == <<e>>
<1>1. ComponentFor(code) \in Components /\ none \in Seq(Int)
  BY FloorType DEF Components
<1>2. code \in Codes \ Own
  <2>1. code \in {"DATA_RATE_LIMITED", "DATA_PROVIDER_HTTP_ERROR", "DATA_MALFORMED",
                  "DATA_UNAVAILABLE", "DATA_FETCH_FAILED"}
    BY DEF Failures
  <2> QED BY <2>1, DataCodes
<1> HIDE DEF none, code
<1>3. e \in Conditions
  BY <1>1, <1>2, EventType
<1>4. ObserveFailure(error).events = s
  BY DEF ObserveFailure, code, none
<1> HIDE DEF e
<1>5. s \in Seq(Conditions)
  BY <1>3
<1> QED BY <1>4, <1>5

\* The caller begins a run.
LEMMA BeginKeeps == MonitoringInvariant /\ Begin => MonitoringInvariant'
<1> SUFFICES ASSUME MonitoringInvariant, Begin PROVE MonitoringInvariant'
  OBVIOUS
<1>1. PICK raises \in BOOLEAN :
         session' = Recorded(NewSession(now), Event("RUN_LIFECYCLE", "RUN_STARTED", <<>>), now,
                             raises)
  BY DEF Begin, MayRaise
<1>2. now \in Nat
  BY DEF MonitoringInvariant, PendingInv
<1>3. SessionOK(session') /\ session'.ended = FALSE
  <2> DEFINE s == NewSession(now)
             e == Event("RUN_LIFECYCLE", "RUN_STARTED", <<>>)
  <2>1. SessionOK(s) /\ s.ended = FALSE
    BY <1>2, NewSessionType
  <2>2. e \in Conditions
    BY FirstEvent
  <2>3. session' = Recorded(s, e, now, raises)
    BY <1>1
  <2> HIDE DEF s, e
  <2> QED BY <1>2, <2>1, <2>2, <2>3, RecordedType
<1>4. SessionInv'
  BY <1>3 DEF SessionInv
<1> QED BY <1>4 DEF Begin, MonitoringInvariant, FetchedInv, ObservedInv, PendingInv

\* The caller fetches, with or without an answer; nothing she had was still to be recorded.
LEMMA FetchKeeps ==
    ASSUME MonitoringInvariant,
           \/ \E payload \in Payloads : Fetch(payload)
           \/ \E error \in Errors : FetchFails(error)
    PROVE  MonitoringInvariant'
<1>1. now \in Nat
  BY DEF MonitoringInvariant, PendingInv
<1>2. SessionInv'
  BY DEF Fetch, FetchFails, MonitoringInvariant, SessionInv
<1>3. ObservedInv'
  BY DEF Fetch, FetchFails, ObservedInv
<1>4. PendingInv'
  BY DEF Fetch, FetchFails, MonitoringInvariant, PendingInv
<1>5. FetchedInv'
  <2>1. ASSUME NEW payload \in Payloads, Fetch(payload) PROVE FetchedInv'
    <3> DEFINE batch == Fetched(payload, now)
    <3>1. fetched' = [payload |-> payload, cutoff |-> now, batch |-> batch,
                      error |-> IF batch = None THEN "DataValidationError" ELSE None]
      BY <2>1 DEF Fetch
    <3>2. batch # None => ~ Refused(Closed(payload, now))
      BY DEF Fetched
    <3>3. "DataValidationError" \in DOMAIN Failures
      BY DEF Failures
    <3>4. /\ fetched'.payload = payload /\ fetched'.cutoff = now /\ fetched'.batch = batch
          /\ batch = None => fetched'.error = "DataValidationError"
      <4> HIDE DEF batch
      <4> QED BY <3>1
    <3> HIDE DEF batch
    <3> QED BY <1>1, <3>2, <3>3, <3>4 DEF FetchedInv, batch
  <2>2. ASSUME NEW error \in Errors, FetchFails(error) PROVE FetchedInv'
    <3>1. /\ fetched'.cutoff = now /\ fetched'.batch = None /\ fetched'.error = error
      BY <2>2 DEF FetchFails
    <3> QED BY <1>1, <3>1, MonitoringAssumption DEF FetchedInv
  <2> QED BY <2>1, <2>2
<1> QED BY <1>2, <1>3, <1>4, <1>5 DEF MonitoringInvariant

\* The observer looks at what was fetched, at the clock of this moment.
LEMMA ObserveKeeps == MonitoringInvariant /\ Observe => MonitoringInvariant'
<1> SUFFICES ASSUME MonitoringInvariant, Observe PROVE MonitoringInvariant'
  OBVIOUS
<1> DEFINE seen == IF fetched.batch = None THEN ObserveFailure(fetched.error)
                   ELSE ObserveBatch(fetched.batch, now)
<1>1. /\ now \in Nat /\ fetched # None /\ FetchedInv
      /\ observation' = [at |-> now, events |-> seen.events, metrics |-> seen.metrics]
      /\ events' = seen.events
      /\ UNCHANGED <<now, fetched, session>>
  BY DEF Observe, MonitoringInvariant, PendingInv
<1>2. seen.events \in Seq(Conditions)
  <2>1. CASE fetched.batch = None
    <3>1. fetched.error \in DOMAIN Failures
      BY <1>1, <2>1 DEF FetchedInv
    <3> QED BY <2>1, <3>1, FailureType
  <2>2. CASE fetched.batch # None
    <3> DEFINE payload == fetched.payload
               cutoff == fetched.cutoff
    <3>1. /\ cutoff \in Nat /\ payload \in Payloads /\ ~ Refused(Closed(payload, cutoff))
          /\ fetched.batch = Fetched(payload, cutoff)
      BY <1>1, <2>2 DEF FetchedInv
    <3>2. seen = ObserveBatch(Fetched(payload, cutoff), now)
      BY <2>2, <3>1
    <3> HIDE DEF payload, cutoff, seen
    <3> QED BY <1>1, <3>1, <3>2, FeedMatches
  <2> QED BY <2>1, <2>2
<1>3. observation'.at = now /\ observation'.events = seen.events
      /\ observation'.metrics = seen.metrics
  <2> HIDE DEF seen
  <2> QED BY <1>1
<1>4. ObservedInv'
  BY <1>1, <1>3 DEF ObservedInv
<1>5. PendingInv'
  <2> HIDE DEF seen
  <2> QED BY <1>1, <1>2, <1>3 DEF PendingInv
<1>6. FetchedInv' /\ SessionInv'
  BY <1>1 DEF MonitoringInvariant, FetchedInv, SessionInv
<1> QED BY <1>4, <1>5, <1>6 DEF MonitoringInvariant

\* An open run keeps its books.
LEMMA OpenBooks == MonitoringInvariant /\ IsOpen => SessionOK(session) /\ session.ended = FALSE
BY DEF MonitoringInvariant, SessionInv, IsOpen

\* The first of what is pending is recorded.
LEMMA RecordKeeps == MonitoringInvariant /\ Record => MonitoringInvariant'
<1> SUFFICES ASSUME MonitoringInvariant, Record PROVE MonitoringInvariant'
  OBVIOUS
<1>1. /\ now \in Nat /\ events \in Seq(Conditions) /\ events # <<>> /\ observation.at \in Nat
      /\ events' = Tail(events) /\ UNCHANGED <<now, fetched, observation>>
  BY DEF Record, MonitoringInvariant, PendingInv
<1>2. SessionOK(session) /\ session.ended = FALSE
  BY OpenBooks DEF Record
<1>3. PICK raises \in BOOLEAN :
         session' = Recorded(session, Head(events), observation.at, raises)
  BY DEF Record, MayRaise
<1>4. Head(events) \in Conditions /\ Tail(events) \in Seq(Conditions)
  BY <1>1
<1>5. SessionOK(session') /\ session'.ended = FALSE
  <2> DEFINE e == Head(events)
             at == observation.at
  <2>1. e \in Conditions /\ at \in Nat /\ session' = Recorded(session, e, at, raises)
    BY <1>1, <1>3, <1>4
  <2> HIDE DEF e, at
  <2> QED BY <1>1, <1>2, <2>1, RecordedType
<1>6. SessionInv'
  BY <1>5 DEF SessionInv
<1>7. PendingInv'
  BY <1>1, <1>4 DEF PendingInv
<1> QED BY <1>1, <1>6, <1>7 DEF MonitoringInvariant, FetchedInv, ObservedInv

\* The first metric that is pending is recorded.
LEMMA RecordMetricKeeps == MonitoringInvariant /\ RecordMetric => MonitoringInvariant'
<1> SUFFICES ASSUME MonitoringInvariant, RecordMetric PROVE MonitoringInvariant'
  OBVIOUS
<1>1. now \in Nat
  BY DEF MonitoringInvariant, PendingInv
<1>2. SessionOK(session) /\ session.ended = FALSE
  BY OpenBooks DEF RecordMetric
<1>3. PICK raises \in BOOLEAN : session' = MetricRecorded(session, Head(metrics), raises)
  BY DEF RecordMetric, MayRaise
<1>4. SessionOK(session') /\ session'.ended = FALSE
  <2> DEFINE metric == Head(metrics)
  <2>1. session' = MetricRecorded(session, metric, raises)
    BY <1>3
  <2> HIDE DEF metric
  <2> QED BY <1>1, <1>2, <2>1, MetricRecordedType
<1>5. SessionInv'
  BY <1>4 DEF SessionInv
<1> QED
  BY <1>5 DEF RecordMetric, MonitoringInvariant, FetchedInv, ObservedInv, PendingInv

\* The run ends.
LEMMA EndKeeps ==
    ASSUME MonitoringInvariant, NEW failed \in BOOLEAN, End(failed)
    PROVE  MonitoringInvariant'
<1>1. now \in Nat /\ now >= session.startedAt
  BY DEF MonitoringInvariant, PendingInv, End
<1>2. SessionOK(session)
  BY OpenBooks DEF End
<1>3. PICK raises \in BOOLEAN : session' = Ended(session, failed, raises)
  BY DEF End, MayRaise
<1>4. ClosedOK(session')
  BY <1>1, <1>2, <1>3, EndedType
<1>5. session'.ended \in BOOLEAN /\ session'.ended
  BY <1>4 DEF ClosedOK
<1>6. SessionInv'
  BY <1>4, <1>5 DEF SessionInv
<1> QED BY <1>6 DEF End, MonitoringInvariant, FetchedInv, ObservedInv, PendingInv

\* The clock is set.
LEMMA ClockKeeps ==
    ASSUME MonitoringInvariant, NEW instant \in Instants, ClockIsSet(instant)
    PROVE  MonitoringInvariant'
<1>1. now' \in Nat
  BY MonitoringAssumption DEF ClockIsSet
<1> QED
  BY <1>1 DEF ClockIsSet, MonitoringInvariant, FetchedInv, ObservedInv, PendingInv, SessionInv

\* Every step keeps the invariant.
LEMMA InvariantIsKept == MonitoringInvariant /\ [Next]_vars => MonitoringInvariant'
<1> SUFFICES ASSUME MonitoringInvariant, [Next]_vars PROVE MonitoringInvariant'
  OBVIOUS
<1>1. CASE UNCHANGED vars
  BY <1>1 DEF vars, MonitoringInvariant, FetchedInv, ObservedInv, PendingInv, SessionInv
<1>2. CASE Begin
  BY <1>2, BeginKeeps
<1>3. CASE Observe
  BY <1>3, ObserveKeeps
<1>4. CASE Record
  BY <1>4, RecordKeeps
<1>5. CASE RecordMetric
  BY <1>5, RecordMetricKeeps
<1>6. CASE \/ \E payload \in Payloads : Fetch(payload)
           \/ \E error \in Errors : FetchFails(error)
  BY <1>6, FetchKeeps
<1>7. CASE \E failed \in BOOLEAN : End(failed)
  BY <1>7, EndKeeps
<1>8. CASE \E instant \in Instants : ClockIsSet(instant)
  BY <1>8, ClockKeeps
<1> QED BY <1>1, <1>2, <1>3, <1>4, <1>5, <1>6, <1>7, <1>8 DEF Next

\* A session that is open keeps its books; what is fetched, observed and pending is what the code
\* says it is.
THEOREM MonitoringIsSound == Spec => []MonitoringInvariant
<1>1. Init => MonitoringInvariant
  BY InvariantHoldsFirst
<1>2. MonitoringInvariant /\ [Next]_vars => MonitoringInvariant'
  BY InvariantIsKept
<1> QED BY <1>1, <1>2, PTL DEF Spec

\* Health is the worst that was ever recorded of a component, retained or dropped, whatever the
\* monitor and the clock did, and only a run that completed settles its own lifecycle.
THEOREM HealthIsTheWorstSeen == Spec => []HealthFollowsObservations
<1>1. MonitoringInvariant => HealthFollowsObservations
  <2> SUFFICES ASSUME MonitoringInvariant, session # None
               PROVE  HealthFollowsObservations
    BY DEF HealthFollowsObservations
  <2>1. CASE session.ended
    <3>1. ClosedOK(session)
      BY <2>1 DEF MonitoringInvariant, SessionInv
    <3> QED BY <2>1, <3>1 DEF ClosedOK, HealthFollowsObservations
  <2>2. CASE ~ session.ended
    <3>1. HealthTold(session)
      BY <2>2 DEF MonitoringInvariant, SessionInv, SessionOK
    <3> QED BY <2>2, <3>1 DEF HealthTold, HealthFollowsObservations
  <2> QED BY <2>1, <2>2
<1> QED BY <1>1, MonitoringIsSound, PTL

\* The report of every run that ends adds up, for any retention and any number of conditions; a
\* run loses its report only to two metrics of one name.
THEOREM ReportsAddUp == Spec => []EndedRunAddsUp
<1>1. MonitoringInvariant => EndedRunAddsUp
  BY DEF MonitoringInvariant, SessionInv, ClosedOK, EndedRunAddsUp
<1> QED BY <1>1, MonitoringIsSound, PTL

\* The observer is silent exactly about a feed that could not be better, for any payload.
THEOREM SilenceMeansAnIdealFeed == Spec => []ObservationMatchesFeed
<1>1. MonitoringInvariant => ObservationMatchesFeed
  <2> SUFFICES ASSUME MonitoringInvariant, observation # None, fetched.batch # None
               PROVE  ObservationMatchesFeed
    BY DEF ObservationMatchesFeed
  <2> DEFINE payload == fetched.payload
             cutoff == fetched.cutoff
             at == observation.at
             seen == ObserveBatch(Fetched(payload, cutoff), at)
  <2>1. /\ payload \in Payloads /\ cutoff \in Nat /\ ~ Refused(Closed(payload, cutoff))
        /\ at \in Nat /\ observation.events = seen.events /\ observation.metrics = seen.metrics
    BY DEF MonitoringInvariant, FetchedInv, ObservedInv
  <2>2. /\ seen.events = <<>> <=> Ideal(payload, cutoff, at)
        /\ ValueOf(seen.metrics, "rows.input")
              = ValueOf(seen.metrics, "rows.output") + ValueOf(seen.metrics, "rows.rejected")
        /\ ValueOf(seen.metrics, "rows.input") = Len(payload)
        /\ \A i \in DOMAIN seen.events :
              seen.events[i].code = "DATA_FUTURE_TIMESTAMP" => at < cutoff
    <3> HIDE DEF payload, cutoff, at
    <3> QED BY <2>1, FeedMatches
  <2> HIDE DEF seen
  <2> QED BY <2>1, <2>2 DEF ObservationMatchesFeed
<1> QED BY <1>1, MonitoringIsSound, PTL
=============================================================================
