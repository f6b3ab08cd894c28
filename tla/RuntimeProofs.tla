---------------------------- MODULE RuntimeProofs ----------------------------
(***************************************************************************)
(* The live runtime, for every market, set of higher timeframes and length *)
(* of history: fast-forwarding and replaying give the frames of the whole  *)
(* history, and a restart regenerates what the checkpoint holds.           *)
(***************************************************************************)
EXTENDS Runtime, WellFoundedInduction, TLAPS

(* The reference of Runtime once more, with its state as arguments: h the  *)
(* higher histories, k how much of each the join was built over, f the     *)
(* primary candles.                                                        *)

Ascending(s) == \A i, j \in 1 .. Len(s) : i < j => s[i] < s[j]

KnownTo(s, n, tf, p) == {s[i] : i \in {j \in 1 .. n : Available(tf, s[j]) <= p}}

LatestOf(S) == IF S = {} THEN 0 ELSE CHOOSE n \in S : \A k \in S : k <= n

ContextTo(h, k, p) ==
    [tf \in Timeframes |-> [published |-> KnownTo(h[tf], k[tf], tf, p),
                            latest    |-> LatestOf(KnownTo(h[tf], k[tf], tf, p))]]

DirectionIn(m, c) ==
    Confluence({IF c[tf].latest = 0 THEN "INSUFFICIENT_CONTEXT"
                ELSE m.trend[tf][c[tf].latest] : tf \in Timeframes})

StatusIn(m, p, c) == StatusFor(m.halal, m.facts[p], DirectionIn(m, c), m.threshold)

IdentityIn(m, p, c) ==
    [bias  |-> Bias(m.halal, m.facts[p], DirectionIn(m, c)),
     mtf   |-> c,
     zone  |-> m.facts[p].zone,
     event |-> IF m.facts[p].displacement \/ m.facts[p].gap \/ m.facts[p].block # "NONE"
               THEN p ELSE 0]

SnapshotIn(m, p, c, published) ==
    [candle |-> p, context |-> c,
     status |-> IF StatusIn(m, p, c) = "BUY_SIGNAL" /\ IdentityIn(m, p, c) \in published
                THEN "NO_SIGNAL" ELSE StatusIn(m, p, c)]

SetupsIn(m, h, k, f, i) ==
    {IdentityIn(m, f[j], ContextTo(h, k, f[j])) :
        j \in {x \in 1 .. i : StatusIn(m, f[x], ContextTo(h, k, f[x])) = "BUY_SIGNAL"}}

FrameIn(m, h, k, f, i) ==
    SnapshotIn(m, f[i], ContextTo(h, k, f[i]), SetupsIn(m, h, k, f, i - 1))

CountsOf(h) == [tf \in Timeframes |-> Len(h[tf])]

\* The status of a frame depends on the market and its context.
LEMMA SameStatus ==
    ASSUME NEW p, NEW c PROVE Status(p, c) = StatusIn(market, p, c)
BY DEF Status, StatusIn, Direction, DirectionIn

\* The identity of a setup likewise.
LEMMA SameIdentity ==
    ASSUME NEW p, NEW c PROVE Identity(p, c) = IdentityIn(market, p, c)
BY DEF Identity, IdentityIn, Direction, DirectionIn

\* The snapshot likewise.
LEMMA SameSnapshot ==
    ASSUME NEW p, NEW c, NEW s PROVE Snapshot(p, c, s) = SnapshotIn(market, p, c, s)
BY SameStatus, SameIdentity DEF Snapshot, SnapshotIn

-----------------------------------------------------------------------------
(* The invariant. *)

MtfType == [known : [Timeframes -> Nat], cursor : [Timeframes -> Nat],
            published : [Timeframes -> SUBSET HigherCandle], count : Nat]

\* The cursor of the join is the number of higher candles known at the open of
\* the last candle it has seen.
JoinOK(j, h, f) ==
    /\ j \in MtfType
    /\ j.count <= Len(f)
    /\ \A tf \in Timeframes :
        /\ j.cursor[tf] <= j.known[tf] /\ j.known[tf] <= Len(h[tf])
        /\ j.published[tf] = {h[tf][i] : i \in 1 .. j.cursor[tf]}
        /\ j.count = 0 => j.cursor[tf] = 0
        /\ j.count > 0 => \A i \in 1 .. j.known[tf] :
                              i <= j.cursor[tf] <=> Available(tf, h[tf][i]) <= f[j.count]

\* The engine holds what the candles seen so far give with the higher candles
\* the join was built over.
EngineOK(e, m, j, h, f) ==
    /\ e.count = j.count
    /\ e.published = SetupsIn(m, h, j.known, f, j.count)
    /\ e.latest = IF j.count = 0 THEN NoFrame ELSE FrameIn(m, h, j.known, f, j.count)

HistoriesOK(h) ==
    /\ h \in [Timeframes -> Seq(HigherCandle)]
    /\ \A tf \in Timeframes : Ascending(h[tf])

CandlesOK(f) == f \in Seq(Candle) /\ Ascending(f)

-----------------------------------------------------------------------------
(* The cursor loop. *)

Less == {ss \in Nat \X Nat : ss[1] < ss[2]}

\* A non-empty set of naturals has a least element.
LEMMA LeastNatural ==
    ASSUME NEW T, T \subseteq Nat, T # {} PROVE \E x \in T : \A y \in T : x <= y
<1>1. IsWellFoundedOn(Less, Nat)
  BY NatLessThanWellFounded DEF OpToRel, Less
<1>2. PICK x \in T : \A y \in T : ~ (<<y, x>> \in Less)
  BY <1>1, WFMin
<1>3. \A y \in T : y \in Nat /\ x \in Nat /\ ~(y < x)
  BY <1>2 DEF Less
<1> QED BY <1>3

\* Of a history in order, the eligible candles come first.
LEMMA EligibleFirst ==
    ASSUME NEW tf \in Timeframes, NEW s \in Seq(HigherCandle), Ascending(s),
           NEW i \in 1 .. Len(s), NEW j \in 1 .. Len(s), i <= j
    PROVE  Available(tf, s[i]) <= Available(tf, s[j])
<1>0. s[i] \in HigherCandle /\ s[j] \in HigherCandle
  OBVIOUS
<1>1. s[i] \in Nat /\ s[j] \in Nat
  BY <1>0 DEF HigherCandle
<1>4. s[i] <= s[j]
  BY <1>1 DEF Ascending
<1>2. Ratio[tf] \in Nat /\ Ratio[tf] > 0
  BY RatioAssumption
<1>3. \A a, b, r \in Nat : a <= b => a * r <= b * r
  OBVIOUS
<1> QED BY <1>1, <1>2, <1>3, <1>4 DEF Available

\* Availability is a natural number.
LEMMA AvailableType ==
    ASSUME NEW tf \in Timeframes, NEW n \in HigherCandle PROVE Available(tf, n) \in Nat
BY RatioAssumption DEF Available, HigherCandle

\* The cursor loop stops behind the last candle that is eligible.
LEMMA CursorStops ==
    ASSUME NEW j, NEW f, HistoriesOK(higher), CandlesOK(f), JoinOK(j, higher, f),
           j.count < Len(f), NEW tf \in Timeframes
    PROVE  LET c == CursorAt(j, tf, f[j.count + 1])
           IN /\ c \in j.cursor[tf] .. j.known[tf]
              /\ \A i \in 1 .. j.known[tf] :
                     i <= c <=> Available(tf, higher[tf][i]) <= f[j.count + 1]
<1> DEFINE h == higher[tf]
           p == f[j.count + 1]
           low == j.cursor[tf]
           high == j.known[tf]
           Stops(c) == /\ \A i \in low + 1 .. c : Eligible(tf, h[i], p)
                       /\ c < high => ~Eligible(tf, h[c + 1], p)
           T == {c \in low .. high : c < high => ~Eligible(tf, h[c + 1], p)}
<1>1. /\ h \in Seq(HigherCandle) /\ Ascending(h)
      /\ low \in Nat /\ high \in Nat /\ low <= high /\ high <= Len(h)
      /\ j.count \in Nat
  BY DEF HistoriesOK, JoinOK, MtfType
<1>2. p \in Nat /\ (j.count > 0 => f[j.count] \in Nat /\ f[j.count] < p)
  <2>1. p \in Candle /\ (j.count > 0 => f[j.count] \in Candle)
    BY <1>1 DEF CandlesOK
  <2>2. j.count > 0 => f[j.count] < p
    BY <1>1 DEF CandlesOK, Ascending
  <2> QED BY <2>1, <2>2 DEF Candle
<1>3. \A i \in 1 .. high : h[i] \in HigherCandle /\ Available(tf, h[i]) \in Nat
  BY <1>1, AvailableType
<1>4. \E c \in low .. high : Stops(c)
  <2>1. T \subseteq Nat /\ T # {}
    <3>1. high \in T
      BY <1>1
    <3> QED BY <1>1, <3>1
  <2> HIDE DEF T
  <2>2. PICK c \in T : \A d \in T : c <= d
    BY <2>1, LeastNatural
  <2>3. c \in low .. high /\ (c < high => ~Eligible(tf, h[c + 1], p))
    BY <2>2 DEF T
  <2>4. ASSUME NEW i \in low + 1 .. c, ~Eligible(tf, h[i], p) PROVE FALSE
    <3>1. i - 1 \in low .. high /\ i - 1 < c /\ (i - 1) + 1 = i
      <4> HIDE DEF h, p, low, high
      <4> QED BY <1>1, <2>3, <2>4
    <3>2. i - 1 \in T
      BY <2>4, <3>1 DEF T
    <3> QED BY <2>2, <3>1, <3>2, <2>3, <1>1
  <2> QED BY <2>3, <2>4
<1>5. CursorAt(j, tf, p) = CHOOSE c \in low .. high : Stops(c)
  BY DEF CursorAt
<1> DEFINE c == CursorAt(j, tf, p)
<1>6. c \in low .. high /\ Stops(c)
  <2> HIDE DEF Stops
  <2> QED BY <1>4, <1>5
<1>7. ASSUME NEW i \in 1 .. high, i <= c PROVE Available(tf, h[i]) <= p
  <2>1. CASE i <= low
    <3>1. j.count > 0 /\ Available(tf, h[i]) <= f[j.count]
      BY <2>1, <1>1, <1>7 DEF JoinOK
    <3> QED BY <3>1, <1>2, <1>3
  <2>2. CASE i > low
    BY <2>2, <1>1, <1>6, <1>7 DEF Eligible
  <2> QED BY <2>1, <2>2, <1>1
<1>8. ASSUME NEW i \in 1 .. high, ~(i <= c) PROVE ~(Available(tf, h[i]) <= p)
  <2>1. c < high /\ c + 1 \in 1 .. high /\ c + 1 <= i /\ ~(Available(tf, h[c + 1]) <= p)
    BY <1>1, <1>6, <1>8 DEF Eligible
  <2>2. Available(tf, h[c + 1]) <= Available(tf, h[i])
    BY <2>1, <1>1, <1>8, EligibleFirst
  <2> QED BY <2>1, <2>2, <1>2, <1>3, <1>8
<1> QED BY <1>6, <1>7, <1>8

\* One update of the join keeps its invariant, and publishes the context that
\* the reference gives.
LEMMA JoinAdvances ==
    ASSUME NEW j, NEW f, HistoriesOK(higher), CandlesOK(f), JoinOK(j, higher, f),
           j.count < Len(f)
    PROVE  LET p == f[j.count + 1]
           IN /\ JoinOK(Joined(j, p), higher, f)
              /\ Joined(j, p).count = j.count + 1
              /\ Joined(j, p).known = j.known
              /\ Context(Joined(j, p)) = ContextTo(higher, j.known, p)
<1> DEFINE p == f[j.count + 1]
           cursor == [tf \in Timeframes |-> CursorAt(j, tf, p)]
           published == [tf \in Timeframes |-> j.published[tf] \cup
                            {higher[tf][i] : i \in j.cursor[tf] + 1 .. cursor[tf]}]
           n == Joined(j, p)
<1>1. j \in MtfType /\ j.count \in Nat
  BY DEF JoinOK, MtfType
<1>2. \A tf \in Timeframes :
        /\ cursor[tf] \in j.cursor[tf] .. j.known[tf]
        /\ \A i \in 1 .. j.known[tf] : i <= cursor[tf] <=> Available(tf, higher[tf][i]) <= p
  BY CursorStops
<1>3. \A tf \in Timeframes :
        /\ j.cursor[tf] \in Nat /\ j.known[tf] \in Nat /\ cursor[tf] \in Nat
        /\ j.cursor[tf] <= cursor[tf] /\ cursor[tf] <= j.known[tf]
        /\ j.known[tf] <= Len(higher[tf])
        /\ higher[tf] \in Seq(HigherCandle) /\ Ascending(higher[tf])
        /\ j.published[tf] = {higher[tf][i] : i \in 1 .. j.cursor[tf]}
  <2> HIDE DEF cursor
  <2> QED BY <1>1, <1>2 DEF JoinOK, MtfType, HistoriesOK
<1>4. /\ n.cursor = cursor /\ n.published = published
      /\ n.count = j.count + 1 /\ n.known = j.known
      /\ n = [known |-> j.known, cursor |-> cursor, published |-> published,
              count |-> j.count + 1]
  <2> HIDE DEF cursor
  <2>1. n = [j EXCEPT !.cursor = cursor, !.published = published, !.count = @ + 1]
    BY Zenon DEF Joined, cursor
  <2>2. j = [known |-> j.known, cursor |-> j.cursor, published |-> j.published,
             count |-> j.count]
    BY <1>1 DEF MtfType
  <2> HIDE DEF published, n
  <2> QED BY <2>1, <2>2
<1> HIDE DEF n, cursor
<1>5. \A tf \in Timeframes : published[tf] = {higher[tf][i] : i \in 1 .. cursor[tf]}
  <2> SUFFICES ASSUME NEW tf \in Timeframes
               PROVE  published[tf] = {higher[tf][i] : i \in 1 .. cursor[tf]}
    OBVIOUS
  <2>1. 1 .. cursor[tf] = (1 .. j.cursor[tf]) \cup (j.cursor[tf] + 1 .. cursor[tf])
    BY <1>3
  <2> QED BY <1>3, <2>1
<1>6. \A tf \in Timeframes : \A i \in 1 .. Len(higher[tf]) : higher[tf][i] \in HigherCandle
  BY <1>3
<1>7. n \in MtfType
  <2>1. cursor \in [Timeframes -> Nat]
    BY <1>3 DEF cursor
  <2>2. published \in [Timeframes -> SUBSET HigherCandle]
    <3>1. \A tf \in Timeframes : published[tf] \subseteq HigherCandle
      BY <1>3, <1>5, <1>6
    <3> QED BY <3>1
  <2> HIDE DEF published
  <2> QED BY <1>1, <1>4, <2>1, <2>2 DEF MtfType
<1>8. JoinOK(n, higher, f)
  <2> HIDE DEF published
  <2>1. n.count <= Len(f) /\ n.count > 0 /\ n.count # 0
    BY <1>1, <1>4 DEF CandlesOK
  <2>2. f[n.count] = p
    BY <1>4
  <2> QED BY <1>2, <1>3, <1>4, <1>5, <1>7, <2>1, <2>2 DEF JoinOK
<1>9. Context(n) = ContextTo(higher, j.known, p)
  <2> SUFFICES ASSUME NEW tf \in Timeframes
               PROVE  /\ n.published[tf] = KnownTo(higher[tf], j.known[tf], tf, p)
                      /\ (IF n.cursor[tf] = 0 THEN 0 ELSE higher[tf][n.cursor[tf]])
                             = LatestOf(KnownTo(higher[tf], j.known[tf], tf, p))
    BY DEF Context, ContextTo
  <2> DEFINE h == higher[tf]
             c == cursor[tf]
             K == KnownTo(h, j.known[tf], tf, p)
  <2>1. K = {h[i] : i \in 1 .. c}
    <3>1. {i \in 1 .. j.known[tf] : Available(tf, h[i]) <= p} = 1 .. c
      BY <1>2, <1>3
    <3> QED BY <3>1 DEF KnownTo
  <2>2. n.published[tf] = K
    BY <1>4, <1>5, <2>1
  <2>3. CASE c = 0
    <3>1. K = {}
      BY <2>1, <2>3
    <3> QED BY <1>4, <2>2, <2>3, <3>1 DEF LatestOf
  <2>4. CASE c # 0
    <3>1. c \in 1 .. Len(h) /\ h[c] \in K
      BY <1>3, <2>1, <2>4
    <3>2. \A i \in 1 .. c : h[i] \in Nat /\ h[i] <= h[c]
      <4> SUFFICES ASSUME NEW i \in 1 .. c PROVE h[i] \in Nat /\ h[i] <= h[c]
        OBVIOUS
      <4>1. i \in 1 .. Len(h)
        BY <1>3
      <4>2. h[i] \in Nat /\ h[c] \in Nat
        BY <1>6, <3>1, <4>1 DEF HigherCandle
      <4>3. i < c => h[i] < h[c]
        BY <1>3, <3>1, <4>1 DEF Ascending
      <4> QED BY <4>2, <4>3, <1>3
    <3>3. K \subseteq Nat /\ \A k \in K : k <= h[c]
      BY <2>1, <3>2
    <3> HIDE DEF K
    <3>4. (CHOOSE x \in K : \A k \in K : k <= x) = h[c]
      <4> DEFINE top == CHOOSE x \in K : \A k \in K : k <= x
      <4>1. \E x \in K : \A k \in K : k <= x
        BY <3>1, <3>3
      <4>2. top \in K /\ \A k \in K : k <= top
        BY <4>1
      <4> HIDE DEF top
      <4>3. top <= h[c] /\ h[c] <= top /\ top \in Nat /\ h[c] \in Nat
        BY <3>1, <3>3, <4>2
      <4>4. top = h[c]
        BY <4>3
      <4> QED BY <4>4 DEF top
    <3>5. K # {}
      BY <3>1
    <3> QED BY <1>4, <2>2, <2>4, <3>4, <3>5 DEF LatestOf, K
  <2> QED BY <2>3, <2>4
<1> QED BY <1>4, <1>8, <1>9 DEF n

\* One update of the engine keeps its invariant.
LEMMA EngineAdvances ==
    ASSUME NEW j, NEW n, NEW f, NEW e, n.count = j.count + 1, n.known = j.known,
           j.count \in Nat, EngineOK(e, market, j, higher, f)
    PROVE  EngineOK(Published(e, f[n.count], ContextTo(higher, n.known, f[n.count])),
                    market, n, higher, f)
<1> DEFINE p == f[n.count]
           c == ContextTo(higher, n.known, p)
           s == SnapshotIn(market, p, c, e.published)
           r == Published(e, p, c)
           before == SetupsIn(market, higher, j.known, f, j.count)
           now == SetupsIn(market, higher, n.known, f, n.count)
<1>1. e.published = before /\ e.count = j.count
  BY DEF EngineOK
<1>2. r = [published |-> IF s.status = "BUY_SIGNAL"
                         THEN e.published \cup {IdentityIn(market, p, c)} ELSE e.published,
           latest |-> s, count |-> e.count + 1]
  BY SameSnapshot, SameIdentity DEF Published
<1>3. s.status = IF StatusIn(market, p, c) = "BUY_SIGNAL" /\ IdentityIn(market, p, c) \in before
                 THEN "NO_SIGNAL" ELSE StatusIn(market, p, c)
  BY <1>1 DEF SnapshotIn
<1>4. now = before \cup (IF StatusIn(market, p, c) = "BUY_SIGNAL"
                         THEN {IdentityIn(market, p, c)} ELSE {})
  <2>1. 1 .. n.count = (1 .. j.count) \cup {n.count}
    OBVIOUS
  <2> QED BY <2>1 DEF SetupsIn
<1>5. r.published = now
  <2> HIDE DEF now, before, c, s, p
  <2> QED BY <1>1, <1>2, <1>3, <1>4
<1>6. r.latest = FrameIn(market, higher, n.known, f, n.count) /\ r.count = n.count
  <2>1. n.count - 1 = j.count
    OBVIOUS
  <2> QED BY <1>1, <1>2, <2>1 DEF FrameIn
<1>7. n.count # 0
  OBVIOUS
<1> QED BY <1>5, <1>6, <1>7 DEF EngineOK

-----------------------------------------------------------------------------
(* What the reference depends on. *)

\* Setups look at nothing but the candles and their contexts.
LEMMA ReferenceDependsOn ==
    ASSUME NEW m, NEW h, NEW h2, NEW k, NEW k2, NEW f, NEW f2, NEW n \in Nat,
           \A x \in 1 .. n : f2[x] = f[x] /\ ContextTo(h2, k2, f[x]) = ContextTo(h, k, f[x])
    PROVE  SetupsIn(m, h2, k2, f2, n) = SetupsIn(m, h, k, f, n)
<1> DEFINE Buy(x) == StatusIn(m, f[x], ContextTo(h, k, f[x])) = "BUY_SIGNAL"
           Buy2(x) == StatusIn(m, f2[x], ContextTo(h2, k2, f2[x])) = "BUY_SIGNAL"
           Id(x) == IdentityIn(m, f[x], ContextTo(h, k, f[x]))
           Id2(x) == IdentityIn(m, f2[x], ContextTo(h2, k2, f2[x]))
<1>1. \A x \in 1 .. n : Buy2(x) = Buy(x) /\ Id2(x) = Id(x)
  OBVIOUS
<1>2. {x \in 1 .. n : Buy2(x)} = {x \in 1 .. n : Buy(x)}
  BY <1>1
<1> DEFINE J == {x \in 1 .. n : Buy(x)}
<1>3. \A x \in J : Id2(x) = Id(x)
  BY <1>1
<1>4. SetupsIn(m, h2, k2, f2, n) = {Id2(x) : x \in J}
  BY <1>2 DEF SetupsIn
<1>5. SetupsIn(m, h, k, f, n) = {Id(x) : x \in J}
  BY DEF SetupsIn
<1> HIDE DEF J, Id, Id2
<1> QED BY <1>3, <1>4, <1>5

\* So does all that the engine holds.
LEMMA EngineTransfers ==
    ASSUME NEW e, NEW m, NEW j, NEW j2, NEW h, NEW h2, NEW f, NEW f2,
           EngineOK(e, m, j, h, f), j.count \in Nat, j2.count = j.count,
           \A x \in 1 .. j.count :
               f2[x] = f[x] /\ ContextTo(h2, j2.known, f[x]) = ContextTo(h, j.known, f[x])
    PROVE  EngineOK(e, m, j2, h2, f2)
<1>1. SetupsIn(m, h2, j2.known, f2, j.count) = SetupsIn(m, h, j.known, f, j.count)
  BY ReferenceDependsOn
<1>2. ASSUME j.count # 0
      PROVE FrameIn(m, h2, j2.known, f2, j.count) = FrameIn(m, h, j.known, f, j.count)
  <2>1. j.count - 1 \in Nat /\ 1 .. (j.count - 1) \subseteq 1 .. j.count
        /\ j.count \in 1 .. j.count
    BY <1>2
  <2>2. SetupsIn(m, h2, j2.known, f2, j.count - 1) = SetupsIn(m, h, j.known, f, j.count - 1)
    BY <2>1, ReferenceDependsOn
  <2> QED BY <2>1, <2>2 DEF FrameIn
<1> QED BY <1>1, <1>2 DEF EngineOK

\* A context looks at the candles the join was built over, no further.
LEMMA ContextLooksBack ==
    ASSUME NEW h, NEW h2, NEW k, NEW p,
           \A tf \in Timeframes : \A i \in 1 .. k[tf] : h2[tf][i] = h[tf][i]
    PROVE  ContextTo(h2, k, p) = ContextTo(h, k, p)
<1>1. \A tf \in Timeframes : KnownTo(h2[tf], k[tf], tf, p) = KnownTo(h[tf], k[tf], tf, p)
  <2> SUFFICES ASSUME NEW tf \in Timeframes
               PROVE  KnownTo(h2[tf], k[tf], tf, p) = KnownTo(h[tf], k[tf], tf, p)
    OBVIOUS
  <2>1. {i \in 1 .. k[tf] : Available(tf, h2[tf][i]) <= p}
            = {i \in 1 .. k[tf] : Available(tf, h[tf][i]) <= p}
    OBVIOUS
  <2> QED BY <2>1 DEF KnownTo
<1> QED BY <1>1 DEF ContextTo

\* With every higher candle taken in, the reference is that of Runtime.
LEMMA ReferenceIsFull ==
    ASSUME HistoriesOK(higher), NEW i \in Nat
    PROVE  /\ SetupsIn(market, higher, CountsOf(higher), frames, i) = Setups(i)
           /\ FrameIn(market, higher, CountsOf(higher), frames, i) = FullFrame(i)
<1>1. ASSUME NEW p, NEW tf \in Timeframes
      PROVE  KnownTo(higher[tf], Len(higher[tf]), tf, p) = Known(tf, p)
  <2>1. DOMAIN higher[tf] = 1 .. Len(higher[tf])
    BY DEF HistoriesOK
  <2> QED BY <2>1 DEF KnownTo, Known, Range
<1>2. ASSUME NEW p PROVE ContextTo(higher, CountsOf(higher), p) = FullContext(p)
  BY <1>1 DEF ContextTo, FullContext, CountsOf, LatestOf
<1>3. \A x : SetupsIn(market, higher, CountsOf(higher), frames, x) = Setups(x)
  BY <1>2, SameStatus, SameIdentity DEF SetupsIn, Setups
<1>4. FrameIn(market, higher, CountsOf(higher), frames, i) = FullFrame(i)
  BY <1>2, <1>3, SameSnapshot DEF FrameIn, FullFrame
<1> QED BY <1>3, <1>4

\* Higher candles that were not eligible for the last candle the join has seen
\* change none of the contexts it has published.
LEMMA FastForwardKeeps ==
    ASSUME NEW e, NEW m, NEW j, NEW h, NEW f, HistoriesOK(h), CandlesOK(f),
           JoinOK(j, h, f), EngineOK(e, m, j, h, f),
           j.count > 0 => \A tf \in Timeframes : \A i \in j.known[tf] + 1 .. Len(h[tf]) :
                              ~(Available(tf, h[tf][i]) <= f[j.count])
    PROVE  LET n == [j EXCEPT !.known = CountsOf(h)]
           IN JoinOK(n, h, f) /\ EngineOK(e, m, n, h, f)
<1> DEFINE n == [j EXCEPT !.known = CountsOf(h)]
<1>1. j \in MtfType /\ j.count \in Nat /\ j.count <= Len(f)
  BY DEF JoinOK, MtfType
<1>2. /\ n \in MtfType /\ n.known = CountsOf(h) /\ n.cursor = j.cursor
      /\ n.published = j.published /\ n.count = j.count
  <2>1. CountsOf(h) \in [Timeframes -> Nat]
    BY DEF CountsOf, HistoriesOK
  <2> QED BY <1>1, <2>1 DEF MtfType
<1> HIDE DEF n
<1>3. \A tf \in Timeframes :
        /\ CountsOf(h)[tf] = Len(h[tf]) /\ j.known[tf] \in Nat /\ j.cursor[tf] \in Nat
        /\ j.cursor[tf] <= j.known[tf] /\ j.known[tf] <= Len(h[tf]) /\ Len(h[tf]) \in Nat
  BY <1>1 DEF CountsOf, JoinOK, MtfType, HistoriesOK
<1>4. JoinOK(n, h, f)
  <2> SUFFICES ASSUME NEW tf \in Timeframes, j.count > 0, NEW i \in 1 .. Len(h[tf])
               PROVE  i <= j.cursor[tf] <=> Available(tf, h[tf][i]) <= f[j.count]
    BY <1>1, <1>2, <1>3 DEF JoinOK
  <2>1. CASE i <= j.known[tf]
    BY <1>3, <2>1 DEF JoinOK
  <2>2. CASE i > j.known[tf]
    BY <1>3, <2>2
  <2> QED BY <1>3, <2>1, <2>2
<1>5. \A x \in 1 .. j.count : ContextTo(h, CountsOf(h), f[x]) = ContextTo(h, j.known, f[x])
  <2> SUFFICES ASSUME NEW x \in 1 .. j.count, NEW tf \in Timeframes
               PROVE  KnownTo(h[tf], Len(h[tf]), tf, f[x]) = KnownTo(h[tf], j.known[tf], tf, f[x])
    BY <1>3 DEF ContextTo
  <2>1. f[x] \in Nat /\ f[j.count] \in Nat /\ f[x] <= f[j.count]
    <3>1. x \in 1 .. Len(f) /\ j.count \in 1 .. Len(f)
      BY <1>1 DEF CandlesOK
    <3>2. f[x] \in Candle /\ f[j.count] \in Candle /\ (x < j.count => f[x] < f[j.count])
      BY <3>1, <1>1 DEF CandlesOK, Ascending
    <3> QED BY <3>2, <1>1 DEF Candle
  <2>2. \A i \in 1 .. Len(h[tf]) : Available(tf, h[tf][i]) \in Nat
    BY AvailableType DEF HistoriesOK
  <2>3. \A i \in j.known[tf] + 1 .. Len(h[tf]) : ~(Available(tf, h[tf][i]) <= f[x])
    <3> SUFFICES ASSUME NEW i \in j.known[tf] + 1 .. Len(h[tf])
                 PROVE  ~(Available(tf, h[tf][i]) <= f[x])
      OBVIOUS
    <3>1. j.count > 0 /\ i \in 1 .. Len(h[tf])
      BY <1>1, <1>3
    <3>2. ~(Available(tf, h[tf][i]) <= f[j.count]) /\ Available(tf, h[tf][i]) \in Nat
      BY <2>2, <3>1
    <3> QED BY <2>1, <3>2
  <2>4. {i \in 1 .. Len(h[tf]) : Available(tf, h[tf][i]) <= f[x]}
            = {i \in 1 .. j.known[tf] : Available(tf, h[tf][i]) <= f[x]}
    BY <1>3, <2>3
  <2> QED BY <2>4 DEF KnownTo
<1>6. EngineOK(e, m, n, h, f)
  BY <1>1, <1>2, <1>5, EngineTransfers
<1> QED BY <1>4, <1>6 DEF n

\* A higher candle or a primary one at the end changes nothing of what the join
\* and the engine have seen.
LEMMA HistoryGrows ==
    ASSUME NEW e, NEW m, NEW j, NEW h, NEW h2, NEW f, NEW f2,
           HistoriesOK(h), HistoriesOK(h2), CandlesOK(f), CandlesOK(f2),
           JoinOK(j, h, f), EngineOK(e, m, j, h, f),
           Len(f) <= Len(f2), \A x \in 1 .. Len(f) : f2[x] = f[x],
           \A tf \in Timeframes :
               /\ Len(h[tf]) <= Len(h2[tf])
               /\ \A i \in 1 .. Len(h[tf]) : h2[tf][i] = h[tf][i]
    PROVE  JoinOK(j, h2, f2) /\ EngineOK(e, m, j, h2, f2)
<1>1. /\ j \in MtfType /\ j.count \in Nat /\ j.count <= Len(f)
      /\ Len(f) \in Nat /\ Len(f2) \in Nat
  BY DEF JoinOK, MtfType, CandlesOK
<1>2. \A tf \in Timeframes :
        /\ j.known[tf] \in Nat /\ j.cursor[tf] \in Nat /\ j.cursor[tf] <= j.known[tf]
        /\ j.known[tf] <= Len(h[tf]) /\ Len(h[tf]) \in Nat /\ Len(h2[tf]) \in Nat
  BY <1>1 DEF JoinOK, MtfType, HistoriesOK
<1>3. \A x \in 1 .. j.count : f2[x] = f[x]
  BY <1>1
<1>4. \A tf \in Timeframes : \A i \in 1 .. j.known[tf] : h2[tf][i] = h[tf][i]
  BY <1>2
<1>5. JoinOK(j, h2, f2)
  <2>1. ASSUME NEW tf \in Timeframes
        PROVE  j.published[tf] = {h2[tf][i] : i \in 1 .. j.cursor[tf]}
    <3>1. \A i \in 1 .. j.cursor[tf] : h2[tf][i] = h[tf][i]
      BY <1>2, <1>4
    <3> QED BY <3>1 DEF JoinOK
  <2>2. ASSUME NEW tf \in Timeframes, j.count > 0, NEW i \in 1 .. j.known[tf]
        PROVE  i <= j.cursor[tf] <=> Available(tf, h2[tf][i]) <= f2[j.count]
    BY <1>1, <1>3, <1>4, <2>2 DEF JoinOK
  <2>3. \A tf \in Timeframes : j.known[tf] <= Len(h2[tf])
    BY <1>2
  <2>4. j.count <= Len(f2)
    BY <1>1
  <2>5. \A tf \in Timeframes : j.count = 0 => j.cursor[tf] = 0
    BY DEF JoinOK
  <2> QED BY <1>1, <1>2, <2>1, <2>2, <2>3, <2>4, <2>5 DEF JoinOK
<1>6. \A x : ContextTo(h2, j.known, x) = ContextTo(h, j.known, x)
  <2> DEFINE k == j.known
  <2>1. \A tf \in Timeframes : \A i \in 1 .. k[tf] : h2[tf][i] = h[tf][i]
    BY <1>4
  <2> HIDE DEF k
  <2>2. \A x : ContextTo(h2, k, x) = ContextTo(h, k, x)
    BY <2>1, ContextLooksBack
  <2> QED BY <2>2 DEF k
<1>7. EngineOK(e, m, j, h2, f2)
  BY <1>1, <1>3, <1>6, EngineTransfers
<1> QED BY <1>5, <1>7

\* The lengths of the histories.
LEMMA CountsType ==
    ASSUME NEW h, HistoriesOK(h) PROVE CountsOf(h) \in [Timeframes -> Nat]
BY DEF CountsOf, HistoriesOK

\* A new join and a new engine have seen nothing.
LEMMA NothingSeen ==
    ASSUME NEW m, NEW h, NEW f, HistoriesOK(h), CandlesOK(f)
    PROVE  /\ JoinOK(FreshMtf(CountsOf(h)), h, f)
           /\ EngineOK(FreshEngine, m, FreshMtf(CountsOf(h)), h, f)
<1>1. CountsOf(h) \in [Timeframes -> Nat]
      /\ \A tf \in Timeframes : CountsOf(h)[tf] \in Nat /\ CountsOf(h)[tf] <= Len(h[tf])
  BY DEF CountsOf, HistoriesOK
<1>2. Len(f) \in Nat
  BY DEF CandlesOK
<1> DEFINE n == FreshMtf(CountsOf(h))
<1>3. n \in MtfType /\ n.count = 0 /\ n.known = CountsOf(h)
      /\ \A tf \in Timeframes : n.cursor[tf] = 0 /\ n.published[tf] = {}
  BY <1>1 DEF FreshMtf, MtfType
<1> HIDE DEF n
<1>4. JoinOK(n, h, f)
  BY <1>1, <1>2, <1>3 DEF JoinOK
<1>5. SetupsIn(m, h, n.known, f, 0) = {}
  BY DEF SetupsIn
<1> QED BY <1>3, <1>4, <1>5 DEF EngineOK, FreshEngine, n

\* The last candle of a history, zero for none.
LEMMA LastOfType ==
    ASSUME NEW b \in Nat, NEW s \in Seq(1 .. b) PROVE LastOf(s) \in Nat
<1>1. CASE s = <<>>
  BY <1>1 DEF LastOf
<1>2. CASE s # <<>>
  <2>1. Len(s) \in 1 .. Len(s)
    BY <1>2
  <2>2. s[Len(s)] \in 1 .. b
    BY <2>1
  <2> QED BY <1>2, <2>2 DEF LastOf
<1> QED BY <1>1, <1>2

\* The end of a history in order is before everything that may follow it.
LEMMA AppendInOrder ==
    ASSUME NEW b \in Nat, NEW s \in Seq(1 .. b), Ascending(s), NEW x \in 1 .. b, LastOf(s) < x
    PROVE  /\ Append(s, x) \in Seq(1 .. b) /\ Ascending(Append(s, x))
           /\ Len(Append(s, x)) = Len(s) + 1 /\ Append(s, x)[Len(s) + 1] = x
           /\ \A i \in 1 .. Len(s) : Append(s, x)[i] = s[i] /\ s[i] < x
<1>1. Len(s) \in Nat /\ \A i \in 1 .. Len(s) : s[i] \in 1 .. b
  OBVIOUS
<1>2. ASSUME NEW i \in 1 .. Len(s) PROVE s[i] < x
  <2>1. s # <<>> /\ Len(s) \in 1 .. Len(s) /\ LastOf(s) = s[Len(s)]
    BY <1>1 DEF LastOf
  <2>2. i < Len(s) => s[i] < s[Len(s)]
    BY <2>1 DEF Ascending
  <2>3. i < Len(s) \/ i = Len(s)
    BY <1>1
  <2>4. s[i] \in Nat /\ s[Len(s)] \in Nat /\ x \in Nat
    BY <1>1, <2>1
  <2> QED BY <2>1, <2>2, <2>3, <2>4
<1> DEFINE t == Append(s, x)
<1>3. /\ t \in Seq(1 .. b) /\ Len(t) = Len(s) + 1 /\ t[Len(s) + 1] = x
      /\ \A i \in 1 .. Len(s) : t[i] = s[i]
  OBVIOUS
<1> HIDE DEF t
<1>4. Ascending(t)
  <2> SUFFICES ASSUME NEW i \in 1 .. Len(t), NEW k \in 1 .. Len(t), i < k PROVE t[i] < t[k]
    BY DEF Ascending
  <2>1. i \in 1 .. Len(s) /\ (k \in 1 .. Len(s) \/ k = Len(s) + 1)
    <3>1. i \in 1 .. Len(s) + 1 /\ k \in 1 .. Len(s) + 1 /\ i < k /\ Len(s) \in Nat
      BY <1>1, <1>3
    <3> QED BY <3>1, SMTT(30)
  <2>2. CASE k \in 1 .. Len(s)
    BY <1>3, <2>1, <2>2 DEF Ascending
  <2>3. CASE k = Len(s) + 1
    BY <1>2, <1>3, <2>1, <2>3
  <2> QED BY <2>1, <2>2, <2>3
<1> QED BY <1>2, <1>3, <1>4 DEF t

-----------------------------------------------------------------------------
(* The invariant of the runtime and the service around it. *)

HistoryInv ==
    /\ market \in Markets
    /\ CandlesOK(frames) /\ CandlesOK(pending)
    /\ \A i \in 1 .. Len(frames), k \in 1 .. Len(pending) : frames[i] < pending[k]
    /\ ~warming => pending = <<>>
    /\ HistoriesOK(higher)
    /\ dirty \in BOOLEAN /\ warming \in BOOLEAN

SeenInv == JoinOK(mtf, higher, frames) /\ EngineOK(engine, market, mtf, higher, frames)

\* What update() has done when it is at pc.
Settled == mtf.count = Len(frames) /\ frameCount = Len(frames) /\ latest = engine.latest
PlaceInv ==
    /\ pc \in {"idle", "build", "replay", "advance", "verify", "refused_ledger"}
    /\ pc \in {"idle", "verify", "refused_ledger"} => Settled
    /\ pc \in {"build", "replay", "advance"} => Len(frames) > 0 /\ frameCount = Len(frames) - 1
    /\ pc \in {"build", "advance"} => mtf.count = Len(frames) - 1
    /\ pc \in {"advance", "verify"} => ~dirty
    /\ pc \in {"build", "replay"} => ~warming
    /\ pc = "verify" => warming /\ pending = <<>>
    /\ pc = "idle" /\ warming => pending # <<>>
    /\ ~dirty \/ pc = "replay" => mtf.known = CountsOf(higher)
    /\ pc # "replay" => built = mtf.known
    /\ built \in [Timeframes -> Nat]
    /\ pc = "idle" /\ fresh # <<>> => ~dirty

SavedInv ==
    /\ CandlesOK(saved.frames) /\ HistoriesOK(saved.higher)
    /\ saved.frames # <<>> =>
        /\ saved.published = SetupsIn(market, saved.higher, CountsOf(saved.higher),
                                      saved.frames, Len(saved.frames))
        /\ saved.latest = FrameIn(market, saved.higher, CountsOf(saved.higher),
                                  saved.frames, Len(saved.frames))
    /\ warming => ~dirty
    /\ warming /\ saved.frames # <<>> =>
        higher = saved.higher /\ saved.frames = frames \o pending

IInv == HistoryInv /\ SeenInv /\ PlaceInv /\ SavedInv

\* The first poll, nothing pushed yet.
LEMMA InitIInv == Init => IInv
<1> SUFFICES ASSUME Init PROVE IInv
  OBVIOUS
<1>1. PICK n \in Candle : pending = [i \in 1 .. n |-> i]
  BY DEF Init
<1>2. CandlesOK(frames) /\ CandlesOK(pending) /\ pending # <<>> /\ Len(frames) = 0
  <2>1. frames = <<>> /\ n \in Nat /\ n > 0 /\ n <= MaxPrimary
    BY <1>1, BoundsAssumption DEF Init, Candle
  <2>2. pending \in Seq(Candle) /\ Len(pending) = n
    BY <1>1, <2>1, BoundsAssumption DEF Candle
  <2> QED BY <1>1, <2>1, <2>2 DEF CandlesOK, Ascending
<1>3. HistoriesOK(higher)
  <2> SUFFICES ASSUME NEW tf \in Timeframes
               PROVE  higher[tf] \in Seq(HigherCandle) /\ Ascending(higher[tf])
    BY DEF HistoriesOK, Init
  <2>1. CASE higher[tf] = <<>>
    BY <2>1 DEF Ascending
  <2>2. CASE \E k \in HigherCandle : higher[tf] = [i \in 1 .. k |-> i]
    <3>1. PICK k \in HigherCandle : higher[tf] = [i \in 1 .. k |-> i]
      BY <2>2
    <3>2. k \in Nat /\ \A i \in 1 .. k : i \in HigherCandle
      BY BoundsAssumption DEF HigherCandle
    <3> QED BY <3>1, <3>2 DEF Ascending
  <2> QED BY <2>1, <2>2 DEF Init
<1>4. HigherCounts = CountsOf(higher)
  BY DEF HigherCounts, CountsOf
<1>5. HistoryInv
  <2>1. 1 .. Len(frames) = {}
    BY <1>2
  <2>2. market \in Markets /\ dirty = FALSE /\ warming = TRUE
    BY DEF Init
  <2> QED BY <1>2, <1>3, <2>1, <2>2 DEF HistoryInv
<1>6. SeenInv
  BY <1>2, <1>3, <1>4, NothingSeen DEF SeenInv, Init
<1>7. PlaceInv
  BY <1>2, <1>3, <1>4, CountsType DEF PlaceInv, Settled, Init, FreshMtf, FreshEngine
<1>8. SavedInv
  BY <1>2, <1>3 DEF SavedInv, Init
<1> QED BY <1>5, <1>6, <1>7, <1>8 DEF IInv

\* A higher candle at the end of its history.
LEMMA AcceptHigherIInv == IInv /\ AcceptHigher => IInv'
<1> SUFFICES ASSUME IInv, AcceptHigher PROVE IInv'
  OBVIOUS
<1>1. PICK tf \in Timeframes, n \in HigherCandle : ExtendHigher(tf, n)
  BY DEF AcceptHigher
<1>2. HistoriesOK(higher) /\ CandlesOK(frames)
  BY DEF IInv, HistoryInv
<1>3. /\ \A t \in Timeframes : higher'[t] = IF t = tf THEN Append(higher[tf], n) ELSE higher[t]
      /\ DOMAIN higher' = Timeframes /\ higher' = [t \in Timeframes |-> higher'[t]]
  BY <1>1, <1>2 DEF ExtendHigher, HistoriesOK
<1>4. /\ Append(higher[tf], n) \in Seq(HigherCandle) /\ Ascending(Append(higher[tf], n))
      /\ Len(Append(higher[tf], n)) = Len(higher[tf]) + 1
      /\ \A i \in 1 .. Len(higher[tf]) : Append(higher[tf], n)[i] = higher[tf][i]
  <2>1. LastOf(higher[tf]) < n
    <3>1. n > LastOf(higher[tf])
      BY <1>1 DEF ExtendHigher
    <3>2. LastOf(higher[tf]) \in Nat /\ n \in Nat
      BY <1>2, BoundsAssumption, LastOfType DEF HistoriesOK, HigherCandle
    <3> QED BY <3>1, <3>2
  <2>2. HigherCandle = 1 .. MaxHigher /\ MaxHigher \in Nat
    BY BoundsAssumption DEF HigherCandle
  <2> QED BY <1>2, <2>1, <2>2, AppendInOrder DEF HistoriesOK
<1>5. HistoriesOK(higher')
  BY <1>2, <1>3, <1>4 DEF HistoriesOK
<1>6. \A t \in Timeframes : /\ Len(higher[t]) <= Len(higher'[t])
                            /\ \A i \in 1 .. Len(higher[t]) : higher'[t][i] = higher[t][i]
  BY <1>2, <1>3, <1>4 DEF HistoriesOK
<1>7. UNCHANGED <<market, frames, frameCount, latest, built, mtf, engine, pc, serviceVars,
                  durableVars>> /\ dirty' = TRUE /\ pc = "idle" /\ ~warming /\ fresh = <<>>
  BY DEF AcceptHigher
<1>8. HistoryInv'
  BY <1>5, <1>7 DEF HistoryInv, IInv, serviceVars
<1>9. SeenInv'
  <2>1. JoinOK(mtf, higher', frames) /\ EngineOK(engine, market, mtf, higher', frames)
    <3>1. Len(frames) <= Len(frames) /\ \A x \in 1 .. Len(frames) : frames[x] = frames[x]
      BY <1>2 DEF CandlesOK
    <3>2. JoinOK(mtf, higher, frames) /\ EngineOK(engine, market, mtf, higher, frames)
      BY DEF IInv, SeenInv
    <3> QED BY <1>2, <1>5, <1>6, <3>1, <3>2, HistoryGrows
  <2> QED BY <1>7, <2>1 DEF SeenInv
<1>10. PlaceInv'
  BY <1>7 DEF PlaceInv, IInv, Settled, serviceVars
<1>11. SavedInv'
  BY <1>7 DEF SavedInv, IInv, serviceVars, durableVars
<1> QED BY <1>8, <1>9, <1>10, <1>11 DEF IInv

\* A primary candle behind the last one and before those that are pending.
LEMMA PushIInv ==
    ASSUME IInv, pc = "idle", NEW p \in Candle, LastOf(frames) < p, PushPrimary(p),
           CandlesOK(pending'), \A k \in 1 .. Len(pending') : p < pending'[k],
           ~warming => pending' = <<>>, warming => frames \o pending = frames' \o pending',
           \A k \in 1 .. Len(pending') : \A i \in 1 .. Len(frames) : frames[i] < pending'[k]
    PROVE  IInv'
<1>1. HistoriesOK(higher) /\ CandlesOK(frames) /\ Len(frames) \in Nat
  BY DEF IInv, HistoryInv, CandlesOK
<1>2. /\ frames' = Append(frames, p) /\ pc' = IF dirty THEN "build" ELSE "advance"
      /\ UNCHANGED <<market, higher, dirty, frameCount, latest, built, mtf, engine, warming,
                     fresh, durableVars>>
  BY DEF PushPrimary
<1>3. /\ CandlesOK(frames') /\ Len(frames') = Len(frames) + 1 /\ frames'[Len(frames) + 1] = p
      /\ \A i \in 1 .. Len(frames) : frames'[i] = frames[i]
  <2>1. Candle = 1 .. MaxPrimary /\ MaxPrimary \in Nat
    BY BoundsAssumption DEF Candle
  <2> QED BY <1>1, <1>2, <2>1, AppendInOrder DEF CandlesOK
<1>4. HistoryInv'
  <2>1. \A i \in 1 .. Len(frames'), k \in 1 .. Len(pending') : frames'[i] < pending'[k]
    <3> SUFFICES ASSUME NEW i \in 1 .. Len(frames'), NEW k \in 1 .. Len(pending')
                 PROVE  frames'[i] < pending'[k]
      OBVIOUS
    <3>1. i \in 1 .. Len(frames) \/ i = Len(frames) + 1
      BY <1>1, <1>3
    <3> QED BY <1>3, <3>1
  <2> QED BY <1>2, <1>3, <2>1 DEF HistoryInv, IInv
<1>5. SeenInv'
  <2>1. JoinOK(mtf, higher, frames') /\ EngineOK(engine, market, mtf, higher, frames')
    <3>1. Len(frames) <= Len(frames')
      BY <1>1, <1>3
    <3>2. \A t \in Timeframes : /\ Len(higher[t]) <= Len(higher[t])
                                /\ \A i \in 1 .. Len(higher[t]) : higher[t][i] = higher[t][i]
      BY <1>1 DEF HistoriesOK
    <3>3. JoinOK(mtf, higher, frames) /\ EngineOK(engine, market, mtf, higher, frames)
      BY DEF IInv, SeenInv
    <3> QED BY <1>1, <1>3, <3>1, <3>2, <3>3, HistoryGrows
  <2> QED BY <1>2, <2>1 DEF SeenInv
<1>6. PlaceInv'
  <2>1. dirty \in BOOLEAN /\ Settled
    BY DEF IInv, HistoryInv, PlaceInv
  <2>2. warming => ~dirty
    BY DEF IInv, SavedInv
  <2> QED BY <1>1, <1>2, <1>3, <2>1, <2>2 DEF PlaceInv, IInv, Settled
<1>7. SavedInv'
  <2>1. UNCHANGED <<saved, warming, dirty, higher, market>>
    BY <1>2 DEF durableVars
  <2>2. warming /\ saved.frames # <<>> =>
            higher = saved.higher /\ saved.frames = frames' \o pending'
    BY DEF IInv, SavedInv
  <2> QED BY <2>1, <2>2 DEF SavedInv, IInv
<1> QED BY <1>4, <1>5, <1>6, <1>7 DEF IInv

\* A candle of the cycle, nothing pending.
LEMMA AcceptPrimaryIInv == IInv /\ AcceptPrimary => IInv'
<1> SUFFICES ASSUME IInv, AcceptPrimary PROVE IInv'
  OBVIOUS
<1>1. PICK p \in Candle : p \in LastOf(frames) + 1 .. LastOf(frames) + 2 /\ PushPrimary(p)
  BY DEF AcceptPrimary
<1>2. LastOf(frames) < p
  <2>1. LastOf(frames) \in Nat
    BY BoundsAssumption, LastOfType DEF IInv, HistoryInv, CandlesOK, Candle
  <2> QED BY <1>1, <2>1
<1>3. pc = "idle" /\ ~warming /\ pending' = pending /\ pending = <<>> /\ CandlesOK(pending)
  BY DEF AcceptPrimary, IInv, HistoryInv
<1> QED BY <1>1, <1>2, <1>3, PushIInv

\* The first of the candles that are pending.
LEMMA WarmUpIInv == IInv /\ WarmUp => IInv'
<1> SUFFICES ASSUME IInv, WarmUp PROVE IInv'
  OBVIOUS
<1>1. /\ pc = "idle" /\ warming /\ PushPrimary(Head(pending)) /\ pending' = Tail(pending)
      /\ pending # <<>> /\ CandlesOK(pending) /\ CandlesOK(frames)
      /\ \A i \in 1 .. Len(frames), k \in 1 .. Len(pending) : frames[i] < pending[k]
  BY DEF WarmUp, IInv, HistoryInv, PlaceInv
<1>2. /\ Head(pending) \in Candle /\ Head(pending) = pending[1] /\ Len(pending) \in Nat
      /\ 1 \in 1 .. Len(pending) /\ Tail(pending) \in Seq(Candle)
      /\ Len(Tail(pending)) = Len(pending) - 1
      /\ \A k \in 1 .. Len(Tail(pending)) : Tail(pending)[k] = pending[k + 1]
                                            /\ k + 1 \in 1 .. Len(pending)
  BY <1>1 DEF CandlesOK
<1>3. CandlesOK(pending') /\ \A k \in 1 .. Len(pending') : Head(pending) < pending'[k]
  BY <1>1, <1>2 DEF CandlesOK, Ascending
<1>4. LastOf(frames) < Head(pending)
  <2>1. CASE frames = <<>>
    BY <1>2, <2>1 DEF LastOf, Candle
  <2>2. CASE frames # <<>>
    <3>1. Len(frames) \in 1 .. Len(frames)
      BY <1>1, <2>2 DEF CandlesOK
    <3> QED BY <1>1, <1>2, <2>2, <3>1 DEF LastOf
  <2> QED BY <2>1, <2>2
<1>5. frames' = Append(frames, Head(pending)) /\ frames \in Seq(Candle) /\ pending \in Seq(Candle)
  BY <1>1 DEF PushPrimary, CandlesOK
<1>6. frames \o pending = frames' \o pending'
  BY <1>1, <1>2, <1>5
<1>7. \A k \in 1 .. Len(pending') : \A i \in 1 .. Len(frames) : frames[i] < pending'[k]
  BY <1>1, <1>2
<1> QED BY <1>1, <1>2, <1>3, <1>4, <1>6, <1>7, PushIInv

\* The join over the longer histories, when none of their new candles is
\* eligible for the last open.
LEMMA FastForwardIInv == IInv /\ FastForward => IInv'
<1> SUFFICES ASSUME IInv, FastForward PROVE IInv'
  OBVIOUS
<1>1. /\ mtf' = [mtf EXCEPT !.known = CountsOf(higher)] /\ built' = CountsOf(higher)
      /\ dirty' = FALSE /\ pc' = "advance" /\ pc = "build" /\ ~AffectsProcessed
      /\ UNCHANGED <<market, frames, higher, frameCount, latest, engine, serviceVars, durableVars>>
  BY DEF FastForward, CanFastForward, Restored, HigherCounts, CountsOf
<1>2. /\ HistoriesOK(higher) /\ CandlesOK(frames)
      /\ JoinOK(mtf, higher, frames) /\ EngineOK(engine, market, mtf, higher, frames)
  BY DEF IInv, HistoryInv, SeenInv
<1>3. mtf \in MtfType /\ mtf.count \in Nat /\ mtf.count <= Len(frames) /\ Len(frames) \in Nat
  BY <1>2 DEF JoinOK, MtfType, CandlesOK
<1>4. built = mtf.known
  BY <1>1 DEF IInv, PlaceInv
<1>5. mtf.count > 0 => \A tf \in Timeframes : \A i \in mtf.known[tf] + 1 .. Len(higher[tf]) :
                           ~(Available(tf, higher[tf][i]) <= frames[mtf.count])
  BY <1>1, <1>3, <1>4 DEF AffectsProcessed, Eligible
<1>6. JoinOK(mtf', higher, frames) /\ EngineOK(engine, market, mtf', higher, frames)
  <2>1. LET n == [mtf EXCEPT !.known = CountsOf(higher)]
        IN JoinOK(n, higher, frames) /\ EngineOK(engine, market, n, higher, frames)
    BY <1>2, <1>5, FastForwardKeeps
  <2> QED BY <1>1, <2>1
<1>7. mtf'.known = CountsOf(higher) /\ mtf'.count = mtf.count
  BY <1>1, <1>3 DEF MtfType
<1>8. HistoryInv'
  BY <1>1 DEF HistoryInv, IInv, serviceVars
<1>9. SeenInv'
  BY <1>1, <1>6 DEF SeenInv
<1>10. PlaceInv'
  BY <1>1, <1>2, <1>7, CountsType DEF PlaceInv, IInv, serviceVars
<1>11. SavedInv'
  BY <1>1 DEF SavedInv, IInv, serviceVars, durableVars
<1> QED BY <1>8, <1>9, <1>10, <1>11 DEF IInv

\* A new join over all the higher candles, for the replay to fill.
LEMMA RebuildIInv == IInv /\ Rebuild => IInv'
<1> SUFFICES ASSUME IInv, Rebuild PROVE IInv'
  OBVIOUS
<1>1. /\ mtf' = FreshMtf(CountsOf(higher)) /\ engine' = FreshEngine
      /\ pc = "build" /\ pc' = "replay"
      /\ UNCHANGED <<market, frames, higher, dirty, frameCount, latest, built, serviceVars,
                     durableVars>>
  BY DEF Rebuild, HigherCounts, CountsOf
<1>2. HistoriesOK(higher) /\ CandlesOK(frames)
  BY DEF IInv, HistoryInv
<1>3. SeenInv'
  BY <1>1, <1>2, NothingSeen DEF SeenInv
<1>4. mtf'.known = CountsOf(higher)
  BY <1>1 DEF FreshMtf
<1>5. HistoryInv'
  BY <1>1 DEF HistoryInv, IInv, serviceVars
<1>6. PlaceInv'
  BY <1>1, <1>4 DEF PlaceInv, IInv, serviceVars
<1>7. SavedInv'
  BY <1>1 DEF SavedInv, IInv, serviceVars, durableVars
<1> QED BY <1>3, <1>5, <1>6, <1>7 DEF IInv

\* One frame more for the join and the engine.
LEMMA AdvanceSeen ==
    ASSUME IInv, mtf.count < Len(frames), AdvanceDownstream(frames[mtf.count + 1])
    PROVE  /\ JoinOK(mtf', higher, frames) /\ EngineOK(engine', market, mtf', higher, frames)
           /\ mtf'.count = mtf.count + 1 /\ mtf'.known = mtf.known
<1> DEFINE p == frames[mtf.count + 1]
<1>1. /\ HistoriesOK(higher) /\ CandlesOK(frames)
      /\ JoinOK(mtf, higher, frames) /\ EngineOK(engine, market, mtf, higher, frames)
  BY DEF IInv, HistoryInv, SeenInv
<1>2. mtf.count \in Nat
  BY <1>1 DEF JoinOK, MtfType
<1> DEFINE n == Joined(mtf, p)
<1>3. mtf' = n /\ engine' = Published(engine, p, Context(n))
  BY DEF AdvanceDownstream
<1>4. /\ JoinOK(n, higher, frames) /\ n.count = mtf.count + 1 /\ n.known = mtf.known
      /\ Context(n) = ContextTo(higher, mtf.known, p)
  BY <1>1, JoinAdvances
<1> HIDE DEF n
<1>5. EngineOK(Published(engine, frames[n.count], ContextTo(higher, n.known, frames[n.count])),
               market, n, higher, frames)
  BY <1>1, <1>2, <1>4, EngineAdvances
<1> QED BY <1>3, <1>4, <1>5

\* One frame of the replay.
LEMMA ReplayIInv == IInv /\ Replay => IInv'
<1> SUFFICES ASSUME IInv, Replay PROVE IInv'
  OBVIOUS
<1>1. /\ pc = "replay" /\ mtf.count < Len(frames) /\ AdvanceDownstream(frames[mtf.count + 1])
      /\ UNCHANGED <<market, frames, higher, dirty, frameCount, latest, built, pc, serviceVars,
                     durableVars>>
  BY DEF Replay
<1>2. /\ JoinOK(mtf', higher, frames) /\ EngineOK(engine', market, mtf', higher, frames)
      /\ mtf'.known = mtf.known
  BY <1>1, AdvanceSeen
<1>3. HistoryInv'
  BY <1>1 DEF HistoryInv, IInv, serviceVars
<1>4. SeenInv'
  BY <1>1, <1>2 DEF SeenInv
<1>5. PlaceInv'
  BY <1>1, <1>2 DEF PlaceInv, IInv, serviceVars
<1>6. SavedInv'
  BY <1>1 DEF SavedInv, IInv, serviceVars, durableVars
<1> QED BY <1>3, <1>4, <1>5, <1>6 DEF IInv

\* update() returns with every higher candle taken in.
LEMMA ReturnIInv ==
    ASSUME IInv, pc \in {"replay", "advance"}, Return(engine'.latest),
           UNCHANGED <<market, frames, higher, pending, warming, durableVars>>,
           dirty' = FALSE, built' = mtf'.known, mtf'.known = CountsOf(higher),
           mtf'.count = Len(frames),
           JoinOK(mtf', higher, frames), EngineOK(engine', market, mtf', higher, frames)
    PROVE  IInv'
<1>1. /\ frameCount' = frameCount + 1 /\ latest' = engine'.latest
      /\ pc' = IF warming /\ pending = <<>> THEN "verify" ELSE "idle"
  BY DEF Return
<1>2. HistoryInv'
  BY DEF HistoryInv, IInv
<1>3. SeenInv'
  BY DEF SeenInv
<1>4. PlaceInv'
  <2>1. frameCount = Len(frames) - 1 /\ Len(frames) \in Nat
    BY DEF IInv, PlaceInv, HistoryInv, CandlesOK
  <2>2. Settled'
    BY <1>1, <2>1 DEF Settled
  <2>3. built' \in [Timeframes -> Nat]
    BY CountsType DEF IInv, HistoryInv
  <2> QED BY <1>1, <2>2, <2>3 DEF PlaceInv
<1>5. SavedInv'
  BY DEF SavedInv, IInv, durableVars
<1> QED BY <1>2, <1>3, <1>4, <1>5 DEF IInv

\* The replay has seen every candle.
LEMMA ReplayDoneIInv == IInv /\ ReplayDone => IInv'
<1> SUFFICES ASSUME IInv, ReplayDone PROVE IInv'
  OBVIOUS
<1>1. /\ pc = "replay" /\ mtf.count = Len(frames) /\ built' = CountsOf(higher) /\ dirty' = FALSE
      /\ Return(engine.latest)
      /\ UNCHANGED <<market, frames, higher, mtf, engine, pending, warming, durableVars>>
  BY DEF ReplayDone, HigherCounts, CountsOf
<1>2. mtf.known = CountsOf(higher)
  BY <1>1 DEF IInv, PlaceInv
<1>3. JoinOK(mtf, higher, frames) /\ EngineOK(engine, market, mtf, higher, frames)
  BY DEF IInv, SeenInv
<1>4. mtf' = mtf /\ engine' = engine
  BY <1>1
<1>5. Return(engine'.latest)
  BY <1>1, <1>4
<1> QED BY <1>1, <1>2, <1>3, <1>4, <1>5, ReturnIInv

\* The one candle that was pushed, the join being up to date.
LEMMA AdvanceIInv == IInv /\ Advance => IInv'
<1> SUFFICES ASSUME IInv, Advance PROVE IInv'
  OBVIOUS
<1>1. /\ pc = "advance" /\ AdvanceDownstream(frames[Len(frames)]) /\ Return(engine'.latest)
      /\ UNCHANGED <<market, frames, higher, dirty, built, pending, warming, durableVars>>
  BY DEF Advance
<1>2. /\ mtf.count = Len(frames) - 1 /\ mtf.known = CountsOf(higher) /\ built = mtf.known
      /\ dirty = FALSE /\ Len(frames) \in Nat
  BY <1>1 DEF IInv, PlaceInv, HistoryInv, CandlesOK
<1>3. mtf.count < Len(frames) /\ mtf.count + 1 = Len(frames)
  BY <1>2
<1>4. /\ JoinOK(mtf', higher, frames) /\ EngineOK(engine', market, mtf', higher, frames)
      /\ mtf'.count = Len(frames) /\ mtf'.known = mtf.known
  BY <1>1, <1>3, AdvanceSeen
<1> QED BY <1>1, <1>2, <1>4, ReturnIInv

\* What a checkpoint of a runtime that has taken in everything holds.
LEMMA ExportSaves ==
    ASSUME IInv, pc \in {"idle", "verify"}, ~dirty, frames # <<>>
    PROVE  /\ Export.published = SetupsIn(market, higher, CountsOf(higher), frames, Len(frames))
           /\ Export.latest = FrameIn(market, higher, CountsOf(higher), frames, Len(frames))
<1>1. /\ EngineOK(engine, market, mtf, higher, frames) /\ mtf.known = CountsOf(higher)
      /\ mtf.count = Len(frames) /\ latest = engine.latest /\ Len(frames) \in Nat \ {0}
  BY DEF IInv, SeenInv, PlaceInv, Settled, HistoryInv, CandlesOK
<1> QED BY <1>1 DEF EngineOK, Export

\* Taking such a checkpoint.
LEMMA SavesIInv ==
    ASSUME IInv, pc \in {"idle", "verify"}, ~dirty, saved' = Export, ~warming',
           UNCHANGED <<market, higher, dirty, frames>>
    PROVE  SavedInv'
<1>1. /\ saved' = [frames |-> frames, higher |-> higher, published |-> engine.published,
                   latest |-> latest]
  BY DEF Export
<1>2. CandlesOK(frames) /\ HistoriesOK(higher)
  BY DEF IInv, HistoryInv
<1>3. saved'.frames = frames /\ saved'.higher = higher
      /\ saved'.published = Export.published /\ saved'.latest = Export.latest
  BY <1>1
<1>4. frames # <<>> =>
        /\ saved'.published = SetupsIn(market, higher, CountsOf(higher), frames, Len(frames))
        /\ saved'.latest = FrameIn(market, higher, CountsOf(higher), frames, Len(frames))
  BY <1>3, ExportSaves
<1> QED BY <1>2, <1>3, <1>4 DEF SavedInv

\* The end of a cycle.
LEMMA FinishCycleIInv == IInv /\ FinishCycle => IInv'
<1> SUFFICES ASSUME IInv, FinishCycle PROVE IInv'
  OBVIOUS
<1>1. /\ pc = "idle" /\ ~warming /\ fresh # <<>> /\ saved' = Export /\ fresh' = <<>>
      /\ UNCHANGED <<market, frames, higher, dirty, frameCount, latest, built, mtf, engine, pc,
                     pending, warming>>
  BY DEF FinishCycle, runtimeVars
<1>2. ~dirty
  BY <1>1 DEF IInv, PlaceInv
<1>3. SavedInv'
  BY <1>1, <1>2, SavesIInv
<1>4. HistoryInv'
  BY <1>1 DEF HistoryInv, IInv
<1>5. SeenInv'
  BY <1>1 DEF SeenInv, IInv
<1>6. PlaceInv'
  BY <1>1 DEF PlaceInv, IInv, Settled
<1> QED BY <1>3, <1>4, <1>5, <1>6 DEF IInv

\* What the warm-up has regenerated is what the checkpoint holds.
LEMMA RegeneratedAgrees == IInv /\ pc = "verify" => CheckpointAgrees
<1> SUFFICES ASSUME IInv, pc = "verify", saved.frames # <<>>
             PROVE  /\ engine.published = saved.published /\ latest = saved.latest
                    /\ frameCount = Len(saved.frames)
  BY DEF CheckpointAgrees
<1>1. warming /\ pending = <<>> /\ ~dirty /\ frameCount = Len(frames)
  BY DEF IInv, PlaceInv, Settled
<1>2. higher = saved.higher /\ saved.frames = frames
  <2>1. higher = saved.higher /\ saved.frames = frames \o pending /\ frames \in Seq(Candle)
    BY <1>1 DEF IInv, SavedInv, HistoryInv, CandlesOK
  <2> QED BY <1>1, <2>1
<1>3. engine.published = Export.published /\ latest = Export.latest
  BY DEF Export
<1> QED BY <1>1, <1>2, <1>3, ExportSaves DEF IInv, SavedInv

\* The startup goes on or is refused by the ledger.
LEMMA VerifyIInv == IInv /\ Verify => IInv'
<1> SUFFICES ASSUME IInv, Verify PROVE IInv'
  OBVIOUS
<1>1. pc = "verify" /\ CheckpointAgrees /\ ~dirty /\ pending = <<>>
  BY RegeneratedAgrees DEF Verify, IInv, PlaceInv
<1>2. UNCHANGED <<market, frames, higher, dirty, frameCount, latest, built, mtf, engine, pending>>
  BY DEF Verify, runtimeVars
<1>3. CASE LedgerAgrees
  <2>1. pc' = "idle" /\ warming' = FALSE /\ saved' = Export /\ fresh' = <<>>
    BY <1>1, <1>3 DEF Verify
  <2>2. SavedInv'
    BY <1>1, <1>2, <2>1, SavesIInv
  <2>3. HistoryInv'
    BY <1>1, <1>2, <2>1 DEF HistoryInv, IInv
  <2>4. SeenInv'
    BY <1>2 DEF SeenInv, IInv
  <2>5. PlaceInv'
    BY <1>1, <1>2, <2>1 DEF PlaceInv, IInv, Settled
  <2> QED BY <2>2, <2>3, <2>4, <2>5 DEF IInv
<1>4. CASE ~LedgerAgrees
  <2>1. pc' = "refused_ledger" /\ UNCHANGED <<saved, fresh, warming>>
    BY <1>1, <1>4 DEF Verify
  <2>2. SavedInv'
    BY <1>2, <2>1 DEF SavedInv, IInv
  <2>3. HistoryInv'
    BY <1>2, <2>1 DEF HistoryInv, IInv
  <2>4. SeenInv'
    BY <1>2 DEF SeenInv, IInv
  <2>5. PlaceInv'
    BY <1>1, <1>2, <2>1 DEF PlaceInv, IInv, Settled
  <2> QED BY <2>2, <2>3, <2>4, <2>5 DEF IInv
<1> QED BY <1>3, <1>4

\* A new process over the saved higher candles, the saved frames pending.
LEMMA RestartIInv == IInv /\ Restart => IInv'
<1> SUFFICES ASSUME IInv, Restart PROVE IInv'
  OBVIOUS
<1>1. /\ higher' = saved.higher /\ built' = CountsOf(saved.higher)
      /\ mtf' = FreshMtf(CountsOf(saved.higher)) /\ engine' = FreshEngine
      /\ frames' = <<>> /\ dirty' = FALSE /\ frameCount' = 0 /\ latest' = NoFrame
      /\ pending' = saved.frames /\ warming' = TRUE /\ fresh' = <<>> /\ pc' = "idle"
      /\ market' = market /\ saved' = saved /\ saved.frames # <<>>
  BY DEF Restart, CountsOf
<1>2. CandlesOK(saved.frames) /\ HistoriesOK(saved.higher)
  BY DEF IInv, SavedInv
<1>3. CandlesOK(<<>>) /\ Len(<<>>) = 0
  BY DEF CandlesOK, Ascending
<1>4. HistoryInv'
  <2>1. 1 .. Len(frames') = {}
    BY <1>1
  <2>2. market' \in Markets
    BY <1>1 DEF IInv, HistoryInv
  <2> QED BY <1>1, <1>2, <1>3, <2>1, <2>2 DEF HistoryInv
<1>5. SeenInv'
  BY <1>1, <1>2, <1>3, NothingSeen DEF SeenInv
<1>6. PlaceInv'
  BY <1>1, <1>2, <1>3, CountsType DEF PlaceInv, Settled, FreshMtf, FreshEngine
<1>7. SavedInv'
  <2>1. saved.frames = <<>> \o saved.frames
    BY <1>2 DEF CandlesOK
  <2> QED BY <1>1, <2>1 DEF SavedInv, IInv
<1> QED BY <1>4, <1>5, <1>6, <1>7 DEF IInv

\* Nothing changes.
LEMMA StutterIInv == IInv /\ UNCHANGED vars => IInv'
BY DEF IInv, HistoryInv, SeenInv, PlaceInv, Settled, SavedInv, vars, runtimeVars, serviceVars,
       durableVars

\* Every reachable state: the join and the engine hold exactly what the
\* candles they have seen give with the higher candles they were built over.
THEOREM RuntimeInvariant == Spec => []IInv
<1>1. IInv /\ [Next]_vars => IInv'
  BY AcceptHigherIInv, AcceptPrimaryIInv, WarmUpIInv, FastForwardIInv, RebuildIInv, ReplayIInv,
     ReplayDoneIInv, AdvanceIInv, FinishCycleIInv, RestartIInv, VerifyIInv, StutterIInv
  DEF Next
<1> QED BY InitIInv, <1>1, PTL DEF Spec

\* live/runtime.py, "either path is frame-for-frame equivalent": whatever
\* mixture of fast-forwards, rebuilds and restarts came before, the fence and
\* the frame that update() returned are those of the whole history.
THEOREM PathsAreEquivalent == Spec => []EitherPathIsEquivalent
<1>1. IInv => EitherPathIsEquivalent
  <2> SUFFICES ASSUME IInv, pc = "idle", ~dirty
               PROVE  /\ engine.published = Setups(Len(frames))
                      /\ frames # <<>> => latest = FullFrame(Len(frames))
    BY DEF EitherPathIsEquivalent
  <2>1. /\ HistoriesOK(higher) /\ EngineOK(engine, market, mtf, higher, frames)
        /\ mtf.known = CountsOf(higher) /\ mtf.count = Len(frames) /\ latest = engine.latest
        /\ Len(frames) \in Nat /\ (frames # <<>> => Len(frames) # 0)
    BY DEF IInv, SeenInv, PlaceInv, Settled, HistoryInv, CandlesOK
  <2>2. /\ SetupsIn(market, higher, CountsOf(higher), frames, Len(frames)) = Setups(Len(frames))
        /\ FrameIn(market, higher, CountsOf(higher), frames, Len(frames))
               = FullFrame(Len(frames))
    BY <2>1, ReferenceIsFull
  <2> QED BY <2>1, <2>2 DEF EngineOK
<1> QED BY <1>1, RuntimeInvariant, PTL

\* A restart never refuses the checkpoint that the runtime itself has written.
THEOREM CheckpointResumes == Spec => []CheckpointIsReproduced
<1>1. IInv => CheckpointIsReproduced
  BY DEF IInv, PlaceInv, CheckpointIsReproduced
<1> QED BY <1>1, RuntimeInvariant, PTL

\* live/runtime.py and the startup in live/service.py: update() and a restart from
\* the checkpoint both give the chain of the whole history.
THEOREM HistoryIsFollowed == Spec => []ChainFollowsHistory
<1> QED BY PathsAreEquivalent, CheckpointResumes, PTL DEF ChainFollowsHistory

-----------------------------------------------------------------------------
(* The score. *)

\* At a threshold of 75 the components that can score leave no room: every
\* event, and higher timeframes that agree, in the direction of the vote.
LEMMA DefaultBuyScore ==
    ASSUME NEW m \in MarketType, NEW p \in Candle, NEW agreed, m.threshold >= 75,
           StatusFor(m.halal, m.facts[p], agreed, m.threshold) = "BUY_SIGNAL"
    PROVE  /\ m.facts[p].displacement /\ m.facts[p].sweep /\ m.facts[p].gap
           /\ m.facts[p].block # "NONE" /\ agreed = "BULLISH"
<1> DEFINE facts == m.facts[p]
<1>1. facts \in Facts /\ m.threshold \in Nat
  BY DEF MarketType
<1>2. /\ ThresholdPassed(m.halal, facts, agreed, m.threshold)
      /\ Bias(m.halal, facts, agreed) = "LONG_BIAS"
  BY DEF StatusFor
<1> HIDE DEF facts
<1>3. Score(facts, agreed) >= 75 /\ m.halal
  <2>1. Score(facts, agreed) \in Nat
    BY DEF Score, MtfPoints, PdPoints, OtePoints, Presence
  <2> QED BY <1>1, <1>2, <2>1 DEF ThresholdPassed
<1>4. PdPoints(facts.pd) \in 0 .. 8
  BY DEF PdPoints
<1>5. OtePoints(facts.ote) \in 0 .. 7
  BY DEF OtePoints
<1>6. /\ MtfPoints(agreed) \in 0 .. 15
      /\ (agreed \notin {"BULLISH", "BEARISH"} => MtfPoints(agreed) <= 8)
  BY DEF MtfPoints
<1>7. ASSUME NEW b, NEW w \in Nat PROVE Presence(b, w) \in {0, w} /\ (~b => Presence(b, w) = 0)
  BY DEF Presence
<1> DEFINE D == Presence(facts.displacement, 12)
           S == Presence(facts.sweep, 10)
           G == Presence(facts.gap, 8)
           B == Presence(facts.block # "NONE", 10)
           M == MtfPoints(agreed)
<1>8. /\ facts.displacement /\ facts.sweep /\ facts.gap /\ facts.block # "NONE"
      /\ agreed \in {"BULLISH", "BEARISH"}
  <2>1. D \in {0, 12} /\ S \in {0, 10} /\ G \in {0, 8} /\ B \in {0, 10}
    BY <1>7
  <2>2. /\ ~facts.displacement => D = 0
        /\ ~facts.sweep => S = 0
        /\ ~facts.gap => G = 0
        /\ ~(facts.block # "NONE") => B = 0
    BY <1>7
  <2>3. 10 + M + PdPoints(facts.pd) + OtePoints(facts.ote) + D + S + G + B >= 75
    BY <1>3 DEF Score
  <2> HIDE DEF D, S, G, B
  <2>4. D = 12 /\ S = 10 /\ G = 8 /\ B = 10 /\ M > 8
    BY <1>4, <1>5, <1>6, <2>1, <2>3
  <2> QED BY <1>6, <2>2, <2>4
<1>9. agreed # "BEARISH"
  BY <1>2, <1>3 DEF Bias, ResolveBias, CollectVotes, Toward
<1> QED BY <1>8, <1>9 DEF facts

\* The frame update() returned last is of a candle that was pushed, and a BUY
\* only if the status of its own facts and context is one.
LatestInv ==
    latest # NoFrame =>
        /\ latest.candle \in Candle /\ latest.status \in SignalStatus
        /\ latest.status = "BUY_SIGNAL" =>
               StatusIn(market, latest.candle, latest.context) = "BUY_SIGNAL"

\* A frame that was just returned is one of the reference.
LEMMA SettledLatest == IInv /\ Settled => LatestInv
<1> SUFFICES ASSUME IInv, Settled, latest # NoFrame
             PROVE  /\ latest.candle \in Candle /\ latest.status \in SignalStatus
                    /\ latest.status = "BUY_SIGNAL" =>
                           StatusIn(market, latest.candle, latest.context) = "BUY_SIGNAL"
  BY DEF LatestInv
<1>1. /\ EngineOK(engine, market, mtf, higher, frames) /\ latest = engine.latest
      /\ mtf.count = Len(frames) /\ frames \in Seq(Candle)
  BY DEF IInv, SeenInv, Settled, HistoryInv, CandlesOK
<1>2. mtf.count # 0 /\ latest = FrameIn(market, higher, mtf.known, frames, mtf.count)
  BY <1>1 DEF EngineOK
<1>3. frames[mtf.count] \in Candle
  BY <1>1, <1>2
<1> DEFINE c == ContextTo(higher, mtf.known, frames[mtf.count])
<1>4. /\ latest.candle = frames[mtf.count] /\ latest.context = c
      /\ latest.status = StatusIn(market, frames[mtf.count], c) \/ latest.status = "NO_SIGNAL"
  BY <1>2 DEF FrameIn, SnapshotIn
<1>5. StatusIn(market, frames[mtf.count], c) \in SignalStatus
  BY DEF StatusIn, StatusFor, SignalStatus
<1> QED BY <1>3, <1>4, <1>5 DEF SignalStatus

\* Only a return sets it, and then everything is settled.
LEMMA LatestStep == IInv /\ LatestInv /\ [Next]_vars /\ IInv' => LatestInv'
<1> SUFFICES ASSUME IInv, LatestInv, [Next]_vars, IInv' PROVE LatestInv'
  OBVIOUS
<1>1. CASE pc' \in {"idle", "verify", "refused_ledger"}
  <2>1. Settled'
    BY <1>1 DEF IInv, PlaceInv
  <2>2. IInv' /\ Settled' => LatestInv'
    BY SettledLatest, PTL
  <2> QED BY <2>1, <2>2
<1>2. CASE pc' \notin {"idle", "verify", "refused_ledger"}
  <2>1. UNCHANGED <<latest, market>>
    <3>1. CASE UNCHANGED vars
      BY <3>1 DEF vars, runtimeVars
    <3>2. CASE AcceptHigher \/ AcceptPrimary \/ WarmUp
      BY <3>2 DEF AcceptHigher, AcceptPrimary, WarmUp, PushPrimary
    <3>3. CASE FastForward \/ Rebuild \/ Replay
      BY <3>3 DEF FastForward, Rebuild, Replay
    <3>4. CASE ReplayDone \/ Advance
      BY <1>2, <3>4 DEF ReplayDone, Advance, Return
    <3>5. CASE FinishCycle \/ Restart \/ Verify
      BY <1>2, <3>5 DEF FinishCycle, Restart, Verify, runtimeVars
    <3> QED BY <3>1, <3>2, <3>3, <3>4, <3>5 DEF Next
  <2> QED BY <2>1 DEF LatestInv
<1> QED BY <1>1, <1>2

\* Type correctness.
THEOREM RuntimeTypeOK == Spec => []TypeOK
<1> DEFINE Bounded == restarts \in 0 .. MaxRestarts
<1>1. Init => LatestInv /\ Bounded
  BY BoundsAssumption DEF Init, LatestInv
<1>2. Bounded /\ [Next]_vars => Bounded'
  <2> SUFFICES ASSUME Bounded, [Next]_vars PROVE Bounded'
    OBVIOUS
  <2>1. CASE UNCHANGED restarts
    BY <2>1
  <2>2. CASE Restart
    BY <2>2, BoundsAssumption DEF Restart
  <2> QED BY <2>1, <2>2 DEF Next, vars, durableVars, AcceptHigher, AcceptPrimary, WarmUp,
                            PushPrimary, FastForward, Rebuild, Replay, ReplayDone, Advance,
                            FinishCycle, Verify
<1>3. IInv /\ LatestInv /\ Bounded => TypeOK
  <2> SUFFICES ASSUME IInv, LatestInv, Bounded PROVE TypeOK
    OBVIOUS
  <2>1. /\ market \in Markets /\ frames \in Seq(Candle) /\ pending \in Seq(Candle)
        /\ higher \in [Timeframes -> Seq(HigherCandle)]
        /\ dirty \in BOOLEAN /\ warming \in BOOLEAN
    BY DEF IInv, HistoryInv, CandlesOK, HistoriesOK
  <2>2. mtf \in MtfType /\ engine.count \in Nat
    BY DEF IInv, SeenInv, JoinOK, EngineOK, MtfType
  <2>3. Len(frames) \in Nat
    BY <2>1
  <2>4. frameCount \in Nat /\ built \in [Timeframes -> Nat]
        /\ pc \in {"idle", "build", "replay", "advance", "verify", "refused_ledger"}
    BY <2>3 DEF IInv, PlaceInv, Settled
  <2> QED BY <2>1, <2>2, <2>4 DEF TypeOK, LatestInv, MtfType
<1> HIDE DEF Bounded
<1> QED BY <1>1, <1>2, <1>3, LatestStep, RuntimeInvariant, PTL DEF Spec

\* At the default threshold a BUY takes every event of the candle at once, and
\* higher timeframes that agree on bullish.
THEOREM DefaultBuyIsComplete == Spec => []DefaultBuyTakesEverything
<1>1. Init => LatestInv
  BY DEF Init, LatestInv
<1>2. IInv /\ LatestInv => DefaultBuyTakesEverything
  <2> SUFFICES ASSUME IInv, LatestInv, latest # NoFrame, latest.status = "BUY_SIGNAL",
                      market.threshold >= 75
               PROVE  /\ market.facts[latest.candle].displacement
                      /\ market.facts[latest.candle].sweep
                      /\ market.facts[latest.candle].gap
                      /\ market.facts[latest.candle].block # "NONE"
                      /\ Direction(latest.context) = "BULLISH"
    BY DEF DefaultBuyTakesEverything
  <2>1. market \in MarketType
    BY MarketsAssumption DEF IInv, HistoryInv
  <2>2. /\ latest.candle \in Candle
        /\ StatusFor(market.halal, market.facts[latest.candle],
                     DirectionIn(market, latest.context), market.threshold) = "BUY_SIGNAL"
    BY DEF LatestInv, StatusIn
  <2>3. Direction(latest.context) = DirectionIn(market, latest.context)
    BY DEF Direction, DirectionIn
  <2> QED BY <2>1, <2>2, <2>3, DefaultBuyScore
<1> QED BY <1>1, <1>2, LatestStep, RuntimeInvariant, PTL DEF Spec

-----------------------------------------------------------------------------
(* The BUY frames of a sequence.                                           *)

\* A sequence, of whatever.
IsSeq(s) == \E S : s \in Seq(S)

\* A sequence and one element more.
LEMMA AppendIs ==
    ASSUME NEW s, IsSeq(s), NEW x
    PROVE  /\ IsSeq(Append(s, x)) /\ Len(s) \in Nat /\ Len(Append(s, x)) = Len(s) + 1
           /\ Append(s, x)[Len(s) + 1] = x
           /\ \A i \in 1 .. Len(s) : Append(s, x)[i] = s[i]
<1>1. PICK S : s \in Seq(S)
  BY DEF IsSeq
<1> DEFINE T == S \cup {x}
<1>2. s \in Seq(T) /\ x \in T
  BY <1>1
<1> HIDE DEF T
<1>3. Append(s, x) \in Seq(T)
  BY <1>2
<1> QED BY <1>2, <1>3 DEF IsSeq

\* One sequence after another.
LEMMA JoinIs ==
    ASSUME NEW s, NEW t, IsSeq(s), IsSeq(t)
    PROVE  /\ IsSeq(s \o t) /\ Len(s) \in Nat /\ Len(t) \in Nat
           /\ Len(s \o t) = Len(s) + Len(t)
           /\ \A i \in 1 .. Len(s) : (s \o t)[i] = s[i]
           /\ \A i \in 1 .. Len(t) : (s \o t)[Len(s) + i] = t[i]
<1>1. PICK S, T : s \in Seq(S) /\ t \in Seq(T)
  BY DEF IsSeq
<1> DEFINE U == S \cup T
<1>2. s \in Seq(U) /\ t \in Seq(U)
  BY <1>1
<1> HIDE DEF U
<1>3. s \o t \in Seq(U)
  BY <1>2
<1> QED BY <1>2, <1>3 DEF IsSeq

\* A set of naturals that holds 0 and every successor holds them all.
LEMMA Induction ==
    ASSUME NEW S, 0 \in S, \A n \in Nat : n \in S => n + 1 \in S
    PROVE  \A n \in Nat : n \in S
<1> DEFINE T == {n \in Nat : n \notin S}
<1> SUFFICES ASSUME T # {} PROVE FALSE
  OBVIOUS
<1>1. T \subseteq Nat
  OBVIOUS
<1> HIDE DEF T
<1>2. PICK x \in T : \A y \in T : x <= y
  BY <1>1, LeastNatural
<1>3. x \in Nat /\ x \notin S /\ x # 0
  BY <1>2 DEF T
<1>4. x - 1 \in Nat /\ ~ (x <= x - 1) /\ (x - 1) + 1 = x
  BY <1>3
<1>5. x - 1 \notin T
  BY <1>2, <1>4
<1> QED BY <1>3, <1>4, <1>5 DEF T

\* f holds the BUY frames among the first of s, up to the n-th.
BuysTo(f, s, n) ==
    f = [k \in 0 .. n |-> IF k = 0 THEN <<>>
                          ELSE IF IsBuy(s[k]) THEN Append(f[k - 1], s[k])
                          ELSE f[k - 1]]

\* There are such sequences.
LEMMA BuysExist ==
    ASSUME NEW s PROVE \A n \in Nat : \E f : BuysTo(f, s, n)
<1> DEFINE S == {n \in Nat : \E f : BuysTo(f, s, n)}
           Grown(t, k) == IF IsBuy(s[k]) THEN Append(t, s[k]) ELSE t
<1>1. 0 \in S
  <2>1. BuysTo([k \in 0 .. 0 |-> <<>>], s, 0)
    BY DEF BuysTo
  <2> QED BY <2>1
<1>2. ASSUME NEW n \in Nat, n \in S PROVE n + 1 \in S
  <2>1. PICK f : BuysTo(f, s, n)
    BY <1>2
  <2> DEFINE g == [k \in 0 .. n + 1 |-> IF k = n + 1 THEN Grown(f[n], n + 1) ELSE f[k]]
  <2>2. f = [k \in 0 .. n |-> IF k = 0 THEN <<>> ELSE Grown(f[k - 1], k)]
    BY <2>1 DEF BuysTo
  <2>3. BuysTo(g, s, n + 1)
    <3> HIDE DEF Grown
    <3>1. ASSUME NEW k \in 0 .. n + 1
          PROVE  g[k] = IF k = 0 THEN <<>> ELSE Grown(g[k - 1], k)
      <4>1. CASE k = n + 1
        <5>1. g[k] = Grown(f[n], n + 1) /\ k - 1 = n /\ k - 1 \in 0 .. n + 1 /\ k - 1 # n + 1
          BY <4>1
        <5> QED BY <4>1, <5>1
      <4>2. CASE k \in 1 .. n
        <5>1. f[k] = Grown(f[k - 1], k)
          BY <2>2, <4>2
        <5>2. g[k] = f[k] /\ g[k - 1] = f[k - 1]
          BY <4>2
        <5> QED BY <4>2, <5>1, <5>2
      <4>3. CASE k = 0
        <5>1. f[k] = <<>>
          BY <2>2, <4>3
        <5> QED BY <4>3, <5>1
      <4> QED BY <4>1, <4>2, <4>3
    <3> HIDE DEF g
    <3>2. g = [k \in 0 .. n + 1 |-> g[k]]
      BY DEF g
    <3>3. g = [k \in 0 .. n + 1 |-> IF k = 0 THEN <<>> ELSE Grown(g[k - 1], k)]
      BY <3>1, <3>2
    <3> QED BY <3>3 DEF BuysTo, Grown
  <2> QED BY <2>3
<1> HIDE DEF S
<1>3. \A n \in Nat : n \in S
  BY <1>1, <1>2, Induction
<1> QED BY <1>3 DEF S

\* t holds BUY frames of the first n of s, in their order.
Selects(t, s, n) ==
    /\ IsSeq(t)
    /\ \E g : /\ \A k \in 1 .. Len(t) : g[k] \in 1 .. n /\ t[k] = s[g[k]] /\ IsBuy(s[g[k]])
              /\ \A k, l \in 1 .. Len(t) : k < l => g[k] < g[l]

\* So does BuysOf.
LEMMA BuysSelect ==
    ASSUME NEW s, Len(s) \in Nat PROVE Selects(BuysOf(s), s, Len(s))
<1> DEFINE f == CHOOSE x : BuysTo(x, s, Len(s))
           S == {n \in Nat : n <= Len(s) => Selects(f[n], s, n)}
<1>1. BuysTo(f, s, Len(s))
  BY BuysExist
<1>2. BuysOf(s) = f[Len(s)]
  BY DEF BuysOf, BuysTo
<1> HIDE DEF f
<1>3. f[0] = <<>> /\ \A k \in 1 .. Len(s) : f[k] = IF IsBuy(s[k]) THEN Append(f[k - 1], s[k])
                                                   ELSE f[k - 1]
  <2>1. \A k \in 0 .. Len(s) : f[k] = IF k = 0 THEN <<>>
                                      ELSE IF IsBuy(s[k]) THEN Append(f[k - 1], s[k])
                                      ELSE f[k - 1]
    BY <1>1 DEF BuysTo
  <2> QED BY <2>1
<1>4. 0 \in S
  <2>1. IsSeq(<<>>) /\ Len(<<>>) = 0
    BY DEF IsSeq
  <2> QED BY <1>3, <2>1 DEF Selects
<1>5. ASSUME NEW n \in Nat, n \in S PROVE n + 1 \in S
  <2> SUFFICES ASSUME n + 1 <= Len(s) PROVE Selects(f[n + 1], s, n + 1)
    OBVIOUS
  <2> DEFINE t == f[n]
  <2>1. n + 1 \in 1 .. Len(s) /\ (n + 1) - 1 = n /\ Selects(t, s, n)
    BY <1>5
  <2>2. PICK g : /\ \A k \in 1 .. Len(t) : g[k] \in 1 .. n /\ t[k] = s[g[k]] /\ IsBuy(s[g[k]])
                 /\ \A k, l \in 1 .. Len(t) : k < l => g[k] < g[l]
    BY <2>1 DEF Selects
  <2>3. IsSeq(t)
    BY <2>1 DEF Selects
  <2>4. f[n + 1] = IF IsBuy(s[n + 1]) THEN Append(t, s[n + 1]) ELSE t
    BY <1>3, <2>1
  <2> HIDE DEF t
  <2>5. CASE IsBuy(s[n + 1])
    <3> DEFINE u == Append(t, s[n + 1])
               g2 == [k \in 1 .. Len(t) + 1 |-> IF k = Len(t) + 1 THEN n + 1 ELSE g[k]]
    <3>1. /\ IsSeq(u) /\ Len(t) \in Nat /\ Len(u) = Len(t) + 1 /\ u[Len(t) + 1] = s[n + 1]
          /\ \A i \in 1 .. Len(t) : u[i] = t[i]
      BY <2>3, AppendIs
    <3> HIDE DEF u
    <3>2. \A k \in 1 .. Len(t) : g2[k] = g[k] /\ g2[k] \in 1 .. n
      BY <2>2, <3>1
    <3>3. g2[Len(t) + 1] = n + 1
      BY <3>1
    <3> HIDE DEF g2
    <3>4. \A k \in 1 .. Len(u) : k \in 1 .. Len(t) \/ k = Len(t) + 1
      BY <3>1
    <3>5. \A k \in 1 .. Len(u) : g2[k] \in 1 .. n + 1 /\ u[k] = s[g2[k]] /\ IsBuy(s[g2[k]])
      BY <2>2, <2>5, <3>1, <3>2, <3>3, <3>4
    <3>6. \A k, l \in 1 .. Len(u) : k < l => g2[k] < g2[l]
      BY <2>2, <3>1, <3>2, <3>3, <3>4
    <3>7. Selects(u, s, n + 1)
      BY <3>1, <3>5, <3>6 DEF Selects
    <3> QED BY <2>4, <2>5, <3>7 DEF u
  <2>6. CASE ~ IsBuy(s[n + 1])
    <3>1. \A k \in 1 .. Len(t) : g[k] \in 1 .. n + 1
      BY <2>2
    <3>2. Selects(t, s, n + 1)
      BY <2>2, <2>3, <3>1 DEF Selects
    <3> QED BY <2>4, <2>6, <3>2
  <2> QED BY <2>5, <2>6
<1> HIDE DEF S
<1>6. \A n \in Nat : n \in S
  BY <1>4, <1>5, Induction
<1> QED BY <1>2, <1>6 DEF S

-----------------------------------------------------------------------------
(* Contexts of a history that was only partly known.                       *)

\* t goes on where s ends.
Extends(t, s) == Len(s) <= Len(t) /\ \A i \in 1 .. Len(s) : t[i] = s[i]

\* So does every history.
HistoriesExtend(h2, h) == \A tf \in Timeframes : Extends(h2[tf], h[tf])

\* A join may have been built over k candles of the histories.
Within(k, h) == \A tf \in Timeframes : k[tf] \in Nat /\ k[tf] <= Len(h[tf])

\* l is at least k.
AtLeast(l, k) == \A tf \in Timeframes : k[tf] <= l[tf]

\* A frame looks at nothing that comes later.
LEMMA FrameTransfers ==
    ASSUME NEW m, NEW h, NEW h2, NEW k, NEW f, NEW f2, NEW i \in Nat \ {0},
           \A x \in 1 .. i : f2[x] = f[x], HistoriesExtend(h2, h), Within(k, h),
           HistoriesOK(h)
    PROVE  FrameIn(m, h2, k, f2, i) = FrameIn(m, h, k, f, i)
<1>1. \A tf \in Timeframes : \A x \in 1 .. k[tf] : h2[tf][x] = h[tf][x]
  <2> SUFFICES ASSUME NEW tf \in Timeframes, NEW x \in 1 .. k[tf] PROVE h2[tf][x] = h[tf][x]
    OBVIOUS
  <2>1. k[tf] \in Nat /\ k[tf] <= Len(h[tf]) /\ Len(h[tf]) \in Nat
    BY DEF Within, HistoriesOK
  <2>2. x \in 1 .. Len(h[tf])
    BY <2>1
  <2> QED BY <2>2 DEF HistoriesExtend, Extends
<1>2. \A p : ContextTo(h2, k, p) = ContextTo(h, k, p)
  BY <1>1, ContextLooksBack
<1>3. i - 1 \in Nat /\ i \in 1 .. i /\ \A x \in 1 .. i - 1 : x \in 1 .. i
  OBVIOUS
<1>4. SetupsIn(m, h2, k, f2, i - 1) = SetupsIn(m, h, k, f, i - 1)
  BY <1>2, <1>3, ReferenceDependsOn
<1> QED BY <1>2, <1>3, <1>4 DEF FrameIn

\* More is known later, and over longer histories.
LEMMA KnownGrows ==
    ASSUME NEW h, HistoriesOK(h), NEW k, NEW l, Within(k, h), Within(l, h), AtLeast(l, k),
           NEW p \in Nat, NEW q \in Nat, p <= q, NEW tf \in Timeframes
    PROVE  KnownTo(h[tf], k[tf], tf, p) \subseteq KnownTo(h[tf], l[tf], tf, q)
<1>1. k[tf] \in Nat /\ l[tf] \in Nat /\ k[tf] <= l[tf] /\ l[tf] <= Len(h[tf])
      /\ h[tf] \in Seq(HigherCandle) /\ Len(h[tf]) \in Nat
  BY DEF Within, AtLeast, HistoriesOK
<1>2. \A i \in 1 .. k[tf] : i \in 1 .. l[tf] /\ i \in 1 .. Len(h[tf])
  BY <1>1
<1>3. \A i \in 1 .. k[tf] : Available(tf, h[tf][i]) \in Nat
  BY <1>1, <1>2, AvailableType
<1>4. \A i \in 1 .. k[tf] : Available(tf, h[tf][i]) <= p => Available(tf, h[tf][i]) <= q
  BY <1>3
<1> QED BY <1>2, <1>4 DEF KnownTo

\* A context that stays the same from an earlier candle and a shorter history to a later
\* candle and a longer one was the same in between.
LEMMA ContextBetween ==
    ASSUME NEW h, HistoriesOK(h), NEW k1, NEW k2, NEW k3,
           Within(k1, h), Within(k2, h), Within(k3, h), AtLeast(k2, k1), AtLeast(k3, k2),
           NEW p1 \in Nat, NEW p2 \in Nat, NEW p3 \in Nat, p1 <= p2, p2 <= p3,
           ContextTo(h, k1, p1) = ContextTo(h, k3, p3)
    PROVE  ContextTo(h, k2, p2) = ContextTo(h, k1, p1)
<1> DEFINE K1(tf) == KnownTo(h[tf], k1[tf], tf, p1)
           K2(tf) == KnownTo(h[tf], k2[tf], tf, p2)
           K3(tf) == KnownTo(h[tf], k3[tf], tf, p3)
<1>1. \A tf \in Timeframes : K1(tf) \subseteq K2(tf) /\ K2(tf) \subseteq K3(tf)
  BY KnownGrows
<1>2. \A tf \in Timeframes : K1(tf) = K3(tf)
  <2> SUFFICES ASSUME NEW tf \in Timeframes PROVE K1(tf) = K3(tf)
    OBVIOUS
  <2>1. /\ ContextTo(h, k1, p1)[tf].published = K1(tf)
        /\ ContextTo(h, k3, p3)[tf].published = K3(tf)
    BY DEF ContextTo
  <2> QED BY <2>1
<1>3. \A tf \in Timeframes : K2(tf) = K1(tf)
  BY <1>1, <1>2
<1> QED BY <1>3 DEF ContextTo

\* The context of the whole history.
LEMMA FullContextIs ==
    ASSUME HistoriesOK(higher), NEW p
    PROVE  FullContext(p) = ContextTo(higher, CountsOf(higher), p)
<1>1. ASSUME NEW tf \in Timeframes
      PROVE  KnownTo(higher[tf], Len(higher[tf]), tf, p) = Known(tf, p)
  <2>1. DOMAIN higher[tf] = 1 .. Len(higher[tf])
    BY DEF HistoriesOK
  <2> QED BY <2>1 DEF KnownTo, Known, Range
<1> QED BY <1>1 DEF ContextTo, FullContext, CountsOf, LatestOf

\* A BUY of the reference has a setup that none of the candles before it had.
LEMMA BuyIsNew ==
    ASSUME NEW m, NEW h, NEW k, NEW f, NEW i,
           IsBuy(FrameIn(m, h, k, f, i))
    PROVE  LET c == ContextTo(h, k, f[i])
           IN  /\ FrameIn(m, h, k, f, i).candle = f[i]
               /\ FrameIn(m, h, k, f, i).context = c
               /\ StatusIn(m, f[i], c) = "BUY_SIGNAL"
               /\ IdentityIn(m, f[i], c) \notin SetupsIn(m, h, k, f, i - 1)
BY DEF FrameIn, SnapshotIn, IsBuy

-----------------------------------------------------------------------------
(* What left the process.                                                  *)

\* Where the frames of the cycle, or of the startup, begin.
Base == IF warming THEN 0 ELSE Len(saved.frames)

\* The frames of the cycle are those of the whole history: no higher candle comes between.
FreshInv ==
    /\ IsSeq(fresh) /\ Base + Len(fresh) = frameCount
    /\ \A i \in 1 .. Len(fresh) :
          fresh[i] = FrameIn(market, higher, CountsOf(higher), frames, Base + i)
    /\ ~warming => Extends(frames, saved.frames) /\ HistoriesExtend(higher, saved.higher)

\* The ledger has seen every frame of the checkpoint, each over the histories of its time.
RecordedInv ==
    /\ IsSeq(recorded) /\ Len(recorded) = Len(saved.frames)
    /\ \E K : \A i \in 1 .. Len(recorded) :
          /\ Within(K[i], saved.higher) /\ \A j \in 1 .. i : AtLeast(K[i], K[j])
          /\ recorded[i] = FrameIn(market, saved.higher, K[i], saved.frames, i)

\* A BUY of one of the first n candles, over the histories of its time.
Founded(d, m, h, f, n) ==
    \E x \in 1 .. n : \E k :
        /\ Within(k, h) /\ d.candle = f[x] /\ d.context = ContextTo(h, k, f[x])
        /\ StatusIn(m, d.candle, d.context) = "BUY_SIGNAL"

IdOf(d, m) == IdentityIn(m, d.candle, d.context)

DeliveredInv ==
    /\ IsSeq(delivered)
    /\ \A i \in 1 .. Len(delivered) :
          Founded(delivered[i], market, saved.higher, saved.frames, Len(saved.frames))
    /\ \A i, j \in 1 .. Len(delivered) :
          i < j => IdOf(delivered[i], market) # IdOf(delivered[j], market)

\* A startup that was refused had regenerated everything.
RefusedInv ==
    pc = "refused_ledger" => warming /\ pending = <<>> /\ ~ LedgerAgrees

OutInv == FreshInv /\ RecordedInv /\ DeliveredInv /\ RefusedInv

\* A BUY that was delivered stays one of the candles and the histories.
LEMMA FoundedGrows ==
    ASSUME NEW d, NEW m, NEW h, NEW h2, NEW f, NEW f2, NEW n \in Nat, NEW n2 \in Nat, n <= n2,
           HistoriesOK(h), HistoriesOK(h2), HistoriesExtend(h2, h),
           \A x \in 1 .. n : f2[x] = f[x], Founded(d, m, h, f, n)
    PROVE  Founded(d, m, h2, f2, n2)
<1>0. PICK x \in 1 .. n : \E k :
        /\ Within(k, h) /\ d.candle = f[x] /\ d.context = ContextTo(h, k, f[x])
        /\ StatusIn(m, d.candle, d.context) = "BUY_SIGNAL"
  BY DEF Founded
<1>1. PICK k :
        /\ Within(k, h) /\ d.candle = f[x] /\ d.context = ContextTo(h, k, f[x])
        /\ StatusIn(m, d.candle, d.context) = "BUY_SIGNAL"
  BY <1>0
<1>2. \A tf \in Timeframes : /\ k[tf] \in Nat /\ k[tf] <= Len(h[tf]) /\ Len(h[tf]) \in Nat
                             /\ Len(h[tf]) <= Len(h2[tf]) /\ Len(h2[tf]) \in Nat
  BY <1>1 DEF Within, HistoriesOK, HistoriesExtend, Extends
<1>3. Within(k, h2)
  BY <1>2 DEF Within
<1>4. \A tf \in Timeframes : \A y \in 1 .. k[tf] : h2[tf][y] = h[tf][y]
  <2> SUFFICES ASSUME NEW tf \in Timeframes, NEW y \in 1 .. k[tf] PROVE h2[tf][y] = h[tf][y]
    OBVIOUS
  <2>1. y \in 1 .. Len(h[tf])
    BY <1>2
  <2> QED BY <2>1 DEF HistoriesExtend, Extends
<1>5. ContextTo(h2, k, f[x]) = ContextTo(h, k, f[x])
  BY <1>4, ContextLooksBack
<1>6. x \in 1 .. n2 /\ f2[x] = f[x]
  OBVIOUS
<1> QED BY <1>1, <1>3, <1>5, <1>6 DEF Founded

\* The fence: a BUY of the reference over all the candles has a setup of which none of the
\* candles before it was delivered, even one whose context was not yet complete.
LEMMA FenceHolds ==
    ASSUME NEW d, NEW m, NEW h, NEW f, NEW y \in 1 .. Len(f), NEW n \in Nat, n < y,
           HistoriesOK(h), CandlesOK(f), Founded(d, m, h, f, n),
           IsBuy(FrameIn(m, h, CountsOf(h), f, y))
    PROVE  IdOf(d, m) # IdOf(FrameIn(m, h, CountsOf(h), f, y), m)
<1> DEFINE all == CountsOf(h)
           e == FrameIn(m, h, all, f, y)
<1>0. PICK x \in 1 .. n : \E k :
        /\ Within(k, h) /\ d.candle = f[x] /\ d.context = ContextTo(h, k, f[x])
        /\ StatusIn(m, d.candle, d.context) = "BUY_SIGNAL"
  BY DEF Founded
<1>1. PICK k :
        /\ Within(k, h) /\ d.candle = f[x] /\ d.context = ContextTo(h, k, f[x])
        /\ StatusIn(m, d.candle, d.context) = "BUY_SIGNAL"
  BY <1>0
<1>2. /\ e.candle = f[y] /\ e.context = ContextTo(h, all, f[y])
      /\ IdentityIn(m, f[y], ContextTo(h, all, f[y])) \notin SetupsIn(m, h, all, f, y - 1)
  BY BuyIsNew
<1> SUFFICES ASSUME IdOf(d, m) = IdOf(e, m) PROVE FALSE
  OBVIOUS
<1> HIDE DEF e
<1>3. IdentityIn(m, f[x], ContextTo(h, k, f[x])) = IdentityIn(m, f[y], ContextTo(h, all, f[y]))
  BY <1>1, <1>2 DEF IdOf
<1>4. ContextTo(h, k, f[x]) = ContextTo(h, all, f[y])
  <2>1. \A p, c : IdentityIn(m, p, c).mtf = c
    BY DEF IdentityIn
  <2> QED BY <1>3, <2>1
<1>5. Within(all, h) /\ AtLeast(all, k) /\ AtLeast(all, all)
  <2>1. \A tf \in Timeframes : all[tf] = Len(h[tf]) /\ Len(h[tf]) \in Nat
    BY DEF CountsOf, HistoriesOK
  <2> HIDE DEF all
  <2> QED BY <1>1, <2>1 DEF Within, AtLeast
<1>6. f[x] \in Nat /\ f[y] \in Nat /\ f[x] <= f[y] /\ x \in 1 .. y - 1
  <2>1. x \in 1 .. Len(f) /\ x < y /\ Len(f) \in Nat
    BY DEF CandlesOK
  <2>2. f[x] \in Candle /\ f[y] \in Candle /\ f[x] < f[y]
    BY <2>1 DEF CandlesOK, Ascending
  <2> QED BY <2>1, <2>2 DEF Candle
<1>7. ContextTo(h, all, f[x]) = ContextTo(h, k, f[x])
  <2> HIDE DEF all
  <2> QED BY <1>1, <1>4, <1>5, <1>6, ContextBetween
<1>8. StatusIn(m, f[x], ContextTo(h, all, f[x])) = "BUY_SIGNAL"
  BY <1>1, <1>7
<1>9. IdentityIn(m, f[x], ContextTo(h, all, f[x])) \in SetupsIn(m, h, all, f, y - 1)
  BY <1>6, <1>8 DEF SetupsIn
<1> QED BY <1>2, <1>3, <1>7, <1>9

\* The empty sequence is one.
LEMMA EmptyIs == IsSeq(<<>>) /\ Len(<<>>) = 0
BY DEF IsSeq

\* At the first poll nothing has left.
LEMMA InitOut == Init => OutInv
<1> SUFFICES ASSUME Init PROVE OutInv
  OBVIOUS
<1>1. /\ fresh = <<>> /\ recorded = <<>> /\ delivered = <<>> /\ warming = TRUE
      /\ frameCount = 0 /\ pc = "idle" /\ saved.frames = <<>>
  BY DEF Init
<1>2. 1 .. Len(<<>>) = {}
  BY EmptyIs
<1>3. FreshInv
  BY <1>1, <1>2, EmptyIs DEF FreshInv, Base
<1>4. RecordedInv
  BY <1>1, <1>2, EmptyIs DEF RecordedInv
<1>5. DeliveredInv
  BY <1>1, <1>2, EmptyIs DEF DeliveredInv
<1>6. RefusedInv
  BY <1>1 DEF RefusedInv
<1> QED BY <1>3, <1>4, <1>5, <1>6 DEF OutInv

\* Histories that go on after one that goes on go on.
LEMMA ExtendsChain ==
    ASSUME NEW s, NEW t, NEW u, Len(s) \in Nat, Len(t) \in Nat, Len(u) \in Nat,
           Extends(t, s), Extends(u, t)
    PROVE  Extends(u, s)
BY DEF Extends

\* A step that returns nothing and saves nothing.
LEMMA QuietOut ==
    ASSUME IInv, IInv', OutInv,
           UNCHANGED <<market, saved, recorded, delivered, fresh, warming, frameCount>>,
           Extends(frames', frames), HistoriesExtend(higher', higher),
           fresh = <<>> \/ higher' = higher, frameCount <= Len(frames),
           pc' # "refused_ledger" \/ UNCHANGED <<pc, pending>>
    PROVE  OutInv'
<1>1. /\ frames \in Seq(Candle) /\ frames' \in Seq(Candle) /\ Len(frames) \in Nat
      /\ Len(frames') \in Nat /\ HistoriesOK(higher) /\ HistoriesOK(higher')
      /\ CandlesOK(saved.frames) /\ HistoriesOK(saved.higher) /\ Len(saved.frames) \in Nat
  BY DEF IInv, HistoryInv, SavedInv, CandlesOK
<1>2. /\ IsSeq(fresh) /\ Base + Len(fresh) = frameCount
      /\ \A i \in 1 .. Len(fresh) :
            fresh[i] = FrameIn(market, higher, CountsOf(higher), frames, Base + i)
      /\ ~warming => Extends(frames, saved.frames) /\ HistoriesExtend(higher, saved.higher)
  BY DEF OutInv, FreshInv
<1>3. Base' = Base /\ Base \in Nat
  BY <1>1 DEF Base
<1>4. ASSUME NEW i \in 1 .. Len(fresh)
      PROVE  fresh[i] = FrameIn(market, higher', CountsOf(higher'), frames', Base + i)
  <2>1. higher' = higher
    BY EmptyIs
  <2>2. Len(fresh) \in Nat
    BY <1>2, AppendIs
  <2>3. Base + i \in Nat \ {0} /\ Base + i <= Len(frames)
    BY <1>1, <1>2, <1>3, <2>2
  <2>4. \A x \in 1 .. Base + i : frames'[x] = frames[x]
    BY <1>1, <2>3 DEF Extends
  <2>5. Within(CountsOf(higher), higher) /\ HistoriesExtend(higher, higher)
    BY <1>1 DEF Within, CountsOf, HistoriesOK, HistoriesExtend, Extends
  <2>6. FrameIn(market, higher, CountsOf(higher), frames', Base + i)
            = FrameIn(market, higher, CountsOf(higher), frames, Base + i)
    BY <1>1, <2>3, <2>4, <2>5, FrameTransfers
  <2> QED BY <1>2, <2>1, <2>6
<1>5. ASSUME ~warming
      PROVE  Extends(frames', saved.frames) /\ HistoriesExtend(higher', saved.higher)
  <2>1. Extends(frames, saved.frames) /\ HistoriesExtend(higher, saved.higher)
    BY <1>2, <1>5
  <2>2. Extends(frames', saved.frames)
    BY <1>1, <2>1, ExtendsChain
  <2>3. ASSUME NEW tf \in Timeframes PROVE Extends(higher'[tf], saved.higher[tf])
    <3>1. /\ Extends(higher[tf], saved.higher[tf]) /\ Extends(higher'[tf], higher[tf])
          /\ Len(higher[tf]) \in Nat /\ Len(higher'[tf]) \in Nat /\ Len(saved.higher[tf]) \in Nat
      BY <1>1, <2>1 DEF HistoriesExtend, HistoriesOK
    <3> QED BY <3>1, ExtendsChain
  <2> QED BY <2>2, <2>3 DEF HistoriesExtend
<1>6. FreshInv'
  BY <1>2, <1>3, <1>4, <1>5 DEF FreshInv
<1>7. RecordedInv'
  BY DEF OutInv, RecordedInv
<1>8. DeliveredInv'
  BY DEF OutInv, DeliveredInv
<1>9. RefusedInv'
  BY DEF OutInv, RefusedInv, LedgerAgrees
<1> QED BY <1>6, <1>7, <1>8, <1>9 DEF OutInv

\* update() returns a frame of the whole history.
LEMMA ReturnOut ==
    ASSUME IInv, IInv', OutInv, pc \in {"replay", "advance"}, NEW snapshot, Return(snapshot),
           UNCHANGED <<market, frames, higher, pending, warming, durableVars>>, ~dirty'
    PROVE  OutInv'
<1>1. /\ frameCount' = frameCount + 1 /\ fresh' = Append(fresh, latest')
      /\ pc' \in {"idle", "verify"}
  BY DEF Return
<1>2. UNCHANGED <<recorded, saved, delivered>>
  BY DEF durableVars
<1>3. /\ Len(frames) \in Nat \ {0} /\ frameCount = Len(frames) - 1
      /\ Len(saved.frames) \in Nat
  BY DEF IInv, PlaceInv, HistoryInv, SavedInv, CandlesOK
<1>4. latest' = FrameIn(market, higher, CountsOf(higher), frames, Len(frames))
  <2>1. /\ EngineOK(engine', market, mtf', higher, frames) /\ mtf'.known = CountsOf(higher)
        /\ mtf'.count = Len(frames) /\ latest' = engine'.latest
    BY <1>1 DEF IInv, SeenInv, PlaceInv, Settled
  <2> QED BY <1>3, <2>1 DEF EngineOK
<1>5. /\ IsSeq(fresh) /\ Base + Len(fresh) = frameCount
      /\ \A i \in 1 .. Len(fresh) :
            fresh[i] = FrameIn(market, higher, CountsOf(higher), frames, Base + i)
      /\ ~warming => Extends(frames, saved.frames) /\ HistoriesExtend(higher, saved.higher)
  BY DEF OutInv, FreshInv
<1>6. Base' = Base /\ Base \in Nat
  BY <1>2, <1>3 DEF Base
<1>7. /\ IsSeq(fresh') /\ Len(fresh) \in Nat /\ Len(fresh') = Len(fresh) + 1
      /\ fresh'[Len(fresh) + 1] = latest'
      /\ \A i \in 1 .. Len(fresh) : fresh'[i] = fresh[i]
  BY <1>1, <1>5, AppendIs
<1>8. ASSUME NEW i \in 1 .. Len(fresh')
      PROVE  fresh'[i] = FrameIn(market, higher, CountsOf(higher), frames, Base + i)
  <2>1. CASE i \in 1 .. Len(fresh)
    BY <1>5, <1>7, <2>1
  <2>2. CASE i = Len(fresh) + 1
    <3>1. Base + i = Len(frames)
      BY <1>3, <1>5, <1>6, <1>7, <2>2
    <3> QED BY <1>4, <1>7, <2>2, <3>1
  <2> QED BY <1>7, <2>1, <2>2
<1>9. FreshInv'
  BY <1>1, <1>2, <1>3, <1>5, <1>6, <1>7, <1>8 DEF FreshInv
<1>10. RecordedInv'
  BY <1>2 DEF OutInv, RecordedInv
<1>11. DeliveredInv'
  BY <1>2 DEF OutInv, DeliveredInv
<1>12. RefusedInv'
  BY <1>1 DEF RefusedInv
<1> QED BY <1>9, <1>10, <1>11, <1>12 DEF OutInv

\* A new process keeps what left the last one.
LEMMA RestartOut == IInv /\ IInv' /\ OutInv /\ Restart => OutInv'
<1> SUFFICES ASSUME IInv, IInv', OutInv, Restart PROVE OutInv'
  OBVIOUS
<1>1. /\ frameCount' = 0 /\ warming' = TRUE /\ fresh' = <<>> /\ pc' = "idle"
      /\ UNCHANGED <<market, recorded, saved, delivered>>
  BY DEF Restart
<1>2. 1 .. Len(<<>>) = {}
  BY EmptyIs
<1>3. FreshInv'
  BY <1>1, <1>2, EmptyIs DEF FreshInv, Base
<1>4. RecordedInv'
  BY <1>1 DEF OutInv, RecordedInv
<1>5. DeliveredInv'
  BY <1>1 DEF OutInv, DeliveredInv
<1>6. RefusedInv'
  BY <1>1 DEF RefusedInv
<1> QED BY <1>3, <1>4, <1>5, <1>6 DEF OutInv

\* The counts of the histories are within them.
LEMMA CountsWithin ==
    ASSUME NEW h, HistoriesOK(h)
    PROVE  Within(CountsOf(h), h) /\ AtLeast(CountsOf(h), CountsOf(h))
BY DEF Within, AtLeast, CountsOf, HistoriesOK

\* After a checkpoint of everything nothing is under way.
LEMMA ExportOut ==
    ASSUME IInv, pc \in {"idle", "verify"}, saved' = Export, fresh' = <<>>, warming' = FALSE,
           UNCHANGED <<frames, higher, frameCount>>
    PROVE  FreshInv'
<1>1. saved'.frames = frames /\ saved'.higher = higher
  BY DEF Export
<1>2. frameCount = Len(frames) /\ Len(frames) \in Nat /\ HistoriesOK(higher)
  BY DEF IInv, PlaceInv, Settled, HistoryInv, CandlesOK
<1>3. Base' = Len(frames)
  BY <1>1 DEF Base
<1>4. 1 .. Len(<<>>) = {}
  BY EmptyIs
<1>5. Extends(frames, frames) /\ HistoriesExtend(higher, higher)
  BY <1>2 DEF Extends, HistoriesExtend, HistoriesOK
<1> QED BY <1>1, <1>2, <1>3, <1>4, <1>5, EmptyIs DEF FreshInv

\* A warm-up from a checkpoint that is through has regenerated its histories.
LEMMA WarmIsSaved ==
    ASSUME IInv, warming, pending = <<>>, saved.frames # <<>>
    PROVE  higher = saved.higher /\ frames = saved.frames
<1>1. higher = saved.higher /\ saved.frames = frames \o pending /\ frames \in Seq(Candle)
  BY DEF IInv, SavedInv, HistoryInv, CandlesOK
<1> QED BY <1>1

\* The startup goes on with the frames it regenerated, or is refused by the ledger.
LEMMA VerifyOut == IInv /\ IInv' /\ OutInv /\ Verify => OutInv'
<1> SUFFICES ASSUME IInv, IInv', OutInv, Verify PROVE OutInv'
  OBVIOUS
<1>1. /\ pc = "verify" /\ CheckpointAgrees /\ pending = <<>> /\ warming
      /\ frameCount = Len(frames) /\ HistoriesOK(higher) /\ Len(frames) \in Nat
  BY RegeneratedAgrees DEF Verify, IInv, PlaceInv, Settled, HistoryInv, CandlesOK
<1>2. UNCHANGED <<market, frames, higher, frameCount, pending, delivered>>
  BY DEF Verify, runtimeVars
<1>3. CASE LedgerAgrees
  <2>1. pc' = "idle" /\ warming' = FALSE /\ saved' = Export /\ fresh' = <<>> /\ recorded' = fresh
    BY <1>1, <1>3 DEF Verify
  <2>2. saved'.frames = frames /\ saved'.higher = higher
    BY <2>1 DEF Export
  <2>3. FreshInv'
    BY <1>1, <1>2, <2>1, ExportOut
  <2>4. RecordedInv'
    <3>1. /\ IsSeq(fresh) /\ Len(fresh) = Len(frames)
          /\ \A i \in 1 .. Len(fresh) :
                fresh[i] = FrameIn(market, higher, CountsOf(higher), frames, i)
      <4>1. IsSeq(fresh) /\ 0 + Len(fresh) = frameCount
            /\ \A i \in 1 .. Len(fresh) :
                  fresh[i] = FrameIn(market, higher, CountsOf(higher), frames, 0 + i)
        BY <1>1 DEF OutInv, FreshInv, Base
      <4>2. Len(fresh) \in Nat
        BY <4>1, AppendIs
      <4>3. \A i \in 1 .. Len(fresh) : 0 + i = i
        BY <4>2
      <4> QED BY <1>1, <4>1, <4>2, <4>3
    <3> DEFINE K == [i \in 1 .. Len(fresh) |-> CountsOf(higher)]
    <3>2. \A i \in 1 .. Len(fresh) : K[i] = CountsOf(higher)
      OBVIOUS
    <3> HIDE DEF K
    <3>3. \A i \in 1 .. Len(fresh) : \A j \in 1 .. i : j \in 1 .. Len(fresh)
      BY <1>1, <3>1
    <3>4. \A i \in 1 .. Len(fresh) :
            /\ Within(K[i], higher) /\ \A j \in 1 .. i : AtLeast(K[i], K[j])
            /\ fresh[i] = FrameIn(market, higher, K[i], frames, i)
      BY <1>1, <3>1, <3>2, <3>3, CountsWithin
    <3> QED BY <1>2, <2>1, <2>2, <3>1, <3>4 DEF RecordedInv
  <2>5. DeliveredInv'
    <3>1. CASE saved.frames = <<>>
      <4>1. \A i \in 1 .. Len(delivered) : FALSE
        <5>1. 1 .. Len(<<>>) = {}
          BY EmptyIs
        <5> QED BY <3>1, <5>1 DEF OutInv, DeliveredInv, Founded
      <4> QED BY <1>2, <4>1 DEF OutInv, DeliveredInv
    <3>2. CASE saved.frames # <<>>
      <4>1. saved'.frames = saved.frames /\ saved'.higher = saved.higher
        BY <1>1, <2>2, <3>2, WarmIsSaved
      <4> QED BY <1>2, <4>1 DEF OutInv, DeliveredInv
    <3> QED BY <3>1, <3>2
  <2>6. RefusedInv'
    BY <2>1 DEF RefusedInv
  <2> QED BY <2>3, <2>4, <2>5, <2>6 DEF OutInv
<1>4. CASE ~LedgerAgrees
  <2>1. pc' = "refused_ledger" /\ UNCHANGED <<recorded, saved, fresh, warming>>
    BY <1>1, <1>4 DEF Verify
  <2>2. FreshInv'
    BY <1>2, <2>1 DEF OutInv, FreshInv, Base
  <2>3. RecordedInv'
    BY <1>2, <2>1 DEF OutInv, RecordedInv
  <2>4. DeliveredInv'
    BY <1>2, <2>1 DEF OutInv, DeliveredInv
  <2>5. RefusedInv'
    BY <1>1, <1>2, <1>4, <2>1 DEF RefusedInv, LedgerAgrees
  <2> QED BY <2>2, <2>3, <2>4, <2>5 DEF OutInv
<1> QED BY <1>3, <1>4

\* The cycle records what it returned, each frame over the histories of its time.
LEMMA FinishRecorded ==
    ASSUME IInv, OutInv, FinishCycle PROVE RecordedInv'
<1>1. /\ ~warming /\ recorded' = recorded \o fresh /\ market' = market
      /\ saved'.frames = frames /\ saved'.higher = higher
  BY DEF FinishCycle, Export
<1>2. frameCount = Len(frames) /\ Len(frames) \in Nat /\ HistoriesOK(higher)
      /\ HistoriesOK(saved.higher) /\ Len(saved.frames) \in Nat
  BY DEF FinishCycle, IInv, PlaceInv, Settled, HistoryInv, SavedInv, CandlesOK
<1>3. /\ IsSeq(fresh) /\ IsSeq(recorded) /\ Len(recorded) = Len(saved.frames)
      /\ Len(recorded) + Len(fresh) = Len(frames)
      /\ \A i \in 1 .. Len(fresh) :
            fresh[i] = FrameIn(market, higher, CountsOf(higher), frames, Len(recorded) + i)
      /\ Extends(frames, saved.frames) /\ HistoriesExtend(higher, saved.higher)
  BY <1>1, <1>2 DEF OutInv, FreshInv, RecordedInv, Base
<1>4. PICK K : \A i \in 1 .. Len(recorded) :
          /\ Within(K[i], saved.higher) /\ \A j \in 1 .. i : AtLeast(K[i], K[j])
          /\ recorded[i] = FrameIn(market, saved.higher, K[i], saved.frames, i)
  BY DEF OutInv, RecordedInv
<1>5. /\ IsSeq(recorded') /\ Len(recorded) \in Nat /\ Len(fresh) \in Nat
      /\ Len(recorded') = Len(recorded) + Len(fresh)
      /\ \A i \in 1 .. Len(recorded) : recorded'[i] = recorded[i]
      /\ \A i \in 1 .. Len(fresh) : recorded'[Len(recorded) + i] = fresh[i]
  <2> DEFINE r == recorded \o fresh
  <2>1. /\ IsSeq(r) /\ Len(recorded) \in Nat /\ Len(fresh) \in Nat
        /\ Len(r) = Len(recorded) + Len(fresh)
        /\ \A i \in 1 .. Len(recorded) : r[i] = recorded[i]
        /\ \A i \in 1 .. Len(fresh) : r[Len(recorded) + i] = fresh[i]
    BY <1>3, JoinIs, SMTT(30)
  <2>2. recorded' = r
    BY <1>1
  <2> HIDE DEF r
  <2> QED BY <2>1, <2>2
<1> DEFINE K2 == [i \in 1 .. Len(recorded') |-> IF i \in 1 .. Len(recorded) THEN K[i]
                                               ELSE CountsOf(higher)]
<1>6. \A i \in 1 .. Len(recorded) : K2[i] = K[i] /\ Within(K[i], higher)
        /\ AtLeast(CountsOf(higher), K[i])
  <2> SUFFICES ASSUME NEW i \in 1 .. Len(recorded)
               PROVE  K2[i] = K[i] /\ Within(K[i], higher) /\ AtLeast(CountsOf(higher), K[i])
    OBVIOUS
  <2>1. K2[i] = K[i]
    BY <1>5
  <2> DEFINE k == K[i]
  <2>2. Within(k, saved.higher)
    BY <1>4
  <2> HIDE DEF k
  <2>3. \A tf \in Timeframes : /\ k[tf] \in Nat /\ k[tf] <= Len(saved.higher[tf])
                               /\ Len(saved.higher[tf]) \in Nat /\ Len(higher[tf]) \in Nat
                               /\ Len(saved.higher[tf]) <= Len(higher[tf])
    BY <1>2, <1>3, <2>2 DEF Within, HistoriesOK, HistoriesExtend, Extends
  <2>4. \A tf \in Timeframes : k[tf] \in Nat /\ k[tf] <= Len(higher[tf])
    BY <2>3
  <2>5. Within(k, higher) /\ AtLeast(CountsOf(higher), k)
    BY <2>4 DEF Within, AtLeast, CountsOf
  <2> QED BY <2>1, <2>5 DEF k
<1>7. \A i \in 1 .. Len(recorded') :
        \/ i \in 1 .. Len(recorded)
        \/ /\ i \notin 1 .. Len(recorded) /\ i - Len(recorded) \in 1 .. Len(fresh)
           /\ Len(recorded) + (i - Len(recorded)) = i
  BY <1>5
<1>8. \A i \in 1 .. Len(recorded') : i \notin 1 .. Len(recorded) => K2[i] = CountsOf(higher)
  OBVIOUS
<1> HIDE DEF K2
<1>9. ASSUME NEW i \in 1 .. Len(recorded')
      PROVE  /\ Within(K2[i], higher) /\ \A j \in 1 .. i : AtLeast(K2[i], K2[j])
             /\ recorded'[i] = FrameIn(market, higher, K2[i], frames, i)
  <2>1. CASE i \in 1 .. Len(recorded)
    <3>1. \A j \in 1 .. i : j \in 1 .. Len(recorded)
      BY <1>5, <2>1
    <3>2. i \in Nat \ {0} /\ \A x \in 1 .. i : frames[x] = saved.frames[x]
      <4>1. \A x \in 1 .. i : x \in 1 .. Len(saved.frames)
        BY <1>3, <1>5, <2>1
      <4>2. i \in Nat \ {0}
        BY <1>5, <2>1
      <4> QED BY <1>3, <4>1, <4>2 DEF Extends
    <3> DEFINE k == K[i]
    <3>3. Within(k, saved.higher) /\ recorded[i] = FrameIn(market, saved.higher, k, saved.frames, i)
      BY <1>4, <2>1
    <3> HIDE DEF k
    <3>4. FrameIn(market, higher, k, frames, i) = FrameIn(market, saved.higher, k, saved.frames, i)
      BY <1>2, <1>3, <3>2, <3>3, FrameTransfers
    <3> QED BY <1>4, <1>5, <1>6, <2>1, <3>1, <3>3, <3>4 DEF k
  <2>2. CASE i \notin 1 .. Len(recorded)
    <3> DEFINE n == i - Len(recorded)
    <3>1. n \in 1 .. Len(fresh) /\ Len(recorded) + n = i
      BY <1>7, <2>2
    <3> HIDE DEF n
    <3>2. recorded'[i] = FrameIn(market, higher, CountsOf(higher), frames, i)
      BY <1>3, <1>5, <3>1
    <3>3. \A j \in 1 .. i : j \in 1 .. Len(recorded')
      BY <1>5
    <3>4. \A j \in 1 .. i : AtLeast(CountsOf(higher), K2[j])
      BY <1>2, <1>6, <1>8, <3>3, CountsWithin
    <3> QED BY <1>2, <1>8, <2>2, <3>2, <3>4, CountsWithin
  <2> QED BY <2>1, <2>2
<1> QED BY <1>1, <1>3, <1>5, <1>9 DEF RecordedInv

\* The BUY frames of the cycle: each at its place behind the checkpoint, in order.
LEMMA BuysOfTheCycle ==
    ASSUME IInv, OutInv, pc = "idle", ~warming
    PROVE  /\ IsSeq(BuysOf(fresh)) /\ Len(BuysOf(fresh)) \in Nat
           /\ \E y : /\ \A i \in 1 .. Len(BuysOf(fresh)) :
                           /\ y[i] \in 1 .. Len(frames) /\ Len(saved.frames) < y[i]
                           /\ BuysOf(fresh)[i]
                                  = FrameIn(market, higher, CountsOf(higher), frames, y[i])
                           /\ IsBuy(BuysOf(fresh)[i])
                     /\ \A i, j \in 1 .. Len(BuysOf(fresh)) : i < j => y[i] < y[j]
<1> DEFINE b == BuysOf(fresh)
           n == Len(saved.frames)
<1>1. /\ IsSeq(fresh) /\ n + Len(fresh) = Len(frames)
      /\ \A i \in 1 .. Len(fresh) :
            fresh[i] = FrameIn(market, higher, CountsOf(higher), frames, n + i)
  BY DEF OutInv, FreshInv, Base, IInv, PlaceInv, Settled
<1>2. n \in Nat /\ Len(frames) \in Nat /\ Len(fresh) \in Nat
  BY <1>1, AppendIs DEF IInv, HistoryInv, SavedInv, CandlesOK
<1>3. Selects(b, fresh, Len(fresh))
  BY <1>2, BuysSelect
<1> HIDE DEF b, n
<1>4. IsSeq(b) /\ Len(b) \in Nat
  BY <1>3, AppendIs DEF Selects
<1>5. PICK g : /\ \A k \in 1 .. Len(b) : g[k] \in 1 .. Len(fresh) /\ b[k] = fresh[g[k]]
                                         /\ IsBuy(fresh[g[k]])
               /\ \A k, l \in 1 .. Len(b) : k < l => g[k] < g[l]
  BY <1>3 DEF Selects
<1> DEFINE y == [i \in 1 .. Len(b) |-> n + g[i]]
<1>6. \A i \in 1 .. Len(b) : y[i] = n + g[i]
  OBVIOUS
<1> HIDE DEF y
<1>7. ASSUME NEW i \in 1 .. Len(b)
      PROVE  /\ y[i] \in 1 .. Len(frames) /\ n < y[i]
             /\ b[i] = FrameIn(market, higher, CountsOf(higher), frames, y[i]) /\ IsBuy(b[i])
  <2> DEFINE k == g[i]
  <2>1. k \in 1 .. Len(fresh) /\ b[i] = fresh[k] /\ IsBuy(fresh[k]) /\ y[i] = n + k
    BY <1>5, <1>6
  <2> HIDE DEF k
  <2>2. n + k \in 1 .. Len(frames) /\ n < n + k
    BY <1>1, <1>2, <2>1
  <2> QED BY <1>1, <2>1, <2>2
<1>8. ASSUME NEW i \in 1 .. Len(b), NEW j \in 1 .. Len(b), i < j PROVE y[i] < y[j]
  <2>1. g[i] \in Nat /\ g[j] \in Nat /\ g[i] < g[j]
    BY <1>5, <1>8
  <2> QED BY <1>2, <1>6, <2>1
<1> QED BY <1>4, <1>7, <1>8 DEF b, n

\* No setup is delivered twice, neither by one cycle nor by one and an earlier one.
LEMMA FinishDelivered ==
    ASSUME IInv, OutInv, FinishCycle PROVE DeliveredInv'
<1> DEFINE b == BuysOf(fresh)
           n == Len(saved.frames)
           all == CountsOf(higher)
           d == delivered \o b
<1>1. /\ pc = "idle" /\ ~warming /\ delivered' = d /\ market' = market
      /\ saved'.frames = frames /\ saved'.higher = higher
  BY DEF FinishCycle, Export
<1>2. /\ CandlesOK(frames) /\ Len(frames) \in Nat /\ HistoriesOK(higher)
      /\ HistoriesOK(saved.higher) /\ n \in Nat
  BY DEF IInv, HistoryInv, SavedInv, CandlesOK
<1>3. /\ IsSeq(delivered)
      /\ \A i \in 1 .. Len(delivered) : Founded(delivered[i], market, saved.higher, saved.frames, n)
      /\ \A i, j \in 1 .. Len(delivered) :
            i < j => IdOf(delivered[i], market) # IdOf(delivered[j], market)
      /\ Extends(frames, saved.frames) /\ HistoriesExtend(higher, saved.higher)
  BY <1>1 DEF OutInv, DeliveredInv, FreshInv
<1>4. IsSeq(b) /\ Len(b) \in Nat
  BY <1>1, BuysOfTheCycle
<1>5. PICK y : /\ \A i \in 1 .. Len(b) :
                     /\ y[i] \in 1 .. Len(frames) /\ n < y[i]
                     /\ b[i] = FrameIn(market, higher, all, frames, y[i]) /\ IsBuy(b[i])
               /\ \A i, j \in 1 .. Len(b) : i < j => y[i] < y[j]
  BY <1>1, BuysOfTheCycle
<1> HIDE DEF b
<1>6. /\ IsSeq(d) /\ Len(delivered) \in Nat /\ Len(d) = Len(delivered) + Len(b)
      /\ \A i \in 1 .. Len(delivered) : d[i] = delivered[i]
      /\ \A i \in 1 .. Len(b) : d[Len(delivered) + i] = b[i]
  BY <1>3, <1>4, JoinIs
<1>7. n <= Len(frames) /\ \A x \in 1 .. n : frames[x] = saved.frames[x]
  BY <1>3 DEF Extends
<1> HIDE DEF d, n, all
<1>8. ASSUME NEW i \in 1 .. Len(delivered), NEW v \in Nat, n <= v
      PROVE  Founded(delivered[i], market, higher, frames, v)
  <2> DEFINE e == delivered[i]
  <2>1. Founded(e, market, saved.higher, saved.frames, n)
    BY <1>3
  <2> HIDE DEF e
  <2>2. Founded(e, market, higher, frames, v)
    BY <1>2, <1>3, <1>7, <1>8, <2>1, FoundedGrows
  <2> QED BY <2>2 DEF e
<1>9. ASSUME NEW i \in 1 .. Len(b), NEW v \in Nat, y[i] <= v
      PROVE  Founded(b[i], market, higher, frames, v)
  <2> DEFINE x == y[i]
             c == ContextTo(higher, all, frames[x])
  <2>1. x \in 1 .. Len(frames) /\ b[i] = FrameIn(market, higher, all, frames, x) /\ IsBuy(b[i])
    BY <1>5
  <2> HIDE DEF x
  <2>2. b[i].candle = frames[x] /\ b[i].context = c
        /\ StatusIn(market, frames[x], c) = "BUY_SIGNAL"
    BY <2>1, BuyIsNew
  <2>3. Within(all, higher)
    BY <1>2, CountsWithin DEF all
  <2>4. x \in 1 .. v
    BY <1>2, <1>9, <2>1 DEF x
  <2> QED BY <2>2, <2>3, <2>4 DEF Founded
<1>10. ASSUME NEW e, NEW j \in 1 .. Len(b), NEW v \in Nat, v < y[j],
              Founded(e, market, higher, frames, v)
       PROVE  IdOf(e, market) # IdOf(b[j], market)
  <2> DEFINE x == y[j]
  <2>1. x \in 1 .. Len(frames) /\ b[j] = FrameIn(market, higher, all, frames, x) /\ IsBuy(b[j])
        /\ v < x
    BY <1>5, <1>10
  <2> HIDE DEF x
  <2>2. IsBuy(FrameIn(market, higher, CountsOf(higher), frames, x))
    BY <2>1 DEF all
  <2>3. IdOf(e, market) # IdOf(FrameIn(market, higher, CountsOf(higher), frames, x), market)
    BY <1>2, <1>10, <2>1, <2>2, FenceHolds
  <2> QED BY <2>1, <2>3 DEF all
<1>11. \A i \in 1 .. Len(d) :
        \/ i \in 1 .. Len(delivered)
        \/ /\ i > Len(delivered) /\ i - Len(delivered) \in 1 .. Len(b)
           /\ d[i] = b[i - Len(delivered)]
  <2> SUFFICES ASSUME NEW i \in 1 .. Len(d), i \notin 1 .. Len(delivered)
               PROVE  /\ i > Len(delivered) /\ i - Len(delivered) \in 1 .. Len(b)
                      /\ d[i] = b[i - Len(delivered)]
    OBVIOUS
  <2> DEFINE k == i - Len(delivered)
  <2>1. k \in 1 .. Len(b) /\ Len(delivered) + k = i /\ i > Len(delivered)
    BY <1>4, <1>6
  <2> HIDE DEF k
  <2>2. d[i] = b[k]
    BY <1>6, <2>1
  <2> QED BY <2>1, <2>2 DEF k
<1>12. ASSUME NEW i \in 1 .. Len(d)
       PROVE  Founded(d[i], market, higher, frames, Len(frames))
  <2>1. CASE i \in 1 .. Len(delivered)
    <3>1. Founded(delivered[i], market, higher, frames, Len(frames))
      BY <1>2, <1>7, <1>8, <2>1
    <3> QED BY <1>6, <2>1, <3>1
  <2>2. CASE i \notin 1 .. Len(delivered)
    <3> DEFINE k == i - Len(delivered)
    <3>1. k \in 1 .. Len(b) /\ d[i] = b[k]
      BY <1>11, <2>2
    <3> HIDE DEF k
    <3>2. y[k] <= Len(frames)
      BY <1>2, <1>5, <3>1
    <3> QED BY <1>2, <1>9, <3>1, <3>2
  <2> QED BY <2>1, <2>2
<1>13. ASSUME NEW i \in 1 .. Len(d), NEW j \in 1 .. Len(d), i < j
       PROVE  IdOf(d[i], market) # IdOf(d[j], market)
  <2>1. CASE j \in 1 .. Len(delivered)
    <3>1. i \in 1 .. Len(delivered)
      BY <1>6, <1>13, <2>1
    <3> QED BY <1>3, <1>6, <1>13, <2>1, <3>1
  <2>2. CASE j \notin 1 .. Len(delivered)
    <3> DEFINE l == j - Len(delivered)
    <3>1. l \in 1 .. Len(b) /\ d[j] = b[l]
      BY <1>11, <2>2
    <3>2. CASE i \in 1 .. Len(delivered)
      <4>1. Founded(delivered[i], market, higher, frames, n) /\ n < y[l]
        BY <1>2, <1>5, <1>8, <3>1, <3>2
      <4> HIDE DEF l
      <4>2. IdOf(delivered[i], market) # IdOf(b[l], market)
        BY <1>2, <1>10, <3>1, <4>1
      <4> QED BY <1>6, <3>1, <3>2, <4>2
    <3>3. CASE i \notin 1 .. Len(delivered)
      <4> DEFINE k == i - Len(delivered)
      <4>1. k \in 1 .. Len(b) /\ d[i] = b[k] /\ k < l
        BY <1>6, <1>11, <1>13, <3>3
      <4> HIDE DEF l, k
      <4>2. y[k] \in Nat /\ y[k] < y[l] /\ y[k] <= y[k]
        BY <1>2, <1>5, <3>1, <4>1
      <4>3. Founded(b[k], market, higher, frames, y[k])
        BY <1>9, <4>1, <4>2
      <4>4. IdOf(b[k], market) # IdOf(b[l], market)
        BY <1>10, <3>1, <4>2, <4>3
      <4> QED BY <3>1, <4>1, <4>4
    <3> QED BY <3>2, <3>3
  <2> QED BY <2>1, <2>2
<1> QED BY <1>1, <1>6, <1>12, <1>13 DEF DeliveredInv

\* The end of a cycle.
LEMMA FinishOut == IInv /\ IInv' /\ OutInv /\ FinishCycle => OutInv'
<1> SUFFICES ASSUME IInv, IInv', OutInv, FinishCycle PROVE OutInv'
  OBVIOUS
<1>1. /\ pc = "idle" /\ pc' = "idle" /\ saved' = Export /\ fresh' = <<>>
      /\ UNCHANGED <<frames, higher, frameCount>>
  BY DEF FinishCycle, runtimeVars
<1>2. warming' = FALSE
  BY DEF FinishCycle, IInv, HistoryInv
<1>3. FreshInv'
  BY <1>1, <1>2, ExportOut
<1>4. RefusedInv'
  BY <1>1 DEF RefusedInv
<1> QED BY <1>3, <1>4, FinishRecorded, FinishDelivered DEF OutInv

\* Every step keeps the invariant of what left the process.
LEMMA OutStep == IInv /\ IInv' /\ OutInv /\ [Next]_vars => OutInv'
<1> SUFFICES ASSUME IInv, IInv', OutInv, [Next]_vars PROVE OutInv'
  OBVIOUS
<1>1. /\ frames \in Seq(Candle) /\ Len(frames) \in Nat /\ HistoriesOK(higher)
      /\ Extends(frames, frames) /\ HistoriesExtend(higher, higher) /\ frameCount <= Len(frames)
  <2>1. frames \in Seq(Candle) /\ Len(frames) \in Nat /\ HistoriesOK(higher)
    BY DEF IInv, HistoryInv, CandlesOK
  <2>2. frameCount <= Len(frames)
    BY <2>1 DEF IInv, PlaceInv, Settled
  <2> QED BY <2>1, <2>2 DEF Extends, HistoriesExtend, HistoriesOK
<1>2. CASE AcceptHigher
  <2>1. PICK tf \in Timeframes, n \in HigherCandle : ExtendHigher(tf, n)
    BY <1>2 DEF AcceptHigher
  <2>2. higher' = [higher EXCEPT ![tf] = Append(@, n)]
    BY <2>1 DEF ExtendHigher
  <2>3. ASSUME NEW u \in Timeframes PROVE Extends(higher'[u], higher[u])
    <3>1. higher \in [Timeframes -> Seq(HigherCandle)] /\ higher[u] \in Seq(HigherCandle)
      BY <1>1 DEF HistoriesOK
    <3>2. higher'[u] = IF u = tf THEN Append(higher[u], n) ELSE higher[u]
      BY <2>2, <3>1
    <3> QED BY <3>1, <3>2 DEF Extends
  <2>4. HistoriesExtend(higher', higher)
    BY <2>3 DEF HistoriesExtend
  <2>5. /\ UNCHANGED <<market, saved, recorded, delivered, fresh, warming, frameCount, frames,
                       pc, pending>>
        /\ fresh = <<>>
    BY <1>2 DEF AcceptHigher, serviceVars, durableVars
  <2> QED BY <1>1, <2>4, <2>5, QuietOut
<1>3. CASE AcceptPrimary \/ WarmUp
  <2>1. PICK p : frames' = Append(frames, p)
    BY <1>3 DEF AcceptPrimary, WarmUp, PushPrimary
  <2>2. IsSeq(frames)
    BY <1>1 DEF IsSeq
  <2>3. Extends(frames', frames)
    BY <2>1, <2>2, AppendIs DEF Extends
  <2>4. /\ UNCHANGED <<market, saved, recorded, delivered, fresh, warming, frameCount, higher>>
        /\ pc' # "refused_ledger"
    BY <1>3 DEF AcceptPrimary, WarmUp, PushPrimary, durableVars
  <2> QED BY <1>1, <2>3, <2>4, QuietOut
<1>4. CASE FastForward \/ Rebuild \/ Replay
  <2>1. /\ UNCHANGED <<market, saved, recorded, delivered, fresh, warming, frameCount, higher,
                       frames>>
        /\ pc' # "refused_ledger"
    BY <1>4 DEF FastForward, Rebuild, Replay, serviceVars, durableVars
  <2> QED BY <1>1, <2>1, QuietOut
<1>5. CASE ReplayDone
  <2>1. /\ pc = "replay" /\ Return(engine.latest) /\ ~ dirty'
        /\ UNCHANGED <<market, frames, higher, pending, warming, durableVars>>
    BY <1>5 DEF ReplayDone
  <2> QED BY <2>1, ReturnOut
<1>6. CASE Advance
  <2>1. /\ pc = "advance" /\ Return(engine'.latest) /\ dirty' = dirty
        /\ UNCHANGED <<market, frames, higher, pending, warming, durableVars>>
    BY <1>6 DEF Advance
  <2>2. ~ dirty'
    BY <2>1 DEF IInv, PlaceInv
  <2> DEFINE e == engine'.latest
  <2>3. Return(e)
    BY <2>1
  <2> HIDE DEF e
  <2> QED BY <2>1, <2>2, <2>3, ReturnOut
<1>7. CASE UNCHANGED vars
  <2>1. UNCHANGED <<market, saved, recorded, delivered, fresh, warming, frameCount, higher,
                    frames, pc, pending>>
    BY <1>7 DEF vars, runtimeVars, serviceVars, durableVars
  <2> QED BY <1>1, <2>1, QuietOut
<1> QED BY <1>2, <1>3, <1>4, <1>5, <1>6, <1>7, FinishOut, RestartOut, VerifyOut DEF Next

\* Every reachable state: what was recorded and delivered are frames of the candles, each over
\* the higher histories of its time.
THEOREM OutInvariant == Spec => []OutInv
<1> QED BY InitOut, OutStep, RuntimeInvariant, PTL DEF Spec

\* signal_engine/evidence.py, "one_per_setup": whatever mixture of late higher candles,
\* rebuilds, crashes and restarts came before, no setup is handed to delivery twice.
THEOREM SetupsAreDeliveredOnce == Spec => []OneBuyPerSetup
<1>1. OutInv => OneBuyPerSetup
  BY SameIdentity DEF OutInv, DeliveredInv, OneBuyPerSetup, IdOf
<1> QED BY <1>1, OutInvariant, PTL

\* Candles of a history that were published with their full context are published the same
\* by the startup.
LEMMA FullContextsAgree ==
    ASSUME NEW m, NEW h, NEW f, NEW K, NEW n \in Nat, HistoriesOK(h), CandlesOK(f), n <= Len(f),
           \A i \in 1 .. n : Within(K[i], h) /\ \A j \in 1 .. i : AtLeast(K[i], K[j]),
           \A i \in 1 .. n : ContextTo(h, K[i], f[i]) = ContextTo(h, CountsOf(h), f[i]),
           NEW i \in 1 .. n
    PROVE  FrameIn(m, h, K[i], f, i) = FrameIn(m, h, CountsOf(h), f, i)
<1> DEFINE all == CountsOf(h)
           k == K[i]
<1>1. ASSUME NEW x \in 1 .. i PROVE ContextTo(h, k, f[x]) = ContextTo(h, all, f[x])
  <2> DEFINE l == K[x]
  <2>1. x \in 1 .. n /\ Within(k, h) /\ Within(l, h) /\ AtLeast(k, l)
    OBVIOUS
  <2>2. ContextTo(h, l, f[x]) = ContextTo(h, all, f[x])
    BY <2>1
  <2>3. Within(all, h) /\ AtLeast(all, k)
    <3>1. \A tf \in Timeframes : k[tf] <= Len(h[tf])
      BY <2>1 DEF Within
    <3> HIDE DEF k
    <3> QED BY <3>1, CountsWithin DEF AtLeast, CountsOf
  <2>4. f[x] \in Nat /\ f[x] <= f[x]
    <3>1. f \in Seq(Candle) /\ Len(f) \in Nat
      BY DEF CandlesOK
    <3>2. x \in 1 .. Len(f)
      BY <2>1, <3>1
    <3>3. f[x] \in Candle
      BY <3>1, <3>2
    <3> QED BY <3>3 DEF Candle
  <2> HIDE DEF l, k, all
  <2>5. ContextTo(h, k, f[x]) = ContextTo(h, l, f[x])
    BY <2>1, <2>2, <2>3, <2>4, ContextBetween
  <2> QED BY <2>2, <2>5
<1> HIDE DEF k, all
<1>2. i - 1 \in Nat /\ i \in 1 .. i /\ \A x \in 1 .. i - 1 : x \in 1 .. i
  OBVIOUS
<1>3. SetupsIn(m, h, k, f, i - 1) = SetupsIn(m, h, all, f, i - 1)
  BY <1>1, <1>2, ReferenceDependsOn
<1>4. FrameIn(m, h, k, f, i) = FrameIn(m, h, all, f, i)
  BY <1>1, <1>2, <1>3 DEF FrameIn
<1> QED BY <1>4 DEF k, all

\* The start of a sequence is the sequence when nothing is left of it.
LEMMA PrefixOfItself ==
    ASSUME NEW s, IsSeq(s) PROVE IsPrefix(s, s)
<1>1. PICK S : s \in Seq(S)
  BY DEF IsSeq
<1> QED BY <1>1 DEF IsPrefix

\* The empty one is a start of any.
LEMMA PrefixEmpty ==
    ASSUME NEW t, IsSeq(t) PROVE IsPrefix(BuysOf(<<>>), t)
<1>1. Len(<<>>) = 0 /\ Len(<<>>) \in Nat
  OBVIOUS
<1> DEFINE b == BuysOf(<<>>)
<1>2. Selects(b, <<>>, 0)
  BY <1>1, BuysSelect
<1> HIDE DEF b
<1>3. IsSeq(b) /\ \A k \in 1 .. Len(b) : FALSE
  BY <1>2 DEF Selects
<1>4. Len(b) \in Nat
  BY <1>3, AppendIs
<1>5. Len(b) = 0
  BY <1>3, <1>4
<1>6. PICK S : b \in Seq(S)
  BY <1>3 DEF IsSeq
<1>7. b = <<>>
  BY <1>5, <1>6
<1>8. PICK T : t \in Seq(T)
  BY DEF IsSeq
<1>9. IsPrefix(b, t)
  BY <1>7, <1>8 DEF IsPrefix
<1> QED BY <1>9 DEF b

\* live/service.py, the startup: if every frame was recorded with all the higher candles that
\* were eligible, the regenerated ledger holds the recorded one and the restart goes on.
THEOREM RefusalsHaveAReason == Spec => []RefusedOnlyAfterLateCandle
<1>1. IInv /\ OutInv => RefusedOnlyAfterLateCandle
  <2> SUFFICES ASSUME IInv, OutInv, pc = "refused_ledger",
                      \A i \in 1 .. Len(recorded) :
                          recorded[i].context = FullContext(recorded[i].candle)
               PROVE  FALSE
    BY DEF RefusedOnlyAfterLateCandle
  <2>1. warming /\ pending = <<>> /\ ~ LedgerAgrees
    BY DEF OutInv, RefusedInv
  <2>2. /\ HistoriesOK(higher) /\ CandlesOK(frames) /\ Len(frames) \in Nat
        /\ frameCount = Len(frames)
    BY DEF IInv, HistoryInv, CandlesOK, PlaceInv, Settled
  <2>3. /\ IsSeq(fresh) /\ Len(fresh) \in Nat /\ Len(fresh) = Len(frames)
        /\ \A i \in 1 .. Len(fresh) :
              fresh[i] = FrameIn(market, higher, CountsOf(higher), frames, i)
    <3>1. IsSeq(fresh) /\ 0 + Len(fresh) = Len(frames)
          /\ \A i \in 1 .. Len(fresh) :
                fresh[i] = FrameIn(market, higher, CountsOf(higher), frames, 0 + i)
      BY <2>1, <2>2 DEF OutInv, FreshInv, Base
    <3>2. Len(fresh) \in Nat
      BY <3>1, AppendIs
    <3>3. \A i \in 1 .. Len(fresh) : 0 + i = i
      BY <3>2
    <3> QED BY <3>1, <3>2, <3>3
  <2>4. IsSeq(BuysOf(fresh))
    BY <2>3, BuysSelect DEF Selects
  <2>5. IsSeq(recorded) /\ Len(recorded) = Len(saved.frames)
    BY DEF OutInv, RecordedInv
  <2>6. CASE saved.frames = <<>>
    <3>1. recorded = <<>>
      <4>1. PICK S : recorded \in Seq(S)
        BY <2>5 DEF IsSeq
      <4>2. Len(recorded) = 0
        BY <2>5, <2>6, EmptyIs
      <4> QED BY <4>1, <4>2
    <3> QED BY <2>1, <2>4, <3>1, PrefixEmpty DEF LedgerAgrees
  <2>7. CASE saved.frames # <<>>
    <3>1. higher = saved.higher /\ frames = saved.frames
      BY <2>1, <2>7, WarmIsSaved
    <3>2. PICK K : \A i \in 1 .. Len(recorded) :
            /\ Within(K[i], higher) /\ \A j \in 1 .. i : AtLeast(K[i], K[j])
            /\ recorded[i] = FrameIn(market, higher, K[i], frames, i)
      BY <3>1 DEF OutInv, RecordedInv
    <3>3. Len(recorded) = Len(frames)
      BY <2>5, <3>1
    <3>4. ASSUME NEW i \in 1 .. Len(frames)
          PROVE  ContextTo(higher, K[i], frames[i])
                     = ContextTo(higher, CountsOf(higher), frames[i])
      <4>1. /\ recorded[i].candle = frames[i]
            /\ recorded[i].context = ContextTo(higher, K[i], frames[i])
        <5> DEFINE k == K[i]
        <5>1. recorded[i] = FrameIn(market, higher, k, frames, i)
          BY <3>2, <3>3
        <5> HIDE DEF k
        <5>2. recorded[i].candle = frames[i]
              /\ recorded[i].context = ContextTo(higher, k, frames[i])
          BY <5>1 DEF FrameIn, SnapshotIn
        <5> QED BY <5>2 DEF k
      <4>2. recorded[i].context = FullContext(frames[i])
        BY <3>3, <4>1
      <4> QED BY <2>2, <4>1, <4>2, FullContextIs
    <3>5. \A i \in 1 .. Len(frames) : recorded[i] = fresh[i]
      <4> SUFFICES ASSUME NEW i \in 1 .. Len(frames) PROVE recorded[i] = fresh[i]
        OBVIOUS
      <4>1. FrameIn(market, higher, K[i], frames, i)
                = FrameIn(market, higher, CountsOf(higher), frames, i)
        <5> DEFINE n == Len(frames)
        <5>1. /\ \A x \in 1 .. n : Within(K[x], higher) /\ \A j \in 1 .. x : AtLeast(K[x], K[j])
              /\ \A x \in 1 .. n : ContextTo(higher, K[x], frames[x])
                                       = ContextTo(higher, CountsOf(higher), frames[x])
          BY <3>2, <3>3, <3>4
        <5>2. n \in Nat /\ n <= Len(frames) /\ i \in 1 .. n
          BY <2>2
        <5> HIDE DEF n
        <5> QED BY <2>2, <5>1, <5>2, FullContextsAgree
      <4> QED BY <2>3, <3>2, <3>3, <4>1
    <3>6. recorded = fresh
      <4>1. PICK S, T : recorded \in Seq(S) /\ fresh \in Seq(T)
        BY <2>3, <2>5 DEF IsSeq
      <4>2. /\ recorded = [i \in 1 .. Len(recorded) |-> recorded[i]]
            /\ fresh = [i \in 1 .. Len(fresh) |-> fresh[i]]
        BY <4>1
      <4> QED BY <2>3, <3>3, <3>5, <4>2
    <3> QED BY <2>1, <2>4, <3>6, PrefixOfItself DEF LedgerAgrees
  <2> QED BY <2>6, <2>7
<1> QED BY <1>1, RuntimeInvariant, OutInvariant, PTL
=============================================================================
