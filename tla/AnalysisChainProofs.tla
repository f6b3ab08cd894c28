------------------------ MODULE AnalysisChainProofs ------------------------
(***************************************************************************)
(* The chain of analyzers, for every feed, fractal length, tolerance,      *)
(* period, lookback and configuration: the windows and candidates that the *)
(* analyzers keep are those of the whole history of candles, and the       *)
(* frames they publish say what the history says.                          *)
(***************************************************************************)
EXTENDS AnalysisChain, FiniteSetTheorems, WellFoundedInduction, TLAPS

(* Extrema of sets of numbers.                                             *)

Less == {ss \in Nat \X Nat : ss[1] < ss[2]}

\* A non-empty set of naturals has a least element.
LEMMA LeastNatural ==
    ASSUME NEW T, T \subseteq Nat, T # {} PROVE \E x \in T : \A y \in T : x <= y
<1>1. IsWellFoundedOn(Less, Nat)
  BY NatLessThanWellFounded DEF OpToRel, Less
<1>2. PICK x \in T : \A y \in T : ~ (<<y, x>> \in Less)
  BY <1>1, WFMin
<1>3. \A y \in T : y \in Nat /\ x \in Nat /\ ~(y < x)
  BY <1>2 DEF Less
<1> QED BY <1>3

\* Max is the element that no other one exceeds.
LEMMA MaxIs ==
    ASSUME NEW S, S \subseteq Int, NEW m \in S, \A x \in S : x <= m
    PROVE  Max(S) = m
<1>1. m \in S /\ \A y \in S : m >= y
  OBVIOUS
<1>2. Max(S) \in S /\ \A y \in S : Max(S) >= y
  BY <1>1 DEF Max
<1>3. Max(S) <= m /\ m <= Max(S) /\ Max(S) \in Int
  BY <1>2
<1> QED BY <1>3

\* A non-empty set of numbers with an upper bound has a maximum.
LEMMA MaxOf ==
    ASSUME NEW n \in Int, NEW S, S \subseteq Nat, \A x \in S : x <= n, S # {}
    PROVE  Max(S) \in S /\ \A x \in S : x <= Max(S)
<1> DEFINE T == {n - x : x \in S}
<1>1. T \subseteq Nat /\ T # {}
  OBVIOUS
<1>2. PICK t \in T : \A y \in T : t <= y
  BY <1>1, LeastNatural
<1>3. PICK m \in S : t = n - m
  BY <1>2
<1>4. \A x \in S : x <= m
  <2> SUFFICES ASSUME NEW x \in S PROVE x <= m
    OBVIOUS
  <2>1. n - x \in T
    OBVIOUS
  <2>2. n - m <= n - x
    BY <1>2, <1>3, <2>1
  <2> QED BY <2>2
<1>5. Max(S) = m
  <2>1. S \subseteq Int
    OBVIOUS
  <2> QED BY <1>4, <2>1, MaxIs
<1> QED BY <1>3, <1>4, <1>5

\* Min is the element that exceeds no other one.
LEMMA MinIs ==
    ASSUME NEW S, S \subseteq Int, NEW m \in S, \A x \in S : m <= x
    PROVE  Min(S) = m
<1>1. m \in S /\ \A y \in S : m <= y
  OBVIOUS
<1>2. Min(S) \in S /\ \A y \in S : Min(S) <= y
  BY <1>1 DEF Min
<1>3. Min(S) <= m /\ m <= Min(S) /\ Min(S) \in Int
  BY <1>2
<1> QED BY <1>3

\* A non-empty set of naturals has a minimum.
LEMMA MinOf ==
    ASSUME NEW S, S \subseteq Nat, S # {}
    PROVE  Min(S) \in S /\ \A x \in S : Min(S) <= x
<1>1. PICK m \in S : \A y \in S : m <= y
  BY LeastNatural
<1>2. Min(S) = m
  <2>1. S \subseteq Int
    OBVIOUS
  <2> QED BY <1>1, <2>1, MinIs
<1> QED BY <1>1, <1>2

\* The extrema of a pair.
LEMMA MaxOfPair ==
    ASSUME NEW a \in Int, NEW b \in Int
    PROVE  Max({a, b}) = IF a >= b THEN a ELSE b
<1>1. CASE a >= b
  BY <1>1, MaxIs
<1>2. CASE ~(a >= b)
  <2>1. Max({a, b}) = b
    BY <1>2, MaxIs
  <2> QED BY <1>2, <2>1
<1> QED BY <1>1, <1>2

\* The smaller of a pair is the minimum of it.
LEMMA MinOfPair ==
    ASSUME NEW a \in Int, NEW b \in Int
    PROVE  Min({a, b}) = IF a <= b THEN a ELSE b
<1>1. CASE a <= b
  BY <1>1, MinIs
<1>2. CASE ~(a <= b)
  <2>1. Min({a, b}) = b
    BY <1>2, MinIs
  <2> QED BY <1>2, <2>1
<1> QED BY <1>1, <1>2

-----------------------------------------------------------------------------
(* Sequences and the windows at their ends.                                *)

Elements(s) == {s[i] : i \in 1 .. Len(s)}
IsSeq(s) == s \in Seq(Elements(s))

\* w holds the last n items of s, or all of them.
IsTail(w, s, n) ==
    /\ IsSeq(w)
    /\ Len(w) = IF Len(s) <= n THEN Len(s) ELSE n
    /\ \A i \in 1 .. Len(w) : w[i] = s[Len(s) - Len(w) + i]

\* A sequence over any set is one.
LEMMA SeqIs ==
    ASSUME NEW S, NEW s \in Seq(S) PROVE IsSeq(s)
<1>1. s = [i \in 1 .. Len(s) |-> s[i]] /\ Len(s) \in Nat
  OBVIOUS
<1>2. \A i \in 1 .. Len(s) : s[i] \in Elements(s)
  BY DEF Elements
<1> HIDE DEF Elements
<1>3. [i \in 1 .. Len(s) |-> s[i]] \in Seq(Elements(s))
  BY <1>1, <1>2
<1> QED BY <1>1, <1>3 DEF IsSeq

\* A function on an initial segment is one.
LEMMA FunctionIs ==
    ASSUME NEW n \in Nat, NEW f, f = [i \in 1 .. n |-> f[i]]
    PROVE  IsSeq(f) /\ Len(f) = n
<1> DEFINE S == {f[i] : i \in 1 .. n}
<1>1. \A i \in 1 .. n : f[i] \in S
  OBVIOUS
<1> HIDE DEF S
<1>2. [i \in 1 .. n |-> f[i]] \in Seq(S) /\ Len([i \in 1 .. n |-> f[i]]) = n
  BY <1>1
<1>3. f \in Seq(S) /\ Len(f) = n
  BY <1>2
<1> QED BY <1>3, SeqIs

\* What a sequence is after an item is appended.
LEMMA AppendIs ==
    ASSUME NEW s, IsSeq(s), NEW x
    PROVE  /\ IsSeq(Append(s, x)) /\ Len(s) \in Nat /\ Len(Append(s, x)) = Len(s) + 1
           /\ \A i \in 1 .. Len(s) : Append(s, x)[i] = s[i]
           /\ Append(s, x)[Len(s) + 1] = x
<1> DEFINE S == Elements(s) \cup {x}
<1>1. s \in Seq(Elements(s))
  BY DEF IsSeq
<1> HIDE DEF IsSeq
<1>2. s = [i \in 1 .. Len(s) |-> s[i]] /\ Len(s) \in Nat /\ \A i \in 1 .. Len(s) : s[i] \in Elements(s)
  BY <1>1
<1>3. \A i \in 1 .. Len(s) : s[i] \in S
  BY <1>2
<1>4. x \in S
  OBVIOUS
<1> HIDE DEF S
<1>5. [i \in 1 .. Len(s) |-> s[i]] \in Seq(S)
  BY <1>2, <1>3
<1>6. s \in Seq(S)
  BY <1>2, <1>5
<1>7. Append(s, x) \in Seq(S)
  BY <1>4, <1>6
<1>8. IsSeq(Append(s, x))
  BY <1>7, SeqIs
<1> QED BY <1>2, <1>4, <1>6, <1>8

\* Two sequences with the same items are the same.
LEMMA SameItems ==
    ASSUME NEW s, IsSeq(s), NEW t, IsSeq(t), Len(s) = Len(t),
           \A i \in 1 .. Len(s) : s[i] = t[i]
    PROVE  s = t
<1>1. s \in Seq(Elements(s)) /\ t \in Seq(Elements(t))
  BY DEF IsSeq
<1>2. s = [i \in 1 .. Len(s) |-> s[i]] /\ t = [i \in 1 .. Len(t) |-> t[i]]
  BY <1>1
<1> QED BY <1>2

\* Sliding keeps a window at the end of what grows.
LEMMA SlideIsTail ==
    ASSUME NEW n \in Nat \ {0}, NEW s, IsSeq(s), NEW w, IsTail(w, s, n), NEW x
    PROVE  IsTail(Slide(w, x, n), Append(s, x), n)
<1> DEFINE t == Append(w, x)
           u == Append(s, x)
           k == Len(t) - n + 1
           v == SubSeq(t, k, Len(t))
<1>1. IsSeq(w) /\ Len(w) = (IF Len(s) <= n THEN Len(s) ELSE n)
      /\ \A i \in 1 .. Len(w) : w[i] = s[Len(s) - Len(w) + i]
  BY DEF IsTail
<1>2. /\ IsSeq(t) /\ Len(w) \in Nat /\ Len(t) = Len(w) + 1
      /\ (\A i \in 1 .. Len(w) : t[i] = w[i]) /\ t[Len(w) + 1] = x
  BY <1>1, AppendIs
<1>3. /\ IsSeq(u) /\ Len(s) \in Nat /\ Len(u) = Len(s) + 1
      /\ (\A i \in 1 .. Len(s) : u[i] = s[i]) /\ u[Len(s) + 1] = x
  BY AppendIs
<1>4. Slide(w, x, n) = IF Len(t) <= n THEN t ELSE v
  BY DEF Slide
<1>5. t \in Seq(Elements(t))
  BY <1>2 DEF IsSeq
<1> HIDE DEF t, u
<1>6. \A i \in 1 .. Len(t) : t[i] = u[Len(u) - Len(t) + i]
  <2> SUFFICES ASSUME NEW i \in 1 .. Len(t) PROVE t[i] = u[Len(u) - Len(t) + i]
    OBVIOUS
  <2>1. CASE i = Len(t)
    BY <2>1, <1>2, <1>3
  <2>2. CASE i # Len(t)
    <3>1. i \in 1 .. Len(w) /\ Len(s) - Len(w) + i \in 1 .. Len(s)
      BY <2>2, <1>1, <1>2, <1>3
    <3>2. Len(u) - Len(t) + i = Len(s) - Len(w) + i
      BY <1>2, <1>3, <3>1
    <3> QED BY <3>1, <3>2, <1>1, <1>2, <1>3
  <2> QED BY <2>1, <2>2
<1>7. CASE Len(t) <= n
  <2>1. Len(t) = Len(u) /\ Len(u) <= n
    BY <1>7, <1>1, <1>2, <1>3
  <2>2. IsTail(t, u, n)
    BY <2>1, <1>2, <1>6 DEF IsTail
  <2> QED BY <1>4, <1>7, <2>2 DEF u
<1>8. CASE ~(Len(t) <= n)
  <2>1. Len(t) = n + 1 /\ k = 2 /\ Len(w) = n /\ ~(Len(u) <= n)
    BY <1>8, <1>1, <1>2, <1>3
  <2>2. v \in Seq(Elements(t)) /\ Len(v) = n /\ \A i \in 1 .. n : v[i] = t[i + 1]
    BY <2>1, <1>5
  <2>3. IsSeq(v)
    BY <2>2, SeqIs
  <2>4. \A i \in 1 .. Len(v) : v[i] = u[Len(u) - Len(v) + i]
    <3> SUFFICES ASSUME NEW i \in 1 .. Len(v) PROVE v[i] = u[Len(u) - Len(v) + i]
      OBVIOUS
    <3>1. i + 1 \in 1 .. Len(t) /\ v[i] = t[i + 1]
      BY <2>1, <2>2
    <3>2. Len(u) - Len(t) + (i + 1) = Len(u) - Len(v) + i
      BY <1>3, <2>1, <2>2
    <3> QED BY <3>1, <3>2, <1>6
  <2> HIDE DEF v
  <2>5. IsTail(v, u, n)
    BY <2>1, <2>2, <2>3, <2>4 DEF IsTail
  <2> QED BY <1>4, <1>8, <2>5 DEF u
<1> QED BY <1>7, <1>8

-----------------------------------------------------------------------------
(* The history of candles.  What AnalysisChain says of the candles in      *)
(* frames is said here of a sequence h of candles, as a constant.          *)

Candle == [index : Nat, open : Nat, high : Nat, low : Nat, close : Nat, available : Nat]

CandleOK(c, i) ==
    /\ c \in Candle /\ c.index = i /\ i < c.available
    /\ c.low > 0 /\ c.low <= c.open /\ c.low <= c.close /\ c.open <= c.high /\ c.close <= c.high

HistoryOK(h) ==
    /\ h \in Seq(Candle)
    /\ \A i \in 1 .. Len(h) : CandleOK(h[i], i - 1)
    /\ \A i, j \in 1 .. Len(h) : i <= j => h[i].available <= h[j].available

FractalIn(h, kind, p) ==
    /\ p - Radius >= 0 /\ p + Radius <= Len(h) - 1
    /\ \A i \in (p - Radius .. p + Radius) \ {p} :
          Beyond(kind, Extreme(h[p + 1], kind), Extreme(h[i + 1], kind))

PivotsIn(h, kind, i) == {p \in 0 .. Len(h) - 1 : p + Radius <= i /\ FractalIn(h, kind, p)}
NewestIn(h, kind, i) == Max(PivotsIn(h, kind, i))
OlderIn(h, kind, i) == PivotsIn(h, kind, i) \ {NewestIn(h, kind, i)}

SwingAt(h, kind, p) ==
    [kind |-> kind, pivot |-> p, price |-> Extreme(h[p + 1], kind), confirmed |-> p + Radius,
     available |-> h[p + Radius + 1].available]

SwingsIn(h) == UNION {{SwingAt(h, kind, p) : p \in PivotsIn(h, kind, Len(h) - 1)} : kind \in Kinds}

\* The swings that candle i confirms.
ConfirmedAt(h, i) ==
    {SwingAt(h, kind, i - Radius) : kind \in {k \in Kinds : i - Radius \in PivotsIn(h, k, i)}}

NewestPrice(h, kind, i) == Extreme(h[NewestIn(h, kind, i) + 1], kind)
OlderPrice(h, kind, i) == Extreme(h[Max(OlderIn(h, kind, i)) + 1], kind)

\* Two pivots of each kind are there.
ReadyIn(h, i) == \A kind \in Kinds : PivotsIn(h, kind, i) # {} /\ OlderIn(h, kind, i) # {}

TrendIn(h, i) ==
    IF ~ReadyIn(h, i) THEN "ranging"
    ELSE IF \A kind \in Kinds : NewestPrice(h, kind, i) > OlderPrice(h, kind, i) THEN "bullish"
    ELSE IF \A kind \in Kinds : NewestPrice(h, kind, i) < OlderPrice(h, kind, i) THEN "bearish"
    ELSE "ranging"

CrossesIn(h, kind, p, i) ==
    /\ ~Beyond(kind, h[i].close, Extreme(h[p + 1], kind))
    /\ Beyond(kind, h[i + 1].close, Extreme(h[p + 1], kind))

CrossedBy(h, kind, p, i) == \E k \in p + Radius + 1 .. i : CrossesIn(h, kind, p, k)

\* The level of a kind after candle i.
LevelIn(h, kind, i) ==
    [swing |-> SwingAt(h, kind, NewestIn(h, kind, i)),
     consumed |-> CrossedBy(h, kind, NewestIn(h, kind, i), i)]

WithPivots(h, i) == {kind \in Kinds : PivotsIn(h, kind, i) # {}}

\* The levels that candle i breaks, and the event it publishes of each.
BrokenIn(h, i) ==
    {kind \in WithPivots(h, i - 1) :
        /\ TrendIn(h, i - 1) # "ranging"
        /\ ~CrossedBy(h, kind, NewestIn(h, kind, i - 1), i - 1)
        /\ CrossesIn(h, kind, NewestIn(h, kind, i - 1), i)}

EventIn(h, kind, i) ==
    [index |-> i,
     kind |-> IF Toward(kind) = TrendIn(h, i - 1) THEN "BOS" ELSE "CHoCH",
     direction |-> Toward(kind), level |-> SwingAt(h, kind, NewestIn(h, kind, i - 1)),
     before |-> TrendIn(h, i - 1), previousClose |-> h[i].close, close |-> h[i + 1].close]

-----------------------------------------------------------------------------
(* The invariant.                                                          *)

Bars == [i \in 1 .. Len(frames) |-> frames[i].candle]
Pairs == [i \in 1 .. Len(frames) |->
            [candle |-> frames[i].candle, displacement |-> frames[i].displacement]]

\* The newest frame is what the analyzers hold of it.
LinkInv ==
    /\ IsSeq(frames) /\ HistoryOK(Bars)
    /\ Now >= 0 =>
         /\ At(Now).swings = snapshot.swings /\ At(Now).events = snapshot.events
         /\ At(Now).updates = updates /\ At(Now).sweeps = sweeps
         /\ At(Now).displacement = displacement /\ At(Now).gap = gap
         /\ At(Now).blocks = blocks /\ At(Now).range = range /\ At(Now).ote = ote
         /\ At(Now).shift = shift /\ At(Now).violations = violations
         /\ At(Now).mitigations = mitigations

\* The newest swings of a kind are those of its newest two pivots.
RecentOK(r, h, kind) ==
    LET i == Len(h) - 1
    IN  /\ r = <<>> <=> PivotsIn(h, kind, i) = {}
        /\ PivotsIn(h, kind, i) # {} =>
             /\ IsSeq(r) /\ Len(r) = (IF OlderIn(h, kind, i) = {} THEN 1 ELSE 2)
             /\ r[Len(r)] = SwingAt(h, kind, NewestIn(h, kind, i))
             /\ OlderIn(h, kind, i) # {} => r[1] = SwingAt(h, kind, Max(OlderIn(h, kind, i)))

\* Swings, trend and levels are those of the history.
StructureInv ==
    /\ IsTail(window, Bars, FractalLength)
    /\ previousClose = IF Now < 0 THEN 0 ELSE Bar(Now).close
    /\ snapshot.index = Now
    /\ snapshot.available = IF Now < 0 THEN 0 ELSE Bar(Now).available
    /\ snapshot.ready <=> ReadyIn(Bars, Now)
    /\ snapshot.trend = TrendIn(Bars, Now)
    /\ \A kind \in Kinds : RecentOK(recent[kind], Bars, kind)
    /\ levels = {LevelIn(Bars, kind, Now) : kind \in WithPivots(Bars, Now)}
    /\ \A i \in Indices : At(i).swings = ConfirmedAt(Bars, i)
    /\ Now >= 0 =>
         snapshot.events = {EventIn(Bars, kind, Now) : kind \in BrokenIn(Bars, Now)}

Swing == [kind : Kinds, pivot : Nat, price : Nat, confirmed : Nat, available : Nat]

\* A pool is a chronological list of swings of W in one band.
PoolOK(p, W) ==
    /\ p \in [anchor : W, members : Seq(W), available : Nat]
    /\ p.members # <<>> /\ p.members[1] = p.anchor
    /\ p.available = p.members[Len(p.members)].available
    /\ \A i \in 1 .. Len(p.members) :
          /\ p.members[i].kind = p.anchor.kind /\ InBand(p, p.members[i].price)
          /\ p.members[i].available <= p.available
    /\ \A i, j \in 1 .. Len(p.members) : i < j => p.members[i].pivot < p.members[j].pivot

\* No candle has breached the band since the anchor.
IntactIn(p, h) == \A i \in p.anchor.pivot .. Len(h) - 1 : ~Breached(p, h[i + 1])

\* p is the only pool of P that holds s.
Holds(p, P, s) == s \in Members(p) /\ \A q \in P : s \in Members(q) => q = p

\* Every swing of W is in one pool, which lives or has ended.
PoolsOK(ps, ended, W, h) ==
    /\ \A p \in ps \cup ended : PoolOK(p, W)
    /\ \A p \in ps : IntactIn(p, h)
    /\ \A p \in ended : ~IntactIn(p, h)
    /\ \A s \in W : \E p \in ps \cup ended : Holds(p, ps \cup ended, s)
    /\ IsFiniteSet(ps)

\* The newest candle is the first that breaches the pool of u, and decides how it ends.
EndsIn(u, h) ==
    LET n == Len(h)
    IN  /\ n >= 2 /\ u = Retirement(u.pool, h[n - 1], h[n]) /\ Breached(u.pool, h[n])
        /\ \A i \in u.pool.anchor.pivot .. n - 2 : ~Breached(u.pool, h[i + 1])

Ended == UNION {{u.pool : u \in Terminal(i)} : i \in Indices}

PoolsInv ==
    /\ PoolsOK(pools, Ended, SwingsIn(Bars), Bars)
    /\ \A u \in updates :
          \/ u.pool \in pools /\ u = [pool |-> u.pool, status |-> "active", reason |-> "none"]
          \/ EndsIn(u, Bars)
    /\ sweeps = {[pool |-> u.pool, index |-> Now, available |-> Bar(Now).available] :
                    u \in {v \in updates : v.status = "swept"}}
    /\ IsFiniteSet(updates)

\* What the frame of candle i says of its displacement.
DisplacementOK(d, i, c) ==
    /\ d.index = i /\ d.direction = Direction(c) /\ d.available = c.available
    /\ d.event \in BOOLEAN /\ (d.event => Direction(c) # "none")

\* Sweeps of one earlier candle, which were known when candle i opened.
PrecedingOK(S, i) ==
    /\ \A s \in S : i - s.index \in 1 .. SweepLookback /\ s.available <= i
    /\ \A s, t \in S : s.index = t.index

\* The gap that the window ends with.
GapIn(w, c) ==
    IF QualifiedGap(w)
    THEN {[index |-> c.index, middle |-> w[2].displacement,
           direction |-> GapDirection(w[1].candle, w[3].candle),
           lower |-> GapLower(w[1].candle, w[3].candle),
           upper |-> GapUpper(w[1].candle, w[3].candle), available |-> c.available]}
    ELSE {}

\* The reference range, the sweeps kept and the gap window.
DisplacementInv ==
    /\ IsTail(observations, Bars, AtrPeriod + 1) /\ atr = AtrTotal(observations)
    /\ \A s \in sweepCache : s.index \in Nat /\ s.index <= Now
    /\ IsTail(gapWindow, Pairs, 3)
    /\ \A i \in Indices : DisplacementOK(At(i).displacement, i, Bar(i))
    /\ Now >= 0 => /\ PrecedingOK(displacement.preceding, Now)
                   /\ displacement.event => Now > AtrPeriod
                   /\ gap = GapIn(gapWindow, Bar(Now))

\* A published block.
BlockOK(b, h) ==
    /\ b.direction \in {"bullish", "bearish"}
    /\ b.lower \in Nat /\ b.upper \in Nat /\ b.lower < b.upper
    /\ b.index \in 0 .. Len(h) - 1 /\ b.available = h[b.index + 1].available
    /\ b.displaced = IF config.requireFvg THEN b.index - 1 ELSE b.index
    /\ b.candidate \in Nat /\ b.candidate \in b.displaced - MaxLookback .. b.displaced - 1
    /\ h[b.candidate + 1].available <= b.displaced

\* The candles looked back at, the block that waits for its gap, and those published.
BlocksInv ==
    /\ config \in Configurations
    /\ IsTail(history, Bars, MaxLookback)
    /\ pending # {} <=> Now >= 0 /\ config.requireFvg /\ Makes(Now)
    /\ \A p \in pending :
          /\ p.displaced = displacement /\ HistoryAccepted(p.past, Now)
          /\ Selected(p.past, displacement) = Bar(Source(Now))
    /\ \A p, q \in pending : p = q
    /\ \A b, d \in blocks : b = d
    /\ BlocksAreLastOpposing
    /\ \A i \in Indices : \A b \in At(i).blocks : BlockOK(b, Bars) /\ b.index = i

EndpointIn(h, kind) == SwingAt(h, kind, NewestIn(h, kind, Len(h) - 1))

EndpointsIn(h) == {EndpointIn(h, kind) : kind \in WithPivots(h, Len(h) - 1)}

\* The newest low and high span a range.
SpanIn(h) ==
    /\ WithPivots(h, Len(h) - 1) = Kinds
    /\ EndpointIn(h, "low").pivot # EndpointIn(h, "high").pivot
    /\ EndpointIn(h, "high").price > EndpointIn(h, "low").price

\* The range between them, of the time when the later one was confirmed.
RangeIn(h) ==
    LET low == EndpointIn(h, "low")
        high == EndpointIn(h, "high")
        since == Max({low.confirmed, high.confirmed})
    IN  [low |-> low, high |-> high,
         direction |-> IF low.pivot < high.pivot THEN "bullish" ELSE "bearish",
         index |-> since, available |-> h[since + 1].available]

RangeInv ==
    /\ endpoints = EndpointsIn(Bars)
    /\ range = IF SpanIn(Bars) THEN {RangeIn(Bars)} ELSE {}
    /\ Now >= 0 =>
         /\ premium.class = Classified(Position(Bar(Now).close), range)
         /\ ote.zone = {ZoneOf(r) : r \in range}
         /\ ote.usable = {z \in ote.zone : KnownWhenOpened(z.range, Bar(Now))}
         /\ ote.class = OTEClass(Bar(Now).close, ote.usable)

\* A shift rests on a displacement, and on what was known when its candle opened.
ShiftOK(m) ==
    /\ m.index = Now /\ displacement.event /\ m.direction = displacement.direction
    /\ m.level.confirmed < Now /\ m.level.available <= Now /\ Bar(Now - 1).available <= Now

\* What is left of the published blocks, and what was made of them.
ZoneInv ==
    /\ seen = Published /\ IsFiniteSet(seen)
    /\ candidates = {b \in Published : Beyonds(b) = {}}
    /\ broken = UNION {Converted(i) : i \in Indices}
    /\ unmitigated = {b \in Published : b \notin broken /\ Returns(b) = {}}
    /\ \A m \in shift : ShiftOK(m)
    /\ \A m, e \in shift : m = e
    /\ BlocksBreakOnce /\ MitigatedOnFirstReturn
    /\ IsFiniteSet(violations) /\ \A v, w \in violations : v.block = w.block => v = w
    /\ IsFiniteSet(mitigations) /\ \A m, e \in mitigations : m.block = e.block => m = e

\* The arrays that a frame annotates are those of its own candle.
SidecarInv ==
    \A a \in premium.arrays :
        /\ a.facts.index = Now /\ a.facts.available = Bar(Now).available
        /\ a.facts.lower <= a.facts.position /\ a.facts.position <= a.facts.upper

IInv ==
    /\ LinkInv /\ StructureInv /\ PoolsInv /\ DisplacementInv /\ BlocksInv /\ RangeInv
    /\ SidecarInv /\ ZoneInv

-----------------------------------------------------------------------------
(* What one candle more does to the history.                               *)

\* The fractal is symmetric around its pivot.
LEMMA RadiusIs == Radius \in Nat \ {0} /\ FractalLength = 2 * Radius + 1
BY FractalAssumption DEF Radius

\* A candle is one of the history.
LEMMA CandlesAre ==
    ASSUME NEW h, HistoryOK(h), NEW i \in 0 .. Len(h) - 1
    PROVE  /\ h[i + 1] \in Candle /\ CandleOK(h[i + 1], i) /\ i + 1 \in 1 .. Len(h)
           /\ Len(h) \in Nat
<1>1. h \in Seq(Candle) /\ i + 1 \in 1 .. Len(h) /\ Len(h) \in Nat
  BY DEF HistoryOK
<1>2. CandleOK(h[i + 1], (i + 1) - 1)
  BY <1>1 DEF HistoryOK
<1> QED BY <1>1, <1>2

\* Prices and times of a candle are natural numbers.
LEMMA CandleTypes ==
    ASSUME NEW c \in Candle
    PROVE  /\ c.index \in Nat /\ c.open \in Nat /\ c.high \in Nat /\ c.low \in Nat
           /\ c.close \in Nat /\ c.available \in Nat
           /\ \A kind \in Kinds : Extreme(c, kind) \in Nat
BY DEF Candle, Extreme

\* A longer history holds the same candles, and one more.
LEMMA Longer ==
    ASSUME NEW h, HistoryOK(h), NEW c, HistoryOK(Append(h, c))
    PROVE  /\ IsSeq(h) /\ Len(h) \in Nat /\ Len(Append(h, c)) = Len(h) + 1
           /\ \A i \in 1 .. Len(h) : Append(h, c)[i] = h[i]
           /\ Append(h, c)[Len(h) + 1] = c /\ c \in Candle /\ CandleOK(c, Len(h))
<1>1. IsSeq(h)
  BY SeqIs DEF HistoryOK
<1>2. /\ Len(h) \in Nat /\ Len(Append(h, c)) = Len(h) + 1
      /\ \A i \in 1 .. Len(h) : Append(h, c)[i] = h[i]
      /\ Append(h, c)[Len(h) + 1] = c
  BY <1>1, AppendIs
<1>3. CandleOK(Append(h, c)[Len(h) + 1], Len(h))
  <2>1. Len(h) \in 0 .. Len(Append(h, c)) - 1
    BY <1>2
  <2> QED BY <2>1, CandlesAre
<1> QED BY <1>1, <1>2, <1>3 DEF CandleOK

\* A pivot has its flanks in the history.
LEMMA PivotsAre ==
    ASSUME NEW h, HistoryOK(h), NEW kind \in Kinds, NEW i \in Int, NEW p \in PivotsIn(h, kind, i)
    PROVE  /\ p \in Nat /\ p - Radius >= 0 /\ p + Radius <= i /\ p + Radius <= Len(h) - 1
           /\ p \in 0 .. Len(h) - 1 /\ p + Radius \in 0 .. Len(h) - 1
           /\ p + 1 \in 1 .. Len(h) /\ p + Radius + 1 \in 1 .. Len(h)
BY SMTT(30), RadiusIs DEF PivotsIn, FractalIn, HistoryOK

\* The pivots there are have a newest one.
LEMMA NewestIs ==
    ASSUME NEW h, HistoryOK(h), NEW kind \in Kinds, NEW i \in Int, PivotsIn(h, kind, i) # {}
    PROVE  /\ NewestIn(h, kind, i) \in PivotsIn(h, kind, i)
           /\ \A p \in PivotsIn(h, kind, i) : p <= NewestIn(h, kind, i)
<1>1. PivotsIn(h, kind, i) \subseteq Nat /\ Len(h) - 1 \in Int
      /\ \A p \in PivotsIn(h, kind, i) : p <= Len(h) - 1
  BY DEF PivotsIn, HistoryOK
<1> QED BY <1>1, MaxOf DEF NewestIn

\* So have the older ones.
LEMMA OlderIs ==
    ASSUME NEW h, HistoryOK(h), NEW kind \in Kinds, NEW i \in Int, OlderIn(h, kind, i) # {}
    PROVE  /\ Max(OlderIn(h, kind, i)) \in OlderIn(h, kind, i)
           /\ Max(OlderIn(h, kind, i)) \in PivotsIn(h, kind, i)
<1>1. OlderIn(h, kind, i) \subseteq Nat /\ Len(h) - 1 \in Int
      /\ \A p \in OlderIn(h, kind, i) : p <= Len(h) - 1
  BY DEF OlderIn, PivotsIn, HistoryOK
<1>2. Max(OlderIn(h, kind, i)) \in OlderIn(h, kind, i)
  BY <1>1, MaxOf
<1> QED BY <1>2 DEF OlderIn

\* Whether a candle is a fractal does not change once its flank has closed.
LEMMA FractalStays ==
    ASSUME NEW h, HistoryOK(h), NEW c, HistoryOK(Append(h, c)), NEW kind \in Kinds,
           NEW p \in Nat, p + Radius <= Len(h) - 1
    PROVE  FractalIn(Append(h, c), kind, p) <=> FractalIn(h, kind, p)
<1> DEFINE g == Append(h, c)
<1>1. /\ Len(h) \in Nat /\ Len(g) = Len(h) + 1 /\ \A i \in 1 .. Len(h) : g[i] = h[i]
  BY Longer
<1> HIDE DEF g
<1>2. Radius \in Nat
  BY RadiusIs
<1>3. g[p + 1] = h[p + 1]
  BY <1>1, <1>2
<1>4. \A i \in p - Radius .. p + Radius : p - Radius >= 0 => g[i + 1] = h[i + 1]
  BY <1>1, <1>2
<1>5. p + Radius <= Len(g) - 1
  BY <1>1, <1>2
<1>6. FractalIn(g, kind, p) <=> FractalIn(h, kind, p)
  <2>1. CASE ~(p - Radius >= 0)
    BY <2>1 DEF FractalIn
  <2>2. CASE p - Radius >= 0
    <3>1. \A i \in (p - Radius .. p + Radius) \ {p} : g[i + 1] = h[i + 1]
      BY <1>4, <2>2
    <3> QED BY <1>3, <1>5, <2>2, <3>1 DEF FractalIn
  <2> QED BY <2>1, <2>2
<1> QED BY <1>6 DEF g

\* The pivots of an earlier candle stay.
LEMMA PivotsStay ==
    ASSUME NEW h, HistoryOK(h), NEW c, HistoryOK(Append(h, c)), NEW kind \in Kinds,
           NEW i \in Int, i <= Len(h) - 1
    PROVE  PivotsIn(Append(h, c), kind, i) = PivotsIn(h, kind, i)
<1>1. Len(h) \in Nat /\ Len(Append(h, c)) = Len(h) + 1 /\ Radius \in Nat
  BY Longer, RadiusIs
<1>2. ASSUME NEW p \in Nat, p + Radius <= i
      PROVE  FractalIn(Append(h, c), kind, p) <=> FractalIn(h, kind, p)
  BY <1>1, <1>2, FractalStays
<1> QED BY <1>1, <1>2 DEF PivotsIn

\* A candle may confirm the one Radius candles back.
LEMMA PivotsGrow ==
    ASSUME NEW h, HistoryOK(h), NEW c, HistoryOK(Append(h, c)), NEW kind \in Kinds
    PROVE  PivotsIn(Append(h, c), kind, Len(h)) =
             PivotsIn(h, kind, Len(h) - 1) \cup
               {p \in {Len(h) - Radius} : FractalIn(Append(h, c), kind, p)}
<1> DEFINE g == Append(h, c)
<1>1. Len(h) \in Nat /\ Len(g) = Len(h) + 1 /\ Radius \in Nat \ {0}
  BY Longer, RadiusIs
<1>2. \A p \in Nat : p + Radius <= Len(h) - 1 => (FractalIn(g, kind, p) <=> FractalIn(h, kind, p))
  BY FractalStays
<1> HIDE DEF g
<1>3. ASSUME NEW p, FractalIn(g, kind, p), p = Len(h) - Radius
      PROVE  p \in 0 .. Len(g) - 1 /\ p + Radius <= Len(h)
  BY <1>1, <1>3 DEF FractalIn
<1>4. PivotsIn(g, kind, Len(h)) =
        PivotsIn(h, kind, Len(h) - 1) \cup {p \in {Len(h) - Radius} : FractalIn(g, kind, p)}
  <2>1. ASSUME NEW p \in PivotsIn(g, kind, Len(h))
        PROVE  p \in PivotsIn(h, kind, Len(h) - 1) \/ (p = Len(h) - Radius /\ FractalIn(g, kind, p))
    <3>1. p \in Nat /\ p + Radius <= Len(h) /\ FractalIn(g, kind, p)
      BY <1>1, <2>1 DEF PivotsIn
    <3>2. CASE p + Radius <= Len(h) - 1
      <4>1. FractalIn(h, kind, p)
        BY <3>1, <3>2, <1>2
      <4> QED BY <4>1, <3>1, <3>2, <1>1 DEF PivotsIn
    <3>3. CASE ~(p + Radius <= Len(h) - 1)
      BY <3>1, <3>3, <1>1
    <3> QED BY <3>2, <3>3
  <2>2. ASSUME NEW p \in PivotsIn(h, kind, Len(h) - 1)
        PROVE  p \in PivotsIn(g, kind, Len(h))
    <3>1. p \in Nat /\ p <= Len(h) - 1 /\ p + Radius <= Len(h) - 1 /\ FractalIn(h, kind, p)
      BY <1>1, <2>2 DEF PivotsIn
    <3>2. FractalIn(g, kind, p)
      BY <3>1, <1>2
    <3> QED BY <3>1, <3>2, <1>1 DEF PivotsIn
  <2>3. ASSUME NEW p, p = Len(h) - Radius, FractalIn(g, kind, p)
        PROVE  p \in PivotsIn(g, kind, Len(h))
    BY <2>3, <1>3 DEF PivotsIn
  <2> QED BY <2>1, <2>2, <2>3
<1> QED BY <1>4 DEF g

\* A swing that is confirmed keeps its facts.
LEMMA SwingStays ==
    ASSUME NEW h, HistoryOK(h), NEW c, HistoryOK(Append(h, c)), NEW kind \in Kinds,
           NEW i \in Int, NEW p \in PivotsIn(h, kind, i)
    PROVE  SwingAt(Append(h, c), kind, p) = SwingAt(h, kind, p)
<1>1. p + 1 \in 1 .. Len(h) /\ p + Radius + 1 \in 1 .. Len(h)
  BY PivotsAre
<1>2. Append(h, c)[p + 1] = h[p + 1] /\ Append(h, c)[p + Radius + 1] = h[p + Radius + 1]
  BY <1>1, Longer
<1> QED BY <1>2 DEF SwingAt

\* Radius candles after its pivot a full window shows a fractal.
LEMMA FractalInWindow ==
    ASSUME NEW g, HistoryOK(g), NEW w, IsTail(w, g, FractalLength), NEW kind \in Kinds,
           Len(g) > 0
    PROVE  LET p == Len(g) - 1 - Radius
           IN  /\ (Len(w) = FractalLength /\ IsPivot(w, kind)) <=> p \in PivotsIn(g, kind, Len(g) - 1)
               /\ p \in PivotsIn(g, kind, Len(g) - 1) =>
                    [kind |-> kind, pivot |-> w[Radius + 1].index,
                     price |-> Extreme(w[Radius + 1], kind), confirmed |-> w[Len(w)].index,
                     available |-> w[Len(w)].available] = SwingAt(g, kind, p)
<1> DEFINE R == Radius
           p == Len(g) - 1 - R
<1>1. R \in Nat \ {0} /\ FractalLength = 2 * R + 1 /\ Len(g) \in Nat \ {0}
  BY RadiusIs DEF HistoryOK
<1>2. /\ Len(w) = (IF Len(g) <= 2 * R + 1 THEN Len(g) ELSE 2 * R + 1)
      /\ \A i \in 1 .. Len(w) : w[i] = g[Len(g) - Len(w) + i]
  BY <1>1 DEF IsTail
<1>3. CASE Len(w) # 2 * R + 1
  <2>1. ~(p - R >= 0)
    BY <1>1, <1>2, <1>3
  <2>2. p \notin PivotsIn(g, kind, Len(g) - 1)
    BY <2>1 DEF PivotsIn, FractalIn
  <2> QED BY <1>1, <1>3, <2>2
<1>4. CASE Len(w) = 2 * R + 1
  <2>1. p - R >= 0 /\ p \in 0 .. Len(g) - 1 /\ p + R = Len(g) - 1
    BY <1>1, <1>2, <1>4
  <2>2. \A i \in 1 .. 2 * R + 1 : w[i] = g[(p + i - 1 - R) + 1]
    <3> SUFFICES ASSUME NEW i \in 1 .. 2 * R + 1 PROVE w[i] = g[(p + i - 1 - R) + 1]
      OBVIOUS
    <3>1. (p + i - 1 - R) + 1 = Len(g) - Len(w) + i
      BY <1>1, <1>4
    <3> QED BY <3>1, <1>2, <1>4
  <2>3. w[R + 1] = g[p + 1] /\ w[Len(w)] = g[p + R + 1]
    <3>1. R + 1 \in 1 .. 2 * R + 1 /\ (p + (R + 1) - 1 - R) + 1 = p + 1
      BY <1>1, <2>1
    <3>2. 2 * R + 1 \in 1 .. 2 * R + 1 /\ (p + (2 * R + 1) - 1 - R) + 1 = p + R + 1
      BY <1>1, <2>1
    <3>3. w[R + 1] = g[p + 1]
      BY <2>2, <3>1
    <3>4. w[2 * R + 1] = g[p + R + 1]
      BY <2>2, <3>2
    <3> QED BY <1>4, <3>3, <3>4
  <2>0. p \in Int /\ R \in Int
    BY <1>1
  <2> DEFINE Inside(x) == Beyond(kind, Extreme(g[p + 1], kind), Extreme(x, kind))
  <2>4. IsPivot(w, kind) <=> \A i \in (1 .. 2 * R + 1) \ {R + 1} : Inside(w[i])
    BY <1>4, <2>3 DEF IsPivot
  <2>5. FractalIn(g, kind, p) <=> \A i \in (p - R .. p + R) \ {p} : Inside(g[i + 1])
    BY <2>1 DEF FractalIn
  <2> HIDE DEF Inside
  <2>6. ASSUME \A i \in (1 .. 2 * R + 1) \ {R + 1} : Inside(w[i]), NEW j \in (p - R .. p + R) \ {p}
        PROVE  Inside(g[j + 1])
    <3>b. j \in p - R .. p + R /\ j # p
      BY <2>6
    <3> HIDE DEF p, R
    <3>0. j \in Int /\ p - R <= j /\ j <= p + R /\ j # p /\ p \in Int /\ R \in Int
      BY <2>0, <3>b
    <3>1. j - p + R + 1 \in (1 .. 2 * R + 1) \ {R + 1}
      BY <3>0
    <3>2. (p + (j - p + R + 1) - 1 - R) + 1 = j + 1
      BY <3>0
    <3>3. Inside(w[j - p + R + 1]) /\ w[j - p + R + 1] = g[(p + (j - p + R + 1) - 1 - R) + 1]
      BY <2>2, <2>6, <3>1
    <3> QED BY <3>2, <3>3
  <2>7. ASSUME \A j \in (p - R .. p + R) \ {p} : Inside(g[j + 1]), NEW i \in (1 .. 2 * R + 1) \ {R + 1}
        PROVE  Inside(w[i])
    <3>0. i \in Int /\ 1 <= i /\ i <= 2 * R + 1 /\ i # R + 1 /\ p \in Int /\ R \in Int
      BY <1>1, <2>1
    <3> HIDE DEF p, R
    <3>1. p + i - 1 - R \in (p - R .. p + R) \ {p}
      BY <3>0
    <3> QED BY <2>2, <2>7, <3>1
  <2>8. IsPivot(w, kind) <=> FractalIn(g, kind, p)
    BY <2>4, <2>5, <2>6, <2>7
  <2>9. IsPivot(w, kind) <=> p \in PivotsIn(g, kind, Len(g) - 1)
    BY <1>1, <2>1, <2>8 DEF PivotsIn
  <2>10. g[p + 1].index = p /\ g[p + R + 1].index = p + R
    <3>1. p \in 0 .. Len(g) - 1 /\ p + R \in 0 .. Len(g) - 1
      BY <1>1, <2>1
    <3> QED BY <3>1, CandlesAre DEF CandleOK
  <2> QED BY <1>1, <1>4, <2>3, <2>9, <2>10 DEF SwingAt
<1> QED BY <1>3, <1>4

\* The swings of a full window are those that its last candle confirms.
LEMMA ConfirmationsAre ==
    ASSUME NEW g, HistoryOK(g), NEW w, IsTail(w, g, FractalLength), Len(g) > 0
    PROVE  Confirmations(w) = ConfirmedAt(g, Len(g) - 1)
<1> DEFINE p == Len(g) - 1 - Radius
           K == {k \in Kinds : Len(w) = FractalLength /\ IsPivot(w, k)}
           Found(kind) == [kind |-> kind, pivot |-> w[Radius + 1].index,
                           price |-> Extreme(w[Radius + 1], kind), confirmed |-> w[Len(w)].index,
                           available |-> w[Len(w)].available]
<1>1. K = {k \in Kinds : p \in PivotsIn(g, k, Len(g) - 1)}
  BY FractalInWindow
<1>2. \A kind \in K : Found(kind) = SwingAt(g, kind, p)
  BY <1>1, FractalInWindow
<1>3. Confirmations(w) = {Found(kind) : kind \in K}
  BY DEF Confirmations
<1>4. ConfirmedAt(g, Len(g) - 1) = {SwingAt(g, kind, p) : kind \in K}
  BY <1>1 DEF ConfirmedAt
<1> HIDE DEF K, Found, p
<1> QED BY <1>2, <1>3, <1>4

\* At most one swing of a kind is confirmed by a candle.
LEMMA ConfirmedOfKind ==
    ASSUME NEW g, NEW i, NEW kind \in Kinds
    PROVE  LET S == ConfirmedAt(g, i)
           IN  /\ (\E s \in S : s.kind = kind) <=> i - Radius \in PivotsIn(g, kind, i)
               /\ \A s \in S : s.kind = kind => s = SwingAt(g, kind, i - Radius)
               /\ i - Radius \in PivotsIn(g, kind, i) =>
                    /\ SwingAt(g, kind, i - Radius) \in S
                    /\ (CHOOSE s \in S : s.kind = kind) = SwingAt(g, kind, i - Radius)
<1> DEFINE S == ConfirmedAt(g, i)
           x == SwingAt(g, kind, i - Radius)
<1>1. \A k : SwingAt(g, k, i - Radius).kind = k
  BY DEF SwingAt
<1>2. \A s \in S : s.kind \in Kinds /\ s = SwingAt(g, s.kind, i - Radius)
                   /\ i - Radius \in PivotsIn(g, s.kind, i)
  BY <1>1 DEF ConfirmedAt
<1>3. i - Radius \in PivotsIn(g, kind, i) => x \in S /\ x.kind = kind
  BY <1>1 DEF ConfirmedAt
<1> HIDE DEF S
<1>4. \A s \in S : s.kind = kind => s = x
  BY <1>2
<1> HIDE DEF x
<1>5. i - Radius \in PivotsIn(g, kind, i) => (CHOOSE s \in S : s.kind = kind) = x
  BY <1>3, <1>4
<1> QED BY <1>2, <1>3, <1>4, <1>5 DEF x, S

\* A candle that confirms nothing leaves the newest pivots.
LEMMA NoNewPivot ==
    ASSUME NEW h, HistoryOK(h), NEW c, HistoryOK(Append(h, c)), NEW kind \in Kinds,
           Len(h) - Radius \notin PivotsIn(Append(h, c), kind, Len(h))
    PROVE  /\ PivotsIn(Append(h, c), kind, Len(h)) = PivotsIn(h, kind, Len(h) - 1)
           /\ NewestIn(Append(h, c), kind, Len(h)) = NewestIn(h, kind, Len(h) - 1)
           /\ OlderIn(Append(h, c), kind, Len(h)) = OlderIn(h, kind, Len(h) - 1)
<1> DEFINE q == Len(h) - Radius
           New == {p \in {q} : FractalIn(Append(h, c), kind, p)}
<1>1. PivotsIn(Append(h, c), kind, Len(h)) = PivotsIn(h, kind, Len(h) - 1) \cup New
  BY PivotsGrow
<1>2. q \notin New
  BY <1>1
<1>3. New = {}
  BY <1>2
<1>4. PivotsIn(Append(h, c), kind, Len(h)) = PivotsIn(h, kind, Len(h) - 1)
  BY <1>1, <1>3
<1> QED BY <1>4 DEF NewestIn, OlderIn

\* One that confirms a pivot makes it the newest, and the newest the older one.
LEMMA NewPivot ==
    ASSUME NEW h, HistoryOK(h), NEW c, HistoryOK(Append(h, c)), NEW kind \in Kinds,
           Len(h) - Radius \in PivotsIn(Append(h, c), kind, Len(h))
    PROVE  /\ NewestIn(Append(h, c), kind, Len(h)) = Len(h) - Radius
           /\ OlderIn(Append(h, c), kind, Len(h)) = PivotsIn(h, kind, Len(h) - 1)
           /\ Max(OlderIn(Append(h, c), kind, Len(h))) = NewestIn(h, kind, Len(h) - 1)
           /\ \A p \in PivotsIn(h, kind, Len(h) - 1) : p < Len(h) - Radius
<1> DEFINE q == Len(h) - Radius
           P == PivotsIn(h, kind, Len(h) - 1)
           Q == PivotsIn(Append(h, c), kind, Len(h))
<1>1. Len(h) \in Nat /\ Radius \in Nat
  BY Longer, RadiusIs
<1>2. \A p \in P : p \in Nat /\ p < q
  <2> SUFFICES ASSUME NEW p \in P PROVE p \in Nat /\ p < q
    OBVIOUS
  <2>1. Len(h) - 1 \in Int
    BY <1>1
  <2>2. p \in Nat /\ p + Radius <= Len(h) - 1
    BY <2>1, PivotsAre
  <2> QED BY <1>1, <2>2
<1>3. Q = P \cup {q}
  <2> DEFINE New == {p \in {q} : FractalIn(Append(h, c), kind, p)}
  <2>1. Q = P \cup New /\ q \in Q
    BY PivotsGrow
  <2>2. q \notin P
    BY <1>1, <1>2
  <2>3. New = {q}
    BY <2>1, <2>2
  <2> QED BY <2>1, <2>3
<1>4. Q \subseteq Int /\ q \in Q /\ \A x \in Q : x <= q
  BY <1>1, <1>2, <1>3
<1> HIDE DEF Q, P
<1>5. Max(Q) = q
  BY <1>4, MaxIs
<1>6. Q \ {q} = P
  BY <1>1, <1>2, <1>3
<1> QED BY <1>2, <1>5, <1>6 DEF NewestIn, OlderIn, P, Q

\* The newest swings follow the pivots.
LEMMA RecentFollows ==
    ASSUME NEW h, HistoryOK(h), NEW c, HistoryOK(Append(h, c)), NEW kind \in Kinds,
           RecentOK(recent[kind], h, kind)
    PROVE  RecentOK(RecentAfter(ConfirmedAt(Append(h, c), Len(h)))[kind], Append(h, c), kind)
<1> DEFINE g == Append(h, c)
           n == Len(h)
           q == n - Radius
           r == recent[kind]
           P == PivotsIn(h, kind, n - 1)
           O == OlderIn(h, kind, n - 1)
           t == RecentAfter(ConfirmedAt(g, n))[kind]
<1>1. n \in Nat /\ Len(g) - 1 = n /\ n - 1 \in Int
  BY Longer
<1>2. /\ r = <<>> <=> P = {}
      /\ P # {} => /\ IsSeq(r) /\ Len(r) = (IF O = {} THEN 1 ELSE 2)
                   /\ r[Len(r)] = SwingAt(h, kind, NewestIn(h, kind, n - 1))
                   /\ O # {} => r[1] = SwingAt(h, kind, Max(O))
  BY DEF RecentOK
<1>3. CASE q \notin PivotsIn(g, kind, n)
  <2>1. t = r
    BY <1>3, ConfirmedOfKind DEF RecentAfter
  <2>2. PivotsIn(g, kind, n) = P /\ NewestIn(g, kind, n) = NewestIn(h, kind, n - 1)
        /\ OlderIn(g, kind, n) = O
    BY <1>3, NoNewPivot
  <2>3. P # {} => SwingAt(g, kind, NewestIn(h, kind, n - 1)) = SwingAt(h, kind, NewestIn(h, kind, n - 1))
    BY <1>1, NewestIs, SwingStays
  <2>4. O # {} => SwingAt(g, kind, Max(O)) = SwingAt(h, kind, Max(O))
    BY <1>1, OlderIs, SwingStays
  <2> HIDE DEF t, r, P, O, g, q
  <2> QED BY <1>1, <1>2, <2>1, <2>2, <2>3, <2>4 DEF RecentOK, t, g
<1>4. CASE q \in PivotsIn(g, kind, n)
  <2> DEFINE x == SwingAt(g, kind, q)
  <2>1. t = Slide(r, x, 2)
    BY <1>4, ConfirmedOfKind DEF RecentAfter
  <2>2. NewestIn(g, kind, n) = q /\ OlderIn(g, kind, n) = P
        /\ Max(P) = NewestIn(h, kind, n - 1)
    BY <1>4, NewPivot
  <2>3. P # {} => SwingAt(g, kind, NewestIn(h, kind, n - 1)) = SwingAt(h, kind, NewestIn(h, kind, n - 1))
    BY <1>1, NewestIs, SwingStays
  <2>4. IsSeq(<<>>)
    <3>1. <<>> \in Seq({})
      OBVIOUS
    <3> QED BY <3>1, SeqIs
  <2>5. IsSeq(r) /\ Len(r) \in Nat /\ Len(r) <= 2 /\ (Len(r) = 0 <=> P = {})
    BY <1>2, <2>4
  <2> HIDE DEF x, P, O, r, g, q, t
  <2>6. IsTail(r, r, 2)
    BY <2>5 DEF IsTail
  <2>7. IsTail(Slide(r, x, 2), Append(r, x), 2)
    BY <2>5, <2>6, SlideIsTail
  <2>8. /\ Len(Append(r, x)) = Len(r) + 1 /\ Append(r, x)[Len(r) + 1] = x
        /\ \A i \in 1 .. Len(r) : Append(r, x)[i] = r[i]
    BY <2>5, AppendIs
  <2>9. IsSeq(t) /\ Len(t) = (IF Len(r) + 1 <= 2 THEN Len(r) + 1 ELSE 2)
        /\ \A i \in 1 .. Len(t) : t[i] = Append(r, x)[Len(r) + 1 - Len(t) + i]
    <3> DEFINE a == Append(r, x)
    <3>1. IsTail(t, a, 2) /\ Len(a) = Len(r) + 1
      BY <2>1, <2>7, <2>8
    <3> HIDE DEF a
    <3>2. IsSeq(t) /\ Len(t) = (IF Len(a) <= 2 THEN Len(a) ELSE 2)
          /\ \A i \in 1 .. Len(t) : t[i] = a[Len(a) - Len(t) + i]
      <4>1. IsTail(t, a, 2)
        BY <3>1
      <4> QED BY <4>1 DEF IsTail
    <3>3. Len(a) = Len(r) + 1
      BY <3>1
    <3>4. ASSUME NEW i \in 1 .. Len(t) PROVE t[i] = a[Len(r) + 1 - Len(t) + i]
      <4>1. t[i] = a[Len(a) - Len(t) + i]
        BY <3>2
      <4> QED BY <3>3, <4>1
    <3> QED BY <3>2, <3>3, <3>4 DEF a
  <2>10. Len(t) = (IF P = {} THEN 1 ELSE 2)
    BY <2>5, <2>9
  <2>11. t[Len(t)] = x
    <3>1. Len(t) \in 1 .. Len(t) /\ Len(r) + 1 - Len(t) + Len(t) = Len(r) + 1
      BY <2>5, <2>10
    <3> QED BY <2>8, <2>9, <3>1
  <2>12. P # {} => t[1] = SwingAt(g, kind, NewestIn(h, kind, n - 1))
    <3> SUFFICES ASSUME P # {} PROVE t[1] = SwingAt(g, kind, NewestIn(h, kind, n - 1))
      OBVIOUS
    <3>0. Len(r) \in Nat /\ Len(r) <= 2 /\ Len(r) # 0 /\ Len(t) = 2
      BY <2>5, <2>10
    <3>1. Len(r) \in 1 .. 2
      BY SMTT(60), <3>0
    <3>2. t[1] = r[Len(r)]
      <4>1. 1 \in 1 .. Len(t) /\ Len(r) + 1 - Len(t) + 1 = Len(r) /\ Len(r) \in 1 .. Len(r)
        BY <3>0
      <4>2. t[1] = Append(r, x)[Len(r) + 1 - Len(t) + 1]
        BY <2>9, <4>1
      <4> QED BY <2>8, <4>1, <4>2
    <3> QED BY <1>2, <2>3, <3>2
  <2>13. t # <<>>
    BY <2>10
  <2>14. RecentOK(t, g, kind)
    <3> HIDE DEF n
    <3>1. PivotsIn(g, kind, n) # {}
      BY <1>4
    <3> QED BY <1>1, <2>2, <2>9, <2>10, <2>11, <2>12, <2>13, <3>1 DEF RecentOK, x
  <2> QED BY <2>14 DEF t, g
<1> QED BY <1>3, <1>4

\* The trend of two swings each is that of the pivots.
LEMMA TrendFollows ==
    ASSUME NEW g, HistoryOK(g), NEW r, \A kind \in Kinds : RecentOK(r[kind], g, kind)
    PROVE  /\ Ready(r["high"], r["low"]) <=> ReadyIn(g, Len(g) - 1)
           /\ Trend(r["high"], r["low"]) = TrendIn(g, Len(g) - 1)
<1> DEFINE i == Len(g) - 1
           Two(kind) == PivotsIn(g, kind, i) # {} /\ OlderIn(g, kind, i) # {}
<1>1. Kinds = {"high", "low"}
  BY DEF Kinds
<1>2. ASSUME NEW kind \in Kinds
      PROVE  /\ Len(r[kind]) = 2 <=> Two(kind)
             /\ Two(kind) => r[kind][2].price = NewestPrice(g, kind, i)
                             /\ r[kind][1].price = OlderPrice(g, kind, i)
  <2>1. CASE PivotsIn(g, kind, i) = {}
    <3>1. r[kind] = <<>>
      BY <2>1 DEF RecentOK
    <3> QED BY <2>1, <3>1
  <2>2. CASE PivotsIn(g, kind, i) # {}
    <3>1. /\ Len(r[kind]) = (IF OlderIn(g, kind, i) = {} THEN 1 ELSE 2)
          /\ r[kind][Len(r[kind])] = SwingAt(g, kind, NewestIn(g, kind, i))
          /\ OlderIn(g, kind, i) # {} => r[kind][1] = SwingAt(g, kind, Max(OlderIn(g, kind, i)))
      BY <2>2 DEF RecentOK
    <3> QED BY <2>2, <3>1 DEF SwingAt, NewestPrice, OlderPrice
  <2> QED BY <2>1, <2>2
<1>3. ReadyIn(g, i) <=> \A kind \in Kinds : Two(kind)
  BY DEF ReadyIn
<1> HIDE DEF Two, i
<1>4. Ready(r["high"], r["low"]) <=> ReadyIn(g, i)
  BY <1>1, <1>2, <1>3 DEF Ready
<1>5. Trend(r["high"], r["low"]) = TrendIn(g, i)
  <2>1. CASE ~ReadyIn(g, i)
    BY <1>4, <2>1 DEF Trend, TrendIn
  <2>2. CASE ReadyIn(g, i)
    <3>1. \A kind \in Kinds : r[kind][2].price = NewestPrice(g, kind, i)
                             /\ r[kind][1].price = OlderPrice(g, kind, i)
      BY <1>2, <1>3, <2>2
    <3>2. /\ r["high"][2].price = NewestPrice(g, "high", i) /\ r["high"][1].price = OlderPrice(g, "high", i)
          /\ r["low"][2].price = NewestPrice(g, "low", i) /\ r["low"][1].price = OlderPrice(g, "low", i)
      BY <1>1, <3>1
    <3> QED BY <1>1, <1>4, <2>2, <3>2 DEF Trend, TrendIn
  <2> QED BY <2>1, <2>2
<1> QED BY <1>4, <1>5 DEF i

\* What the history says of an earlier candle stays.
LEMMA TrendStays ==
    ASSUME NEW h, HistoryOK(h), NEW c, HistoryOK(Append(h, c)), NEW i \in Int, i <= Len(h) - 1
    PROVE  /\ \A kind \in Kinds : /\ NewestIn(Append(h, c), kind, i) = NewestIn(h, kind, i)
                                  /\ OlderIn(Append(h, c), kind, i) = OlderIn(h, kind, i)
           /\ WithPivots(Append(h, c), i) = WithPivots(h, i)
           /\ ReadyIn(Append(h, c), i) <=> ReadyIn(h, i)
           /\ TrendIn(Append(h, c), i) = TrendIn(h, i)
<1> DEFINE g == Append(h, c)
<1>1. \A kind \in Kinds : PivotsIn(g, kind, i) = PivotsIn(h, kind, i)
  BY PivotsStay
<1>2. \A kind \in Kinds : NewestIn(g, kind, i) = NewestIn(h, kind, i)
                         /\ OlderIn(g, kind, i) = OlderIn(h, kind, i)
  BY <1>1 DEF NewestIn, OlderIn
<1>3. ReadyIn(g, i) <=> ReadyIn(h, i)
  BY <1>1, <1>2 DEF ReadyIn
<1>4. ASSUME ReadyIn(h, i), NEW kind \in Kinds
      PROVE  NewestPrice(g, kind, i) = NewestPrice(h, kind, i)
             /\ OlderPrice(g, kind, i) = OlderPrice(h, kind, i)
  <2>1. NewestIn(h, kind, i) \in PivotsIn(h, kind, i) /\ Max(OlderIn(h, kind, i)) \in PivotsIn(h, kind, i)
    BY <1>4, NewestIs, OlderIs DEF ReadyIn
  <2>2. NewestIn(h, kind, i) + 1 \in 1 .. Len(h) /\ Max(OlderIn(h, kind, i)) + 1 \in 1 .. Len(h)
    BY <2>1, PivotsAre
  <2>3. g[NewestIn(h, kind, i) + 1] = h[NewestIn(h, kind, i) + 1]
        /\ g[Max(OlderIn(h, kind, i)) + 1] = h[Max(OlderIn(h, kind, i)) + 1]
    BY <2>2, Longer
  <2> QED BY <1>2, <2>3 DEF NewestPrice, OlderPrice
<1>5. TrendIn(g, i) = TrendIn(h, i)
  BY <1>3, <1>4 DEF TrendIn
<1>6. WithPivots(g, i) = WithPivots(h, i)
  BY <1>1 DEF WithPivots
<1> QED BY <1>2, <1>3, <1>5, <1>6

\* A crossing that has happened stays, and the newest candle may be one.
LEMMA CrossedGrows ==
    ASSUME NEW h, HistoryOK(h), NEW c, HistoryOK(Append(h, c)), NEW kind \in Kinds,
           NEW p \in PivotsIn(h, kind, Len(h) - 1)
    PROVE  /\ CrossedBy(Append(h, c), kind, p, Len(h)) <=>
                CrossedBy(h, kind, p, Len(h) - 1) \/ CrossesIn(Append(h, c), kind, p, Len(h))
           /\ CrossedBy(Append(h, c), kind, p, Len(h) - 1) <=> CrossedBy(h, kind, p, Len(h) - 1)
<1> DEFINE g == Append(h, c)
           n == Len(h)
<1>1. n \in Nat /\ Radius \in Nat /\ n - 1 \in Int /\ \A i \in 1 .. n : g[i] = h[i]
  BY Longer, RadiusIs
<1>2. p \in Nat /\ p + 1 \in 1 .. n /\ p + Radius <= n - 1
  BY <1>1, PivotsAre
<1> HIDE DEF g
<1>3. ASSUME NEW k \in p + Radius + 1 .. n - 1
      PROVE  CrossesIn(g, kind, p, k) <=> CrossesIn(h, kind, p, k)
  <2>1. k \in 1 .. n /\ k + 1 \in 1 .. n
    BY <1>1, <1>2
  <2> QED BY <1>1, <1>2, <2>1 DEF CrossesIn
<1>4. CrossedBy(g, kind, p, n - 1) <=> CrossedBy(h, kind, p, n - 1)
  BY <1>3 DEF CrossedBy
<1>5. CrossedBy(g, kind, p, n) <=> CrossedBy(g, kind, p, n - 1) \/ CrossesIn(g, kind, p, n)
  <2>1. p + Radius + 1 .. n = (p + Radius + 1 .. n - 1) \cup {n}
    BY <1>1, <1>2
  <2> QED BY <2>1 DEF CrossedBy
<1> QED BY <1>4, <1>5 DEF g

\* A level is crossed when no earlier candle crossed it and this one does.
LEMMA CrossedIs ==
    ASSUME NEW h, HistoryOK(h), NEW c, HistoryOK(Append(h, c)),
           NEW kind \in WithPivots(h, Len(h) - 1), previousClose = h[Len(h)].close
    PROVE  LET p == NewestIn(h, kind, Len(h) - 1)
           IN  Crossed(LevelIn(h, kind, Len(h) - 1), c.close) <=>
                 /\ ~CrossedBy(h, kind, p, Len(h) - 1)
                 /\ CrossesIn(Append(h, c), kind, p, Len(h))
<1> DEFINE g == Append(h, c)
           n == Len(h)
           p == NewestIn(h, kind, n - 1)
<1>1. /\ n \in Nat /\ n - 1 \in Int /\ (\A i \in 1 .. n : g[i] = h[i]) /\ g[n + 1] = c
      /\ kind \in Kinds
  BY Longer DEF WithPivots
<1>2. p \in PivotsIn(h, kind, n - 1)
  BY <1>1, NewestIs DEF WithPivots
<1>3. p + 1 \in 1 .. n /\ n \in 1 .. n
  BY <1>1, <1>2, PivotsAre
<1>4. previousClose # 0
  <2>1. n - 1 \in 0 .. Len(h) - 1
    BY <1>3
  <2>2. CandleOK(h[(n - 1) + 1], n - 1)
    BY <2>1, CandlesAre
  <2>3. CandleOK(h[n], n - 1)
    BY <1>1, <2>2
  <2> QED BY <2>3 DEF CandleOK, Candle
<1>5. /\ LevelIn(h, kind, n - 1).swing.kind = kind
      /\ LevelIn(h, kind, n - 1).swing.price = Extreme(h[p + 1], kind)
      /\ LevelIn(h, kind, n - 1).consumed = CrossedBy(h, kind, p, n - 1)
  BY DEF LevelIn, SwingAt
<1>6. g[p + 1] = h[p + 1] /\ g[n] = h[n]
  BY <1>1, <1>3
<1> HIDE DEF p, g
<1>7. CrossesIn(g, kind, p, n) <=>
        /\ ~Beyond(kind, previousClose, Extreme(h[p + 1], kind))
        /\ Beyond(kind, c.close, Extreme(h[p + 1], kind))
  BY <1>1, <1>6 DEF CrossesIn
<1>8. Crossed(LevelIn(h, kind, n - 1), c.close) <=>
        /\ ~CrossedBy(h, kind, p, n - 1)
        /\ ~Beyond(kind, previousClose, Extreme(h[p + 1], kind))
        /\ Beyond(kind, c.close, Extreme(h[p + 1], kind))
  BY <1>4, <1>5 DEF Crossed
<1> QED BY <1>7, <1>8 DEF p, g

\* The levels follow the pivots and the closes.
LEMMA LevelsFollow ==
    ASSUME NEW h, HistoryOK(h), NEW c, HistoryOK(Append(h, c)),
           Len(h) > 0 => previousClose = h[Len(h)].close,
           levels = {LevelIn(h, kind, Len(h) - 1) : kind \in WithPivots(h, Len(h) - 1)}
    PROVE  LevelsAfter(c, ConfirmedAt(Append(h, c), Len(h))) =
             {LevelIn(Append(h, c), kind, Len(h)) : kind \in WithPivots(Append(h, c), Len(h))}
<1> DEFINE g == Append(h, c)
           n == Len(h)
           S == ConfirmedAt(g, n)
           Fresh == {kind \in Kinds : n - Radius \in PivotsIn(g, kind, n)}
           Old == WithPivots(h, n - 1) \ Fresh
           L(kind) == LevelIn(h, kind, n - 1)
           M(l) == [l EXCEPT !.consumed = @ \/ Crossed(l, c.close)]
<1>1. n \in Nat /\ n - 1 \in Int
  BY Longer
<1>2. \A kind \in WithPivots(h, n - 1) : previousClose = h[n].close
  BY <1>1, PivotsAre DEF WithPivots
<1>3. ASSUME NEW kind \in Old PROVE M(L(kind)) = LevelIn(g, kind, n)
  <2>1. kind \in Kinds /\ kind \in WithPivots(h, n - 1) /\ n - Radius \notin PivotsIn(g, kind, n)
    BY <1>3 DEF WithPivots
  <2> DEFINE p == NewestIn(h, kind, n - 1)
  <2>2. p \in PivotsIn(h, kind, n - 1)
    BY <1>1, <2>1, NewestIs DEF WithPivots
  <2>3. NewestIn(g, kind, n) = p
    BY <2>1, NoNewPivot
  <2>4. SwingAt(g, kind, p) = SwingAt(h, kind, p)
    BY <1>1, <2>1, <2>2, SwingStays
  <2>5. CrossedBy(g, kind, p, n) <=> CrossedBy(h, kind, p, n - 1) \/ CrossesIn(g, kind, p, n)
    BY <2>1, <2>2, CrossedGrows
  <2>6. Crossed(L(kind), c.close) <=> ~CrossedBy(h, kind, p, n - 1) /\ CrossesIn(g, kind, p, n)
    BY <1>2, <2>1, CrossedIs
  <2>7. CrossedBy(g, kind, p, n) = (CrossedBy(h, kind, p, n - 1) \/ Crossed(L(kind), c.close))
    <3>1. CrossedBy(g, kind, p, n) \in BOOLEAN
      BY DEF CrossedBy
    <3> HIDE DEF p, g, L
    <3> QED BY <2>5, <2>6, <3>1
  <2> HIDE DEF p, g, n
  <2>8. L(kind) = [swing |-> SwingAt(h, kind, p), consumed |-> CrossedBy(h, kind, p, n - 1)]
    BY DEF LevelIn, p
  <2>9. LevelIn(g, kind, n) = [swing |-> SwingAt(h, kind, p), consumed |-> CrossedBy(g, kind, p, n)]
    BY <2>3, <2>4 DEF LevelIn
  <2> HIDE DEF L
  <2>10. M(L(kind)) = [swing |-> SwingAt(h, kind, p),
                       consumed |-> CrossedBy(h, kind, p, n - 1) \/ Crossed(L(kind), c.close)]
    BY <2>8
  <2> QED BY <2>7, <2>9, <2>10
<1>4. ASSUME NEW kind \in Fresh
      PROVE  [swing |-> SwingAt(g, kind, n - Radius), consumed |-> FALSE] = LevelIn(g, kind, n)
  <2>1. NewestIn(g, kind, n) = n - Radius
    BY <1>4, NewPivot
  <2>2. ~CrossedBy(g, kind, n - Radius, n)
    BY <1>1, RadiusIs DEF CrossedBy
  <2>3. CrossedBy(g, kind, n - Radius, n) = FALSE
    BY <2>2
  <2> QED BY <2>1, <2>3 DEF LevelIn
<1>5. WithPivots(g, n) = Old \cup Fresh
  <2>1. ASSUME NEW kind \in Kinds PROVE kind \in WithPivots(g, n) <=> kind \in Old \cup Fresh
    <3>1. CASE n - Radius \in PivotsIn(g, kind, n)
      BY <3>1 DEF WithPivots
    <3>2. CASE n - Radius \notin PivotsIn(g, kind, n)
      BY <3>2, NoNewPivot DEF WithPivots
    <3> QED BY <3>1, <3>2
  <2> QED BY <2>1 DEF WithPivots
<1>6. {k \in levels : \A s \in S : s.kind # k.swing.kind} = {L(kind) : kind \in Old}
  <2>1. \A kind : L(kind).swing.kind = kind
    BY DEF LevelIn, SwingAt
  <2>2. \A kind \in WithPivots(h, n - 1) : (\A s \in S : s.kind # kind) <=> kind \in Old
    BY ConfirmedOfKind DEF WithPivots
  <2> HIDE DEF L, S, Old
  <2>3. levels = {L(kind) : kind \in WithPivots(h, n - 1)} /\ Old \subseteq WithPivots(h, n - 1)
    BY DEF L, Old
  <2>4. ASSUME NEW k \in levels, \A s \in S : s.kind # k.swing.kind
        PROVE  k \in {L(kind) : kind \in Old}
    <3>1. PICK kind \in WithPivots(h, n - 1) : k = L(kind)
      BY <2>3
    <3>2. \A s \in S : s.kind # kind
      BY <2>1, <2>4, <3>1
    <3> QED BY <2>2, <3>1, <3>2
  <2>5. ASSUME NEW kind \in Old PROVE L(kind) \in levels /\ \A s \in S : s.kind # L(kind).swing.kind
    BY <2>1, <2>2, <2>3
  <2> QED BY <2>4, <2>5
<1>7. {[swing |-> s, consumed |-> FALSE] : s \in S} = {LevelIn(g, kind, n) : kind \in Fresh}
  <2>1. S = {SwingAt(g, kind, n - Radius) : kind \in Fresh}
    BY DEF ConfirmedAt
  <2> HIDE DEF S, Fresh, g, n
  <2> QED BY <1>4, <2>1
<1> HIDE DEF S, Fresh, Old, L, g, n
<1>8. LevelsAfter(c, S) = {M(l) : l \in {L(kind) : kind \in Old}} \cup {LevelIn(g, kind, n) : kind \in Fresh}
  BY <1>6, <1>7 DEF LevelsAfter
<1> HIDE DEF M
<1>9. LevelsAfter(c, S) = {LevelIn(g, kind, n) : kind \in Old} \cup {LevelIn(g, kind, n) : kind \in Fresh}
  BY <1>3, <1>8
<1> QED BY <1>5, <1>9 DEF g, n, S

\* The events of a candle are the levels that it breaks.
LEMMA EventsFollow ==
    ASSUME NEW h, HistoryOK(h), NEW c, HistoryOK(Append(h, c)),
           Len(h) > 0 => previousClose = h[Len(h)].close,
           levels = {LevelIn(h, kind, Len(h) - 1) : kind \in WithPivots(h, Len(h) - 1)},
           snapshot.trend = TrendIn(h, Len(h) - 1)
    PROVE  BreakEvents(c) =
             {EventIn(Append(h, c), kind, Len(h)) : kind \in BrokenIn(Append(h, c), Len(h))}
<1> DEFINE g == Append(h, c)
           n == Len(h)
           L(kind) == LevelIn(h, kind, n - 1)
           E(l) == [index |-> c.index,
                    kind |-> IF Toward(l.swing.kind) = snapshot.trend THEN "BOS" ELSE "CHoCH",
                    direction |-> Toward(l.swing.kind), level |-> l.swing,
                    before |-> snapshot.trend, previousClose |-> previousClose, close |-> c.close]
           B == BrokenIn(g, n)
<1>1. n \in Nat /\ n - 1 \in Int /\ c.index = n /\ g[n + 1] = c /\ \A i \in 1 .. n : g[i] = h[i]
  BY Longer DEF CandleOK
<1>2. \A kind \in WithPivots(h, n - 1) : n > 0 /\ previousClose = h[n].close /\ kind \in Kinds
  BY <1>1, PivotsAre DEF WithPivots
<1>3. WithPivots(g, n - 1) = WithPivots(h, n - 1) /\ TrendIn(g, n - 1) = snapshot.trend
  BY <1>1, TrendStays
<1>4. ASSUME NEW kind \in WithPivots(h, n - 1)
      PROVE  /\ (snapshot.trend # "ranging" /\ Crossed(L(kind), c.close)) <=> kind \in B
             /\ E(L(kind)) = EventIn(g, kind, n)
  <2> DEFINE p == NewestIn(h, kind, n - 1)
  <2>0. kind \in Kinds
    BY <1>2, <1>4
  <2>1. p \in PivotsIn(h, kind, n - 1)
    BY <1>1, <2>0, <1>4, NewestIs DEF WithPivots
  <2>2. NewestIn(g, kind, n - 1) = p
    BY <1>1, <2>0, TrendStays
  <2>3. SwingAt(g, kind, p) = SwingAt(h, kind, p)
    BY <1>1, <2>0, <2>1, SwingStays
  <2>4. CrossedBy(g, kind, p, n - 1) <=> CrossedBy(h, kind, p, n - 1)
    BY <2>0, <2>1, CrossedGrows
  <2>5. Crossed(L(kind), c.close) <=> ~CrossedBy(h, kind, p, n - 1) /\ CrossesIn(g, kind, p, n)
    BY <1>2, <1>4, CrossedIs
  <2>6. L(kind).swing = SwingAt(h, kind, p) /\ L(kind).swing.kind = kind
    BY DEF LevelIn, SwingAt
  <2>7. g[n].close = previousClose
    BY <1>1, <1>2, <1>4
  <2> HIDE DEF p, g, n, L
  <2>8. (snapshot.trend # "ranging" /\ Crossed(L(kind), c.close)) <=> kind \in B
    BY <1>3, <1>4, <2>2, <2>4, <2>5 DEF BrokenIn
  <2>9. E(L(kind)) = EventIn(g, kind, n)
    BY <1>1, <1>3, <2>2, <2>3, <2>6, <2>7 DEF EventIn
  <2> QED BY <2>8, <2>9
<1>5. B \subseteq WithPivots(h, n - 1)
  BY <1>3 DEF BrokenIn
<1>6. levels = {L(kind) : kind \in WithPivots(h, n - 1)}
  OBVIOUS
<1>7. BreakEvents(c) = {E(l) : l \in {k \in levels : snapshot.trend # "ranging" /\ Crossed(k, c.close)}}
  BY DEF BreakEvents
<1> HIDE DEF E, B, L, g, n
<1>8. {k \in levels : snapshot.trend # "ranging" /\ Crossed(k, c.close)} = {L(kind) : kind \in B}
  BY <1>4, <1>5, <1>6
<1>9. BreakEvents(c) = {EventIn(g, kind, n) : kind \in B}
  BY <1>4, <1>5, <1>7, <1>8
<1> QED BY <1>9 DEF g, n, B

-----------------------------------------------------------------------------
(* A step of the chain, seen as one candle more.                           *)

Step(c) == Analyze(c) /\ CandleOK(c, Len(frames)) /\ HistoryOK(Append(Bars, c))

\* The candles of the frames.
LEMMA BarsAre ==
    ASSUME IsSeq(frames)
    PROVE  /\ Len(Bars) = Len(frames) /\ Len(frames) \in Nat /\ Now = Len(Bars) - 1 /\ Now \in Int
           /\ \A i \in Indices : Bar(i) = Bars[i + 1] /\ i + 1 \in 1 .. Len(Bars)
<1>1. Len(frames) \in Nat
  <2>1. frames \in Seq(Elements(frames))
    BY DEF IsSeq
  <2> QED BY <2>1
<1>2. Len(Bars) = Len(frames)
  <2>1. Bars = [i \in 1 .. Len(frames) |-> Bars[i]]
    BY DEF Bars
  <2> QED BY <1>1, <2>1, FunctionIs
<1>3. \A i \in 1 .. Len(frames) : Bars[i] = frames[i].candle
  BY DEF Bars
<1> QED BY <1>1, <1>2, <1>3 DEF Now, Indices, Bar

\* What a feed may hold.
LEMMA FeedIs ==
    ASSUME NEW i \in 1 .. Len(Feed), NEW shape \in Feed[i]
    PROVE  /\ shape.open \in Nat /\ shape.high \in Nat /\ shape.low \in Nat /\ shape.close \in Nat
           /\ shape.lag \in Nat /\ shape.low > 0 /\ shape.low <= shape.open
           /\ shape.low <= shape.close /\ shape.open <= shape.high /\ shape.close <= shape.high
<1>1. /\ shape \in [open : Nat, high : Nat, low : Nat, close : Nat, lag : Nat]
      /\ shape.low > 0 /\ shape.low <= Min({shape.open, shape.close})
      /\ shape.high >= Max({shape.open, shape.close})
  <2>1. Feed \in Seq(SUBSET [open : Nat, high : Nat, low : Nat, close : Nat, lag : Nat])
    BY FeedAssumption
  <2>2. Feed[i] \in SUBSET [open : Nat, high : Nat, low : Nat, close : Nat, lag : Nat]
    BY <2>1
  <2> QED BY <2>2, FeedAssumption
<1>2. /\ shape.open \in Nat /\ shape.high \in Nat /\ shape.low \in Nat /\ shape.close \in Nat
      /\ shape.lag \in Nat
  BY <1>1
<1>3. /\ Min({shape.open, shape.close}) = (IF shape.open <= shape.close THEN shape.open ELSE shape.close)
      /\ Max({shape.open, shape.close}) = (IF shape.open >= shape.close THEN shape.open ELSE shape.close)
  BY SMTT(30), <1>2, MinOfPair, MaxOfPair
<1> QED BY <1>1, <1>2, <1>3

\* A history goes on with a candle that is not available before the newest.
LEMMA HistoryGoesOn ==
    ASSUME NEW h, HistoryOK(h), NEW c, CandleOK(c, Len(h)),
           Len(h) > 0 => h[Len(h)].available <= c.available
    PROVE  HistoryOK(Append(h, c))
<1> DEFINE g == Append(h, c)
<1>1. h \in Seq(Candle) /\ c \in Candle /\ IsSeq(h)
  BY SeqIs DEF HistoryOK, CandleOK
<1>2. /\ Len(h) \in Nat /\ Len(g) = Len(h) + 1 /\ (\A i \in 1 .. Len(h) : g[i] = h[i])
      /\ g[Len(h) + 1] = c /\ g \in Seq(Candle)
  BY <1>1, AppendIs
<1> HIDE DEF g
<1>3. \A i \in 1 .. Len(g) : CandleOK(g[i], i - 1)
  <2> SUFFICES ASSUME NEW i \in 1 .. Len(g) PROVE CandleOK(g[i], i - 1)
    OBVIOUS
  <2>1. CASE i \in 1 .. Len(h)
    BY <1>2, <2>1 DEF HistoryOK
  <2>2. CASE i \notin 1 .. Len(h)
    <3>1. i = Len(h) + 1 /\ i - 1 = Len(h)
      BY <1>2, <2>2
    <3> QED BY <1>2, <3>1
  <2> QED BY <2>1, <2>2
<1>4. \A i \in 1 .. Len(g) : g[i].available \in Nat
  <2>1. \A i \in 1 .. Len(g) : g[i] \in Candle
    BY <1>2
  <2> QED BY <2>1, CandleTypes
<1>5. \A i, j \in 1 .. Len(g) : i <= j => g[i].available <= g[j].available
  <2> SUFFICES ASSUME NEW i \in 1 .. Len(g), NEW j \in 1 .. Len(g), i <= j
               PROVE  g[i].available <= g[j].available
    OBVIOUS
  <2>1. CASE j \in 1 .. Len(h)
    <3>1. i \in 1 .. Len(h)
      BY <1>2, <2>1
    <3> QED BY <1>2, <2>1, <3>1 DEF HistoryOK
  <2>2. CASE j \notin 1 .. Len(h) /\ i \in 1 .. Len(h)
    <3>1. g[j] = c /\ Len(h) \in 1 .. Len(h) /\ i <= Len(h)
      BY <1>2, <2>2
    <3>2. h[i].available <= h[Len(h)].available /\ h[Len(h)].available <= c.available
      BY <2>2, <3>1 DEF HistoryOK
    <3> QED BY <1>2, <1>4, <2>2, <3>1, <3>2
  <2>3. CASE j \notin 1 .. Len(h) /\ i \notin 1 .. Len(h)
    <3>1. i = j
      BY <1>2, <2>3
    <3> QED BY <1>4, <3>1
  <2> QED BY <2>1, <2>2, <2>3
<1> QED BY <1>2, <1>3, <1>5 DEF HistoryOK, g

\* Every step analyzes a candle that continues the history.
LEMMA NextIs ==
    ASSUME LinkInv, StructureInv, Next
    PROVE  \E c : Step(c)
<1> DEFINE n == Len(frames)
<1>1. PICK shape \in Feed[n + 1] : Observed(shape).available >= snapshot.available
                                   /\ Analyze(Observed(shape)) /\ n < Len(Feed)
  BY DEF Next
<1> DEFINE c == Observed(shape)
<1>2. n \in Nat /\ Len(Bars) = n /\ Now = n - 1 /\ \A i \in Indices : Bar(i) = Bars[i + 1]
  BY BarsAre DEF LinkInv
<1>3. Len(Feed) \in Nat
  BY FeedAssumption
<1>4. n + 1 \in 1 .. Len(Feed)
  BY <1>1, <1>2, <1>3
<1>5. CandleOK(c, n)
  <2>1. /\ c.index = n /\ c.open = shape.open /\ c.high = shape.high /\ c.low = shape.low
        /\ c.close = shape.close /\ c.available = n + 1 + shape.lag
        /\ c = [index |-> n, open |-> shape.open, high |-> shape.high, low |-> shape.low,
                close |-> shape.close, available |-> n + 1 + shape.lag]
    BY DEF Observed
  <2>2. /\ shape.open \in Nat /\ shape.high \in Nat /\ shape.low \in Nat /\ shape.close \in Nat
        /\ shape.lag \in Nat /\ shape.low > 0 /\ shape.low <= shape.open
        /\ shape.low <= shape.close /\ shape.open <= shape.high /\ shape.close <= shape.high
    BY <1>1, <1>4, FeedIs
  <2> HIDE DEF c, n
  <2>3. n + 1 + shape.lag \in Nat /\ n < n + 1 + shape.lag
    BY <1>2, <2>2
  <2>4. c \in Candle
    BY <1>2, <2>1, <2>2, <2>3 DEF Candle
  <2> QED BY <2>1, <2>2, <2>3, <2>4 DEF CandleOK
<1>6. n > 0 => Bars[n].available <= c.available
  <2> SUFFICES ASSUME n > 0 PROVE Bars[n].available <= c.available
    OBVIOUS
  <2>1. ~(Now < 0) /\ Now \in Indices /\ Now + 1 = n
    BY <1>2 DEF Indices
  <2>2. snapshot.available = Bars[n].available
    BY <1>2, <2>1 DEF StructureInv
  <2>3. Bars[n].available \in Nat /\ c.available \in Nat
    <3>1. n - 1 \in 0 .. Len(Bars) - 1 /\ (n - 1) + 1 = n
      BY <1>2
    <3>2. Bars[(n - 1) + 1] \in Candle
      BY <3>1, CandlesAre DEF LinkInv
    <3> QED BY <1>5, <3>1, <3>2 DEF Candle, CandleOK
  <2> QED BY <1>1, <2>2, <2>3
<1>7. HistoryOK(Append(Bars, c))
  BY <1>2, <1>5, <1>6, HistoryGoesOn DEF LinkInv
<1> QED BY <1>1, <1>5, <1>7 DEF Step

\* The frames after a step: those before it, and the newest.
LEMMA StepIs ==
    ASSUME LinkInv, NEW c, Step(c)
    PROVE  /\ HistoryOK(Bars) /\ HistoryOK(Append(Bars, c)) /\ IsSeq(frames')
           /\ CandleOK(c, Len(Bars)) /\ c \in Candle
           /\ Len(Bars) = Len(frames) /\ Len(Bars) \in Nat /\ Now = Len(Bars) - 1
           /\ Bars' = Append(Bars, c) /\ Len(Append(Bars, c)) = Len(Bars) + 1
           /\ Len(frames') = Len(Bars) + 1 /\ Now' = Len(Bars)
           /\ \A i \in 1 .. Len(Bars) : frames'[i] = frames[i] /\ Bars[i] = frames[i].candle
           /\ frames'[Len(Bars) + 1] =
                [candle |-> c, swings |-> snapshot'.swings, events |-> snapshot'.events,
                 trend |-> snapshot'.trend, updates |-> updates', sweeps |-> sweeps',
                 displacement |-> displacement', gap |-> gap', blocks |-> blocks', range |-> range',
                 premium |-> premium', ote |-> ote', shift |-> shift',
                 violations |-> violations', mitigations |-> mitigations']
<1> DEFINE f == [candle |-> c, swings |-> snapshot'.swings, events |-> snapshot'.events,
                 trend |-> snapshot'.trend, updates |-> updates', sweeps |-> sweeps',
                 displacement |-> displacement', gap |-> gap', blocks |-> blocks', range |-> range',
                 premium |-> premium', ote |-> ote', shift |-> shift',
                 violations |-> violations', mitigations |-> mitigations']
           n == Len(Bars)
<1>1. /\ IsSeq(frames) /\ HistoryOK(Bars) /\ HistoryOK(Append(Bars, c)) /\ CandleOK(c, Len(frames))
      /\ c \in Candle
  BY DEF LinkInv, Step, CandleOK
<1>2. n = Len(frames) /\ n \in Nat /\ Now = n - 1
  BY <1>1, BarsAre
<1>3. frames' = Append(frames, f)
  BY DEF Step, Analyze
<1>4. f.candle = c
  OBVIOUS
<1> HIDE DEF f
<1>5. /\ IsSeq(frames') /\ Len(frames') = n + 1 /\ frames'[n + 1] = f
      /\ \A i \in 1 .. n : frames'[i] = frames[i]
  BY <1>1, <1>2, <1>3, AppendIs
<1>6. \A i \in 1 .. n : Bars[i] = frames[i].candle
  BY <1>2 DEF Bars
<1>7. /\ Len(Append(Bars, c)) = n + 1 /\ Append(Bars, c)[n + 1] = c
      /\ \A i \in 1 .. n : Append(Bars, c)[i] = Bars[i]
  BY <1>1, Longer
<1>8. Bars' = Append(Bars, c)
  <2>1. Bars' = [i \in 1 .. n + 1 |-> frames'[i].candle]
    BY <1>5 DEF Bars
  <2> HIDE DEF n
  <2>2. Bars' = [i \in 1 .. n + 1 |-> Bars'[i]]
    BY <2>1
  <2>3. IsSeq(Bars') /\ Len(Bars') = n + 1
    BY <1>2, <2>2, FunctionIs
  <2>4. \A i \in 1 .. n + 1 : Bars'[i] = Append(Bars, c)[i]
    <3> SUFFICES ASSUME NEW i \in 1 .. n + 1 PROVE Bars'[i] = Append(Bars, c)[i]
      OBVIOUS
    <3>1. CASE i = n + 1
      BY <1>4, <1>5, <1>7, <2>1, <3>1
    <3>2. CASE i # n + 1
      <4>1. i \in 1 .. n
        BY <1>2, <3>2
      <4> QED BY <1>5, <1>6, <1>7, <2>1, <4>1
    <3> QED BY <3>1, <3>2
  <2>5. IsSeq(Append(Bars, c))
    BY <1>1, SeqIs DEF HistoryOK
  <2> QED BY <1>7, <2>3, <2>4, <2>5, SameItems
<1>9. Now' = n
  BY <1>2, <1>5 DEF Now
<1> QED BY <1>1, <1>2, <1>5, <1>6, <1>7, <1>8, <1>9 DEF f

\* What the newest frame publishes.
LEMMA NewestFrame ==
    ASSUME LinkInv, NEW c, Step(c)
    PROVE  LET f == frames'[Len(Bars) + 1]
           IN  /\ f.candle = c /\ f.swings = snapshot'.swings /\ f.events = snapshot'.events
               /\ f.trend = snapshot'.trend /\ f.updates = updates' /\ f.sweeps = sweeps'
               /\ f.displacement = displacement' /\ f.gap = gap' /\ f.blocks = blocks'
               /\ f.range = range' /\ f.premium = premium' /\ f.ote = ote' /\ f.shift = shift'
               /\ f.violations = violations' /\ f.mitigations = mitigations'
<1>1. frames'[Len(Bars) + 1] =
                [candle |-> c, swings |-> snapshot'.swings, events |-> snapshot'.events,
                 trend |-> snapshot'.trend, updates |-> updates', sweeps |-> sweeps',
                 displacement |-> displacement', gap |-> gap', blocks |-> blocks', range |-> range',
                 premium |-> premium', ote |-> ote', shift |-> shift',
                 violations |-> violations', mitigations |-> mitigations']
  BY StepIs
<1> QED BY <1>1

\* The newest frame is a copy of what the analyzers hold.
LEMMA LinkStays ==
    ASSUME LinkInv, NEW c, Step(c) PROVE LinkInv'
<1>1. IsSeq(frames') /\ HistoryOK(Bars') /\ Now' + 1 = Len(Bars) + 1
  BY StepIs
<1> QED BY <1>1, NewestFrame DEF LinkInv, At

\* A window at the end of the candles moves on with them.
LEMMA WindowFollows ==
    ASSUME LinkInv, NEW c, Step(c), NEW n \in Nat \ {0}, NEW w, IsTail(w, Bars, n)
    PROVE  IsTail(Slide(w, c, n), Bars', n)
<1>1. IsSeq(Bars) /\ Bars' = Append(Bars, c)
  BY StepIs, SeqIs DEF HistoryOK
<1> QED BY <1>1, SlideIsTail

\* What is said of the swings of an earlier candle stays.
LEMMA ConfirmedStays ==
    ASSUME NEW h, HistoryOK(h), NEW c, HistoryOK(Append(h, c)), NEW i \in 0 .. Len(h) - 1
    PROVE  ConfirmedAt(Append(h, c), i) = ConfirmedAt(h, i)
<1>1. i \in Int /\ i <= Len(h) - 1 /\ Len(h) \in Nat
  BY Longer
<1>2. \A kind \in Kinds : PivotsIn(Append(h, c), kind, i) = PivotsIn(h, kind, i)
  BY <1>1, PivotsStay
<1>3. \A kind \in Kinds : i - Radius \in PivotsIn(h, kind, i) =>
                            SwingAt(Append(h, c), kind, i - Radius) = SwingAt(h, kind, i - Radius)
  BY <1>1, SwingStays
<1> DEFINE K == {k \in Kinds : i - Radius \in PivotsIn(h, k, i)}
<1>4. K = {k \in Kinds : i - Radius \in PivotsIn(Append(h, c), k, i)}
  BY <1>2
<1>5. ConfirmedAt(h, i) = {SwingAt(h, kind, i - Radius) : kind \in K}
  BY DEF ConfirmedAt
<1>6. ConfirmedAt(Append(h, c), i) = {SwingAt(Append(h, c), kind, i - Radius) : kind \in K}
  BY <1>4 DEF ConfirmedAt
<1>7. \A kind \in K : SwingAt(Append(h, c), kind, i - Radius) = SwingAt(h, kind, i - Radius)
  BY <1>3
<1> HIDE DEF K
<1> QED BY <1>5, <1>6, <1>7

\* Swings, trend, levels and breaks stay those of the history.
LEMMA StructureStays ==
    ASSUME LinkInv, StructureInv, NEW c, Step(c) PROVE StructureInv'
<1> DEFINE h == Bars
           g == Append(h, c)
           n == Len(h)
           S == ConfirmedAt(g, n)
<1>0. /\ HistoryOK(h) /\ HistoryOK(g) /\ n \in Nat /\ Now = n - 1 /\ Now' = n /\ Bars' = g
      /\ Len(g) = n + 1 /\ c \in Candle /\ CandleOK(c, n) /\ Len(frames') = n + 1
      /\ (\A i \in 1 .. n : frames'[i] = frames[i] /\ h[i] = frames[i].candle)
  BY StepIs
<1>1. /\ HistoryOK(h) /\ HistoryOK(g) /\ n \in Nat /\ Now = n - 1 /\ Now' = n /\ Bars' = g
      /\ Len(g) = n + 1 /\ c \in Candle /\ CandleOK(c, n) /\ Len(frames') = n + 1
      /\ (\A i \in 1 .. n : frames'[i] = frames[i] /\ h[i] = frames[i].candle)
      /\ frames'[n + 1].candle = c /\ frames'[n + 1].swings = snapshot'.swings
  <2>1. frames'[n + 1].candle = c /\ frames'[n + 1].swings = snapshot'.swings
    BY NewestFrame
  <2> HIDE DEF h, g, n
  <2> QED BY <1>0, <2>1
<1>2. StructureUpdate(c)
  BY DEF Step, Analyze
<1>3. IsTail(Slide(window, c, FractalLength), g, FractalLength)
  BY <1>1, WindowFollows, RadiusIs DEF StructureInv
<1>4. Confirmations(Slide(window, c, FractalLength)) = S
  <2>1. Len(g) > 0 /\ Len(g) - 1 = n
    BY <1>1
  <2> QED BY <1>1, <1>3, <2>1, ConfirmationsAre
<1>5. window' = Slide(window, c, FractalLength) /\ previousClose' = c.close
      /\ recent' = RecentAfter(S) /\ levels' = LevelsAfter(c, S)
      /\ snapshot' = [index |-> c.index, available |-> c.available,
                      swings |-> S, events |-> BreakEvents(c),
                      trend |-> Trend(RecentAfter(S)["high"], RecentAfter(S)["low"]),
                      ready |-> Ready(RecentAfter(S)["high"], RecentAfter(S)["low"])]
  BY <1>2, <1>4 DEF StructureUpdate
<1>6. n > 0 => previousClose = h[n].close
  <2> SUFFICES ASSUME n > 0 PROVE previousClose = h[n].close
    OBVIOUS
  <2>1. ~(Now < 0) /\ n \in 1 .. n /\ Now + 1 = n
    BY <1>1
  <2> QED BY <1>1, <2>1 DEF StructureInv, Bar
<1>7. levels = {LevelIn(h, kind, n - 1) : kind \in WithPivots(h, n - 1)}
      /\ snapshot.trend = TrendIn(h, n - 1)
  BY <1>1 DEF StructureInv
<1>8. levels' = {LevelIn(g, kind, n) : kind \in WithPivots(g, n)}
  BY <1>1, <1>5, <1>6, <1>7, LevelsFollow
<1>9. BreakEvents(c) = {EventIn(g, kind, n) : kind \in BrokenIn(g, n)}
  BY <1>1, <1>6, <1>7, EventsFollow
<1>10. \A kind \in Kinds : RecentOK(RecentAfter(S)[kind], g, kind)
  BY <1>1, RecentFollows DEF StructureInv
<1>11. /\ Ready(RecentAfter(S)["high"], RecentAfter(S)["low"]) <=> ReadyIn(g, n)
       /\ Trend(RecentAfter(S)["high"], RecentAfter(S)["low"]) = TrendIn(g, n)
  <2>1. Len(g) - 1 = n
    BY <1>1
  <2> HIDE DEF S, g, n
  <2> QED BY <1>1, <1>10, <2>1, TrendFollows
<1>12. \A i \in 0 .. n : frames'[i + 1].swings = ConfirmedAt(g, i)
  <2> SUFFICES ASSUME NEW i \in 0 .. n PROVE frames'[i + 1].swings = ConfirmedAt(g, i)
    OBVIOUS
  <2>1. CASE i = n
    BY <1>1, <1>5, <2>1
  <2>2. CASE i # n
    <3>1. i \in 0 .. n - 1 /\ i + 1 \in 1 .. n /\ i \in Indices
      BY <1>1, <2>2 DEF Indices
    <3>2. frames[i + 1].swings = ConfirmedAt(h, i)
      BY <3>1 DEF StructureInv, At
    <3>3. ConfirmedAt(g, i) = ConfirmedAt(h, i)
      BY <1>1, <3>1, ConfirmedStays
    <3> QED BY <1>1, <3>1, <3>2, <3>3
  <2> QED BY <2>1, <2>2
<1>13. c.index = n
  BY <1>1 DEF CandleOK
<1> HIDE DEF S, g, n, h
<1>14. ~(Now' < 0) /\ Indices' = 0 .. n
  BY <1>1 DEF Indices
<1> QED BY <1>1, <1>3, <1>5, <1>8, <1>9, <1>10, <1>11, <1>12, <1>13, <1>14 DEF StructureInv, Bar, At

-----------------------------------------------------------------------------
(* What AnalysisChain says of the history, said of its candles.            *)

\* A finite set has fewer than two elements when nothing is left without one of them.
LEMMA FewerThanTwo ==
    ASSUME NEW S, IsFiniteSet(S), NEW x, S # {} => x \in S
    PROVE  Cardinality(S) < 2 <=> S = {} \/ S \ {x} = {}
<1>1. CASE S = {}
  BY <1>1, FS_EmptySet
<1>2. CASE S # {}
  <2>1. Cardinality(S \ {x}) = Cardinality(S) - 1 /\ IsFiniteSet(S \ {x})
    BY <1>2, FS_RemoveElement
  <2>2. Cardinality(S) \in Nat /\ Cardinality(S \ {x}) \in Nat
    BY <2>1, FS_CardinalityType
  <2>3. Cardinality(S \ {x}) = 0 <=> S \ {x} = {}
    BY <2>1, FS_EmptySet
  <2> QED BY <1>2, <2>1, <2>2, <2>3
<1> QED BY <1>1, <1>2

\* Fractals, pivots and the trend are those of the candles.
LEMMA HistoryAgrees ==
    ASSUME LinkInv
    PROVE  /\ \A kind \in Kinds : \A p \in Int : IsFractal(kind, p) <=> FractalIn(Bars, kind, p)
           /\ \A kind \in Kinds : \A i \in Int : PivotsBy(kind, i) = PivotsIn(Bars, kind, i)
           /\ \A i \in Int : TrendBy(i) = TrendIn(Bars, i)
<1> DEFINE h == Bars
           n == Len(h)
<1>1. /\ HistoryOK(h) /\ n \in Nat /\ Now = n - 1
      /\ \A i \in Indices : Bar(i) = h[i + 1]
  BY BarsAre DEF LinkInv
<1>2. Indices = 0 .. n - 1 /\ Radius \in Nat
  BY <1>1, RadiusIs DEF Indices
<1>3. ASSUME NEW kind \in Kinds, NEW p \in Int
      PROVE  IsFractal(kind, p) <=> FractalIn(h, kind, p)
  <2> HIDE DEF h, n
  <2>1. CASE p - Radius >= 0 /\ p + Radius <= n - 1
    <3>1. \A i \in p - Radius .. p + Radius : i \in Indices
      BY <1>1, <1>2, <2>1
    <3>2. Bar(p) = h[p + 1] /\ \A i \in (p - Radius .. p + Radius) \ {p} : Bar(i) = h[i + 1]
      <4>1. p \in p - Radius .. p + Radius
        BY <1>2
      <4> QED BY <1>1, <3>1, <4>1
    <3> QED BY <1>1, <2>1, <3>2 DEF IsFractal, FractalIn, n
  <2>2. CASE ~(p - Radius >= 0 /\ p + Radius <= n - 1)
    BY <1>1, <2>2 DEF IsFractal, FractalIn, n
  <2> QED BY <2>1, <2>2
<1>4. ASSUME NEW kind \in Kinds, NEW i \in Int
      PROVE  PivotsBy(kind, i) = PivotsIn(h, kind, i)
  <2>1. \A p \in 0 .. n - 1 : IsFractal(kind, p) <=> FractalIn(h, kind, p)
    BY <1>3
  <2> QED BY <1>2, <2>1 DEF PivotsBy, PivotsIn
<1>5. ASSUME NEW i \in Int PROVE TrendBy(i) = TrendIn(h, i)
  <2> DEFINE P(kind) == PivotsIn(h, kind, i)
             Newest(kind) == Max(PivotsBy(kind, i))
             Older(kind) == Max(PivotsBy(kind, i) \ {Newest(kind)})
  <2>1. \A kind \in Kinds : PivotsBy(kind, i) = P(kind)
    BY <1>4
  <2>2. \A kind \in Kinds : Newest(kind) = NewestIn(h, kind, i)
                           /\ Older(kind) = Max(OlderIn(h, kind, i))
    BY <2>1 DEF NewestIn, OlderIn
  <2>3. ASSUME NEW kind \in Kinds
        PROVE  Cardinality(PivotsBy(kind, i)) < 2 <=> ~(P(kind) # {} /\ OlderIn(h, kind, i) # {})
    <3>1. P(kind) \subseteq 0 .. n - 1
      BY DEF PivotsIn
    <3>2. IsFiniteSet(0 .. n - 1)
      BY <1>1, FS_Interval
    <3>3. IsFiniteSet(P(kind))
      BY <3>1, <3>2, FS_Subset
    <3>4. P(kind) # {} => NewestIn(h, kind, i) \in P(kind)
      BY <1>1, NewestIs
    <3>5. OlderIn(h, kind, i) = P(kind) \ {NewestIn(h, kind, i)}
      BY DEF OlderIn
    <3> HIDE DEF P
    <3> QED BY <2>1, <3>3, <3>4, <3>5, FewerThanTwo
  <2>4. (\E kind \in Kinds : Cardinality(PivotsBy(kind, i)) < 2) <=> ~ReadyIn(h, i)
    BY <2>3 DEF ReadyIn
  <2>5. ASSUME ReadyIn(h, i), NEW kind \in Kinds
        PROVE  /\ Extreme(Bar(Newest(kind)), kind) = NewestPrice(h, kind, i)
               /\ Extreme(Bar(Older(kind)), kind) = OlderPrice(h, kind, i)
    <3>1. NewestIn(h, kind, i) \in P(kind) /\ Max(OlderIn(h, kind, i)) \in P(kind)
      BY <1>1, <2>5, NewestIs, OlderIs DEF ReadyIn
    <3>2. NewestIn(h, kind, i) \in Indices /\ Max(OlderIn(h, kind, i)) \in Indices
      BY <1>2, <3>1 DEF PivotsIn
    <3>3. Bar(NewestIn(h, kind, i)) = h[NewestIn(h, kind, i) + 1]
          /\ Bar(Max(OlderIn(h, kind, i))) = h[Max(OlderIn(h, kind, i)) + 1]
      BY <1>1, <3>2
    <3> QED BY <2>2, <3>3 DEF NewestPrice, OlderPrice
  <2>6. TrendBy(i) =
          IF \E kind \in Kinds : Cardinality(PivotsBy(kind, i)) < 2 THEN "ranging"
          ELSE IF \A kind \in Kinds : Extreme(Bar(Newest(kind)), kind) > Extreme(Bar(Older(kind)), kind)
          THEN "bullish"
          ELSE IF \A kind \in Kinds : Extreme(Bar(Newest(kind)), kind) < Extreme(Bar(Older(kind)), kind)
          THEN "bearish" ELSE "ranging"
    BY DEF TrendBy
  <2> HIDE DEF h, Newest, Older
  <2> QED BY <2>4, <2>5, <2>6 DEF TrendIn
<1> QED BY <1>3, <1>4, <1>5

\* The invariant implies that breaks are first crossings.
LEMMA BreaksAgree ==
    ASSUME LinkInv, StructureInv PROVE BreaksAreFirstCrossings
<1> DEFINE h == Bars
           n == Len(h)
           Level(kind) == Max(PivotsBy(kind, Now - 1))
           Named(kind) == IF Toward(kind) = TrendBy(Now - 1) THEN "BOS" ELSE "CHoCH"
           K == {k \in Kinds : /\ PivotsBy(k, Now - 1) # {}
                               /\ TrendBy(Now - 1) # "ranging"
                               /\ FirstCrossing(k, Level(k), Now)}
<1> SUFFICES ASSUME Now >= 0
             PROVE  /\ {<<s.kind, s.pivot>> : s \in At(Now).swings} =
                         {<<kind, Now - Radius>> : kind \in {k \in Kinds : IsFractal(k, Now - Radius)}}
                    /\ {<<e.level.kind, e.level.pivot, e.kind>> : e \in At(Now).events} =
                         {<<kind, Level(kind), Named(kind)>> : kind \in K}
  BY DEF BreaksAreFirstCrossings
<1>1. /\ HistoryOK(h) /\ n \in Nat /\ Now = n - 1 /\ Radius \in Nat /\ Now \in Indices
      /\ Now \in Int /\ Now - 1 \in Int /\ Now - Radius \in Int
      /\ \A i \in Indices : Bar(i) = h[i + 1]
  BY BarsAre, RadiusIs DEF LinkInv, Indices
<1>2. /\ \A kind \in Kinds : \A p \in Int : IsFractal(kind, p) <=> FractalIn(h, kind, p)
      /\ \A kind \in Kinds : PivotsBy(kind, Now - 1) = PivotsIn(h, kind, Now - 1)
      /\ TrendBy(Now - 1) = TrendIn(h, Now - 1)
  BY <1>1, HistoryAgrees
<1>3. At(Now).swings = ConfirmedAt(h, Now)
  BY <1>1 DEF StructureInv
<1>4. At(Now).events = {EventIn(h, kind, Now) : kind \in BrokenIn(h, Now)}
  BY DEF StructureInv, LinkInv
<1>5. {<<s.kind, s.pivot>> : s \in At(Now).swings} =
        {<<kind, Now - Radius>> : kind \in {k \in Kinds : IsFractal(k, Now - Radius)}}
  <2>1. \A kind \in Kinds : Now - Radius \in PivotsIn(h, kind, Now) <=> IsFractal(kind, Now - Radius)
    <3> SUFFICES ASSUME NEW kind \in Kinds
                 PROVE  Now - Radius \in PivotsIn(h, kind, Now) <=> FractalIn(h, kind, Now - Radius)
      BY <1>1, <1>2
    <3>1. FractalIn(h, kind, Now - Radius) => Now - Radius \in 0 .. n - 1
      BY <1>1 DEF FractalIn
    <3> QED BY <1>1, <3>1 DEF PivotsIn
  <2> DEFINE F == {k \in Kinds : IsFractal(k, Now - Radius)}
  <2>2. F = {k \in Kinds : Now - Radius \in PivotsIn(h, k, Now)}
    BY <2>1
  <2>3. At(Now).swings = {SwingAt(h, kind, Now - Radius) : kind \in F}
    BY <1>3, <2>2 DEF ConfirmedAt
  <2>4. \A kind : SwingAt(h, kind, Now - Radius).kind = kind
                  /\ SwingAt(h, kind, Now - Radius).pivot = Now - Radius
    BY DEF SwingAt
  <2> HIDE DEF F, h, n
  <2>5. {<<s.kind, s.pivot>> : s \in At(Now).swings} = {<<kind, Now - Radius>> : kind \in F}
    BY <2>3, <2>4
  <2> QED BY <2>5 DEF F
<1>6. ASSUME NEW kind \in WithPivots(h, Now - 1)
      PROVE  /\ Level(kind) = NewestIn(h, kind, Now - 1)
             /\ FirstCrossing(kind, Level(kind), Now) <=>
                  /\ ~CrossedBy(h, kind, Level(kind), Now - 1)
                  /\ CrossesIn(h, kind, Level(kind), Now)
  <2>1. kind \in Kinds /\ Level(kind) = NewestIn(h, kind, Now - 1)
        /\ NewestIn(h, kind, Now - 1) \in PivotsIn(h, kind, Now - 1)
    BY <1>1, <1>2, NewestIs DEF WithPivots, NewestIn
  <2> DEFINE p == NewestIn(h, kind, Now - 1)
  <2>2. p \in Nat /\ p + Radius <= Now - 1 /\ p \in Indices
    BY <1>1, <2>1, PivotsAre DEF Indices
  <2> HIDE DEF p, h, n
  <2>3. ASSUME NEW k \in p + Radius + 1 .. Now
        PROVE  Crosses(kind, p, k) <=> CrossesIn(h, kind, p, k)
    <3>1. k - 1 \in Indices /\ k \in Indices /\ (k - 1) + 1 = k
      BY <1>1, <2>2 DEF Indices
    <3>2. Bar(k - 1) = h[k] /\ Bar(k) = h[k + 1] /\ Bar(p) = h[p + 1]
      BY <1>1, <2>2, <3>1
    <3> QED BY <3>2 DEF Crosses, CrossesIn
  <2>4. Now \in p + Radius + 1 .. Now /\ \A k \in p + Radius + 1 .. Now - 1 : k \in p + Radius + 1 .. Now
    BY <1>1, <2>2
  <2>5. FirstCrossing(kind, p, Now) <=> ~CrossedBy(h, kind, p, Now - 1) /\ CrossesIn(h, kind, p, Now)
    BY <2>3, <2>4 DEF FirstCrossing, CrossedBy
  <2> QED BY <2>1, <2>5 DEF p
<1>7. K = BrokenIn(h, Now)
  <2>1. \A k \in Kinds : PivotsBy(k, Now - 1) # {} <=> k \in WithPivots(h, Now - 1)
    BY <1>2 DEF WithPivots
  <2>2. WithPivots(h, Now - 1) \subseteq Kinds
    BY DEF WithPivots
  <2> HIDE DEF h, n, Level
  <2>3. \A k \in WithPivots(h, Now - 1) :
          FirstCrossing(k, Level(k), Now) <=>
            /\ ~CrossedBy(h, k, NewestIn(h, k, Now - 1), Now - 1)
            /\ CrossesIn(h, k, NewestIn(h, k, Now - 1), Now)
    BY <1>6
  <2> QED BY <1>2, <2>1, <2>2, <2>3 DEF BrokenIn
<1>8. ASSUME NEW kind \in K
      PROVE  /\ EventIn(h, kind, Now).level.kind = kind
             /\ EventIn(h, kind, Now).level.pivot = Level(kind)
             /\ EventIn(h, kind, Now).kind = Named(kind)
  <2>1. kind \in WithPivots(h, Now - 1)
    BY <1>7, <1>8 DEF BrokenIn
  <2>2. Level(kind) = NewestIn(h, kind, Now - 1)
    BY <1>6, <2>1
  <2> QED BY <1>2, <2>2 DEF EventIn, SwingAt
<1>9. {<<e.level.kind, e.level.pivot, e.kind>> : e \in At(Now).events} =
        {<<kind, Level(kind), Named(kind)>> : kind \in K}
  <2> HIDE DEF h, n, Level, Named, K
  <2> QED BY <1>4, <1>7, <1>8
<1> QED BY <1>5, <1>9

\* What a history unites grows by the part of the newest candle.
LEMMA OneMore ==
    ASSUME NEW n \in Nat, NEW F, NEW G, \A i \in 0 .. n - 1 : F[i] = G[i]
    PROVE  UNION {F[i] : i \in 0 .. n} = (UNION {G[i] : i \in 0 .. n - 1}) \cup F[n]
<1> DEFINE U == UNION {F[i] : i \in 0 .. n}
           V == UNION {G[i] : i \in 0 .. n - 1}
<1>1. \A i : i \in 0 .. n <=> i \in 0 .. n - 1 \/ i = n
  OBVIOUS
<1>2. \A x : x \in U <=> \E i \in 0 .. n : x \in F[i]
  OBVIOUS
<1>3. \A x : x \in V <=> \E i \in 0 .. n - 1 : x \in G[i]
  OBVIOUS
<1> HIDE DEF U, V
<1>4. \A x : x \in U <=> x \in V \cup F[n]
  BY <1>1, <1>2, <1>3
<1>5. U = V \cup F[n]
  BY <1>4
<1> QED BY <1>5 DEF U, V

\* The image of a finite set is finite, and as large if no two elements share a value.
LEMMA ImageIs ==
    ASSUME NEW S, IsFiniteSet(S), NEW f
    PROVE  /\ IsFiniteSet({f[x] : x \in S})
           /\ (\A x, y \in S : f[x] = f[y] => x = y) =>
                Cardinality({f[x] : x \in S}) = Cardinality(S)
<1> DEFINE T == {f[x] : x \in S}
           F == [x \in S |-> f[x]]
<1>1. F \in [S -> T] /\ \A t \in T : \E x \in S : F[x] = t
  OBVIOUS
<1>2. F \in Surjection(S, T)
  BY <1>1 DEF Surjection
<1>3. (\A x, y \in S : f[x] = f[y] => x = y) => F \in Injection(S, T)
  BY <1>1 DEF Injection, IsInjective
<1> HIDE DEF F, T
<1>4. IsFiniteSet(T) /\ (F \in Injection(S, T) => Cardinality(T) = Cardinality(S))
  BY <1>2, FS_Surjection
<1> QED BY <1>3, <1>4 DEF T

-----------------------------------------------------------------------------
(* The pools.                                                              *)

\* What a confirmed swing is.
LEMMA SwingIs ==
    ASSUME NEW h, HistoryOK(h), NEW kind \in Kinds, NEW p \in PivotsIn(h, kind, Len(h) - 1)
    PROVE  /\ SwingAt(h, kind, p) \in Swing
           /\ SwingAt(h, kind, p).kind = kind /\ SwingAt(h, kind, p).pivot = p
           /\ SwingAt(h, kind, p).confirmed = p + Radius /\ p + Radius <= Len(h) - 1
           /\ p + Radius \in Nat /\ p \in Nat
           /\ SwingAt(h, kind, p).price = Extreme(h[p + 1], kind)
           /\ SwingAt(h, kind, p).available = h[p + Radius + 1].available
           /\ \A k \in p + Radius + 1 .. Len(h) : SwingAt(h, kind, p).available <= h[k].available
<1>1. Len(h) \in Nat /\ Len(h) - 1 \in Int /\ Radius \in Nat
  BY RadiusIs DEF HistoryOK
<1>2. /\ p \in Nat /\ p + Radius <= Len(h) - 1 /\ p \in 0 .. Len(h) - 1
      /\ p + Radius \in 0 .. Len(h) - 1 /\ p + Radius + 1 \in 1 .. Len(h)
  BY <1>1, PivotsAre
<1>3. h[p + 1] \in Candle /\ h[p + Radius + 1] \in Candle
  BY <1>2, CandlesAre
<1>4. Extreme(h[p + 1], kind) \in Nat /\ h[p + Radius + 1].available \in Nat
  BY <1>3, CandleTypes
<1>5. \A k \in p + Radius + 1 .. Len(h) : h[p + Radius + 1].available <= h[k].available
  <2> SUFFICES ASSUME NEW k \in p + Radius + 1 .. Len(h)
               PROVE  h[p + Radius + 1].available <= h[k].available
    OBVIOUS
  <2>1. k \in 1 .. Len(h) /\ p + Radius + 1 <= k
    BY <1>1, <1>2
  <2> QED BY <1>2, <2>1 DEF HistoryOK
<1> QED BY <1>1, <1>2, <1>4, <1>5 DEF SwingAt, Swing

\* The swings of a history are well formed and older than its end.
LEMMA SwingsAre ==
    ASSUME NEW h, HistoryOK(h), NEW s \in SwingsIn(h)
    PROVE  /\ s \in Swing /\ s = SwingAt(h, s.kind, s.pivot) /\ s.kind \in Kinds
           /\ s.pivot \in PivotsIn(h, s.kind, Len(h) - 1)
           /\ s.pivot \in Nat /\ s.confirmed = s.pivot + Radius /\ s.confirmed <= Len(h) - 1
           /\ s.pivot \in 0 .. Len(h) - 1 /\ Len(h) > 0
           /\ s.available <= h[Len(h)].available
<1>1. PICK kind \in Kinds : \E p \in PivotsIn(h, kind, Len(h) - 1) : s = SwingAt(h, kind, p)
  BY DEF SwingsIn
<1>2. PICK p \in PivotsIn(h, kind, Len(h) - 1) : s = SwingAt(h, kind, p)
  BY <1>1
<1>3. Len(h) \in Nat /\ Len(h) - 1 \in Int /\ Radius \in Nat
  BY RadiusIs DEF HistoryOK
<1>4. p \in Nat /\ p + Radius <= Len(h) - 1 /\ p \in 0 .. Len(h) - 1 /\ Len(h) \in p + Radius + 1 .. Len(h)
  BY <1>3, PivotsAre
<1> QED BY <1>2, <1>3, <1>4, SwingIs

\* A candle adds the swings that it confirms.
LEMMA SwingsGrow ==
    ASSUME NEW h, HistoryOK(h), NEW c, HistoryOK(Append(h, c))
    PROVE  SwingsIn(Append(h, c)) = SwingsIn(h) \cup ConfirmedAt(Append(h, c), Len(h))
<1> DEFINE g == Append(h, c)
           n == Len(h)
           Q(kind) == PivotsIn(g, kind, n)
           P(kind) == PivotsIn(h, kind, n - 1)
<1>1. n \in Nat /\ n - 1 \in Int /\ Len(g) - 1 = n
  BY Longer
<1>2. \A kind \in Kinds : \A p \in P(kind) : p \in Q(kind) /\ SwingAt(g, kind, p) = SwingAt(h, kind, p)
  BY <1>1, PivotsGrow, SwingStays
<1>3. \A kind \in Kinds : \A p \in Q(kind) : p \in P(kind) \/ p = n - Radius
  BY PivotsGrow
<1>4. SwingsIn(g) = UNION {{SwingAt(g, kind, p) : p \in Q(kind)} : kind \in Kinds}
  BY <1>1 DEF SwingsIn
<1>5. SwingsIn(h) = UNION {{SwingAt(h, kind, p) : p \in P(kind)} : kind \in Kinds}
  BY DEF SwingsIn
<1>6. ConfirmedAt(g, n) = {SwingAt(g, kind, n - Radius) : kind \in {k \in Kinds : n - Radius \in Q(k)}}
  BY DEF ConfirmedAt
<1> HIDE DEF P, Q
<1>7. ASSUME NEW s \in SwingsIn(g) PROVE s \in SwingsIn(h) \cup ConfirmedAt(g, n)
  <2>1. PICK kind \in Kinds : \E p \in Q(kind) : s = SwingAt(g, kind, p)
    BY <1>4
  <2>2. PICK p \in Q(kind) : s = SwingAt(g, kind, p)
    BY <2>1
  <2> HIDE DEF g, n
  <2>3. CASE p \in P(kind)
    BY <1>2, <1>5, <2>2, <2>3
  <2>4. CASE p = n - Radius
    BY <1>6, <2>2, <2>4
  <2> QED BY <1>3, <2>2, <2>3, <2>4
<1>8. SwingsIn(h) \subseteq SwingsIn(g)
  <2> HIDE DEF g, n
  <2> QED BY <1>2, <1>4, <1>5
<1>9. ConfirmedAt(g, n) \subseteq SwingsIn(g)
  <2> HIDE DEF g, n
  <2> QED BY <1>4, <1>6
<1> QED BY <1>7, <1>8, <1>9

\* A swing confirmed by the newest candle is newer than all of its kind.
LEMMA FreshIs ==
    ASSUME NEW h, HistoryOK(h), NEW c, HistoryOK(Append(h, c)),
           NEW s \in ConfirmedAt(Append(h, c), Len(h))
    PROVE  /\ s \in Swing /\ s.pivot = Len(h) - Radius /\ s.available = c.available
           /\ s.confirmed = Len(h) /\ s.kind \in Kinds
           /\ s.pivot \in PivotsIn(Append(h, c), s.kind, Len(h))
           /\ s = SwingAt(Append(h, c), s.kind, s.pivot)
           /\ \A w \in SwingsIn(h) : w.pivot < s.pivot /\ w.available <= s.available
<1> DEFINE g == Append(h, c)
           n == Len(h)
<1>1. n \in Nat /\ n - 1 \in Int /\ Len(g) - 1 = n /\ Radius \in Nat \ {0} /\ g[n + 1] = c
      /\ \A i \in 1 .. n : g[i] = h[i]
  BY Longer, RadiusIs
<1>2. PICK kind \in Kinds : n - Radius \in PivotsIn(g, kind, n) /\ s = SwingAt(g, kind, n - Radius)
  BY DEF ConfirmedAt
<1>3. /\ s \in Swing /\ s.pivot = n - Radius /\ s.kind = kind /\ s.confirmed = n
      /\ s.available = c.available
  <2>1. n - Radius \in PivotsIn(g, kind, Len(g) - 1)
    BY <1>1, <1>2
  <2>2. n - Radius + Radius = n
    BY <1>1
  <2> DEFINE q == n - Radius
  <2>3. HistoryOK(g) /\ kind \in Kinds /\ q \in PivotsIn(g, kind, Len(g) - 1)
    BY <1>2, <2>1
  <2> HIDE DEF g, q
  <2>4. /\ SwingAt(g, kind, q) \in Swing /\ SwingAt(g, kind, q).pivot = q
        /\ SwingAt(g, kind, q).kind = kind /\ SwingAt(g, kind, q).confirmed = q + Radius
        /\ SwingAt(g, kind, q).available = g[q + Radius + 1].available
    BY <2>3, SwingIs
  <2> QED BY <1>1, <1>2, <2>2, <2>4 DEF q
<1>4. ASSUME NEW w \in SwingsIn(h) PROVE w.pivot < s.pivot /\ w.available <= s.available
  <2>1. /\ w.pivot \in Nat /\ w.pivot + Radius <= n - 1 /\ n > 0 /\ w.available <= h[n].available
        /\ w.available \in Nat
    BY SwingsAre DEF Swing
  <2>2. h[n].available <= c.available /\ h[n].available \in Nat /\ c.available \in Nat
    <3>1. n \in 1 .. Len(g) /\ n + 1 \in 1 .. Len(g) /\ n <= n + 1 /\ n - 1 \in 0 .. Len(h) - 1
          /\ (n - 1) + 1 = n
      BY <1>1, <2>1
    <3>2. g[n].available <= g[n + 1].available
      BY <3>1 DEF HistoryOK
    <3>3. h[n] \in Candle /\ c \in Candle
      BY <3>1, CandlesAre, Longer
    <3>4. g[n] = h[n]
      BY <1>1, <2>1
    <3> QED BY <1>1, <3>2, <3>3, <3>4, CandleTypes
  <2>3. s.pivot = n - Radius /\ s.available = c.available /\ n \in Nat /\ Radius \in Nat
    BY <1>1, <1>3
  <2> HIDE DEF n, g
  <2>4. w.pivot < s.pivot
    BY <2>1, <2>3
  <2>5. w.available <= s.available
    BY <2>1, <2>2, <2>3
  <2> QED BY <2>4, <2>5
<1> QED BY <1>2, <1>3, <1>4

\* A price is in the band around itself, and what does not exceed it does not breach it.
LEMMA BandAround ==
    ASSUME NEW price \in Nat, NEW x \in Nat
    PROVE  /\ price * (10000 - ToleranceBps) <= price * 10000
           /\ price * 10000 <= price * (10000 + ToleranceBps)
           /\ x <= price => ~(x * 10000 > price * (10000 + ToleranceBps))
           /\ x >= price => ~(x * 10000 < price * (10000 - ToleranceBps))
<1>1. ToleranceBps \in Nat /\ ToleranceBps <= 10000
  BY ToleranceAssumption
<1>2. price * ToleranceBps \in Nat
  BY <1>1
<1>3. /\ price * (10000 - ToleranceBps) = price * 10000 - price * ToleranceBps
      /\ price * (10000 + ToleranceBps) = price * 10000 + price * ToleranceBps
  BY <1>1
<1>4. price * 10000 \in Nat /\ x * 10000 \in Nat
  OBVIOUS
<1>5. x <= price => x * 10000 <= price * 10000
  OBVIOUS
<1>6. x >= price => x * 10000 >= price * 10000
  OBVIOUS
<1> DEFINE a == price * ToleranceBps
           b == price * 10000
           d == x * 10000
           lo == price * (10000 - ToleranceBps)
           hi == price * (10000 + ToleranceBps)
<1>7. a \in Nat /\ b \in Nat /\ d \in Nat /\ lo = b - a /\ hi = b + a
  BY <1>2, <1>3, <1>4
<1>8. (x <= price => d <= b) /\ (x >= price => d >= b)
  BY <1>5, <1>6
<1> HIDE DEF a, b, d, lo, hi
<1>9. lo <= b /\ b <= hi /\ (x <= price => ~(d > hi)) /\ (x >= price => ~(d < lo))
  BY <1>7, <1>8
<1> QED BY <1>9 DEF b, d, lo, hi

\* No candle has breached the band of the newest swing yet.
LEMMA FreshIntact ==
    ASSUME NEW g, HistoryOK(g), NEW kind \in Kinds, NEW q \in PivotsIn(g, kind, Len(g) - 1),
           q + Radius = Len(g) - 1, NEW p, p.anchor = SwingAt(g, kind, q)
    PROVE  IntactIn(p, g) /\ InBand(p, p.anchor.price)
<1>1. Len(g) \in Nat /\ Radius \in Nat /\ Len(g) - 1 \in Int
  BY RadiusIs DEF HistoryOK
<1>2. /\ q \in Nat /\ q \in 0 .. Len(g) - 1
      /\ \A i \in (q - Radius .. q + Radius) \ {q} :
            Beyond(kind, Extreme(g[q + 1], kind), Extreme(g[i + 1], kind))
  BY <1>1, PivotsAre DEF PivotsIn, FractalIn
<1>3. p.anchor.kind = kind /\ p.anchor.pivot = q /\ p.anchor.price = Extreme(g[q + 1], kind)
  BY DEF SwingAt
<1>4. Extreme(g[q + 1], kind) \in Nat
  BY <1>2, CandlesAre, CandleTypes
<1>5. InBand(p, p.anchor.price)
  BY <1>3, <1>4, BandAround DEF InBand, Lower, Upper, Scaled
<1>6. ASSUME NEW i \in q .. Len(g) - 1 PROVE ~Breached(p, g[i + 1])
  <2>1. i \in 0 .. Len(g) - 1 /\ i \in q - Radius .. q + Radius
    BY <1>1, <1>2
  <2>2. g[i + 1] \in Candle
    BY <2>1, CandlesAre
  <2>3. Extreme(g[i + 1], kind) \in Nat /\ g[i + 1].high \in Nat /\ g[i + 1].low \in Nat
    BY <2>2, CandleTypes
  <2>4. i # q => Beyond(kind, Extreme(g[q + 1], kind), Extreme(g[i + 1], kind))
    BY <1>2, <2>1
  <2>5. CASE kind = "high"
    <3>1. Extreme(g[i + 1], kind) = g[i + 1].high /\ g[i + 1].high <= Extreme(g[q + 1], kind)
      BY <1>4, <2>3, <2>4, <2>5 DEF Extreme, Beyond
    <3>2. ~(g[i + 1].high * 10000 > Extreme(g[q + 1], kind) * (10000 + ToleranceBps))
      BY <1>4, <2>3, <3>1, BandAround
    <3> QED BY <1>3, <2>5, <3>2 DEF Breached, Scaled, Upper
  <2>6. CASE kind # "high"
    <3>1. Extreme(g[i + 1], kind) = g[i + 1].low /\ g[i + 1].low >= Extreme(g[q + 1], kind)
      BY <1>4, <2>3, <2>4, <2>6 DEF Extreme, Beyond
    <3>2. ~(g[i + 1].low * 10000 < Extreme(g[q + 1], kind) * (10000 - ToleranceBps))
      BY <1>4, <2>3, <3>1, BandAround
    <3> QED BY <1>3, <2>6, <3>2 DEF Breached, Scaled, Lower
  <2> QED BY <2>5, <2>6
<1> QED BY <1>3, <1>5, <1>6 DEF IntactIn

\* What a pool is.
LEMMA PoolIs ==
    ASSUME NEW W, W \subseteq Swing, NEW p, PoolOK(p, W)
    PROVE  /\ p = [anchor |-> p.anchor, members |-> p.members, available |-> p.available]
           /\ p.anchor \in W /\ p.members \in Seq(W) /\ p.available \in Nat
           /\ Len(p.members) \in Nat /\ Len(p.members) > 0 /\ Len(p.members) \in 1 .. Len(p.members)
           /\ 1 \in 1 .. Len(p.members)
           /\ \A i \in 1 .. Len(p.members) : p.members[i] \in W /\ p.members[i].kind = p.anchor.kind
           /\ Members(p) \subseteq W /\ p.anchor \in Members(p)
           /\ \A s \in Members(p) : s.available <= p.available /\ s.kind = p.anchor.kind
<1>1. /\ p \in [anchor : W, members : Seq(W), available : Nat] /\ p.members # <<>>
      /\ p.members[1] = p.anchor
  BY DEF PoolOK
<1>2. /\ p = [anchor |-> p.anchor, members |-> p.members, available |-> p.available]
      /\ p.anchor \in W /\ p.members \in Seq(W) /\ p.available \in Nat
  BY <1>1
<1>3. Len(p.members) \in Nat /\ Len(p.members) > 0 /\ \A i \in 1 .. Len(p.members) : p.members[i] \in W
  BY <1>1, <1>2
<1>4. 1 \in 1 .. Len(p.members) /\ Len(p.members) \in 1 .. Len(p.members)
  BY <1>3
<1> QED BY <1>1, <1>2, <1>3, <1>4 DEF PoolOK, Members

\* More swings leave a pool what it is.
LEMMA PoolWidens ==
    ASSUME NEW W, W \subseteq Swing, NEW V, W \subseteq V, NEW p, PoolOK(p, W) PROVE PoolOK(p, V)
<1>1. p.members \in Seq(V)
  <2>1. p.members \in Seq(W)
    BY PoolIs
  <2>2. p.members = [i \in 1 .. Len(p.members) |-> p.members[i]] /\ Len(p.members) \in Nat
        /\ \A i \in 1 .. Len(p.members) : p.members[i] \in V
    BY <2>1
  <2>3. [i \in 1 .. Len(p.members) |-> p.members[i]] \in Seq(V)
    BY <2>2
  <2> QED BY <2>2, <2>3
<1>2. p \in [anchor : V, members : Seq(V), available : Nat]
  <2>1. /\ p = [anchor |-> p.anchor, members |-> p.members, available |-> p.available]
        /\ p.anchor \in V /\ p.available \in Nat
    BY PoolIs
  <2> QED BY <1>1, <2>1
<1> QED BY <1>2 DEF PoolOK

\* Pools that a new candle breaches have ended by it.
LEMMA PoolsAge ==
    ASSUME NEW h, HistoryOK(h), NEW c, HistoryOK(Append(h, c)), NEW ps, NEW ended,
           PoolsOK(ps, ended, SwingsIn(h), h)
    PROVE  LET kept == {p \in ps : ~Breached(p, c)}
           IN  /\ PoolsOK(kept, ended \cup (ps \ kept), SwingsIn(h), Append(h, c))
               /\ \A p \in ps \ kept : /\ Breached(p, c) /\ p.anchor \in SwingsIn(h) /\ Len(h) > 0
                                       /\ \A i \in p.anchor.pivot .. Len(h) - 1 :
                                             ~Breached(p, Append(h, c)[i + 1])
<1> DEFINE g == Append(h, c)
           n == Len(h)
           W == SwingsIn(h)
           kept == {p \in ps : ~Breached(p, c)}
<1>1. /\ n \in Nat /\ Len(g) = n + 1 /\ g[n + 1] = c /\ W \subseteq Swing
      /\ \A i \in 1 .. n : g[i] = h[i]
  BY Longer, SwingsAre
<1>2. ASSUME NEW p \in ps \cup ended
      PROVE  /\ p.anchor \in W /\ p.anchor.pivot \in 0 .. n - 1 /\ n > 0
             /\ IntactIn(p, g) <=> IntactIn(p, h) /\ ~Breached(p, c)
             /\ IntactIn(p, h) => \A i \in p.anchor.pivot .. n - 1 : ~Breached(p, g[i + 1])
  <2>1. PoolOK(p, W)
    BY DEF PoolsOK
  <2>2. p.anchor \in W
    BY <1>1, <2>1, PoolIs
  <2>3. p.anchor.pivot \in 0 .. n - 1 /\ n > 0
    BY <2>2, SwingsAre
  <2> DEFINE a == p.anchor.pivot
  <2> HIDE DEF a, n, W, g
  <2>4. a \in Nat /\ a <= n - 1
    BY <2>3, <1>1 DEF a
  <2>5. a .. Len(g) - 1 = (a .. n - 1) \cup {n} /\ \A i \in a .. n - 1 : i + 1 \in 1 .. n
    BY <1>1, <2>4
  <2>6. \A i \in a .. n - 1 : g[i + 1] = h[i + 1]
    BY <1>1, <2>5
  <2>7. IntactIn(p, g) <=> IntactIn(p, h) /\ ~Breached(p, c)
    BY <1>1, <2>5, <2>6 DEF IntactIn, a, n
  <2>8. IntactIn(p, h) => \A i \in a .. n - 1 : ~Breached(p, g[i + 1])
    BY <2>6 DEF IntactIn, a, n
  <2> QED BY <2>2, <2>3, <2>7, <2>8 DEF a
<1>3. kept \subseteq ps /\ kept \cup (ended \cup (ps \ kept)) = ps \cup ended
  OBVIOUS
<1>4. \A p \in kept : IntactIn(p, g)
  BY <1>2 DEF PoolsOK
<1>5. \A p \in ended \cup (ps \ kept) : ~IntactIn(p, g)
  BY <1>2 DEF PoolsOK
<1>6. IsFiniteSet(kept)
  BY <1>3, FS_Subset DEF PoolsOK
<1>7. \A p \in ps \ kept : IntactIn(p, h) /\ Breached(p, c)
  BY DEF PoolsOK
<1> HIDE DEF kept, g, n, W
<1>8. PoolsOK(kept, ended \cup (ps \ kept), W, g)
  BY <1>3, <1>4, <1>5, <1>6 DEF PoolsOK, W
<1> QED BY <1>2, <1>7, <1>8 DEF kept, g, n, W

\* Of pools that swings anchor there is an oldest.
LEMMA OldestIs ==
    ASSUME NEW ps, ps # {}, \A p \in ps : p.anchor.pivot \in Nat PROVE Oldest(ps) \in ps
<1> DEFINE T == {p.anchor.pivot : p \in ps}
<1>1. T \subseteq Nat /\ T # {}
  OBVIOUS
<1>2. PICK t \in T : \A y \in T : t <= y
  BY <1>1, LeastNatural
<1>3. PICK p \in ps : t = p.anchor.pivot
  BY <1>2
<1>4. \A q \in ps : p.anchor.pivot <= q.anchor.pivot
  BY <1>2, <1>3
<1> QED BY <1>3, <1>4 DEF Oldest

\* A swing that starts a pool, or joins one, is in that one alone.
LEMMA JoinedKeeps ==
    ASSUME NEW h, NEW W, W \subseteq Swing, NEW ps, NEW ended, PoolsOK(ps, ended, W, h),
           NEW s \in Swing, \A w \in W : w.kind = s.kind => w.pivot < s.pivot /\ w.available <= s.available,
           \A p : p.anchor = s => IntactIn(p, h) /\ InBand(p, s.price)
    PROVE  PoolsOK(Joined(ps, s), ended, W \cup {s}, h)
<1> DEFINE V == W \cup {s}
           M == Matching(ps, s)
           P == ps \cup ended
<1>1. /\ (\A p \in P : PoolOK(p, W)) /\ (\A p \in ps : IntactIn(p, h))
      /\ (\A p \in ended : ~IntactIn(p, h)) /\ (\A w \in W : \E p \in P : Holds(p, P, w))
      /\ IsFiniteSet(ps)
  BY DEF PoolsOK
<1>2. \A p \in P : PoolOK(p, V) /\ Members(p) \subseteq W /\ p.anchor \in W
  BY <1>1, PoolWidens, PoolIs
<1>3. s \notin W /\ s.pivot \in Nat /\ s.available \in Nat /\ s.kind \in Kinds
  BY DEF Swing
<1>4. CASE M = {}
  <2> DEFINE q == Started(s)
  <2>1. Joined(ps, s) = ps \cup {q}
    BY <1>4 DEF Joined
  <2>2. q = [anchor |-> s, members |-> <<s>>, available |-> s.available]
    BY DEF Started
  <2>3. IntactIn(q, h) /\ InBand(q, s.price) /\ q.anchor = s
    BY <2>2
  <2>4. PoolOK(q, V)
    <3>1. <<s>> \in Seq(V) /\ Len(<<s>>) = 1 /\ <<s>>[1] = s /\ <<s>> # <<>>
      OBVIOUS
    <3> HIDE DEF V
    <3>2. s \in V
      BY DEF V
    <3>3. q \in [anchor : V, members : Seq(V), available : Nat]
      BY <1>3, <2>2, <3>1, <3>2
    <3>4. s.available <= s.available
      BY <1>3
    <3> HIDE DEF q
    <3> QED BY <2>2, <2>3, <3>1, <3>3, <3>4 DEF PoolOK
  <2>5. Members(q) = {s}
    BY <2>2 DEF Members
  <2> HIDE DEF q, V
  <2>6. \A p \in (ps \cup {q}) \cup ended : p \in P \/ p = q
    OBVIOUS
  <2>7. ASSUME NEW w \in W
        PROVE  \E p \in (ps \cup {q}) \cup ended : Holds(p, (ps \cup {q}) \cup ended, w)
    <3>1. PICK p \in P : Holds(p, P, w)
      BY <1>1
    <3>2. w # s
      BY <1>3
    <3>3. Holds(p, (ps \cup {q}) \cup ended, w)
      BY <2>5, <2>6, <3>1, <3>2 DEF Holds
    <3> QED BY <3>1, <3>3
  <2>8. Holds(q, (ps \cup {q}) \cup ended, s)
    BY <1>2, <1>3, <2>5, <2>6 DEF Holds
  <2>9. IsFiniteSet(ps \cup {q})
    BY <1>1, FS_AddElement
  <2>10. PoolsOK(ps \cup {q}, ended, V, h)
    <3>1. \A w \in V : \E p \in (ps \cup {q}) \cup ended : Holds(p, (ps \cup {q}) \cup ended, w)
      BY <2>7, <2>8 DEF V
    <3>2. \A p \in (ps \cup {q}) \cup ended : PoolOK(p, V)
      BY <1>2, <2>4, <2>6
    <3> QED BY <1>1, <2>3, <2>9, <3>1, <3>2 DEF PoolsOK
  <2> QED BY <2>1, <2>10 DEF V
<1>5. CASE M # {}
  <2> DEFINE p == Oldest(M)
             q == Extended(p, s)
             R == (ps \ {p}) \cup {q}
  <2>1. p \in ps /\ p.anchor.kind = s.kind /\ InBand(p, s.price)
    <3>1. M \subseteq ps /\ \A r \in M : r.anchor.kind = s.kind /\ InBand(r, s.price)
      BY DEF Matching
    <3>2. \A r \in M : r.anchor.pivot \in Nat
      BY <1>2, <3>1 DEF Swing
    <3> HIDE DEF M
    <3>3. p \in M
      BY <1>5, <3>2, OldestIs
    <3> QED BY <3>1, <3>3
  <2>2. Joined(ps, s) = R
    BY <1>5 DEF Joined
  <2> HIDE DEF p, M
  <2>3. PoolOK(p, W) /\ p \in P
    BY <1>1, <2>1
  <2>4. /\ p.anchor \in W /\ p.members \in Seq(W) /\ Len(p.members) \in Nat /\ Len(p.members) > 0
        /\ (\A i \in 1 .. Len(p.members) : p.members[i] \in W /\ p.members[i].kind = s.kind)
        /\ p.members[1] = p.anchor
    BY <2>1, <2>3, PoolIs DEF PoolOK
  <2> DEFINE m == Append(p.members, s)
             k == Len(p.members)
  <2>5. /\ Len(m) = k + 1 /\ m[k + 1] = s /\ \A i \in 1 .. k : m[i] = p.members[i]
    BY <2>4, SeqIs, AppendIs
  <2>6. m \in Seq(V)
    <3>1. p.members \in Seq(V)
      BY <1>2, <2>3 DEF PoolOK
    <3>2. s \in V
      OBVIOUS
    <3> HIDE DEF V
    <3> QED BY <3>1, <3>2
  <2>7. q = [anchor |-> p.anchor, members |-> m, available |-> s.available]
        /\ q.anchor = p.anchor /\ q.members = m /\ q.available = s.available
    BY DEF Extended
  <2>8. InBand(q, s.price) /\ (\A i \in 1 .. k : InBand(q, p.members[i].price))
        /\ (IntactIn(q, h) <=> IntactIn(p, h))
    BY <2>1, <2>3, <2>7 DEF InBand, Lower, Upper, IntactIn, Breached, PoolOK
  <2> HIDE DEF q, m
  <2>9. \A i \in 1 .. k : /\ p.members[i].pivot < s.pivot /\ p.members[i].available <= s.available
    BY <2>4
  <2>10. PoolOK(q, V)
    <3>1. q \in [anchor : V, members : Seq(V), available : Nat]
      BY <1>3, <2>4, <2>6, <2>7
    <3>2. m # <<>> /\ m[1] = p.anchor
      BY <2>4, <2>5
    <3>3. \A i \in 1 .. Len(m) : m[i].kind = p.anchor.kind /\ InBand(q, m[i].price)
                                 /\ m[i].available <= s.available
      <4> SUFFICES ASSUME NEW i \in 1 .. Len(m)
                   PROVE  m[i].kind = p.anchor.kind /\ InBand(q, m[i].price)
                          /\ m[i].available <= s.available
        OBVIOUS
      <4>1. CASE i \in 1 .. k
        BY <2>1, <2>4, <2>5, <2>8, <2>9, <4>1
      <4>2. CASE i \notin 1 .. k
        <5>1. i = k + 1
          BY <2>4, <2>5, <4>2
        <5> QED BY <1>3, <2>1, <2>5, <2>8, <5>1
      <4> QED BY <4>1, <4>2
    <3>4. \A i, j \in 1 .. Len(m) : i < j => m[i].pivot < m[j].pivot
      <4> SUFFICES ASSUME NEW i \in 1 .. Len(m), NEW j \in 1 .. Len(m), i < j
                   PROVE  m[i].pivot < m[j].pivot
        OBVIOUS
      <4>1. i \in 1 .. k /\ (j \in 1 .. k \/ j = k + 1)
        BY <2>4, <2>5
      <4>2. CASE j \in 1 .. k
        BY <2>3, <2>5, <4>1, <4>2 DEF PoolOK
      <4>3. CASE j = k + 1
        BY <2>5, <2>9, <4>1, <4>3
      <4> QED BY <4>1, <4>2, <4>3
    <3> QED BY <2>5, <2>7, <3>1, <3>2, <3>3, <3>4 DEF PoolOK
  <2>11. Members(q) = Members(p) \cup {s}
    <3>1. 1 .. Len(m) = (1 .. k) \cup {k + 1}
      BY <2>4, <2>5
    <3> QED BY <2>5, <2>7, <3>1 DEF Members
  <2>12. p \notin ended
    BY <1>1, <2>1
  <2>13. \A r \in R \cup ended : r = q \/ (r \in P /\ r # p)
    BY <2>12
  <2>14. \A r \in P : r # p => r \in R \cup ended
    OBVIOUS
  <2> HIDE DEF R, V, P
  <2>15. q \in R \cup ended
    BY DEF R
  <2>16. ASSUME NEW w \in W PROVE \E r \in R \cup ended : Holds(r, R \cup ended, w)
    <3>1. PICK r \in P : Holds(r, P, w)
      BY <1>1
    <3>2. w # s
      BY <1>3
    <3>3. CASE r = p
      <4>1. Holds(q, R \cup ended, w)
        BY <2>11, <2>13, <3>1, <3>3 DEF Holds
      <4> QED BY <2>15, <4>1
    <3>4. CASE r # p
      <4>1. w \notin Members(p)
        BY <2>3, <3>1, <3>4 DEF Holds
      <4>2. Holds(r, R \cup ended, w)
        BY <2>11, <2>13, <3>1, <3>2, <4>1 DEF Holds
      <4> QED BY <2>14, <3>1, <3>4, <4>2
    <3> QED BY <3>3, <3>4
  <2>17. Holds(q, R \cup ended, s)
    BY <1>2, <1>3, <2>11, <2>13 DEF Holds
  <2>18. IsFiniteSet(R)
    <3>1. IsFiniteSet(ps \ {p})
      BY <1>1, <2>1, FS_RemoveElement
    <3> QED BY <3>1, FS_AddElement DEF R
  <2>19. PoolsOK(R, ended, V, h)
    <3>1. \A w \in V : \E r \in R \cup ended : Holds(r, R \cup ended, w)
      BY <2>15, <2>16, <2>17 DEF V
    <3>2. \A r \in R \cup ended : PoolOK(r, V)
      BY <1>2, <2>10, <2>13
    <3>3. \A r \in R : IntactIn(r, h)
      BY <1>1, <2>1, <2>8 DEF R
    <3> QED BY <1>1, <2>18, <3>1, <3>2, <3>3 DEF PoolsOK
  <2> QED BY <2>2, <2>19 DEF V
<1> QED BY <1>4, <1>5

\* The swings of the newest frame.
LEMMA SwingsOfStep ==
    ASSUME LinkInv, StructureInv, NEW c, Step(c)
    PROVE  snapshot'.swings = ConfirmedAt(Append(Bars, c), Len(Bars))
<1>1. StructureInv'
  BY StructureStays
<1>2. Len(Bars) \in Nat /\ Now' = Len(Bars) /\ Bars' = Append(Bars, c)
  BY StepIs
<1>3. frames'[Len(Bars) + 1].swings = snapshot'.swings
  BY NewestFrame
<1>4. Len(Bars) \in 0 .. Len(Bars) /\ Indices' = 0 .. Len(Bars)
  BY <1>2 DEF Indices
<1> QED BY <1>1, <1>2, <1>3, <1>4 DEF StructureInv, At

\* The candle before the newest one.
LEMMA NewestInWindow ==
    ASSUME LinkInv, StructureInv, Len(Bars) > 0
    PROVE  window[Len(window)] = Bars[Len(Bars)] /\ Len(window) \in Nat /\ Len(window) > 0
<1>1. Len(Bars) \in Nat /\ FractalLength \in Nat /\ FractalLength >= 3
  BY BarsAre, FractalAssumption DEF LinkInv
<1>2. /\ Len(window) = (IF Len(Bars) <= FractalLength THEN Len(Bars) ELSE FractalLength)
      /\ \A i \in 1 .. Len(window) : window[i] = Bars[Len(Bars) - Len(window) + i]
  BY DEF StructureInv, IsTail
<1> DEFINE k == Len(window)
           n == Len(Bars)
<1>3. k \in Nat /\ k > 0 /\ n - k + k = n /\ k \in 1 .. k
  BY <1>1, <1>2
<1> QED BY <1>2, <1>3

\* Both sides of the newest swings join the pools.
LEMMA SwingsJoin ==
    ASSUME NEW h, HistoryOK(h), NEW c, HistoryOK(Append(h, c)), NEW ps, NEW ended,
           PoolsOK(ps, ended, SwingsIn(h), Append(h, c))
    PROVE  LET S == ConfirmedAt(Append(h, c), Len(h))
           IN  PoolsOK(JoinedKind(JoinedKind(ps, S, "high"), S, "low"), ended,
                       SwingsIn(Append(h, c)), Append(h, c))
<1> DEFINE g == Append(h, c)
           n == Len(h)
           S == ConfirmedAt(g, n)
           W == SwingsIn(h)
           U == {s \in S : s.kind = "high"}
           V == {s \in S : s.kind = "low"}
<1>1. W \subseteq Swing /\ S \subseteq Swing
  BY SwingsAre, FreshIs
<1>2. \A s \in S : \A w \in W : w.pivot < s.pivot /\ w.available <= s.available
  BY FreshIs
<1>3. ASSUME NEW s \in S, NEW p, p.anchor = s PROVE IntactIn(p, g) /\ InBand(p, s.price)
  <2>1. /\ s.pivot = n - Radius /\ s.kind \in Kinds /\ s = SwingAt(g, s.kind, s.pivot)
        /\ s.pivot \in PivotsIn(g, s.kind, n)
    BY <1>3, FreshIs
  <2>2. n \in Nat /\ Len(g) - 1 = n /\ Radius \in Nat
    BY Longer, RadiusIs
  <2>3. s.pivot \in PivotsIn(g, s.kind, Len(g) - 1) /\ s.pivot + Radius = Len(g) - 1
    BY <2>1, <2>2
  <2> HIDE DEF g, n, S
  <2> QED BY <1>3, <2>1, <2>3, FreshIntact DEF g
<1>4. ASSUME NEW kind \in Kinds
      PROVE  /\ (\E s \in S : s.kind = kind) => (CHOOSE s \in S : s.kind = kind) \in S
             /\ {s \in S : s.kind = kind} =
                  IF \E s \in S : s.kind = kind THEN {CHOOSE s \in S : s.kind = kind} ELSE {}
  <2> DEFINE x == SwingAt(g, kind, n - Radius)
  <2>1. /\ (\E s \in S : s.kind = kind) => x \in S /\ (CHOOSE s \in S : s.kind = kind) = x
        /\ \A s \in S : s.kind = kind => s = x
    BY ConfirmedOfKind
  <2>2. x.kind = kind
    BY DEF SwingAt
  <2> HIDE DEF x, S
  <2> QED BY <2>1, <2>2
<1>5. PoolsOK(JoinedKind(ps, S, "high"), ended, W \cup U, g)
  <2>1. CASE \E s \in S : s.kind = "high"
    <3> DEFINE s == CHOOSE t \in S : t.kind = "high"
    <3>1. s \in S /\ U = {s}
      BY <1>4, <2>1 DEF Kinds
    <3>2. JoinedKind(ps, S, "high") = Joined(ps, s)
      BY <2>1 DEF JoinedKind
    <3> HIDE DEF s, U, S, W, g
    <3>3. PoolsOK(Joined(ps, s), ended, W \cup {s}, g)
      <4>1. s \in Swing /\ (\A w \in W : w.pivot < s.pivot /\ w.available <= s.available)
            /\ \A p : p.anchor = s => IntactIn(p, g) /\ InBand(p, s.price)
        BY <1>1, <1>2, <1>3, <3>1
      <4>2. PoolsOK(ps, ended, W, g)
        BY DEF W, g
      <4> QED BY <1>1, <4>1, <4>2, JoinedKeeps
    <3> QED BY <3>1, <3>2, <3>3
  <2>2. CASE ~ \E s \in S : s.kind = "high"
    <3>1. JoinedKind(ps, S, "high") = ps
      BY <2>2 DEF JoinedKind
    <3>2. W \cup U = W
      BY <2>2
    <3> QED BY <3>1, <3>2
  <2> QED BY <2>1, <2>2
<1> DEFINE qs == JoinedKind(ps, S, "high")
<1>6. PoolsOK(JoinedKind(qs, S, "low"), ended, (W \cup U) \cup V, g)
  <2>1. CASE \E s \in S : s.kind = "low"
    <3> DEFINE s == CHOOSE t \in S : t.kind = "low"
    <3>1. s \in S /\ V = {s} /\ s.kind = "low"
      BY <1>4, <2>1 DEF Kinds
    <3>2. JoinedKind(qs, S, "low") = Joined(qs, s)
      BY <2>1 DEF JoinedKind
    <3>3. \A w \in U : w.kind # s.kind
      BY <3>1
    <3>4. U \subseteq S
      OBVIOUS
    <3> HIDE DEF s, U, S, W, g, qs
    <3>5. PoolsOK(Joined(qs, s), ended, (W \cup U) \cup {s}, g)
      <4>1. s \in Swing /\ (\A w \in W : w.pivot < s.pivot /\ w.available <= s.available)
            /\ \A p : p.anchor = s => IntactIn(p, g) /\ InBand(p, s.price)
        BY <1>1, <1>2, <1>3, <3>1
      <4>2. PoolsOK(qs, ended, W \cup U, g)
        BY <1>5 DEF qs
      <4>3. W \cup U \subseteq Swing
        BY <1>1, <3>4
      <4>4. \A w \in W \cup U : w.kind = s.kind => w.pivot < s.pivot /\ w.available <= s.available
        BY <3>3, <4>1
      <4> QED BY <4>1, <4>2, <4>3, <4>4, JoinedKeeps
    <3> QED BY <3>1, <3>2, <3>5
  <2>2. CASE ~ \E s \in S : s.kind = "low"
    <3>1. JoinedKind(qs, S, "low") = qs
      BY <2>2 DEF JoinedKind
    <3>2. (W \cup U) \cup V = W \cup U
      BY <2>2
    <3> HIDE DEF qs, U, V, W, S, g
    <3> QED BY <1>5, <3>1, <3>2 DEF qs
  <2> QED BY <2>1, <2>2
<1>7. (W \cup U) \cup V = SwingsIn(g)
  <2>1. SwingsIn(g) = W \cup S
    BY SwingsGrow
  <2>2. \A s \in S : s.kind \in Kinds
    BY FreshIs
  <2>3. \A s \in S : s \in U \/ s \in V
    BY <2>2 DEF Kinds
  <2> HIDE DEF S, W, g
  <2> QED BY <2>1, <2>3
<1> HIDE DEF U, V, W, S, g, qs, n
<1>8. PoolsOK(JoinedKind(qs, S, "low"), ended, SwingsIn(g), g)
  BY <1>6, <1>7
<1> QED BY <1>8 DEF qs, S, g, n

\* The updates of a candle: what it retires and what it touches.
LEMMA PoolsStay ==
    ASSUME LinkInv, StructureInv, PoolsInv, NEW c, Step(c) PROVE PoolsInv'
<1> DEFINE h == Bars
           g == Append(h, c)
           n == Len(h)
           S == ConfirmedAt(g, n)
           kept == {p \in pools : ~Breached(p, c)}
           touched == JoinedKind(JoinedKind(kept, S, "high"), S, "low")
           gone == pools \ kept
           b == window[Len(window)]
           retired == {Retirement(p, b, c) : p \in gone}
           active == {[pool |-> p, status |-> "active", reason |-> "none"] : p \in touched \ kept}
<1>1. /\ HistoryOK(h) /\ HistoryOK(g) /\ n \in Nat /\ Now' = n /\ Bars' = g /\ Now = n - 1
      /\ Len(g) = n + 1 /\ CandleOK(c, n) /\ \A i \in 1 .. n : frames'[i] = frames[i]
  BY StepIs
<1>2. g[n + 1] = c /\ \A i \in 1 .. n : g[i] = h[i]
  BY <1>1, Longer
<1>3. snapshot'.swings = S
  BY SwingsOfStep
<1>4. LiquidityUpdate(c)
  BY DEF Step, Analyze
<1>5. /\ pools' = touched /\ updates' = retired \cup active
      /\ sweeps' = {[pool |-> r.pool, index |-> c.index, available |-> c.available] :
                        r \in {q \in retired : q.status = "swept"}}
  BY <1>3, <1>4 DEF LiquidityUpdate
<1>6. PoolsOK(pools, Ended, SwingsIn(h), h)
  BY DEF PoolsInv
<1>7. /\ PoolsOK(kept, Ended \cup gone, SwingsIn(h), g)
      /\ \A p \in gone : /\ Breached(p, c) /\ p.anchor \in SwingsIn(h) /\ n > 0
                         /\ \A i \in p.anchor.pivot .. n - 1 : ~Breached(p, g[i + 1])
  BY <1>1, <1>6, PoolsAge
<1>8. PoolsOK(touched, Ended \cup gone, SwingsIn(g), g)
  BY <1>1, <1>7, SwingsJoin
<1>9. \A p : /\ Retirement(p, b, c).pool = p /\ Retirement(p, b, c).status \in {"swept", "invalidated"}
  BY DEF Retirement
<1>10. \A u \in active : u.status = "active" /\ u.pool \in touched
                         /\ u = [pool |-> u.pool, status |-> "active", reason |-> "none"]
  OBVIOUS
<1>11. {u.pool : u \in {v \in retired \cup active : v.status # "active"}} = gone
  <2>1. \A u \in retired : u.status # "active"
    BY <1>9
  <2>2. {v \in retired \cup active : v.status # "active"} = retired
    <3> HIDE DEF retired, active
    <3> QED BY <1>10, <2>1
  <2>3. {u.pool : u \in retired} = gone
    <3> HIDE DEF gone
    <3> QED BY <1>9
  <2> QED BY <2>2, <2>3
<1>12. Ended' = Ended \cup gone
  <2> DEFINE T(i) == {u.pool : u \in {v \in frames[i + 1].updates : v.status # "active"}}
             X(i) == {u.pool : u \in {v \in frames'[i + 1].updates : v.status # "active"}}
  <2>1. X(n) = gone
    <3>1. frames'[n + 1].updates = updates'
      BY NewestFrame
    <3> HIDE DEF retired, active, gone
    <3> QED BY <1>5, <1>11, <3>1
  <2>2. \A i \in 0 .. n - 1 : X(i) = T(i)
    <3>1. \A i \in 0 .. n - 1 : i + 1 \in 1 .. n
      BY <1>1
    <3> QED BY <1>1, <3>1
  <2>3. 0 .. n = (0 .. n - 1) \cup {n}
    BY <1>1
  <2>4. Ended = UNION {T(i) : i \in 0 .. n - 1}
    BY <1>1 DEF Ended, Terminal, Indices, At
  <2>5. Ended' = UNION {X(i) : i \in 0 .. n}
    BY <1>1 DEF Ended, Terminal, Indices, At
  <2> DEFINE F == [i \in 0 .. n |-> X(i)]
             G == [i \in 0 .. n - 1 |-> T(i)]
  <2> HIDE DEF X, T, gone, n
  <2>6. Ended' = UNION {F[i] : i \in 0 .. n} /\ Ended = UNION {G[i] : i \in 0 .. n - 1}
        /\ F[n] = X(n) /\ \A i \in 0 .. n - 1 : F[i] = G[i]
    BY <2>2, <2>3, <2>4, <2>5
  <2>b. n \in Nat
    BY <1>1 DEF n
  <2> HIDE DEF F, G
  <2>7. UNION {F[i] : i \in 0 .. n} = (UNION {G[i] : i \in 0 .. n - 1}) \cup F[n]
    BY <2>6, <2>b, OneMore
  <2> QED BY <2>1, <2>6, <2>7
<1>13. ASSUME NEW p \in gone PROVE EndsIn(Retirement(p, b, c), g)
  <2>1. /\ Breached(p, c) /\ n > 0
        /\ \A i \in p.anchor.pivot .. n - 1 : ~Breached(p, g[i + 1])
    BY <1>7, <1>13
  <2>2. b = h[n]
    BY <2>1, NewestInWindow
  <2>3. h[n] = g[n] /\ Len(g) - 1 = n /\ Len(g) >= 2 /\ Len(g) - 2 = n - 1
    BY <1>1, <1>2, <2>1
  <2> DEFINE u == Retirement(p, b, c)
  <2>4. u.pool = p /\ u = Retirement(p, g[Len(g) - 1], g[Len(g)])
    BY <1>1, <1>2, <1>9, <2>2, <2>3
  <2> HIDE DEF u, g
  <2> QED BY <1>1, <1>2, <2>1, <2>3, <2>4 DEF EndsIn, u
<1>14. \A u \in updates' :
          \/ u.pool \in pools' /\ u = [pool |-> u.pool, status |-> "active", reason |-> "none"]
          \/ EndsIn(u, g)
  <2>1. \A u \in retired : EndsIn(u, g)
    BY <1>13
  <2> HIDE DEF retired, active
  <2> QED BY <1>5, <1>10, <2>1
<1>15. IsFiniteSet(updates')
  <2>1. IsFiniteSet(pools) /\ IsFiniteSet(touched)
    BY <1>6, <1>8 DEF PoolsOK
  <2>2. IsFiniteSet(gone) /\ IsFiniteSet(touched \ kept)
    BY <2>1, FS_Subset
  <2> DEFINE f == [p \in gone |-> Retirement(p, b, c)]
             e == [p \in touched \ kept |-> [pool |-> p, status |-> "active", reason |-> "none"]]
  <2> HIDE DEF gone, touched, kept, b
  <2>a. retired = {f[p] : p \in gone} /\ active = {e[p] : p \in touched \ kept}
    OBVIOUS
  <2> HIDE DEF f, e, retired, active
  <2>3. IsFiniteSet(retired) /\ IsFiniteSet(active)
    BY <2>2, <2>a, ImageIs
  <2> HIDE DEF retired, active
  <2> QED BY <1>5, <2>3, FS_Union
<1>16. sweeps' = {[pool |-> u.pool, index |-> n, available |-> c.available] :
                    u \in {v \in updates' : v.status = "swept"}}
  <2>1. c.index = n
    BY <1>1 DEF CandleOK
  <2> HIDE DEF retired, active
  <2>2. {v \in updates' : v.status = "swept"} = {v \in retired : v.status = "swept"}
    BY <1>5, <1>10
  <2> QED BY <1>5, <2>1, <2>2
<1>17. Bar(Now)' = c
  BY <1>1, NewestFrame DEF Bar
<1> HIDE DEF h, g, n, touched, gone, kept
<1> QED BY <1>1, <1>5, <1>8, <1>12, <1>14, <1>15, <1>16, <1>17 DEF PoolsInv

\* The swings of every frame are swings of the history.
LEMMA ConfirmedInHistory ==
    ASSUME NEW h, HistoryOK(h), NEW i \in 0 .. Len(h) - 1 PROVE ConfirmedAt(h, i) \subseteq SwingsIn(h)
<1>1. \A kind \in Kinds : PivotsIn(h, kind, i) \subseteq PivotsIn(h, kind, Len(h) - 1)
  BY RadiusIs DEF PivotsIn, HistoryOK
<1> SUFFICES ASSUME NEW s \in ConfirmedAt(h, i) PROVE s \in SwingsIn(h)
  OBVIOUS
<1>2. PICK kind \in Kinds : i - Radius \in PivotsIn(h, kind, i) /\ s = SwingAt(h, kind, i - Radius)
  BY DEF ConfirmedAt
<1>3. i - Radius \in PivotsIn(h, kind, Len(h) - 1)
  BY <1>1, <1>2
<1> DEFINE q == i - Radius
<1> HIDE DEF q
<1> QED BY <1>2, <1>3 DEF SwingsIn, q

\* The invariant implies that pools end at their first breach.
LEMMA PoolsAgree ==
    ASSUME LinkInv, StructureInv, PoolsInv PROVE PoolsEndAtFirstBreach
<1> DEFINE h == Bars
           n == Len(h)
           W == SwingsIn(h)
           P == pools \cup Ended
<1>1. /\ HistoryOK(h) /\ n \in Nat /\ Now = n - 1 /\ Indices = 0 .. n - 1
      /\ \A i \in Indices : Bar(i) = h[i + 1]
  BY BarsAre DEF LinkInv, Indices
<1>2. /\ W \subseteq Swing /\ (\A p \in P : PoolOK(p, W)) /\ (\A p \in pools : IntactIn(p, h))
      /\ \A s \in W : \E p \in P : Holds(p, P, s)
  BY <1>1, SwingsAre DEF PoolsInv, PoolsOK
<1>3. \A p \in P : p.anchor \in W /\ p.anchor.pivot \in 0 .. n - 1 /\ p.anchor.pivot \in Indices
  BY <1>1, <1>2, PoolIs, SwingsAre
<1>4. ASSUME NEW p \in pools PROVE Breaches(p) = {}
  <2>1. \A i \in p.anchor.pivot .. Now : i \in Indices /\ i \in p.anchor.pivot .. n - 1
    BY <1>1, <1>3
  <2>2. \A i \in p.anchor.pivot .. Now : ~Breached(p, Bar(i))
    BY <1>1, <1>2, <2>1 DEF IntactIn
  <2> QED BY <2>2 DEF Breaches
<1>5. ASSUME NEW u \in updates, u.status # "active"
      PROVE  /\ Breaches(u.pool) = {Now}
             /\ (u.status = "swept") <=>
                  /\ \A s \in Members(u.pool) : s.available <= Now
                  /\ ~StartedOutside(u.pool, Bar(Now - 1), Bar(Now))
                  /\ Reclaimed(u.pool, Bar(Now))
  <2> DEFINE p == u.pool
  <2>1. EndsIn(u, h)
    <3>1. ~(u = [pool |-> u.pool, status |-> "active", reason |-> "none"])
      BY <1>5
    <3> QED BY <3>1 DEF PoolsInv
  <2>2. /\ n >= 2 /\ u = Retirement(p, h[n - 1], h[n]) /\ Breached(p, h[n])
        /\ \A i \in p.anchor.pivot .. n - 2 : ~Breached(p, h[i + 1])
    BY <2>1 DEF EndsIn
  <2>3. /\ Now \in Indices /\ Now - 1 \in Indices /\ Now + 1 = n /\ (Now - 1) + 1 = n - 1
        /\ Now - 1 = n - 2 /\ Now >= 0
    BY <1>1, <2>2
  <2>4. Bar(Now) = h[n] /\ Bar(Now - 1) = h[n - 1]
    BY <1>1, <2>3
  <2>5. p \in Ended
    <3>1. u \in Terminal(Now)
      BY <1>5, <2>3 DEF LinkInv, Terminal
    <3> QED BY <2>3, <3>1 DEF Ended
  <2>6. PoolOK(p, W) /\ p.anchor.pivot \in 0 .. n - 1
    BY <1>2, <1>3, <2>5
  <2>7. \A i \in p.anchor.pivot .. Now : i \in Indices /\ (i = Now \/ i \in p.anchor.pivot .. n - 2)
    BY <1>1, <2>3, <2>6
  <2>8. Now \in p.anchor.pivot .. Now
    BY <1>1, <2>3, <2>6
  <2>9. Breaches(p) = {Now}
    <3>1. \A i \in p.anchor.pivot .. Now : Breached(p, Bar(i)) <=> i = Now
      BY <1>1, <2>2, <2>4, <2>7
    <3> QED BY <2>8, <3>1 DEF Breaches
  <2>10. h[n].index = Now
    <3>1. CandleOK(h[Now + 1], Now)
      BY <1>1, <2>3, CandlesAre
    <3> QED BY <2>3, <3>1 DEF CandleOK
  <2>11. (\A s \in Members(p) : s.available <= Now) <=> ~(p.available > Now)
    <3>1. /\ p.available \in Nat /\ Len(p.members) \in 1 .. Len(p.members)
          /\ \A s \in Members(p) : s.available <= p.available /\ s \in W
      BY <1>2, <2>6, PoolIs
    <3>2. p.members[Len(p.members)] \in Members(p)
          /\ p.members[Len(p.members)].available = p.available
      BY <2>6, <3>1 DEF PoolOK, Members
    <3>3. \A s \in Members(p) : s.available \in Nat
      BY <1>2, <3>1 DEF Swing
    <3> QED BY <1>1, <3>1, <3>2, <3>3
  <2>12. u.status = (IF Failure(p, h[n - 1], h[n]) = "none" THEN "swept" ELSE "invalidated")
    <3> HIDE DEF p, n, h
    <3>1. u = Retirement(p, h[n - 1], h[n])
      BY <2>2
    <3>2. Retirement(p, h[n - 1], h[n]).status
            = (IF Failure(p, h[n - 1], h[n]) = "none" THEN "swept" ELSE "invalidated")
      BY DEF Retirement
    <3> QED BY <3>1, <3>2
  <2> HIDE DEF p, n, h
  <2>13. Failure(p, h[n - 1], h[n]) = "none" <=>
           ~(p.available > Now) /\ ~StartedOutside(p, h[n - 1], h[n]) /\ Reclaimed(p, h[n])
    BY <2>10 DEF Failure
  <2> QED BY <2>4, <2>9, <2>11, <2>12, <2>13 DEF p
<1>6. ASSUME NEW i \in Indices, NEW s \in At(i).swings
      PROVE  Cardinality({p \in P : s \in Members(p)}) = 1
  <2>1. At(i).swings = ConfirmedAt(h, i)
    BY DEF StructureInv
  <2>2. s \in W
    BY <1>1, <1>6, <2>1, ConfirmedInHistory
  <2>3. PICK p \in P : Holds(p, P, s)
    BY <1>2, <2>2
  <2> HIDE DEF P
  <2>4. {q \in P : s \in Members(q)} = {p}
    BY <2>3 DEF Holds
  <2> QED BY <2>4, FS_Singleton
<1>7. P = pools \cup UNION {{u.pool : u \in Terminal(k)} : k \in Indices}
  BY DEF Ended
<1> HIDE DEF P
<1> QED BY <1>4, <1>5, <1>6, <1>7 DEF PoolsEndAtFirstBreach

-----------------------------------------------------------------------------
(* The dealing range and its retracement.                                  *)

\* The newest swing of a kind.
LEMMA EndpointIs ==
    ASSUME NEW h, HistoryOK(h), NEW kind \in WithPivots(h, Len(h) - 1)
    PROVE  /\ EndpointIn(h, kind) \in Swing /\ EndpointIn(h, kind).kind = kind /\ kind \in Kinds
           /\ EndpointIn(h, kind).pivot = NewestIn(h, kind, Len(h) - 1)
           /\ NewestIn(h, kind, Len(h) - 1) \in PivotsIn(h, kind, Len(h) - 1)
           /\ NewestIn(h, kind, Len(h) - 1) \in 0 .. Len(h) - 1
           /\ EndpointIn(h, kind).confirmed = NewestIn(h, kind, Len(h) - 1) + Radius
           /\ EndpointIn(h, kind).confirmed \in 0 .. Len(h) - 1
           /\ EndpointIn(h, kind).price = Extreme(h[NewestIn(h, kind, Len(h) - 1) + 1], kind)
           /\ EndpointIn(h, kind).available = h[EndpointIn(h, kind).confirmed + 1].available
           /\ EndpointIn(h, kind) \in SwingsIn(h)
<1> DEFINE p == NewestIn(h, kind, Len(h) - 1)
           i == Len(h) - 1
<1>1. i \in Int /\ kind \in Kinds /\ PivotsIn(h, kind, i) # {}
  BY DEF WithPivots, HistoryOK
<1>2. p \in PivotsIn(h, kind, i)
  BY <1>1, NewestIs
<1>3. p \in 0 .. Len(h) - 1 /\ p + Radius \in 0 .. Len(h) - 1
  BY <1>1, <1>2, PivotsAre
<1>4. EndpointIn(h, kind) = SwingAt(h, kind, p)
  BY DEF EndpointIn
<1>5. SwingAt(h, kind, p) \in SwingsIn(h)
  BY <1>1, <1>2 DEF SwingsIn
<1> HIDE DEF p, i
<1>6. /\ SwingAt(h, kind, p) \in Swing /\ SwingAt(h, kind, p).kind = kind
      /\ SwingAt(h, kind, p).pivot = p /\ SwingAt(h, kind, p).confirmed = p + Radius
      /\ SwingAt(h, kind, p).price = Extreme(h[p + 1], kind)
      /\ SwingAt(h, kind, p).available = h[p + Radius + 1].available
  BY <1>1, <1>2, SwingIs DEF i
<1> QED BY <1>1, <1>2, <1>3, <1>4, <1>5, <1>6 DEF p, i

\* The pair of endpoints is confirmed when the newest swings span a range.
LEMMA PairIs ==
    ASSUME NEW h, HistoryOK(h)
    PROVE  /\ PairStatus(EndpointsIn(h)) = "confirmed" <=> SpanIn(h)
           /\ WithPivots(h, Len(h) - 1) = Kinds =>
                /\ Of("low", EndpointsIn(h)) = EndpointIn(h, "low")
                /\ Of("high", EndpointsIn(h)) = EndpointIn(h, "high")
           /\ SpanIn(h) => EndpointsIn(h) = {EndpointIn(h, "low"), EndpointIn(h, "high")}
<1> DEFINE K == WithPivots(h, Len(h) - 1)
           E(kind) == EndpointIn(h, kind)
           P == EndpointsIn(h)
<1>1. P = {E(kind) : kind \in K} /\ K \subseteq Kinds
  BY DEF EndpointsIn, WithPivots
<1>2. \A kind \in K : E(kind).kind = kind /\ E(kind).price \in Nat
  BY EndpointIs DEF Swing
<1>3. Kinds = {"low", "high"}
  BY DEF Kinds
<1> HIDE DEF E, K, P
<1>4. {e.kind : e \in P} = K
  BY <1>1, <1>2
<1>5. \A kind \in K : Of(kind, P) = E(kind)
  <2> SUFFICES ASSUME NEW kind \in K PROVE Of(kind, P) = E(kind)
    OBVIOUS
  <2>1. E(kind) \in P /\ \A e \in P : e.kind = kind <=> e = E(kind)
    BY <1>1, <1>2
  <2> QED BY <2>1 DEF Of
<1>6. K = Kinds => Of("low", P) = E("low") /\ Of("high", P) = E("high")
                   /\ E("low").price \in Nat /\ E("high").price \in Nat
  BY <1>2, <1>3, <1>5
<1>7. PairStatus(P) = "confirmed" <=>
        /\ K = Kinds /\ E("low").pivot # E("high").pivot /\ E("high").price > E("low").price
  BY <1>4, <1>6 DEF PairStatus
<1>8. K = Kinds => P = {E("low"), E("high")}
  BY <1>1, <1>3
<1> QED BY <1>6, <1>7, <1>8 DEF SpanIn, E, K, P

\* The endpoints follow the pivots.
LEMMA EndpointsFollow ==
    ASSUME NEW h, HistoryOK(h), NEW c, HistoryOK(Append(h, c)), endpoints = EndpointsIn(h)
    PROVE  LET g == Append(h, c)
               S == ConfirmedAt(g, Len(h))
           IN  /\ EndpointsAfter(S) = EndpointsIn(g)
               /\ \A kind \in WithPivots(g, Len(h)) :
                     \/ EndpointIn(g, kind).confirmed = Len(h)
                     \/ kind \in WithPivots(h, Len(h) - 1) /\ EndpointIn(g, kind) = EndpointIn(h, kind)
<1> DEFINE g == Append(h, c)
           n == Len(h)
           S == ConfirmedAt(g, n)
           Fresh == {kind \in Kinds : n - Radius \in PivotsIn(g, kind, n)}
           Old == WithPivots(h, n - 1) \ Fresh
<1>1. n \in Nat /\ n - 1 \in Int /\ Len(g) - 1 = n /\ Radius \in Nat
  BY Longer, RadiusIs
<1>2. ASSUME NEW kind \in Old PROVE EndpointIn(g, kind) = EndpointIn(h, kind)
  <2>1. kind \in Kinds /\ kind \in WithPivots(h, n - 1) /\ n - Radius \notin PivotsIn(g, kind, n)
    BY <1>2 DEF WithPivots
  <2>2. NewestIn(h, kind, n - 1) \in PivotsIn(h, kind, n - 1)
    BY <1>1, <2>1, NewestIs DEF WithPivots
  <2>3. NewestIn(g, kind, n) = NewestIn(h, kind, n - 1)
    BY <2>1, NoNewPivot
  <2>4. SwingAt(g, kind, NewestIn(h, kind, n - 1)) = SwingAt(h, kind, NewestIn(h, kind, n - 1))
    BY <1>1, <2>1, <2>2, SwingStays
  <2> HIDE DEF g
  <2> QED BY <1>1, <2>3, <2>4 DEF EndpointIn
<1>3. ASSUME NEW kind \in Fresh
      PROVE  EndpointIn(g, kind) = SwingAt(g, kind, n - Radius) /\ EndpointIn(g, kind).confirmed = n
  <2>1. NewestIn(g, kind, n) = n - Radius
    BY <1>3, NewPivot
  <2>2. EndpointIn(g, kind) = SwingAt(g, kind, n - Radius)
    <3> HIDE DEF g
    <3> QED BY <1>1, <2>1 DEF EndpointIn
  <2>3. n - Radius + Radius = n
    BY <1>1
  <2> HIDE DEF g, n
  <2> QED BY <2>2, <2>3 DEF SwingAt
<1>4. WithPivots(g, n) = Old \cup Fresh
  <2>1. ASSUME NEW kind \in Kinds PROVE kind \in WithPivots(g, n) <=> kind \in Old \cup Fresh
    <3>1. CASE n - Radius \in PivotsIn(g, kind, n)
      BY <3>1 DEF WithPivots
    <3>2. CASE n - Radius \notin PivotsIn(g, kind, n)
      BY <3>2, NoNewPivot DEF WithPivots
    <3> QED BY <3>1, <3>2
  <2> QED BY <2>1 DEF WithPivots
<1>5. {e \in endpoints : \A s \in S : s.kind # e.kind} = {EndpointIn(g, kind) : kind \in Old}
  <2>1. \A kind \in WithPivots(h, n - 1) : EndpointIn(h, kind).kind = kind
    BY EndpointIs
  <2>2. \A kind \in WithPivots(h, n - 1) : (\A s \in S : s.kind # kind) <=> kind \in Old
    BY ConfirmedOfKind DEF WithPivots
  <2>3. endpoints = {EndpointIn(h, kind) : kind \in WithPivots(h, n - 1)} /\ Old \subseteq WithPivots(h, n - 1)
    BY DEF EndpointsIn
  <2> HIDE DEF S, Old, g, n
  <2>4. ASSUME NEW e \in endpoints, \A s \in S : s.kind # e.kind
        PROVE  e \in {EndpointIn(g, kind) : kind \in Old}
    <3>1. PICK kind \in WithPivots(h, n - 1) : e = EndpointIn(h, kind)
      BY <2>3
    <3>2. \A s \in S : s.kind # kind
      BY <2>1, <2>4, <3>1
    <3> QED BY <1>2, <2>2, <3>1, <3>2
  <2>5. ASSUME NEW kind \in Old
        PROVE  EndpointIn(g, kind) \in endpoints /\ \A s \in S : s.kind # EndpointIn(g, kind).kind
    BY <1>2, <2>1, <2>2, <2>3
  <2> QED BY <2>4, <2>5
<1>6. S = {EndpointIn(g, kind) : kind \in Fresh}
  <2>1. S = {SwingAt(g, kind, n - Radius) : kind \in Fresh}
    BY DEF ConfirmedAt
  <2> HIDE DEF S, Fresh, g, n
  <2> QED BY <1>3, <2>1
<1>7. EndpointsIn(g) = {EndpointIn(g, kind) : kind \in WithPivots(g, n)}
  <2> HIDE DEF g
  <2> QED BY <1>1 DEF EndpointsIn
<1>8. Old \subseteq WithPivots(h, n - 1)
  OBVIOUS
<1> HIDE DEF S, Fresh, Old, g, n
<1>9. EndpointsAfter(S) = EndpointsIn(g)
  BY <1>4, <1>5, <1>6, <1>7 DEF EndpointsAfter
<1>10. \A kind \in WithPivots(g, n) :
          \/ EndpointIn(g, kind).confirmed = n
          \/ kind \in WithPivots(h, n - 1) /\ EndpointIn(g, kind) = EndpointIn(h, kind)
  BY <1>2, <1>3, <1>4, <1>8
<1> QED BY <1>9, <1>10 DEF g, n, S

\* A range is the one that the newest swings span since the later of them is known.
LEMMA RangesFollow ==
    ASSUME NEW h, HistoryOK(h), NEW c, HistoryOK(Append(h, c)), endpoints = EndpointsIn(h),
           range = IF SpanIn(h) THEN {RangeIn(h)} ELSE {}
    PROVE  RangeAfter(EndpointsIn(Append(h, c)), c) =
             IF SpanIn(Append(h, c)) THEN {RangeIn(Append(h, c))} ELSE {}
<1> DEFINE g == Append(h, c)
           n == Len(h)
           low == EndpointIn(g, "low")
           high == EndpointIn(g, "high")
           P == EndpointsIn(g)
<1>1. /\ n \in Nat /\ Len(g) = n + 1 /\ g[n + 1] = c /\ c.index = n
      /\ \A i \in 1 .. n : g[i] = h[i]
  BY Longer DEF CandleOK
<1>2. PairStatus(P) = "confirmed" <=> SpanIn(g)
  BY PairIs
<1>3. CASE ~SpanIn(g)
  BY <1>2, <1>3 DEF RangeAfter
<1>4. CASE SpanIn(g)
  <2>1. Of("low", P) = low /\ Of("high", P) = high /\ P = {low, high}
    BY <1>4, PairIs DEF SpanIn
  <2>2. WithPivots(g, Len(g) - 1) = Kinds /\ "low" \in Kinds /\ "high" \in Kinds
    BY <1>4 DEF SpanIn, Kinds
  <2>3. /\ low.confirmed \in 0 .. n /\ high.confirmed \in 0 .. n
        /\ low.kind = "low" /\ high.kind = "high"
    <3>1. \A kind \in Kinds : /\ EndpointIn(g, kind).kind = kind
                              /\ EndpointIn(g, kind).confirmed \in 0 .. Len(g) - 1
      BY <2>2, EndpointIs
    <3>2. Len(g) - 1 = n
      BY <1>1
    <3> HIDE DEF g, n
    <3> QED BY <2>2, <3>1, <3>2
  <2>4. /\ low.confirmed = n \/ ("low" \in WithPivots(h, n - 1) /\ low = EndpointIn(h, "low"))
        /\ high.confirmed = n \/ ("high" \in WithPivots(h, n - 1) /\ high = EndpointIn(h, "high"))
    <3>1. WithPivots(g, n) = Kinds
      <4> HIDE DEF g
      <4> QED BY <1>1, <2>2
    <3> QED BY <2>2, <3>1, EndpointsFollow
  <2> DEFINE since == Max({low.confirmed, high.confirmed})
  <2>5. since = IF low.confirmed >= high.confirmed THEN low.confirmed ELSE high.confirmed
    <3> HIDE DEF low, high
    <3> QED BY <2>3, MaxOfPair
  <2>6. RangeIn(g) = [low |-> low, high |-> high,
                      direction |-> IF low.pivot < high.pivot THEN "bullish" ELSE "bearish",
                      index |-> since, available |-> g[since + 1].available]
    BY DEF RangeIn
  <2>7. CASE \E r \in range : {r.low, r.high} = P
    <3>1. SpanIn(h) /\ range = {RangeIn(h)}
      BY <2>7
    <3>2. /\ RangeIn(h).low = EndpointIn(h, "low") /\ RangeIn(h).high = EndpointIn(h, "high")
          /\ EndpointIn(h, "low").kind = "low" /\ EndpointIn(h, "high").kind = "high"
      BY <2>2, <3>1, EndpointIs DEF RangeIn, SpanIn
    <3>3. low = EndpointIn(h, "low") /\ high = EndpointIn(h, "high")
      <4>1. {EndpointIn(h, "low"), EndpointIn(h, "high")} = {low, high}
        BY <2>1, <2>7, <3>1, <3>2
      <4> HIDE DEF low, high
      <4> QED BY <2>3, <3>2, <4>1
    <3>4. low.confirmed \in 0 .. n - 1 /\ high.confirmed \in 0 .. n - 1
      <4>1. "low" \in WithPivots(h, Len(h) - 1) /\ "high" \in WithPivots(h, Len(h) - 1)
        BY <2>2, <3>1 DEF SpanIn
      <4> HIDE DEF low, high
      <4> QED BY <3>3, <4>1, EndpointIs
    <3>5. since \in 0 .. n - 1
      <4> HIDE DEF low, high
      <4> QED BY <2>5, <3>4
    <3>6. g[since + 1] = h[since + 1]
      <4> HIDE DEF since, g, n
      <4>1. since + 1 \in 1 .. n
        BY <1>1, <3>5
      <4> QED BY <1>1, <4>1
    <3>7. RangeIn(h) = [low |-> low, high |-> high,
                        direction |-> IF low.pivot < high.pivot THEN "bullish" ELSE "bearish",
                        index |-> since, available |-> h[since + 1].available]
      <4> HIDE DEF low, high
      <4> QED BY <3>3 DEF RangeIn
    <3>8. RangeAfter(P, c) = range
      BY <1>2, <1>4, <2>7 DEF RangeAfter
    <3> HIDE DEF low, high, since, P, g
    <3>9. RangeIn(g) = RangeIn(h)
      BY <2>6, <3>6, <3>7
    <3> QED BY <1>4, <3>1, <3>8, <3>9 DEF g, P
  <2>8. CASE ~ \E r \in range : {r.low, r.high} = P
    <3>1. low.confirmed = n \/ high.confirmed = n
      <4> SUFFICES ASSUME low.confirmed # n, high.confirmed # n PROVE FALSE
        OBVIOUS
      <4>1. /\ "low" \in WithPivots(h, n - 1) /\ low = EndpointIn(h, "low")
            /\ "high" \in WithPivots(h, n - 1) /\ high = EndpointIn(h, "high")
        BY <2>4
      <4>2. WithPivots(h, n - 1) = Kinds
        BY <4>1 DEF WithPivots, Kinds
      <4>3. low.pivot # high.pivot /\ high.price > low.price
        BY <1>4 DEF SpanIn
      <4> HIDE DEF low, high
      <4>4. SpanIn(h)
        BY <4>1, <4>2, <4>3 DEF SpanIn
      <4>5. RangeIn(h) \in range /\ RangeIn(h).low = low /\ RangeIn(h).high = high
        BY <4>1, <4>4 DEF RangeIn
      <4> QED BY <2>1, <2>8, <4>5
    <3>2. since = n
      <4> HIDE DEF low, high
      <4> QED BY <2>3, <2>5, <3>1
    <3>3. g[since + 1].available = c.available
      BY <1>1, <3>2
    <3>4. RangeAfter(P, c) = {NewRange(P, c)}
      BY <1>2, <1>4, <2>8 DEF RangeAfter
    <3>5. NewRange(P, c) = [low |-> low, high |-> high,
                            direction |-> IF low.pivot < high.pivot THEN "bullish" ELSE "bearish",
                            index |-> n, available |-> c.available]
      <4> HIDE DEF low, high, P, n
      <4> QED BY <1>1, <2>1 DEF NewRange
    <3> HIDE DEF low, high, since, P, g
    <3>6. NewRange(P, c) = RangeIn(g)
      BY <2>6, <3>2, <3>3, <3>5
    <3> QED BY <1>4, <3>4, <3>6 DEF g, P
  <2> QED BY <2>7, <2>8
<1> QED BY <1>3, <1>4

\* The range, the price in it and its retracement stay those of the newest swings.
LEMMA RangeStays ==
    ASSUME LinkInv, StructureInv, RangeInv, NEW c, Step(c) PROVE RangeInv'
<1> DEFINE h == Bars
           g == Append(h, c)
           n == Len(h)
<1>1. /\ HistoryOK(h) /\ HistoryOK(g) /\ n \in Nat /\ Now' = n /\ Bars' = g
  BY StepIs
<1>2. snapshot'.swings = ConfirmedAt(g, n)
  BY SwingsOfStep
<1>3. PremiumUpdate(c) /\ OTEUpdate(c)
  BY DEF Step, Analyze
<1>4. endpoints' = EndpointsIn(g)
  <2>1. EndpointsAfter(ConfirmedAt(g, n)) = EndpointsIn(g)
    BY <1>1, EndpointsFollow DEF RangeInv
  <2> QED BY <1>2, <1>3, <2>1 DEF PremiumUpdate
<1>5. range' = IF SpanIn(g) THEN {RangeIn(g)} ELSE {}
  <2>1. RangeAfter(EndpointsIn(g), c) = IF SpanIn(g) THEN {RangeIn(g)} ELSE {}
    BY <1>1, RangesFollow DEF RangeInv
  <2> HIDE DEF g
  <2> QED BY <1>3, <1>4, <2>1 DEF PremiumUpdate
<1>6. premium'.class = Classified(Position(c.close), range')
  BY <1>3 DEF PremiumUpdate
<1>7. /\ ote'.zone = {ZoneOf(r) : r \in range'}
      /\ ote'.usable = {z \in ote'.zone : KnownWhenOpened(z.range, c)}
      /\ ote'.class = OTEClass(c.close, ote'.usable)
  BY <1>3 DEF OTEUpdate
<1>8. Bar(Now)' = c
  BY <1>1, NewestFrame DEF Bar
<1> HIDE DEF h, g, n
<1> QED BY <1>1, <1>4, <1>5, <1>6, <1>7, <1>8 DEF RangeInv

\* Where a price lies in a range, in the units of the code and of the claim.
LEMMA PricesAre ==
    ASSUME NEW low \in Nat, NEW high \in Nat, high > low, NEW close \in Nat, NEW w \in Nat, w <= 50
    PROVE  LET size == high - low
           IN  /\ (20000 * close < 20000 * low \/ 20000 * close > 20000 * high) <=> close \notin low .. low + size
               /\ 20000 * close < 10000 * (low + high) - 200 * w * size <=>
                    100 * (close - low) < (50 - w) * size
               /\ 20000 * close > 10000 * (low + high) + 200 * w * size <=>
                    100 * (close - low) > (50 + w) * size
               /\ (50 - w) * size <= 50 * size /\ (50 + w) * size >= 50 * size
               /\ 100 * (close - low) < (50 - w) * size => close <= high
               /\ 100 * (close - low) > (50 + w) * size => close >= low
<1> DEFINE size == high - low
           m == w * size
<1>1. size \in Nat /\ size > 0 /\ m \in Nat /\ high = low + size
  OBVIOUS
<1>2. 200 * w * size = 200 * m /\ (50 - w) * size = 50 * size - m /\ (50 + w) * size = 50 * size + m
  BY <1>1
<1>3. 50 * size - m >= 0
  <2>1. (50 - w) \in Nat
    OBVIOUS
  <2>2. (50 - w) * size \in Nat
    BY <1>1, <2>1
  <2> QED BY <1>1, <1>2, <2>2
<1> HIDE DEF m, size
<1> QED BY <1>1, <1>2, <1>3 DEF size

\* The bounds of a retracement are in order.
LEMMA PercentsAre ==
    ASSUME NEW size \in Nat, NEW a \in Nat, NEW b \in Nat, a <= b
    PROVE  a * size \in Nat /\ b * size \in Nat /\ a * size <= b * size
<1>1. b - a \in Nat
  OBVIOUS
<1>2. (b - a) * size \in Nat
  BY <1>1
<1>3. (b - a) * size = b * size - a * size
  OBVIOUS
<1>4. a * size \in Nat /\ b * size \in Nat
  OBVIOUS
<1> DEFINE x == a * size
           y == b * size
           z == (b - a) * size
<1>5. x \in Nat /\ y \in Nat /\ z \in Nat /\ z = y - x
  BY <1>2, <1>3, <1>4
<1> HIDE DEF x, y, z
<1>6. x <= y
  BY <1>5
<1> QED BY <1>5, <1>6 DEF x, y

\* The newest pivots and the range they span, said of the frames.
LEMMA SpansAgree ==
    ASSUME LinkInv, Now >= 0
    PROVE  /\ SpansBy(Now) <=> SpanIn(Bars)
           /\ SpanIn(Bars) =>
                LET low == Max(PivotsBy("low", Now))
                    high == Max(PivotsBy("high", Now))
                    r == RangeIn(Bars)
                IN  /\ low \in Nat /\ high \in Nat /\ low # high
                    /\ r.low = EndpointIn(Bars, "low") /\ r.high = EndpointIn(Bars, "high")
                    /\ r.low.pivot = low /\ r.high.pivot = high
                    /\ r.low.price = Bar(low).low /\ r.high.price = Bar(high).high
                    /\ r.low.price \in Nat /\ r.high.price \in Nat /\ r.high.price > r.low.price
                    /\ r.index = Max({low, high}) + Radius /\ r.index \in 0 .. Now
                    /\ r.available = Bar(r.index).available
                    /\ r.direction = IF low < high THEN "bullish" ELSE "bearish"
<1> DEFINE h == Bars
           n == Len(h)
           low == Max(PivotsBy("low", Now))
           high == Max(PivotsBy("high", Now))
           r == RangeIn(h)
<1>1. /\ HistoryOK(h) /\ n \in Nat /\ Now = n - 1 /\ Indices = 0 .. n - 1 /\ Now \in Int
      /\ Radius \in Nat /\ \A i \in Indices : Bar(i) = h[i + 1]
  BY BarsAre, RadiusIs DEF LinkInv, Indices
<1>2. "low" \in Kinds /\ "high" \in Kinds /\ Kinds = {"low", "high"}
  BY DEF Kinds
<1>3. \A kind \in Kinds : PivotsBy(kind, Now) = PivotsIn(h, kind, n - 1)
  BY <1>1, HistoryAgrees
<1>4. low = NewestIn(h, "low", n - 1) /\ high = NewestIn(h, "high", n - 1)
  BY <1>2, <1>3 DEF NewestIn
<1>5. (\A kind \in Kinds : PivotsBy(kind, Now) # {}) <=> WithPivots(h, n - 1) = Kinds
  BY <1>3 DEF WithPivots
<1>6. ASSUME WithPivots(h, n - 1) = Kinds
      PROVE  /\ low \in 0 .. n - 1 /\ high \in 0 .. n - 1
             /\ EndpointIn(h, "low").pivot = low /\ EndpointIn(h, "high").pivot = high
             /\ EndpointIn(h, "low").confirmed = low + Radius
             /\ EndpointIn(h, "high").confirmed = high + Radius
             /\ low + Radius \in 0 .. n - 1 /\ high + Radius \in 0 .. n - 1
             /\ EndpointIn(h, "low").price = Bar(low).low
             /\ EndpointIn(h, "high").price = Bar(high).high
             /\ EndpointIn(h, "low").price \in Nat /\ EndpointIn(h, "high").price \in Nat
  <2>1. /\ EndpointIn(h, "low").pivot = NewestIn(h, "low", n - 1)
        /\ NewestIn(h, "low", n - 1) \in 0 .. n - 1 /\ EndpointIn(h, "low") \in Swing
        /\ EndpointIn(h, "low").confirmed = NewestIn(h, "low", n - 1) + Radius
        /\ EndpointIn(h, "low").confirmed \in 0 .. n - 1
        /\ EndpointIn(h, "low").price = Extreme(h[NewestIn(h, "low", n - 1) + 1], "low")
    BY <1>1, <1>2, <1>6, EndpointIs
  <2>2. /\ EndpointIn(h, "high").pivot = NewestIn(h, "high", n - 1)
        /\ NewestIn(h, "high", n - 1) \in 0 .. n - 1 /\ EndpointIn(h, "high") \in Swing
        /\ EndpointIn(h, "high").confirmed = NewestIn(h, "high", n - 1) + Radius
        /\ EndpointIn(h, "high").confirmed \in 0 .. n - 1
        /\ EndpointIn(h, "high").price = Extreme(h[NewestIn(h, "high", n - 1) + 1], "high")
    BY <1>1, <1>2, <1>6, EndpointIs
  <2> HIDE DEF low, high, h, n
  <2>3. Bar(low) = h[low + 1] /\ Bar(high) = h[high + 1]
    BY <1>1, <1>4, <2>1, <2>2
  <2> QED BY <1>4, <2>1, <2>2, <2>3 DEF Extreme, Swing
<1>7. SpansBy(Now) <=> SpanIn(h)
  <2>1. SpansBy(Now) <=> /\ \A kind \in Kinds : PivotsBy(kind, Now) # {}
                         /\ low # high /\ Bar(high).high > Bar(low).low
    BY DEF SpansBy
  <2> HIDE DEF low, high
  <2> QED BY <1>5, <1>6, <2>1 DEF SpanIn
<1>8. ASSUME SpanIn(h)
      PROVE  /\ low \in Nat /\ high \in Nat /\ low # high
             /\ r.low = EndpointIn(h, "low") /\ r.high = EndpointIn(h, "high")
             /\ r.low.pivot = low /\ r.high.pivot = high
             /\ r.low.price = Bar(low).low /\ r.high.price = Bar(high).high
             /\ r.low.price \in Nat /\ r.high.price \in Nat /\ r.high.price > r.low.price
             /\ r.index = Max({low, high}) + Radius /\ r.index \in 0 .. Now
             /\ r.available = Bar(r.index).available
             /\ r.direction = IF low < high THEN "bullish" ELSE "bearish"
  <2> DEFINE a == EndpointIn(h, "low")
             b == EndpointIn(h, "high")
             since == Max({a.confirmed, b.confirmed})
  <2>1. WithPivots(h, n - 1) = Kinds /\ a.pivot # b.pivot /\ b.price > a.price
    BY <1>8 DEF SpanIn
  <2>2. /\ low \in 0 .. n - 1 /\ high \in 0 .. n - 1 /\ a.pivot = low /\ b.pivot = high
        /\ a.confirmed = low + Radius /\ b.confirmed = high + Radius
        /\ low + Radius \in 0 .. n - 1 /\ high + Radius \in 0 .. n - 1
        /\ a.price = Bar(low).low /\ b.price = Bar(high).high /\ a.price \in Nat /\ b.price \in Nat
    BY <1>6, <2>1
  <2>3. r = [low |-> a, high |-> b,
             direction |-> IF a.pivot < b.pivot THEN "bullish" ELSE "bearish",
             index |-> since, available |-> h[since + 1].available]
    BY DEF RangeIn
  <2> HIDE DEF a, b, low, high, r
  <2>4. since = (IF low + Radius >= high + Radius THEN low + Radius ELSE high + Radius)
    BY <1>1, <2>2, MaxOfPair
  <2>5. Max({low, high}) = IF low >= high THEN low ELSE high
    BY <2>2, MaxOfPair
  <2>6. since = Max({low, high}) + Radius /\ since \in 0 .. Now /\ since \in Indices
    BY <1>1, <2>2, <2>4, <2>5
  <2>7. Bar(since) = h[since + 1]
    BY <1>1, <2>6
  <2> HIDE DEF since, h, n
  <2> QED BY <2>1, <2>2, <2>3, <2>6, <2>7 DEF a, b
<1> QED BY <1>7, <1>8

\* The invariant implies what a frame says of the range, the price and its retracement.
LEMMA RangeAgrees ==
    ASSUME LinkInv, StructureInv, RangeInv PROVE RangeFollowsThePivots
<1> SUFFICES ASSUME Now >= 0
             PROVE  /\ ~SpansBy(Now) => /\ range = {} /\ premium.class = "INSUFFICIENT_CONTEXT"
                                        /\ ote.class = "INSUFFICIENT_CONTEXT"
                    /\ SpansBy(Now) => NewestMoveIsRead
  BY DEF RangeFollowsThePivots
<1>1. SpansBy(Now) <=> SpanIn(Bars)
  BY SpansAgree
<1>2. /\ range = (IF SpanIn(Bars) THEN {RangeIn(Bars)} ELSE {})
      /\ premium.class = Classified(Position(Bar(Now).close), range)
      /\ ote.zone = {ZoneOf(r) : r \in range}
      /\ ote.usable = {z \in ote.zone : KnownWhenOpened(z.range, Bar(Now))}
      /\ ote.class = OTEClass(Bar(Now).close, ote.usable)
  BY DEF RangeInv
<1>3. CASE ~SpansBy(Now)
  <2>1. range = {} /\ ote.zone = {} /\ ote.usable = {}
    BY <1>1, <1>2, <1>3
  <2> QED BY <1>2, <1>3, <2>1 DEF Classified, OTEClass
<1>4. CASE SpansBy(Now)
  <2> DEFINE low == Max(PivotsBy("low", Now))
             high == Max(PivotsBy("high", Now))
             since == Max({low, high}) + Radius
             bottom == Bar(low).low
             top == Bar(high).high
             size == top - bottom
             close == Bar(Now).close
             r == RangeIn(Bars)
             z == ZoneOf(r)
             known == since < Now /\ Bar(since).available <= Now
             given == 100 * (IF low < high THEN top - close ELSE close - bottom)
  <2>1. /\ low \in Nat /\ high \in Nat /\ low # high
        /\ r.low.pivot = low /\ r.high.pivot = high
        /\ r.low.price = bottom /\ r.high.price = top
        /\ bottom \in Nat /\ top \in Nat /\ top > bottom
        /\ r.index = since /\ since \in 0 .. Now
        /\ r.available = Bar(since).available
        /\ r.direction = IF low < high THEN "bullish" ELSE "bearish"
    BY <1>1, <1>4, SpansAgree
  <2>2. range = {r} /\ ote.zone = {z}
    BY <1>1, <1>2, <1>4
  <2>3. /\ close \in Nat /\ Bar(Now).index = Now /\ Now \in Int
    <3>1. Now \in Indices /\ HistoryOK(Bars) /\ Now \in 0 .. Len(Bars) - 1 /\ Now \in Int
      BY BarsAre DEF Indices, LinkInv
    <3>2. Bar(Now) = Bars[Now + 1] /\ Bars[Now + 1] \in Candle /\ CandleOK(Bars[Now + 1], Now)
      BY <3>1, BarsAre, CandlesAre DEF LinkInv
    <3> QED BY <3>1, <3>2, CandleTypes DEF CandleOK
  <2>4. HalfWidthPct \in Nat /\ HalfWidthPct <= 50 /\ LowerRetracementPct \in Nat
        /\ UpperRetracementPct \in Nat /\ LowerRetracementPct <= UpperRetracementPct
    BY DealingRangeAssumption
  <2> HIDE DEF r, low, high, bottom, top, close, since
  <2>5. {<<x.low.pivot, x.high.pivot, x.index>> : x \in range} = {<<low, high, since>>}
    BY <2>1, <2>2
  <2>6. premium.class =
          CASE 20000 * close < 20000 * bottom \/ 20000 * close > 20000 * top -> "OUTSIDE_RANGE"
            [] OTHER -> IF 20000 * close < 10000 * (bottom + top) - 200 * HalfWidthPct * size
                        THEN "DISCOUNT"
                        ELSE IF 20000 * close > 10000 * (bottom + top) + 200 * HalfWidthPct * size
                        THEN "PREMIUM" ELSE "EQUILIBRIUM"
    <3>1. (CHOOSE x \in range : TRUE) = r /\ range # {}
      BY <2>2
    <3> QED BY <1>2, <2>1, <3>1 DEF Classified, Position, Midpoint, HalfWidth, Size, close
  <2>7. /\ (20000 * close < 20000 * bottom \/ 20000 * close > 20000 * top) <=> close \notin bottom .. bottom + size
        /\ 20000 * close < 10000 * (bottom + top) - 200 * HalfWidthPct * size <=>
             100 * (close - bottom) < (50 - HalfWidthPct) * size
        /\ 20000 * close > 10000 * (bottom + top) + 200 * HalfWidthPct * size <=>
             100 * (close - bottom) > (50 + HalfWidthPct) * size
        /\ (50 - HalfWidthPct) * size <= 50 * size /\ (50 + HalfWidthPct) * size >= 50 * size
        /\ 100 * (close - bottom) < (50 - HalfWidthPct) * size => close <= top
        /\ 100 * (close - bottom) > (50 + HalfWidthPct) * size => close >= bottom
    BY <2>1, <2>3, <2>4, PricesAre
  <2>8. (premium.class = "OUTSIDE_RANGE") <=> close \notin bottom .. bottom + size
    BY <2>6, <2>7
  <2>9. (premium.class = "DISCOUNT") <=>
          close >= bottom /\ 100 * (close - bottom) < (50 - HalfWidthPct) * size
    <3>1. close \in bottom .. bottom + size <=> close >= bottom /\ close <= top
      BY <2>1, <2>3
    <3> DEFINE A == 100 * (close - bottom) < (50 - HalfWidthPct) * size
               B == 100 * (close - bottom) > (50 + HalfWidthPct) * size
    <3>2. premium.class =
            CASE close \notin bottom .. bottom + size -> "OUTSIDE_RANGE"
              [] OTHER -> IF A THEN "DISCOUNT" ELSE IF B THEN "PREMIUM" ELSE "EQUILIBRIUM"
      BY <2>6, <2>7
    <3>3. A => close <= top
      BY <2>7
    <3> HIDE DEF A, B
    <3> QED BY <3>1, <3>2, <3>3 DEF A
  <2>10. (premium.class = "PREMIUM") <=>
          close <= bottom + size /\ 100 * (close - bottom) > (50 + HalfWidthPct) * size
    <3>1. close \in bottom .. bottom + size <=> close >= bottom /\ close <= bottom + size
      BY <2>1, <2>3
    <3> DEFINE A == 100 * (close - bottom) < (50 - HalfWidthPct) * size
               B == 100 * (close - bottom) > (50 + HalfWidthPct) * size
    <3>2. premium.class =
            CASE close \notin bottom .. bottom + size -> "OUTSIDE_RANGE"
              [] OTHER -> IF A THEN "DISCOUNT" ELSE IF B THEN "PREMIUM" ELSE "EQUILIBRIUM"
      BY <2>6, <2>7
    <3>3. (B => close >= bottom) /\ ~(A /\ B)
      <4> DEFINE x == (50 - HalfWidthPct) * size
                 y == (50 + HalfWidthPct) * size
                 d == 100 * (close - bottom)
      <4>1. x \in Int /\ y \in Int /\ d \in Int /\ 50 * size \in Int
        BY <2>1, <2>3, <2>4
      <4>2. x <= 50 * size /\ y >= 50 * size
        BY <2>7
      <4>3. A <=> d < x
        OBVIOUS
      <4>4. B <=> d > y
        OBVIOUS
      <4> HIDE DEF A, B, x, y, d
      <4>5. ~(A /\ B)
        BY <4>1, <4>2, <4>3, <4>4
      <4> QED BY <2>7, <4>5 DEF B
    <3> HIDE DEF A, B
    <3> QED BY <3>1, <3>2, <3>3 DEF B
  <2>11. /\ known => ote.usable = {z}
         /\ ~known => ote.usable = {}
    <3>1. z.range = r
      BY DEF ZoneOf
    <3>2. KnownWhenOpened(r, Bar(Now)) <=> known
      BY <2>1, <2>3 DEF KnownWhenOpened
    <3> HIDE DEF z, known
    <3> QED BY <1>2, <2>2, <3>1, <3>2
  <2>12. (ote.class = "INSUFFICIENT_CONTEXT") <=> ~known
    <3> HIDE DEF z, known
    <3> QED BY <1>2, <2>11 DEF OTEClass
  <2>13. (ote.class = "INSIDE_OTE") <=>
           /\ known
           /\ given >= LowerRetracementPct * size /\ given <= UpperRetracementPct * size
    <3> DEFINE a == LowerRetracementPct * size
               b == UpperRetracementPct * size
    <3>1. a \in Nat /\ b \in Nat /\ a <= b
      <4>1. size \in Nat
        BY <2>1
      <4> QED BY <2>4, <4>1, PercentsAre
    <3>2. /\ Retraced(r, LowerRetracementPct) = (IF low < high THEN 100 * top - a ELSE 100 * bottom + a)
          /\ Retraced(r, UpperRetracementPct) = (IF low < high THEN 100 * top - b ELSE 100 * bottom + b)
      BY <2>1 DEF Retraced, Size
    <3> HIDE DEF a, b
    <3>3. /\ z.lower = (IF low < high THEN 100 * top - b ELSE 100 * bottom + a)
          /\ z.upper = (IF low < high THEN 100 * top - a ELSE 100 * bottom + b)
      <4> DEFINE x == Retraced(r, LowerRetracementPct)
                 y == Retraced(r, UpperRetracementPct)
      <4>1. x \in Int /\ y \in Int
        BY <2>1, <3>1, <3>2
      <4>2. z.lower = Min({x, y}) /\ z.upper = Max({x, y})
        BY DEF ZoneOf
      <4> HIDE DEF x, y, z
      <4>3. /\ z.lower = (IF x <= y THEN x ELSE y)
            /\ z.upper = (IF x >= y THEN x ELSE y)
        BY <4>1, <4>2, MinOfPair, MaxOfPair
      <4> QED BY <2>1, <3>1, <3>2, <4>1, <4>3 DEF x, y
    <3>4. ~(100 * close < z.lower) /\ ~(100 * close > z.upper) <=> given >= a /\ given <= b
      BY <2>1, <2>3, <3>1, <3>3
    <3>5. known => ote.class = (IF 100 * close < z.lower THEN "BELOW_OTE"
                                ELSE IF 100 * close > z.upper THEN "ABOVE_OTE" ELSE "INSIDE_OTE")
      <4> HIDE DEF z, known
      <4> QED BY <1>2, <2>11 DEF OTEClass, close
    <3> HIDE DEF known, z, given
    <3> QED BY <2>12, <3>4, <3>5 DEF a, b
  <2> QED BY <1>4, <2>5, <2>8, <2>9, <2>10, <2>12, <2>13
          DEF NewestMoveIsRead, r, low, high, bottom, top, close, since
<1> QED BY <1>3, <1>4

-----------------------------------------------------------------------------
(* Displacements and gaps.                                                 *)

\* The candles and displacements of the frames go on with those of the newest.
LEMMA PairsFollow ==
    ASSUME LinkInv, NEW c, Step(c)
    PROVE  /\ IsSeq(Pairs) /\ Len(Pairs) = Len(Bars)
           /\ Pairs' = Append(Pairs, [candle |-> c, displacement |-> displacement'])
<1> DEFINE n == Len(Bars)
           x == [candle |-> c, displacement |-> displacement']
<1>1. /\ n \in Nat /\ n = Len(frames) /\ Len(frames') = n + 1
      /\ \A i \in 1 .. n : frames'[i] = frames[i]
  BY StepIs
<1>2. frames'[n + 1].candle = c /\ frames'[n + 1].displacement = displacement'
  BY NewestFrame
<1> HIDE DEF n
<1>3. IsSeq(Pairs) /\ Len(Pairs) = n
  <2>1. Pairs = [i \in 1 .. n |-> Pairs[i]]
    BY <1>1 DEF Pairs
  <2> QED BY <1>1, <2>1, FunctionIs
<1>4. IsSeq(Pairs') /\ Len(Pairs') = n + 1
  <2>1. Pairs' = [i \in 1 .. n + 1 |-> Pairs'[i]]
    BY <1>1 DEF Pairs
  <2> QED BY <1>1, <2>1, FunctionIs
<1>5. /\ IsSeq(Append(Pairs, x)) /\ Len(Append(Pairs, x)) = n + 1
      /\ Append(Pairs, x)[n + 1] = x /\ \A i \in 1 .. n : Append(Pairs, x)[i] = Pairs[i]
  BY <1>3, AppendIs
<1>6. \A i \in 1 .. n + 1 : Pairs'[i] = Append(Pairs, x)[i]
  <2> SUFFICES ASSUME NEW i \in 1 .. n + 1 PROVE Pairs'[i] = Append(Pairs, x)[i]
    OBVIOUS
  <2>1. Pairs'[i] = [candle |-> frames'[i].candle, displacement |-> frames'[i].displacement]
    BY <1>1 DEF Pairs
  <2>2. CASE i = n + 1
    BY <1>2, <1>5, <2>1, <2>2
  <2>3. CASE i # n + 1
    <3>1. i \in 1 .. n
      BY <1>1, <2>3
    <3>2. Pairs[i] = [candle |-> frames[i].candle, displacement |-> frames[i].displacement]
      BY <1>1, <3>1 DEF Pairs
    <3> QED BY <1>1, <1>5, <2>1, <3>1, <3>2
  <2> QED BY <2>2, <2>3
<1>7. Pairs' = Append(Pairs, x)
  BY <1>4, <1>5, <1>6, SameItems
<1> QED BY <1>3, <1>7 DEF n

\* A reference range takes a whole window of candles before.
LEMMA DisplacementStays ==
    ASSUME LinkInv, DisplacementInv, NEW c, Step(c) PROVE DisplacementInv'
<1> DEFINE n == Len(Bars)
           obs == Slide(observations, c, AtrPeriod + 1)
           w == Slide(gapWindow, [candle |-> c, displacement |-> displacement'], 3)
<1>1. /\ n \in Nat /\ n = Len(frames) /\ Now = n - 1 /\ Now' = n /\ CandleOK(c, n) /\ c.index = n
      /\ c \in Candle /\ \A i \in 1 .. n : frames'[i] = frames[i]
  BY StepIs DEF CandleOK
<1>2. /\ frames'[n + 1].candle = c /\ frames'[n + 1].displacement = displacement'
  BY NewestFrame
<1>3. DisplacementUpdate(c) /\ GapUpdate(c)
  BY DEF Step, Analyze
<1>4. /\ displacement' = [index |-> c.index, event |-> Qualifies(c, atr),
                          direction |-> Direction(c),
                          preceding |-> Preceding(c), available |-> c.available]
      /\ observations' = obs /\ atr' = AtrTotal(obs)
      /\ sweepCache' = IF SweepLookback = 0 THEN {} ELSE InLookback(c) \cup sweeps'
  BY <1>3 DEF DisplacementUpdate
<1>5. gapWindow' = w /\ gap' = GapIn(w, c)
  BY <1>3 DEF GapUpdate, GapIn
<1>6. AtrPeriod + 1 \in Nat \ {0} /\ AtrPeriod \in Nat /\ SweepLookback \in Nat
  BY DisplacementAssumption
<1>7. IsTail(obs, Bars', AtrPeriod + 1)
  BY <1>6, WindowFollows DEF DisplacementInv
<1>8. IsTail(w, Pairs', 3)
  <2>1. IsSeq(Pairs) /\ Pairs' = Append(Pairs, [candle |-> c, displacement |-> displacement'])
    BY PairsFollow
  <2>2. IsTail(gapWindow, Pairs, 3) /\ 3 \in Nat \ {0}
    BY DEF DisplacementInv
  <2> QED BY <2>1, <2>2, SlideIsTail
<1>9. \A s \in sweeps' : s.index = n
  BY <1>1, <1>3 DEF Step, Analyze, LiquidityUpdate
<1>10. \A s \in sweepCache' : s.index \in Nat /\ s.index <= n
  <2>1. \A s \in InLookback(c) : s.index \in Nat /\ s.index <= n
    <3>1. \A s \in sweepCache : s.index \in Nat /\ s.index <= n
      BY <1>1 DEF DisplacementInv
    <3> QED BY <3>1 DEF InLookback
  <2> QED BY <1>1, <1>4, <1>9, <2>1
<1>11. PrecedingOK(displacement'.preceding, n)
  <2> DEFINE known == {s \in InLookback(c) : s.available <= c.index}
  <2>1. displacement'.preceding = {s \in known : \A t \in known : t.index <= s.index}
    BY <1>4 DEF Preceding
  <2>2. \A s \in known : /\ s.index \in Nat /\ s.index <= n - 1 /\ n - s.index <= SweepLookback
                         /\ s.available <= n
    <3>1. \A s \in sweepCache : s.index \in Nat /\ s.index <= n - 1
      BY <1>1 DEF DisplacementInv
    <3> QED BY <1>1, <3>1 DEF InLookback
  <2>3. \A s \in known : n - s.index \in 1 .. SweepLookback
    BY <1>1, <1>6, <2>2
  <2> HIDE DEF known
  <2>4. \A s, t \in displacement'.preceding : s.index = t.index
    BY <2>1, <2>2
  <2> QED BY <2>1, <2>2, <2>3, <2>4 DEF PrecedingOK
<1>12. displacement'.event => n > AtrPeriod
  <2> SUFFICES ASSUME Qualifies(c, atr) PROVE n > AtrPeriod
    BY <1>4
  <2>1. atr # NoAtr
    BY DEF Qualifies
  <2>2. Len(observations) = AtrPeriod + 1
    BY <2>1 DEF DisplacementInv, AtrTotal
  <2>3. Len(observations) = IF n <= AtrPeriod + 1 THEN n ELSE AtrPeriod + 1
    BY DEF DisplacementInv, IsTail
  <2> HIDE DEF n
  <2> QED BY <1>1, <1>6, <2>2, <2>3
<1>13. DisplacementOK(displacement', n, c)
  <2>1. Qualifies(c, atr) \in BOOLEAN /\ (Qualifies(c, atr) => Direction(c) # "none")
    BY DEF Qualifies
  <2> QED BY <1>1, <1>4, <2>1 DEF DisplacementOK
<1>14. \A i \in Indices' : DisplacementOK(At(i).displacement, i, Bar(i))'
  <2> SUFFICES ASSUME NEW i \in 0 .. n
               PROVE  DisplacementOK(frames'[i + 1].displacement, i, frames'[i + 1].candle)
    BY <1>1 DEF Indices, At, Bar, DisplacementOK
  <2>1. CASE i = n
    BY <1>2, <1>13, <2>1
  <2>2. CASE i # n
    <3>1. i \in Indices /\ i + 1 \in 1 .. n
      BY <1>1, <2>2 DEF Indices
    <3>2. DisplacementOK(frames[i + 1].displacement, i, frames[i + 1].candle)
      BY <3>1 DEF DisplacementInv, At, Bar
    <3> QED BY <1>1, <3>1, <3>2
  <2> QED BY <2>1, <2>2
<1>15. Bar(Now)' = c
  BY <1>1, <1>2 DEF Bar
<1>16. PrecedingOK(displacement.preceding, Now)' /\ GapIn(gapWindow, Bar(Now))' = GapIn(w, c)
  <2>1. PrecedingOK(displacement.preceding, Now)' = PrecedingOK(displacement'.preceding, n)
    BY <1>1 DEF PrecedingOK
  <2> HIDE DEF w
  <2>2. GapIn(gapWindow, Bar(Now))' = GapIn(w, c)
    BY <1>5, <1>15 DEF GapIn, QualifiedGap
  <2> QED BY <1>11, <2>1, <2>2
<1> HIDE DEF n, obs, w
<1> QED BY <1>1, <1>4, <1>5, <1>7, <1>8, <1>10, <1>12, <1>14, <1>16 DEF DisplacementInv

-----------------------------------------------------------------------------
(* Order blocks.                                                           *)

\* The extrema of a bounded set belong to it, and move with it.
LEMMA ExtremaOf ==
    ASSUME NEW n \in Int, NEW S, S \subseteq Nat, \A x \in S : x <= n, S # {}
    PROVE  Max(S) \in S /\ Min(S) \in S
BY MaxOf, MinOf

\* A bounded set and its extrema, moved by a constant.
LEMMA ExtremaMove ==
    ASSUME NEW n \in Int, NEW S, S \subseteq Nat, \A x \in S : x <= n, S # {},
           NEW a \in Int, NEW T, T \subseteq Int, T = {x + a : x \in S}
    PROVE  Max(T) = Max(S) + a /\ Min(T) = Min(S) + a
<1>1. /\ Max(S) \in S /\ \A x \in S : x <= Max(S)
      /\ Min(S) \in S /\ \A x \in S : Min(S) <= x
  BY MaxOf, MinOf
<1>2. Max(S) + a \in T /\ Min(S) + a \in T
  BY <1>1
<1>3. \A y \in T : y <= Max(S) + a /\ Min(S) + a <= y
  <2> SUFFICES ASSUME NEW y \in T PROVE y <= Max(S) + a /\ Min(S) + a <= y
    OBVIOUS
  <2>1. PICK x \in S : y = x + a
    OBVIOUS
  <2>a. \A z \in S : z \in Int
    OBVIOUS
  <2>2. x \in Int /\ Max(S) \in Int /\ Min(S) \in Int /\ x <= Max(S) /\ Min(S) <= x
    BY <1>1, <2>1, <2>a
  <2> QED BY <2>1, <2>2
<1> QED BY <1>2, <1>3, MaxIs, MinIs

\* The zone of a candle lies between its prices.
LEMMA ZonesAre ==
    ASSUME NEW i, NEW c, CandleOK(c, i)
    PROVE  /\ ZoneLower(c) \in Nat /\ ZoneUpper(c) \in Nat
           /\ c.low <= ZoneLower(c) /\ ZoneUpper(c) <= c.high
<1>1. /\ c.low \in Nat /\ c.high \in Nat /\ c.open \in Nat /\ c.close \in Nat
      /\ c.low <= c.open /\ c.low <= c.close /\ c.open <= c.high /\ c.close <= c.high
      /\ c.low <= c.high
  BY CandleTypes DEF CandleOK
<1>2. /\ Min({c.open, c.close}) = (IF c.open <= c.close THEN c.open ELSE c.close)
      /\ Max({c.open, c.close}) = (IF c.open >= c.close THEN c.open ELSE c.close)
  BY <1>1, MinOfPair, MaxOfPair
<1> QED BY <1>1, <1>2 DEF ZoneLower, ZoneUpper

\* A step leaves the frames of the earlier candles alone.
LEMMA EarlierFrames ==
    ASSUME LinkInv, NEW c, Step(c)
    PROVE  /\ Len(Bars) \in Nat /\ Now = Len(Bars) - 1 /\ Now' = Len(Bars)
           /\ Indices = 0 .. Len(Bars) - 1 /\ Indices' = 0 .. Len(Bars)
           /\ \A i \in Indices : At(i)' = At(i) /\ Bar(i)' = Bar(i) /\ Bar(i) = Bars[i + 1]
                                 /\ CandleOK(Bar(i), i)
           /\ Bar(Now)' = c /\ CandleOK(c, Len(Bars)) /\ config' = config
           /\ \A i \in Indices' : Bar(i)' = Append(Bars, c)[i + 1]
<1>1. /\ HistoryOK(Bars) /\ HistoryOK(Append(Bars, c)) /\ Len(Bars) \in Nat /\ Now = Len(Bars) - 1
      /\ Now' = Len(Bars) /\ CandleOK(c, Len(Bars))
      /\ \A i \in 1 .. Len(Bars) : frames'[i] = frames[i] /\ Bars[i] = frames[i].candle
  BY StepIs
<1>2. frames'[Len(Bars) + 1].candle = c
  BY NewestFrame
<1>3. Indices = 0 .. Len(Bars) - 1 /\ Indices' = 0 .. Len(Bars)
  BY <1>1 DEF Indices
<1>4. \A i \in Indices : i + 1 \in 1 .. Len(Bars)
  BY <1>1, <1>3
<1>5. \A i \in Indices : At(i)' = At(i) /\ Bar(i)' = Bar(i) /\ Bar(i) = Bars[i + 1]
  BY <1>1, <1>4 DEF At, Bar
<1>6. config' = config
  BY DEF Step, Analyze, OrderBlockUpdate
<1>7. \A i \in Indices : CandleOK(Bar(i), i)
  <2> SUFFICES ASSUME NEW i \in Indices PROVE CandleOK(Bars[i + 1], i)
    BY <1>5
  <2> QED BY <1>1, <1>3, CandlesAre
<1>8. Bar(Now)' = c
  BY <1>1, <1>2 DEF Bar
<1>9. \A i \in Indices' : Bar(i)' = Append(Bars, c)[i + 1]
  <2> SUFFICES ASSUME NEW i \in Indices' PROVE Bar(i)' = Append(Bars, c)[i + 1]
    OBVIOUS
  <2>1. (\A j \in 1 .. Len(Bars) : Append(Bars, c)[j] = Bars[j]) /\ Append(Bars, c)[Len(Bars) + 1] = c
    BY <1>1, Longer
  <2>2. CASE i = Len(Bars)
    BY <1>2, <2>1, <2>2 DEF Bar
  <2>3. CASE i # Len(Bars)
    <3>1. i \in Indices
      BY <1>1, <1>3, <2>3
    <3> QED BY <1>4, <1>5, <2>1, <3>1
  <2> QED BY <2>2, <2>3
<1> QED BY <1>1, <1>3, <1>5, <1>6, <1>7, <1>8, <1>9

\* The source of a block is one of the opposing candles.
LEMMA SourceIs ==
    ASSUME LinkInv, NEW d \in Indices, Opposing(d) # {}
    PROVE  Source(d) \in Opposing(d) /\ Source(d) \in Nat /\ Source(d) < d /\ Source(d) \in Indices
<1>1. Now \in Int /\ MaxLookback \in Nat
  BY BarsAre, OrderBlockAssumption DEF LinkInv
<1>2. d \in Nat /\ d <= Now
  BY <1>1 DEF Indices
<1>3. Opposing(d) \subseteq Nat /\ \A k \in Opposing(d) : k <= d - 1
  BY <1>1, <1>2 DEF Opposing
<1>4. Max(Opposing(d)) \in Opposing(d) /\ Min(Opposing(d)) \in Opposing(d)
  BY <1>2, <1>3, ExtremaOf
<1>5. Source(d) \in Opposing(d)
  BY <1>4 DEF Source
<1> QED BY <1>1, <1>2, <1>3, <1>5 DEF Indices

\* What an earlier candle made stays made.
LEMMA MakesStays ==
    ASSUME LinkInv, NEW c, Step(c), NEW d \in Indices
    PROVE  /\ Opposing(d)' = Opposing(d) /\ Source(d)' = Source(d)
           /\ Makes(d)' <=> Makes(d)
           /\ Opposing(d) # {} => /\ Bar(Source(d))' = Bar(Source(d))
                                  /\ ZoneLower(Bar(Source(d)))' = ZoneLower(Bar(Source(d)))
                                  /\ ZoneUpper(Bar(Source(d)))' = ZoneUpper(Bar(Source(d)))
<1>1. /\ Len(Bars) \in Nat /\ Indices = 0 .. Len(Bars) - 1 /\ config' = config
      /\ \A i \in Indices : At(i)' = At(i) /\ Bar(i)' = Bar(i)
  BY EarlierFrames
<1>2. MaxLookback \in Nat
  BY OrderBlockAssumption
<1>3. \A k \in d - MaxLookback .. d - 1 : k >= 0 => k \in Indices
  BY <1>1, <1>2
<1>4. \A i \in Indices : /\ ZoneLower(Bar(i))' = ZoneLower(Bar(i))
                         /\ ZoneUpper(Bar(i))' = ZoneUpper(Bar(i))
                         /\ Direction(Bar(i))' = Direction(Bar(i))
  BY <1>1 DEF ZoneLower, ZoneUpper, Direction
<1>5. Opposing(d)' = Opposing(d)
  <2>1. \A k \in d - MaxLookback .. d - 1 : k \in Opposing(d)' <=> k \in Opposing(d)
    BY <1>1, <1>3, <1>4 DEF Opposing
  <2>2. Opposing(d) \subseteq d - MaxLookback .. d - 1 /\ Opposing(d)' \subseteq d - MaxLookback .. d - 1
    BY DEF Opposing
  <2> QED BY <2>1, <2>2
<1>6. Source(d)' = Source(d)
  BY <1>1, <1>5 DEF Source
<1>7. BreaksAlong(d)' <=> BreaksAlong(d)
  BY <1>1, <1>4 DEF BreaksAlong
<1>8. ASSUME Opposing(d) # {}
      PROVE  /\ Bar(Source(d))' = Bar(Source(d))
             /\ ZoneLower(Bar(Source(d)))' = ZoneLower(Bar(Source(d)))
             /\ ZoneUpper(Bar(Source(d)))' = ZoneUpper(Bar(Source(d)))
             /\ LeavesZone(d, Source(d))' <=> LeavesZone(d, Source(d))
  <2>1. Source(d) \in Indices
    BY <1>8, SourceIs
  <2>2. Bar(Source(d))' = Bar(Source(d))
    BY <1>1, <1>6, <2>1 DEF Bar
  <2>3. /\ ZoneLower(Bar(Source(d)))' = ZoneLower(Bar(Source(d)))
        /\ ZoneUpper(Bar(Source(d)))' = ZoneUpper(Bar(Source(d)))
    BY <1>1, <2>2 DEF ZoneLower, ZoneUpper
  <2> QED BY <1>1, <1>4, <2>2, <2>3 DEF LeavesZone
<1> QED BY <1>1, <1>5, <1>6, <1>7, <1>8 DEF Makes

\* The candidates of the bounded history are the opposing candles.
LEMMA SelectedIs ==
    ASSUME LinkInv, BlocksInv, NEW c, Step(c),
           NEW x, x.index = Len(Bars), x.direction = Direction(c)
    PROVE  /\ Candidates(history, x) # {} <=> Opposing(Now)' # {}
           /\ Opposing(Now)' # {} =>
                /\ Source(Now)' \in Opposing(Now)' /\ Source(Now)' \in Indices
                /\ Selected(history, x) = Bars[Source(Now)' + 1]
<1> DEFINE n == Len(Bars)
           L == Len(history)
           O == {k \in n - MaxLookback .. n - 1 : k >= 0 /\ Candidate(Bars[k + 1], x)}
           C == Candidates(history, x)
           a == n - L - 1
<1>1. /\ n \in Nat /\ Now' = n /\ Indices = 0 .. n - 1 /\ config' = config /\ Bar(Now)' = c
      /\ \A i \in Indices : Bar(i)' = Bar(i) /\ Bar(i) = Bars[i + 1]
  BY EarlierFrames
<1>2. MaxLookback \in Nat \ {0}
  BY OrderBlockAssumption
<1>3. /\ L = (IF n <= MaxLookback THEN n ELSE MaxLookback)
      /\ \A i \in 1 .. L : history[i] = Bars[n - L + i]
  BY DEF BlocksInv, IsTail
<1>4. L \in Nat /\ L <= n /\ L <= MaxLookback /\ a \in Int
  BY <1>1, <1>2, <1>3
<1>5. Opposing(Now)' = O
  <2>1. ASSUME NEW k \in n - MaxLookback .. n - 1
        PROVE  k \in Opposing(Now)' <=> k \in O
    <3>1. CASE ~(k >= 0)
      BY <1>1, <2>1, <3>1 DEF Opposing
    <3>2. CASE k >= 0
      <4>1. k \in Indices
        BY <1>1, <1>2, <3>2
      <4>2. Bar(k)' = Bars[k + 1]
        BY <1>1, <4>1
      <4>3. /\ ZoneLower(Bar(k))' = ZoneLower(Bars[k + 1]) /\ ZoneUpper(Bar(k))' = ZoneUpper(Bars[k + 1])
            /\ Direction(Bar(k))' = Direction(Bars[k + 1]) /\ Direction(Bar(Now))' = x.direction
        BY <1>1, <4>2 DEF ZoneLower, ZoneUpper, Direction
      <4>4. k \in Opposing(Now)' <=>
              /\ Bars[k + 1].available <= n /\ ZoneUpper(Bars[k + 1]) > ZoneLower(Bars[k + 1])
              /\ \/ Direction(Bars[k + 1]) = Opposite(x.direction)
                 \/ config.allowDoji /\ Direction(Bars[k + 1]) = "none"
        <5> HIDE DEF n
        <5> QED BY <1>1, <2>1, <3>2, <4>2, <4>3 DEF Opposing, Opposite
      <4> QED BY <2>1, <3>2, <4>4 DEF Candidate
    <3> QED BY <3>1, <3>2
  <2>2. Opposing(Now)' \subseteq n - MaxLookback .. n - 1
    BY <1>1 DEF Opposing
  <2> QED BY <2>1, <2>2
<1>6. C \subseteq Nat /\ \A i \in C : i \in 1 .. L /\ i <= L
  BY <1>4 DEF Candidates
<1>7. O = {i + a : i \in C}
  <2>1. ASSUME NEW i \in 1 .. L
        PROVE  i + a \in n - MaxLookback .. n - 1 /\ i + a >= 0 /\ history[i] = Bars[(i + a) + 1]
    <3>1. (i + a) + 1 = n - L + i
      BY <1>1, <1>4
    <3>2. history[i] = Bars[n - L + i]
      BY <1>3
    <3> HIDE DEF L, n
    <3> QED BY <1>1, <1>2, <1>4, <3>1, <3>2
  <2>2. ASSUME NEW k \in O PROVE k - a \in 1 .. L /\ (k - a) + a = k
    <3>1. k \in Int /\ k >= 0 /\ k >= n - MaxLookback /\ k <= n - 1
      BY <1>1, <1>2
    <3>2. L = n \/ L = MaxLookback
      BY <1>3
    <3> HIDE DEF L, n, O
    <3>3. k - a = k - n + L + 1
      BY <1>1, <1>4, <3>1
    <3>4. k - n + L + 1 >= 1 /\ k - n + L + 1 <= L
      BY <1>1, <1>2, <1>4, <3>1, <3>2
    <3> HIDE DEF a
    <3> QED BY <1>1, <1>4, <3>1, <3>3, <3>4
  <2>3. \A i \in C : i + a \in O
    BY <1>6, <2>1 DEF Candidates
  <2>4. \A k \in O : k - a \in C
    <3> SUFFICES ASSUME NEW k \in O PROVE k - a \in C
      OBVIOUS
    <3>1. k - a \in 1 .. L /\ history[k - a] = Bars[k + 1]
      <4>1. k - a \in 1 .. L /\ (k - a) + a = k
        BY <2>2
      <4> HIDE DEF a, L, O
      <4> QED BY <2>1, <4>1
    <3>2. Candidate(Bars[k + 1], x)
      OBVIOUS
    <3> QED BY <3>1, <3>2 DEF Candidates
  <2> HIDE DEF C, O, a
  <2> QED BY <1>6, <2>2, <2>3, <2>4
<1>8. O \subseteq Int
  BY <1>1, <1>2
<1>9. C # {} <=> O # {}
  <2> HIDE DEF O, C
  <2> QED BY <1>7
<1>10. ASSUME O # {}
       PROVE  /\ Source(Now)' \in O /\ Source(Now)' \in Indices
              /\ Selected(history, x) = Bars[Source(Now)' + 1]
  <2> DEFINE near == config.selection = "nearest"
             i == IF near THEN Max(C) ELSE Min(C)
             k == IF near THEN Max(O) ELSE Min(O)
  <2>1. C # {}
    BY <1>9, <1>10
  <2>2. i \in C /\ k = i + a
    <3> HIDE DEF C, O, a, L
    <3>a. L \in Int /\ C \subseteq Nat /\ \A m \in C : m <= L
      BY <1>4, <1>6
    <3>1. Max(O) = Max(C) + a /\ Min(O) = Min(C) + a
      BY <1>4, <1>7, <1>8, <2>1, <3>a, ExtremaMove
    <3>2. Max(C) \in C /\ Min(C) \in C
      BY <2>1, <3>a, ExtremaOf
    <3> QED BY <3>1, <3>2
  <2>3. Source(Now)' = k
    <3> HIDE DEF O
    <3> QED BY <1>1, <1>5 DEF Source
  <2>4. k \in O
    <3> HIDE DEF i, k, C, O, a
    <3> QED BY <1>7, <2>2
  <2>5. k \in Indices
    <3> HIDE DEF k
    <3> QED BY <1>1, <2>4
  <2>6. Selected(history, x) = history[i]
    BY DEF Selected
  <2>7. history[i] = Bars[k + 1]
    <3>1. i \in 1 .. L /\ k = i + a
      BY <1>6, <2>2
    <3> HIDE DEF i, k
    <3>2. history[i] = Bars[n - L + i] /\ n - L + i = k + 1
      BY <1>1, <1>3, <1>4, <3>1
    <3> QED BY <3>2
  <2> QED BY <2>3, <2>4, <2>5, <2>6, <2>7
<1> HIDE DEF O, C
<1>11. /\ C # {} <=> Opposing(Now)' # {}
       /\ Opposing(Now)' # {} =>
            /\ Source(Now)' \in Opposing(Now)' /\ Source(Now)' \in Indices
            /\ Selected(history, x) = Bars[Source(Now)' + 1]
  BY <1>5, <1>9, <1>10
<1> QED BY <1>11 DEF C

\* A block forms where the history makes one.
LEMMA FormsAgrees ==
    ASSUME LinkInv, BlocksInv, NEW c, Step(c), DisplacementOK(displacement', Len(Bars), c)
    PROVE  Forms(history, displacement', c.close, snapshot'.events) <=> Makes(Now)'
<1> DEFINE n == Len(Bars)
           x == displacement'
           E == snapshot'.events
<1>1. /\ n \in Nat /\ Now' = n /\ Indices = 0 .. n - 1 /\ config' = config /\ Bar(Now)' = c
      /\ \A i \in Indices : Bar(i)' = Bar(i) /\ Bar(i) = Bars[i + 1]
  BY EarlierFrames
<1>2. frames'[n + 1].displacement = x /\ frames'[n + 1].events = E
  BY NewestFrame
<1>3. At(Now)'.displacement = x /\ At(Now)'.events = E /\ Direction(Bar(Now))' = x.direction
  BY <1>1, <1>2 DEF At, Direction, DisplacementOK
<1>4. x.index = n /\ x.direction = Direction(c)
  BY DEF DisplacementOK
<1>5. /\ Candidates(history, x) # {} <=> Opposing(Now)' # {}
      /\ Opposing(Now)' # {} =>
           /\ Source(Now)' \in Indices /\ Selected(history, x) = Bars[Source(Now)' + 1]
  BY <1>4, SelectedIs
<1>6. Opposing(Now)' # {} =>
        (Departs(Selected(history, x), x, c.close) <=> LeavesZone(Now, Source(Now))')
  <2> SUFFICES ASSUME Opposing(Now)' # {}
               PROVE  Departs(Selected(history, x), x, c.close) <=> LeavesZone(Now, Source(Now))'
    OBVIOUS
  <2>1. Bar(Source(Now))' = Selected(history, x)
    BY <1>1, <1>5 DEF Bar
  <2>2. /\ ZoneLower(Bar(Source(Now)))' = ZoneLower(Selected(history, x))
        /\ ZoneUpper(Bar(Source(Now)))' = ZoneUpper(Selected(history, x))
    BY <1>1, <2>1 DEF ZoneLower, ZoneUpper
  <2> QED BY <1>1, <1>3, <2>2 DEF Departs, LeavesZone
<1>7. config \in Configurations /\ config.structure \in {"bos_or_choch", "bos", "choch", "displacement_only"}
  <2>1. config \in Configurations
    BY DEF BlocksInv
  <2> QED BY <2>1, OrderBlockAssumption
<1>8. StructureAgrees(x, E) <=> BreaksAlong(Now)'
  <2>1. BreaksAlong(Now)' <=>
          \/ config.structure = "displacement_only"
          \/ \E e \in E : /\ e.direction = x.direction
                          /\ config.structure = "bos" => e.kind = "BOS"
                          /\ config.structure = "choch" => e.kind = "CHoCH"
    BY <1>1, <1>3 DEF BreaksAlong
  <2>2. CASE config.structure = "displacement_only"
    BY <2>1, <2>2 DEF StructureAgrees
  <2>3. CASE config.structure = "bos_or_choch"
    BY <2>1, <2>3 DEF StructureAgrees
  <2>4. CASE config.structure = "bos"
    BY <2>1, <2>4 DEF StructureAgrees
  <2>5. CASE config.structure = "choch"
    BY <2>1, <2>5 DEF StructureAgrees
  <2> QED BY <1>7, <2>2, <2>3, <2>4, <2>5
<1>9. Makes(Now)' <=> /\ x.event /\ Opposing(Now)' # {} /\ LeavesZone(Now, Source(Now))'
                      /\ BreaksAlong(Now)'
  BY <1>3 DEF Makes
<1> QED BY <1>5, <1>6, <1>8, <1>9 DEF Forms

\* The window of the gaps holds the newest candles and their displacements.
GapWindowOK ==
    /\ Len(gapWindow) = IF Now + 1 <= 3 THEN Now + 1 ELSE 3
    /\ \A i \in 1 .. Len(gapWindow) :
          LET k == Now - Len(gapWindow) + i
          IN  /\ k \in Indices /\ gapWindow[i].candle = Bar(k)
              /\ gapWindow[i].displacement = At(k).displacement

\* The window in which a gap is looked for is that of the newest candles.
LEMMA GapWindowIs == LinkInv /\ DisplacementInv => GapWindowOK
<1> SUFFICES ASSUME LinkInv, DisplacementInv PROVE GapWindowOK
  OBVIOUS
<1> DEFINE n == Len(frames)
           w == gapWindow
<1>1. n \in Nat /\ Now = n - 1
  BY BarsAre DEF LinkInv
<1>2. Pairs = [i \in 1 .. n |-> [candle |-> frames[i].candle, displacement |-> frames[i].displacement]]
  BY DEF Pairs
<1>3. Len(Pairs) = n
  BY <1>1, <1>2, FunctionIs
<1>4. /\ Len(w) = (IF n <= 3 THEN n ELSE 3)
      /\ \A i \in 1 .. Len(w) : w[i] = Pairs[n - Len(w) + i]
  BY <1>3 DEF DisplacementInv, IsTail
<1>5. ASSUME NEW i \in 1 .. Len(w)
      PROVE  /\ Now - Len(w) + i \in Indices /\ w[i].candle = Bar(Now - Len(w) + i)
             /\ w[i].displacement = At(Now - Len(w) + i).displacement
  <2> HIDE DEF w, n
  <2>1. /\ n - Len(w) + i \in 1 .. n /\ Now - Len(w) + i \in 0 .. Now
        /\ (Now - Len(w) + i) + 1 = n - Len(w) + i
    BY <1>1, <1>4
  <2>2. w[i] = [candle |-> frames[n - Len(w) + i].candle,
                displacement |-> frames[n - Len(w) + i].displacement]
    BY <1>2, <1>4, <2>1
  <2> QED BY <2>1, <2>2 DEF Indices, Bar, At
<1>6. Len(w) = IF Now + 1 <= 3 THEN Now + 1 ELSE 3
  BY <1>1, <1>4
<1> QED BY <1>5, <1>6 DEF GapWindowOK

\* The gap that a block waits for is the one around its displacement.
LEMMA GapsAgree ==
    ASSUME LinkInv, DisplacementInv, NEW c, Step(c),
           NEW d \in Indices, d = Now, displacement.event
    PROVE  GapMatches(displacement, gap') <=> GapAround(d)'
<1> DEFINE n == Len(Bars)
           w == gapWindow'
           first == Bar(d - 1)
           x == displacement
<1>1. /\ n \in Nat /\ Now = n - 1 /\ Now' = n /\ Indices = 0 .. n - 1 /\ Indices' = 0 .. n
      /\ Bar(Now)' = c /\ CandleOK(c, n)
      /\ \A i \in Indices : At(i)' = At(i) /\ Bar(i)' = Bar(i) /\ CandleOK(Bar(i), i)
  BY EarlierFrames
<1>2. DisplacementInv' /\ LinkInv'
  BY DisplacementStays, LinkStays
<1>3. GapWindowOK'
  <2>1. (LinkInv /\ DisplacementInv)' => GapWindowOK'
    BY GapWindowIs, PTL
  <2> QED BY <1>2, <2>1
<1>4. gap' = GapIn(w, c) /\ c.index = n
  <2>1. gap' = GapIn(gapWindow, Bar(Now))'
    BY <1>1, <1>2 DEF DisplacementInv
  <2>2. GapIn(gapWindow, Bar(Now))' = GapIn(w, c)
    BY <1>1 DEF GapIn, QualifiedGap
  <2> QED BY <1>1, <2>1, <2>2 DEF CandleOK
<1>5. Len(w) = IF n + 1 <= 3 THEN n + 1 ELSE 3
  BY <1>1, <1>3 DEF GapWindowOK
<1>6. x = At(d).displacement /\ x.index = d /\ x.direction = Direction(Bar(d)) /\ x.direction # "none"
  <2>1. x = At(d).displacement
    BY <1>1 DEF LinkInv
  <2>2. DisplacementOK(x, d, Bar(d))
    BY <2>1 DEF DisplacementInv
  <2> QED BY <2>1, <2>2 DEF DisplacementOK
<1>7. CASE n + 1 < 3
  <2>1. gap' = {}
    BY <1>1, <1>4, <1>5, <1>7 DEF GapIn, QualifiedGap
  <2>2. ~(d >= 1)
    BY <1>1, <1>7
  <2> QED BY <2>1, <2>2 DEF GapMatches, GapAround
<1>8. CASE ~(n + 1 < 3)
  <2>1. Len(w) = 3 /\ d >= 1 /\ d < n /\ d - 1 \in Indices /\ d + 1 = n /\ d + 1 \in Indices'
    BY <1>1, <1>5, <1>8
  <2>2. /\ w[1].candle = first /\ w[2].candle = Bar(d) /\ w[2].displacement = x /\ w[3].candle = c
    <3>1. /\ 1 \in 1 .. Len(w) /\ 2 \in 1 .. Len(w) /\ 3 \in 1 .. Len(w)
          /\ n - Len(w) + 1 = d - 1 /\ n - Len(w) + 2 = d /\ n - Len(w) + 3 = n
      BY <1>1, <2>1
    <3>2. \A i \in 1 .. Len(w) : /\ w[i].candle = frames'[n - Len(w) + i + 1].candle
                                  /\ w[i].displacement = frames'[n - Len(w) + i + 1].displacement
      BY <1>1, <1>3 DEF GapWindowOK, Bar, At
    <3>3. /\ w[1].candle = frames'[(d - 1) + 1].candle /\ w[2].candle = frames'[d + 1].candle
          /\ w[2].displacement = frames'[d + 1].displacement /\ w[3].candle = frames'[n + 1].candle
      BY <3>1, <3>2
    <3>4. Bar(d - 1)' = first /\ At(d)' = At(d) /\ Bar(d)' = Bar(d)
      BY <1>1, <2>1
    <3> QED BY <1>1, <1>6, <3>3, <3>4 DEF At, Bar
  <2>3. /\ c.low \in Nat /\ c.high \in Nat /\ first.low \in Nat /\ first.high \in Nat
        /\ c.low <= c.high /\ first.low <= first.high
    <3>1. CandleOK(c, n) /\ CandleOK(first, d - 1)
      BY <1>1, <2>1
    <3> HIDE DEF first
    <3>2. /\ c.close \in Nat /\ first.close \in Nat
          /\ c.low \in Nat /\ c.high \in Nat /\ first.low \in Nat /\ first.high \in Nat
      BY <3>1, CandleTypes DEF CandleOK
    <3>3. /\ c.low <= c.close /\ c.close <= c.high
          /\ first.low <= first.close /\ first.close <= first.high
      BY <3>1 DEF CandleOK
    <3>4. \A l, m, u \in Nat : l <= m /\ m <= u => l <= u
      OBVIOUS
    <3> QED BY <3>2, <3>3, <3>4
  <2>4. GapAround(d)' <=>
          IF Direction(Bar(d)) = "bullish"
          THEN c.low > first.high /\ c.low - first.high >= MinGap
          ELSE c.high < first.low /\ first.low - c.high >= MinGap
    <3>1. /\ Bar(d + 1)' = c /\ Bar(d - 1)' = first /\ Direction(Bar(d))' = Direction(Bar(d))
          /\ d < Now'
      BY <1>1, <2>1 DEF Bar, Direction
    <3> QED BY <2>1, <3>1 DEF GapAround
  <2>5. GapMatches(x, gap') <=>
          /\ QualifiedGap(w) /\ GapDirection(first, c) = x.direction
    <3> HIDE DEF w, first
    <3>1. gap' = IF QualifiedGap(w)
                 THEN {[index |-> n, middle |-> x, direction |-> GapDirection(first, c),
                        lower |-> GapLower(first, c), upper |-> GapUpper(first, c),
                        available |-> c.available]}
                 ELSE {}
      BY <1>4, <2>2 DEF GapIn
    <3>2. n = x.index + 1 /\ x.event
      BY <1>1, <1>6
    <3> DEFINE e == [index |-> n, middle |-> x, direction |-> GapDirection(first, c),
                     lower |-> GapLower(first, c), upper |-> GapUpper(first, c),
                     available |-> c.available]
    <3>3. e.index = n /\ e.middle = x /\ e.direction = GapDirection(first, c)
      OBVIOUS
    <3>4. gap' = IF QualifiedGap(w) THEN {e} ELSE {}
      BY <3>1
    <3> HIDE DEF e, n
    <3> QED BY <3>2, <3>3, <3>4 DEF GapMatches
  <2>6. QualifiedGap(w) <=>
          /\ GapDirection(first, c) # "none"
          /\ GapUpper(first, c) - GapLower(first, c) >= MinGap
          /\ GapNeedsDisplacement => x.direction = GapDirection(first, c)
    <3> HIDE DEF w, first
    <3> QED BY <2>1, <2>2 DEF QualifiedGap
  <2>7. Direction(Bar(d)) \in {"bullish", "bearish"}
    BY <1>6 DEF Direction
  <2> HIDE DEF w, first, n
  <2>8. GapMatches(x, gap') <=> /\ GapDirection(first, c) = x.direction
                                /\ GapUpper(first, c) - GapLower(first, c) >= MinGap
    BY <1>6, <2>5, <2>6
  <2>9. CASE Direction(Bar(d)) = "bullish"
    <3>1. GapDirection(first, c) = "bullish" <=> c.low > first.high
      BY DEF GapDirection
    <3>2. c.low > first.high => GapUpper(first, c) = c.low /\ GapLower(first, c) = first.high
      BY DEF GapUpper, GapLower
    <3> QED BY <1>6, <2>4, <2>8, <2>9, <3>1, <3>2
  <2>10. CASE Direction(Bar(d)) = "bearish"
    <3>1. c.high < first.low => ~(c.low > first.high)
      BY <2>3
    <3>2. GapDirection(first, c) = "bearish" <=> c.high < first.low
      BY <3>1 DEF GapDirection
    <3>3. c.high < first.low => GapUpper(first, c) = first.low /\ GapLower(first, c) = c.high
      BY <3>1 DEF GapUpper, GapLower
    <3> QED BY <1>6, <2>4, <2>8, <2>10, <3>2, <3>3
  <2> QED BY <2>7, <2>9, <2>10
<1> QED BY <1>7, <1>8

\* A window at the end of the history is in one piece.
LEMMA TailInOrder ==
    ASSUME NEW h, HistoryOK(h), NEW n \in Nat \ {0}, NEW s, IsTail(s, h, n)
    PROVE  /\ Consecutive(s) /\ Len(h) \in Nat /\ Len(s) \in Nat /\ Len(s) <= Len(h) /\ Len(s) <= n
           /\ \A i \in 1 .. Len(s) : s[i] = h[Len(h) - Len(s) + i] /\ s[i].index = (Len(h) - Len(s) + i) - 1
           /\ Len(s) > 0 <=> Len(h) > 0
           /\ Len(h) > 0 => s[Len(s)] = h[Len(h)] /\ s[Len(s)].index = Len(h) - 1
<1> DEFINE m == Len(h)
           k == Len(s)
<1>1. /\ m \in Nat /\ k = (IF m <= n THEN m ELSE n) /\ \A i \in 1 .. k : s[i] = h[m - k + i]
  <2>1. h \in Seq(Candle)
    BY DEF HistoryOK
  <2>2. m \in Nat
    BY <2>1
  <2> QED BY <2>2 DEF IsTail
<1>2. k \in Nat /\ k <= m /\ k <= n /\ (k > 0 <=> m > 0)
  BY <1>1
<1> HIDE DEF m, k
<1>3. \A i \in 1 .. k : m - k + i \in 1 .. m
  BY <1>1, <1>2
<1>4. \A i \in 1 .. k : s[i].index = (m - k + i) - 1
  <2> SUFFICES ASSUME NEW i \in 1 .. k PROVE s[i].index = (m - k + i) - 1
    OBVIOUS
  <2>1. CandleOK(h[m - k + i], (m - k + i) - 1)
    <3>1. m - k + i \in 1 .. Len(h)
      BY <1>3 DEF m
    <3>2. \A j \in 1 .. Len(h) : CandleOK(h[j], j - 1)
      BY DEF HistoryOK
    <3> QED BY <3>1, <3>2
  <2> QED BY <1>1, <2>1 DEF CandleOK
<1>5. ASSUME NEW i \in 1 .. k - 1
      PROVE  s[i].index + 1 = s[i + 1].index /\ s[i].available <= s[i + 1].available
  <2>1. i \in 1 .. k /\ i + 1 \in 1 .. k
    BY <1>2
  <2>2. s[i].index = (m - k + i) - 1 /\ s[i + 1].index = (m - k + (i + 1)) - 1
    BY <1>4, <2>1
  <2>3. h[m - k + i].available <= h[m - k + (i + 1)].available
    <3>1. m - k + i \in 1 .. Len(h) /\ m - k + (i + 1) \in 1 .. Len(h)
      BY <1>3, <2>1 DEF m
    <3>2. m - k + i <= m - k + (i + 1)
      BY <1>1, <1>2
    <3> QED BY <3>1, <3>2 DEF HistoryOK
  <2>4. ((m - k + i) - 1) + 1 = (m - k + (i + 1)) - 1
    BY <1>1, <1>2
  <2> QED BY <1>1, <2>1, <2>2, <2>3, <2>4
<1>6. m > 0 => s[k] = h[m] /\ s[k].index = m - 1
  <2> SUFFICES ASSUME m > 0 PROVE s[k] = h[m] /\ s[k].index = m - 1
    OBVIOUS
  <2>1. k \in 1 .. k /\ m - k + k = m
    BY <1>1, <1>2
  <2> QED BY <1>1, <1>4, <2>1
<1>7. Consecutive(s)
  BY <1>5 DEF Consecutive, k
<1> QED BY <1>1, <1>2, <1>4, <1>6, <1>7 DEF m, k

\* So the history that is looked back at is accepted.
LEMMA TailAccepted ==
    ASSUME NEW h, HistoryOK(h), NEW s, IsTail(s, h, MaxLookback)
    PROVE  HistoryAccepted(s, Len(h))
<1>1. MaxLookback \in Nat \ {0}
  BY OrderBlockAssumption
<1>2. /\ Consecutive(s) /\ Len(h) \in Nat /\ Len(s) \in Nat /\ (Len(s) > 0 <=> Len(h) > 0)
      /\ Len(h) > 0 => s[Len(s)].index = Len(h) - 1
  BY <1>1, TailInOrder
<1>3. Len(s) = Min({Len(h), MaxLookback})
  <2>1. Len(s) = IF Len(h) <= MaxLookback THEN Len(h) ELSE MaxLookback
    BY DEF IsTail
  <2> QED BY <1>1, <1>2, <2>1, MinOfPair
<1>4. s # <<>> => Len(s) > 0
  <2>1. s \in Seq(Elements(s))
    BY DEF IsTail, IsSeq
  <2> QED BY <2>1
<1> QED BY <1>2, <1>3, <1>4 DEF HistoryAccepted

\* The facts of a block that is published.
LEMMA BlockIs ==
    ASSUME NEW h, NEW c, HistoryOK(h), HistoryOK(Append(h, c)), CandleOK(c, Len(h)),
           NEW d \in Nat, d = (IF config.requireFvg THEN Len(h) - 1 ELSE Len(h)),
           NEW k \in Nat, k \in d - MaxLookback .. d - 1,
           h[k + 1].available <= d, ZoneUpper(h[k + 1]) > ZoneLower(h[k + 1]),
           NEW D \in {"bullish", "bearish"}
    PROVE  BlockOK([displaced |-> d, candidate |-> k, direction |-> D,
                    lower |-> ZoneLower(h[k + 1]), upper |-> ZoneUpper(h[k + 1]),
                    index |-> c.index, available |-> c.available], Append(h, c))
<1> DEFINE g == Append(h, c)
           n == Len(h)
           b == [displaced |-> d, candidate |-> k, direction |-> D,
                 lower |-> ZoneLower(h[k + 1]), upper |-> ZoneUpper(h[k + 1]),
                 index |-> c.index, available |-> c.available]
<1>1. n \in Nat /\ Len(g) = n + 1 /\ g[n + 1] = c /\ (\A i \in 1 .. n : g[i] = h[i]) /\ c.index = n
  BY Longer DEF CandleOK
<1>2. MaxLookback \in Nat
  BY OrderBlockAssumption
<1>3. k \in 0 .. n - 1 /\ k + 1 \in 1 .. n
  BY <1>1, <1>2
<1>4. ZoneLower(h[k + 1]) \in Nat /\ ZoneUpper(h[k + 1]) \in Nat
  <2>1. CandleOK(h[k + 1], k)
    BY <1>3, CandlesAre
  <2> QED BY <2>1, ZonesAre
<1>5. g[k + 1].available <= d
  BY <1>1, <1>3
<1>6. /\ b.displaced = d /\ b.candidate = k /\ b.direction = D /\ b.lower = ZoneLower(h[k + 1])
      /\ b.upper = ZoneUpper(h[k + 1]) /\ b.index = n /\ b.available = g[n + 1].available
  BY <1>1
<1>7. n \in 0 .. Len(g) - 1 /\ ZoneLower(h[k + 1]) < ZoneUpper(h[k + 1])
  BY <1>1, <1>4
<1> HIDE DEF b, g, n
<1>8. d = IF config.requireFvg THEN n - 1 ELSE n
  BY DEF n
<1>9. BlockOK(b, g)
  BY <1>4, <1>5, <1>6, <1>7, <1>8 DEF BlockOK
<1> QED BY <1>9 DEF b, g

\* A block keeps them when the history grows.
LEMMA BlockStays ==
    ASSUME NEW h, NEW c, HistoryOK(h), HistoryOK(Append(h, c)), NEW b, BlockOK(b, h)
    PROVE  BlockOK(b, Append(h, c))
<1> DEFINE g == Append(h, c)
           n == Len(h)
<1>1. n \in Nat /\ Len(g) = n + 1 /\ \A i \in 1 .. n : g[i] = h[i]
  BY Longer
<1>2. MaxLookback \in Nat
  BY OrderBlockAssumption
<1>3. /\ b.index \in 0 .. n - 1 /\ b.candidate \in Nat
      /\ b.candidate \in b.displaced - MaxLookback .. b.displaced - 1
      /\ b.displaced = IF config.requireFvg THEN b.index - 1 ELSE b.index
  BY DEF BlockOK
<1>4. b.index + 1 \in 1 .. n /\ b.candidate + 1 \in 1 .. n /\ b.index \in 0 .. Len(g) - 1
  <2> HIDE DEF n, g
  <2>1. b.index \in Int /\ b.displaced \in Int /\ b.displaced <= b.index
    BY <1>1, <1>3
  <2>2. b.candidate <= b.displaced - 1
    BY <1>2, <1>3, <2>1
  <2>3. n \in Nat /\ b.index \in 0 .. n - 1 /\ b.candidate \in Nat /\ Len(g) = n + 1
    BY <1>1, <1>3
  <2>4. \A i, d, k \in Int : i <= n - 1 /\ i >= 0 /\ d <= i /\ k <= d - 1 /\ k >= 0 =>
          i + 1 \in 1 .. n /\ k + 1 \in 1 .. n /\ i \in 0 .. (n + 1) - 1
    BY <2>3
  <2>5. b.index <= n - 1 /\ b.index >= 0 /\ b.candidate >= 0 /\ b.candidate \in Int
    BY <2>3
  <2>6. b.index + 1 \in 1 .. n /\ b.candidate + 1 \in 1 .. n /\ b.index \in 0 .. (n + 1) - 1
    BY <2>1, <2>2, <2>4, <2>5
  <2> QED BY <2>3, <2>6
<1>5. g[b.index + 1] = h[b.index + 1] /\ g[b.candidate + 1] = h[b.candidate + 1]
  BY <1>1, <1>4
<1> HIDE DEF g
<1>6. BlockOK(b, g)
  BY <1>4, <1>5 DEF BlockOK
<1> QED BY <1>6 DEF g

\* What the displacement of candle d leaves in the newest frame.
MadeAt(d) ==
    IF Makes(d) /\ (config.requireFvg => GapAround(d))
    THEN {<<d, Source(d), Now, ZoneLower(Bar(Source(d))), ZoneUpper(Bar(Source(d)))>>}
    ELSE {}

Summaries(S) == {<<b.displaced, b.candidate, b.index, b.lower, b.upper>> : b \in S}

MadeIsPublished ==
    \A d : d = (IF config.requireFvg THEN Now - 1 ELSE Now) =>
             (BlocksAreLastOpposing <=> (d >= 0 => Summaries(At(Now).blocks) = MadeAt(d)))

\* The claim about blocks, with what a candle made under a name of its own.
LEMMA MadeAtIs == MadeIsPublished
BY DEF MadeIsPublished, BlocksAreLastOpposing, MadeAt, Summaries

NowIsNow ==
    \A d : d = Now => /\ Makes(d) <=> Makes(Now)
                      /\ Source(d) = Source(Now) /\ Opposing(d) = Opposing(Now)

\* Equal candles make equal blocks (said of d, because the provers rewrite a bound name only).
LEMMA AtNow == NowIsNow
BY DEF NowIsNow

\* The facts of the source of a block that a candle makes.
SourceOK(d, k) ==
    /\ k \in Nat /\ k \in d - MaxLookback .. d - 1 /\ Bar(k).available <= d
    /\ ZoneUpper(Bar(k)) > ZoneLower(Bar(k))

SourcesOK == \A d \in Int : \A k \in Opposing(d) : SourceOK(d, k)

\* An opposing candle is early enough, known and has a zone.
LEMMA OpposingIs == SourcesOK
<1> SUFFICES ASSUME NEW d \in Int, NEW k \in Opposing(d) PROVE SourceOK(d, k)
  BY DEF SourcesOK
<1>1. MaxLookback \in Nat
  BY OrderBlockAssumption
<1> QED BY <1>1 DEF Opposing, SourceOK

\* The newest candle makes the block that the analyzer forms of it.
LEMMA NewestMakes ==
    ASSUME LinkInv, DisplacementInv, BlocksInv, NEW c, Step(c), NEW d, d = Len(Bars)
    PROVE  LET x == displacement'
               k == Source(d)'
           IN  /\ DisplacementOK(x, d, c)
               /\ Forms(history, x, c.close, snapshot'.events) <=> Makes(d)'
               /\ Makes(d)' => /\ x.event /\ x.direction \in {"bullish", "bearish"}
                               /\ k \in Nat /\ k + 1 \in 1 .. Len(Bars)
                               /\ k \in d - MaxLookback .. d - 1
                               /\ Bars[k + 1].available <= d
                               /\ ZoneUpper(Bars[k + 1]) > ZoneLower(Bars[k + 1])
                               /\ Selected(history, x) = Bars[k + 1] /\ Bars[k + 1].index = k
                               /\ Bar(Source(d))' = Bars[k + 1]
                               /\ ZoneLower(Bar(Source(d)))' = ZoneLower(Bars[k + 1])
                               /\ ZoneUpper(Bar(Source(d)))' = ZoneUpper(Bars[k + 1])
<1> DEFINE x == displacement'
           k == Source(d)'
           n == Len(Bars)
<1>1. /\ n \in Nat /\ Now' = d /\ Indices = 0 .. n - 1 /\ config' = config /\ Bar(Now)' = c
      /\ Indices' = 0 .. n
      /\ \A i \in Indices : Bar(i)' = Bar(i) /\ Bar(i) = Bars[i + 1] /\ CandleOK(Bar(i), i)
  BY EarlierFrames
<1>2. DisplacementOK(x, d, c)
  <2>1. DisplacementInv' /\ LinkInv'
    BY DisplacementStays, LinkStays
  <2>2. frames'[d + 1].displacement = x /\ frames'[d + 1].candle = c
    BY NewestFrame
  <2>3. d \in Indices'
    BY <1>1
  <2>4. DisplacementOK(At(d).displacement, d, Bar(d))'
    BY <2>1, <2>3 DEF DisplacementInv
  <2> QED BY <2>2, <2>4 DEF At, Bar, DisplacementOK
<1>3. /\ Makes(d)' <=> Makes(Now)'
      /\ Source(d)' = Source(Now)' /\ Opposing(d)' = Opposing(Now)'
  <2>1. NowIsNow'
    BY AtNow, PTL
  <2> QED BY <1>1, <2>1 DEF NowIsNow
<1>4. Forms(history, x, c.close, snapshot'.events) <=> Makes(d)'
  BY <1>2, <1>3, FormsAgrees
<1>5. ASSUME Makes(d)'
      PROVE  /\ x.event /\ x.direction \in {"bullish", "bearish"}
             /\ k \in Nat /\ k + 1 \in 1 .. n /\ k \in d - MaxLookback .. d - 1
             /\ Bars[k + 1].available <= d
             /\ ZoneUpper(Bars[k + 1]) > ZoneLower(Bars[k + 1])
             /\ Selected(history, x) = Bars[k + 1] /\ Bars[k + 1].index = k
             /\ Bar(Source(d))' = Bars[k + 1]
             /\ ZoneLower(Bar(Source(d)))' = ZoneLower(Bars[k + 1])
             /\ ZoneUpper(Bar(Source(d)))' = ZoneUpper(Bars[k + 1])
  <2>1. x.event
    BY <1>4, <1>5 DEF Forms
  <2>2. x.direction \in {"bullish", "bearish"}
    BY <1>2, <2>1 DEF DisplacementOK, Direction
  <2>3. Opposing(d)' # {}
    BY <1>5 DEF Makes
  <2>4. /\ k \in Opposing(d)' /\ k \in Indices /\ Selected(history, x) = Bars[k + 1]
    <3>1. x.index = n /\ x.direction = Direction(c)
      BY <1>2 DEF DisplacementOK
    <3> QED BY <1>3, <2>3, <3>1, SelectedIs
  <2>5. PICK m : m = k
    OBVIOUS
  <2>6. SourceOK(d, m)'
    <3>1. SourcesOK'
      BY OpposingIs, PTL
    <3> HIDE DEF k
    <3> QED BY <1>1, <2>4, <2>5, <3>1 DEF SourcesOK
  <2>7. m \in Indices /\ Bar(m)' = Bars[m + 1] /\ CandleOK(Bars[m + 1], m)
    <3> HIDE DEF k
    <3> QED BY <1>1, <2>4, <2>5
  <2>8. /\ ZoneLower(Bar(m))' = ZoneLower(Bars[m + 1])
        /\ ZoneUpper(Bar(m))' = ZoneUpper(Bars[m + 1])
    BY <1>1, <2>7 DEF ZoneLower, ZoneUpper
  <2>9. /\ m \in Nat /\ m \in d - MaxLookback .. d - 1 /\ Bars[m + 1].available <= d
        /\ ZoneUpper(Bars[m + 1]) > ZoneLower(Bars[m + 1]) /\ Bars[m + 1].index = m
    BY <2>6, <2>7, <2>8 DEF SourceOK, CandleOK
  <2>10. m + 1 \in 1 .. n
    BY <1>1, <2>7
  <2>11. Bar(Source(d))' = Bars[m + 1]
    BY <2>5, <2>7 DEF Bar
  <2>12. /\ ZoneLower(Bar(Source(d)))' = ZoneLower(Bars[m + 1])
         /\ ZoneUpper(Bar(Source(d)))' = ZoneUpper(Bars[m + 1])
    BY <1>1, <2>11 DEF ZoneLower, ZoneUpper
  <2> HIDE DEF k, x, n
  <2> QED BY <2>1, <2>2, <2>4, <2>5, <2>9, <2>10, <2>11, <2>12
<1> QED BY <1>2, <1>4, <1>5

\* The block of the newest candle, or the one that waited for it, is published.
LEMMA BlocksPublished ==
    ASSUME LinkInv, DisplacementInv, BlocksInv, NEW c, Step(c),
           NEW d, d = (IF config.requireFvg THEN Len(Bars) - 1 ELSE Len(Bars))
    PROVE  /\ d >= 0 => Summaries(blocks') = MadeAt(d)'
           /\ \A b \in blocks' : BlockOK(b, Append(Bars, c)) /\ b.index = Len(Bars)
           /\ \A b, e \in blocks' : b = e
<1> DEFINE n == Len(Bars)
           g == Append(Bars, c)
           x == displacement'
           Made(y, k) == [displaced |-> d, candidate |-> k, direction |-> y.direction,
                          lower |-> ZoneLower(Bars[k + 1]), upper |-> ZoneUpper(Bars[k + 1]),
                          index |-> c.index, available |-> c.available]
<1>1. /\ n \in Nat /\ Now = n - 1 /\ Now' = n /\ config' = config /\ CandleOK(c, n) /\ c.index = n
      /\ Indices = 0 .. n - 1 /\ HistoryOK(Bars) /\ HistoryOK(g)
      /\ \A i \in Indices : Bar(i) = Bars[i + 1] /\ CandleOK(Bar(i), i)
  BY EarlierFrames, StepIs DEF CandleOK
<1>2. OrderBlockUpdate(c)
  BY DEF Step, Analyze
<1>3. ASSUME NEW k, NEW y, k \in Nat, k \in d - MaxLookback .. d - 1, Bars[k + 1].available <= d,
             ZoneUpper(Bars[k + 1]) > ZoneLower(Bars[k + 1]), d >= 0,
             y.direction \in {"bullish", "bearish"}
      PROVE  /\ BlockOK(Made(y, k), g) /\ Made(y, k).index = n
             /\ Summaries({Made(y, k)}) =
                  {<<d, k, n, ZoneLower(Bars[k + 1]), ZoneUpper(Bars[k + 1])>>}
  <2>1. d \in Nat
    BY <1>1, <1>3
  <2>2. BlockOK(Made(y, k), g)
    BY <1>1, <1>3, <2>1, BlockIs
  <2>3. /\ Made(y, k).displaced = d /\ Made(y, k).candidate = k /\ Made(y, k).index = n
        /\ Made(y, k).lower = ZoneLower(Bars[k + 1]) /\ Made(y, k).upper = ZoneUpper(Bars[k + 1])
    BY <1>1
  <2> HIDE DEF Made
  <2> QED BY <2>2, <2>3 DEF Summaries
<1>4. CASE ~config.requireFvg
  <2>1. d = n
    BY <1>4
  <2> DEFINE k == Source(d)'
             forms == Forms(history, x, c.close, snapshot'.events)
  <2>2. /\ DisplacementOK(x, d, c) /\ (forms <=> Makes(d)')
        /\ forms => /\ x.direction \in {"bullish", "bearish"}
                    /\ k \in Nat /\ k \in d - MaxLookback .. d - 1
                    /\ Bars[k + 1].available <= d
                    /\ ZoneUpper(Bars[k + 1]) > ZoneLower(Bars[k + 1])
                    /\ Selected(history, x) = Bars[k + 1] /\ Bars[k + 1].index = k
                    /\ ZoneLower(Bar(Source(d)))' = ZoneLower(Bars[k + 1])
                    /\ ZoneUpper(Bar(Source(d)))' = ZoneUpper(Bars[k + 1])
    BY <2>1, NewestMakes
  <2>3. blocks' = IF forms THEN {Block(history, x, c)} ELSE {}
    BY <1>2, <1>4 DEF OrderBlockUpdate
  <2> HIDE DEF forms, x
  <2>4. CASE forms
    <3>1. x.index = d
      BY <2>2 DEF DisplacementOK
    <3>2. Block(history, x, c) = Made(x, k)
      <4> HIDE DEF k
      <4> QED BY <2>2, <2>4, <3>1 DEF Block
    <3>3. d >= 0
      BY <1>1, <2>1
    <3>4. /\ BlockOK(Made(x, k), g) /\ Made(x, k).index = n
          /\ Summaries({Made(x, k)}) =
               {<<d, k, n, ZoneLower(Bars[k + 1]), ZoneUpper(Bars[k + 1])>>}
      <4> HIDE DEF k, Made
      <4> QED BY <1>3, <2>2, <2>4, <3>3
    <3>5. MadeAt(d)' = {<<d, k, n, ZoneLower(Bars[k + 1]), ZoneUpper(Bars[k + 1])>>}
      BY <1>1, <1>4, <2>2, <2>4 DEF MadeAt
    <3> HIDE DEF Made, k
    <3>6. blocks' = {Made(x, k)}
      BY <2>3, <2>4, <3>2
    <3> QED BY <3>4, <3>5, <3>6
  <2>5. CASE ~forms
    <3>1. blocks' = {} /\ MadeAt(d)' = {}
      BY <2>2, <2>3, <2>5 DEF MadeAt
    <3> QED BY <3>1 DEF Summaries
  <2> QED BY <2>4, <2>5
<1>5. CASE config.requireFvg
  <2> DEFINE waiting == {q \in pending : GapMatches(q.displaced, gap')}
  <2>1. d = n - 1 /\ d = Now
    BY <1>1, <1>5
  <2>2. blocks' = {Block(p.past, p.displaced, c) : p \in waiting}
    BY <1>2, <1>5 DEF OrderBlockUpdate
  <2>3. CASE pending = {}
    <3>1. blocks' = {}
      <4>1. waiting = {}
        BY <2>3
      <4> HIDE DEF waiting
      <4> QED BY <2>2, <4>1
    <3>2. d >= 0 => ~Makes(d)
      BY <1>5, <2>1, <2>3 DEF BlocksInv
    <3>3. d >= 0 => ~Makes(d)'
      <4> SUFFICES ASSUME d >= 0 PROVE ~Makes(d)'
        OBVIOUS
      <4>1. d \in Indices
        BY <1>1, <2>1
      <4>2. Makes(d)' <=> Makes(d)
        BY <4>1, MakesStays
      <4> QED BY <3>2, <4>2
    <3> QED BY <3>1, <3>3 DEF MadeAt, Summaries
  <2>4. CASE pending # {}
    <3> DEFINE k == Source(d)
    <3>1. d >= 0 /\ d \in Indices /\ Makes(d)
      BY <1>1, <2>1, <2>4 DEF BlocksInv
    <3>2. PICK p \in pending : TRUE
      BY <2>4
    <3>3. pending = {p} /\ p.displaced = displacement
          /\ Selected(p.past, displacement) = Bar(k)
      BY <2>1, <3>2 DEF BlocksInv
    <3>4. displacement.event /\ DisplacementOK(displacement, d, Bar(d)) /\ Opposing(d) # {}
      <4>1. At(d).displacement = displacement
        BY <2>1, <3>1 DEF LinkInv
      <4> QED BY <3>1, <4>1 DEF Makes, DisplacementInv
    <3>5. displacement.direction \in {"bullish", "bearish"} /\ displacement.index = d
      BY <3>4 DEF DisplacementOK, Direction
    <3>6. k \in Opposing(d) /\ k \in Indices
      BY <3>1, <3>4, SourceIs
    <3>7. SourceOK(d, k) /\ Bar(k) = Bars[k + 1] /\ Bar(k).index = k
      <4>1. d \in Int
        BY <1>1, <2>1
      <4>2. SourceOK(d, k)
        BY <3>6, <4>1, OpposingIs DEF SourcesOK
      <4>3. CandleOK(Bar(k), k) /\ Bar(k) = Bars[k + 1]
        BY <1>1, <3>6
      <4> QED BY <4>2, <4>3 DEF CandleOK
    <3>8. GapMatches(displacement, gap') <=> GapAround(d)'
      BY <2>1, <3>1, <3>4, GapsAgree
    <3>9. /\ Makes(d)' /\ Source(d)' = k
          /\ ZoneLower(Bar(Source(d)))' = ZoneLower(Bar(k))
          /\ ZoneUpper(Bar(Source(d)))' = ZoneUpper(Bar(k))
      BY <3>1, <3>4, MakesStays
    <3>10. Block(p.past, p.displaced, c) = Made(displacement, k)
      <4> HIDE DEF k
      <4> QED BY <3>3, <3>5, <3>7 DEF Block
    <3>11. /\ BlockOK(Made(displacement, k), g) /\ Made(displacement, k).index = n
           /\ Summaries({Made(displacement, k)}) =
                {<<d, k, n, ZoneLower(Bars[k + 1]), ZoneUpper(Bars[k + 1])>>}
      <4> HIDE DEF k, Made
      <4> QED BY <1>3, <3>1, <3>5, <3>7 DEF SourceOK
    <3>12. MadeAt(d)' = IF GapAround(d)'
                        THEN {<<d, k, n, ZoneLower(Bars[k + 1]), ZoneUpper(Bars[k + 1])>>}
                        ELSE {}
      BY <1>1, <1>5, <3>7, <3>9 DEF MadeAt
    <3>13. waiting = IF GapAround(d)' THEN {p} ELSE {}
      BY <3>3, <3>8
    <3> HIDE DEF waiting, Made, k
    <3>14. blocks' = IF GapAround(d)' THEN {Made(displacement, k)} ELSE {}
      BY <2>2, <3>10, <3>13
    <3> QED BY <3>11, <3>12, <3>14 DEF Summaries
  <2> QED BY <2>3, <2>4
<1> QED BY <1>4, <1>5

\* The analyzer keeps to the blocks of the history.
LEMMA BlocksStay ==
    ASSUME LinkInv, DisplacementInv, BlocksInv, NEW c, Step(c) PROVE BlocksInv'
<1> DEFINE n == Len(Bars)
           g == Append(Bars, c)
           x == displacement'
           forms == Forms(history, x, c.close, snapshot'.events)
<1>1. /\ n \in Nat /\ Now = n - 1 /\ Now' = n /\ config' = config /\ Bars' = g
      /\ Indices = 0 .. n - 1 /\ Indices' = 0 .. n /\ HistoryOK(Bars) /\ HistoryOK(g)
      /\ \A i \in Indices : At(i)' = At(i) /\ Bar(i) = Bars[i + 1]
  BY EarlierFrames, StepIs
<1>2. OrderBlockUpdate(c)
  BY DEF Step, Analyze
<1>3. frames'[n + 1].blocks = blocks'
  BY NewestFrame
<1>4. config' \in Configurations
  BY <1>1 DEF BlocksInv
<1>5. IsTail(history', Bars', MaxLookback)
  <2>1. MaxLookback \in Nat \ {0} /\ history' = Slide(history, c, MaxLookback)
    BY <1>2, OrderBlockAssumption DEF OrderBlockUpdate
  <2> QED BY <2>1, WindowFollows DEF BlocksInv
<1>6. /\ pending' # {} <=> Now' >= 0 /\ config'.requireFvg /\ Makes(Now)'
      /\ \A p \in pending' : /\ p.displaced = x /\ HistoryAccepted(p.past, Now)'
                             /\ (Selected(p.past, displacement) = Bar(Source(Now)))'
      /\ \A p, q \in pending' : p = q
  <2>1. PICK d : d = n
    OBVIOUS
  <2> DEFINE k == Source(d)'
  <2>2. /\ forms <=> Makes(d)'
        /\ forms => Selected(history, x) = Bars[k + 1] /\ Bar(Source(d))' = Bars[k + 1]
    BY <2>1, NewestMakes
  <2>3. Makes(d)' <=> Makes(Now)'
    <3>1. NowIsNow'
      BY AtNow, PTL
    <3> QED BY <1>1, <2>1, <3>1 DEF NowIsNow
  <2>4. pending' = IF config.requireFvg /\ forms THEN {[past |-> history, displaced |-> x]} ELSE {}
    BY <1>2 DEF OrderBlockUpdate
  <2>5. HistoryAccepted(history, n)
    BY <1>1, TailAccepted DEF BlocksInv
  <2>6. HistoryAccepted(history, Now')
    BY <1>1, <2>5
  <2>7. ASSUME forms, NEW p, p = [past |-> history, displaced |-> x]
        PROVE  /\ p.displaced = x /\ p.past = history /\ HistoryAccepted(p.past, Now)'
               /\ (Selected(p.past, displacement) = Bar(Source(Now)))'
    <3>1. p.displaced = x /\ p.past = history
      BY <2>7
    <3>2. HistoryAccepted(p.past, Now)'
      BY <2>6, <3>1 DEF HistoryAccepted, Consecutive
    <3>3. Selected(p.past, displacement)' = Selected(history, x)
      BY <1>1, <3>1 DEF Selected, Candidates, Candidate, ZoneLower, ZoneUpper
    <3>4. Bar(Source(Now))' = Bar(Source(d))'
      <4>1. NowIsNow'
        BY AtNow, PTL
      <4>2. Source(d)' = Source(Now)'
        BY <1>1, <2>1, <4>1 DEF NowIsNow
      <4> QED BY <4>2 DEF Bar
    <3> QED BY <2>2, <2>7, <3>1, <3>2, <3>3, <3>4
  <2> HIDE DEF forms, x
  <2>8. pending' # {} <=> config.requireFvg /\ forms
    BY <2>4
  <2>9. Now' >= 0
    BY <1>1
  <2>10. \A p \in pending' : forms /\ p = [past |-> history, displaced |-> x]
    BY <2>4
  <2>11. \A p \in pending' : /\ p.displaced = x /\ HistoryAccepted(p.past, Now)'
                             /\ (Selected(p.past, displacement) = Bar(Source(Now)))'
    BY <2>7, <2>10
  <2> QED BY <1>1, <2>2, <2>3, <2>8, <2>9, <2>10, <2>11
<1>7. PICK d : d = IF config.requireFvg THEN n - 1 ELSE n
  OBVIOUS
<1>8. /\ d >= 0 => Summaries(blocks') = MadeAt(d)'
      /\ \A b \in blocks' : BlockOK(b, g) /\ b.index = n
      /\ \A b, e \in blocks' : b = e
  BY <1>7, BlocksPublished
<1>9. At(Now)'.blocks = blocks'
  BY <1>1, <1>3 DEF At
<1>10. BlocksAreLastOpposing'
  <2>1. MadeIsPublished'
    BY MadeAtIs, PTL
  <2>2. Summaries(At(Now).blocks)' = Summaries(blocks')
    BY <1>9 DEF Summaries
  <2> QED BY <1>1, <1>7, <1>8, <2>1, <2>2 DEF MadeIsPublished
<1>11. \A i \in Indices' : \A b \in At(i)'.blocks : BlockOK(b, Bars)' /\ b.index = i
  <2>a. \A b : BlockOK(b, Bars)' <=> BlockOK(b, g)
    BY <1>1 DEF BlockOK
  <2> SUFFICES ASSUME NEW i \in Indices', NEW b \in At(i)'.blocks
               PROVE  BlockOK(b, g) /\ b.index = i
    BY <2>a
  <2>1. CASE i = n
    <3>1. b \in blocks'
      BY <1>3, <2>1 DEF At
    <3> QED BY <1>8, <2>1, <3>1
  <2>2. CASE i # n
    <3>1. i \in Indices
      BY <1>1, <2>2
    <3>2. b \in At(i).blocks
      BY <1>1, <3>1
    <3>3. BlockOK(b, Bars) /\ b.index = i
      BY <3>1, <3>2 DEF BlocksInv
    <3> QED BY <1>1, <3>3, BlockStays
  <2> QED BY <2>1, <2>2
<1> HIDE DEF n, g, forms
<1> QED BY <1>4, <1>5, <1>6, <1>8, <1>10, <1>11 DEF BlocksInv

-----------------------------------------------------------------------------
(* What becomes of the blocks.                                             *)

\* The blocks published so far, and those of the newest frame.
LEMMA PublishedGrows ==
    ASSUME LinkInv, BlocksInv, NEW c, Step(c)
    PROVE  /\ Published' = Published \cup blocks'
           /\ \A b \in Published : b.index \in 0 .. Len(Bars) - 1
<1> DEFINE n == Len(Bars)
           F == [i \in 0 .. n |-> frames'[i + 1].blocks]
           G == [i \in 0 .. n - 1 |-> frames[i + 1].blocks]
<1>1. /\ n \in Nat /\ Indices = 0 .. n - 1 /\ Indices' = 0 .. n
      /\ \A i \in Indices : At(i)' = At(i)
  BY EarlierFrames
<1>2. frames'[n + 1].blocks = blocks'
  BY NewestFrame
<1>3. Published' = UNION {F[i] : i \in 0 .. n} /\ Published = UNION {G[i] : i \in 0 .. n - 1}
  BY <1>1 DEF Published, At
<1>4. F[n] = blocks' /\ \A i \in 0 .. n - 1 : F[i] = G[i]
  <2>1. n \in 0 .. n /\ \A i \in 0 .. n - 1 : i \in 0 .. n
    BY <1>1
  <2> QED BY <1>1, <1>2, <2>1 DEF At
<1>5. \A b \in Published : b.index \in 0 .. n - 1
  <2> SUFFICES ASSUME NEW b \in Published PROVE b.index \in 0 .. n - 1
    OBVIOUS
  <2>1. PICK i \in Indices : b \in At(i).blocks
    BY DEF Published
  <2> QED BY <1>1, <2>1 DEF BlocksInv
<1> HIDE DEF F, G, n
<1>6. UNION {F[i] : i \in 0 .. n} = (UNION {G[i] : i \in 0 .. n - 1}) \cup F[n]
  BY <1>1, <1>4, OneMore
<1>7. Published' = Published \cup blocks'
  BY <1>3, <1>4, <1>6
<1> QED BY <1>5, <1>7 DEF n

\* The closes beyond a block and the returns into it, with the newest candle.
LEMMA ReturnsGrow ==
    ASSUME LinkInv, NEW c, Step(c), NEW b, b.index \in 0 .. Len(Bars)
    PROVE  LET n == Len(Bars)
           IN  /\ Beyonds(b)' = Beyonds(b) \cup {i \in {n} : Violates(b, c.close)}
               /\ Returns(b)' = Returns(b) \cup
                                  {i \in {n} : KnownAtOpen(b, c) /\ Intersects(b, c)}
               /\ n \notin Beyonds(b) /\ n \notin Returns(b)
               /\ b.index = n => Beyonds(b) = {} /\ Returns(b) = {} /\ ~KnownAtOpen(b, c)
<1> DEFINE n == Len(Bars)
<1>1. /\ n \in Nat /\ Now = n - 1 /\ Now' = n /\ Indices = 0 .. n - 1 /\ c.index = n
      /\ \A i \in Indices : Bar(i)' = Bar(i)
  BY EarlierFrames DEF CandleOK
<1>2. frames'[n + 1].candle = c
  BY NewestFrame
<1>3. b.index \in Int /\ b.index >= 0 /\ b.index <= n
  BY <1>1
<1>4. ASSUME NEW i \in b.index .. n, i # n
      PROVE  i \in b.index .. Now /\ frames'[i + 1].candle = Bar(i)
  <2>1. i \in Indices /\ i \in b.index .. Now
    BY <1>1, <1>3, <1>4
  <2> QED BY <1>1, <2>1 DEF Bar
<1> HIDE DEF n
<1>5. Beyonds(b)' = {i \in b.index .. n : Violates(b, frames'[i + 1].candle.close)}
  BY <1>1 DEF Beyonds, Bar
<1>6. Returns(b)' = {i \in b.index + 1 .. n : /\ KnownAtOpen(b, frames'[i + 1].candle)
                                              /\ Intersects(b, frames'[i + 1].candle)}
  BY <1>1 DEF Returns, Bar
<1>7. /\ b.index .. n = (b.index .. Now) \cup {n}
      /\ \A i \in b.index .. Now : i \in b.index .. n /\ i # n
      /\ \A i \in b.index + 1 .. Now : i \in b.index .. n /\ i # n /\ i \in b.index + 1 .. n
      /\ \A i \in b.index + 1 .. n : i = n \/ i \in b.index + 1 .. Now
      /\ b.index < n => n \in b.index + 1 .. n
  BY <1>1, <1>3
<1>8. Beyonds(b)' = Beyonds(b) \cup {i \in {n} : Violates(b, c.close)}
  BY <1>2, <1>4, <1>5, <1>7 DEF Beyonds
<1>9. KnownAtOpen(b, c) => b.index < n
  BY <1>1 DEF KnownAtOpen
<1>10. Returns(b)' = Returns(b) \cup {i \in {n} : KnownAtOpen(b, c) /\ Intersects(b, c)}
  BY <1>2, <1>4, <1>6, <1>7, <1>9 DEF Returns
<1>11. n \notin Beyonds(b) /\ n \notin Returns(b)
  BY <1>7 DEF Beyonds, Returns
<1>12. ASSUME b.index = n PROVE Beyonds(b) = {} /\ Returns(b) = {} /\ ~KnownAtOpen(b, c)
  <2>1. b.index .. Now = {} /\ b.index + 1 .. Now = {}
    BY <1>1, <1>12
  <2> QED BY <1>1, <1>3, <1>9, <1>12, <2>1 DEF Beyonds, Returns
<1> QED BY <1>8, <1>10, <1>11, <1>12 DEF n

\* A candle shifts the structure at most once, on what was known when it opened.
LEMMA ShiftStays ==
    ASSUME LinkInv, StructureInv, DisplacementInv, NEW c, Step(c)
    PROVE  /\ \A m \in shift' : ShiftOK(m)'
           /\ \A m, e \in shift' : m = e
           /\ \A m \in shift' : m.direction \in {"bullish", "bearish"}
<1> DEFINE n == Len(Bars)
           g == Append(Bars, c)
           x == displacement'
<1>1. /\ n \in Nat /\ Now = n - 1 /\ Now' = n /\ Indices = 0 .. n - 1 /\ c.index = n
      /\ \A i \in Indices : Bar(i)' = Bar(i)
  BY EarlierFrames DEF CandleOK
<1>2. HistoryOK(Bars) /\ HistoryOK(g) /\ Bars' = g
  BY StepIs
<1>3. shift' = Shifts(c)
  BY DEF Step, Analyze, ShiftUpdate
<1>4. snapshot'.events = {EventIn(g, kind, n) : kind \in BrokenIn(g, n)}
  <2>1. StructureInv'
    BY StructureStays
  <2>2. snapshot'.events = {EventIn(Bars', kind, Now') : kind \in BrokenIn(Bars', Now')}
    BY <1>1, <2>1 DEF StructureInv
  <2> QED BY <1>1, <1>2, <2>2
<1>5. \A f, e \in snapshot'.events : f.direction = e.direction => f = e
  <2>1. \A kind : EventIn(g, kind, n).direction = Toward(kind)
    BY DEF EventIn
  <2>2. BrokenIn(g, n) \subseteq Kinds
    BY DEF BrokenIn, WithPivots
  <2>3. \A k, l \in Kinds : Toward(k) = Toward(l) => k = l
    BY DEF Kinds, Toward
  <2> HIDE DEF g, n
  <2> QED BY <1>4, <2>1, <2>2, <2>3
<1>6. ASSUME NEW m \in shift'
      PROVE  \E e \in snapshot'.events :
               /\ m = [index |-> c.index, direction |-> x.direction, level |-> e.level,
                       available |-> c.available]
               /\ e.direction = x.direction /\ x.event /\ snapshot.ready
               /\ snapshot.available <= c.index /\ e.level.confirmed < c.index
               /\ e.level.available <= c.index
  BY <1>3 DEF Shifts
<1>7. \A m, e \in shift' : m = e
  BY <1>5, <1>6
<1>8. snapshot.ready => n > 0
  <2> SUFFICES ASSUME snapshot.ready, ~(n > 0) PROVE FALSE
    OBVIOUS
  <2>1. ReadyIn(Bars, Now) /\ Now = -1
    BY <1>1 DEF StructureInv
  <2>2. "low" \in Kinds
    BY DEF Kinds
  <2>3. PivotsIn(Bars, "low", Now) # {}
    BY <2>1, <2>2 DEF ReadyIn
  <2> QED BY <1>1, <2>3 DEF PivotsIn
<1>9. ASSUME NEW m \in shift' PROVE ShiftOK(m)' /\ m.direction \in {"bullish", "bearish"}
  <2>1. PICK e \in snapshot'.events :
               /\ m = [index |-> c.index, direction |-> x.direction, level |-> e.level,
                       available |-> c.available]
               /\ e.direction = x.direction /\ x.event /\ snapshot.ready
               /\ snapshot.available <= c.index /\ e.level.confirmed < c.index
               /\ e.level.available <= c.index
    BY <1>6
  <2>2. /\ m.index = n /\ m.direction = x.direction /\ m.level = e.level
    BY <1>1, <2>1
  <2>3. n - 1 \in Indices /\ ~(Now < 0)
    BY <1>1, <1>8, <2>1
  <2>4. snapshot.available = Bar(Now).available
    BY <2>3 DEF StructureInv
  <2>5. Bar(Now - 1)' = Bar(Now)
    <3>1. frames'[(n - 1) + 1].candle = frames[(n - 1) + 1].candle
      BY <1>1, <2>3 DEF Bar
    <3> QED BY <1>1, <3>1 DEF Bar
  <2>6. ShiftOK(m)'
    BY <1>1, <2>1, <2>2, <2>4, <2>5 DEF ShiftOK
  <2>7. e.direction \in {"bullish", "bearish"}
    <3>1. \A kind : EventIn(g, kind, n).direction \in {"bullish", "bearish"}
      BY DEF EventIn, Toward
    <3> HIDE DEF g, n
    <3> QED BY <1>4, <3>1
  <2> QED BY <2>1, <2>2, <2>6, <2>7
<1> QED BY <1>7, <1>9

\* The blocks that a close has not yet settled.
LEMMA CandidatesStay ==
    ASSUME LinkInv, StructureInv, DisplacementInv, BlocksInv, ZoneInv, NEW c, Step(c)
    PROVE  /\ (seen = Published)' /\ IsFiniteSet(seen)'
           /\ (candidates = {b \in Published : Beyonds(b) = {}})'
           /\ {v.block : v \in violations'} = {b \in Published' : Beyonds(b)' = {Len(Bars)}}
           /\ IsFiniteSet(violations')
           /\ \A v \in violations' : /\ v = Violation(v.block, c)
                                     /\ v.block.index \in 0 .. Len(Bars) /\ Beyonds(v.block) = {}
                                     /\ v.block \in Published'
<1> DEFINE n == Len(Bars)
           P == Published \cup blocks'
           violated == {b \in candidates \cup blocks' : Violates(b, c.close)}
<1>1. n \in Nat /\ c.index = n
  BY EarlierFrames DEF CandleOK
<1>2. Published' = P /\ \A b \in Published : b.index \in 0 .. n - 1
  BY PublishedGrows
<1>3. BlocksInv'
  BY BlocksStay
<1>4. /\ violations' = {Violation(b, c) : b \in violated}
      /\ candidates' = (candidates \cup blocks') \ violated /\ seen' = seen \cup blocks'
  BY DEF Step, Analyze, BreakerUpdate
<1>5. \A b \in blocks' : b.index = n
  <2>1. At(Now)'.blocks = blocks' /\ Now' = n /\ Indices' = 0 .. n
    BY NewestFrame, EarlierFrames DEF At
  <2>2. \A b \in At(Now)'.blocks : b.index = Now'
    <3>1. \A i \in Indices' : \A b \in frames'[i + 1].blocks : b.index = i
      BY <1>3 DEF BlocksInv, At
    <3>2. Now' \in Indices'
      BY <1>1, <2>1
    <3> QED BY <3>1, <3>2 DEF At
  <2> QED BY <2>1, <2>2
<1>6. \A b \in P : b.index \in 0 .. n
  BY <1>1, <1>2, <1>5
<1>7. \A b \in P : /\ Beyonds(b)' = Beyonds(b) \cup {i \in {n} : Violates(b, c.close)}
                   /\ n \notin Beyonds(b) /\ (b.index = n => Beyonds(b) = {})
  BY <1>6, ReturnsGrow
<1>8. candidates \cup blocks' = {b \in P : Beyonds(b) = {}}
  <2>1. candidates = {b \in Published : Beyonds(b) = {}}
    BY DEF ZoneInv
  <2>2. \A b \in blocks' : Beyonds(b) = {}
    BY <1>5, <1>7
  <2> QED BY <2>1, <2>2
<1>9. IsFiniteSet(seen) /\ IsFiniteSet(blocks')
  <2>1. IsFiniteSet(seen)
    BY DEF ZoneInv
  <2>2. blocks' = {} \/ \E b : blocks' = {b}
    BY <1>3 DEF BlocksInv
  <2>3. CASE blocks' = {}
    BY <2>1, <2>3, FS_EmptySet
  <2>4. CASE \E b : blocks' = {b}
    <3>1. PICK b : blocks' = {b}
      BY <2>4
    <3>2. IsFiniteSet({b})
      BY FS_Singleton
    <3> QED BY <2>1, <3>1, <3>2
  <2> QED BY <2>2, <2>3, <2>4
<1>10. IsFiniteSet(P) /\ seen' = P
  <2>1. seen = Published
    BY DEF ZoneInv
  <2>2. IsFiniteSet(seen \cup blocks')
    BY <1>9, FS_Union
  <2> QED BY <1>4, <2>1, <2>2
<1>11. violated = {b \in P : Beyonds(b) = {} /\ Violates(b, c.close)}
  BY <1>8
<1>12. \A b \in P : Beyonds(b)' = {n} <=> Beyonds(b) = {} /\ Violates(b, c.close)
  <2> HIDE DEF n, P
  <2>1. ASSUME NEW b \in P PROVE Beyonds(b)' = {n} <=> Beyonds(b) = {} /\ Violates(b, c.close)
    <3>1. /\ Beyonds(b)' = Beyonds(b) \cup {i \in {n} : Violates(b, c.close)}
          /\ n \notin Beyonds(b)
      BY <1>7, <2>1
    <3> QED BY <3>1
  <2> QED BY <2>1
<1>13. {v.block : v \in violations'} = {b \in P : Beyonds(b)' = {n}}
  <2>1. \A b : Violation(b, c).block = b
    BY DEF Violation
  <2>2. violated = {b \in P : Beyonds(b)' = {n}}
    <3> HIDE DEF violated, P
    <3> QED BY <1>11, <1>12
  <2> HIDE DEF violated
  <2>3. {v.block : v \in violations'} = violated
    BY <1>4, <2>1
  <2> QED BY <2>2, <2>3
<1>14. IsFiniteSet(violations')
  <2> DEFINE f == [b \in violated |-> Violation(b, c)]
  <2>1. IsFiniteSet(violated)
    <3>1. violated \subseteq P
      BY <1>11
    <3> HIDE DEF violated, P
    <3> QED BY <1>10, <3>1, FS_Subset
  <2>2. violations' = {f[b] : b \in violated}
    <3> HIDE DEF violated
    <3> QED BY <1>4
  <2> HIDE DEF f, violated
  <2> QED BY <2>1, <2>2, ImageIs
<1>15. \A v \in violations' : /\ v = Violation(v.block, c)
                              /\ v.block.index \in 0 .. n /\ Beyonds(v.block) = {} /\ v.block \in P
  <2>1. \A b : Violation(b, c).block = b
    BY DEF Violation
  <2>2. \A b \in violated : b \in P /\ Beyonds(b) = {} /\ b.index \in 0 .. n
    BY <1>6, <1>11
  <2> HIDE DEF violated, P, n
  <2> QED BY <1>4, <2>1, <2>2
<1>16. (candidates = {b \in Published : Beyonds(b) = {}})'
  <2>1. \A b \in P : Beyonds(b)' = {} <=> Beyonds(b) = {} /\ ~Violates(b, c.close)
    <3> HIDE DEF P
    <3> QED BY <1>7
  <2>2. candidates' = {b \in P : Beyonds(b)' = {}}
    <3> HIDE DEF P, violated
    <3>1. \A b : b \in violated <=> b \in P /\ Beyonds(b) = {} /\ Violates(b, c.close)
      BY <1>11
    <3>2. \A b : b \in candidates' <=> b \in P /\ Beyonds(b)' = {}
      BY <1>4, <1>8, <2>1, <3>1
    <3>3. \A b \in candidates' : b \in P
      BY <3>2
    <3> QED BY <3>2, <3>3
  <2> QED BY <1>2, <2>2
<1>17. (seen = Published)' /\ IsFiniteSet(seen)'
  BY <1>2, <1>10
<1> QED BY <1>2, <1>13, <1>14, <1>15, <1>16, <1>17

\* The first close beyond a block settles it.
LEMMA BreaksStay ==
    ASSUME LinkInv, StructureInv, DisplacementInv, BlocksInv, ZoneInv, NEW c, Step(c)
    PROVE  BlocksBreakOnce'
<1> DEFINE n == Len(Bars)
<1>1. /\ n \in Nat /\ Now = n - 1 /\ Now' = n /\ c.index = n /\ Bar(Now)' = c
  BY EarlierFrames DEF CandleOK
<1>2. At(Now)'.violations = violations' /\ At(Now)'.shift = shift'
  BY <1>1, NewestFrame DEF At
<1>3. /\ {v.block : v \in violations'} = {b \in Published' : Beyonds(b)' = {n}}
      /\ \A v \in violations' : /\ v = Violation(v.block, c)
                                /\ v.block.index \in 0 .. n /\ Beyonds(v.block) = {}
                                /\ v.block \in Published'
  BY CandidatesStay
<1>4. /\ \A m \in shift' : ShiftOK(m)'
      /\ \A m \in shift' : m.direction \in {"bullish", "bearish"}
  BY ShiftStays
<1>5. \A b \in Published' : b.direction \in {"bullish", "bearish"}
  <2>1. BlocksInv'
    BY BlocksStay
  <2>2. \A i \in Indices' : \A b \in frames'[i + 1].blocks : BlockOK(b, Bars)'
    BY <2>1 DEF BlocksInv, At
  <2>3. \A b \in Published' : \E i \in Indices' : b \in frames'[i + 1].blocks
    BY DEF Published, At
  <2> QED BY <2>2, <2>3 DEF BlockOK
<1>6. ASSUME NEW v \in violations'
      PROVE  /\ v.reason \notin {"previous_close_already_beyond", "wrong_mss_direction"}
             /\ v.reason = "none" <=>
                  /\ KnownAtOpen(v.block, c) /\ \E m \in shift' : m.direction # v.block.direction
  <2> DEFINE b == v.block
             D == displacement'.direction
  <2>1. /\ v.reason = Rejection(b, c) /\ b.index \in 0 .. n /\ Beyonds(b) = {}
        /\ b.direction \in {"bullish", "bearish"}
    <3>1. v = Violation(v.block, c)
      BY <1>3
    <3>2. v.reason = Violation(v.block, c).reason
      BY <3>1
    <3> QED BY <1>3, <1>5, <3>2 DEF Violation
  <2>2. KnownAtOpen(b, c) => ~Violates(b, previousClose)
    <3> SUFFICES ASSUME KnownAtOpen(b, c) PROVE ~Violates(b, previousClose)
      OBVIOUS
    <3>1. b.index < n
      BY <1>1 DEF KnownAtOpen
    <3>2. Now \in b.index .. Now /\ ~(Now < 0)
      BY <1>1, <2>1, <3>1
    <3>3. previousClose = Bar(Now).close
      BY <3>2 DEF StructureInv
    <3> QED BY <2>1, <3>2, <3>3 DEF Beyonds
  <2>3. \A m \in shift' : displacement'.event /\ m.direction = D
                          /\ m.direction \in {"bullish", "bearish"}
    BY <1>4 DEF ShiftOK
  <2>4. Opposite(b.direction) # b.direction
        /\ \A m \in shift' : m.direction = Opposite(b.direction) <=> m.direction # b.direction
    BY <2>1, <2>3 DEF Opposite
  <2> HIDE DEF b
  <2>5. Rejection(b, c) =
          IF ~KnownAtOpen(b, c) THEN "source_not_known_at_open"
          ELSE IF ~displacement'.event THEN "missing_displacement"
          ELSE IF D # Opposite(b.direction) THEN "wrong_displacement_direction"
          ELSE IF shift' = {} THEN "missing_mss" ELSE "none"
    BY <2>2, <2>3 DEF Rejection
  <2>6. v.reason = "none" <=> KnownAtOpen(b, c) /\ \E m \in shift' : m.direction # b.direction
    BY <2>1, <2>3, <2>4, <2>5
  <2>7. v.reason \notin {"previous_close_already_beyond", "wrong_mss_direction"}
    BY <2>1, <2>5
  <2> QED BY <2>6, <2>7 DEF b
<1>7. \A b : KnownAtOpen(b, Bar(Now))' = KnownAtOpen(b, c)
  BY <1>1 DEF KnownAtOpen
<1> HIDE DEF n
<1>8. /\ {v.block : v \in At(Now)'.violations} = {b \in Published' : Beyonds(b)' = {Now'}}
      /\ \A v \in At(Now)'.violations :
           /\ v.reason \notin {"previous_close_already_beyond", "wrong_mss_direction"}
           /\ v.reason = "none" <=>
                /\ KnownAtOpen(v.block, Bar(Now))'
                /\ \E m \in At(Now)'.shift : m.direction # v.block.direction
  BY <1>1, <1>2, <1>3, <1>6, <1>7
<1> QED BY <1>8 DEF BlocksBreakOnce

\* The first return into a block mitigates it.
LEMMA ReturnsStay ==
    ASSUME LinkInv, StructureInv, DisplacementInv, BlocksInv, ZoneInv, NEW c, Step(c)
    PROVE  /\ (broken = UNION {Converted(i) : i \in Indices})'
           /\ (unmitigated = {b \in Published : b \notin broken /\ Returns(b) = {}})'
           /\ MitigatedOnFirstReturn'
           /\ IsFiniteSet(mitigations') /\ \A m, e \in mitigations' : m.block = e.block => m = e
<1> DEFINE n == Len(Bars)
           P == Published \cup blocks'
           converted == {v.block : v \in Qualified(violations')}
           alive == unmitigated \ converted
           returned == {b \in alive : KnownAtOpen(b, c) /\ Intersects(b, c)}
           F == [i \in 0 .. n |-> {v.block : v \in Qualified(frames'[i + 1].violations)}]
           G == [i \in 0 .. n - 1 |-> {v.block : v \in Qualified(frames[i + 1].violations)}]
<1>1. /\ n \in Nat /\ Now' = n /\ Indices = 0 .. n - 1 /\ Indices' = 0 .. n /\ c.index = n
      /\ \A i \in Indices : frames'[i + 1] = frames[i + 1]
  BY EarlierFrames DEF CandleOK, At
<1>2. /\ frames'[n + 1].violations = violations' /\ frames'[n + 1].mitigations = mitigations'
      /\ frames'[n + 1].blocks = blocks'
  BY NewestFrame
<1>3. /\ mitigations' = {[block |-> b, index |-> n] : b \in returned}
      /\ broken' = broken \cup converted
      /\ unmitigated' = (alive \ returned) \cup (blocks' \ (broken \cup converted))
  BY <1>1 DEF Step, Analyze, MitigationUpdate
<1>4. Published' = P /\ (\A b \in Published : b.index \in 0 .. n - 1)
  BY PublishedGrows
<1>5. \A b \in blocks' : b.index = n
  <2>1. BlocksInv'
    BY BlocksStay
  <2>2. \A i \in Indices' : \A b \in frames'[i + 1].blocks : b.index = i
    BY <2>1 DEF BlocksInv, At
  <2>3. n \in Indices'
    BY <1>1
  <2> QED BY <1>2, <2>2, <2>3
<1>6. \A b \in P : b.index \in 0 .. n
  BY <1>1, <1>4, <1>5
<1>7. \A b \in P : /\ Returns(b)' = Returns(b) \cup
                                       {i \in {n} : KnownAtOpen(b, c) /\ Intersects(b, c)}
                   /\ n \notin Returns(b)
                   /\ b.index = n => Returns(b) = {} /\ ~KnownAtOpen(b, c)
  BY <1>6, ReturnsGrow
<1>8. /\ \A i \in 0 .. n : Converted(i)' = F[i]
      /\ \A i \in 0 .. n - 1 : Converted(i) = G[i]
  BY DEF Converted, At
<1>9. F[n] = converted /\ \A i \in 0 .. n - 1 : F[i] = G[i]
  <2>1. n \in 0 .. n /\ \A i \in 0 .. n - 1 : i \in 0 .. n
    BY <1>1
  <2> QED BY <1>1, <1>2, <2>1
<1> HIDE DEF F, G, converted, n
<1>10. broken' = UNION {F[i] : i \in 0 .. n}
  <2>1. UNION {F[i] : i \in 0 .. n} = (UNION {G[i] : i \in 0 .. n - 1}) \cup F[n]
    BY <1>1, <1>9, OneMore
  <2>2. broken = UNION {Converted(i) : i \in Indices}
    BY DEF ZoneInv
  <2>3. broken = UNION {G[i] : i \in 0 .. n - 1}
    <3>1. {Converted(i) : i \in Indices} = {G[i] : i \in 0 .. n - 1}
      BY <1>1, <1>8
    <3> QED BY <2>2, <3>1
  <2> QED BY <1>3, <1>9, <2>1, <2>3
<1>11. (broken = UNION {Converted(i) : i \in Indices})'
  <2>1. {Converted(i)' : i \in Indices'} = {F[i] : i \in 0 .. n}
    BY <1>1, <1>8
  <2> QED BY <1>10, <2>1
<1>12. unmitigated = {b \in Published : b \notin broken /\ Returns(b) = {}}
  BY DEF ZoneInv
<1>13. \A b \in P : /\ Returns(b)' = {} <=> Returns(b) = {} /\ ~(KnownAtOpen(b, c) /\ Intersects(b, c))
                    /\ Returns(b)' = {n} <=> Returns(b) = {} /\ KnownAtOpen(b, c) /\ Intersects(b, c)
  <2> HIDE DEF P
  <2> SUFFICES ASSUME NEW b \in P
               PROVE  /\ Returns(b)' = {} <=> Returns(b) = {} /\ ~(KnownAtOpen(b, c) /\ Intersects(b, c))
                      /\ Returns(b)' = {n} <=> Returns(b) = {} /\ KnownAtOpen(b, c) /\ Intersects(b, c)
    OBVIOUS
  <2>1. /\ Returns(b)' = Returns(b) \cup {i \in {n} : KnownAtOpen(b, c) /\ Intersects(b, c)}
        /\ n \notin Returns(b)
    BY <1>7
  <2> QED BY <2>1
<1>14. \A b \in blocks' : b \notin Published /\ Returns(b) = {} /\ ~KnownAtOpen(b, c)
  BY <1>1, <1>4, <1>5, <1>7
<1>15. \A b : b \in unmitigated' <=> b \in P /\ b \notin broken' /\ Returns(b)' = {}
  BY <1>3, <1>12, <1>13, <1>14
<1>16. (unmitigated = {b \in Published : b \notin broken /\ Returns(b) = {}})'
  <2>1. \A b \in unmitigated' : b \in P
    BY <1>15
  <2> HIDE DEF P
  <2>2. unmitigated' = {b \in P : b \notin broken' /\ Returns(b)' = {}}
    BY <1>15, <2>1
  <2> QED BY <1>4, <2>2
<1>17. \A b : b \in returned <=> b \in P /\ Returns(b)' = {n} /\ b \notin broken'
  BY <1>3, <1>12, <1>13, <1>14
<1>18. {m.block : m \in mitigations'} = returned
  <2> HIDE DEF returned
  <2>1. \A b : [block |-> b, index |-> n].block = b
    OBVIOUS
  <2> QED BY <1>3, <2>1
<1>19. MitigatedOnFirstReturn'
  <2>1. \A b : b \notin broken' <=> \A i \in Indices' : b \notin Converted(i)'
    BY <1>11
  <2>2. At(Now)'.mitigations = mitigations'
    BY <1>1, <1>2 DEF At
  <2> HIDE DEF returned, P
  <2>3. returned = {b \in Published' : Returns(b)' = {Now'} /\ \A i \in Indices' : b \notin Converted(i)'}
    <3>1. \A b : b \in returned <=> b \in Published' /\ Returns(b)' = {Now'}
                                    /\ \A i \in Indices' : b \notin Converted(i)'
      BY <1>1, <1>4, <1>17, <2>1
    <3>2. \A b \in returned : b \in Published'
      BY <3>1
    <3> QED BY <3>1, <3>2
  <2> QED BY <1>18, <2>2, <2>3 DEF MitigatedOnFirstReturn
<1>20. IsFiniteSet(mitigations')
  <2>1. IsFiniteSet(Published')
    BY CandidatesStay
  <2>2. returned \subseteq Published'
    BY <1>4, <1>17
  <2> DEFINE f == [b \in returned |-> [block |-> b, index |-> n]]
  <2> HIDE DEF returned
  <2>3. IsFiniteSet(returned)
    BY <2>1, <2>2, FS_Subset
  <2>4. mitigations' = {f[b] : b \in returned}
    BY <1>3
  <2> HIDE DEF f
  <2> QED BY <2>3, <2>4, ImageIs
<1>21. \A m, e \in mitigations' : m.block = e.block => m = e
  <2> HIDE DEF returned
  <2>1. \A m \in mitigations' : m = [block |-> m.block, index |-> n]
    BY <1>3
  <2> QED BY <2>1
<1> QED BY <1>11, <1>16, <1>19, <1>20, <1>21

\* The life of the published blocks.
LEMMA ZoneStays ==
    ASSUME LinkInv, StructureInv, DisplacementInv, BlocksInv, ZoneInv, NEW c, Step(c) PROVE ZoneInv'
<1>1. /\ (seen = Published)' /\ IsFiniteSet(seen)'
      /\ (candidates = {b \in Published : Beyonds(b) = {}})'
      /\ IsFiniteSet(violations') /\ \A v \in violations' : v = Violation(v.block, c)
  BY CandidatesStay
<1>2. \A v, w \in violations' : v.block = w.block => v = w
  BY <1>1
<1>3. /\ (\A m \in shift : ShiftOK(m))' /\ \A m, e \in shift' : m = e
  BY ShiftStays
<1>4. BlocksBreakOnce'
  BY BreaksStay
<1> QED BY <1>1, <1>2, <1>3, <1>4, ReturnsStay DEF ZoneInv

-----------------------------------------------------------------------------
(* The evidence that the constructors accept.                              *)

\* The window of the newest candles.
LEMMA WindowIs ==
    ASSUME LinkInv, StructureInv, Now >= 0
    PROVE  /\ HistoryOK(Bars) /\ Len(Bars) \in Nat /\ Now = Len(Bars) - 1 /\ Now \in Nat
           /\ Indices = 0 .. Now /\ Now \in Indices
           /\ \A i \in Indices : Bar(i) = Bars[i + 1] /\ CandleOK(Bar(i), i)
           /\ Len(window) = (IF Now + 1 <= FractalLength THEN Now + 1 ELSE FractalLength)
           /\ Len(window) \in Nat /\ Consecutive(window)
           /\ \A i \in 1 .. Len(window) : window[i] = Bars[Len(Bars) - Len(window) + i]
           /\ Current = Bars[Len(Bars)] /\ Current = Bar(Now) /\ CandleOK(Current, Now)
           /\ Now >= 1 => Previous = Bars[Len(Bars) - 1] /\ Previous = Bar(Now - 1)
                          /\ CandleOK(Previous, Now - 1)
<1>1. /\ HistoryOK(Bars) /\ Len(Bars) \in Nat /\ Now = Len(Bars) - 1 /\ Now \in Nat
      /\ Indices = 0 .. Now /\ Now \in Indices
      /\ \A i \in Indices : Bar(i) = Bars[i + 1]
  BY BarsAre DEF LinkInv, Indices
<1>2. \A i \in Indices : Bar(i) = Bars[i + 1] /\ CandleOK(Bar(i), i)
  <2> SUFFICES ASSUME NEW i \in Indices PROVE CandleOK(Bars[i + 1], i)
    BY <1>1
  <2> QED BY <1>1, CandlesAre
<1>3. FractalLength \in Nat \ {0} /\ FractalLength >= 3
  BY FractalAssumption
<1>4. IsTail(window, Bars, FractalLength)
  BY DEF StructureInv
<1>5. /\ Consecutive(window) /\ Len(window) \in Nat
      /\ \A i \in 1 .. Len(window) : window[i] = Bars[Len(Bars) - Len(window) + i]
  BY <1>1, <1>3, <1>4, TailInOrder
<1>6. Len(window) = (IF Now + 1 <= FractalLength THEN Now + 1 ELSE FractalLength)
  BY <1>1, <1>4 DEF IsTail
<1>7. Current = Bars[Len(Bars)]
  <2>1. Len(window) \in 1 .. Len(window)
    BY <1>1, <1>3, <1>6
  <2>2. Current = Bars[Len(Bars) - Len(window) + Len(window)]
    BY <1>5, <2>1 DEF Current
  <2>3. Len(Bars) - Len(window) + Len(window) = Len(Bars)
    BY <1>1, <1>5
  <2> QED BY <2>2, <2>3
<1>8. ASSUME Now >= 1 PROVE Previous = Bars[Len(Bars) - 1]
  <2>1. Len(window) - 1 \in 1 .. Len(window)
    BY <1>1, <1>3, <1>6, <1>8
  <2>2. Previous = Bars[Len(Bars) - Len(window) + (Len(window) - 1)]
    BY <1>5, <2>1 DEF Previous
  <2>3. Len(Bars) - Len(window) + (Len(window) - 1) = Len(Bars) - 1
    BY <1>1, <1>5
  <2> QED BY <2>2, <2>3
<1>9. Bar(Now) = Bars[Len(Bars)] /\ CandleOK(Bar(Now), Now)
  <2>1. Now + 1 = Len(Bars)
    BY <1>1
  <2> QED BY <1>1, <1>2, <2>1
<1>10. Now >= 1 => Bar(Now - 1) = Bars[Len(Bars) - 1] /\ CandleOK(Bar(Now - 1), Now - 1)
  <2>1. Now >= 1 => Now - 1 \in Indices /\ (Now - 1) + 1 = Len(Bars) - 1
    BY <1>1
  <2> QED BY <1>2, <2>1
<1> QED BY <1>1, <1>2, <1>5, <1>6, <1>7, <1>8, <1>9, <1>10

\* A set whose elements are all equal has at most one.
LEMMA AtMostOne ==
    ASSUME NEW S, \A x, y \in S : x = y PROVE Cardinality(S) <= 1 /\ IsFiniteSet(S)
<1>1. CASE S = {}
  BY <1>1, FS_EmptySet
<1>2. CASE S # {}
  <2>1. PICK x \in S : TRUE
    BY <1>2
  <2>2. S = {x}
    BY <2>1
  <2> QED BY <2>2, FS_Singleton
<1> QED BY <1>1, <1>2

\* One candle breaks one level at most: the levels lie around the close before.
LEMMA EventsAreOne ==
    ASSUME NEW h, HistoryOK(h), NEW i \in 1 .. Len(h) - 1
    PROVE  \A k, l \in BrokenIn(h, i) : k = l
<1>1. /\ i \in Int /\ i - 1 \in 0 .. Len(h) - 1 /\ i \in 0 .. Len(h) - 1 /\ (i - 1) + 1 = i
      /\ Len(h) \in Nat /\ i - 1 \in Int
  BY DEF HistoryOK
<1>2. h[i].close \in Nat /\ h[i + 1].close \in Nat
  <2>1. h[(i - 1) + 1] \in Candle /\ h[i + 1] \in Candle
    BY <1>1, CandlesAre
  <2> QED BY <1>1, <2>1, CandleTypes
<1> DEFINE price(kind) == Extreme(h[NewestIn(h, kind, i - 1) + 1], kind)
<1>3. ASSUME NEW kind \in BrokenIn(h, i)
      PROVE  /\ kind \in Kinds /\ price(kind) \in Nat
             /\ ~Beyond(kind, h[i].close, price(kind)) /\ Beyond(kind, h[i + 1].close, price(kind))
  <2>1. kind \in Kinds /\ PivotsIn(h, kind, i - 1) # {} /\ CrossesIn(h, kind, NewestIn(h, kind, i - 1), i)
    BY DEF BrokenIn, WithPivots
  <2>2. NewestIn(h, kind, i - 1) \in PivotsIn(h, kind, i - 1)
    BY <1>1, <2>1, NewestIs
  <2>3. NewestIn(h, kind, i - 1) \in 0 .. Len(h) - 1
    BY <1>1, <2>1, <2>2, PivotsAre
  <2>4. h[NewestIn(h, kind, i - 1) + 1] \in Candle
    BY <2>3, CandlesAre
  <2> QED BY <2>1, <2>4, CandleTypes DEF CrossesIn
<1>4. ASSUME "high" \in BrokenIn(h, i), "low" \in BrokenIn(h, i) PROVE FALSE
  <2>1. price("high") \in Nat /\ ~(h[i].close > price("high")) /\ h[i + 1].close > price("high")
    BY <1>3, <1>4 DEF Beyond
  <2>2. price("low") \in Nat /\ ~(h[i].close < price("low")) /\ h[i + 1].close < price("low")
    BY <1>3, <1>4 DEF Beyond
  <2>3. \A a, b, p, q \in Nat : ~(~(a > p) /\ b > p /\ ~(a < q) /\ b < q)
    OBVIOUS
  <2> HIDE DEF price
  <2> QED BY <1>2, <2>1, <2>2, <2>3
<1>5. \A kind \in BrokenIn(h, i) : kind = "high" \/ kind = "low"
  BY <1>3 DEF Kinds
<1> QED BY <1>4, <1>5

\* What the window proves of a swing of the newest candle.
LEMMA SwingsAccepted ==
    ASSUME LinkInv, StructureInv, Now >= 0, NEW s \in snapshot.swings
    PROVE  /\ s.confirmed = Now /\ s.kind \in Kinds /\ s = SwingAt(Bars, s.kind, Now - Radius)
           /\ SwingAccepted(s)
<1> DEFINE h == Bars
           n == Len(h)
           p == Now - Radius
<1>1. /\ HistoryOK(h) /\ n \in Nat /\ Now = n - 1 /\ Now \in Nat /\ Now \in Indices
      /\ Len(window) = (IF Now + 1 <= FractalLength THEN Now + 1 ELSE FractalLength)
      /\ Len(window) \in Nat /\ Consecutive(window) /\ Current = h[n] /\ CandleOK(Current, Now)
      /\ \A i \in 1 .. Len(window) : window[i] = h[n - Len(window) + i]
  BY WindowIs
<1>2. Radius \in Nat \ {0} /\ FractalLength = 2 * Radius + 1
  BY RadiusIs
<1>3. snapshot.swings = ConfirmedAt(h, Now)
  BY <1>1 DEF StructureInv, LinkInv
<1>4. PICK kind \in Kinds : p \in PivotsIn(h, kind, Now) /\ s = SwingAt(h, kind, p)
  BY <1>3 DEF ConfirmedAt
<1>5. /\ p \in Nat /\ p - Radius >= 0 /\ p + 1 \in 1 .. n
      /\ \A i \in (p - Radius .. p + Radius) \ {p} :
            Beyond(kind, Extreme(h[p + 1], kind), Extreme(h[i + 1], kind))
  BY <1>1, <1>4, PivotsAre DEF PivotsIn, FractalIn
<1>6. p + Radius = Now /\ p + Radius + 1 = n
  BY <1>1, <1>2
<1>7. /\ s.kind = kind /\ s.pivot = p /\ s.price = Extreme(h[p + 1], kind) /\ s.confirmed = Now
      /\ s.available = h[n].available
  BY <1>4, <1>6 DEF SwingAt
<1>8. Len(window) = FractalLength /\ Len(window) = 2 * Radius + 1
  <2> HIDE DEF p, n, h
  <2>1. Now + 1 >= 2 * Radius + 1
    BY <1>1, <1>2, <1>5, <1>6
  <2> QED BY <1>1, <1>2, <2>1
<1>9. \A i \in 1 .. Len(window) : window[i] = h[p - Radius + i]
  <2>1. n - Len(window) = p - Radius
    BY <1>1, <1>2, <1>8
  <2> QED BY <1>1, <2>1
<1>10. window[Radius + 1] = h[p + 1]
  <2>1. Radius + 1 \in 1 .. Len(window) /\ p - Radius + (Radius + 1) = p + 1
    BY <1>1, <1>2, <1>8
  <2> QED BY <1>9, <2>1
<1>11. window[Radius + 1].index = s.pivot
  <2>1. CandleOK(h[p + 1], p)
    BY <1>1, <1>5, CandlesAre
  <2> QED BY <1>7, <1>10, <2>1 DEF CandleOK
<1>12. \A i \in 1 .. Len(window) \ {Radius + 1} : Beyond(kind, s.price, Extreme(window[i], kind))
  <2> SUFFICES ASSUME NEW i \in 1 .. Len(window) \ {Radius + 1}
               PROVE  Beyond(kind, s.price, Extreme(window[i], kind))
    OBVIOUS
  <2>1. /\ (p - Radius + i) - 1 \in (p - Radius .. p + Radius) \ {p}
        /\ ((p - Radius + i) - 1) + 1 = p - Radius + i
    <3>1. i \in Int /\ i >= 1 /\ i <= 2 * Radius + 1 /\ i # Radius + 1
      BY <1>2, <1>8
    <3>2. \A q, r, j \in Int : j >= 1 /\ j <= 2 * r + 1 /\ j # r + 1 =>
             /\ (q - r + j) - 1 \in q - r .. q + r /\ (q - r + j) - 1 # q
             /\ ((q - r + j) - 1) + 1 = q - r + j
      OBVIOUS
    <3>3. p \in Int /\ Radius \in Int
      BY <1>2, <1>5
    <3> HIDE DEF p
    <3> QED BY <3>1, <3>2, <3>3
  <2>2. Beyond(kind, Extreme(h[p + 1], kind), Extreme(h[((p - Radius + i) - 1) + 1], kind))
    BY <1>5, <2>1
  <2>3. window[i] = h[p - Radius + i]
    BY <1>9
  <2> QED BY <1>7, <2>1, <2>2, <2>3
<1>13. Current.index = s.confirmed /\ s.available = Current.available
  BY <1>1, <1>7 DEF CandleOK
<1>14. SwingAccepted(s)
  <2>1. Len(window) = 2 * (s.confirmed - s.pivot) + 1
    <3>1. s.confirmed - s.pivot = Radius
      BY <1>1, <1>2, <1>7
    <3> QED BY <1>8, <3>1
  <2> QED BY <1>1, <1>7, <1>10, <1>11, <1>12, <1>13, <2>1 DEF SwingAccepted
<1> QED BY <1>4, <1>7, <1>14

\* The evidence of the trend is in order.
LEMMA TrendIsAccepted ==
    ASSUME LinkInv, StructureInv, Now >= 0 PROVE TrendAccepted
<1> DEFINE h == Bars
           n == Len(h)
<1>1. HistoryOK(h) /\ n \in Nat /\ Now = n - 1 /\ Now \in Nat /\ snapshot.index = Now
  BY WindowIs DEF StructureInv
<1> SUFFICES ASSUME NEW kind \in Kinds
             PROVE  /\ \A i \in 1 .. Len(recent[kind]) :
                         recent[kind][i].kind = kind /\ recent[kind][i].confirmed <= Now
                    /\ Chronological(recent[kind])
  BY <1>1 DEF TrendAccepted
<1> DEFINE r == recent[kind]
<1>2. RecentOK(r, h, kind)
  BY DEF StructureInv
<1>3. CASE PivotsIn(h, kind, Now) = {}
  <2>1. r = <<>>
    BY <1>1, <1>2, <1>3 DEF RecentOK
  <2> QED BY <2>1 DEF Chronological
<1>4. CASE PivotsIn(h, kind, Now) # {}
  <2> DEFINE new == NewestIn(h, kind, Now)
             old == Max(OlderIn(h, kind, Now))
  <2>1. /\ Len(r) = (IF OlderIn(h, kind, Now) = {} THEN 1 ELSE 2)
        /\ r[Len(r)] = SwingAt(h, kind, new)
        /\ OlderIn(h, kind, Now) # {} => r[1] = SwingAt(h, kind, old)
    BY <1>1, <1>2, <1>4 DEF RecentOK
  <2>2. new \in PivotsIn(h, kind, Now) /\ \A q \in PivotsIn(h, kind, Now) : q <= new
    BY <1>1, <1>4, NewestIs
  <2>3. /\ SwingAt(h, kind, new).kind = kind /\ SwingAt(h, kind, new).pivot = new
        /\ SwingAt(h, kind, new).confirmed = new + Radius /\ new + Radius <= Now
        /\ new \in Nat /\ Radius \in Nat
    BY <1>1, <2>2, SwingIs, RadiusIs
  <2>4. CASE OlderIn(h, kind, Now) = {}
    <3>1. Len(r) = 1 /\ r[1] = SwingAt(h, kind, new)
      BY <2>1, <2>4
    <3>2. (\A i \in 1 .. Len(r) : i = 1) /\ 1 .. Len(r) - 1 = {}
      BY <3>1
    <3>3. Chronological(r)
      BY <3>2 DEF Chronological
    <3>4. r[1].kind = kind /\ r[1].confirmed <= Now
      BY <2>3, <3>1
    <3> HIDE DEF r
    <3>5. \A i \in 1 .. Len(r) : r[i].kind = kind /\ r[i].confirmed <= Now
      BY <3>2, <3>4
    <3> QED BY <3>3, <3>5 DEF r
  <2>5. CASE OlderIn(h, kind, Now) # {}
    <3>1. Len(r) = 2 /\ r[1] = SwingAt(h, kind, old) /\ r[2] = SwingAt(h, kind, new)
      BY <2>1, <2>5
    <3>2. old \in PivotsIn(h, kind, Now) /\ old # new /\ old <= new
      BY <1>1, <2>2, <2>5, OlderIs DEF OlderIn
    <3>3. /\ SwingAt(h, kind, old).kind = kind /\ SwingAt(h, kind, old).pivot = old
          /\ SwingAt(h, kind, old).confirmed = old + Radius /\ old + Radius <= Now
          /\ old \in Nat
      BY <1>1, <3>2, SwingIs
    <3> HIDE DEF r, new, old, h
    <3>4. old < new /\ old + Radius < new + Radius
      BY <2>3, <3>2, <3>3
    <3>5. \A i \in 1 .. Len(r) : r[i].kind = kind /\ r[i].confirmed <= Now
      BY <2>3, <3>1, <3>3
    <3>6. Chronological(r)
      <4>1. \A i \in 1 .. Len(r) - 1 : i = 1
        BY <3>1
      <4> QED BY <2>3, <3>1, <3>3, <3>4, <4>1 DEF Chronological
    <3> QED BY <3>5, <3>6 DEF r
  <2> QED BY <2>4, <2>5
<1> QED BY <1>3, <1>4

\* What an event says of the candles.
LEMMA EventsAccepted ==
    ASSUME LinkInv, StructureInv, Now >= 0, NEW e \in snapshot.events
    PROVE  /\ Now >= 1 /\ e.index = Now /\ e.close = Current.close /\ e.previousClose = Previous.close
           /\ EventAccepted(e)
           /\ \E kind \in BrokenIn(Bars, Now) : e = EventIn(Bars, kind, Now)
<1> DEFINE h == Bars
           n == Len(h)
<1>1. HistoryOK(h) /\ n \in Nat /\ Now = n - 1 /\ Now \in Nat /\ Current = h[n]
  BY WindowIs
<1>2. PICK kind \in BrokenIn(h, Now) : e = EventIn(h, kind, Now)
  BY DEF StructureInv
<1> DEFINE p == NewestIn(h, kind, Now - 1)
<1>3. /\ kind \in Kinds /\ PivotsIn(h, kind, Now - 1) # {} /\ TrendIn(h, Now - 1) # "ranging"
      /\ CrossesIn(h, kind, p, Now)
  BY <1>2 DEF BrokenIn, WithPivots
<1>4. p \in PivotsIn(h, kind, Now - 1)
  BY <1>1, <1>3, NewestIs
<1>5. p \in Nat /\ p + Radius <= Now - 1
  <2>1. Now - 1 \in Int
    BY <1>1
  <2> QED BY <1>1, <1>3, <1>4, <2>1, PivotsAre
<1>6. Radius \in Nat \ {0} /\ FractalLength = 2 * Radius + 1
  BY RadiusIs
<1>7. Now >= 1
  BY <1>1, <1>5, <1>6
<1>8. Previous = h[Now] /\ Current = h[Now + 1]
  <2>1. Len(Bars) - 1 = Now /\ Now + 1 = Len(Bars)
    BY <1>1
  <2> QED BY <1>1, <1>7, <2>1, WindowIs
<1>9. /\ e.index = Now /\ e.kind = (IF Toward(kind) = TrendIn(h, Now - 1) THEN "BOS" ELSE "CHoCH")
      /\ e.direction = Toward(kind) /\ e.level = SwingAt(h, kind, p) /\ e.before = TrendIn(h, Now - 1)
      /\ e.previousClose = h[Now].close /\ e.close = h[Now + 1].close
  BY <1>2 DEF EventIn
<1>10. e.level.kind = kind /\ e.level.confirmed = p + Radius /\ e.level.price = Extreme(h[p + 1], kind)
  BY <1>9 DEF SwingAt
<1>11. e.level.confirmed < e.index
  BY <1>1, <1>5, <1>6, <1>9, <1>10
<1>12. EventAccepted(e)
  BY <1>3, <1>9, <1>10, <1>11 DEF EventAccepted, CrossesIn
<1> QED BY <1>2, <1>7, <1>8, <1>9, <1>12

\* AnalysisSnapshot.
LEMMA StructureIsAccepted ==
    ASSUME LinkInv, StructureInv, Now >= 0 PROVE StructureAccepted
<1> DEFINE h == Bars
           swings == snapshot.swings
<1>1. HistoryOK(h) /\ Len(h) \in Nat /\ Now = Len(h) - 1 /\ Now \in Nat /\ snapshot.index = Now
  BY WindowIs DEF StructureInv
<1>2. Cardinality(snapshot.events) <= 1
  <2>1. \A e, f \in snapshot.events : e = f
    <3> SUFFICES ASSUME NEW e \in snapshot.events, NEW f \in snapshot.events PROVE e = f
      OBVIOUS
    <3>1. PICK k \in BrokenIn(h, Now) : e = EventIn(h, k, Now)
      BY EventsAccepted
    <3>2. PICK l \in BrokenIn(h, Now) : f = EventIn(h, l, Now)
      BY EventsAccepted
    <3>3. Now \in 1 .. Len(h) - 1
      BY <1>1, EventsAccepted
    <3>4. k = l
      BY <1>1, <3>1, <3>2, <3>3, EventsAreOne
    <3> QED BY <3>1, <3>2, <3>4
  <2> QED BY <2>1, AtMostOne
<1>3. Cardinality({s.kind : s \in swings}) = Cardinality(swings)
  <2> DEFINE K == {s.kind : s \in swings}
             f == [k \in K |-> SwingAt(h, k, Now - Radius)]
  <2>1. \A s \in swings : s.kind \in Kinds /\ s = SwingAt(h, s.kind, Now - Radius)
    BY SwingsAccepted
  <2>2. IsFiniteSet(Kinds)
    <3>1. Kinds = {"high"} \cup {"low"}
      BY DEF Kinds
    <3> QED BY <3>1, FS_Singleton, FS_Union
  <2>3. IsFiniteSet(K)
    <3>1. K \subseteq Kinds
      BY <2>1
    <3> HIDE DEF K
    <3> QED BY <2>2, <3>1, FS_Subset
  <2>4. swings = {f[k] : k \in K}
    <3> HIDE DEF swings
    <3> QED BY <2>1
  <2>5. \A k, l \in K : f[k] = f[l] => k = l
    BY DEF SwingAt
  <2> HIDE DEF K, f
  <2>6. Cardinality(swings) = Cardinality(K)
    BY <2>3, <2>4, <2>5, ImageIs
  <2> QED BY <2>6 DEF K
<1>4. \A s \in swings : s.confirmed = snapshot.index /\ SwingAccepted(s)
  BY <1>1, SwingsAccepted
<1>5. \A e \in snapshot.events : e.index = snapshot.index /\ EventAccepted(e)
  BY <1>1, EventsAccepted
<1> QED BY <1>2, <1>3, <1>4, <1>5, TrendIsAccepted DEF StructureAccepted

\* The pools in the updates of a frame are well formed.
LEMMA UpdatesAre ==
    ASSUME LinkInv, StructureInv, PoolsInv, Now >= 0, NEW u \in updates
    PROVE  /\ u.pool \in pools \cup Ended /\ PoolOK(u.pool, SwingsIn(Bars))
           /\ u.status # "active" => EndsIn(u, Bars)
           /\ EndsIn(u, Bars) => u.status # "active" /\ u.pool \notin pools
           /\ ~EndsIn(u, Bars) => u = [pool |-> u.pool, status |-> "active", reason |-> "none"]
<1> DEFINE h == Bars
           n == Len(h)
           W == SwingsIn(h)
<1>1. HistoryOK(h) /\ n \in Nat /\ Now = n - 1 /\ Now \in Nat /\ Now \in Indices
  BY WindowIs
<1>2. \/ u.pool \in pools /\ u = [pool |-> u.pool, status |-> "active", reason |-> "none"]
      \/ EndsIn(u, h)
  BY DEF PoolsInv
<1>3. PoolsOK(pools, Ended, W, h)
  BY DEF PoolsInv
<1>4. EndsIn(u, h) => u.status # "active"
  <2> SUFFICES ASSUME EndsIn(u, h) PROVE u.status # "active"
    OBVIOUS
  <2>1. PICK a, b : u = Retirement(u.pool, a, b)
    BY DEF EndsIn
  <2>2. u.status = Retirement(u.pool, a, b).status
    BY <2>1
  <2> QED BY <2>2 DEF Retirement
<1>5. EndsIn(u, h) => u.pool \in Ended
  <2> SUFFICES ASSUME EndsIn(u, h) PROVE u.pool \in Ended
    OBVIOUS
  <2>1. u \in Terminal(Now)
    BY <1>4 DEF Terminal, LinkInv
  <2> QED BY <1>1, <2>1 DEF Ended
<1>6. u.pool \in pools \cup Ended
  BY <1>2, <1>5
<1>7. PoolOK(u.pool, W)
  BY <1>3, <1>6 DEF PoolsOK
<1>8. EndsIn(u, h) => u.pool \notin pools
  <2> SUFFICES ASSUME EndsIn(u, h), u.pool \in pools PROVE FALSE
    OBVIOUS
  <2>1. IntactIn(u.pool, h)
    BY <1>3 DEF PoolsOK
  <2>2. Breached(u.pool, h[n]) /\ n >= 2
    BY DEF EndsIn
  <2>3. u.pool.anchor \in W
    BY <1>7 DEF PoolOK
  <2>4. u.pool.anchor.pivot \in 0 .. n - 1
    BY <1>1, <2>3, SwingsAre
  <2>5. n - 1 \in u.pool.anchor.pivot .. n - 1 /\ (n - 1) + 1 = n
    BY <1>1, <2>4
  <2> HIDE DEF n
  <2>6. ~Breached(u.pool, h[(n - 1) + 1])
    BY <2>1, <2>5 DEF IntactIn, n
  <2> QED BY <2>2, <2>5, <2>6
<1>9. u.status # "active" => EndsIn(u, h)
  BY <1>2
<1>10. ~EndsIn(u, h) => u = [pool |-> u.pool, status |-> "active", reason |-> "none"]
  BY <1>2
<1> QED BY <1>4, <1>6, <1>7, <1>8, <1>9, <1>10

\* LiquidityPool, for a pool of the history.
LEMMA PoolsAccepted ==
    ASSUME LinkInv, StructureInv, Now >= 0, NEW p, PoolOK(p, SwingsIn(Bars)) PROVE PoolAccepted(p)
<1> DEFINE h == Bars
           n == Len(h)
           W == SwingsIn(h)
<1>1. HistoryOK(h) /\ n \in Nat /\ Current = h[n]
  BY WindowIs
<1>2. /\ p.members \in Seq(W) /\ p.members # <<>> /\ p.members[1] = p.anchor
      /\ \A i \in 1 .. Len(p.members) :
            p.members[i].kind = p.anchor.kind /\ InBand(p, p.members[i].price)
      /\ \A i, j \in 1 .. Len(p.members) : i < j => p.members[i].pivot < p.members[j].pivot
  BY DEF PoolOK
<1> HIDE DEF W, n, h
<1>3. Len(p.members) \in Nat /\ \A i \in 1 .. Len(p.members) : p.members[i] \in W
  BY <1>2
<1>4. \A s \in W : /\ s.available <= h[n].available /\ s.confirmed = s.pivot + Radius
                   /\ s.pivot \in Nat
  BY <1>1, SwingsAre DEF W, n
<1>5. \A i \in 1 .. Len(p.members) : p.members[i].available <= Current.available
  BY <1>1, <1>3, <1>4
<1>6. Chronological(p.members)
  <2> SUFFICES ASSUME NEW i \in 1 .. Len(p.members) - 1
               PROVE  /\ p.members[i].pivot < p.members[i + 1].pivot
                      /\ p.members[i].confirmed < p.members[i + 1].confirmed
    BY DEF Chronological
  <2>1. i \in 1 .. Len(p.members) /\ i + 1 \in 1 .. Len(p.members) /\ i < i + 1
    BY <1>3
  <2>2. p.members[i].pivot < p.members[i + 1].pivot
    BY <1>2, <2>1
  <2>3. /\ p.members[i].confirmed = p.members[i].pivot + Radius /\ p.members[i].pivot \in Nat
        /\ p.members[i + 1].confirmed = p.members[i + 1].pivot + Radius /\ p.members[i + 1].pivot \in Nat
    BY <1>3, <1>4, <2>1
  <2>4. \A a, b \in Nat : a < b => a + Radius < b + Radius
    BY RadiusIs
  <2> QED BY <2>2, <2>3, <2>4
<1> QED BY <1>2, <1>5, <1>6 DEF PoolAccepted

\* LiquiditySnapshot.
LEMMA LiquidityIsAccepted ==
    ASSUME LinkInv, StructureInv, PoolsInv, Now >= 0 PROVE LiquidityAccepted
<1> DEFINE h == Bars
           n == Len(h)
           W == SwingsIn(h)
           P == pools \cup Ended
<1>1. /\ HistoryOK(h) /\ n \in Nat /\ Now = n - 1 /\ Now \in Nat /\ Current = h[n] /\ Current = Bar(Now)
      /\ CandleOK(Current, Now) /\ (n >= 2 => Previous = h[n - 1] /\ CandleOK(Previous, Now - 1))
  BY WindowIs
<1>2. W \subseteq Swing
  <2> SUFFICES ASSUME NEW s \in W PROVE s \in Swing
    OBVIOUS
  <2> QED BY <1>1, SwingsAre
<1>3. \A u \in updates : /\ u.pool \in P /\ PoolOK(u.pool, W)
                         /\ u.status # "active" => EndsIn(u, h)
                         /\ EndsIn(u, h) => u.status # "active" /\ u.pool \notin pools
                         /\ ~EndsIn(u, h) => u = [pool |-> u.pool, status |-> "active", reason |-> "none"]
  BY UpdatesAre
<1>4. ASSUME NEW u \in updates, u.status # "active" PROVE EndAccepted(u)
  <2>1. n >= 2 /\ u = Retirement(u.pool, h[n - 1], h[n]) /\ Breached(u.pool, h[n])
    BY <1>3, <1>4 DEF EndsIn
  <2>2. Previous.index + 1 = Current.index
    BY <1>1, <2>1 DEF CandleOK
  <2>3. \A i \in 1 .. Len(u.pool.members) : u.pool.members[i].available <= u.pool.available
    BY <1>3 DEF PoolOK
  <2>4. /\ u.reason = Failure(u.pool, Previous, Current)
        /\ u.status = (IF u.reason = "none" THEN "swept" ELSE "invalidated")
    <3>1. /\ u.reason = Retirement(u.pool, h[n - 1], h[n]).reason
          /\ u.status = Retirement(u.pool, h[n - 1], h[n]).status
      BY <2>1
    <3> QED BY <1>1, <2>1, <3>1 DEF Retirement
  <2>5. u.status = "swept" <=> u.reason = "none"
    BY <2>4
  <2> QED BY <1>1, <2>1, <2>2, <2>3, <2>4, <2>5 DEF EndAccepted
<1>5. ASSUME NEW s \in sweeps PROVE SweepAccepted(s) /\ s.available = Current.available
  <2>1. PICK u \in updates : /\ u.status = "swept"
                             /\ s = [pool |-> u.pool, index |-> Now, available |-> Bar(Now).available]
    BY DEF PoolsInv
  <2> DEFINE p == u.pool
             last == p.members[Len(p.members)]
  <2>2. s.pool = p /\ s.available = Current.available
    BY <1>1, <2>1
  <2>3. EndAccepted(u)
    BY <1>4, <2>1
  <2>4. Breached(p, Current) /\ Failure(p, Previous, Current) = "none"
    BY <2>1, <2>3 DEF EndAccepted
  <2>5. PoolOK(p, W)
    BY <1>3
  <2>6. last \in W /\ p.available = last.available
    <3>1. Len(p.members) \in 1 .. Len(p.members) /\ Members(p) \subseteq W
      BY <1>2, <2>5, PoolIs
    <3> QED BY <2>5, <3>1 DEF PoolOK, Members
  <2>7. ~(p.available > Current.index)
    BY <2>4 DEF Failure
  <2>8. last = SwingAt(h, last.kind, last.pivot) /\ last.pivot \in PivotsIn(h, last.kind, n - 1) /\ last.kind \in Kinds
    BY <1>1, <2>6, SwingsAre
  <2>9. /\ last.confirmed = last.pivot + Radius /\ last.confirmed \in 0 .. n - 1
        /\ last.available = h[last.confirmed + 1].available
    <3>1. /\ last.confirmed = last.pivot + Radius
          /\ last.available = h[last.pivot + Radius + 1].available
          /\ last.pivot + Radius <= n - 1 /\ last.pivot + Radius \in Nat
      <4>1. PICK k : k = last.kind
        OBVIOUS
      <4>2. PICK q : q = last.pivot
        OBVIOUS
      <4>3. last = SwingAt(h, k, q) /\ q \in PivotsIn(h, k, n - 1) /\ k \in Kinds
        BY <2>8, <4>1, <4>2
      <4>4. /\ SwingAt(h, k, q).confirmed = q + Radius /\ q + Radius <= n - 1 /\ q + Radius \in Nat
            /\ SwingAt(h, k, q).available = h[q + Radius + 1].available
        BY <1>1, <4>3, SwingIs
      <4> HIDE DEF last
      <4> QED BY <4>2, <4>3, <4>4
    <3> HIDE DEF last, n
    <3> QED BY <1>1, <3>1
  <2>10. CandleOK(h[last.confirmed + 1], last.confirmed)
    BY <1>1, <2>9, CandlesAre
  <2>11. last.confirmed < last.available /\ last.available \in Nat
    <3>1. h[last.confirmed + 1] \in Candle
      BY <2>10 DEF CandleOK
    <3> QED BY <2>9, <2>10, <3>1, CandleTypes DEF CandleOK
  <2>12. last.confirmed < Current.index
    <3>1. Current.index = Now
      BY <1>1 DEF CandleOK
    <3> HIDE DEF last, p
    <3> QED BY <1>1, <2>6, <2>7, <2>9, <2>11, <3>1
  <2> QED BY <2>2, <2>4, <2>12 DEF SweepAccepted
<1>6. {u.pool : u \in {v \in updates : v.status = "swept"}} = {s.pool : s \in sweeps}
  <2> DEFINE U == {v \in updates : v.status = "swept"}
  <2>1. sweeps = {[pool |-> u.pool, index |-> Now, available |-> Bar(Now).available] : u \in U}
    BY DEF PoolsInv
  <2>2. \A s \in sweeps : \E u \in U : s.pool = u.pool
    BY <2>1
  <2>3. \A u \in U : \E s \in sweeps : s.pool = u.pool
    <3> SUFFICES ASSUME NEW u \in U PROVE \E s \in sweeps : s.pool = u.pool
      OBVIOUS
    <3> DEFINE s == [pool |-> u.pool, index |-> Now, available |-> Bar(Now).available]
    <3>1. s.pool = u.pool
      OBVIOUS
    <3>2. s \in sweeps
      BY <2>1
    <3> QED BY <3>1, <3>2
  <2> HIDE DEF U
  <2>4. {u.pool : u \in U} = {s.pool : s \in sweeps}
    BY <2>2, <2>3
  <2> QED BY <2>4 DEF U
<1>7. Cardinality({u.pool.anchor : u \in updates}) = Cardinality(updates)
  <2> DEFINE f == [u \in updates |-> u.pool.anchor]
  <2>1. IsFiniteSet(updates)
    BY DEF PoolsInv
  <2>2. ASSUME NEW u \in updates, NEW v \in updates, u.pool.anchor = v.pool.anchor PROVE u = v
    <3> DEFINE s == u.pool.anchor
    <3>1. s \in W /\ s \in Members(u.pool) /\ s \in Members(v.pool)
      BY <1>2, <1>3, <2>2, PoolIs
    <3>2. PICK q \in P : Holds(q, P, s)
      BY <3>1 DEF PoolsInv, PoolsOK
    <3>3. u.pool = v.pool
      BY <1>3, <3>1, <3>2 DEF Holds
    <3>4. CASE EndsIn(u, h)
      <4>1. EndsIn(v, h)
        <5> SUFFICES ASSUME ~EndsIn(v, h) PROVE FALSE
          OBVIOUS
        <5>1. v = [pool |-> v.pool, status |-> "active", reason |-> "none"]
          BY <1>3
        <5>2. v.pool \in pools
          BY <5>1 DEF PoolsInv
        <5> QED BY <1>3, <3>3, <3>4, <5>2
      <4> QED BY <3>3, <3>4, <4>1 DEF EndsIn
    <3>5. CASE ~EndsIn(u, h)
      <4>1. ~EndsIn(v, h)
        <5> SUFFICES ASSUME EndsIn(v, h) PROVE FALSE
          OBVIOUS
        <5>1. u.pool \in pools
          BY <3>5 DEF PoolsInv
        <5> QED BY <1>3, <3>3, <5>1
      <4> QED BY <1>3, <3>3, <3>5, <4>1
    <3> QED BY <3>4, <3>5
  <2>3. \A u, v \in updates : f[u] = f[v] => u = v
    BY <2>2
  <2>4. {f[u] : u \in updates} = {u.pool.anchor : u \in updates}
    OBVIOUS
  <2> HIDE DEF f
  <2>5. Cardinality({f[u] : u \in updates}) = Cardinality(updates)
    BY <2>1, <2>3, ImageIs
  <2> QED BY <2>4, <2>5
<1>8. \A u \in updates : PoolAccepted(u.pool)
  BY <1>3, PoolsAccepted
<1> QED BY <1>4, <1>5, <1>6, <1>7, <1>8 DEF LiquidityAccepted

\* The sum of the true ranges is defined, and no stand-in for a missing one.
LEMMA TotalIs ==
    ASSUME NEW obs, Len(obs) = AtrPeriod + 1,
           \A k \in 1 .. AtrPeriod : TrueRange(obs[k], obs[k + 1]) \in Nat
    PROVE  AtrTotal(obs) \in Nat
<1> DEFINE N == AtrPeriod
           T(k) == TrueRange(obs[k], obs[k + 1])
           Sums(f, m) == f = [k \in 0 .. m |-> IF k = 0 THEN 0 ELSE f[k - 1] + T(k)]
           total == CHOOSE f : Sums(f, N)
           Bad == {m \in 0 .. N : ~\E f : Sums(f, m)}
           Odd == {m \in 0 .. N : total[m] \notin Nat}
<1>1. N \in Nat \ {0}
  BY DisplacementAssumption
<1>2. \A k \in 1 .. N : T(k) \in Nat
  OBVIOUS
<1>3. AtrTotal(obs) = total[N]
  BY DEF AtrTotal
<1> HIDE DEF T, N
<1>4. Bad = {}
  <2> SUFFICES ASSUME Bad # {} PROVE FALSE
    OBVIOUS
  <2>1. PICK b \in Bad : \A y \in Bad : b <= y
    <3>1. Bad \subseteq Nat
      BY <1>1
    <3> HIDE DEF Bad
    <3> QED BY <3>1, LeastNatural
  <2>2. b \in 0 .. N /\ ~\E f : Sums(f, b)
    BY <2>1
  <2>3. CASE b = 0
    <3> DEFINE f == [k \in 0 .. 0 |-> 0]
    <3>1. f = [k \in 0 .. b |-> IF k = 0 THEN 0 ELSE f[k - 1] + T(k)]
      BY <2>3
    <3> HIDE DEF f
    <3>2. Sums(f, b)
      BY <3>1
    <3> QED BY <2>2, <3>2
  <2>4. CASE b # 0
    <3>1. b - 1 \in 0 .. N /\ b \in Nat /\ b - 1 < b
      BY <1>1, <2>2, <2>4
    <3>2. b - 1 \notin Bad
      BY SMTT(60), <2>1, <3>1
    <3>3. PICK f : Sums(f, b - 1)
      BY <3>1, <3>2
    <3> DEFINE g == [k \in 0 .. b |-> IF k = 0 THEN 0 ELSE f[k - 1] + T(k)]
    <3>4. \A k \in 0 .. b - 1 : f[k] = IF k = 0 THEN 0 ELSE f[k - 1] + T(k)
      BY <3>3
    <3>5. \A k \in 0 .. b : k # 0 => g[k - 1] = f[k - 1]
      <4> SUFFICES ASSUME NEW k \in 0 .. b, k # 0 PROVE g[k - 1] = f[k - 1]
        OBVIOUS
      <4>1. k - 1 \in 0 .. b - 1 /\ k - 1 \in 0 .. b
        BY <3>1
      <4> QED BY <3>4, <4>1
    <3>6. g = [k \in 0 .. b |-> IF k = 0 THEN 0 ELSE g[k - 1] + T(k)]
      BY <3>5
    <3> HIDE DEF g
    <3>7. Sums(g, b)
      BY <3>6
    <3> QED BY <2>2, <3>7
  <2> QED BY <2>3, <2>4
<1>5. Sums(total, N)
  <2>1. N \in 0 .. N
    BY <1>1
  <2>2. \E f : Sums(f, N)
    BY <1>4, <2>1
  <2> QED BY <2>2
<1>6. \A k \in 0 .. N : total[k] = IF k = 0 THEN 0 ELSE total[k - 1] + T(k)
  <2> HIDE DEF total
  <2> QED BY <1>5
<1> HIDE DEF total
<1>7. Odd = {}
  <2> SUFFICES ASSUME Odd # {} PROVE FALSE
    OBVIOUS
  <2>1. PICK b \in Odd : \A y \in Odd : b <= y
    <3>1. Odd \subseteq Nat
      BY <1>1
    <3> HIDE DEF Odd
    <3> QED BY <3>1, LeastNatural
  <2>2. b \in 0 .. N /\ total[b] \notin Nat
    BY <2>1
  <2>3. b # 0
    BY <1>6, <2>2
  <2>4. b - 1 \in 0 .. N /\ b - 1 < b /\ b \in 1 .. N
    BY <1>1, <2>2, <2>3
  <2>5. total[b - 1] \in Nat
    BY <2>1, <2>4
  <2>6. total[b] = total[b - 1] + T(b) /\ T(b) \in Nat
    BY <1>2, <1>6, <2>2, <2>3, <2>4
  <2> QED BY <2>2, <2>5, <2>6
<1>8. total[N] \in Nat
  <2>1. N \in 0 .. N
    BY <1>1
  <2> QED BY <1>7, <2>1
<1> QED BY <1>3, <1>8

\* The true range between two candles.
LEMMA TrueRangeIs ==
    ASSUME NEW c \in Candle, NEW d \in Candle, d.low <= d.high PROVE TrueRange(c, d) \in Nat
<1> DEFINE S == {d.high - d.low, Distance(d.high, c.close), Distance(d.low, c.close)}
           M == d.high + d.low + c.close
<1>1. /\ d.high \in Nat /\ d.low \in Nat /\ c.close \in Nat
  BY CandleTypes
<1>2. S \subseteq Nat /\ S # {} /\ M \in Int /\ \A x \in S : x <= M
  BY <1>1 DEF Distance
<1> HIDE DEF S, M
<1>3. Max(S) \in S
  BY <1>2, MaxOf
<1> QED BY <1>2, <1>3 DEF TrueRange, S

\* DisplacementSnapshot and its reference range.
LEMMA DisplacementIsAccepted ==
    ASSUME LinkInv, StructureInv, DisplacementInv, Now >= 0 PROVE DisplacementAccepted
<1> DEFINE h == Bars
           n == Len(h)
<1>1. /\ HistoryOK(h) /\ n \in Nat /\ Now = n - 1 /\ Now \in Nat /\ Now \in Indices
      /\ Current = h[n] /\ Current.index = Now
  BY WindowIs DEF CandleOK
<1>2. AtrPeriod \in Nat \ {0} /\ AtrPeriod + 1 \in Nat \ {0}
  BY DisplacementAssumption
<1>3. IsTail(observations, h, AtrPeriod + 1) /\ atr = AtrTotal(observations)
  BY DEF DisplacementInv
<1>4. /\ Consecutive(observations) /\ Len(observations) \in Nat
      /\ \A i \in 1 .. Len(observations) : observations[i] = h[n - Len(observations) + i]
      /\ observations[Len(observations)] = h[n]
  BY <1>1, <1>2, <1>3, TailInOrder
<1>5. Len(observations) = IF n <= AtrPeriod + 1 THEN n ELSE AtrPeriod + 1
  BY <1>3 DEF IsTail
<1>6. ASSUME Now < AtrPeriod PROVE AtrAccepted
  <2>1. Len(observations) # AtrPeriod + 1
    BY <1>1, <1>2, <1>5, <1>6
  <2>2. atr = NoAtr
    BY <1>3, <2>1 DEF AtrTotal
  <2> QED BY <1>1, <1>6, <2>2 DEF AtrAccepted
<1>7. ASSUME ~(Now < AtrPeriod) PROVE AtrAccepted
  <2>1. Len(observations) = AtrPeriod + 1
    BY <1>1, <1>2, <1>5, <1>7
  <2>2. \A i \in 1 .. AtrPeriod + 1 : observations[i] \in Candle /\ observations[i].low <= observations[i].high
    <3> SUFFICES ASSUME NEW i \in 1 .. AtrPeriod + 1
                 PROVE  observations[i] \in Candle /\ observations[i].low <= observations[i].high
      OBVIOUS
    <3> DEFINE k == (n - (AtrPeriod + 1) + i) - 1
    <3>1. k \in 0 .. n - 1 /\ n - (AtrPeriod + 1) + i = k + 1
      BY <1>1, <1>2, <1>7
    <3>2. observations[i] = h[k + 1]
      BY <1>4, <2>1, <3>1
    <3> HIDE DEF k
    <3>3. h[k + 1] \in Candle /\ CandleOK(h[k + 1], k)
      BY <1>1, <3>1, CandlesAre
    <3>4. h[k + 1].low <= h[k + 1].high
      BY <3>3, CandleTypes DEF CandleOK
    <3> QED BY <3>2, <3>3, <3>4
  <2>3. \A i \in 1 .. AtrPeriod : TrueRange(observations[i], observations[i + 1]) \in Nat
    <3> SUFFICES ASSUME NEW i \in 1 .. AtrPeriod
                 PROVE  TrueRange(observations[i], observations[i + 1]) \in Nat
      OBVIOUS
    <3>1. i \in 1 .. AtrPeriod + 1 /\ i + 1 \in 1 .. AtrPeriod + 1
      BY <1>2
    <3> QED BY <2>2, <3>1, TrueRangeIs
  <2>4. atr \in Nat
    BY <1>3, <2>1, <2>3, TotalIs
  <2>5. atr # NoAtr
    BY <2>4 DEF NoAtr
  <2> QED BY <1>1, <1>4, <1>7, <2>1, <2>5 DEF AtrAccepted
<1>8. displacement.index = Now /\ (displacement.event => displacement.direction # "none")
  <2>1. At(Now).displacement = displacement
    BY DEF LinkInv
  <2> QED BY <1>1, <2>1 DEF DisplacementInv, DisplacementOK
<1>9. SweepsAccepted(displacement.preceding, Current)
  <2> DEFINE S == displacement.preceding
  <2>1. /\ \A s \in S : Now - s.index \in 1 .. SweepLookback /\ s.available <= Now
        /\ \A s, t \in S : s.index = t.index
    BY DEF DisplacementInv, PrecedingOK
  <2> HIDE DEF S
  <2>2. \A x, y \in {s.index : s \in S} : x = y
    BY <2>1
  <2>3. Cardinality({s.index : s \in S}) <= 1
    BY <2>2, AtMostOne
  <2> QED BY <1>1, <2>1, <2>3 DEF SweepsAccepted, S
<1>10. displacement.event => Now > AtrPeriod
  BY DEF DisplacementInv
<1>11. AtrAccepted
  BY <1>6, <1>7
<1> QED BY <1>1, <1>8, <1>9, <1>10, <1>11 DEF DisplacementAccepted

\* The prices of a gap are in order.
LEMMA GapIsOpen ==
    ASSUME NEW c \in Candle, NEW d \in Candle, GapDirection(c, d) # "none"
    PROVE  /\ GapLower(c, d) \in Nat /\ GapUpper(c, d) \in Nat /\ GapLower(c, d) < GapUpper(c, d)
BY CandleTypes DEF GapDirection, GapLower, GapUpper

\* FVGSnapshot.
LEMMA GapsAreAccepted ==
    ASSUME LinkInv, StructureInv, DisplacementInv, Now >= 0
    PROVE  /\ GapsAccepted
           /\ \A g \in gap : /\ g.index = Now /\ g.available = Current.available
                             /\ g.lower \in Nat /\ g.upper \in Nat /\ g.lower < g.upper
<1> DEFINE h == Bars
           n == Len(h)
           w == gapWindow
<1>1. /\ HistoryOK(h) /\ n \in Nat /\ Now = n - 1 /\ Now \in Nat /\ Indices = 0 .. Now /\ Now \in Indices
      /\ Current = Bar(Now) /\ CandleOK(Current, Now)
      /\ \A i \in Indices : Bar(i) = h[i + 1] /\ CandleOK(Bar(i), i)
  BY WindowIs
<1>2. /\ Len(w) = IF Now + 1 <= 3 THEN Now + 1 ELSE 3
      /\ \A i \in 1 .. Len(w) :
            /\ Now - Len(w) + i \in Indices /\ w[i].candle = Bar(Now - Len(w) + i)
            /\ w[i].displacement = At(Now - Len(w) + i).displacement
  BY GapWindowIs DEF GapWindowOK
<1>3. Current.index = Now /\ Len(w) = Min({Current.index + 1, 3})
  <2>1. Current.index = Now
    BY <1>1 DEF CandleOK
  <2>2. Min({Now + 1, 3}) = IF Now + 1 <= 3 THEN Now + 1 ELSE 3
    BY <1>1, MinOfPair
  <2> QED BY <1>2, <2>1, <2>2
<1>4. gap = GapIn(w, Bar(Now))
  BY DEF DisplacementInv
<1>5. gap # {} <=> QualifiedGap(w)
  BY <1>4 DEF GapIn
<1>6. ASSUME NEW g \in gap
      PROVE  /\ GapAccepted(g) /\ g.index = Now /\ g.available = Current.available
             /\ g.lower \in Nat /\ g.upper \in Nat /\ g.lower < g.upper
  <2>1. /\ QualifiedGap(w)
        /\ g = [index |-> Bar(Now).index, middle |-> w[2].displacement,
                direction |-> GapDirection(w[1].candle, w[3].candle),
                lower |-> GapLower(w[1].candle, w[3].candle),
                upper |-> GapUpper(w[1].candle, w[3].candle), available |-> Bar(Now).available]
    BY <1>4 DEF GapIn
  <2>2. /\ g.index = Now /\ g.middle = w[2].displacement /\ g.available = Current.available
        /\ g.lower = GapLower(w[1].candle, w[3].candle) /\ g.upper = GapUpper(w[1].candle, w[3].candle)
    BY <1>1, <1>3, <2>1
  <2>3. Len(w) = 3 /\ GapDirection(w[1].candle, w[3].candle) # "none"
    BY <2>1 DEF QualifiedGap
  <2>4. /\ Now - 2 \in Indices /\ Now - 1 \in Indices
        /\ w[1].candle = Bar(Now - 2) /\ w[2].candle = Bar(Now - 1) /\ w[3].candle = Bar(Now)
        /\ w[2].displacement = At(Now - 1).displacement
    <3>1. Now - 3 + 1 = Now - 2 /\ Now - 3 + 2 = Now - 1 /\ Now - 3 + 3 = Now
      BY <1>1
    <3>2. 1 \in 1 .. 3 /\ 2 \in 1 .. 3 /\ 3 \in 1 .. 3
      OBVIOUS
    <3> HIDE DEF w
    <3> QED BY <1>2, <2>3, <3>1, <3>2
  <2>5. /\ CandleOK(Bar(Now - 2), Now - 2) /\ CandleOK(Bar(Now - 1), Now - 1) /\ CandleOK(Bar(Now), Now)
    BY <1>1, <2>4
  <2>6. g.lower \in Nat /\ g.upper \in Nat /\ g.lower < g.upper
    <3>1. w[1].candle \in Candle /\ w[3].candle \in Candle
      BY <2>4, <2>5 DEF CandleOK
    <3> QED BY <2>2, <2>3, <3>1, GapIsOpen
  <2>7. Bar(Now - 2).available <= Bar(Now - 1).available /\ Bar(Now - 1).available <= Bar(Now).available
    <3>1. /\ Now - 2 + 1 \in 1 .. n /\ Now - 1 + 1 \in 1 .. n /\ Now + 1 \in 1 .. n
          /\ Now - 2 + 1 <= Now - 1 + 1 /\ Now - 1 + 1 <= Now + 1
      BY <1>1, <2>4
    <3>2. /\ h[Now - 2 + 1].available <= h[Now - 1 + 1].available
          /\ h[Now - 1 + 1].available <= h[Now + 1].available
      BY <1>1, <3>1 DEF HistoryOK
    <3> QED BY <1>1, <2>4, <3>2
  <2>8. Consecutive([i \in 1 .. 3 |-> w[i].candle])
    <3> DEFINE f == [i \in 1 .. 3 |-> w[i].candle]
    <3>1. f[1] = Bar(Now - 2) /\ f[2] = Bar(Now - 1) /\ f[3] = Bar(Now)
      BY <2>4
    <3>2. Len(f) = 3
      <4>1. f = [i \in 1 .. 3 |-> f[i]]
        OBVIOUS
      <4> HIDE DEF f
      <4> QED BY <4>1, FunctionIs
    <3> HIDE DEF f
    <3>3. \A i \in 1 .. Len(f) - 1 : i = 1 \/ i = 2
      BY <3>2
    <3>4. /\ f[1].index + 1 = f[2].index /\ f[1].available <= f[2].available
          /\ f[2].index + 1 = f[3].index /\ f[2].available <= f[3].available
      BY <1>1, <2>5, <2>7, <3>1 DEF CandleOK
    <3>5. Consecutive(f)
      BY <3>3, <3>4 DEF Consecutive
    <3> QED BY <3>5 DEF f
  <2>9. g.middle.index = w[2].candle.index /\ g.middle.available <= g.available
    <3>1. DisplacementOK(At(Now - 1).displacement, Now - 1, Bar(Now - 1))
      BY <2>4 DEF DisplacementInv
    <3>2. Bar(Now - 1).index = Now - 1
      BY <2>5 DEF CandleOK
    <3> QED BY <1>1, <2>2, <2>4, <2>7, <3>1, <3>2 DEF DisplacementOK
  <2> QED BY <1>1, <2>1, <2>2, <2>4, <2>6, <2>8, <2>9 DEF GapAccepted
<1> QED BY <1>3, <1>5, <1>6 DEF GapsAccepted

\* OrderBlockSnapshot.
LEMMA BlocksAreAccepted ==
    ASSUME LinkInv, StructureInv, DisplacementInv, BlocksInv, Now >= 0
    PROVE  /\ BlocksAccepted
           /\ \A b \in blocks : BlockOK(b, Bars) /\ b.index = Now /\ b.available = Current.available
<1>1. /\ HistoryOK(Bars) /\ Len(Bars) \in Nat /\ Now = Len(Bars) - 1 /\ Now \in Nat /\ Now \in Indices
      /\ Current.index = Now /\ Current = Bars[Len(Bars)] /\ At(Now).blocks = blocks
  BY WindowIs DEF CandleOK, LinkInv
<1>2. HistoryAccepted(history, Current.index + 1)
  <2>1. Current.index + 1 = Len(Bars)
    BY <1>1
  <2> QED BY <1>1, <2>1, TailAccepted DEF BlocksInv
<1>3. \A p \in pending : HistoryAccepted(p.past, p.displaced.index)
  <2>1. displacement.index = Now
    BY <1>1 DEF DisplacementInv, DisplacementOK, LinkInv
  <2> QED BY <2>1 DEF BlocksInv
<1>4. Cardinality(blocks) <= 1
  BY AtMostOne DEF BlocksInv
<1>5. \A b \in blocks : BlockOK(b, Bars) /\ b.index = Now
  BY <1>1 DEF BlocksInv
<1>6. ASSUME NEW b \in blocks PROVE BlockAccepted(b) /\ b.available = Current.available
  <2>1. /\ b.lower < b.upper /\ b.index = Now /\ b.available = Bars[b.index + 1].available
        /\ b.displaced = (IF config.requireFvg THEN b.index - 1 ELSE b.index)
        /\ b.candidate \in Nat /\ b.candidate \in b.displaced - MaxLookback .. b.displaced - 1
    BY <1>5 DEF BlockOK
  <2>2. b.displaced \in Int /\ b.index = IF config.requireFvg THEN b.displaced + 1 ELSE b.displaced
    BY <1>1, <2>1
  <2>3. b.candidate < b.displaced /\ b.displaced - b.candidate <= MaxLookback
    BY <2>1, <2>2, OrderBlockAssumption
  <2>4. b.index + 1 = Len(Bars)
    BY <1>1, <2>1
  <2> QED BY <1>1, <2>1, <2>2, <2>3, <2>4 DEF BlockAccepted
<1> QED BY <1>2, <1>3, <1>4, <1>5, <1>6 DEF BlocksAccepted

\* What a frame publishes is dated by its candle.
FactsOK ==
    /\ Bar(Now) \in Candle
    /\ \A u \in updates : u.pool.anchor.price \in Nat
    /\ \A s \in sweeps : s.index = Now /\ s.available = Bar(Now).available
    /\ displacement.index = Now /\ displacement.available = Bar(Now).available
    /\ \A g \in gap \cup blocks :
         /\ g.index = Now /\ g.available = Bar(Now).available
         /\ g.lower \in Nat /\ g.upper \in Nat /\ g.lower < g.upper

\* The facts of a frame that the annotations of its arrays rest on.
LEMMA FactsAre ==
    LinkInv /\ StructureInv /\ PoolsInv /\ DisplacementInv /\ BlocksInv /\ Now >= 0 => FactsOK
<1> SUFFICES ASSUME LinkInv, StructureInv, PoolsInv, DisplacementInv, BlocksInv, Now >= 0
             PROVE  FactsOK
  OBVIOUS
<1>1. HistoryOK(Bars) /\ Now \in Indices /\ Current = Bar(Now) /\ CandleOK(Bar(Now), Now)
  BY WindowIs
<1>2. Bar(Now) \in Candle
  BY <1>1 DEF CandleOK
<1>3. ASSUME NEW u \in updates PROVE u.pool.anchor.price \in Nat
  <2>1. u.pool.anchor \in SwingsIn(Bars)
    BY UpdatesAre DEF PoolOK
  <2>2. u.pool.anchor \in Swing
    BY <1>1, <2>1, SwingsAre
  <2> QED BY <2>2 DEF Swing
<1>4. \A s \in sweeps : s.index = Now /\ s.available = Bar(Now).available
  BY DEF PoolsInv
<1>5. displacement.index = Now /\ displacement.available = Bar(Now).available
  BY <1>1 DEF DisplacementInv, DisplacementOK, LinkInv
<1>6. \A g \in gap : /\ g.index = Now /\ g.available = Bar(Now).available
                     /\ g.lower \in Nat /\ g.upper \in Nat /\ g.lower < g.upper
  BY <1>1, GapsAreAccepted
<1>7. \A g \in blocks : /\ g.index = Now /\ g.available = Bar(Now).available
                        /\ g.lower \in Nat /\ g.upper \in Nat /\ g.lower < g.upper
  BY <1>1, BlocksAreAccepted DEF BlockOK
<1> QED BY <1>2, <1>3, <1>4, <1>5, <1>6, <1>7 DEF FactsOK

\* The band of a pool lies around its anchor, and a midpoint between its bounds.
LEMMA PositionsAre ==
    /\ \A p : p.anchor.price \in Nat =>
         /\ 2 * Lower(p) <= Position(p.anchor.price) /\ Position(p.anchor.price) <= 2 * Upper(p)
    /\ \A a, b \in Nat : a < b => Position(a) <= Midpoint(a, b) /\ Midpoint(a, b) <= Position(b)
    /\ \A a \in Nat : Position(a) <= Position(a)
<1>1. ASSUME NEW x \in Nat
      PROVE  /\ 2 * (x * (10000 - ToleranceBps)) <= 20000 * x
             /\ 20000 * x <= 2 * (x * (10000 + ToleranceBps))
  <2>1. ToleranceBps \in Nat
    BY ToleranceAssumption
  <2>2. x * ToleranceBps >= 0
    BY <2>1
  <2>3. /\ x * (10000 - ToleranceBps) = 10000 * x - x * ToleranceBps
        /\ x * (10000 + ToleranceBps) = 10000 * x + x * ToleranceBps
    BY <2>1
  <2>4. x * ToleranceBps \in Int
    BY <2>1
  <2>5. \A y \in Int : y >= 0 => 2 * (10000 * x - y) <= 20000 * x /\ 20000 * x <= 2 * (10000 * x + y)
    OBVIOUS
  <2> QED BY <2>2, <2>3, <2>4, <2>5
<1>2. \A p : p.anchor.price \in Nat =>
         /\ 2 * Lower(p) <= Position(p.anchor.price) /\ Position(p.anchor.price) <= 2 * Upper(p)
  BY <1>1 DEF Lower, Upper, Position
<1>3. \A a, b \in Nat : a < b => Position(a) <= Midpoint(a, b) /\ Midpoint(a, b) <= Position(b)
  BY DEF Position, Midpoint
<1>4. \A a \in Nat : Position(a) <= Position(a)
  BY DEF Position
<1> QED BY <1>2, <1>3, <1>4

\* The arrays of a frame are annotated where they are published.
LEMMA SidecarsStay ==
    ASSUME LinkInv, NEW c, Step(c),
           LinkInv', StructureInv', PoolsInv', DisplacementInv', BlocksInv'
    PROVE  SidecarInv'
<1> DEFINE Good(f) == /\ f.index = Now' /\ f.available = c.available
                      /\ f.lower <= f.position /\ f.position <= f.upper
           arrays == {Facts("liquidity_pool", 2 * Lower(u.pool), 2 * Upper(u.pool),
                            Position(u.pool.anchor.price), c) : u \in updates'}
           swept == {LET extreme == Position(Extreme(c, s.pool.anchor.kind))
                     IN  Facts("sweep", extreme, extreme, extreme, s) : s \in sweeps'}
           moved == {LET close == Position(c.close)
                     IN  Facts("displacement", close, close, close, d) :
                       d \in {e \in {displacement'} : e.event}}
           gaps == {Zoned("fvg", g) : g \in gap'}
           zones == {Zoned("order_block", b) : b \in blocks'}
<1>1. Bar(Now)' = c /\ Now' = Len(Bars) /\ Len(Bars) \in Nat /\ CandleOK(c, Len(Bars))
  BY EarlierFrames
<1>2. FactsOK'
  <2>1. (Now >= 0)'
    BY <1>1
  <2>2. (LinkInv /\ StructureInv /\ PoolsInv /\ DisplacementInv /\ BlocksInv /\ Now >= 0)' => FactsOK'
    BY FactsAre, PTL
  <2> QED BY <2>1, <2>2
<1>3. /\ c \in Candle /\ c.index = Now'
      /\ \A u \in updates' : u.pool.anchor.price \in Nat
      /\ \A s \in sweeps' : s.index = Now' /\ s.available = c.available
      /\ displacement'.index = Now' /\ displacement'.available = c.available
      /\ \A g \in gap' \cup blocks' :
            /\ g.index = Now' /\ g.available = c.available
            /\ g.lower \in Nat /\ g.upper \in Nat /\ g.lower < g.upper
  BY <1>1, <1>2 DEF FactsOK, CandleOK
<1>4. c.close \in Nat /\ \A kind : Extreme(c, kind) \in Nat
  BY <1>3, CandleTypes DEF Extreme
<1>5. premium'.arrays = {Sidecar(f, range') : f \in PublishedArrays(c)}
  BY DEF Step, Analyze, PremiumUpdate
<1>6. \A f \in arrays : Good(f)
  BY <1>3, PositionsAre DEF Facts
<1>7. \A f \in swept : Good(f)
  BY <1>3, <1>4, PositionsAre DEF Facts
<1>8. \A f \in moved : Good(f)
  BY <1>3, <1>4, PositionsAre DEF Facts
<1>9. \A f \in gaps \cup zones : Good(f)
  BY <1>3, PositionsAre DEF Facts, Zoned
<1>10. PublishedArrays(c) = arrays \cup swept \cup moved \cup gaps \cup zones
  BY DEF PublishedArrays
<1> HIDE DEF arrays, swept, moved, gaps, zones, Good
<1>11. \A f \in PublishedArrays(c) : Good(f)
  BY <1>6, <1>7, <1>8, <1>9, <1>10
<1>12. \A a \in premium'.arrays : Good(a.facts)
  <2>1. \A f : Sidecar(f, range').facts = f
    BY DEF Sidecar
  <2> QED BY <1>5, <1>11, <2>1
<1> QED BY <1>1, <1>12 DEF SidecarInv, Good

\* The endpoints of the range are the newest swings of the trend evidence.
LEMMA EndpointsAccepted ==
    ASSUME LinkInv, StructureInv, RangeInv, Now >= 0, NEW kind \in Kinds
    PROVE  {e \in endpoints : e.kind = kind} =
             IF recent[kind] = <<>> THEN {} ELSE {recent[kind][Len(recent[kind])]}
<1> DEFINE h == Bars
           n == Len(h)
           r == recent[kind]
           K == WithPivots(h, n - 1)
<1>1. HistoryOK(h) /\ n \in Nat /\ Now = n - 1
  BY WindowIs
<1>2. RecentOK(r, h, kind)
  BY DEF StructureInv
<1>3. endpoints = {EndpointIn(h, k) : k \in K}
  BY DEF RangeInv, EndpointsIn
<1>4. \A k \in K : EndpointIn(h, k).kind = k
  BY <1>1, EndpointIs
<1> HIDE DEF r, K
<1>5. CASE PivotsIn(h, kind, n - 1) = {}
  <2>1. r = <<>> /\ kind \notin K
    BY <1>2, <1>5 DEF RecentOK, WithPivots, K
  <2>2. \A e \in endpoints : e.kind # kind
    BY <1>3, <1>4, <2>1
  <2> QED BY <2>1, <2>2 DEF r
<1>6. CASE PivotsIn(h, kind, n - 1) # {}
  <2>1. /\ r # <<>> /\ kind \in K /\ r[Len(r)] = EndpointIn(h, kind)
    BY <1>2, <1>6 DEF RecentOK, WithPivots, K, EndpointIn
  <2>2. \A e \in endpoints : e.kind = kind <=> e = EndpointIn(h, kind)
    BY <1>3, <1>4, <2>1
  <2>3. EndpointIn(h, kind) \in endpoints
    BY <1>3, <2>1
  <2>4. {e \in endpoints : e.kind = kind} = {EndpointIn(h, kind)}
    BY <2>2, <2>3
  <2> QED BY <2>1, <2>4 DEF r
<1> QED BY <1>5, <1>6

\* PDSnapshot.
LEMMA PremiumIsAccepted ==
    ASSUME LinkInv, StructureInv, RangeInv, SidecarInv, Now >= 0 PROVE PremiumAccepted
<1> DEFINE h == Bars
           n == Len(h)
           low == EndpointIn(h, "low")
           high == EndpointIn(h, "high")
<1>1. /\ HistoryOK(h) /\ n \in Nat /\ Now = n - 1 /\ Now \in Nat /\ Current = h[n]
      /\ Current = Bar(Now) /\ Current.index = Now
  BY WindowIs DEF CandleOK
<1>2. endpoints = EndpointsIn(h) /\ range = IF SpanIn(h) THEN {RangeIn(h)} ELSE {}
  BY DEF RangeInv
<1>3. PairStatus(endpoints) = "confirmed" <=> SpanIn(h)
  BY <1>1, <1>2, PairIs
<1>4. range # {} <=> PairStatus(endpoints) = "confirmed"
  BY <1>2, <1>3
<1>5. ASSUME NEW r \in range PROVE RangeAccepted(r) /\ ContextAccepted(r) /\ {r.low, r.high} = endpoints
  <2>1. SpanIn(h) /\ r = RangeIn(h)
    BY <1>2
  <2> DEFINE since == Max({low.confirmed, high.confirmed})
  <2>2. r.low = low /\ r.high = high /\ r.index = since /\ r.available = h[since + 1].available
    BY <2>1 DEF RangeIn
  <2>3. {r.low, r.high} = endpoints
    BY <1>1, <1>2, <2>1, <2>2, PairIs
  <2>4. "low" \in WithPivots(h, n - 1) /\ "high" \in WithPivots(h, n - 1)
    BY <2>1 DEF SpanIn, Kinds
  <2>5. /\ low.confirmed \in 0 .. n - 1 /\ low.available = h[low.confirmed + 1].available
        /\ high.confirmed \in 0 .. n - 1 /\ high.available = h[high.confirmed + 1].available
    BY <1>1, <2>4, EndpointIs
  <2>6. since = IF low.confirmed >= high.confirmed THEN low.confirmed ELSE high.confirmed
    <3>1. low.confirmed \in Int /\ high.confirmed \in Int
      BY <2>5
    <3> QED BY <3>1, MaxOfPair
  <2> HIDE DEF since, low, high
  <2>7. since \in 0 .. n - 1 /\ low.confirmed <= since /\ high.confirmed <= since
    BY <2>5, <2>6
  <2>8. \A i, j \in 0 .. n - 1 : i <= j => h[i + 1].available <= h[j + 1].available
    <3> HIDE DEF n
    <3> SUFFICES ASSUME NEW i \in 0 .. n - 1, NEW j \in 0 .. n - 1, i <= j
                 PROVE  h[i + 1].available <= h[j + 1].available
      OBVIOUS
    <3>1. i + 1 \in 1 .. n /\ j + 1 \in 1 .. n /\ i + 1 <= j + 1
      BY <1>1
    <3> QED BY <1>1, <3>1 DEF HistoryOK, n
  <2>9. RangeAccepted(r)
    <3>1. Max({r.low.confirmed, r.high.confirmed}) = r.index
      BY <2>2 DEF since
    <3>2. PairStatus({r.low, r.high}) = "confirmed"
      BY <1>3, <2>1, <2>3
    <3>3. r.low.available <= r.available /\ r.high.available <= r.available
      BY <2>2, <2>5, <2>7, <2>8
    <3> QED BY <3>1, <3>2, <3>3 DEF RangeAccepted
  <2>10. ContextAccepted(r)
    <3>1. since <= n - 1 /\ n - 1 \in 0 .. n - 1
      BY <1>1, <2>7
    <3>2. h[since + 1].available <= h[n - 1 + 1].available /\ n - 1 + 1 = n
      BY <1>1, <2>7, <2>8, <3>1
    <3>3. r.index <= Current.index
      BY <1>1, <2>2, <3>1
    <3>4. r.available <= Current.available
      <4> HIDE DEF h, n
      <4>1. h[n - 1 + 1] = h[n]
        BY <3>2
      <4> QED BY <1>1, <2>2, <3>2, <4>1
    <3> QED BY <3>3, <3>4 DEF ContextAccepted
  <2> QED BY <2>3, <2>9, <2>10
<1>6. \A a \in premium.arrays : SidecarAccepted(a)
  BY <1>1 DEF SidecarInv, SidecarAccepted
<1> QED BY <1>4, <1>5, <1>6, EndpointsAccepted DEF PremiumAccepted

\* OTESnapshot.
LEMMA OTEIsAccepted ==
    ASSUME LinkInv, StructureInv, RangeInv, Now >= 0 PROVE OTEAccepted
<1>1. Current = Bar(Now)
  BY WindowIs
<1>2. /\ ote.zone = {ZoneOf(r) : r \in range}
      /\ ote.usable = {z \in ote.zone : KnownWhenOpened(z.range, Current)}
      /\ ote.class = OTEClass(Bar(Now).close, ote.usable)
  BY <1>1 DEF RangeInv
<1>3. \A r : ZoneOf(r).range = r
  BY DEF ZoneOf
<1>4. {z.range : z \in ote.zone} = range
  BY <1>2, <1>3
<1>5. ote.usable = {} <=> ote.class = "INSUFFICIENT_CONTEXT"
  <2>1. \A x, Z : Z # {} => OTEClass(x, Z) \in {"BELOW_OTE", "ABOVE_OTE", "INSIDE_OTE"}
    BY DEF OTEClass
  <2>2. \A x : OTEClass(x, {}) = "INSUFFICIENT_CONTEXT"
    BY DEF OTEClass
  <2> QED BY <1>2, <2>1, <2>2
<1> QED BY <1>2, <1>4, <1>5 DEF OTEAccepted, ObservationAccepted

\* MSSSnapshot.
LEMMA ShiftsAreAccepted ==
    ASSUME LinkInv, StructureInv, DisplacementInv, ZoneInv, Now >= 0 PROVE ShiftsAccepted
<1>1. Cardinality(shift) <= 1
  BY AtMostOne DEF ZoneInv
<1>2. displacement.index = Now
  BY WindowIs DEF DisplacementInv, DisplacementOK, LinkInv
<1>3. \A e \in snapshot.events : e.close = Current.close /\ e.previousClose = Previous.close
  BY EventsAccepted
<1>4. \A m \in shift : ShiftAccepted(m)
  BY <1>2, <1>3 DEF ShiftAccepted, ZoneInv, ShiftOK
<1> QED BY <1>1, <1>4 DEF ShiftsAccepted

\* BreakerSnapshot and BreakerBlock.
LEMMA BreakersAreAccepted ==
    ASSUME LinkInv, StructureInv, BlocksInv, ZoneInv, Now >= 0
    PROVE  BreakersAccepted /\ ConversionsAccepted
<1>1. /\ HistoryOK(Bars) /\ Len(Bars) \in Nat /\ Now = Len(Bars) - 1 /\ Now \in Nat
      /\ Current = Bar(Now) /\ Current = Bars[Len(Bars)] /\ Current.index = Now
  BY WindowIs DEF CandleOK
<1>2. At(Now).violations = violations /\ At(Now).shift = shift /\ BlocksBreakOnce
  BY DEF LinkInv, ZoneInv
<1>3. Cardinality({v.block : v \in violations}) = Cardinality(violations)
  <2> DEFINE f == [v \in violations |-> v.block]
  <2>1. IsFiniteSet(violations) /\ \A v, w \in violations : f[v] = f[w] => v = w
    BY DEF ZoneInv
  <2>2. {f[v] : v \in violations} = {v.block : v \in violations}
    OBVIOUS
  <2> HIDE DEF f
  <2>3. Cardinality({f[v] : v \in violations}) = Cardinality(violations)
    BY <2>1, ImageIs
  <2> QED BY <2>2, <2>3
<1>4. ASSUME NEW v \in violations PROVE BreakerAccepted(v)
  <2>1. v.block \in Published /\ Beyonds(v.block) = {Now}
    BY <1>2 DEF BlocksBreakOnce
  <2>2. Violates(v.block, Current.close)
    BY <1>1, <2>1 DEF Beyonds
  <2>3. BlockOK(v.block, Bars)
    BY <2>1 DEF Published, BlocksInv
  <2>4. /\ v.block.index \in 0 .. Len(Bars) - 1 /\ v.block.available = Bars[v.block.index + 1].available
    BY <2>3 DEF BlockOK
  <2>5. Bars[v.block.index + 1].available <= Bars[Len(Bars)].available
    <3>1. /\ v.block.index + 1 \in 1 .. Len(Bars) /\ Len(Bars) \in 1 .. Len(Bars)
          /\ v.block.index + 1 <= Len(Bars)
      BY <1>1, <2>4
    <3> QED BY <1>1, <3>1 DEF HistoryOK
  <2> QED BY <1>1, <2>2, <2>4, <2>5 DEF BreakerAccepted
<1>5. ConversionsAccepted
  <2> SUFFICES ASSUME NEW v \in Qualified(violations) PROVE displacement.event /\ shift # {}
    BY DEF ConversionsAccepted
  <2>1. PICK m \in shift : TRUE
    BY <1>2 DEF BlocksBreakOnce, Qualified
  <2> QED BY <2>1 DEF ZoneInv, ShiftOK
<1> QED BY <1>3, <1>4, <1>5 DEF BreakersAccepted

\* MitigationSnapshot.
LEMMA MitigationsAreAccepted ==
    ASSUME LinkInv, StructureInv, ZoneInv, Now >= 0 PROVE MitigationsAccepted
<1>1. Current = Bar(Now) /\ Now \in Indices
  BY WindowIs
<1>2. /\ At(Now).violations = violations /\ At(Now).mitigations = mitigations
      /\ MitigatedOnFirstReturn
  BY DEF LinkInv, ZoneInv
<1>3. Cardinality({m.block : m \in mitigations}) = Cardinality(mitigations)
  <2> DEFINE f == [m \in mitigations |-> m.block]
  <2>1. IsFiniteSet(mitigations) /\ \A m, e \in mitigations : f[m] = f[e] => m = e
    BY DEF ZoneInv
  <2>2. {f[m] : m \in mitigations} = {m.block : m \in mitigations}
    OBVIOUS
  <2> HIDE DEF f
  <2>3. Cardinality({f[m] : m \in mitigations}) = Cardinality(mitigations)
    BY <2>1, ImageIs
  <2> QED BY <2>2, <2>3
<1>4. ASSUME NEW m \in mitigations PROVE MitigationAccepted(m)
  <2>1. /\ Returns(m.block) = {Now} /\ m.block \notin Converted(Now)
    BY <1>1, <1>2 DEF MitigatedOnFirstReturn
  <2>2. KnownAtOpen(m.block, Current) /\ Intersects(m.block, Current)
    BY <1>1, <2>1 DEF Returns
  <2>3. \A v \in Qualified(violations) : v.block # m.block
    BY <1>2, <2>1 DEF Converted
  <2> QED BY <2>2, <2>3 DEF MitigationAccepted
<1> QED BY <1>3, <1>4 DEF MitigationsAccepted

\* Every constructor accepts, and no block is published twice.
LEMMA EvidenceAccepted ==
    ASSUME IInv PROVE EvidenceIsAccepted
<1> SUFFICES ASSUME Now >= 0
             PROVE  /\ StructureAccepted /\ LiquidityAccepted /\ DisplacementAccepted /\ GapsAccepted
                    /\ BlocksAccepted /\ PremiumAccepted /\ OTEAccepted
                    /\ ShiftsAccepted /\ BreakersAccepted /\ ConversionsAccepted
                    /\ MitigationsAccepted
                    /\ \A i \in Indices : \A b \in At(i).blocks :
                         b \in seen /\ \A k \in Indices : b \in At(k).blocks => k = i
  BY DEF EvidenceIsAccepted
<1> USE DEF IInv
<1>1. StructureAccepted /\ LiquidityAccepted /\ DisplacementAccepted /\ GapsAccepted
  BY StructureIsAccepted, LiquidityIsAccepted, DisplacementIsAccepted, GapsAreAccepted
<1>2. BlocksAccepted /\ PremiumAccepted /\ OTEAccepted
  BY BlocksAreAccepted, PremiumIsAccepted, OTEIsAccepted
<1>3. ShiftsAccepted /\ BreakersAccepted /\ ConversionsAccepted /\ MitigationsAccepted
  BY ShiftsAreAccepted, BreakersAreAccepted, MitigationsAreAccepted
<1>4. \A i \in Indices : \A b \in At(i).blocks :
         b \in seen /\ \A k \in Indices : b \in At(k).blocks => k = i
  BY DEF ZoneInv, BlocksInv, Published
<1> QED BY <1>1, <1>2, <1>3, <1>4

-----------------------------------------------------------------------------
(* The invariant, and the properties that it implies.                      *)

\* The chain starts without a candle.
LEMMA InitEmpty ==
    ASSUME Init
    PROVE  /\ IsSeq(frames) /\ Len(frames) = 0 /\ Now = -1 /\ Indices = {}
           /\ IsSeq(Bars) /\ Len(Bars) = 0 /\ HistoryOK(Bars) /\ Len(Pairs) = 0
           /\ \A kind, i : PivotsIn(Bars, kind, i) = {}
           /\ \A i : WithPivots(Bars, i) = {} /\ ~ReadyIn(Bars, i)
           /\ \A s, n : n \in Nat /\ Len(s) = 0 => IsTail(<<>>, s, n)
           /\ Published = {} /\ SwingsIn(Bars) = {} /\ Ended = {}
<1>1. IsSeq(<<>>) /\ Len(<<>>) = 0
  BY DEF IsSeq
<1>2. frames = <<>>
  BY DEF Init
<1>3. IsSeq(frames) /\ Len(frames) = 0 /\ Now = -1 /\ Indices = {}
  BY <1>1, <1>2 DEF Now, Indices
<1>4. IsSeq(Bars) /\ Len(Bars) = 0
  <2>1. Bars = [i \in 1 .. 0 |-> Bars[i]]
    BY <1>3 DEF Bars
  <2> QED BY <2>1, FunctionIs
<1>5. Len(Pairs) = 0
  <2>1. Pairs = [i \in 1 .. 0 |-> Pairs[i]]
    BY <1>3 DEF Pairs
  <2> QED BY <2>1, FunctionIs
<1>6. HistoryOK(Bars)
  <2>1. Bars = <<>>
    <3>1. Bars \in Seq(Elements(Bars))
      BY <1>4 DEF IsSeq
    <3> QED BY <1>4, <3>1
  <2> QED BY <2>1 DEF HistoryOK
<1>7. \A kind, i : PivotsIn(Bars, kind, i) = {}
  BY <1>4 DEF PivotsIn
<1>8. \A i : WithPivots(Bars, i) = {} /\ ~ReadyIn(Bars, i)
  BY <1>7 DEF WithPivots, ReadyIn, Kinds
<1>9. \A s, n : n \in Nat /\ Len(s) = 0 => IsTail(<<>>, s, n)
  BY <1>1 DEF IsTail
<1>10. Published = {} /\ Ended = {}
  BY <1>3 DEF Published, Ended
<1>11. SwingsIn(Bars) = {}
  BY <1>7 DEF SwingsIn
<1> QED BY <1>3, <1>4, <1>5, <1>6, <1>7, <1>8, <1>9, <1>10, <1>11

\* The invariant holds of the empty history.
LEMMA InitInvariant ==
    ASSUME Init PROVE IInv
<1>1. /\ IsSeq(frames) /\ Len(frames) = 0 /\ Now = -1 /\ Indices = {}
      /\ IsSeq(Bars) /\ Len(Bars) = 0 /\ HistoryOK(Bars) /\ Len(Pairs) = 0
      /\ \A kind, i : PivotsIn(Bars, kind, i) = {}
      /\ \A i : WithPivots(Bars, i) = {} /\ ~ReadyIn(Bars, i)
      /\ \A s, n : n \in Nat /\ Len(s) = 0 => IsTail(<<>>, s, n)
      /\ Published = {} /\ SwingsIn(Bars) = {} /\ Ended = {}
  BY InitEmpty
<1>2. ~(Now >= 0) /\ Now < 0 /\ Now - 1 < 0
  BY <1>1
<1>3. LinkInv
  BY <1>1, <1>2 DEF LinkInv
<1>4. StructureInv
  <2>1. /\ window = <<>> /\ levels = {} /\ previousClose = 0
        /\ recent = [k \in Kinds |-> <<>>]
        /\ snapshot.index = -1 /\ snapshot.available = 0 /\ snapshot.trend = "ranging"
        /\ snapshot.ready = FALSE
    BY DEF Init, StructureInit
  <2>2. FractalLength \in Nat
    BY FractalAssumption
  <2>3. IsTail(window, Bars, FractalLength)
    BY <1>1, <2>1, <2>2
  <2>4. TrendIn(Bars, Now) = "ranging"
    BY <1>1 DEF TrendIn
  <2>5. \A kind \in Kinds : RecentOK(recent[kind], Bars, kind)
    BY <1>1, <2>1 DEF RecentOK
  <2>6. levels = {LevelIn(Bars, kind, Now) : kind \in WithPivots(Bars, Now)}
    BY <1>1, <2>1
  <2> QED BY <1>1, <1>2, <2>1, <2>3, <2>4, <2>5, <2>6 DEF StructureInv
<1>5. PoolsInv
  <2>1. pools = {} /\ updates = {} /\ sweeps = {}
    BY DEF Init, LiquidityInit
  <2>2. IsFiniteSet({})
    BY FS_EmptySet
  <2> QED BY <1>1, <2>1, <2>2 DEF PoolsInv, PoolsOK
<1>6. DisplacementInv
  <2>1. observations = <<>> /\ atr = NoAtr /\ sweepCache = {} /\ gapWindow = <<>>
    BY DEF Init, DisplacementInit, GapInit
  <2>2. AtrPeriod \in Nat \ {0}
    BY DisplacementAssumption
  <2>3. IsTail(observations, Bars, AtrPeriod + 1) /\ IsTail(gapWindow, Pairs, 3)
    BY <1>1, <2>1, <2>2
  <2>4. AtrTotal(observations) = NoAtr
    BY <2>1, <2>2 DEF AtrTotal
  <2> QED BY <1>1, <1>2, <2>1, <2>3, <2>4 DEF DisplacementInv
<1>7. BlocksInv
  <2>1. config \in Configurations /\ history = <<>> /\ pending = {} /\ blocks = {}
    BY DEF Init, OrderBlockInit
  <2>2. IsTail(history, Bars, MaxLookback)
    BY <1>1, <2>1, OrderBlockAssumption
  <2>3. BlocksAreLastOpposing
    <3>1. PICK d : d = IF config.requireFvg THEN Now - 1 ELSE Now
      OBVIOUS
    <3>2. ~(d >= 0)
      BY <1>1, <3>1
    <3> QED BY <3>1, <3>2, MadeAtIs DEF MadeIsPublished
  <2> QED BY <1>1, <1>2, <2>1, <2>2, <2>3 DEF BlocksInv
<1>8. RangeInv
  <2>1. endpoints = {} /\ range = {}
    BY DEF Init, RangeInit
  <2>2. EndpointsIn(Bars) = {}
    BY <1>1 DEF EndpointsIn
  <2>3. ~SpanIn(Bars)
    BY <1>1 DEF SpanIn, Kinds
  <2> QED BY <1>2, <2>1, <2>2, <2>3 DEF RangeInv
<1>9. ZoneInv
  <2>1. /\ shift = {} /\ candidates = {} /\ seen = {} /\ violations = {}
        /\ unmitigated = {} /\ broken = {} /\ mitigations = {}
    BY DEF Init, ZoneInit
  <2>2. IsFiniteSet({})
    BY FS_EmptySet
  <2>3. BlocksBreakOnce /\ MitigatedOnFirstReturn
    BY <1>2 DEF BlocksBreakOnce, MitigatedOnFirstReturn
  <2> QED BY <1>1, <2>1, <2>2, <2>3 DEF ZoneInv
<1>10. SidecarInv
  BY DEF Init, RangeInit, SidecarInv
<1> QED BY <1>3, <1>4, <1>5, <1>6, <1>7, <1>8, <1>9, <1>10 DEF IInv

(* Nothing in the invariant depends on more than the variables.            *)
LEMMA StutterInvariant ==
    ASSUME IInv, UNCHANGED vars PROVE IInv'
<1> USE DEF vars, structureVars, liquidityVars, displacementVars, gapVars, blockVars,
            rangeVars, zoneVars
<1>1. LinkInv'
  BY DEF IInv, LinkInv, Bars, Now, At
<1>2. Bars' = Bars /\ Pairs' = Pairs /\ Now' = Now /\ Indices' = Indices
  BY DEF Bars, Pairs, Now, Indices
<1>3. \A i : At(i)' = At(i) /\ Bar(i)' = Bar(i)
  BY DEF At, Bar
<1>4. StructureInv'
  BY <1>2, <1>3 DEF IInv, StructureInv
<1>5. PoolsInv'
  <2>1. \A i : Terminal(i)' = Terminal(i)
    BY <1>3 DEF Terminal
  <2>2. Ended' = Ended
    BY <1>2, <2>1 DEF Ended
  <2> QED BY <1>2, <1>3, <2>2 DEF IInv, PoolsInv
<1>6. DisplacementInv'
  BY <1>2, <1>3 DEF IInv, DisplacementInv
<1>7. /\ \A d : Opposing(d)' = Opposing(d)
      /\ \A k : ZoneLower(k)' = ZoneLower(k) /\ ZoneUpper(k)' = ZoneUpper(k)
  BY <1>3 DEF Opposing, ZoneLower, ZoneUpper
<1>8. \A d : Source(d)' = Source(d) /\ GapAround(d)' = GapAround(d) /\ BreaksAlong(d)' = BreaksAlong(d)
  BY <1>2, <1>3, <1>7 DEF Source, GapAround, BreaksAlong
<1>9. \A d : Makes(d)' = Makes(d)
  BY <1>3, <1>7, <1>8 DEF Makes, LeavesZone
<1>10. BlocksInv'
  <2>1. BlocksAreLastOpposing'
    BY <1>2, <1>3, <1>7, <1>8, <1>9 DEF IInv, BlocksInv, BlocksAreLastOpposing
  <2>2. \A past, d : Selected(past, d)' = Selected(past, d)
    <3>1. \A k, d : Candidate(k, d)' <=> Candidate(k, d)
      BY <1>7 DEF Candidate
    <3>2. \A past, d : Candidates(past, d)' = Candidates(past, d)
      BY <3>1 DEF Candidates
    <3> QED BY <3>2 DEF Selected
  <2>3. \A b : BlockOK(b, Bars)' = BlockOK(b, Bars)
    BY <1>2 DEF BlockOK
  <2> QED BY <1>2, <1>3, <1>8, <1>9, <2>1, <2>2, <2>3 DEF IInv, BlocksInv
<1>11. RangeInv'
  BY <1>2, <1>3 DEF IInv, RangeInv
<1>12. ZoneInv'
  <2>1. /\ Published' = Published /\ \A i : Converted(i)' = Converted(i)
        /\ \A b : Beyonds(b)' = Beyonds(b) /\ Returns(b)' = Returns(b)
    BY <1>2, <1>3 DEF Published, Beyonds, Returns, Converted
  <2>2. \A m : ShiftOK(m)' = ShiftOK(m)
    BY <1>2, <1>3 DEF ShiftOK
  <2>3. BlocksBreakOnce' /\ MitigatedOnFirstReturn'
    BY <1>2, <1>3, <2>1 DEF IInv, ZoneInv, BlocksBreakOnce, MitigatedOnFirstReturn
  <2> QED BY <1>2, <1>3, <2>1, <2>2, <2>3 DEF IInv, ZoneInv
<1>13. SidecarInv'
  BY <1>2, <1>3 DEF IInv, SidecarInv
<1> QED BY <1>1, <1>4, <1>5, <1>6, <1>10, <1>11, <1>12, <1>13 DEF IInv

(* The histories, pools, displacements, blocks and ranges of every state   *)
(* are those of the candles so far.                                        *)
THEOREM ChainInvariant == Spec => []IInv
<1>1. Init => IInv
  BY InitInvariant
<1>2. IInv /\ [Next]_vars => IInv'
  <2> SUFFICES ASSUME IInv, [Next]_vars PROVE IInv'
    OBVIOUS
  <2>1. CASE Next
    <3> USE DEF IInv
    <3>1. PICK c : Step(c)
      BY <2>1, NextIs
    <3>2. LinkInv' /\ StructureInv' /\ PoolsInv' /\ DisplacementInv' /\ BlocksInv'
      BY <3>1, LinkStays, StructureStays, PoolsStay, DisplacementStays, BlocksStay
    <3>3. SidecarInv'
      BY <3>1, <3>2, SidecarsStay
    <3> QED BY <3>1, <3>2, <3>3, RangeStays, ZoneStays
  <2>2. CASE UNCHANGED vars
    BY <2>2, StutterInvariant
  <2> QED BY <2>1, <2>2
<1> QED BY <1>1, <1>2, PTL DEF Spec

(* A structure level and a liquidity pool each end once, at the first      *)
(* candle of the whole history across them, as MarketStructureAnalyzer     *)
(* and LiquidityAnalyzer say it from what little they keep.                *)
THEOREM LevelsEndOnceHolds == Spec => []LevelsEndOnce
<1>1. IInv => LevelsEndOnce
  BY BreaksAgree, PoolsAgree DEF IInv, LevelsEndOnce
<1> QED BY <1>1, ChainInvariant, PTL

(* The dealing range and the retracement are those of the newest confirmed *)
(* low and high (PDAnalyzer.update, OTEAnalyzer.update).                   *)
THEOREM RangeFollowsThePivotsHolds == Spec => []RangeFollowsThePivots
<1>1. IInv => RangeFollowsThePivots
  BY RangeAgrees DEF IInv
<1> QED BY <1>1, ChainInvariant, PTL

(* A block is made of the last opposing candle, breaks once and is         *)
(* mitigated once (the order, breaker and mitigation block analyzers).     *)
THEOREM BlocksLiveOnceHolds == Spec => []BlocksLiveOnce
<1>1. IInv => BlocksLiveOnce
  BY DEF IInv, BlocksInv, ZoneInv, BlocksLiveOnce
<1> QED BY <1>1, ChainInvariant, PTL

\* What the invariant says of the time at which evidence became available.
LEMMA FutureIsUnseen ==
    ASSUME IInv PROVE NothingFromTheFuture
<1> SUFFICES ASSUME Now >= 0
             PROVE  /\ \A s \in At(Now).sweeps : \A m \in Members(s.pool) : m.available <= Now
                    /\ \A s \in At(Now).displacement.preceding : s.available <= Now
                    /\ \A b \in At(Now).blocks :
                         Bar(b.candidate).available <= b.displaced /\ b.displaced <= Now
                    /\ \A m \in At(Now).shift : m.level.available <= Now /\ Bar(Now - 1).available <= Now
                    /\ \A v \in Qualified(At(Now).violations) : v.block.available <= Now
                    /\ \A m \in At(Now).mitigations : m.block.available <= Now
                    /\ \A z \in At(Now).ote.usable : z.range.available <= Now
  BY DEF NothingFromTheFuture
<1>1. /\ Len(Bars) \in Nat /\ Now = Len(Bars) - 1 /\ Now \in Indices
      /\ \A i \in Indices : Bar(i) = Bars[i + 1]
  BY BarsAre DEF IInv, LinkInv, Indices
<1>2. Bar(Now).index = Now
  <2>1. CandleOK(Bars[Now + 1], Now)
    BY <1>1, CandlesAre DEF IInv, LinkInv, Indices
  <2> QED BY <1>1, <2>1 DEF CandleOK
<1>3. /\ At(Now).sweeps = sweeps /\ At(Now).displacement = displacement /\ At(Now).shift = shift
      /\ At(Now).violations = violations /\ At(Now).mitigations = mitigations /\ At(Now).ote = ote
  BY DEF IInv, LinkInv
<1>4. \A s \in sweeps : \A m \in Members(s.pool) : m.available <= Now
  <2> SUFFICES ASSUME NEW s \in sweeps, NEW m \in Members(s.pool) PROVE m.available <= Now
    OBVIOUS
  <2>1. PICK u \in updates : u.status = "swept" /\ s.pool = u.pool
    BY DEF IInv, PoolsInv
  <2>2. PoolsEndAtFirstBreach
    BY PoolsAgree DEF IInv
  <2> QED BY <2>1, <2>2 DEF PoolsEndAtFirstBreach
<1>5. \A s \in displacement.preceding : s.available <= Now
  BY DEF IInv, DisplacementInv, PrecedingOK
<1>6. \A b \in At(Now).blocks : Bar(b.candidate).available <= b.displaced /\ b.displaced <= Now
  <2> SUFFICES ASSUME NEW b \in At(Now).blocks
               PROVE  Bar(b.candidate).available <= b.displaced /\ b.displaced <= Now
    OBVIOUS
  <2>1. BlockOK(b, Bars) /\ b.index = Now
    BY <1>1 DEF IInv, BlocksInv
  <2>2. /\ b.displaced = (IF config.requireFvg THEN Now - 1 ELSE Now)
        /\ b.candidate \in Nat /\ b.candidate \in b.displaced - MaxLookback .. b.displaced - 1
        /\ Bars[b.candidate + 1].available <= b.displaced
    BY <2>1 DEF BlockOK
  <2>3. b.displaced \in Int /\ b.displaced <= Now
    BY <1>1, <2>2
  <2>4. b.candidate \in Indices
    BY <1>1, <2>2, <2>3, OrderBlockAssumption DEF Indices
  <2> QED BY <1>1, <2>2, <2>3, <2>4
<1>7. \A m \in shift : m.level.available <= Now /\ Bar(Now - 1).available <= Now
  BY DEF IInv, ZoneInv, ShiftOK
<1>8. \A v \in Qualified(violations) : v.block.available <= Now
  <2>1. BlocksBreakOnce
    BY DEF IInv, ZoneInv
  <2> QED BY <1>2, <1>3, <2>1 DEF BlocksBreakOnce, Qualified, KnownAtOpen
<1>9. \A m \in mitigations : m.block.available <= Now
  <2> SUFFICES ASSUME NEW m \in mitigations PROVE m.block.available <= Now
    OBVIOUS
  <2>1. MitigatedOnFirstReturn
    BY DEF IInv, ZoneInv
  <2>2. m.block \in {b \in Published : Returns(b) = {Now} /\ \A i \in Indices : b \notin Converted(i)}
    BY <1>3, <2>1 DEF MitigatedOnFirstReturn
  <2>3. Now \in Returns(m.block)
    BY <2>2
  <2> QED BY <1>2, <2>3 DEF Returns, KnownAtOpen
<1>10. \A z \in ote.usable : z.range.available <= Now
  BY <1>2 DEF IInv, RangeInv, KnownWhenOpened
<1> QED BY <1>3, <1>4, <1>5, <1>6, <1>7, <1>8, <1>9, <1>10

(* No frame rests on what was not available when its candle opened, for    *)
(* any feed and any lag (docs/no-look-ahead.md).                           *)
THEOREM NothingFromTheFutureHolds == Spec => []NothingFromTheFuture
<1>1. IInv => NothingFromTheFuture
  BY FutureIsUnseen
<1> QED BY <1>1, ChainInvariant, PTL

(* The chain never refuses its own evidence: whatever candles close, in    *)
(* whatever lag they become available, no constructor of a record of the   *)
(* analyzers raises.                                                       *)
THEOREM EvidenceIsAcceptedHolds == Spec => []EvidenceIsAccepted
<1>1. IInv => EvidenceIsAccepted
  BY EvidenceAccepted
<1> QED BY <1>1, ChainInvariant, PTL
=============================================================================
