----------------------------- MODULE OutcomeProofs -----------------------------
(***************************************************************************)
(* What a history makes of the lifecycle and the ledger, and a declared    *)
(* run over it, for any market, any declarations, any thresholds and       *)
(* horizons and whatever happens to the stores: the ledger it writes is    *)
(* that of its declared inputs, it resumes a stored ledger exactly when a  *)
(* prefix of its history reproduces it, and what is in the store is never  *)
(* taken back.                                                             *)
(***************************************************************************)
EXTENDS DeclaredRun, FiniteSetTheorems, WellFoundedInduction, TLAPS

-----------------------------------------------------------------------------
(* Numbers, sets and sequences.                                            *)

\* The order of the natural numbers.
LessThan == {ss \in Nat \X Nat : ss[1] < ss[2]}

\* A set of naturals that holds 0 and every successor holds them all.
LEMMA Induction ==
    ASSUME NEW S, 0 \in S, \A n \in Nat : n \in S => n + 1 \in S
    PROVE  \A n \in Nat : n \in S
<1> DEFINE T == {n \in Nat : n \notin S}
<1> SUFFICES ASSUME T # {} PROVE FALSE
  OBVIOUS
<1>1. T \subseteq Nat
  OBVIOUS
<1> HIDE DEF T
<1>2. IsWellFoundedOn(LessThan, Nat)
  BY NatLessThanWellFounded DEF OpToRel, LessThan
<1>3. PICK x \in T : \A y \in T : ~ (<<y, x>> \in LessThan)
  BY <1>1, <1>2, WFMin
<1>4. x \in Nat /\ x \notin S /\ x # 0
  BY <1>3 DEF T
<1>5. x - 1 \in Nat /\ x - 1 < x /\ (x - 1) + 1 = x
  BY <1>4
<1>6. x - 1 \notin T
  BY <1>3, <1>4, <1>5 DEF LessThan
<1> QED BY <1>4, <1>5, <1>6 DEF T

\* The members of a set below a number.
Under(S, x) == {m \in S : m < x}

\* Of two members of a set, the greater has more below it.
LEMMA RankGrows ==
    ASSUME NEW S \in SUBSET Nat, IsFiniteSet(S), NEW x \in S, NEW y \in S, x < y
    PROVE  /\ Cardinality(Under(S, x)) \in Nat /\ Cardinality(Under(S, y)) \in Nat
           /\ Cardinality(Under(S, x)) < Cardinality(Under(S, y))
<1>1. IsFiniteSet(Under(S, x)) /\ IsFiniteSet(Under(S, y))
  BY FS_Subset DEF Under
<1>2. Under(S, x) \in SUBSET Under(S, y) /\ x \in Under(S, y) /\ x \notin Under(S, x)
  <2>1. x \in Nat /\ y \in Nat /\ ~ (x < x)
    OBVIOUS
  <2>2. ASSUME NEW m \in Under(S, x) PROVE m \in Under(S, y)
    <3>1. m \in S /\ m \in Nat /\ m < x
      BY DEF Under
    <3>2. m < y
      BY <2>1, <3>1
    <3> QED BY <3>1, <3>2 DEF Under
  <2>3. x \in Under(S, y) /\ x \notin Under(S, x)
    BY <2>1 DEF Under
  <2> QED BY <2>2, <2>3
<1>3. /\ Cardinality(Under(S, x)) <= Cardinality(Under(S, y))
      /\ Cardinality(Under(S, y)) # Cardinality(Under(S, x))
  BY <1>1, <1>2, FS_Subset
<1>4. Cardinality(Under(S, x)) \in Nat /\ Cardinality(Under(S, y)) \in Nat
  BY <1>1, FS_CardinalityType
<1> QED BY <1>3, <1>4

\* Every rank is taken.
LEMMA RanksAreTaken ==
    ASSUME NEW S \in SUBSET Nat, IsFiniteSet(S), NEW k \in 1 .. Cardinality(S)
    PROVE  \E x \in S : Cardinality(Under(S, x)) = k - 1
<1> DEFINE n == Cardinality(S)
           T == 0 .. n - 1
           f == [x \in S |-> Cardinality(Under(S, x))]
<1>1. n \in Nat /\ n # 0
  BY FS_CardinalityType
<1>2. IsFiniteSet(T) /\ Cardinality(T) = n
  <2> HIDE DEF n
  <2>1. 0 \in Int /\ n - 1 \in Int
    BY <1>1
  <2> QED BY <1>1, <2>1, FS_Interval
<1>3. ASSUME NEW x \in S PROVE Cardinality(Under(S, x)) \in T
  <2>1. Under(S, x) \in SUBSET S /\ x \notin Under(S, x)
    BY DEF Under
  <2>2. IsFiniteSet(Under(S, x)) /\ Cardinality(Under(S, x)) <= n
        /\ (Cardinality(Under(S, x)) # n)
    BY <2>1, FS_Subset
  <2>3. Cardinality(Under(S, x)) \in Nat
    BY <2>2, FS_CardinalityType
  <2> HIDE DEF n
  <2> QED BY <1>1, <2>2, <2>3
<1>4. f \in Injection(S, T)
  <2>1. f \in [S -> T]
    BY <1>3
  <2>2. ASSUME NEW x \in S, NEW y \in S, f[x] = f[y] PROVE x = y
    <3>1. ~ (x < y)
      BY <2>2, RankGrows
    <3>2. ~ (y < x)
      BY <2>2, RankGrows
    <3> QED BY <3>1, <3>2
  <2> HIDE DEF f, T
  <2> QED BY <2>1, <2>2 DEF Injection, IsInjective
<1>5. f \in Surjection(S, T)
  <2> HIDE DEF f, T
  <2> QED BY <1>2, <1>4, FS_Injection
<1>6. k - 1 \in T
  BY <1>1
<1>7. PICK x \in S : f[x] = k - 1
  <2> HIDE DEF f, T
  <2> QED BY <1>5, <1>6 DEF Surjection
<1> QED BY <1>7

\* The members of a finite set of numbers are listed once each, in ascending order.
LEMMA AscendingLists ==
    ASSUME NEW S \in SUBSET Nat, IsFiniteSet(S)
    PROVE  /\ Ascending(S) \in [1 .. Cardinality(S) -> S] /\ Cardinality(S) \in Nat
           /\ \A k \in 1 .. Cardinality(S) :
                 Cardinality(Under(S, Ascending(S)[k])) = k - 1
           /\ \A i, j \in 1 .. Cardinality(S) : i < j => Ascending(S)[i] < Ascending(S)[j]
<1>1. Cardinality(S) \in Nat
  BY FS_CardinalityType
<1>2. ASSUME NEW k \in 1 .. Cardinality(S)
      PROVE  Ascending(S)[k] \in S /\ Cardinality(Under(S, Ascending(S)[k])) = k - 1
  <2>1. PICK x \in S : Cardinality(Under(S, x)) = k - 1
    BY RanksAreTaken
  <2>2. Ascending(S)[k] = CHOOSE n \in S : Cardinality(Under(S, n)) = k - 1
    BY DEF Ascending, Under
  <2> QED BY <2>1, <2>2
<1>3. ASSUME NEW i \in 1 .. Cardinality(S), NEW j \in 1 .. Cardinality(S), i < j
      PROVE  Ascending(S)[i] < Ascending(S)[j]
  <2> DEFINE x == Ascending(S)[i]
             y == Ascending(S)[j]
  <2>1. x \in S /\ y \in S /\ Cardinality(Under(S, x)) = i - 1 /\ Cardinality(Under(S, y)) = j - 1
    BY <1>2
  <2> HIDE DEF x, y
  <2>2. x # y /\ ~ (y < x)
    BY <2>1, <1>3, RankGrows
  <2>3. x < y
    BY <2>1, <2>2
  <2> QED BY <2>3 DEF x, y
<1>4. Ascending(S) = [k \in 1 .. Cardinality(S) |-> Ascending(S)[k]]
  <2> DEFINE F(k) == CHOOSE n \in S : Cardinality({m \in S : m < n}) = k - 1
             a == [k \in 1 .. Cardinality(S) |-> F(k)]
  <2>1. Ascending(S) = a
    BY DEF Ascending
  <2> HIDE DEF F
  <2>2. a = [k \in 1 .. Cardinality(S) |-> a[k]]
    OBVIOUS
  <2> QED BY <2>1, <2>2
<1> QED BY <1>1, <1>2, <1>3, <1>4

\* And all of them are.
LEMMA AllAreListed ==
    ASSUME NEW S \in SUBSET Nat, IsFiniteSet(S), NEW i \in S
    PROVE  \E k \in 1 .. Cardinality(S) : Ascending(S)[k] = i
<1> DEFINE order == Ascending(S)
           m == Cardinality(S)
           k == Cardinality(Under(S, i)) + 1
<1>1. m \in Nat
  BY FS_CardinalityType
<1>2. /\ order \in [1 .. m -> S]
      /\ \A n \in 1 .. m : Cardinality(Under(S, order[n])) = n - 1
  BY AscendingLists
<1>3. Under(S, i) \in SUBSET S /\ i \notin Under(S, i)
  BY DEF Under
<1>4. /\ IsFiniteSet(Under(S, i)) /\ Cardinality(Under(S, i)) <= m
      /\ Cardinality(Under(S, i)) # m
  BY <1>3, FS_Subset
<1>5. Cardinality(Under(S, i)) \in Nat
  BY <1>4, FS_CardinalityType
<1>6. k \in 1 .. m /\ k - 1 = Cardinality(Under(S, i))
  <2> HIDE DEF m
  <2> QED BY <1>1, <1>4, <1>5
<1> HIDE DEF k
<1> DEFINE j == order[k]
<1>7. j \in S /\ Cardinality(Under(S, j)) = Cardinality(Under(S, i))
  BY <1>2, <1>6
<1> HIDE DEF j
<1>8. ~ (i < j)
  BY <1>7, RankGrows
<1>9. ~ (j < i)
  BY <1>7, RankGrows
<1>10. j = i
  BY <1>7, <1>8, <1>9
<1> QED BY <1>6, <1>10 DEF j

\* A finite set of indices.
LEMMA IndexSet ==
    ASSUME NEW n \in Nat, NEW T \in SUBSET (1 .. n)
    PROVE  IsFiniteSet(T) /\ Cardinality(T) \in 0 .. n /\ (Cardinality(T) = n <=> T = 1 .. n)
<1>1. IsFiniteSet(1 .. n) /\ Cardinality(1 .. n) = n
  <2>1. IsFiniteSet(1 .. n) /\ Cardinality(1 .. n) = IF 1 > n THEN 0 ELSE n - 1 + 1
    BY FS_Interval
  <2> QED BY <2>1
<1>2. IsFiniteSet(T) /\ Cardinality(T) <= n /\ (n = Cardinality(T) => 1 .. n = T)
  BY <1>1, FS_Subset
<1>3. Cardinality(T) \in Nat
  BY <1>2, FS_CardinalityType
<1> QED BY <1>1, <1>2, <1>3

\* What is picked is the members at the indices, as many as there are.
LEMMA PickedIs ==
    ASSUME NEW s, NEW n \in Nat, NEW indices \in SUBSET (1 .. n)
    PROVE  /\ Len(Picked(s, indices)) = Cardinality(indices) /\ Cardinality(indices) \in Nat
           /\ DOMAIN Picked(s, indices) = 1 .. Cardinality(indices)
           /\ \A k \in DOMAIN Picked(s, indices) :
                 \E i \in indices : Picked(s, indices)[k] = s[i]
           /\ \A i \in indices : \E k \in DOMAIN Picked(s, indices) : Picked(s, indices)[k] = s[i]
<1> DEFINE order == Ascending(indices)
           m == Cardinality(indices)
           p == [k \in 1 .. m |-> s[order[k]]]
<1>1. IsFiniteSet(indices) /\ m \in Nat /\ indices \in SUBSET Nat
  BY IndexSet
<1>2. /\ order \in [1 .. m -> indices]
      /\ \A k \in 1 .. m : Cardinality(Under(indices, order[k])) = k - 1
  BY <1>1, AscendingLists
<1>3. Picked(s, indices) = p
  <2>1. DOMAIN order = 1 .. m
    BY <1>2
  <2> HIDE DEF m
  <2> QED BY <2>1 DEF Picked
<1>4. ASSUME NEW i \in indices PROVE \E k \in 1 .. m : order[k] = i
  BY <1>1, AllAreListed
<1> HIDE DEF order, m
<1>5. /\ DOMAIN p = 1 .. m /\ \A k \in 1 .. m : p[k] = s[order[k]] /\ order[k] \in indices
      /\ Len(p) = m
  BY <1>1, <1>2
<1>6. \A i \in indices : \E k \in 1 .. m : p[k] = s[i]
  BY <1>4, <1>5
<1> HIDE DEF p
<1> QED BY <1>1, <1>3, <1>5, <1>6 DEF order, m

\* And nothing else.
LEMMA PickedMembers ==
    ASSUME NEW s, NEW n \in Nat, NEW indices \in SUBSET (1 .. n)
    PROVE  ToSet(Picked(s, indices)) = {s[i] : i \in indices}
<1> DEFINE p == Picked(s, indices)
<1>1. \A k \in DOMAIN p : \E i \in indices : p[k] = s[i]
  BY PickedIs
<1>2. \A i \in indices : \E k \in DOMAIN p : p[k] = s[i]
  BY PickedIs
<1> HIDE DEF p
<1>3. ToSet(p) = {s[i] : i \in indices}
  BY <1>1, <1>2 DEF ToSet
<1> QED BY <1>3 DEF p

\* A prefix, read by its members.
LEMMA PrefixIs ==
    ASSUME NEW S, NEW s \in Seq(S), NEW t \in Seq(S)
    PROVE  IsPrefix(s, t) <=> Len(s) <= Len(t) /\ \A i \in 1 .. Len(s) : s[i] = t[i]
<1>1. SubSeq(s, 1, Len(s)) = s
  OBVIOUS
<1>2. ASSUME Len(s) <= Len(t)
      PROVE  /\ SubSeq(t, 1, Len(s)) \in Seq(S) /\ Len(SubSeq(t, 1, Len(s))) = Len(s)
             /\ \A i \in 1 .. Len(s) : SubSeq(t, 1, Len(s))[i] = t[i]
  BY <1>2
<1> DEFINE u == SubSeq(t, 1, Len(s))
<1> HIDE DEF u
<1>3. ASSUME Len(s) <= Len(t), \A i \in 1 .. Len(s) : s[i] = u[i], Len(u) = Len(s), u \in Seq(S)
      PROVE  s = u
  BY <1>3
<1> QED BY <1>1, <1>2, <1>3 DEF IsPrefix, u

-----------------------------------------------------------------------------
(* Histories and their frames.                                             *)

\* The lifecycle after a history under a configuration.
SettingsOf(c) == [horizon |-> c.horizon]
After(h, c) == RunLifecycle(SettingsOf(c), FramesOf(h, c.chain))

\* f runs the lifecycle over the first of the frames, up to the n-th.
Runs(f, settings, frames, n) ==
    f = [k \in 0 .. n |-> IF k = 0 THEN NewLifecycle(settings)
                          ELSE UpdateLifecycle(f[k - 1], frames[k])]

\* There is such a function.
LEMMA RunsExist ==
    ASSUME NEW settings, NEW frames PROVE \A n \in Nat : \E f : Runs(f, settings, frames, n)
<1> DEFINE S == {n \in Nat : \E f : Runs(f, settings, frames, n)}
           base == NewLifecycle(settings)
<1>1. 0 \in S
  <2> DEFINE e == [k \in 0 .. 0 |-> base]
             Step(k) == UpdateLifecycle(e[k - 1], frames[k])
  <2> HIDE DEF Step, base
  <2>1. e = [k \in 0 .. 0 |-> IF k = 0 THEN base ELSE Step(k)]
    OBVIOUS
  <2> HIDE DEF e
  <2>2. Runs(e, settings, frames, 0)
    BY <2>1 DEF Runs, Step, base
  <2> QED BY <2>2
<1>2. ASSUME NEW n \in Nat, n \in S PROVE n + 1 \in S
  <2>1. PICK f : Runs(f, settings, frames, n)
    BY <1>2
  <2> DEFINE Step(k, t) == UpdateLifecycle(t, frames[k])
             g == [k \in 0 .. n + 1 |-> IF k = n + 1 THEN Step(k, f[n]) ELSE f[k]]
  <2>2. f = [k \in 0 .. n |-> IF k = 0 THEN base ELSE Step(k, f[k - 1])]
    BY <2>1 DEF Runs
  <2> HIDE DEF Step, base
  <2>3. ASSUME NEW k \in 0 .. n + 1
        PROVE  g[k] = IF k = 0 THEN base ELSE Step(k, g[k - 1])
    <3>1. CASE k = n + 1
      <4>1. n \in 0 .. n + 1 /\ n # n + 1 /\ k # 0 /\ k - 1 = n
        BY <3>1
      <4>2. g[n] = f[n] /\ g[k] = Step(k, f[n])
        BY <3>1, <4>1
      <4> QED BY <4>1, <4>2
    <3>2. CASE k \in 0 .. n
      <4>1. g[k] = f[k] /\ f[k] = IF k = 0 THEN base ELSE Step(k, f[k - 1])
        BY <2>2, <3>2
      <4>2. k # 0 => k - 1 \in 0 .. n
        BY <3>2
      <4>3. k # 0 => g[k - 1] = f[k - 1]
        BY <4>2
      <4> QED BY <4>1, <4>3
    <3> QED BY <3>1, <3>2
  <2>4. g = [k \in 0 .. n + 1 |-> g[k]]
    <3> DEFINE F(k) == IF k = n + 1 THEN Step(k, f[n]) ELSE f[k]
    <3>1. g = [k \in 0 .. n + 1 |-> F(k)]
      OBVIOUS
    <3> HIDE DEF F, g
    <3>2. DOMAIN g = 0 .. n + 1 /\ \A k \in 0 .. n + 1 : g[k] = F(k)
      BY <3>1
    <3> QED BY <3>1, <3>2
  <2> HIDE DEF g
  <2>5. g = [k \in 0 .. n + 1 |-> IF k = 0 THEN base ELSE Step(k, g[k - 1])]
    BY <2>3, <2>4
  <2>6. Runs(g, settings, frames, n + 1)
    BY <2>5 DEF Runs, Step, base
  <2> QED BY <2>6
<1> HIDE DEF S
<1>3. \A n \in Nat : n \in S
  BY <1>1, <1>2, Induction
<1> QED BY <1>3 DEF S

\* A run over no frame is new; a run over one frame more is one update more.
LEMMA OneMoreFrame ==
    ASSUME NEW settings, NEW n \in Nat, NEW frames, Len(frames) = n + 1, NEW fewer, Len(fewer) = n,
           \A i \in 1 .. n : fewer[i] = frames[i]
    PROVE  RunLifecycle(settings, frames)
              = UpdateLifecycle(RunLifecycle(settings, fewer), frames[n + 1])
<1> DEFINE f == CHOOSE x : Runs(x, settings, frames, n + 1)
           g == CHOOSE x : Runs(x, settings, fewer, n)
<1>1. Runs(f, settings, frames, n + 1) /\ Runs(g, settings, fewer, n)
  <2>1. n + 1 \in Nat
    OBVIOUS
  <2> QED BY <2>1, RunsExist
<1>2. RunLifecycle(settings, frames) = f[n + 1] /\ RunLifecycle(settings, fewer) = g[n]
  BY DEF RunLifecycle, Runs
<1> HIDE DEF f, g
<1>3. \A k \in 0 .. n + 1 : f[k] = IF k = 0 THEN NewLifecycle(settings)
                                   ELSE UpdateLifecycle(f[k - 1], frames[k])
  BY <1>1 DEF Runs
<1>4. \A k \in 0 .. n : g[k] = IF k = 0 THEN NewLifecycle(settings)
                               ELSE UpdateLifecycle(g[k - 1], fewer[k])
  BY <1>1 DEF Runs
<1> DEFINE T == {k \in Nat : k \in 0 .. n => f[k] = g[k]}
<1>5. 0 \in T
  BY <1>3, <1>4
<1>6. ASSUME NEW k \in Nat, k \in T PROVE k + 1 \in T
  <2> SUFFICES ASSUME k + 1 \in 0 .. n PROVE f[k + 1] = g[k + 1]
    OBVIOUS
  <2>1. k \in 0 .. n /\ k + 1 # 0 /\ (k + 1) - 1 = k /\ k + 1 \in 1 .. n /\ k + 1 \in 0 .. n + 1
    OBVIOUS
  <2>2. f[k] = g[k] /\ fewer[k + 1] = frames[k + 1]
    BY <1>6, <2>1
  <2> QED BY <1>3, <1>4, <2>1, <2>2
<1> HIDE DEF T
<1>7. n \in T
  BY <1>5, <1>6, Induction
<1>8. f[n] = g[n]
  BY <1>7 DEF T
<1>9. f[n + 1] = UpdateLifecycle(f[n], frames[n + 1])
  BY <1>3
<1> QED BY <1>2, <1>8, <1>9

\* The same, for histories.
LEMMA OneMoreCandle ==
    ASSUME NEW c, NEW n \in Nat, NEW h \in Seq(Candles), Len(h) = n + 1
    PROVE  After(h, c) = UpdateLifecycle(After(SubSeq(h, 1, n), c), Frame(h, c.chain))
<1> DEFINE g == SubSeq(h, 1, n)
           frames == FramesOf(h, c.chain)
           fewer == FramesOf(g, c.chain)
<1>1. g \in Seq(Candles) /\ Len(g) = n /\ \A i \in 1 .. n : g[i] = h[i]
  OBVIOUS
<1>2. SubSeq(h, 1, n + 1) = h
  OBVIOUS
<1>3. ASSUME NEW i \in 1 .. n PROVE SubSeq(g, 1, i) = SubSeq(h, 1, i)
  <2> HIDE DEF g
  <2> DEFINE a == SubSeq(g, 1, i)
             b == SubSeq(h, 1, i)
  <2>1. /\ a \in Seq(Candles) /\ Len(a) = i /\ \A j \in 1 .. i : a[j] = g[j]
        /\ b \in Seq(Candles) /\ Len(b) = i /\ \A j \in 1 .. i : b[j] = h[j]
    BY <1>1
  <2>2. \A j \in 1 .. i : a[j] = b[j]
    BY <1>1, <2>1
  <2> HIDE DEF a, b
  <2>3. a = b
    BY <2>1, <2>2
  <2> QED BY <2>3 DEF a, b
<1> HIDE DEF g
<1> DEFINE chain == c.chain
<1>4. /\ frames = [i \in 1 .. n + 1 |-> Frame(SubSeq(h, 1, i), chain)]
      /\ fewer = [i \in 1 .. n |-> Frame(SubSeq(g, 1, i), chain)]
  <2>1. 1 .. Len(h) = 1 .. n + 1 /\ 1 .. Len(g) = 1 .. n
    BY <1>1
  <2> QED BY <2>1 DEF FramesOf
<1> HIDE DEF frames, fewer, chain
<1>5. Len(frames) = n + 1 /\ Len(fewer) = n
  BY <1>4
<1>6. \A i \in 1 .. n : fewer[i] = frames[i]
  <2> SUFFICES ASSUME NEW i \in 1 .. n PROVE fewer[i] = frames[i]
    OBVIOUS
  <2>1. i \in 1 .. n + 1
    OBVIOUS
  <2>2. frames[i] = Frame(SubSeq(h, 1, i), chain) /\ fewer[i] = Frame(SubSeq(g, 1, i), chain)
    BY <1>4, <2>1
  <2> QED BY <1>3, <2>2
<1>7. frames[n + 1] = Frame(h, chain)
  <2> DEFINE k == n + 1
  <2>1. k \in 1 .. k
    OBVIOUS
  <2>2. frames = [i \in 1 .. k |-> Frame(SubSeq(h, 1, i), chain)] /\ SubSeq(h, 1, k) = h
    BY <1>2, <1>4
  <2> HIDE DEF k
  <2>3. frames[k] = Frame(h, chain)
    BY <2>1, <2>2
  <2> QED BY <2>3 DEF k
<1>8. RunLifecycle(SettingsOf(c), frames)
         = UpdateLifecycle(RunLifecycle(SettingsOf(c), fewer), frames[n + 1])
  BY <1>5, <1>6, OneMoreFrame
<1> QED BY <1>7, <1>8 DEF After, g, frames, fewer, chain

\* Nothing has happened before the first candle.
LEMMA NoCandle ==
    ASSUME NEW c, NEW h, Len(h) = 0
    PROVE  After(h, c) = NewLifecycle(SettingsOf(c))
<1> DEFINE frames == FramesOf(h, c.chain)
           settings == SettingsOf(c)
           f == CHOOSE x : Runs(x, settings, frames, 0)
<1>1. Len(frames) = 0
  BY DEF FramesOf
<1> HIDE DEF frames, settings
<1>2. Runs(f, settings, frames, 0)
  BY RunsExist
<1>3. RunLifecycle(settings, frames) = f[0]
  BY <1>1 DEF RunLifecycle, Runs
<1> HIDE DEF f
<1>4. f[0] = NewLifecycle(settings)
  BY <1>2 DEF Runs
<1> QED BY <1>3, <1>4 DEF After, frames, settings

-----------------------------------------------------------------------------
(* What the lifecycle holds after a history: a record and an observation   *)
(* of the same identity for every publication, the record in its current   *)
(* version, the observation as it was opened; and as finals the records    *)
(* that are final.                                                         *)

IsASequence(s) == s \in Seq(ToSet(s))

\* The evaluator and the observer go on from the same frame.
Heads(l, h, c) ==
    /\ l.tracker.settings = SettingsOf(c) /\ l.observer.settings = SettingsOf(c)
    /\ l.observer = [settings |-> l.observer.settings, observations |-> l.observer.observations,
                     finals |-> l.observer.finals]
    /\ l.tracker.count = Len(h)
    /\ Len(h) > 0 => l.tracker.latest = Frame(h, c.chain)

\* Records and observations correspond.
Pairs(records, observations, n, settings) ==
    /\ IsASequence(records) /\ IsASequence(observations) /\ Len(records) = Len(observations)
    /\ \A k \in 1 .. Len(records) :
          /\ records[k].settings = settings /\ records[k].id = observations[k].id
          /\ IsOpen(observations[k]) /\ Len(records[k].id.signal.prefix) \in 1 .. n
    /\ \A i, j \in 1 .. Len(records) : records[i].id = records[j].id => i = j

FinalsOf(records) == {records[k] : k \in {i \in 1 .. Len(records) : IsFinal(records[i])}}

Shape(l, h, c) ==
    /\ Heads(l, h, c)
    /\ Pairs(l.tracker.records, l.observer.observations, Len(h), SettingsOf(c))
    /\ l.observer.finals = FinalsOf(l.tracker.records)

\* The later of two lists of records has the earlier ones, and the finals unchanged.
Grown(before, after) ==
    /\ Len(before) <= Len(after)
    /\ \A k \in 1 .. Len(before) : IsFinal(before[k]) => after[k] = before[k]

Grows(l, m) ==
    /\ IsPrefix(l.observer.observations, m.observer.observations)
    /\ Grown(l.tracker.records, m.tracker.records)

\* A frame gives every open record its next version; a BUY adds its record and observation.
Updated(l, m, frame, settings) ==
    LET before == l.tracker.records
        after == m.tracker.records
        opened == OpenOutcome(frame, settings)
    IN  /\ \A k \in 1 .. Len(before) :
              /\ IsFinal(before[k]) => after[k] = before[k]
              /\ IsOpen(before[k]) => after[k] = AdvanceOutcome(before[k], frame)
              /\ m.observer.observations[k] = l.observer.observations[k]
        /\ IF IsBuy(frame)
           THEN /\ Len(after) = Len(before) + 1 /\ after[Len(before) + 1] = opened
                /\ m.observer.observations[Len(before) + 1] = opened
           ELSE Len(after) = Len(before)

\* A function over 1 .. m is a sequence of m members.
LEMMA FunctionIsASequence ==
    ASSUME NEW s, NEW m \in Nat, s = [k \in 1 .. m |-> s[k]]
    PROVE  IsASequence(s) /\ Len(s) = m /\ DOMAIN s = 1 .. m
<1>1. DOMAIN s = 1 .. m
  OBVIOUS
<1>2. \A k \in 1 .. m : s[k] \in ToSet(s)
  BY <1>1 DEF ToSet
<1> DEFINE T == ToSet(s)
<1> HIDE DEF T
<1>3. s \in [1 .. m -> T]
  BY <1>2 DEF T
<1>4. s \in Seq(T) /\ Len(s) = m
  BY <1>3
<1> QED BY <1>1, <1>4 DEF T, IsASequence

\* One member more.
LEMMA OneMoreMember ==
    ASSUME NEW s, IsASequence(s), NEW x
    PROVE  /\ Append(s, x) = s \o <<x>> /\ IsASequence(Append(s, x)) /\ Len(s) \in Nat
           /\ Len(Append(s, x)) = Len(s) + 1 /\ Append(s, x)[Len(s) + 1] = x
           /\ \A k \in 1 .. Len(s) : Append(s, x)[k] = s[k]
           /\ IsPrefix(s, Append(s, x))
<1> DEFINE T == ToSet(s) \union {x}
           t == Append(s, x)
<1>1. s \in Seq(T)
  BY DEF IsASequence
<1> HIDE DEF T
<1>2. x \in T
  BY DEF T
<1>3. /\ t \in Seq(T) /\ t = s \o <<x>> /\ Len(t) = Len(s) + 1 /\ Len(s) \in Nat
      /\ t[Len(s) + 1] = x /\ \A k \in 1 .. Len(s) : t[k] = s[k]
  BY <1>1, <1>2
<1>4. IsPrefix(s, t)
  <2> HIDE DEF t
  <2>1. Len(s) <= Len(t) /\ \A k \in 1 .. Len(s) : s[k] = t[k]
    BY <1>3
  <2> QED BY <1>1, <1>3, <2>1, PrefixIs
<1>5. IsASequence(t)
  <2> DEFINE m == Len(s) + 1
  <2>1. t = [k \in 1 .. m |-> t[k]] /\ m \in Nat
    BY <1>3
  <2> HIDE DEF m, t
  <2> QED BY <2>1, FunctionIsASequence
<1> QED BY <1>3, <1>4, <1>5

\* The empty sequence adds nothing.
LEMMA NothingMore ==
    ASSUME NEW s, IsASequence(s) PROVE s \o <<>> = s /\ IsPrefix(s, s) /\ Len(s) \in Nat
<1> DEFINE T == ToSet(s)
<1>1. s \in Seq(T)
  BY DEF IsASequence
<1> HIDE DEF T
<1>2. s \o <<>> = s
  BY <1>1
<1> QED BY <1>1, <1>2, PrefixIs

\* The next version of a record keeps its identity; a final record stays as it is.
LEMMA EvaluatedKeeps ==
    ASSUME NEW tracker, NEW frame, IsASequence(tracker.records)
    PROVE  LET before == tracker.records
               after == Evaluated(tracker, frame)
           IN  /\ IsASequence(after) /\ Len(after) = Len(before)
               /\ \A k \in 1 .. Len(before) :
                     /\ after[k].id = before[k].id /\ after[k].settings = before[k].settings
                     /\ IsFinal(before[k]) => after[k] = before[k]
                     /\ IsOpen(before[k]) => after[k] = AdvanceOutcome(before[k], frame)
<1> DEFINE before == tracker.records
           after == Evaluated(tracker, frame)
           m == Len(before)
           Next1(k) == IF IsOpen(before[k]) THEN AdvanceOutcome(before[k], frame) ELSE before[k]
<1>1. DOMAIN before = 1 .. m /\ m \in Nat
  <2> DEFINE T == ToSet(before)
  <2>1. before \in Seq(T)
    BY DEF IsASequence
  <2> HIDE DEF T, before
  <2> QED BY <2>1
<1>2. after = [k \in 1 .. m |-> Next1(k)]
  BY <1>1 DEF Evaluated
<1> HIDE DEF after, m
<1>3. \A k \in 1 .. m : after[k] = Next1(k)
  <2> HIDE DEF Next1
  <2> QED BY <1>2
<1>4. IsASequence(after) /\ Len(after) = m
  <2>1. after = [k \in 1 .. m |-> after[k]]
    <3> HIDE DEF Next1
    <3> QED BY <1>2
  <2> QED BY <1>1, <2>1, FunctionIsASequence
<1>5. ASSUME NEW k \in 1 .. m
      PROVE  /\ after[k].id = before[k].id /\ after[k].settings = before[k].settings
             /\ IsFinal(before[k]) => after[k] = before[k]
             /\ IsOpen(before[k]) => after[k] = AdvanceOutcome(before[k], frame)
  <2> DEFINE b == before[k]
             a == after[k]
             v == AdvanceOutcome(b, frame)
  <2>1. v.id = b.id /\ v.settings = b.settings
    <3> HIDE DEF b
    <3> QED BY DEF AdvanceOutcome, NextVersion
  <2>2. a = IF IsOpen(b) THEN v ELSE b
    BY <1>3
  <2> HIDE DEF a, b, v
  <2>3. /\ a.id = b.id /\ a.settings = b.settings /\ (IsFinal(b) => a = b) /\ (IsOpen(b) => a = v)
    BY <2>1, <2>2 DEF IsFinal
  <2> QED BY <2>3 DEF a, b, v
<1> QED BY <1>4, <1>5 DEF after, m

\* The same pairs, their records in another version.
LEMMA PairsAgain ==
    ASSUME NEW records, NEW observations, NEW n \in Nat, NEW settings,
           Pairs(records, observations, n, settings),
           NEW again, IsASequence(again), Len(again) = Len(records),
           \A k \in 1 .. Len(records) :
              again[k].id = records[k].id /\ again[k].settings = records[k].settings
    PROVE  /\ Pairs(again, observations, n, settings) /\ Pairs(again, observations, n + 1, settings)
<1>1. \A k \in 1 .. Len(records) :
          /\ records[k].settings = settings /\ records[k].id = observations[k].id
          /\ IsOpen(observations[k]) /\ Len(records[k].id.signal.prefix) \in 1 .. n
  BY DEF Pairs
<1>2. ASSUME NEW k \in 1 .. Len(again)
      PROVE  /\ again[k].settings = settings /\ again[k].id = observations[k].id
             /\ IsOpen(observations[k]) /\ Len(again[k].id.signal.prefix) \in 1 .. n
             /\ Len(again[k].id.signal.prefix) \in 1 .. n + 1
  <2>1. k \in 1 .. Len(records)
    OBVIOUS
  <2>2. again[k].id = records[k].id /\ again[k].settings = records[k].settings
    BY <2>1
  <2>3. /\ records[k].settings = settings /\ records[k].id = observations[k].id
        /\ IsOpen(observations[k]) /\ Len(records[k].id.signal.prefix) \in 1 .. n
    BY <1>1, <2>1
  <2> DEFINE length == Len(records[k].id.signal.prefix)
  <2>4. length \in 1 .. n + 1
    <3>1. length \in 1 .. n
      BY <2>3
    <3> HIDE DEF length
    <3> QED BY <3>1
  <2> QED BY <2>2, <2>3, <2>4
<1>3. \A i, j \in 1 .. Len(again) : again[i].id = again[j].id => i = j
  BY DEF Pairs
<1> QED BY <1>2, <1>3 DEF Pairs

\* One pair more, of the publication that has just been made.
LEMMA OnePairMore ==
    ASSUME NEW records, NEW observations, NEW n \in Nat, NEW settings,
           Pairs(records, observations, n, settings),
           NEW x, x.settings = settings, IsOpen(x), Len(x.id.signal.prefix) = n + 1
    PROVE  /\ Pairs(Append(records, x), Append(observations, x), n + 1, settings)
           /\ \A k \in 1 .. Len(observations) : observations[k].id # x.id
<1> DEFINE more == Append(records, x)
           seen == Append(observations, x)
           m == Len(records)
<1>1. /\ IsASequence(records) /\ IsASequence(observations) /\ Len(observations) = m
      /\ \A k \in 1 .. m :
            /\ records[k].settings = settings /\ records[k].id = observations[k].id
            /\ IsOpen(observations[k]) /\ Len(records[k].id.signal.prefix) \in 1 .. n
      /\ \A i, j \in 1 .. m : records[i].id = records[j].id => i = j
  BY DEF Pairs
<1>2. /\ IsASequence(more) /\ m \in Nat /\ Len(more) = m + 1 /\ more[m + 1] = x
      /\ \A k \in 1 .. m : more[k] = records[k]
  <2>1. IsASequence(records) /\ Len(records) = m
    BY <1>1
  <2> HIDE DEF m
  <2>2. /\ IsASequence(more) /\ Len(records) \in Nat /\ Len(more) = Len(records) + 1
        /\ more[Len(records) + 1] = x
    BY <2>1, OneMoreMember
  <2>3. \A k \in 1 .. Len(records) : more[k] = records[k]
    BY <2>1, OneMoreMember
  <2> HIDE DEF more
  <2> QED BY <2>1, <2>2, <2>3
<1>3. /\ IsASequence(seen) /\ Len(seen) = m + 1 /\ seen[m + 1] = x
      /\ \A k \in 1 .. m : seen[k] = observations[k]
  <2>1. IsASequence(observations) /\ Len(observations) = m
    BY <1>1
  <2> HIDE DEF m
  <2>2. /\ IsASequence(seen) /\ Len(observations) \in Nat /\ Len(seen) = Len(observations) + 1
        /\ seen[Len(observations) + 1] = x
    BY <2>1, OneMoreMember
  <2>3. \A k \in 1 .. Len(observations) : seen[k] = observations[k]
    BY <2>1, OneMoreMember
  <2> HIDE DEF seen
  <2> QED BY <2>1, <2>2, <2>3
<1>4. ASSUME NEW k \in 1 .. m PROVE records[k].id # x.id /\ observations[k].id # x.id
  <2> DEFINE a == Len(records[k].id.signal.prefix)
             b == Len(x.id.signal.prefix)
  <2>1. a \in 1 .. n /\ b = n + 1
    BY <1>1
  <2>2. a # b
    <3> HIDE DEF a, b
    <3> QED BY <2>1
  <2>3. records[k].id # x.id
    BY <2>2
  <2> QED BY <1>1, <2>3
<1> HIDE DEF more, seen, m
<1>5. ASSUME NEW k \in 1 .. m + 1
      PROVE  /\ more[k].settings = settings /\ more[k].id = seen[k].id
             /\ IsOpen(seen[k]) /\ Len(more[k].id.signal.prefix) \in 1 .. n + 1
  <2>1. CASE k = m + 1
    <3>1. more[k] = x /\ seen[k] = x
      BY <1>2, <1>3, <2>1
    <3>2. n + 1 \in 1 .. n + 1
      OBVIOUS
    <3> QED BY <3>1, <3>2
  <2>2. CASE k \in 1 .. m
    <3>1. more[k] = records[k] /\ seen[k] = observations[k]
      BY <1>2, <1>3, <2>2
    <3> DEFINE a == Len(records[k].id.signal.prefix)
    <3>2. a \in 1 .. n
      BY <1>1, <2>2
    <3>3. a \in 1 .. n + 1
      <4> HIDE DEF a
      <4> QED BY <3>2
    <3> QED BY <1>1, <2>2, <3>1, <3>3
  <2> QED BY <1>2, <2>1, <2>2
<1>6. ASSUME NEW i \in 1 .. m + 1, NEW j \in 1 .. m + 1, more[i].id = more[j].id PROVE i = j
  <2>1. (i = m + 1 \/ i \in 1 .. m) /\ (j = m + 1 \/ j \in 1 .. m)
    BY <1>2
  <2>2. \A k \in 1 .. m : more[k].id # x.id
    BY <1>2, <1>4
  <2>3. CASE i = m + 1
    BY <1>2, <1>6, <2>1, <2>2, <2>3
  <2>4. CASE j = m + 1
    BY <1>2, <1>6, <2>1, <2>2, <2>4
  <2>5. CASE i \in 1 .. m /\ j \in 1 .. m
    BY <1>1, <1>2, <1>6, <2>5
  <2> QED BY <2>1, <2>3, <2>4, <2>5
<1>7. Pairs(more, seen, n + 1, settings)
  BY <1>2, <1>3, <1>5, <1>6 DEF Pairs
<1> QED BY <1>1, <1>4, <1>7 DEF more, seen

\* A frame adds at most a pair; what was final stays, what becomes final is filed.
LEMMA UpdateKeepsTheShape ==
    ASSUME NEW c, NEW n \in Nat, NEW h \in Seq(Candles), Len(h) = n + 1,
           NEW l, Shape(l, SubSeq(h, 1, n), c)
    PROVE  LET m == UpdateLifecycle(l, Frame(h, c.chain))
           IN  Shape(m, h, c) /\ Grows(l, m) /\ Updated(l, m, Frame(h, c.chain), SettingsOf(c))
<1> DEFINE settings == SettingsOf(c)
           frame == Frame(h, c.chain)
           t == l.tracker
           o == l.observer
           records == t.records
           observations == o.observations
           m == Len(records)
           adv == Evaluated(t, frame)
           new == OpenOutcome(frame, settings)
           t2 == UpdateTracker(t, frame)
           o2 == Observe(o, frame)
           done == Completed(t, frame)
           o3 == RecordFinalized(o2, done)
<1>1. Len(SubSeq(h, 1, n)) = n
  OBVIOUS
<1>2. /\ t.settings = settings /\ o.settings = settings /\ t.count = n
      /\ Pairs(records, observations, n, settings) /\ o.finals = FinalsOf(records)
      /\ o = [settings |-> o.settings, observations |-> o.observations, finals |-> o.finals]
  BY <1>1 DEF Shape, Heads
<1>3. /\ IsASequence(records) /\ IsASequence(observations) /\ Len(observations) = m /\ m \in Nat
  <2>1. IsASequence(records) /\ IsASequence(observations) /\ Len(observations) = m
    BY <1>2 DEF Pairs
  <2> QED BY <2>1, NothingMore
<1>4. /\ IsASequence(adv) /\ Len(adv) = m
      /\ \A k \in 1 .. m :
            /\ adv[k].id = records[k].id /\ adv[k].settings = records[k].settings
            /\ IsFinal(records[k]) => adv[k] = records[k]
            /\ IsOpen(records[k]) => adv[k] = AdvanceOutcome(records[k], frame)
  BY <1>3, EvaluatedKeeps
<1>5. /\ t2.settings = settings /\ t2.count = n + 1 /\ t2.latest = frame
      /\ t2.records = adv \o Created(t, frame)
  BY <1>2 DEF UpdateTracker
<1>6. /\ new.settings = settings /\ IsOpen(new) /\ new.id = OutcomeIdentity(frame, settings)
      /\ new.id.signal.prefix = h
  BY DEF OpenOutcome, IsOpen, OutcomeIdentity, SignalId, Frame
<1>7. UpdateLifecycle(l, frame) = [tracker |-> t2, observer |-> o3]
  BY DEF UpdateLifecycle
<1> DEFINE u == UpdateLifecycle(l, frame)
<1>8. u.tracker = t2 /\ u.observer = o3
  BY <1>7
<1> HIDE DEF u, t2, o2, o3, adv, new, settings, frame
<1>9. Pairs(adv, observations, n, settings) /\ Pairs(adv, observations, n + 1, settings)
  <2>1. /\ IsASequence(adv) /\ Len(adv) = Len(records)
        /\ \A k \in 1 .. Len(records) :
              adv[k].id = records[k].id /\ adv[k].settings = records[k].settings
    BY <1>4
  <2>2. Pairs(records, observations, n, settings)
    BY <1>2
  <2> HIDE DEF records, observations
  <2> QED BY <2>1, <2>2, PairsAgain
<1>10. IsBuy(frame) =>
          /\ t2.records = Append(adv, new) /\ Pairs(Append(adv, new), Append(observations, new), n + 1, settings)
          /\ new.id \notin ObservedIds(o)
  <2> SUFFICES ASSUME IsBuy(frame)
               PROVE  /\ t2.records = Append(adv, new)
                      /\ Pairs(Append(adv, new), Append(observations, new), n + 1, settings)
                      /\ new.id \notin ObservedIds(o)
    OBVIOUS
  <2>1. Created(t, frame) = <<new>>
    BY <1>2 DEF Created, new
  <2>2. t2.records = Append(adv, new)
    BY <1>4, <1>5, <2>1, OneMoreMember
  <2>3. Len(new.id.signal.prefix) = n + 1
    BY <1>6
  <2>4. /\ Pairs(Append(adv, new), Append(observations, new), n + 1, settings)
        /\ \A k \in 1 .. Len(observations) : observations[k].id # new.id
    BY <1>6, <1>9, <2>3, OnePairMore
  <2>5. DOMAIN observations = 1 .. Len(observations)
    <3> DEFINE T == ToSet(observations)
    <3>1. observations \in Seq(T)
      BY <1>3 DEF IsASequence
    <3> HIDE DEF T, observations
    <3> QED BY <3>1
  <2>6. new.id \notin ObservedIds(o)
    BY <2>4, <2>5 DEF ObservedIds, ToSet
  <2> QED BY <2>2, <2>4, <2>6
<1>11. ~IsBuy(frame) => t2.records = adv
  <2> SUFFICES ASSUME ~IsBuy(frame) PROVE t2.records = adv
    OBVIOUS
  <2>1. Created(t, frame) = <<>>
    BY DEF Created
  <2> QED BY <1>4, <1>5, <2>1, NothingMore
<1>12. /\ o2.settings = settings /\ o2.finals = o.finals
       /\ o2 = [settings |-> o2.settings, observations |-> o2.observations, finals |-> o2.finals]
       /\ o2.observations = IF IsBuy(frame) THEN Append(observations, new) ELSE observations
  <2>1. CASE IsBuy(frame)
    <3>1. o2 = [o EXCEPT !.observations = Append(@, new)]
      BY <1>2, <1>6, <1>10, <2>1 DEF o2, Observe, new
    <3> DEFINE longer == Append(observations, new)
    <3>2. o2 = [o EXCEPT !.observations = longer]
      BY <3>1
    <3> HIDE DEF longer
    <3>3. o2 = [settings |-> settings, observations |-> longer, finals |-> o.finals]
      <4>1. o = [settings |-> settings, observations |-> observations, finals |-> o.finals]
        BY <1>2
      <4> HIDE DEF observations, settings
      <4> DEFINE f == o.finals
      <4> HIDE DEF f
      <4>2. o = [settings |-> settings, observations |-> observations, finals |-> f]
        BY <4>1 DEF f
      <4>3. o2 = [settings |-> settings, observations |-> longer, finals |-> f]
        BY <3>2, <4>2
      <4> QED BY <4>3 DEF f
    <3>4. /\ o2.settings = settings /\ o2.observations = longer /\ o2.finals = o.finals
      BY <3>3
    <3> QED BY <2>1, <3>3, <3>4 DEF longer
  <2>2. CASE ~IsBuy(frame)
    BY <1>2, <2>2 DEF o2, Observe
  <2> QED BY <2>1, <2>2
<1>13. /\ o3.settings = settings /\ o3.observations = o2.observations
       /\ o3.finals = o.finals \union done
       /\ o3 = [settings |-> o3.settings, observations |-> o3.observations, finals |-> o3.finals]
  <2> DEFINE e == o2.observations
             f == o2.finals
             g == f \union done
  <2>1. o2 = [settings |-> settings, observations |-> e, finals |-> f]
    BY <1>12
  <2>2. o3 = [o2 EXCEPT !.finals = f \union done]
    BY DEF o3, RecordFinalized
  <2> HIDE DEF e, f, g, done
  <2>3. o3 = [settings |-> settings, observations |-> e, finals |-> g]
    <3>1. o3 = [o2 EXCEPT !.finals = g]
      BY <2>2 DEF g
    <3> QED BY <2>1, <3>1
  <2>4. o3.settings = settings /\ o3.observations = e /\ o3.finals = g
    BY <2>3
  <2> QED BY <1>12, <2>3, <2>4 DEF e, f, g
<1>14. Pairs(t2.records, o3.observations, n + 1, settings)
  BY <1>9, <1>10, <1>11, <1>12, <1>13
<1>15. Grown(records, t2.records)
  <2>1. CASE IsBuy(frame)
    <3>1. Len(Append(adv, new)) = m + 1 /\ \A k \in 1 .. m : Append(adv, new)[k] = adv[k]
      BY <1>4, OneMoreMember
    <3> HIDE DEF m
    <3>2. Len(t2.records) = m + 1 /\ \A k \in 1 .. m : t2.records[k] = adv[k]
      BY <1>10, <2>1, <3>1
    <3>3. Len(t2.records) >= m
      BY <1>3, <3>2
    <3> QED BY <1>4, <3>2, <3>3 DEF Grown, m
  <2>2. CASE ~IsBuy(frame)
    BY <1>3, <1>4, <1>11, <2>2 DEF Grown
  <2> QED BY <2>1, <2>2
<1>16. IsPrefix(observations, o3.observations)
  <2> HIDE DEF observations
  <2>1. IsPrefix(observations, observations) /\ IsPrefix(observations, Append(observations, new))
    BY <1>3, OneMoreMember, NothingMore
  <2> QED BY <1>12, <1>13, <2>1
<1>17. o.finals \union done = FinalsOf(t2.records)
  <2> DEFINE r == t2.records
  <2>1. IsASequence(r) /\ Len(r) \in Nat
    BY <1>14, NothingMore DEF Pairs
  <2> HIDE DEF r
  <2>2. DOMAIN r = 1 .. Len(r)
    <3> DEFINE T == ToSet(r)
    <3>1. r \in Seq(T)
      BY <2>1 DEF IsASequence
    <3> HIDE DEF T
    <3> QED BY <3>1
  <2>3. done = {record \in ToSet(r) : IsFinal(record) /\ record.evidence = frame}
    BY DEF Completed, t2, r
  <2> HIDE DEF done
  <2>4. ASSUME NEW x \in done PROVE x \in FinalsOf(r)
    BY <2>2, <2>3, <2>4 DEF FinalsOf, ToSet
  <2>5. ASSUME NEW x \in o.finals PROVE x \in FinalsOf(r)
    <3>1. PICK k \in 1 .. m : x = records[k] /\ IsFinal(records[k])
      BY <1>2 DEF FinalsOf
    <3>2. k \in 1 .. Len(r) /\ r[k] = records[k]
      <4>1. m <= Len(r) /\ r[k] = records[k]
        BY <1>15, <3>1 DEF Grown, r
      <4> HIDE DEF m
      <4> QED BY <1>3, <2>1, <4>1
    <3> QED BY <3>1, <3>2 DEF FinalsOf
  <2>6. ASSUME NEW x \in FinalsOf(r) PROVE x \in o.finals \union done
    <3>1. PICK k \in 1 .. Len(r) : x = r[k] /\ IsFinal(r[k])
      BY DEF FinalsOf
    <3>2. CASE k \in 1 .. m
      <4>1. r[k] = adv[k]
        <5>1. CASE IsBuy(frame)
          <6>1. \A i \in 1 .. Len(adv) : Append(adv, new)[i] = adv[i]
            BY <1>4, OneMoreMember
          <6> QED BY <1>4, <1>10, <3>2, <5>1, <6>1 DEF r
        <5>2. CASE ~IsBuy(frame)
          BY <1>11, <5>2 DEF r
        <5> QED BY <5>1, <5>2
      <4>2. CASE IsFinal(records[k])
        BY <1>2, <1>4, <3>1, <3>2, <4>1, <4>2 DEF FinalsOf
      <4>3. CASE IsOpen(records[k])
        <5>1. r[k] = AdvanceOutcome(records[k], frame)
          BY <1>4, <3>2, <4>1, <4>3
        <5>2. r[k].evidence = frame
          <6> DEFINE b == records[k]
          <6> HIDE DEF b
          <6>1. AdvanceOutcome(b, frame).evidence = frame
            BY DEF AdvanceOutcome, NextVersion
          <6> QED BY <5>1, <6>1 DEF b
        <5>3. r[k] \in ToSet(r)
          BY <2>2, <3>1 DEF ToSet
        <5> QED BY <2>3, <3>1, <5>2, <5>3
      <4> QED BY <4>2, <4>3 DEF IsFinal
    <3>3. CASE k \notin 1 .. m
      <4>1. CASE IsBuy(frame)
        <5>1. Len(r) = m + 1 /\ r[m + 1] = new
          <6>1. Len(Append(adv, new)) = Len(adv) + 1 /\ Append(adv, new)[Len(adv) + 1] = new
            BY <1>4, OneMoreMember
          <6> QED BY <1>4, <1>10, <4>1, <6>1 DEF r
        <5>2. k = m + 1
          <6> HIDE DEF m
          <6> QED BY <1>3, <3>3, <5>1
        <5>3. r[k] = new
          BY <5>1, <5>2
        <5> QED BY <1>6, <3>1, <5>3 DEF IsFinal
      <4>2. CASE ~IsBuy(frame)
        <5>1. Len(r) = m
          BY <1>4, <1>11, <4>2 DEF r
        <5> QED BY <3>3, <5>1
      <4> QED BY <4>1, <4>2
    <3> QED BY <3>2, <3>3
  <2> QED BY <2>4, <2>5, <2>6 DEF r
<1>18. Heads(u, h, c)
  BY <1>5, <1>8, <1>13 DEF Heads, settings, frame
<1>19. Shape(u, h, c)
  BY <1>8, <1>13, <1>14, <1>17, <1>18 DEF Shape, settings
<1>20. Grows(l, u)
  BY <1>8, <1>15, <1>16 DEF Grows
<1>21. Updated(l, u, frame, settings)
  <2>1. CASE IsBuy(frame)
    <3>1. /\ Len(Append(adv, new)) = Len(adv) + 1 /\ Append(adv, new)[Len(adv) + 1] = new
          /\ \A k \in 1 .. Len(adv) : Append(adv, new)[k] = adv[k]
      BY <1>4, OneMoreMember
    <3>2. /\ Append(observations, new)[Len(observations) + 1] = new
          /\ \A k \in 1 .. Len(observations) : Append(observations, new)[k] = observations[k]
      <4> HIDE DEF observations
      <4> QED BY <1>3, OneMoreMember
    <3>3. /\ t2.records = Append(adv, new) /\ o3.observations = Append(observations, new)
      BY <1>10, <1>12, <1>13, <2>1
    <3>4. /\ Len(t2.records) = m + 1 /\ t2.records[m + 1] = new
          /\ \A k \in 1 .. m : t2.records[k] = adv[k]
          /\ o3.observations[m + 1] = new /\ \A k \in 1 .. m : o3.observations[k] = observations[k]
      BY <1>3, <1>4, <3>1, <3>2, <3>3
    <3> QED BY <1>4, <1>8, <2>1, <3>4 DEF Updated, new
  <2>2. CASE ~IsBuy(frame)
    BY <1>4, <1>8, <1>11, <1>12, <1>13, <2>2 DEF Updated
  <2> QED BY <2>1, <2>2
<1> QED BY <1>19, <1>20, <1>21 DEF u, frame, settings

\* A new lifecycle has the shape.
LEMMA NewHasTheShape ==
    ASSUME NEW c, NEW h, Len(h) = 0 PROVE Shape(NewLifecycle(SettingsOf(c)), h, c)
<1> DEFINE settings == SettingsOf(c)
           l == NewLifecycle(settings)
           none == <<>>
<1>1. /\ l.tracker.settings = settings /\ l.tracker.count = 0 /\ l.tracker.records = none
      /\ l.observer = [settings |-> settings, observations |-> none, finals |-> {}]
      /\ l.observer.settings = settings /\ l.observer.observations = none /\ l.observer.finals = {}
  <2> HIDE DEF settings
  <2> QED BY DEF NewLifecycle, NewTracker, NewObserver
<1>2. IsASequence(none) /\ Len(none) = 0
  BY DEF IsASequence
<1> HIDE DEF l, none, settings
<1>3. Heads(l, h, c)
  BY <1>1 DEF Heads, settings
<1>4. Pairs(none, none, 0, settings)
  BY <1>2 DEF Pairs
<1>5. FinalsOf(none) = {}
  BY <1>2 DEF FinalsOf
<1> QED BY <1>1, <1>3, <1>4, <1>5 DEF Shape, l, settings

\* Every history leaves a lifecycle of this shape.
LEMMA EveryHistoryHasTheShape ==
    ASSUME NEW c PROVE \A h \in Seq(Candles) : Shape(After(h, c), h, c)
<1> DEFINE S == {n \in Nat : \A h \in Seq(Candles) : Len(h) = n => Shape(After(h, c), h, c)}
<1>1. 0 \in S
  BY NoCandle, NewHasTheShape
<1>2. ASSUME NEW n \in Nat, n \in S PROVE n + 1 \in S
  <2> SUFFICES ASSUME NEW h \in Seq(Candles), Len(h) = n + 1 PROVE Shape(After(h, c), h, c)
    OBVIOUS
  <2> DEFINE g == SubSeq(h, 1, n)
  <2>1. g \in Seq(Candles) /\ Len(g) = n
    OBVIOUS
  <2>2. Shape(After(g, c), g, c)
    <3> HIDE DEF g
    <3> QED BY <1>2, <2>1
  <2>3. After(h, c) = UpdateLifecycle(After(g, c), Frame(h, c.chain))
    BY OneMoreCandle
  <2>4. Shape(UpdateLifecycle(After(g, c), Frame(h, c.chain)), h, c)
    BY <2>2, UpdateKeepsTheShape
  <2> QED BY <2>3, <2>4
<1> HIDE DEF S
<1>3. \A n \in Nat : n \in S
  BY <1>1, <1>2, Induction
<1>4. \A h \in Seq(Candles) : Len(h) \in Nat
  OBVIOUS
<1> QED BY <1>3, <1>4 DEF S

\* A prefix of a prefix.
LEMMA PrefixOnAndOn ==
    ASSUME NEW r, NEW s, NEW t, IsASequence(r), IsASequence(s), IsASequence(t),
           IsPrefix(r, s), IsPrefix(s, t)
    PROVE  IsPrefix(r, t)
<1> DEFINE T == ToSet(r) \union ToSet(s) \union ToSet(t)
<1>1. r \in Seq(T) /\ s \in Seq(T) /\ t \in Seq(T)
  BY DEF IsASequence
<1> HIDE DEF T
<1>2. /\ Len(r) <= Len(s) /\ \A i \in 1 .. Len(r) : r[i] = s[i]
      /\ Len(s) <= Len(t) /\ \A i \in 1 .. Len(s) : s[i] = t[i]
  BY <1>1, PrefixIs
<1>3. Len(r) \in Nat /\ Len(s) \in Nat /\ Len(t) \in Nat
  BY <1>1
<1>4. Len(r) <= Len(t) /\ \A i \in 1 .. Len(r) : r[i] = t[i]
  BY <1>2, <1>3
<1> QED BY <1>1, <1>4, PrefixIs

\* Growing twice is growing.
LEMMA GrowsOnAndOn ==
    ASSUME NEW l, NEW m, NEW o, Grows(l, m), Grows(m, o),
           IsASequence(l.observer.observations), IsASequence(m.observer.observations),
           IsASequence(o.observer.observations), IsASequence(l.tracker.records),
           IsASequence(m.tracker.records), IsASequence(o.tracker.records)
    PROVE  Grows(l, o)
<1>1. IsPrefix(l.observer.observations, o.observer.observations)
  BY PrefixOnAndOn DEF Grows
<1>2. ASSUME NEW r, NEW s, NEW t, IsASequence(r), IsASequence(s), IsASequence(t),
             Grown(r, s), Grown(s, t)
      PROVE  Grown(r, t)
  <2>1. Len(r) \in Nat /\ Len(s) \in Nat /\ Len(t) \in Nat
    BY <1>2, NothingMore
  <2> QED BY <1>2, <2>1 DEF Grown
<1> QED BY <1>1, <1>2 DEF Grows

\* What is in a lifecycle are sequences.
LEMMA ShapeHasSequences ==
    ASSUME NEW l, NEW h, NEW c, Shape(l, h, c)
    PROVE  /\ IsASequence(l.observer.observations) /\ IsASequence(l.tracker.records)
           /\ Len(l.observer.observations) = Len(l.tracker.records) /\ Len(l.tracker.records) \in Nat
           /\ Grows(l, l)
<1>1. /\ IsASequence(l.observer.observations) /\ IsASequence(l.tracker.records)
      /\ Len(l.observer.observations) = Len(l.tracker.records)
  BY DEF Shape, Pairs
<1>2. Len(l.tracker.records) \in Nat
  BY <1>1, NothingMore
<1>3. Grown(l.tracker.records, l.tracker.records)
  <2> DEFINE r == l.tracker.records
  <2>1. Len(r) \in Nat
    BY <1>2
  <2> HIDE DEF r
  <2>2. Grown(r, r)
    BY <2>1 DEF Grown
  <2> QED BY <2>2 DEF r
<1> QED BY <1>1, <1>2, <1>3, NothingMore DEF Grows

\* A history only ever grows a lifecycle.
LEMMA HistoriesGrow ==
    ASSUME NEW c
    PROVE  \A h \in Seq(Candles) : \A k \in 0 .. Len(h) :
              Grows(After(SubSeq(h, 1, k), c), After(h, c))
<1> DEFINE S == {n \in Nat : \A h \in Seq(Candles) : Len(h) = n =>
                    \A k \in 0 .. n : Grows(After(SubSeq(h, 1, k), c), After(h, c))}
<1>1. ASSUME NEW h \in Seq(Candles)
      PROVE  /\ Grows(After(SubSeq(h, 1, Len(h)), c), After(h, c))
             /\ Len(h) \in Nat
  <2>1. SubSeq(h, 1, Len(h)) = h
    OBVIOUS
  <2>2. Grows(After(h, c), After(h, c))
    BY EveryHistoryHasTheShape, ShapeHasSequences
  <2>3. Len(h) \in Nat
    OBVIOUS
  <2> QED BY <2>1, <2>2, <2>3
<1>2. 0 \in S
  BY <1>1
<1>3. ASSUME NEW n \in Nat, n \in S PROVE n + 1 \in S
  <2> SUFFICES ASSUME NEW h \in Seq(Candles), Len(h) = n + 1, NEW k \in 0 .. n + 1
               PROVE  Grows(After(SubSeq(h, 1, k), c), After(h, c))
    OBVIOUS
  <2>1. CASE k = n + 1
    BY <1>1, <2>1
  <2>2. CASE k \in 0 .. n
    <3> DEFINE g == SubSeq(h, 1, n)
               f == SubSeq(h, 1, k)
    <3>1. g \in Seq(Candles) /\ Len(g) = n /\ f \in Seq(Candles) /\ SubSeq(g, 1, k) = f
      BY <2>2
    <3>2. Grows(After(f, c), After(g, c))
      <4> HIDE DEF f, g
      <4> QED BY <1>3, <2>2, <3>1
    <3>3. Grows(After(g, c), After(h, c))
      <4>1. Shape(After(g, c), g, c)
        BY <3>1, EveryHistoryHasTheShape
      <4>2. After(h, c) = UpdateLifecycle(After(g, c), Frame(h, c.chain))
        BY OneMoreCandle
      <4>3. Grows(After(g, c), UpdateLifecycle(After(g, c), Frame(h, c.chain)))
        BY <4>1, UpdateKeepsTheShape
      <4> QED BY <4>2, <4>3
    <3> HIDE DEF f, g
    <3>4. Shape(After(f, c), f, c) /\ Shape(After(g, c), g, c) /\ Shape(After(h, c), h, c)
      BY <3>1, EveryHistoryHasTheShape
    <3>5. Grows(After(f, c), After(h, c))
      BY <3>2, <3>3, <3>4, ShapeHasSequences, GrowsOnAndOn
    <3> QED BY <3>5 DEF f
  <2> QED BY <2>1, <2>2
<1> HIDE DEF S
<1>4. \A n \in Nat : n \in S
  BY <1>2, <1>3, Induction
<1> QED BY <1>1, <1>4 DEF S

-----------------------------------------------------------------------------
(* The ledger of a lifecycle.                                              *)

FinalIndices(records) == {i \in 1 .. Len(records) : IsFinal(records[i])}

\* The current version of an observation is its record once that is final.
LEMMA CurrentVersionsAre ==
    ASSUME NEW l, NEW h, NEW c, Shape(l, h, c)
    PROVE  LET records == l.tracker.records
               current == CurrentVersions(l.observer)
           IN  /\ DOMAIN current = 1 .. Len(records) /\ IsASequence(current)
               /\ \A k \in 1 .. Len(records) :
                     current[k] = IF IsFinal(records[k]) THEN records[k]
                                   ELSE l.observer.observations[k]
               /\ \A k \in 1 .. Len(records) : IsFinal(current[k]) <=> IsFinal(records[k])
<1> DEFINE records == l.tracker.records
           o == l.observer
           observations == o.observations
           current == CurrentVersions(o)
           m == Len(records)
<1>1. /\ IsASequence(observations) /\ Len(observations) = m /\ m \in Nat
      /\ o.finals = FinalsOf(records)
      /\ \A k \in 1 .. m : records[k].id = observations[k].id /\ IsOpen(observations[k])
      /\ \A i, j \in 1 .. m : records[i].id = records[j].id => i = j
  <2>1. IsASequence(observations) /\ Len(observations) = m /\ m \in Nat
    BY ShapeHasSequences
  <2> QED BY <2>1 DEF Shape, Pairs
<1>2. DOMAIN observations = 1 .. m
  <2> DEFINE T == ToSet(observations)
  <2>1. observations \in Seq(T)
    BY <1>1 DEF IsASequence
  <2> HIDE DEF T, observations, m
  <2>2. DOMAIN observations = 1 .. Len(observations)
    BY <2>1
  <2> QED BY <1>1, <2>2
<1>3. current = [k \in 1 .. m |-> FinalOf(o, observations[k])]
  BY <1>2 DEF CurrentVersions
<1>4. ASSUME NEW k \in 1 .. m
      PROVE  FinalOf(o, observations[k])
                = IF IsFinal(records[k]) THEN records[k] ELSE observations[k]
  <2> DEFINE x == observations[k]
             r == records[k]
  <2>1. r.id = x.id
    BY <1>1
  <2>2. ASSUME NEW f \in o.finals, f.id = x.id PROVE f = r /\ IsFinal(r)
    <3>1. PICK j \in 1 .. m : f = records[j] /\ IsFinal(records[j])
      BY <1>1 DEF FinalsOf
    <3>2. j = k
      BY <1>1, <2>1, <2>2, <3>1
    <3> QED BY <3>1, <3>2
  <2>3. IsFinal(r) => r \in o.finals
    BY <1>1 DEF FinalsOf
  <2> HIDE DEF x, r
  <2>4. CASE IsFinal(r)
    <3>1. r \in o.finals /\ r.id = x.id
      BY <2>1, <2>3, <2>4
    <3>2. x.id \in FinalIds(o)
      BY <3>1 DEF FinalIds
    <3>3. FinalOf(o, x) = CHOOSE final \in o.finals : final.id = x.id
      BY <3>2 DEF FinalOf
    <3>4. FinalOf(o, x) = r
      BY <2>2, <3>1, <3>3
    <3> QED BY <2>4, <3>4 DEF x, r
  <2>5. CASE ~IsFinal(r)
    <3>1. x.id \notin FinalIds(o)
      BY <2>2, <2>5 DEF FinalIds
    <3>2. FinalOf(o, x) = x
      BY <3>1 DEF FinalOf
    <3> QED BY <2>5, <3>2 DEF x, r
  <2> QED BY <2>4, <2>5
<1> HIDE DEF current, m, o
<1>5. /\ DOMAIN current = 1 .. m
      /\ \A k \in 1 .. m : current[k] = IF IsFinal(records[k]) THEN records[k]
                                         ELSE observations[k]
  BY <1>3, <1>4
<1>6. \A k \in 1 .. m : IsFinal(current[k]) <=> IsFinal(records[k])
  BY <1>1, <1>5 DEF IsFinal
<1>7. IsASequence(current)
  <2>1. current = [k \in 1 .. m |-> current[k]]
    BY <1>3, <1>5
  <2> QED BY <1>1, <2>1, FunctionIsASequence
<1> QED BY <1>5, <1>6, <1>7 DEF current, o, m

\* The finals of the ledger are the final records, in the order of their publication.
LEMMA LedgerIs ==
    ASSUME NEW l, NEW h, NEW c, Shape(l, h, c)
    PROVE  LET records == l.tracker.records
               ledger == SnapshotLedger(l)
               finals == FinalIndices(records)
           IN  /\ ledger.settings = SettingsOf(c)
               /\ ledger.observations = l.observer.observations
               /\ IsASequence(ledger.observations)
               /\ ledger.finalized = Picked(CurrentVersions(l.observer), finals)
               /\ ledger.finalized = FinalizedOutcomes(l.observer)
               /\ finals \in SUBSET (1 .. Len(records)) /\ Len(records) \in Nat
               /\ Len(ledger.finalized) = Cardinality(finals)
               /\ ToSet(ledger.finalized) = FinalsOf(records)
<1> DEFINE records == l.tracker.records
           current == CurrentVersions(l.observer)
           finals == FinalIndices(records)
           m == Len(records)
           p == Picked(current, finals)
<1>1. /\ DOMAIN current = 1 .. m /\ m \in Nat
      /\ \A k \in 1 .. m : IsFinal(records[k]) => current[k] = records[k]
      /\ \A k \in 1 .. m : IsFinal(current[k]) <=> IsFinal(records[k])
  BY CurrentVersionsAre, ShapeHasSequences
<1>2. l.observer.settings = SettingsOf(c) /\ IsASequence(l.observer.observations)
  BY ShapeHasSequences DEF Shape, Heads
<1>3. {i \in DOMAIN current : IsFinal(current[i])} = finals /\ finals \in SUBSET (1 .. m)
  BY <1>1 DEF FinalIndices
<1>4. FinalizedOutcomes(l.observer) = p
  BY <1>3 DEF FinalizedOutcomes, FinalsIn
<1> HIDE DEF current, finals, m
<1>5. Len(p) = Cardinality(finals) /\ ToSet(p) = {current[i] : i \in finals}
  <2>1. m \in Nat /\ finals \in SUBSET (1 .. m)
    BY <1>1, <1>3
  <2>2. Len(Picked(current, finals)) = Cardinality(finals)
    BY <2>1, PickedIs
  <2>3. ToSet(Picked(current, finals)) = {current[i] : i \in finals}
    BY <2>1, PickedMembers
  <2> QED BY <2>2, <2>3
<1>6. {current[i] : i \in finals} = FinalsOf(records)
  <2>1. \A i \in finals : current[i] = records[i]
    BY <1>1, <1>3 DEF finals, FinalIndices, m
  <2>2. FinalsOf(records) = {records[i] : i \in finals}
    BY DEF finals, FinalsOf, FinalIndices
  <2> QED BY <2>1, <2>2
<1>7. /\ SnapshotLedger(l).settings = l.observer.settings
      /\ SnapshotLedger(l).observations = l.observer.observations
      /\ SnapshotLedger(l).finalized = FinalizedOutcomes(l.observer)
  BY DEF SnapshotLedger
<1> HIDE DEF p
<1>8. SnapshotLedger(l).finalized = p
  BY <1>4, <1>7
<1> QED BY <1>1, <1>2, <1>3, <1>4, <1>5, <1>6, <1>7, <1>8 DEF p, current, finals, m

\* A lifecycle that has grown extends the ledger; where the counts have not changed,
\* nothing has.
LEMMA GrowthExtendsTheLedger ==
    ASSUME NEW l, NEW g, NEW m, NEW h, NEW c, Shape(l, g, c), Shape(m, h, c), Grows(l, m)
    PROVE  /\ Extends(SnapshotLedger(m), SnapshotLedger(l))
           /\ /\ Len(m.observer.observations) = Len(l.observer.observations)
              /\ Len(FinalizedOutcomes(m.observer)) = Len(FinalizedOutcomes(l.observer))
              => SnapshotLedger(m) = SnapshotLedger(l)
<1> DEFINE a == l.tracker.records
           b == m.tracker.records
           A == FinalIndices(a)
           B == FinalIndices(b)
           old == SnapshotLedger(l)
           new == SnapshotLedger(m)
           na == Len(a)
           nb == Len(b)
<1>1. /\ old.settings = SettingsOf(c) /\ old.observations = l.observer.observations
      /\ old.finalized = Picked(CurrentVersions(l.observer), A) /\ A \in SUBSET (1 .. na)
      /\ na \in Nat /\ Len(old.finalized) = Cardinality(A) /\ ToSet(old.finalized) = FinalsOf(a)
      /\ old.finalized = FinalizedOutcomes(l.observer)
  BY LedgerIs
<1>2. /\ new.settings = SettingsOf(c) /\ new.observations = m.observer.observations
      /\ new.finalized = Picked(CurrentVersions(m.observer), B) /\ B \in SUBSET (1 .. nb)
      /\ nb \in Nat /\ Len(new.finalized) = Cardinality(B) /\ ToSet(new.finalized) = FinalsOf(b)
      /\ new.finalized = FinalizedOutcomes(m.observer)
  BY LedgerIs
<1>3. na <= nb /\ \A k \in 1 .. na : IsFinal(a[k]) => b[k] = a[k]
  BY DEF Grows, Grown
<1>4. A \subseteq B /\ \A k \in A : a[k] = b[k]
  <2> SUFFICES ASSUME NEW k \in A PROVE k \in B /\ a[k] = b[k]
    OBVIOUS
  <2>1. k \in 1 .. na /\ IsFinal(a[k])
    BY DEF FinalIndices
  <2>2. k \in 1 .. nb
    <3> HIDE DEF na, nb
    <3> QED BY <1>1, <1>2, <1>3, <2>1
  <2>3. a[k] = b[k]
    BY <1>3, <2>1
  <2> QED BY <2>1, <2>2, <2>3 DEF FinalIndices
<1>5. FinalsOf(a) \subseteq FinalsOf(b)
  <2>1. FinalsOf(a) = {a[k] : k \in A} /\ FinalsOf(b) = {b[k] : k \in B}
    BY DEF FinalsOf, FinalIndices
  <2> HIDE DEF a, b, A, B
  <2> QED BY <1>4, <2>1
<1>6. Extends(new, old)
  BY <1>1, <1>2, <1>5 DEF Extends, Grows
<1>7. ASSUME Len(m.observer.observations) = Len(l.observer.observations),
             Len(FinalizedOutcomes(m.observer)) = Len(FinalizedOutcomes(l.observer))
      PROVE  new = old
  <2>1. m.observer.observations = l.observer.observations
    <3> DEFINE x == l.observer.observations
               y == m.observer.observations
               T == ToSet(x) \union ToSet(y)
    <3>1. x \in Seq(T) /\ y \in Seq(T) /\ IsPrefix(x, y) /\ Len(x) = Len(y)
      BY <1>7, ShapeHasSequences DEF Grows, IsASequence
    <3> HIDE DEF x, y, T
    <3>2. \A i \in 1 .. Len(x) : x[i] = y[i]
      BY <3>1, PrefixIs
    <3>3. x = y
      BY <3>1, <3>2
    <3> QED BY <3>3 DEF x, y
  <2>2. A = B
    <3>1. Cardinality(A) = Cardinality(B)
      BY <1>1, <1>2, <1>7
    <3>2. IsFiniteSet(B)
      BY <1>2, IndexSet
    <3> QED BY <1>4, <3>1, <3>2, FS_Subset
  <2>3. new.finalized = old.finalized
    <3> DEFINE v == CurrentVersions(l.observer)
               w == CurrentVersions(m.observer)
               order == Ascending(A)
    <3>1. \A k \in A : v[k] = a[k] /\ w[k] = b[k]
      <4>1. \A k \in 1 .. na : IsFinal(a[k]) => v[k] = a[k]
        BY CurrentVersionsAre
      <4>2. \A k \in 1 .. nb : IsFinal(b[k]) => w[k] = b[k]
        BY CurrentVersionsAre
      <4> QED BY <2>2, <4>1, <4>2 DEF FinalIndices
    <3>2. IsFiniteSet(A) /\ A \in SUBSET Nat
      <4> HIDE DEF A, na
      <4>1. A \in SUBSET (1 .. na) /\ na \in Nat
        BY <1>1
      <4> QED BY <4>1, IndexSet
    <3>3. \A i \in DOMAIN order : order[i] \in A
      <4> HIDE DEF A
      <4>1. order \in [1 .. Cardinality(A) -> A]
        BY <3>2, AscendingLists
      <4> QED BY <4>1
    <3>4. Picked(v, A) = [i \in DOMAIN order |-> v[order[i]]]
      BY DEF Picked
    <3>5. Picked(w, A) = [i \in DOMAIN order |-> w[order[i]]]
      BY DEF Picked
    <3> HIDE DEF v, w, order, A
    <3>6. \A i \in DOMAIN order : v[order[i]] = w[order[i]]
      BY <1>4, <3>1, <3>3
    <3>7. Picked(v, A) = Picked(w, A)
      BY <3>4, <3>5, <3>6
    <3> QED BY <1>1, <1>2, <2>2, <3>7 DEF v, w, A
  <2>4. /\ old = [settings |-> old.settings, observations |-> old.observations,
                  finalized |-> old.finalized]
        /\ new = [settings |-> new.settings, observations |-> new.observations,
                  finalized |-> new.finalized]
    BY DEF SnapshotLedger
  <2> HIDE DEF old, new
  <2> QED BY <1>1, <1>2, <2>1, <2>3, <2>4
<1> QED BY <1>6, <1>7

-----------------------------------------------------------------------------
(* What the outcomes say of the market.                                    *)

Declarations == [chain : Nat, horizon : Nat \ {0}]

\* The greatest high, and the least low, of the k candles after the i-th, where they are
\* met first.
HighIs(e, h, i, k) ==
    /\ e \in [price : Nat, index : Nat] /\ e.index + 1 \in i + 1 .. i + k
    /\ h[e.index + 1].high = e.price
    /\ \A j \in i + 1 .. i + k : h[j].high <= e.price
    /\ \A j \in i + 1 .. e.index : h[j].high < e.price

LowIs(e, h, i, k) ==
    /\ e \in [price : Nat, index : Nat] /\ e.index + 1 \in i + 1 .. i + k
    /\ h[e.index + 1].low = e.price
    /\ \A j \in i + 1 .. i + k : h[j].low >= e.price
    /\ \A j \in i + 1 .. e.index : h[j].low > e.price

ExtremesAre(r, h, i, k) ==
    IF k = 0 THEN r.mfe = None /\ r.mae = None /\ r.evaluatedAt = None
    ELSE /\ HighIs(r.mfe, h, i, k) /\ LowIs(r.mae, h, i, k)
         /\ r.evaluatedAt = h[i + k].openedAt + 1

\* A record in its current version after the history: of the publication at i, k candles on.
Tracks(r, h, c, i, k) ==
    /\ i \in Published(h, c) /\ k \in 0 .. c.horizon /\ i + k <= Len(h)
    /\ r.reference.index = i - 1 /\ r.reference.openedAt = h[i].openedAt
    /\ r.referenceClose = h[i].close
    /\ r.createdAt = h[i].openedAt + 1 /\ r.observed = k
    /\ ExtremesAre(r, h, i, k)
    /\ IF k < c.horizon
       THEN r.status = "OPEN" /\ r.final = None /\ r.finalizedAt = None /\ i + k = Len(h)
       ELSE /\ r.status = ClassifyOutcome(h[i + k].close - h[i].close)
            /\ r.final.price = h[i + k].close /\ r.final.index = i + k - 1
            /\ r.finalizedAt = h[i + k].openedAt + 1

Follows(r, h, c) == \E i, k \in Nat : Tracks(r, h, c, i, k)

\* What the members of a history are.
LEMMA CandleIs ==
    ASSUME NEW h \in Seq(Candles), NEW j \in 1 .. Len(h)
    PROVE  /\ h[j] \in Candles /\ h[j].openedAt \in Nat /\ h[j].low \in Nat /\ h[j].high \in Nat
           /\ h[j].close \in Nat /\ h[j].score \in Nat
<1>1. h[j] \in Candles
  OBVIOUS
<1> DEFINE x == h[j]
<1> HIDE DEF x
<1>2. x \in Candles
  BY <1>1 DEF x
<1>3. /\ x.openedAt \in Nat /\ x.low \in Nat /\ x.high \in Nat /\ x.close \in Nat
      /\ x.score \in Nat
  BY <1>2 DEF Candles
<1> QED BY <1>2, <1>3 DEF x

\* The greatest high, one candle on.
LEMMA HighGoesOn ==
    ASSUME NEW n \in Nat, NEW h \in Seq(Candles), Len(h) = n + 1, NEW g, NEW i \in Nat, NEW k \in Nat,
           i + k = n, \A j \in 1 .. n : g[j] = h[j], i > 0, NEW e,
           IF k = 0 THEN e = None ELSE HighIs(e, g, i, k)
    PROVE  HighIs(ImprovedHigh(e, h[n + 1].high, n), h, i, k + 1)
<1> DEFINE x == h[n + 1].high
           new == [price |-> x, index |-> n]
           high == [j \in 1 .. n + 1 |-> h[j].high]
<1>1. n + 1 \in 1 .. Len(h)
  OBVIOUS
<1>2. x \in Nat
  BY <1>1, CandleIs
<1>3. \A j \in 1 .. n + 1 : high[j] = h[j].high /\ high[j] \in Nat
  BY CandleIs
<1>4. \A j \in 1 .. n : g[j].high = high[j]
  BY <1>3
<1>5. high[n + 1] = x
  BY <1>1, <1>3
<1> HIDE DEF x, high
<1>6. new \in [price : Nat, index : Nat] /\ new.price = x /\ new.index = n
  BY <1>2
<1>7. CASE k = 0
  <2>1. ImprovedHigh(e, x, n) = new
    BY <1>7 DEF ImprovedHigh
  <2>2. i = n /\ n + 1 \in 1 .. n + 1
    BY <1>7
  <2>3. \A j \in i + 1 .. i + (k + 1) : j = n + 1
    BY <1>7, <2>2
  <2> HIDE DEF new
  <2>4. HighIs(new, h, i, k + 1)
    <3>1. new.index + 1 = n + 1 /\ n + 1 \in i + 1 .. i + (k + 1)
      BY <1>6, <2>2
    <3>2. h[n + 1].high = x
      BY DEF x
    <3>3. \A j \in i + 1 .. i + (k + 1) : h[j].high <= new.price
      BY <1>2, <1>6, <2>3, <3>2
    <3>4. \A j \in i + 1 .. new.index : FALSE
      BY <1>6, <2>2
    <3> QED BY <1>6, <3>1, <3>2, <3>3, <3>4 DEF HighIs
  <2> QED BY <2>1, <2>4 DEF x
<1>8. CASE k # 0
  <2>1. HighIs(e, g, i, k)
    BY <1>8
  <2>2. /\ e \in [price : Nat, index : Nat] /\ e.index + 1 \in i + 1 .. i + k
        /\ e.price \in Nat /\ e.index \in Nat
    BY <2>1 DEF HighIs
  <2>3. e # None
    BY <2>2, FilesAssumption
  <2>4. /\ high[e.index + 1] = e.price
        /\ \A j \in i + 1 .. i + k : high[j] <= e.price
        /\ \A j \in i + 1 .. e.index : high[j] < e.price
    <3>1. e.index + 1 \in 1 .. n
      BY <2>2
    <3>2. high[e.index + 1] = e.price
      BY <1>4, <2>1, <3>1 DEF HighIs
    <3>3. ASSUME NEW j \in i + 1 .. i + k PROVE high[j] <= e.price
      BY <1>4, <2>1 DEF HighIs
    <3>4. ASSUME NEW j \in i + 1 .. e.index PROVE high[j] < e.price
      <4>1. j \in 1 .. n
        BY <2>2
      <4> QED BY <1>4, <2>1, <4>1 DEF HighIs
    <3> QED BY <3>2, <3>3, <3>4
  <2>5. CASE x > e.price
    <3>1. ImprovedHigh(e, x, n) = new
      BY <2>5 DEF ImprovedHigh
    <3>2. new.index + 1 \in i + 1 .. i + (k + 1)
      BY <1>6
    <3>3. h[new.index + 1].high = new.price
      BY <1>6 DEF x
    <3>4. ASSUME NEW j \in i + 1 .. i + k PROVE high[j] < x
      <4>1. high[j] <= e.price /\ high[j] \in Nat
        <5>1. j \in 1 .. n + 1
          OBVIOUS
        <5> QED BY <1>3, <2>4, <5>1
      <4> QED BY <1>2, <2>2, <2>5, <4>1
    <3>5. ASSUME NEW j \in i + 1 .. i + (k + 1) PROVE h[j].high <= x
      <4>1. j \in 1 .. n + 1
        OBVIOUS
      <4>2. CASE j \in i + 1 .. i + k
        BY <1>2, <1>3, <3>4, <4>1, <4>2
      <4>3. CASE j = n + 1
        BY <1>2, <1>3, <1>5, <4>1, <4>3
      <4> QED BY <4>2, <4>3
    <3>6. ASSUME NEW j \in i + 1 .. n PROVE h[j].high < x
      <4>1. j \in 1 .. n + 1 /\ j \in i + 1 .. i + k
        OBVIOUS
      <4> QED BY <1>3, <3>4, <4>1
    <3> HIDE DEF new
    <3>7. HighIs(new, h, i, k + 1)
      BY <1>6, <3>2, <3>3, <3>5, <3>6 DEF HighIs
    <3> QED BY <3>1, <3>7 DEF x
  <2>6. CASE ~ (x > e.price)
    <3>1. ImprovedHigh(e, x, n) = e
      BY <2>3, <2>6 DEF ImprovedHigh
    <3>2. e.index + 1 \in i + 1 .. i + (k + 1)
      BY <2>2
    <3>3. h[e.index + 1].high = e.price
      <4>1. e.index + 1 \in 1 .. n + 1
        BY <2>2
      <4> QED BY <1>3, <2>4, <4>1
    <3>4. ASSUME NEW j \in i + 1 .. i + (k + 1) PROVE h[j].high <= e.price
      <4>1. j \in 1 .. n + 1
        OBVIOUS
      <4>2. CASE j \in i + 1 .. i + k
        BY <1>3, <2>4, <4>1, <4>2
      <4>3. CASE j = n + 1
        BY <1>2, <1>3, <1>5, <2>2, <2>6, <4>1, <4>3
      <4> QED BY <4>2, <4>3
    <3>5. ASSUME NEW j \in i + 1 .. e.index PROVE h[j].high < e.price
      <4>1. j \in 1 .. n + 1
        BY <2>2
      <4> QED BY <1>3, <2>4, <4>1
    <3>6. HighIs(e, h, i, k + 1)
      BY <2>2, <3>2, <3>3, <3>4, <3>5 DEF HighIs
    <3> QED BY <3>1, <3>6 DEF x
  <2> QED BY <2>5, <2>6
<1> QED BY <1>7, <1>8

\* The least low, one candle on.
LEMMA LowGoesOn ==
    ASSUME NEW n \in Nat, NEW h \in Seq(Candles), Len(h) = n + 1, NEW g, NEW i \in Nat, NEW k \in Nat,
           i + k = n, \A j \in 1 .. n : g[j] = h[j], i > 0, NEW e,
           IF k = 0 THEN e = None ELSE LowIs(e, g, i, k)
    PROVE  LowIs(ImprovedLow(e, h[n + 1].low, n), h, i, k + 1)
<1> DEFINE x == h[n + 1].low
           new == [price |-> x, index |-> n]
           low == [j \in 1 .. n + 1 |-> h[j].low]
<1>1. n + 1 \in 1 .. Len(h)
  OBVIOUS
<1>2. x \in Nat
  BY <1>1, CandleIs
<1>3. \A j \in 1 .. n + 1 : low[j] = h[j].low /\ low[j] \in Nat
  BY CandleIs
<1>4. \A j \in 1 .. n : g[j].low = low[j]
  BY <1>3
<1>5. low[n + 1] = x
  BY <1>1, <1>3
<1> HIDE DEF x, low
<1>6. new \in [price : Nat, index : Nat] /\ new.price = x /\ new.index = n
  BY <1>2
<1>7. CASE k = 0
  <2>1. ImprovedLow(e, x, n) = new
    BY <1>7 DEF ImprovedLow
  <2>2. i = n /\ n + 1 \in 1 .. n + 1
    BY <1>7
  <2>3. \A j \in i + 1 .. i + (k + 1) : j = n + 1
    BY <1>7, <2>2
  <2> HIDE DEF new
  <2>4. LowIs(new, h, i, k + 1)
    <3>1. new.index + 1 = n + 1 /\ n + 1 \in i + 1 .. i + (k + 1)
      BY <1>6, <2>2
    <3>2. h[n + 1].low = x
      BY DEF x
    <3>3. \A j \in i + 1 .. i + (k + 1) : h[j].low >= new.price
      BY <1>2, <1>6, <2>3, <3>2
    <3>4. \A j \in i + 1 .. new.index : FALSE
      BY <1>6, <2>2
    <3> QED BY <1>6, <3>1, <3>2, <3>3, <3>4 DEF LowIs
  <2> QED BY <2>1, <2>4 DEF x
<1>8. CASE k # 0
  <2>1. LowIs(e, g, i, k)
    BY <1>8
  <2>2. /\ e \in [price : Nat, index : Nat] /\ e.index + 1 \in i + 1 .. i + k
        /\ e.price \in Nat /\ e.index \in Nat
    BY <2>1 DEF LowIs
  <2>3. e # None
    BY <2>2, FilesAssumption
  <2>4. /\ low[e.index + 1] = e.price
        /\ \A j \in i + 1 .. i + k : low[j] >= e.price
        /\ \A j \in i + 1 .. e.index : low[j] > e.price
    <3>1. e.index + 1 \in 1 .. n
      BY <2>2
    <3>2. low[e.index + 1] = e.price
      BY <1>4, <2>1, <3>1 DEF LowIs
    <3>3. ASSUME NEW j \in i + 1 .. i + k PROVE low[j] >= e.price
      BY <1>4, <2>1 DEF LowIs
    <3>4. ASSUME NEW j \in i + 1 .. e.index PROVE low[j] > e.price
      <4>1. j \in 1 .. n
        BY <2>2
      <4> QED BY <1>4, <2>1, <4>1 DEF LowIs
    <3> QED BY <3>2, <3>3, <3>4
  <2>5. CASE x < e.price
    <3>1. ImprovedLow(e, x, n) = new
      BY <2>5 DEF ImprovedLow
    <3>2. new.index + 1 \in i + 1 .. i + (k + 1)
      BY <1>6
    <3>3. h[new.index + 1].low = new.price
      BY <1>6 DEF x
    <3>4. ASSUME NEW j \in i + 1 .. i + k PROVE low[j] > x
      <4>1. low[j] >= e.price /\ low[j] \in Nat
        <5>1. j \in 1 .. n + 1
          OBVIOUS
        <5> QED BY <1>3, <2>4, <5>1
      <4> QED BY <1>2, <2>2, <2>5, <4>1
    <3>5. ASSUME NEW j \in i + 1 .. i + (k + 1) PROVE h[j].low >= x
      <4>1. j \in 1 .. n + 1
        OBVIOUS
      <4>2. CASE j \in i + 1 .. i + k
        BY <1>2, <1>3, <3>4, <4>1, <4>2
      <4>3. CASE j = n + 1
        BY <1>2, <1>3, <1>5, <4>1, <4>3
      <4> QED BY <4>2, <4>3
    <3>6. ASSUME NEW j \in i + 1 .. n PROVE h[j].low > x
      <4>1. j \in 1 .. n + 1 /\ j \in i + 1 .. i + k
        OBVIOUS
      <4> QED BY <1>3, <3>4, <4>1
    <3> HIDE DEF new
    <3>7. LowIs(new, h, i, k + 1)
      BY <1>6, <3>2, <3>3, <3>5, <3>6 DEF LowIs
    <3> QED BY <3>1, <3>7 DEF x
  <2>6. CASE ~ (x < e.price)
    <3>1. ImprovedLow(e, x, n) = e
      BY <2>3, <2>6 DEF ImprovedLow
    <3>2. e.index + 1 \in i + 1 .. i + (k + 1)
      BY <2>2
    <3>3. h[e.index + 1].low = e.price
      <4>1. e.index + 1 \in 1 .. n + 1
        BY <2>2
      <4> QED BY <1>3, <2>4, <4>1
    <3>4. ASSUME NEW j \in i + 1 .. i + (k + 1) PROVE h[j].low >= e.price
      <4>1. j \in 1 .. n + 1
        OBVIOUS
      <4>2. CASE j \in i + 1 .. i + k
        BY <1>3, <2>4, <4>1, <4>2
      <4>3. CASE j = n + 1
        BY <1>2, <1>3, <1>5, <2>2, <2>6, <4>1, <4>3
      <4> QED BY <4>2, <4>3
    <3>5. ASSUME NEW j \in i + 1 .. e.index PROVE h[j].low > e.price
      <4>1. j \in 1 .. n + 1
        BY <2>2
      <4> QED BY <1>3, <2>4, <4>1
    <3>6. LowIs(e, h, i, k + 1)
      BY <2>2, <3>2, <3>3, <3>4, <3>5 DEF LowIs
    <3> QED BY <3>1, <3>6 DEF x
  <2> QED BY <2>5, <2>6
<1> QED BY <1>7, <1>8

\* What a frame shows of its last candle.
LEMMA FrameShows ==
    ASSUME NEW chain, NEW n \in Nat, NEW h \in Seq(Candles), Len(h) = n + 1
    PROVE  LET seen == CurrentObservation(Frame(h, chain))
           IN  /\ seen.index = n /\ seen.candle = h[n + 1] /\ seen.availableAt = h[n + 1].openedAt + 1
               /\ IsBuy(Frame(h, chain)) <=> h[n + 1].score >= chain
<1> DEFINE f == Frame(h, chain)
           x == h[n + 1]
<1>1. f.prefix = h /\ f.chain = chain
  BY DEF Frame
<1> HIDE DEF f
<1> DEFINE m == Len(f.prefix)
           seen == CurrentObservation(f)
<1>2. m = n + 1
  BY <1>1
<1> HIDE DEF m
<1>3. seen = [index |-> m - 1, candle |-> f.prefix[m], availableAt |-> f.prefix[m].openedAt + 1]
  BY DEF CurrentObservation, m
<1>4. f.prefix[m] = x
  BY <1>1, <1>2
<1> HIDE DEF x
<1>5. seen.index = m - 1 /\ seen.candle = x /\ seen.availableAt = x.openedAt + 1
  BY <1>3, <1>4
<1>6. seen.index = n
  BY <1>2, <1>5
<1>7. IsBuy(f) <=> x.score >= chain
  BY <1>1, <1>5 DEF IsBuy
<1> QED BY <1>5, <1>6, <1>7 DEF f, x

\* The extremes are those of the candles they were taken of.
LEMMA ExtremesStay ==
    ASSUME NEW r, NEW g, NEW h, NEW i \in Nat, NEW k \in Nat, i > 0,
           \A j \in 1 .. i + k : g[j] = h[j], ExtremesAre(r, g, i, k)
    PROVE  ExtremesAre(r, h, i, k)
<1>1. CASE k = 0
  BY <1>1 DEF ExtremesAre
<1>2. CASE k # 0
  <2>1. HighIs(r.mfe, g, i, k) /\ LowIs(r.mae, g, i, k) /\ r.evaluatedAt = g[i + k].openedAt + 1
    BY <1>2 DEF ExtremesAre
  <2> DEFINE a == r.mfe
             b == r.mae
  <2> HIDE DEF a, b
  <2>2. /\ a \in [price : Nat, index : Nat] /\ a.index + 1 \in i + 1 .. i + k /\ a.index \in Nat
        /\ b \in [price : Nat, index : Nat] /\ b.index + 1 \in i + 1 .. i + k /\ b.index \in Nat
    BY <2>1 DEF HighIs, LowIs, a, b
  <2>3. /\ \A j \in i + 1 .. i + k : g[j] = h[j]
        /\ \A j \in i + 1 .. a.index : g[j] = h[j]
        /\ \A j \in i + 1 .. b.index : g[j] = h[j]
        /\ g[i + k] = h[i + k] /\ g[a.index + 1] = h[a.index + 1] /\ g[b.index + 1] = h[b.index + 1]
    <3>1. \A j \in i + 1 .. i + k : j \in 1 .. i + k
      OBVIOUS
    <3>2. \A j \in i + 1 .. a.index : j \in 1 .. i + k
      BY <2>2
    <3>3. \A j \in i + 1 .. b.index : j \in 1 .. i + k
      BY <2>2
    <3>4. i + k \in 1 .. i + k /\ a.index + 1 \in 1 .. i + k /\ b.index + 1 \in 1 .. i + k
      BY <2>2
    <3> QED BY <3>1, <3>2, <3>3, <3>4
  <2>4. HighIs(a, h, i, k)
    <3>1. HighIs(a, g, i, k)
      BY <2>1 DEF a
    <3> QED BY <2>3, <3>1 DEF HighIs
  <2>5. LowIs(b, h, i, k)
    <3>1. LowIs(b, g, i, k)
      BY <2>1 DEF b
    <3> QED BY <2>3, <3>1 DEF LowIs
  <2>6. r.evaluatedAt = h[i + k].openedAt + 1
    BY <2>1, <2>3
  <2> QED BY <1>2, <2>4, <2>5, <2>6 DEF ExtremesAre, a, b
<1> QED BY <1>1, <1>2

\* A decided outcome stays what it is.
LEMMA DecidedStays ==
    ASSUME NEW c \in Declarations, NEW n \in Nat, NEW h \in Seq(Candles), Len(h) = n + 1,
           NEW r, IsFinal(r), NEW i \in Nat, NEW k \in Nat, Tracks(r, SubSeq(h, 1, n), c, i, k)
    PROVE  Tracks(r, h, c, i, k)
<1> DEFINE g == SubSeq(h, 1, n)
<1>1. g \in Seq(Candles) /\ Len(g) = n /\ \A j \in 1 .. n : g[j] = h[j]
  OBVIOUS
<1> HIDE DEF g
<1>2. Tracks(r, g, c, i, k)
  BY DEF g
<1>3. /\ i \in Published(g, c) /\ k \in 0 .. c.horizon /\ i + k <= n /\ ~ (k < c.horizon)
  BY <1>1, <1>2 DEF Tracks, IsFinal, IsOpen
<1>4. i \in 1 .. n /\ g[i].score >= c.chain
  <2>1. DOMAIN g = 1 .. n
    BY <1>1
  <2> QED BY <1>3, <2>1 DEF Published
<1>5. g[i] = h[i] /\ g[i + k] = h[i + k] /\ i + k \in 1 .. n
  <2>1. i + k \in 1 .. n
    BY <1>3, <1>4
  <2> QED BY <1>1, <1>4, <2>1
<1>6. i \in Published(h, c)
  <2>1. i \in DOMAIN h
    BY <1>4
  <2> QED BY <1>4, <1>5, <2>1 DEF Published
<1>7. ExtremesAre(r, h, i, k)
  <2>1. \A j \in 1 .. i + k : g[j] = h[j]
    <3>1. \A j \in 1 .. i + k : j \in 1 .. n
      BY <1>5
    <3> QED BY <1>1, <3>1
  <2>2. ExtremesAre(r, g, i, k) /\ i > 0
    BY <1>2, <1>4 DEF Tracks
  <2> QED BY <2>1, <2>2, ExtremesStay
<1>8. i + k <= Len(h)
  BY <1>5
<1> QED BY <1>2, <1>3, <1>5, <1>6, <1>7, <1>8 DEF Tracks

\* An open outcome takes in the next candle.
LEMMA OpenGoesOn ==
    ASSUME NEW c \in Declarations, NEW n \in Nat, NEW h \in Seq(Candles), Len(h) = n + 1,
           NEW r, IsOpen(r), r.settings = SettingsOf(c), NEW i \in Nat, NEW k \in Nat,
           Tracks(r, SubSeq(h, 1, n), c, i, k)
    PROVE  Tracks(AdvanceOutcome(r, Frame(h, c.chain)), h, c, i, k + 1)
<1> DEFINE g == SubSeq(h, 1, n)
           frame == Frame(h, c.chain)
           v == AdvanceOutcome(r, frame)
           x == h[n + 1]
           done == k + 1 = c.horizon
<1>1. g \in Seq(Candles) /\ Len(g) = n /\ \A j \in 1 .. n : g[j] = h[j]
  OBVIOUS
<1> HIDE DEF g
<1>2. Tracks(r, g, c, i, k)
  BY DEF g
<1>3. c.horizon \in Nat /\ c.horizon > 0 /\ r.settings.horizon = c.horizon
  BY DEF Declarations, SettingsOf
<1>4. k < c.horizon /\ i + k = n /\ i \in Published(g, c) /\ r.observed = k
  <2>1. k < c.horizon
    <3> SUFFICES ASSUME ~ (k < c.horizon) PROVE FALSE
      OBVIOUS
    <3>1. r.status = ClassifyOutcome(g[i + k].close - g[i].close) /\ r.status = "OPEN"
      BY <1>2 DEF Tracks, IsOpen
    <3> DEFINE d == g[i + k].close - g[i].close
    <3> HIDE DEF d
    <3>2. ClassifyOutcome(d) # "OPEN"
      BY DEF ClassifyOutcome
    <3> QED BY <3>1, <3>2 DEF d
  <2> QED BY <1>1, <1>2, <2>1 DEF Tracks
<1>5. i \in 1 .. n /\ g[i].score >= c.chain /\ i > 0 /\ g[i] = h[i]
  <2>1. DOMAIN g = 1 .. n
    BY <1>1
  <2>2. i \in 1 .. n /\ g[i].score >= c.chain
    BY <1>4, <2>1 DEF Published
  <2> QED BY <1>1, <2>2
<1>6. i \in Published(h, c)
  <2>1. i \in DOMAIN h
    BY <1>5
  <2> QED BY <1>5, <2>1 DEF Published
<1> DEFINE seen == CurrentObservation(frame)
<1>7. seen.index = n /\ seen.candle = x /\ seen.availableAt = x.openedAt + 1
  <2> DEFINE chain == c.chain
  <2> HIDE DEF chain
  <2>1. LET s == CurrentObservation(Frame(h, chain))
        IN  s.index = n /\ s.candle = h[n + 1] /\ s.availableAt = h[n + 1].openedAt + 1
    BY FrameShows
  <2> QED BY <2>1 DEF chain
<1> HIDE DEF seen, frame, x
<1>8. /\ v.status = IF done THEN ClassifyOutcome(x.close - r.referenceClose) ELSE "OPEN"
      /\ v.reference = r.reference /\ v.referenceClose = r.referenceClose /\ v.observed = k + 1
      /\ v.mfe = ImprovedHigh(r.mfe, x.high, n) /\ v.mae = ImprovedLow(r.mae, x.low, n)
      /\ v.final = IF done THEN [price |-> x.close, index |-> n] ELSE None
      /\ v.createdAt = r.createdAt /\ v.evaluatedAt = x.openedAt + 1
      /\ v.finalizedAt = IF done THEN x.openedAt + 1 ELSE None
  <2>1. v = NextVersion(r, frame, done)
    BY <1>3, <1>4 DEF AdvanceOutcome
  <2> HIDE DEF done, v
  <2>2. NextVersion(r, frame, done)
           = [settings |-> r.settings,
              status |-> IF done THEN ClassifyOutcome(x.close - r.referenceClose) ELSE "OPEN",
              id |-> r.id, signal |-> r.signal, reference |-> r.reference,
              referenceClose |-> r.referenceClose, observed |-> r.observed + 1,
              mfe |-> ImprovedHigh(r.mfe, x.high, n), mae |-> ImprovedLow(r.mae, x.low, n),
              final |-> IF done THEN [price |-> x.close, index |-> n] ELSE None,
              createdAt |-> r.createdAt, evaluatedAt |-> x.openedAt + 1,
              finalizedAt |-> IF done THEN x.openedAt + 1 ELSE None, evidence |-> frame]
    BY <1>7 DEF NextVersion, seen
  <2> DEFINE s == IF done THEN ClassifyOutcome(x.close - r.referenceClose) ELSE "OPEN"
             f == IF done THEN [price |-> x.close, index |-> n] ELSE None
             a == ImprovedHigh(r.mfe, x.high, n)
             b == ImprovedLow(r.mae, x.low, n)
             o == IF done THEN x.openedAt + 1 ELSE None
             e == x.openedAt + 1
             q == r.observed + 1
  <2>3. q = k + 1
    BY <1>4
  <2>4. v = [settings |-> r.settings, status |-> s, id |-> r.id, signal |-> r.signal,
             reference |-> r.reference, referenceClose |-> r.referenceClose, observed |-> q,
             mfe |-> a, mae |-> b, final |-> f, createdAt |-> r.createdAt, evaluatedAt |-> e,
             finalizedAt |-> o, evidence |-> frame]
    BY <2>1, <2>2
  <2> HIDE DEF s, f, a, b, o, e, q
  <2>5. /\ v.status = s /\ v.reference = r.reference /\ v.referenceClose = r.referenceClose
        /\ v.observed = q /\ v.mfe = a /\ v.mae = b /\ v.final = f /\ v.createdAt = r.createdAt
        /\ v.evaluatedAt = e /\ v.finalizedAt = o
    BY <2>4
  <2> QED BY <2>3, <2>5 DEF s, f, a, b, o, e, q
<1> HIDE DEF v
<1>9. ExtremesAre(v, h, i, k + 1)
  <2>1. ExtremesAre(r, g, i, k)
    BY <1>2 DEF Tracks
  <2>2. IF k = 0 THEN r.mfe = None /\ r.mae = None
        ELSE HighIs(r.mfe, g, i, k) /\ LowIs(r.mae, g, i, k)
    BY <2>1 DEF ExtremesAre
  <2>3. HighIs(v.mfe, h, i, k + 1)
    <3>1. IF k = 0 THEN r.mfe = None ELSE HighIs(r.mfe, g, i, k)
      BY <2>2
    <3>2. i + k = n /\ i > 0 /\ \A j \in 1 .. n : g[j] = h[j]
      BY <1>1, <1>4, <1>5
    <3>3. HighIs(ImprovedHigh(r.mfe, h[n + 1].high, n), h, i, k + 1)
      BY <3>1, <3>2, HighGoesOn
    <3> QED BY <1>8, <3>3 DEF x
  <2>4. LowIs(v.mae, h, i, k + 1)
    <3>1. IF k = 0 THEN r.mae = None ELSE LowIs(r.mae, g, i, k)
      BY <2>2
    <3>2. i + k = n /\ i > 0 /\ \A j \in 1 .. n : g[j] = h[j]
      BY <1>1, <1>4, <1>5
    <3>3. LowIs(ImprovedLow(r.mae, h[n + 1].low, n), h, i, k + 1)
      BY <3>1, <3>2, LowGoesOn
    <3> QED BY <1>8, <3>3 DEF x
  <2>5. k + 1 # 0 /\ i + (k + 1) = n + 1
    BY <1>4
  <2>6. v.evaluatedAt = h[i + (k + 1)].openedAt + 1
    BY <1>8, <2>5 DEF x
  <2> QED BY <2>3, <2>4, <2>5, <2>6 DEF ExtremesAre
<1>10. /\ v.reference.index = i - 1 /\ v.reference.openedAt = h[i].openedAt
       /\ v.referenceClose = h[i].close
       /\ v.createdAt = h[i].openedAt + 1 /\ v.observed = k + 1
  BY <1>2, <1>5, <1>8 DEF Tracks
<1>11. i + (k + 1) = Len(h) /\ k + 1 \in 0 .. c.horizon /\ h[i + (k + 1)] = x
  <2>1. i + (k + 1) = n + 1
    BY <1>4
  <2> QED BY <1>3, <1>4, <2>1 DEF x
<1>12. CASE k + 1 < c.horizon
  <2>1. ~done
    BY <1>3, <1>12
  <2>2. v.status = "OPEN" /\ v.final = None /\ v.finalizedAt = None
    BY <1>8, <2>1
  <2> HIDE DEF done
  <2> DEFINE m == k + 1
  <2>3. /\ m \in 0 .. c.horizon /\ i + m = Len(h) /\ i + m <= Len(h) /\ v.observed = m
        /\ ExtremesAre(v, h, i, m) /\ m < c.horizon
    BY <1>9, <1>10, <1>11, <1>12
  <2> HIDE DEF m
  <2>4. Tracks(v, h, c, i, m)
    BY <1>6, <1>10, <2>2, <2>3 DEF Tracks
  <2> QED BY <2>4 DEF m, v, frame
<1>13. CASE ~ (k + 1 < c.horizon)
  <2>1. done
    BY <1>3, <1>4, <1>13
  <2>2. /\ v.status = ClassifyOutcome(x.close - r.referenceClose)
        /\ v.final = [price |-> x.close, index |-> n] /\ v.finalizedAt = x.openedAt + 1
    BY <1>8, <2>1
  <2>3. v.final.price = x.close /\ v.final.index = n /\ n = i + (k + 1) - 1
    BY <1>4, <2>2
  <2>4. r.referenceClose = h[i].close
    BY <1>8, <1>10
  <2> HIDE DEF done
  <2> DEFINE m == k + 1
  <2>5. /\ m \in 0 .. c.horizon /\ i + m <= Len(h) /\ v.observed = m
        /\ ExtremesAre(v, h, i, m) /\ ~ (m < c.horizon) /\ h[i + m] = x /\ n = i + m - 1
    BY <1>4, <1>9, <1>10, <1>11, <1>13
  <2> HIDE DEF m
  <2>6. /\ v.status = ClassifyOutcome(h[i + m].close - h[i].close)
        /\ v.final.price = h[i + m].close /\ v.final.index = i + m - 1
        /\ v.finalizedAt = h[i + m].openedAt + 1
    BY <2>2, <2>3, <2>4, <2>5
  <2>7. Tracks(v, h, c, i, m)
    BY <1>6, <1>10, <2>5, <2>6 DEF Tracks
  <2> QED BY <2>7 DEF m, v, frame
<1> QED BY <1>12, <1>13

\* A publication is opened.
LEMMA PublicationOpens ==
    ASSUME NEW c \in Declarations, NEW n \in Nat, NEW h \in Seq(Candles), Len(h) = n + 1,
           IsBuy(Frame(h, c.chain))
    PROVE  Tracks(OpenOutcome(Frame(h, c.chain), SettingsOf(c)), h, c, n + 1, 0)
<1> DEFINE frame == Frame(h, c.chain)
           settings == SettingsOf(c)
           v == OpenOutcome(frame, settings)
           x == h[n + 1]
           seen == CurrentObservation(frame)
<1>1. /\ seen.index = n /\ seen.candle = x /\ seen.availableAt = x.openedAt + 1
      /\ x.score >= c.chain
  <2> DEFINE chain == c.chain
  <2> HIDE DEF chain
  <2>1. LET s == CurrentObservation(Frame(h, chain))
        IN  /\ s.index = n /\ s.candle = h[n + 1] /\ s.availableAt = h[n + 1].openedAt + 1
            /\ IsBuy(Frame(h, chain)) <=> h[n + 1].score >= chain
    BY FrameShows
  <2> QED BY <2>1 DEF chain
<1>2. n + 1 \in Published(h, c)
  <2>1. n + 1 \in DOMAIN h
    OBVIOUS
  <2> QED BY <1>1, <2>1 DEF Published
<1> HIDE DEF seen, frame, x, settings
<1>3. /\ v.status = "OPEN" /\ v.reference.index = n /\ v.reference.openedAt = x.openedAt
      /\ v.referenceClose = x.close
      /\ v.observed = 0 /\ v.mfe = None /\ v.mae = None /\ v.final = None
      /\ v.createdAt = x.openedAt + 1 /\ v.evaluatedAt = None /\ v.finalizedAt = None
  BY <1>1 DEF OpenOutcome, seen
<1> HIDE DEF v
<1>4. ExtremesAre(v, h, n + 1, 0)
  BY <1>3 DEF ExtremesAre
<1>5. c.horizon \in Nat /\ 0 < c.horizon /\ 0 \in 0 .. c.horizon
  BY DEF Declarations
<1>6. /\ v.reference.index = n + 1 - 1 /\ v.reference.openedAt = h[n + 1].openedAt
      /\ v.referenceClose = h[n + 1].close /\ v.createdAt = h[n + 1].openedAt + 1
  BY <1>3 DEF x
<1> DEFINE i == n + 1
           k == 0
<1>7. i + k = Len(h) /\ i + k <= Len(h)
  OBVIOUS
<1>8. Tracks(v, h, c, i, k)
  <2>1. /\ i \in Published(h, c) /\ k \in 0 .. c.horizon /\ v.reference.index = i - 1
        /\ v.reference.openedAt = h[i].openedAt /\ v.referenceClose = h[i].close
        /\ v.createdAt = h[i].openedAt + 1 /\ v.observed = k
        /\ ExtremesAre(v, h, i, k) /\ k < c.horizon
    BY <1>2, <1>3, <1>4, <1>5, <1>6
  <2> HIDE DEF i, k
  <2> QED BY <1>3, <1>7, <2>1 DEF Tracks
<1> QED BY <1>8 DEF v, frame, settings

\* Every record follows its publication through the history, and every publication has one.
TellsTheMarket(l, h, c) ==
    LET records == l.tracker.records
        observations == l.observer.observations
    IN  /\ \A k \in 1 .. Len(records) :
              /\ Follows(records[k], h, c) /\ records[k].signal = records[k].id.signal
              /\ observations[k].signal = observations[k].id.signal
              /\ observations[k].reference = records[k].reference
        /\ \A i \in Published(h, c) :
              \E k \in 1 .. Len(records) : records[k].reference.index + 1 = i

\* What a version takes over from the one before.
LEMMA VersionsKeep ==
    ASSUME NEW r, NEW frame
    PROVE  LET v == AdvanceOutcome(r, frame)
           IN  v.signal = r.signal /\ v.id = r.id /\ v.reference = r.reference
BY DEF AdvanceOutcome, NextVersion

\* One candle more.
LEMMA TheMarketGoesOn ==
    ASSUME NEW c \in Declarations, NEW n \in Nat, NEW h \in Seq(Candles), Len(h) = n + 1,
           NEW l, Shape(l, SubSeq(h, 1, n), c), TellsTheMarket(l, SubSeq(h, 1, n), c)
    PROVE  TellsTheMarket(UpdateLifecycle(l, Frame(h, c.chain)), h, c)
<1> DEFINE g == SubSeq(h, 1, n)
           frame == Frame(h, c.chain)
           settings == SettingsOf(c)
           u == UpdateLifecycle(l, frame)
           before == l.tracker.records
           after == u.tracker.records
           seen == u.observer.observations
           old == l.observer.observations
           m == Len(before)
           new == OpenOutcome(frame, settings)
<1>1. Updated(l, u, frame, settings)
  BY UpdateKeepsTheShape
<1>2. g \in Seq(Candles) /\ Len(g) = n /\ \A j \in 1 .. n : g[j] = h[j]
  OBVIOUS
<1>3. m \in Nat /\ \A k \in 1 .. m : before[k].settings = settings
  BY ShapeHasSequences DEF Shape, Pairs
<1>4. \A k \in 1 .. m :
          /\ Follows(before[k], g, c) /\ before[k].signal = before[k].id.signal
          /\ old[k].signal = old[k].id.signal
          /\ old[k].reference = before[k].reference
  BY DEF TellsTheMarket
<1>5. \A i \in Published(g, c) : \E k \in 1 .. m : before[k].reference.index + 1 = i
  BY DEF TellsTheMarket
<1> HIDE DEF u, g, frame
<1>6. \A k \in 1 .. m :
          /\ IsFinal(before[k]) => after[k] = before[k]
          /\ IsOpen(before[k]) => after[k] = AdvanceOutcome(before[k], frame)
          /\ seen[k] = old[k]
  BY <1>1 DEF Updated
<1>7. IF IsBuy(frame) THEN Len(after) = m + 1 /\ after[m + 1] = new /\ seen[m + 1] = new
      ELSE Len(after) = m
  BY <1>1 DEF Updated
<1>8. ASSUME NEW k \in 1 .. m
      PROVE  /\ Follows(after[k], h, c) /\ after[k].signal = after[k].id.signal
             /\ seen[k].signal = seen[k].id.signal
             /\ seen[k].reference = after[k].reference
             /\ after[k].reference = before[k].reference
  <2> DEFINE r == before[k]
             v == AdvanceOutcome(r, frame)
  <2>1. Follows(r, g, c) /\ r.settings = settings /\ r.signal = r.id.signal
    BY <1>3, <1>4
  <2>2. PICK i \in Nat, j \in Nat : Tracks(r, g, c, i, j)
    BY <2>1 DEF Follows
  <2> HIDE DEF r
  <2>3. CASE IsFinal(r)
    <3>1. Tracks(r, h, c, i, j)
      BY <2>2, <2>3, DecidedStays DEF g
    <3>2. Follows(r, h, c)
      BY <3>1 DEF Follows
    <3> QED BY <1>4, <1>6, <2>3, <3>2 DEF r
  <2>4. CASE IsOpen(r)
    <3>1. Tracks(v, h, c, i, j + 1)
      BY <2>1, <2>2, <2>4, OpenGoesOn DEF g, frame
    <3>2. Follows(v, h, c)
      <4>1. j + 1 \in Nat
        OBVIOUS
      <4> HIDE DEF v
      <4> QED BY <3>1, <4>1 DEF Follows
    <3>3. v.signal = r.signal /\ v.id = r.id /\ v.reference = r.reference
      BY VersionsKeep
    <3>4. after[k] = v
      BY <1>6, <2>4 DEF r
    <3> QED BY <1>4, <1>6, <2>1, <3>2, <3>3, <3>4 DEF r
  <2> QED BY <2>3, <2>4 DEF IsFinal
<1>9. IsBuy(frame) => /\ Follows(new, h, c) /\ new.signal = new.id.signal /\ new.reference.index = n
  <2> SUFFICES ASSUME IsBuy(frame)
               PROVE  Follows(new, h, c) /\ new.signal = new.id.signal /\ new.reference.index = n
    OBVIOUS
  <2>1. Tracks(new, h, c, n + 1, 0)
    BY PublicationOpens DEF frame
  <2>2. new.signal = new.id.signal
    BY DEF OpenOutcome, OutcomeIdentity
  <2> HIDE DEF new
  <2>3. new.reference.index = n + 1 - 1
    BY <2>1 DEF Tracks
  <2>4. Follows(new, h, c)
    <3>1. n + 1 \in Nat /\ 0 \in Nat
      OBVIOUS
    <3> QED BY <2>1, <3>1 DEF Follows
  <2> QED BY <2>2, <2>3, <2>4
<1>10. ASSUME NEW i \in Published(h, c)
       PROVE  \E k \in 1 .. Len(after) : after[k].reference.index + 1 = i
  <2>1. i \in 1 .. n + 1 /\ h[i].score >= c.chain
    <3>1. DOMAIN h = 1 .. n + 1
      OBVIOUS
    <3> QED BY <3>1 DEF Published
  <2>2. CASE i = n + 1
    <3>1. IsBuy(frame)
      <4> DEFINE chain == c.chain
      <4> HIDE DEF chain
      <4>1. IsBuy(Frame(h, chain)) <=> h[n + 1].score >= chain
        BY FrameShows
      <4> QED BY <2>1, <2>2, <4>1 DEF chain, frame
    <3>2. m + 1 \in 1 .. Len(after) /\ after[m + 1] = new
      BY <1>3, <1>7, <3>1
    <3>3. after[m + 1].reference.index + 1 = i
      BY <1>9, <2>2, <3>1, <3>2
    <3> QED BY <3>2, <3>3
  <2>3. CASE i \in 1 .. n
    <3>1. i \in Published(g, c)
      <4>1. DOMAIN g = 1 .. n
        BY <1>2
      <4> QED BY <1>2, <2>1, <2>3, <4>1 DEF Published
    <3>2. PICK k \in 1 .. m : before[k].reference.index + 1 = i
      BY <1>5, <3>1
    <3>3. k \in 1 .. Len(after)
      BY <1>3, <1>7
    <3> QED BY <1>8, <3>2, <3>3
  <2> QED BY <2>1, <2>2, <2>3
<1>11. ASSUME NEW k \in 1 .. Len(after)
       PROVE  /\ Follows(after[k], h, c) /\ after[k].signal = after[k].id.signal
              /\ seen[k].signal = seen[k].id.signal
              /\ seen[k].reference = after[k].reference
  <2>1. CASE k \in 1 .. m
    BY <1>8, <2>1
  <2>2. CASE k \notin 1 .. m
    <3>1. IsBuy(frame)
      BY <1>7, <2>2
    <3>2. Len(after) = m + 1 /\ after[m + 1] = new /\ seen[m + 1] = new
      BY <1>7, <3>1
    <3> DEFINE last == Len(after)
    <3>3. k \in 1 .. last /\ last = m + 1
      BY <1>11, <3>2
    <3> HIDE DEF last
    <3>4. k = m + 1
      BY <1>3, <2>2, <3>3
    <3> HIDE DEF new, after, seen
    <3> QED BY <1>9, <3>1, <3>2, <3>4
  <2> QED BY <2>1, <2>2
<1> QED BY <1>10, <1>11 DEF TellsTheMarket, u, frame

\* Every history is told as it was.
LEMMA TheMarketIsTold ==
    ASSUME NEW c \in Declarations
    PROVE  \A h \in Seq(Candles) : TellsTheMarket(After(h, c), h, c)
<1> DEFINE S == {n \in Nat : \A h \in Seq(Candles) : Len(h) = n => TellsTheMarket(After(h, c), h, c)}
<1>1. 0 \in S
  <2> SUFFICES ASSUME NEW h \in Seq(Candles), Len(h) = 0 PROVE TellsTheMarket(After(h, c), h, c)
    OBVIOUS
  <2> DEFINE l == NewLifecycle(SettingsOf(c))
  <2>1. After(h, c) = l
    BY NoCandle
  <2>2. Len(l.tracker.records) = 0
    BY DEF NewLifecycle, NewTracker
  <2> HIDE DEF l
  <2>3. Published(h, c) = {}
    BY DEF Published
  <2> QED BY <2>1, <2>2, <2>3 DEF TellsTheMarket
<1>2. ASSUME NEW n \in Nat, n \in S PROVE n + 1 \in S
  <2> SUFFICES ASSUME NEW h \in Seq(Candles), Len(h) = n + 1
               PROVE  TellsTheMarket(After(h, c), h, c)
    OBVIOUS
  <2> DEFINE g == SubSeq(h, 1, n)
  <2>1. g \in Seq(Candles) /\ Len(g) = n
    OBVIOUS
  <2>2. Shape(After(g, c), g, c) /\ TellsTheMarket(After(g, c), g, c)
    <3> HIDE DEF g
    <3> QED BY <1>2, <2>1, EveryHistoryHasTheShape
  <2>3. After(h, c) = UpdateLifecycle(After(g, c), Frame(h, c.chain))
    BY OneMoreCandle
  <2>4. TellsTheMarket(UpdateLifecycle(After(g, c), Frame(h, c.chain)), h, c)
    BY <2>2, TheMarketGoesOn
  <2> QED BY <2>3, <2>4
<1> HIDE DEF S
<1>3. \A n \in Nat : n \in S
  BY <1>1, <1>2, Induction
<1>4. \A h \in Seq(Candles) : Len(h) \in Nat
  OBVIOUS
<1> QED BY <1>3, <1>4 DEF S

\* The candles of a history open one after the other.
GoesForward(h) == \A i, j \in 1 .. Len(h) : i < j => h[i].openedAt < h[j].openedAt

\* The evaluator accepts no candle that does not open after the last.
LEMMA AcceptedGoesForward ==
    ASSUME NEW tracker, NEW chain \in Nat, NEW n \in Nat, NEW g \in Seq(Candles),
           NEW h \in Seq(Candles), Len(g) = n, Len(h) = n + 1, IsPrefix(g, h), GoesForward(g),
           n > 0 => tracker.latest = Frame(g, chain), TrackerAccepts(tracker, Frame(h, chain))
    PROVE  GoesForward(h)
<1>1. \A j \in 1 .. n : g[j] = h[j]
  BY PrefixIs
<1>2. \A i \in 1 .. n + 1 : h[i].openedAt \in Nat
  BY CandleIs
<1>3. ASSUME n > 0 PROVE h[n].openedAt < h[n + 1].openedAt
  <2> DEFINE f == Frame(h, chain)
             e == Frame(g, chain)
             m == n - 1
  <2>1. e # None /\ tracker.latest = e
    <3>1. e \in [prefix : Seq(Candles), chain : Nat]
      BY DEF Frame
    <3> QED BY <1>3, <3>1, FilesAssumption
  <2>2. CurrentObservation(f).candle = h[n + 1]
    BY FrameShows
  <2>3. CurrentObservation(e).candle = g[n]
    <3>1. m \in Nat /\ Len(g) = m + 1 /\ m + 1 = n
      BY <1>3
    <3> HIDE DEF m, e
    <3>2. CurrentObservation(Frame(g, chain)).candle = g[m + 1]
      BY <3>1, FrameShows
    <3> QED BY <3>1, <3>2 DEF e
  <2> HIDE DEF f, e
  <2>4. CurrentObservation(f).candle.openedAt > CurrentObservation(tracker.latest).candle.openedAt
    BY <2>1 DEF TrackerAccepts, f
  <2>5. n \in 1 .. n /\ n \in 1 .. n + 1 /\ n + 1 \in 1 .. n + 1
    BY <1>3
  <2>6. g[n] = h[n]
    BY <1>1, <2>5
  <2>7. h[n + 1].openedAt > h[n].openedAt
    BY <2>1, <2>2, <2>3, <2>4, <2>6
  <2> QED BY <1>2, <2>5, <2>7
<1>4. ASSUME NEW i \in 1 .. n + 1, NEW j \in 1 .. n + 1, i < j
      PROVE  h[i].openedAt < h[j].openedAt
  <2>1. CASE j \in 1 .. n
    <3>1. i \in 1 .. n
      BY <1>4, <2>1
    <3> QED BY <1>1, <1>4, <2>1, <3>1 DEF GoesForward
  <2>2. CASE j = n + 1
    <3>1. i \in 1 .. n /\ n > 0 /\ n \in 1 .. n
      BY <1>4, <2>2
    <3>2. i = n \/ h[i].openedAt < h[n].openedAt
      BY <1>1, <3>1 DEF GoesForward
    <3>3. h[n].openedAt < h[n + 1].openedAt
      BY <1>3, <3>1
    <3> DEFINE x == h[i].openedAt
               y == h[n].openedAt
               z == h[n + 1].openedAt
    <3>4. x \in Nat /\ y \in Nat /\ z \in Nat
      BY <1>2, <3>1
    <3> HIDE DEF x, y, z
    <3>5. (i = n => x = y) /\ (i = n \/ x < y) /\ y < z
      BY <3>2, <3>3 DEF x, y, z
    <3>6. x < z
      BY <3>4, <3>5
    <3> QED BY <2>2, <3>6 DEF x, z
  <2> QED BY <2>1, <2>2
<1> QED BY <1>4 DEF GoesForward

\* A class is never that of an open outcome.
LEMMA DecidedIsNotOpen == \A d : ClassifyOutcome(d) # "OPEN"
BY DEF ClassifyOutcome

\* A record that follows the market satisfies its constructor.
LEMMA FollowersAreValid ==
    ASSUME NEW c \in Declarations, NEW h \in Seq(Candles), GoesForward(h),
           NEW r, r.settings = SettingsOf(c), Follows(r, h, c)
    PROVE  OutcomeIsValid(r)
<1>1. PICK i \in Nat, k \in Nat : Tracks(r, h, c, i, k)
  BY DEF Follows
<1>2. c.horizon \in Nat /\ c.horizon > 0 /\ r.settings.horizon = c.horizon
  BY DEF Declarations, SettingsOf
<1>3. /\ i \in 1 .. Len(h) /\ k \in 0 .. c.horizon /\ i + k \in 1 .. Len(h)
      /\ r.reference.index = i - 1 /\ r.referenceClose = h[i].close
      /\ r.createdAt = h[i].openedAt + 1 /\ r.observed = k /\ ExtremesAre(r, h, i, k)
  <2>1. /\ i \in Published(h, c) /\ k \in 0 .. c.horizon /\ i + k <= Len(h)
        /\ r.reference.index = i - 1 /\ r.referenceClose = h[i].close
        /\ r.createdAt = h[i].openedAt + 1 /\ r.observed = k /\ ExtremesAre(r, h, i, k)
    BY <1>1 DEF Tracks
  <2>2. i \in 1 .. Len(h) /\ Len(h) \in Nat
    BY <2>1 DEF Published
  <2> QED BY <2>1, <2>2
<1>4. h[i].openedAt \in Nat /\ h[i + k].openedAt \in Nat
  BY <1>3, CandleIs
<1>5. k > 0 => h[i].openedAt < h[i + k].openedAt
  <2>1. k > 0 => i < i + k
    OBVIOUS
  <2> QED BY <1>3, <2>1 DEF GoesForward
<1> DEFINE x == h[i].openedAt
           y == h[i + k].openedAt
<1>6. x + 1 \in Nat /\ y + 1 \in Nat /\ x + 1 # None /\ y + 1 # None
  <2>1. x + 1 \in Nat /\ y + 1 \in Nat
    BY <1>4
  <2> QED BY <2>1, FilesAssumption
<1>7. k = 0 => r.mfe = None /\ r.mae = None /\ r.evaluatedAt = None
  BY <1>3 DEF ExtremesAre
<1>8. k # 0 => HighIs(r.mfe, h, i, k) /\ LowIs(r.mae, h, i, k) /\ r.evaluatedAt = y + 1
  BY <1>3 DEF ExtremesAre
<1>9. k # 0 => r.mfe # None /\ r.evaluatedAt # None /\ r.evaluatedAt >= r.createdAt
  <2> SUFFICES ASSUME k # 0 PROVE r.mfe # None /\ r.evaluatedAt # None /\ r.evaluatedAt >= r.createdAt
    OBVIOUS
  <2>1. r.mfe \in [price : Nat, index : Nat] /\ r.evaluatedAt = y + 1 /\ r.createdAt = x + 1
    BY <1>3, <1>8 DEF HighIs
  <2>2. x < y /\ x \in Nat /\ y \in Nat
    BY <1>4, <1>5
  <2> HIDE DEF x, y
  <2>3. y + 1 >= x + 1
    BY <2>2
  <2> QED BY <1>6, <2>1, <2>3, FilesAssumption
<1>10. \A extreme \in {r.mfe, r.mae} \ {None} :
          extreme.index \in r.reference.index + 1 .. r.reference.index + r.observed
  <2>1. CASE k = 0
    BY <1>7, <2>1
  <2>2. CASE k # 0
    <3>1. r.mfe.index \in Nat /\ r.mfe.index + 1 \in i + 1 .. i + k
      BY <1>8, <2>2 DEF HighIs
    <3>2. r.mae.index \in Nat /\ r.mae.index + 1 \in i + 1 .. i + k
      BY <1>8, <2>2 DEF LowIs
    <3> DEFINE e == r.reference.index
    <3>3. e = i - 1 /\ r.observed = k
      BY <1>3
    <3> HIDE DEF e
    <3>4. \A z \in Nat : z + 1 \in i + 1 .. i + k => z \in e + 1 .. e + k
      BY <3>3
    <3> QED BY <3>1, <3>2, <3>3, <3>4 DEF e
  <2> QED BY <2>1, <2>2
<1>11. CASE k < c.horizon
  <2>1. r.status = "OPEN" /\ r.final = None /\ r.finalizedAt = None
    BY <1>1, <1>11 DEF Tracks
  <2>2. /\ r.observed <= r.settings.horizon /\ r.observed < r.settings.horizon
        /\ (r.observed = 0) = (r.mfe = None) /\ (r.observed = 0) = (r.evaluatedAt = None)
        /\ r.evaluatedAt # None => r.evaluatedAt >= r.createdAt
    BY <1>2, <1>3, <1>7, <1>9, <1>11
  <2> QED BY <1>10, <2>1, <2>2 DEF OutcomeIsValid
<1>12. CASE ~ (k < c.horizon)
  <2>1. k = c.horizon /\ k # 0
    BY <1>2, <1>3, <1>12
  <2> DEFINE d == h[i + k].close - h[i].close
  <2>2. /\ r.status = ClassifyOutcome(d) /\ r.final.price = h[i + k].close
        /\ r.final.index = i + k - 1 /\ r.finalizedAt = y + 1
    BY <1>1, <1>12 DEF Tracks
  <2>3. r.status = ClassifyOutcome(r.final.price - r.referenceClose)
    BY <1>3, <2>2
  <2>4. r.status # "OPEN"
    BY <2>2, DecidedIsNotOpen
  <2> HIDE DEF d, y
  <2>5. r.observed = r.settings.horizon /\ r.observed <= r.settings.horizon
    BY <1>2, <1>3, <2>1
  <2>6. r.final.index = r.reference.index + r.observed
    <3>1. i + k - 1 = (i - 1) + k
      BY <1>3
    <3> QED BY <1>3, <2>2, <3>1
  <2>7. /\ (r.observed = 0) = (r.mfe = None) /\ (r.observed = 0) = (r.evaluatedAt = None)
        /\ r.evaluatedAt >= r.createdAt
    BY <1>3, <1>9, <2>1
  <2>8. r.finalizedAt # None /\ r.evaluatedAt # None /\ r.finalizedAt >= r.evaluatedAt
    <3>1. r.finalizedAt = y + 1 /\ r.evaluatedAt = y + 1 /\ y + 1 \in Nat /\ y + 1 # None
      BY <1>6, <1>8, <2>1, <2>2
    <3> QED BY <3>1
  <2> QED BY <1>10, <2>3, <2>4, <2>5, <2>6, <2>7, <2>8 DEF OutcomeIsValid
<1> QED BY <1>11, <1>12

\* A final says what its history shows of it.
LEMMA FinalsSay ==
    ASSUME NEW c \in Declarations, NEW h \in Seq(Candles), NEW r, IsFinal(r), Follows(r, h, c)
    PROVE  SaysOf(r, h, c) /\ r.reference.index + 1 \in Decided(h, c)
<1>1. PICK i \in Nat, k \in Nat : Tracks(r, h, c, i, k)
  BY DEF Follows
<1>2. c.horizon \in Nat /\ c.horizon > 0
  BY DEF Declarations
<1>3. /\ i \in Published(h, c) /\ k \in 0 .. c.horizon /\ i + k <= Len(h)
      /\ r.reference.index = i - 1 /\ ExtremesAre(r, h, i, k)
      /\ r.status # "OPEN"
  BY <1>1 DEF Tracks, IsFinal, IsOpen
<1>4. ~ (k < c.horizon)
  BY <1>1, <1>3 DEF Tracks
<1>5. k = c.horizon /\ k # 0
  BY <1>2, <1>3, <1>4
<1>6. i \in 1 .. Len(h) /\ i + k \in 1 .. Len(h) /\ i \in Decided(h, c)
  <2>1. i \in 1 .. Len(h) /\ Len(h) \in Nat
    BY <1>3 DEF Published
  <2>2. i \in Decided(h, c)
    BY <1>3, <1>5 DEF Decided
  <2> QED BY <1>3, <2>1, <2>2
<1> DEFINE e == r.reference.index + 1
           d == h[i + k].close - h[i].close
<1>7. e = i
  BY <1>3
<1> HIDE DEF e
<1>8. r.status = ClassifyOutcome(d)
  BY <1>1, <1>4 DEF Tracks
<1>9. r.status = IF d > 0 THEN "WIN" ELSE IF d < 0 THEN "LOSS" ELSE "FLAT"
  <2> HIDE DEF d
  <2> QED BY <1>8 DEF ClassifyOutcome
<1>10. HighIs(r.mfe, h, i, k) /\ LowIs(r.mae, h, i, k)
  BY <1>3, <1>5 DEF ExtremesAre
<1>11. \A candle \in Window(h, i, c) : candle.high <= r.mfe.price /\ candle.low >= r.mae.price
  <2>1. Window(h, i, c) = {h[j] : j \in i + 1 .. i + k}
    BY <1>5 DEF Window
  <2>2. \A j \in i + 1 .. i + k : h[j].high <= r.mfe.price /\ h[j].low >= r.mae.price
    BY <1>10 DEF HighIs, LowIs
  <2> QED BY <2>1, <2>2
<1>12. /\ h[r.mfe.index + 1].high = r.mfe.price /\ h[r.mae.index + 1].low = r.mae.price
       /\ \A j \in i + 1 .. r.mfe.index : h[j].high < r.mfe.price
       /\ \A j \in i + 1 .. r.mae.index : h[j].low > r.mae.price
  BY <1>10 DEF HighIs, LowIs
<1>13. d = h[i + c.horizon].close - h[i].close
  BY <1>5
<1> HIDE DEF d
<1>14. SaysOf(r, h, c)
  <2>1. r.reference.index + 1 = i
    BY <1>7 DEF e
  <2>2. r.status = IF h[i + c.horizon].close - h[i].close > 0 THEN "WIN"
                   ELSE IF h[i + c.horizon].close - h[i].close < 0 THEN "LOSS" ELSE "FLAT"
    BY <1>9, <1>13
  <2> QED BY <1>6, <1>11, <1>12, <2>1, <2>2 DEF SaysOf
<1> QED BY <1>6, <1>7, <1>14 DEF e

\* p has members of s at these indices, each at most once.
TakesOnce(p, s, indices) ==
    \A a, b \in DOMAIN p :
        \E i, j \in indices :
            /\ p[a] = s[i] /\ p[b] = s[j]
            /\ i = j => a = b

\* No member is picked twice.
LEMMA PickedOnce ==
    ASSUME NEW s, NEW n \in Nat, NEW indices \in SUBSET (1 .. n)
    PROVE  TakesOnce(Picked(s, indices), s, indices)
<1> SUFFICES ASSUME NEW a \in DOMAIN Picked(s, indices), NEW b \in DOMAIN Picked(s, indices)
             PROVE  \E i, j \in indices :
                        /\ Picked(s, indices)[a] = s[i] /\ Picked(s, indices)[b] = s[j]
                        /\ i = j => a = b
  BY DEF TakesOnce
<1> DEFINE order == Ascending(indices)
           m == Cardinality(indices)
<1>1. IsFiniteSet(indices) /\ m \in Nat /\ indices \in SUBSET Nat
  BY IndexSet
<1>2. /\ order \in [1 .. m -> indices]
      /\ \A x, y \in 1 .. m : x < y => order[x] < order[y]
  BY <1>1, AscendingLists
<1>3. Picked(s, indices) = [k \in 1 .. m |-> s[order[k]]]
  <2>1. DOMAIN order = 1 .. m
    BY <1>2
  <2> HIDE DEF m
  <2> QED BY <2>1 DEF Picked
<1>4. a \in 1 .. m /\ b \in 1 .. m
  <2> HIDE DEF m, order
  <2> QED BY <1>3
<1> HIDE DEF order, m
<1>5. /\ Picked(s, indices)[a] = s[order[a]] /\ Picked(s, indices)[b] = s[order[b]]
      /\ order[a] \in indices /\ order[b] \in indices
  BY <1>2, <1>3, <1>4
<1>6. order[a] = order[b] => a = b
  <2>1. a \in Nat /\ b \in Nat /\ order[a] \in Nat /\ order[b] \in Nat
    <3>1. a \in Nat /\ b \in Nat
      BY <1>4
    <3>2. \A x \in indices : x \in Nat
      BY <1>1
    <3> QED BY <1>5, <3>1, <3>2
  <2>2. (a < b => order[a] < order[b]) /\ (b < a => order[b] < order[a])
    BY <1>2, <1>4
  <2> DEFINE u == order[a]
             v == order[b]
  <2> HIDE DEF u, v
  <2>3. u \in Nat /\ v \in Nat /\ (a < b => u < v) /\ (b < a => v < u)
    BY <2>1, <2>2 DEF u, v
  <2>4. u = v => a = b
    BY <2>1, <2>3
  <2> QED BY <2>4 DEF u, v
<1> QED BY <1>5, <1>6

\* The members of a sequence.
LEMMA MembersAre ==
    ASSUME NEW s, IsASequence(s)
    PROVE  DOMAIN s = 1 .. Len(s) /\ ToSet(s) = {s[k] : k \in 1 .. Len(s)} /\ Len(s) \in Nat
<1> DEFINE S == ToSet(s)
<1>1. s \in Seq(S)
  BY DEF IsASequence
<1> HIDE DEF S
<1>2. DOMAIN s = 1 .. Len(s) /\ Len(s) \in Nat
  BY <1>1
<1> QED BY <1>2 DEF ToSet

\* What the ledger of a history says of it.
LEMMA TheLedgerTells ==
    ASSUME NEW c \in Declarations, NEW h \in Seq(Candles), GoesForward(h)
    PROVE  LET l == After(h, c)
               ledger == SnapshotLedger(l)
           IN  /\ {o.reference.index + 1 : o \in ToSet(ledger.observations)} = Published(h, c)
               /\ {o.reference.index + 1 : o \in ToSet(ledger.finalized)} = Decided(h, c)
               /\ \A final \in ToSet(ledger.finalized) : SaysOf(final, h, c)
               /\ \A record \in ToSet(l.tracker.records) : OutcomeIsValid(record)
               /\ SnapshotIsValid(ledger)
<1> DEFINE l == After(h, c)
           ledger == SnapshotLedger(l)
           records == l.tracker.records
           seen == l.observer.observations
           settings == SettingsOf(c)
           current == CurrentVersions(l.observer)
           finals == FinalIndices(records)
           m == Len(records)
<1>1. Shape(l, h, c) /\ TellsTheMarket(l, h, c)
  BY EveryHistoryHasTheShape, TheMarketIsTold
<1> HIDE DEF l
<1>2. /\ ledger.settings = settings /\ ledger.observations = seen
      /\ ledger.finalized = Picked(current, finals)
      /\ finals \in SUBSET (1 .. m) /\ m \in Nat /\ ToSet(ledger.finalized) = FinalsOf(records)
  BY <1>1, LedgerIs
<1>3. /\ IsASequence(records) /\ IsASequence(seen) /\ Len(seen) = m
      /\ \A k \in 1 .. m : records[k].settings = settings /\ records[k].id = seen[k].id
      /\ \A i, j \in 1 .. m : records[i].id = records[j].id => i = j
  BY <1>1 DEF Shape, Pairs
<1>4. /\ \A k \in 1 .. m :
            /\ Follows(records[k], h, c) /\ records[k].signal = records[k].id.signal
            /\ seen[k].signal = seen[k].id.signal
            /\ seen[k].reference.index = records[k].reference.index
      /\ \A i \in Published(h, c) : \E k \in 1 .. m : records[k].reference.index + 1 = i
  BY <1>1 DEF TellsTheMarket
<1>5. \A k \in 1 .. m : current[k] = IF IsFinal(records[k]) THEN records[k] ELSE seen[k]
  BY <1>1, CurrentVersionsAre
<1> HIDE DEF ledger, records, seen, settings, current, m
<1>6. /\ ToSet(records) = {records[k] : k \in 1 .. m} /\ ToSet(seen) = {seen[k] : k \in 1 .. m}
      /\ DOMAIN seen = 1 .. m
  BY <1>3, MembersAre DEF m
<1>7. FinalsOf(records) = {records[k] : k \in finals} /\ \A k \in finals : IsFinal(records[k])
  BY DEF FinalsOf, FinalIndices, m
<1>8. \A k \in 1 .. m : records[k].reference.index + 1 \in Published(h, c)
  <2> SUFFICES ASSUME NEW k \in 1 .. m PROVE records[k].reference.index + 1 \in Published(h, c)
    OBVIOUS
  <2>1. PICK i \in Nat, j \in Nat : Tracks(records[k], h, c, i, j)
    BY <1>4 DEF Follows
  <2>2. records[k].reference.index = i - 1 /\ i \in Published(h, c)
    BY <2>1 DEF Tracks
  <2>3. records[k].reference.index + 1 = i
    BY <2>2
  <2> QED BY <2>2, <2>3
<1>9. {o.reference.index + 1 : o \in ToSet(seen)} = Published(h, c)
  <2>1. \A k \in 1 .. m : seen[k].reference.index + 1 = records[k].reference.index + 1
    BY <1>4
  <2> DEFINE P == {o.reference.index + 1 : o \in ToSet(seen)}
  <2>2. ASSUME NEW x \in P PROVE x \in Published(h, c)
    <3>1. PICK k \in 1 .. m : x = seen[k].reference.index + 1
      BY <1>6
    <3> QED BY <1>8, <2>1, <3>1
  <2>3. ASSUME NEW x \in Published(h, c) PROVE x \in P
    <3>1. PICK k \in 1 .. m : records[k].reference.index + 1 = x
      BY <1>4
    <3>2. seen[k] \in ToSet(seen) /\ seen[k].reference.index + 1 = x
      BY <1>6, <2>1, <3>1
    <3> QED BY <3>2
  <2> QED BY <2>2, <2>3
<1>10. \A k \in finals : SaysOf(records[k], h, c) /\ records[k].reference.index + 1 \in Decided(h, c)
  BY <1>2, <1>4, <1>7, FinalsSay
<1>11. ASSUME NEW i \in Decided(h, c) PROVE \E k \in finals : records[k].reference.index + 1 = i
  <2>1. i \in Published(h, c) /\ i + c.horizon <= Len(h)
    BY <1>11 DEF Decided
  <2>2. PICK k \in 1 .. m : records[k].reference.index + 1 = i
    BY <1>4, <2>1
  <2>3. PICK a \in Nat, b \in Nat : Tracks(records[k], h, c, a, b)
    BY <1>4 DEF Follows
  <2>4. records[k].reference.index = a - 1 /\ b \in 0 .. c.horizon
    BY <2>3 DEF Tracks
  <2>5. a = i
    BY <2>2, <2>4
  <2>6. ~ (b < c.horizon)
    <3> SUFFICES ASSUME b < c.horizon PROVE FALSE
      OBVIOUS
    <3>1. a + b = Len(h)
      BY <2>3 DEF Tracks
    <3>2. c.horizon \in Nat
      BY DEF Declarations
    <3> QED BY <2>1, <2>5, <3>1, <3>2
  <2>7. IsFinal(records[k])
    <3> DEFINE d == h[a + b].close - h[a].close
    <3>1. records[k].status = ClassifyOutcome(d)
      BY <2>3, <2>6 DEF Tracks
    <3> HIDE DEF d
    <3> QED BY <3>1, DecidedIsNotOpen DEF IsFinal, IsOpen
  <2>8. k \in finals
    BY <2>7 DEF FinalIndices, m
  <2> QED BY <2>2, <2>8
<1> HIDE DEF finals
<1>12. {o.reference.index + 1 : o \in ToSet(ledger.finalized)} = Decided(h, c)
  <2>1. {o.reference.index + 1 : o \in ToSet(ledger.finalized)}
           = {records[k].reference.index + 1 : k \in finals}
    BY <1>2, <1>7
  <2> QED BY <1>10, <1>11, <2>1
<1>13. \A final \in ToSet(ledger.finalized) : SaysOf(final, h, c)
  BY <1>2, <1>7, <1>10
<1>14. \A k \in 1 .. m : OutcomeIsValid(records[k])
  BY <1>3, <1>4, FollowersAreValid DEF settings
<1>15. SnapshotIsValid(ledger)
  <2>1. ASSUME NEW i \in DOMAIN ledger.observations, NEW j \in DOMAIN ledger.observations,
               ledger.observations[i].id = ledger.observations[j].id
        PROVE  i = j
    BY <1>2, <1>3, <1>6, <2>1
  <2>2. ASSUME NEW a \in DOMAIN ledger.finalized, NEW b \in DOMAIN ledger.finalized,
               ledger.finalized[a].id = ledger.finalized[b].id
        PROVE  a = b
    <3>1. PICK i \in finals, j \in finals :
              /\ ledger.finalized[a] = current[i] /\ ledger.finalized[b] = current[j]
              /\ i = j => a = b
      <4>1. TakesOnce(ledger.finalized, current, finals)
        BY <1>2, PickedOnce
      <4> QED BY <2>2, <4>1 DEF TakesOnce
    <3>2. current[i] = records[i] /\ current[j] = records[j] /\ i \in 1 .. m /\ j \in 1 .. m
      BY <1>2, <1>5, <1>7
    <3> QED BY <1>3, <2>2, <3>1, <3>2
  <2>3. ASSUME NEW final \in ToSet(ledger.finalized)
        PROVE  /\ IsFinal(final) /\ final.settings = ledger.settings /\ OutcomeIsValid(final)
               /\ \E o \in ToSet(ledger.observations) : o.id = final.id /\ o.signal = final.signal
    <3>1. PICK k \in finals : final = records[k]
      BY <1>2, <1>7
    <3>2. k \in 1 .. m /\ IsFinal(records[k])
      BY <1>2, <1>7
    <3>3. seen[k] \in ToSet(ledger.observations)
      BY <1>2, <1>6, <3>2
    <3>4. seen[k].id = records[k].id /\ seen[k].signal = records[k].signal
      BY <1>3, <1>4, <3>2
    <3> QED BY <1>2, <1>3, <1>14, <3>1, <3>2, <3>3, <3>4
  <2> QED BY <2>1, <2>2, <2>3 DEF SnapshotIsValid
<1> QED BY <1>2, <1>6, <1>9, <1>12, <1>13, <1>14, <1>15 DEF l, ledger, records

\* Of a finite set of indices and its complement.
LEMMA TheRest ==
    ASSUME NEW n \in Nat, NEW S \in SUBSET (1 .. n)
    PROVE  /\ IsFiniteSet((1 .. n) \ S) /\ Cardinality((1 .. n) \ S) \in Nat
           /\ Cardinality(S) \in Nat /\ Cardinality((1 .. n) \ S) = n - Cardinality(S)
<1> DEFINE U == 1 .. n
           T == U \ S
<1>1. IsFiniteSet(U) /\ Cardinality(U) = n
  <2>1. U \in SUBSET (1 .. n)
    OBVIOUS
  <2> QED BY <2>1, IndexSet
<1>2. IsFiniteSet(S) /\ IsFiniteSet(T) /\ Cardinality(S) \in Nat /\ Cardinality(T) \in Nat
  <2>1. T \in SUBSET (1 .. n)
    OBVIOUS
  <2> HIDE DEF T
  <2> QED BY <2>1, IndexSet, FS_CardinalityType
<1>3. S \cup T = U /\ S \cap T = {}
  OBVIOUS
<1> HIDE DEF U, T
<1>4. Cardinality(S \cup T) = Cardinality(S) + Cardinality(T) - Cardinality(S \cap T)
  BY <1>2, FS_Union
<1>5. Cardinality({}) = 0
  BY FS_EmptySet
<1>6. Cardinality(T) = n - Cardinality(S)
  <2>1. Cardinality(U) = Cardinality(S) + Cardinality(T) - Cardinality({})
    BY <1>3, <1>4
  <2> DEFINE a == Cardinality(S)
             b == Cardinality(T)
  <2>2. n = a + b - 0 /\ a \in Nat /\ b \in Nat
    BY <1>1, <1>2, <1>5, <2>1
  <2> HIDE DEF a, b
  <2>3. b = n - a
    BY <2>2
  <2> QED BY <2>3 DEF a, b
<1> QED BY <1>2, <1>6 DEF T, U

\* Every final is a win, a loss or flat.
LEMMA ClassesAddUp ==
    ASSUME NEW f, IsASequence(f), \A final \in ToSet(f) : final.status \in {"WIN", "LOSS", "FLAT"}
    PROVE  /\ CountOf("WIN", f) \in Nat /\ CountOf("LOSS", f) \in Nat /\ CountOf("FLAT", f) \in Nat
           /\ CountOf("WIN", f) + CountOf("LOSS", f) + CountOf("FLAT", f) = Len(f)
<1> DEFINE n == Len(f)
           W == {i \in 1 .. n : f[i].status = "WIN"}
           L == {i \in 1 .. n : f[i].status = "LOSS"}
           F == {i \in 1 .. n : f[i].status = "FLAT"}
<1>1. DOMAIN f = 1 .. n /\ n \in Nat /\ \A i \in 1 .. n : f[i].status \in {"WIN", "LOSS", "FLAT"}
  <2>1. DOMAIN f = 1 .. n /\ n \in Nat /\ ToSet(f) = {f[i] : i \in 1 .. n}
    BY MembersAre
  <2> HIDE DEF n
  <2> QED BY <2>1
<1>2. /\ CountOf("WIN", f) = Cardinality(W) /\ CountOf("LOSS", f) = Cardinality(L)
      /\ CountOf("FLAT", f) = Cardinality(F)
  BY <1>1 DEF CountOf
<1>3. /\ W \in SUBSET (1 .. n) /\ L \in SUBSET (1 .. n) /\ F \in SUBSET (1 .. n)
      /\ F = (1 .. n) \ (W \cup L) /\ W \cap L = {} /\ W \cup L \in SUBSET (1 .. n)
  BY <1>1
<1> HIDE DEF n, W, L, F
<1>4. IsFiniteSet(W) /\ IsFiniteSet(L) /\ Cardinality(W) \in Nat /\ Cardinality(L) \in Nat
  BY <1>1, <1>3, IndexSet, FS_CardinalityType
<1>5. Cardinality(W \cup L) = Cardinality(W) + Cardinality(L)
  <2>1. Cardinality(W \cup L) = Cardinality(W) + Cardinality(L) - Cardinality(W \cap L)
    BY <1>4, FS_Union
  <2>2. Cardinality(W \cap L) = 0
    BY <1>3, FS_EmptySet
  <2> QED BY <1>4, <2>1, <2>2
<1> DEFINE V == W \cup L
<1>6. V \in SUBSET (1 .. n)
  BY <1>3
<1> HIDE DEF V
<1>7. Cardinality((1 .. n) \ V) = n - Cardinality(V) /\ Cardinality((1 .. n) \ V) \in Nat
  BY <1>1, <1>6, TheRest
<1>8. Cardinality(F) = n - (Cardinality(W) + Cardinality(L)) /\ Cardinality(F) \in Nat
  BY <1>3, <1>5, <1>7 DEF V
<1> QED BY <1>1, <1>2, <1>4, <1>8 DEF n

\* What is read of the statistics.
LEMMA StatisticsAre ==
    ASSUME NEW f, NEW open
    PROVE  LET s == StrategyStats(f, open)
           IN  /\ s.total = open + Len(f) /\ s.open = open /\ s.finalized = Len(f)
               /\ s.wins = CountOf("WIN", f) /\ s.losses = CountOf("LOSS", f)
               /\ s.flats = CountOf("FLAT", f) /\ s.winRate = Average(CountOf("WIN", f), Len(f))
BY DEF StrategyStats, Aggregate

\* The sum over a report of what each of its months counts.
Sums(f, report, field) ==
    f = [k \in 0 .. Cardinality(DOMAIN report) |->
            IF k = 0 THEN 0 ELSE f[k - 1] + report[Ascending(DOMAIN report)[k]][field]]

\* The indices of a month.
Of(x, month, I) == {i \in I : month[i] = x}

\* Every month of a report counts the indices that are its own.
CountsByMonth(report, field, month, I) ==
    /\ DOMAIN report \in SUBSET Nat /\ IsFiniteSet(DOMAIN report)
    /\ \A i \in I : month[i] \in DOMAIN report
    /\ \A x \in DOMAIN report : report[x][field] = Cardinality(Of(x, month, I))

\* Where every month counts its own of some indices, the sum counts each of them once.
LEMMA MonthsCountOnce ==
    ASSUME NEW report, NEW field, NEW n \in Nat, NEW I \in SUBSET (1 .. n), NEW month,
           CountsByMonth(report, field, month, I)
    PROVE  Accumulated(report, field) = Cardinality(I)
<1> DEFINE D == DOMAIN report
           N == Cardinality(D)
           months == Ascending(D)
           Upto(k) == {i \in I : \E j \in 1 .. k : months[j] = month[i]}
           g == [k \in 0 .. N |-> Cardinality(Upto(k))]
           f == CHOOSE x : Sums(x, report, field)
<1>0. /\ DOMAIN report \in SUBSET Nat /\ IsFiniteSet(DOMAIN report)
      /\ \A i \in I : month[i] \in DOMAIN report
      /\ \A x \in DOMAIN report : report[x][field] = Cardinality(Of(x, month, I))
  BY DEF CountsByMonth
<1>1. /\ months \in [1 .. N -> D] /\ N \in Nat
      /\ \A i, j \in 1 .. N : i < j => months[i] < months[j]
  BY <1>0, AscendingLists
<1>2. Accumulated(report, field) = f[N]
  BY DEF Accumulated, Sums
<1> HIDE DEF months, N, D
<1>3. ASSUME NEW k \in 1 .. N
      PROVE  Cardinality(Upto(k)) = Cardinality(Upto(k - 1)) + report[months[k]][field]
  <2> DEFINE here == {i \in I : month[i] = months[k]}
  <2>1. months[k] \in D
    BY <1>1
  <2>2. report[months[k]][field] = Cardinality(here)
    BY <1>0, <2>1 DEF D, Of
  <2>3. Upto(k) = Upto(k - 1) \cup here
    <3>1. \A j : j \in 1 .. k <=> j \in 1 .. k - 1 \/ j = k
      BY <1>1
    <3> QED BY <3>1
  <2>4. Upto(k - 1) \cap here = {}
    <3> SUFFICES ASSUME NEW i \in I, NEW j \in 1 .. k - 1, months[j] = month[i], month[i] = months[k]
                 PROVE  FALSE
      OBVIOUS
    <3>1. j \in 1 .. N /\ k \in 1 .. N /\ j < k
      BY <1>1
    <3>2. months[j] < months[k] /\ months[j] \in Nat /\ months[k] \in Nat
      <4>1. months[j] < months[k]
        BY <1>1, <3>1
      <4>2. months[j] \in D /\ months[k] \in D
        BY <1>1, <3>1
      <4> QED BY <1>0, <4>1, <4>2 DEF D
    <3>3. months[j] = months[k]
      OBVIOUS
    <3> DEFINE u == months[j]
               v == months[k]
    <3>4. u \in Nat /\ v \in Nat /\ u < v /\ u = v
      BY <3>2, <3>3
    <3> HIDE DEF u, v
    <3> QED BY <3>4
  <2>5. Upto(k - 1) \in SUBSET (1 .. n) /\ here \in SUBSET (1 .. n)
    OBVIOUS
  <2> DEFINE before == Upto(k - 1)
             after == Upto(k)
  <2> HIDE DEF before, after, here
  <2>6. after = before \cup here /\ before \cap here = {}
    BY <2>3, <2>4 DEF before, after
  <2>7. /\ IsFiniteSet(before) /\ IsFiniteSet(here)
        /\ Cardinality(before) \in Nat /\ Cardinality(here) \in Nat
    BY <2>5, IndexSet, FS_CardinalityType DEF before
  <2>8. Cardinality(after) = Cardinality(before) + Cardinality(here) - Cardinality(before \cap here)
    BY <2>6, <2>7, FS_Union
  <2>9. Cardinality(before \cap here) = 0
    BY <2>6, FS_EmptySet
  <2>10. Cardinality(after) = Cardinality(before) + Cardinality(here)
    BY <2>7, <2>8, <2>9
  <2> QED BY <2>2, <2>10 DEF before, after
<1>4. Cardinality(Upto(0)) = 0
  <2>1. Upto(0) = {}
    OBVIOUS
  <2> HIDE DEF Upto
  <2> QED BY <2>1, FS_EmptySet
<1>5. Upto(N) = I
  <2>1. ASSUME NEW i \in I PROVE i \in Upto(N)
    <3>1. month[i] \in D
      BY <1>0 DEF D
    <3>2. \E j \in 1 .. N : months[j] = month[i]
      BY <1>0, <3>1, AllAreListed DEF D, N, months
    <3> QED BY <3>2
  <2> QED BY <2>1
<1> HIDE DEF Upto
<1>6. Sums(g, report, field)
  <2> DEFINE Term(k) == IF k = 0 THEN 0 ELSE g[k - 1] + report[months[k]][field]
  <2>1. ASSUME NEW k \in 0 .. N PROVE g[k] = Term(k)
    <3>1. CASE k = 0
      BY <1>4, <3>1
    <3>2. CASE k # 0
      <4>1. k \in 1 .. N /\ k - 1 \in 0 .. N
        BY <1>1, <3>2
      <4>2. g[k] = Cardinality(Upto(k)) /\ g[k - 1] = Cardinality(Upto(k - 1))
        BY <4>1
      <4> QED BY <1>3, <3>2, <4>1, <4>2
    <3> QED BY <3>1, <3>2
  <2>2. g = [k \in 0 .. N |-> g[k]]
    OBVIOUS
  <2> HIDE DEF g
  <2>3. g = [k \in 0 .. N |-> Term(k)]
    BY <2>1, <2>2
  <2> QED BY <2>3 DEF Sums, months, N, D
<1>7. Sums(f, report, field)
  BY <1>6
<1> HIDE DEF f
<1>8. \A k \in 0 .. N : f[k] = IF k = 0 THEN 0 ELSE f[k - 1] + report[months[k]][field]
  BY <1>7 DEF Sums, months, N, D
<1> DEFINE T == {k \in Nat : k \in 0 .. N => f[k] = Cardinality(Upto(k))}
<1>9. 0 \in T
  BY <1>4, <1>8
<1>10. ASSUME NEW k \in Nat, k \in T PROVE k + 1 \in T
  <2> SUFFICES ASSUME k + 1 \in 0 .. N PROVE f[k + 1] = Cardinality(Upto(k + 1))
    OBVIOUS
  <2>1. k \in 0 .. N /\ k + 1 \in 1 .. N /\ (k + 1) - 1 = k /\ k + 1 # 0
    BY <1>1
  <2>2. f[k + 1] = f[k] + report[months[k + 1]][field] /\ f[k] = Cardinality(Upto(k))
    BY <1>8, <1>10, <2>1
  <2>3. Cardinality(Upto(k + 1)) = Cardinality(Upto(k)) + report[months[k + 1]][field]
    <3>1. Cardinality(Upto(k + 1)) = Cardinality(Upto((k + 1) - 1)) + report[months[k + 1]][field]
      BY <1>3, <2>1
    <3> QED BY <2>1, <3>1
  <2> QED BY <2>2, <2>3
<1> HIDE DEF T
<1>11. N \in T
  BY <1>1, <1>9, <1>10, Induction
<1>12. f[N] = Cardinality(Upto(N))
  BY <1>1, <1>11 DEF T
<1> QED BY <1>2, <1>5, <1>12

\* How many of the members at the indices are in a set.
HowMany(s, indices, Q) == Cardinality({i \in indices : s[i] \in Q})

\* Of what is picked, as many are in a set as of the members at the indices.
LEMMA PickedCounts ==
    ASSUME NEW s, NEW n \in Nat, NEW indices \in SUBSET (1 .. n), NEW Q
    PROVE  LET p == Picked(s, indices)
           IN  /\ HowMany(p, DOMAIN p, Q) = HowMany(s, indices, Q)
               /\ HowMany(p, DOMAIN p, Q) \in Nat
<1> DEFINE order == Ascending(indices)
           m == Cardinality(indices)
           p == Picked(s, indices)
           A == {k \in 1 .. m : s[order[k]] \in Q}
           B == {i \in indices : s[i] \in Q}
           f == [k \in A |-> order[k]]
<1>1. IsFiniteSet(indices) /\ m \in Nat /\ indices \in SUBSET Nat
  BY IndexSet
<1>2. /\ order \in [1 .. m -> indices]
      /\ \A x, y \in 1 .. m : x < y => order[x] < order[y]
  BY <1>1, AscendingLists
<1>3. \A i \in indices : \E k \in 1 .. m : order[k] = i
  BY <1>1, AllAreListed
<1> HIDE DEF order, m
<1>4. p = [k \in 1 .. m |-> s[order[k]]]
  <2>1. DOMAIN order = 1 .. m
    BY <1>2
  <2> QED BY <2>1 DEF Picked, order
<1>5. {k \in DOMAIN p : p[k] \in Q} = A
  BY <1>4
<1>6. f \in [A -> B]
  BY <1>2
<1>7. ASSUME NEW x \in A, NEW y \in A, f[x] = f[y] PROVE x = y
  <2>1. x \in 1 .. m /\ y \in 1 .. m /\ order[x] = order[y]
    BY <1>7
  <2> DEFINE u == order[x]
             v == order[y]
  <2>2. u \in indices /\ v \in indices /\ (x < y => u < v) /\ (y < x => v < u) /\ u = v
    BY <1>2, <2>1
  <2> HIDE DEF u, v
  <2>3. u \in Nat /\ v \in Nat /\ x \in Nat /\ y \in Nat
    BY <1>1, <2>1, <2>2
  <2> QED BY <2>2, <2>3
<1>8. \A i \in B : \E k \in A : f[k] = i
  BY <1>3
<1>9. A \in SUBSET (1 .. m)
  OBVIOUS
<1> HIDE DEF A, B, f
<1>10. f \in Bijection(A, B)
  BY <1>6, <1>7, <1>8 DEF Bijection, Injection, Surjection, IsInjective
<1>11. IsFiniteSet(A) /\ Cardinality(A) \in Nat
  BY <1>1, <1>9, IndexSet, FS_CardinalityType
<1>12. Cardinality(A) = Cardinality(B)
  BY <1>10, <1>11, FS_Bijection DEF ExistsBijection
<1> QED BY <1>5, <1>11, <1>12 DEF HowMany, p, B

\* The fields of a summary count outcomes of these kinds.
Counts(field, outcome) ==
    \/ field = "total"
    \/ field = "open" /\ IsOpen(outcome)
    \/ field = "finalized" /\ IsFinal(outcome)
    \/ field = "wins" /\ outcome.status = "WIN"
    \/ field = "losses" /\ outcome.status = "LOSS"
    \/ field = "flats" /\ outcome.status = "FLAT"

Fields == {"total", "open", "finalized", "wins", "losses", "flats"}

CountedBy(field, s, indices) == Cardinality({i \in indices : Counts(field, s[i])})

\* Of what is picked, as many count as of the members at the indices.
LEMMA PickedCountAs ==
    ASSUME NEW s, NEW n \in Nat, NEW indices \in SUBSET (1 .. n), NEW field
    PROVE  LET p == Picked(s, indices)
           IN  /\ CountedBy(field, p, DOMAIN p) = CountedBy(field, s, indices)
               /\ CountedBy(field, p, DOMAIN p) \in Nat
<1> DEFINE p == Picked(s, indices)
           Q == {v \in {s[i] : i \in indices} : Counts(field, v)}
<1>1. \A k \in DOMAIN p : \E i \in indices : p[k] = s[i]
  BY PickedIs
<1>2. /\ Cardinality({k \in DOMAIN p : p[k] \in Q}) = Cardinality({i \in indices : s[i] \in Q})
      /\ Cardinality({k \in DOMAIN p : p[k] \in Q}) \in Nat
  <2> HIDE DEF Q
  <2>1. HowMany(p, DOMAIN p, Q) = HowMany(s, indices, Q) /\ HowMany(p, DOMAIN p, Q) \in Nat
    BY PickedCounts
  <2> QED BY <2>1 DEF HowMany
<1> HIDE DEF p
<1>3. {k \in DOMAIN p : p[k] \in Q} = {k \in DOMAIN p : Counts(field, p[k])}
  BY <1>1
<1>4. {i \in indices : s[i] \in Q} = {i \in indices : Counts(field, s[i])}
  OBVIOUS
<1> HIDE DEF Q
<1> QED BY <1>2, <1>3, <1>4 DEF CountedBy, p

\* The statistics over the finals of a list, and how many it leaves open, count its members.
LEMMA StatisticsCount ==
    ASSUME NEW q, NEW n \in Nat, DOMAIN q = 1 .. n, NEW field \in Fields
    PROVE  /\ Aggregate(FinalsIn(q), n, n - Len(FinalsIn(q)))[field] = CountedBy(field, q, 1 .. n)
           /\ Len(FinalsIn(q)) \in Nat
<1> DEFINE finals == {i \in 1 .. n : IsFinal(q[i])}
           f == FinalsIn(q)
           u == Aggregate(f, n, n - Len(f))
<1>1. finals \in SUBSET (1 .. n) /\ (1 .. n) \ finals = {i \in 1 .. n : IsOpen(q[i])}
  BY DEF IsFinal
<1>2. f = Picked(q, finals)
  BY DEF FinalsIn
<1>3. Len(f) = Cardinality(finals) /\ Len(f) \in Nat
  <2> HIDE DEF finals, f
  <2>1. finals \in SUBSET (1 .. n)
    BY <1>1
  <2>2. Len(Picked(q, finals)) = Cardinality(finals) /\ Cardinality(finals) \in Nat
    BY <2>1, PickedIs
  <2> QED BY <1>2, <2>2
<1>4. Cardinality((1 .. n) \ finals) = n - Len(f)
  <2> HIDE DEF finals, f
  <2> QED BY <1>1, <1>3, TheRest
<1>5. /\ u.total = n /\ u.open = n - Len(f) /\ u.finalized = Len(f)
      /\ u.wins = CountOf("WIN", f) /\ u.losses = CountOf("LOSS", f)
      /\ u.flats = CountOf("FLAT", f)
  <2> HIDE DEF f
  <2> QED BY DEF Aggregate
<1> HIDE DEF f, u
<1>6. CASE field = "total"
  <2>1. {i \in 1 .. n : Counts(field, q[i])} = 1 .. n
    BY <1>6 DEF Counts
  <2>2. Cardinality(1 .. n) = n
    <3>1. 1 .. n \in SUBSET (1 .. n)
      OBVIOUS
    <3> QED BY <3>1, IndexSet
  <2> QED BY <1>3, <1>5, <1>6, <2>1, <2>2 DEF CountedBy, u, f
<1>7. CASE field = "open"
  <2>1. {i \in 1 .. n : Counts(field, q[i])} = (1 .. n) \ finals
    BY <1>1, <1>7 DEF Counts
  <2> QED BY <1>3, <1>4, <1>5, <1>7, <2>1 DEF CountedBy, u, f
<1>8. CASE field = "finalized"
  <2>1. {i \in 1 .. n : Counts(field, q[i])} = finals
    BY <1>8 DEF Counts
  <2> QED BY <1>3, <1>5, <1>8, <2>1 DEF CountedBy, u, f
<1>9. ASSUME NEW status \in {"WIN", "LOSS", "FLAT"}, NEW kind \in {"wins", "losses", "flats"},
             \A o : Counts(kind, o) <=> o.status = status
      PROVE  CountOf(status, f) = CountedBy(kind, q, 1 .. n)
  <2>1. CountOf(status, f) = CountedBy(kind, f, DOMAIN f)
    BY <1>9 DEF CountOf, CountedBy
  <2>2. CountedBy(kind, f, DOMAIN f) = CountedBy(kind, q, finals)
    <3> HIDE DEF finals
    <3>1. finals \in SUBSET (1 .. n)
      BY <1>1
    <3> DEFINE p == Picked(q, finals)
    <3>2. CountedBy(kind, p, DOMAIN p) = CountedBy(kind, q, finals)
      BY <3>1, PickedCountAs
    <3> QED BY <1>2, <3>2
  <2>3. {i \in finals : Counts(kind, q[i])} = {i \in 1 .. n : Counts(kind, q[i])}
    BY <1>9 DEF IsFinal, IsOpen
  <2> QED BY <2>1, <2>2, <2>3 DEF CountedBy
<1>10. CASE field = "wins"
  <2>1. CountOf("WIN", f) = CountedBy("wins", q, 1 .. n)
    BY <1>9 DEF Counts
  <2> QED BY <1>3, <1>5, <1>10, <2>1 DEF u, f
<1>11. CASE field = "losses"
  <2>1. CountOf("LOSS", f) = CountedBy("losses", q, 1 .. n)
    BY <1>9 DEF Counts
  <2> QED BY <1>3, <1>5, <1>11, <2>1 DEF u, f
<1>12. CASE field = "flats"
  <2>1. CountOf("FLAT", f) = CountedBy("flats", q, 1 .. n)
    BY <1>9 DEF Counts
  <2> QED BY <1>3, <1>5, <1>12, <2>1 DEF u, f
<1> QED BY <1>6, <1>7, <1>8, <1>10, <1>11, <1>12 DEF Fields

\* The summary of a list counts its members.
LEMMA SummaryCounts ==
    ASSUME NEW q, NEW n \in Nat, DOMAIN q = 1 .. n, Len(q) = n, NEW field \in Fields
    PROVE  Summary(q)[field] = CountedBy(field, q, 1 .. n)
<1>1. Summary(q) = Aggregate(FinalsIn(q), n, n - Len(FinalsIn(q)))
  BY DEF Summary
<1> QED BY <1>1, StatisticsCount

\* The months of a report, added up, count every version once.
LEMMA TheMonthsAddUp ==
    ASSUME NEW current, NEW m \in Nat, DOMAIN current = 1 .. m,
           \A k \in 1 .. m : Month(current[k]) \in Nat,
           NEW field \in Fields
    PROVE  Accumulated(MonthlyReport(current), field) = CountedBy(field, current, 1 .. m)
<1> DEFINE report == MonthlyReport(current)
           month == [k \in 1 .. m |-> Month(current[k])]
           I == {i \in 1 .. m : Counts(field, current[i])}
           D == {month[k] : k \in 1 .. m}
<1>1. ToSet(current) = {current[k] : k \in 1 .. m}
  BY DEF ToSet
<1>2. {Month(version) : version \in ToSet(current)} = D
  BY <1>1
<1>3. report = [x \in D |-> Summary(OfMonth(x, current))]
  BY <1>2 DEF MonthlyReport
<1>4. D \in SUBSET Nat /\ IsFiniteSet(D) /\ \A i \in I : month[i] \in D
  <2>1. IsFiniteSet(1 .. m)
    <3>1. 1 .. m \in SUBSET (1 .. m)
      OBVIOUS
    <3> QED BY <3>1, IndexSet
  <2>2. month \in Surjection(1 .. m, D)
    BY DEF Surjection
  <2>3. D \in SUBSET Nat /\ \A i \in I : month[i] \in D
    OBVIOUS
  <2> HIDE DEF D, month, I
  <2> QED BY <2>1, <2>2, <2>3, FS_Surjection
<1>5. ASSUME NEW x \in D PROVE report[x][field] = Cardinality(Of(x, month, I))
  <2> DEFINE J == {i \in 1 .. m : Month(current[i]) = x}
             q == Picked(current, J)
             n == Cardinality(J)
  <2>1. report[x] = Summary(q)
    BY <1>3 DEF OfMonth
  <2>2. J \in SUBSET (1 .. m) /\ Of(x, month, I) = {i \in J : Counts(field, current[i])}
    BY DEF Of
  <2> HIDE DEF J
  <2>3. Len(q) = n /\ n \in Nat /\ DOMAIN q = 1 .. n
    BY <2>2, PickedIs
  <2>4. CountedBy(field, q, DOMAIN q) = CountedBy(field, current, J)
    BY <2>2, PickedCountAs
  <2> HIDE DEF q, n
  <2>5. Summary(q)[field] = CountedBy(field, q, 1 .. n)
    BY <2>3, SummaryCounts
  <2> QED BY <2>1, <2>2, <2>3, <2>4, <2>5 DEF CountedBy
<1>6. DOMAIN report = D /\ I \in SUBSET (1 .. m)
  BY <1>3
<1> HIDE DEF report, month, I, D
<1>7. Accumulated(report, field) = Cardinality(I)
  <2>1. /\ DOMAIN report \in SUBSET Nat /\ IsFiniteSet(DOMAIN report)
        /\ \A i \in I : month[i] \in DOMAIN report
    BY <1>4, <1>6
  <2>2. \A x \in DOMAIN report : report[x][field] = Cardinality(Of(x, month, I))
    BY <1>5, <1>6
  <2>3. CountsByMonth(report, field, month, I)
    BY <2>1, <2>2 DEF CountsByMonth
  <2> QED BY <1>6, <2>3, MonthsCountOnce
<1> QED BY <1>7 DEF report, I, CountedBy

\* So do the statistics over the finals.
LEMMA TotalsCount ==
    ASSUME NEW observer, NEW m \in Nat, DOMAIN CurrentVersions(observer) = 1 .. m,
           NEW field \in Fields
    PROVE  StrategyStats(FinalizedOutcomes(observer), Len(OpenOutcomes(observer)))[field]
              = CountedBy(field, CurrentVersions(observer), 1 .. m)
<1> DEFINE current == CurrentVersions(observer)
           finals == {i \in 1 .. m : IsFinal(current[i])}
           opens == {i \in 1 .. m : IsOpen(current[i])}
           f == FinalsIn(current)
<1>1. FinalizedOutcomes(observer) = f /\ OpenOutcomes(observer) = Picked(current, opens)
  BY DEF FinalizedOutcomes, OpenOutcomes
<1>2. f = Picked(current, finals) /\ finals \in SUBSET (1 .. m) /\ opens = (1 .. m) \ finals
  BY DEF FinalsIn, IsFinal
<1> HIDE DEF current, finals, opens, f
<1>3. Len(f) = Cardinality(finals) /\ Len(f) \in Nat
  BY <1>2, PickedIs
<1>4. Len(Picked(current, opens)) = m - Len(f)
  <2>1. opens \in SUBSET (1 .. m)
    BY <1>2
  <2>2. Len(Picked(current, opens)) = Cardinality(opens)
    BY <2>1, PickedIs
  <2>3. Cardinality((1 .. m) \ finals) = m - Cardinality(finals)
    BY <1>2, TheRest
  <2> QED BY <1>2, <1>3, <2>2, <2>3
<1>5. (m - Len(f)) + Len(f) = m
  BY <1>3
<1>6. StrategyStats(f, m - Len(f)) = Aggregate(f, m, m - Len(f))
  BY <1>5 DEF StrategyStats
<1>7. Aggregate(FinalsIn(current), m, m - Len(FinalsIn(current)))[field]
         = CountedBy(field, current, 1 .. m)
  BY StatisticsCount DEF current
<1> QED BY <1>1, <1>4, <1>6, <1>7 DEF f, current

\* Every version is of a month.
LEMMA VersionsHaveMonths ==
    ASSUME NEW c \in Declarations, NEW h \in Seq(Candles)
    PROVE  LET current == CurrentVersions(After(h, c).observer)
               m == Len(After(h, c).tracker.records)
           IN  /\ DOMAIN current = 1 .. m /\ m \in Nat
               /\ \A k \in 1 .. m : Month(current[k]) \in Nat
<1> DEFINE l == After(h, c)
           records == l.tracker.records
           seen == l.observer.observations
           current == CurrentVersions(l.observer)
           m == Len(records)
<1>1. Shape(l, h, c) /\ TellsTheMarket(l, h, c)
  BY EveryHistoryHasTheShape, TheMarketIsTold
<1> HIDE DEF l
<1>2. /\ DOMAIN current = 1 .. m /\ m \in Nat
      /\ \A k \in 1 .. m : current[k] = records[k] \/ current[k] = seen[k]
  BY <1>1, CurrentVersionsAre, ShapeHasSequences
<1>3. \A k \in 1 .. m : Follows(records[k], h, c) /\ seen[k].reference = records[k].reference
  BY <1>1 DEF TellsTheMarket
<1> HIDE DEF current, records, seen, m
<1>4. ASSUME NEW k \in 1 .. m PROVE Month(current[k]) \in Nat
  <2>1. PICK a \in Nat, b \in Nat : Tracks(records[k], h, c, a, b)
    BY <1>3 DEF Follows
  <2>2. a \in DOMAIN h /\ records[k].reference.openedAt = h[a].openedAt
    BY <2>1 DEF Tracks, Published
  <2> DEFINE d == current[k].reference.openedAt
  <2>3. h[a] \in Candles
    BY <2>2
  <2>4. d \in Nat
    BY <1>2, <1>3, <2>2, <2>3 DEF Candles
  <2> HIDE DEF d
  <2>5. d \div MonthLength \in Nat
    BY <2>4, MonthAssumption
  <2> QED BY <2>5 DEF Month, d
<1> QED BY <1>2, <1>4 DEF current, m, records, l

\* Reports and statistics are computed from what is stored as they are from the observer.
LEMMA TheStoreReports ==
    ASSUME NEW c \in Declarations, NEW h \in Seq(Candles), GoesForward(h)
    PROVE  LET live == After(h, c).observer
               ledger == SnapshotLedger(After(h, c))
               stats == StrategyStats(FinalizedOutcomes(live), Len(OpenOutcomes(live)))
           IN  /\ RestoredReport(ledger) = MonthlyReport(CurrentVersions(live))
               /\ RestoredStats(ledger) = stats
               /\ SummaryIsValid(stats) /\ MonthsSumTo(MonthlyReport(CurrentVersions(live)), stats)
<1> DEFINE l == After(h, c)
           live == l.observer
           ledger == SnapshotLedger(l)
           records == l.tracker.records
           current == CurrentVersions(live)
           finals == FinalIndices(records)
           opens == {i \in DOMAIN current : IsOpen(current[i])}
           f == FinalizedOutcomes(live)
           open == Len(OpenOutcomes(live))
           stats == StrategyStats(f, open)
           m == Len(records)
           n == Cardinality(finals)
<1>1. /\ Shape(l, h, c) /\ \A final \in ToSet(ledger.finalized) : SaysOf(final, h, c)
      /\ \A final \in ToSet(ledger.finalized) : final.status \in {"WIN", "LOSS", "FLAT"}
  <2>1. \A final \in ToSet(ledger.finalized) : SaysOf(final, h, c)
    BY TheLedgerTells
  <2> HIDE DEF ledger
  <2> QED BY <2>1, EveryHistoryHasTheShape DEF SaysOf
<1> HIDE DEF l
<1>2. /\ ledger.settings = live.settings /\ ledger.observations = live.observations
      /\ ledger.finalized = f
  BY DEF SnapshotLedger
<1>3. /\ f = Picked(current, finals) /\ finals \in SUBSET (1 .. m) /\ m \in Nat
      /\ Len(f) = n /\ ToSet(f) = FinalsOf(records)
  BY <1>1, <1>2, LedgerIs
<1>4. /\ live = [settings |-> live.settings, observations |-> live.observations,
                 finals |-> live.finals]
      /\ live.finals = FinalsOf(records) /\ Len(live.observations) = m
  BY <1>1, ShapeHasSequences DEF Shape, Heads
<1>5. DOMAIN current = 1 .. m /\ \A k \in 1 .. m : IsFinal(current[k]) <=> IsFinal(records[k])
  BY <1>1, CurrentVersionsAre
<1>6. Restored(ledger) = live
  <2> HIDE DEF live, ledger, f
  <2> QED BY <1>2, <1>3, <1>4 DEF Restored
<1>7. RestoredReport(ledger) = MonthlyReport(current)
  <2> HIDE DEF live, ledger
  <2> QED BY <1>6 DEF RestoredReport
<1>8. opens = (1 .. m) \ finals
  <2> HIDE DEF current, m
  <2> QED BY <1>5 DEF finals, FinalIndices, IsFinal, m
<1>9. open = Cardinality(opens)
  <2>1. OpenOutcomes(live) = Picked(current, opens)
    BY DEF OpenOutcomes
  <2>2. opens \in SUBSET (1 .. m)
    BY <1>8
  <2> HIDE DEF current, opens, m
  <2> QED BY <1>3, <2>1, <2>2, PickedIs
<1> HIDE DEF current, finals, opens, f, live, ledger, m
<1>10. open = m - n /\ open \in Nat /\ n \in Nat
  <2>1. Cardinality((1 .. m) \ finals) = m - n /\ Cardinality((1 .. m) \ finals) \in Nat /\ n \in Nat
    BY <1>3, TheRest
  <2> QED BY <1>8, <1>9, <2>1
<1>11. RestoredStats(ledger) = stats
  <2>1. Len(ledger.observations) - Len(ledger.finalized) = open
    BY <1>2, <1>3, <1>4, <1>10
  <2> HIDE DEF open
  <2> QED BY <1>2, <2>1 DEF RestoredStats
<1>12. IsASequence(f)
  <2>1. IsASequence(Picked(current, finals))
    <3>1. /\ Len(Picked(current, finals)) = n
          /\ DOMAIN Picked(current, finals) = 1 .. n
      BY <1>3, PickedIs
    <3>2. Picked(current, finals) = [k \in 1 .. n |-> Picked(current, finals)[k]]
      <4> DEFINE order == Ascending(finals)
      <4>1. Picked(current, finals) = [k \in DOMAIN order |-> current[order[k]]]
        BY DEF Picked
      <4> HIDE DEF order, n
      <4> QED BY <3>1, <4>1
    <3> DEFINE p == Picked(current, finals)
    <3> HIDE DEF p, n
    <3>3. p = [k \in 1 .. n |-> p[k]]
      BY <3>2 DEF p
    <3>4. IsASequence(p)
      BY <1>10, <3>3, FunctionIsASequence
    <3> QED BY <3>4 DEF p
  <2> QED BY <1>3, <2>1
<1> DEFINE wins == CountOf("WIN", f)
           losses == CountOf("LOSS", f)
           flats == CountOf("FLAT", f)
<1>13. /\ wins \in Nat /\ losses \in Nat /\ flats \in Nat
       /\ wins + losses + flats = Len(f)
  BY <1>1, <1>2, <1>12, ClassesAddUp
<1>14. /\ stats.total = open + Len(f) /\ stats.open = open /\ stats.finalized = Len(f)
       /\ stats.wins = wins /\ stats.losses = losses /\ stats.flats = flats
       /\ stats.winRate = Average(wins, Len(f))
  BY StatisticsAre
<1> HIDE DEF wins, losses, flats, stats, open, n
<1>15. (Len(f) = 0) = (stats.winRate = None)
  <2>1. <<wins, Len(f)>> \in Nat \X Nat
    BY <1>3, <1>10, <1>13
  <2>2. <<wins, Len(f)>> # None
    BY <2>1, FilesAssumption
  <2> QED BY <1>14, <2>2 DEF Average
<1>16. SummaryIsValid(stats)
  <2>1. stats.wins + stats.losses + stats.flats = stats.finalized
    BY <1>13, <1>14
  <2>2. stats.finalized + stats.open = stats.total
    BY <1>3, <1>10, <1>14
  <2> QED BY <1>14, <1>15, <2>1, <2>2 DEF SummaryIsValid
<1>17. MonthsSumTo(MonthlyReport(current), stats)
  <2>1. ASSUME NEW field \in Fields PROVE Accumulated(MonthlyReport(current), field) = stats[field]
    <3> DEFINE k == Len(records)
    <3>1. /\ DOMAIN current = 1 .. k /\ k \in Nat
          /\ \A i \in 1 .. k : Month(current[i]) \in Nat
      BY VersionsHaveMonths DEF current, live, l
    <3> HIDE DEF k
    <3>2. Accumulated(MonthlyReport(current), field) = CountedBy(field, current, 1 .. k)
      BY <3>1, TheMonthsAddUp
    <3>3. stats[field] = CountedBy(field, current, 1 .. k)
      BY <3>1, TotalsCount DEF current, stats, f, open
    <3> QED BY <3>2, <3>3
  <2> QED BY <2>1 DEF MonthsSumTo, Fields
<1> QED BY <1>7, <1>11, <1>16, <1>17 DEF l, live, ledger, current, stats, f, open

-----------------------------------------------------------------------------
(* The run: its inductive invariant.                                       *)

\* The candles the run's lifecycle was fed.
Told == IF Replayed = 0 THEN <<>> ELSE Fed

Bound == {"bound", "dataset", "loaded", "verified", "replaying", "saving", "open"}
Running == {"replaying", "saving", "open"}

IsRun(r) ==
    r = [phase |-> r.phase, why |-> r.why, binding |-> r.binding, dataset |-> r.dataset,
         configuration |-> r.configuration, stored |-> r.stored, lifecycle |-> r.lifecycle,
         verified |-> r.verified]

FilesInv ==
    /\ files = [path \in Inputs \union {"ledger"} |-> files[path]]
    /\ \A path \in Inputs : Readable(path) => files[path] \in Declarable[path]
    /\ Readable("ledger") => IsASequence(files["ledger"].observations)

\* What the run holds of its inputs: nobody changes it, and it is what the binding pins.
InputsInv ==
    /\ IsRun(run) /\ run.verified \in BOOLEAN
    /\ run.phase \in Bound \union {"idle", "refused"}
    /\ run.phase \in Bound => run.binding \in Bindings
    /\ run.phase \in Bound \ {"bound"} => run.dataset \in Datasets
    /\ run.phase \in Bound \ {"bound", "dataset"} => run.configuration \in Configurations
    /\ run.phase \in Running \union {"verified"} => InputsAreDeclared

\* The lifecycle is the one of the candles told, and these agree with the dataset.
LifecycleInv ==
    run.phase \in Running =>
        /\ Told \in Seq(Candles) /\ run.lifecycle = After(Told, run.configuration)
        /\ GoesForward(Told)
        /\ run.phase = "replaying" => IsPrefix(Told, run.dataset)
        /\ Session => IsPrefix(run.dataset, Told)
        /\ \E history \in Histories : IsPrefix(Told, history)
        /\ run.phase = "saving" => writing = Snapshot

\* What is in the store is what was loaded, and later something the run extends.
StoreInv ==
    /\ run.phase = "replaying" => files["ledger"] \in {run.stored, Unreadable}
    /\ Session /\ Readable("ledger") => Extends(Snapshot, files["ledger"])

\* While nothing is verified, no prefix told so far reproduces the stored ledger.
VerifyInv ==
    /\ run.phase = "replaying" /\ ~run.verified =>
          /\ run.stored # None
          /\ \A n \in 0 .. Replayed :
                ~Recovers(SubSeq(run.dataset, 1, n), run.configuration, run.stored)
    /\ run.phase \in Running /\ run.verified /\ run.stored # None => SomePrefixRecovers
    /\ Session => run.verified
    /\ run.phase # "refused" => run.why = None
    /\ run.why \in {"candidate", "never"} => ~SomePrefixRecovers

DeclaredRunInvariant == FilesInv /\ InputsInv /\ LifecycleInv /\ StoreInv /\ VerifyInv

\* The inputs and the stored ledger of two runs are the same.
SameInputs(r, s) ==
    /\ s.binding = r.binding /\ s.dataset = r.dataset /\ s.configuration = r.configuration
    /\ s.stored = r.stored

\* What the assignments to a run leave.
LEMMA PhaseSet ==
    ASSUME NEW r, IsRun(r), NEW p
    PROVE  LET s == [r EXCEPT !.phase = p]
           IN  /\ IsRun(s) /\ SameInputs(r, s) /\ s.phase = p /\ s.why = r.why
               /\ s.lifecycle = r.lifecycle /\ s.verified = r.verified
BY DEF IsRun, SameInputs

LEMMA LifecycleSet ==
    ASSUME NEW r, IsRun(r), NEW l
    PROVE  LET s == [r EXCEPT !.lifecycle = l]
           IN  /\ IsRun(s) /\ SameInputs(r, s) /\ s.phase = r.phase /\ s.why = r.why
               /\ s.lifecycle = l /\ s.verified = r.verified
BY DEF IsRun, SameInputs

LEMMA VerifiedSet ==
    ASSUME NEW r, IsRun(r), NEW v
    PROVE  LET s == [r EXCEPT !.verified = v]
           IN  /\ IsRun(s) /\ SameInputs(r, s) /\ s.phase = r.phase /\ s.why = r.why
               /\ s.lifecycle = r.lifecycle /\ s.verified = v
BY DEF IsRun, SameInputs

LEMMA WhySet ==
    ASSUME NEW r, IsRun(r), NEW w
    PROVE  LET s == [r EXCEPT !.why = w]
           IN  /\ IsRun(s) /\ SameInputs(r, s) /\ s.phase = r.phase /\ s.why = w
               /\ s.lifecycle = r.lifecycle /\ s.verified = r.verified
BY DEF IsRun, SameInputs

LEMMA BindingSet ==
    ASSUME NEW r, IsRun(r), NEW b
    PROVE  LET s == [r EXCEPT !.binding = b]
           IN  /\ IsRun(s) /\ s.phase = r.phase /\ s.why = r.why /\ s.verified = r.verified
               /\ s.binding = b /\ s.dataset = r.dataset /\ s.configuration = r.configuration
               /\ s.stored = r.stored /\ s.lifecycle = r.lifecycle
BY DEF IsRun

LEMMA DatasetSet ==
    ASSUME NEW r, IsRun(r), NEW d
    PROVE  LET s == [r EXCEPT !.dataset = d]
           IN  /\ IsRun(s) /\ s.phase = r.phase /\ s.why = r.why /\ s.verified = r.verified
               /\ s.binding = r.binding /\ s.dataset = d /\ s.configuration = r.configuration
               /\ s.stored = r.stored /\ s.lifecycle = r.lifecycle
BY DEF IsRun

LEMMA ConfigurationSet ==
    ASSUME NEW r, IsRun(r), NEW c
    PROVE  LET s == [r EXCEPT !.configuration = c]
           IN  /\ IsRun(s) /\ s.phase = r.phase /\ s.why = r.why /\ s.verified = r.verified
               /\ s.binding = r.binding /\ s.dataset = r.dataset /\ s.configuration = c
               /\ s.stored = r.stored /\ s.lifecycle = r.lifecycle
BY DEF IsRun

LEMMA StoredSet ==
    ASSUME NEW r, IsRun(r), NEW x
    PROVE  LET s == [r EXCEPT !.stored = x]
           IN  /\ IsRun(s) /\ s.phase = r.phase /\ s.why = r.why /\ s.verified = r.verified
               /\ s.binding = r.binding /\ s.dataset = r.dataset
               /\ s.configuration = r.configuration
               /\ s.stored = x /\ s.lifecycle = r.lifecycle
BY DEF IsRun

LEMMA NoRunIs ==
    /\ IsRun(NoRun) /\ NoRun.phase = "idle" /\ NoRun.why = None /\ NoRun.verified = FALSE
BY DEF NoRun, IsRun

LEMMA Refused ==
    ASSUME IsRun(run), NEW reason, Refuse(reason)
    PROVE  /\ IsRun(run') /\ SameInputs(run, run') /\ run'.phase = "refused"
           /\ run'.why = reason /\ run'.verified = run.verified
<1> DEFINE p == "refused"
           l == None
<1> HIDE DEF p, l
<1>1. run' = [[[run EXCEPT !.phase = p] EXCEPT !.why = reason] EXCEPT !.lifecycle = l]
  BY DEF Refuse, IsRun, p, l
<1> DEFINE a == [run EXCEPT !.phase = p]
           b == [a EXCEPT !.why = reason]
           d == [b EXCEPT !.lifecycle = l]
<1>2. /\ IsRun(a) /\ SameInputs(run, a) /\ a.phase = p /\ a.verified = run.verified
  BY PhaseSet
<1> HIDE DEF a
<1>3. /\ IsRun(b) /\ SameInputs(a, b) /\ b.phase = p /\ b.verified = run.verified
      /\ b.why = reason
  BY <1>2, WhySet
<1> HIDE DEF b
<1>4. /\ IsRun(d) /\ SameInputs(b, d) /\ d.phase = p /\ d.verified = run.verified
      /\ d.why = reason
  BY <1>3, LifecycleSet
<1>5. run' = d
  BY <1>1 DEF a, b
<1> HIDE DEF d
<1> QED BY <1>2, <1>3, <1>4, <1>5 DEF SameInputs, p

-----------------------------------------------------------------------------
(* What the ledgers of two histories have to do with each other.           *)

ToldBy(l) == IF l.tracker.count = 0 THEN <<>> ELSE l.tracker.latest.prefix

\* A lifecycle knows the history it was fed.
LEMMA AfterKnows ==
    ASSUME NEW c, NEW h \in Seq(Candles)
    PROVE  /\ After(h, c).tracker.count = Len(h) /\ ToldBy(After(h, c)) = h
           /\ Len(h) > 0 => After(h, c).tracker.latest = Frame(h, c.chain)
           /\ SnapshotLedger(After(h, c)) = LedgerOf(h, c)
<1> DEFINE l == After(h, c)
<1>1. l.tracker.count = Len(h) /\ (Len(h) > 0 => l.tracker.latest = Frame(h, c.chain))
  BY EveryHistoryHasTheShape DEF Shape, Heads
<1>2. SnapshotLedger(l) = LedgerOf(h, c)
  BY DEF LedgerOf, After, SettingsOf
<1> HIDE DEF l
<1>3. CASE Len(h) = 0
  <2>1. h = <<>>
    BY <1>3
  <2> QED BY <1>1, <1>2, <1>3, <2>1 DEF ToldBy, l
<1>4. CASE Len(h) # 0
  <2>1. Len(h) > 0
    BY <1>4
  <2>2. Frame(h, c.chain).prefix = h
    BY DEF Frame
  <2> QED BY <1>1, <1>2, <1>4, <2>1, <2>2 DEF ToldBy, l
<1> QED BY <1>3, <1>4

\* The ledger of a longer history extends that of a shorter one; where the counts are the
\* same, so are the ledgers.
LEMMA LedgersGrow ==
    ASSUME NEW c, NEW g \in Seq(Candles), NEW h \in Seq(Candles), IsPrefix(g, h)
    PROVE  /\ Extends(LedgerOf(h, c), LedgerOf(g, c))
           /\ Len(LedgerOf(h, c).observations) = Len(LedgerOf(g, c).observations)
              /\ Len(LedgerOf(h, c).finalized) = Len(LedgerOf(g, c).finalized)
              => LedgerOf(h, c) = LedgerOf(g, c)
<1> DEFINE k == Len(g)
           l == After(g, c)
           m == After(h, c)
<1>1. k \in 0 .. Len(h) /\ SubSeq(h, 1, k) = g
  <2>1. k <= Len(h) /\ SubSeq(g, 1, k) = SubSeq(h, 1, k)
    BY DEF IsPrefix
  <2>2. SubSeq(g, 1, k) = g /\ k \in Nat /\ Len(h) \in Nat
    OBVIOUS
  <2> HIDE DEF k
  <2> QED BY <2>1, <2>2
<1>2. Grows(l, m)
  <2> HIDE DEF k
  <2> QED BY <1>1, HistoriesGrow
<1>3. Shape(l, g, c) /\ Shape(m, h, c)
  BY EveryHistoryHasTheShape
<1>4. SnapshotLedger(l) = LedgerOf(g, c) /\ SnapshotLedger(m) = LedgerOf(h, c)
  BY AfterKnows
<1> HIDE DEF l, m
<1>5. /\ Extends(SnapshotLedger(m), SnapshotLedger(l))
      /\ Len(m.observer.observations) = Len(l.observer.observations)
         /\ Len(FinalizedOutcomes(m.observer)) = Len(FinalizedOutcomes(l.observer))
         => SnapshotLedger(m) = SnapshotLedger(l)
  BY <1>2, <1>3, GrowthExtendsTheLedger
<1>6. /\ SnapshotLedger(l).observations = l.observer.observations
      /\ SnapshotLedger(l).finalized = FinalizedOutcomes(l.observer)
      /\ SnapshotLedger(m).observations = m.observer.observations
      /\ SnapshotLedger(m).finalized = FinalizedOutcomes(m.observer)
  BY DEF SnapshotLedger
<1> QED BY <1>4, <1>5, <1>6

\* The publications of a ledger are a sequence.
LEMMA LedgerHasSequences ==
    ASSUME NEW c, NEW h \in Seq(Candles)
    PROVE  IsASequence(LedgerOf(h, c).observations) /\ LedgerOf(h, c).settings = SettingsOf(c)
BY EveryHistoryHasTheShape, LedgerIs, AfterKnows

\* Extension is a preorder.
LEMMA ExtendsItself ==
    ASSUME NEW x, IsASequence(x.observations) PROVE Extends(x, x)
BY NothingMore DEF Extends

LEMMA ExtendsOnAndOn ==
    ASSUME NEW x, NEW y, NEW z, Extends(y, x), Extends(z, y), IsASequence(x.observations),
           IsASequence(y.observations), IsASequence(z.observations)
    PROVE  Extends(z, x)
<1>1. IsPrefix(x.observations, z.observations)
  BY PrefixOnAndOn DEF Extends
<1> QED BY <1>1 DEF Extends

-----------------------------------------------------------------------------
(* One step of the run.                                                    *)

LEMMA Phases ==
    /\ \A p \in {"idle", "refused", "bound", "dataset", "loaded", "verified"} : p \notin Running
    /\ Running \subseteq Bound /\ Running \subseteq Bound \ {"bound"}
    /\ Running \subseteq Bound \ {"bound", "dataset"}
BY DEF Running, Bound

\* Outside its session and its replay a run owes little.
LEMMA QuietStep ==
    ASSUME FilesInv', InputsInv', run'.phase \notin Running,
           run'.phase # "refused" => run'.why = None,
           run'.why \in {"candidate", "never"} => ~SomePrefixRecovers'
    PROVE  DeclaredRunInvariant'
<1>1. run'.phase \notin {"replaying", "saving", "open"}
  BY DEF Running
<1>2. LifecycleInv'
  BY DEF LifecycleInv
<1>3. StoreInv' /\ VerifyInv'
  BY <1>1 DEF StoreInv, VerifyInv, Session
<1> QED BY <1>2, <1>3 DEF DeclaredRunInvariant

LEMMA FilesStay ==
    ASSUME FilesInv, files' = files PROVE FilesInv'
BY DEF FilesInv, Readable, Declarable

\* A hand from outside on the stores.
LEMMA OutsideStep ==
    ASSUME DeclaredRunInvariant, UNCHANGED <<writing, run>>, FilesInv',
           files'["ledger"] \in {files["ledger"], Unreadable} \/ run.phase = "idle"
    PROVE  DeclaredRunInvariant'
<1>1. InputsInv' /\ LifecycleInv' /\ VerifyInv'
  BY DEF DeclaredRunInvariant, InputsInv, LifecycleInv, VerifyInv, InputsAreDeclared, Told,
         Replayed, Fed, Session, Snapshot, SomePrefixRecovers
<1>2. StoreInv'
  BY DEF DeclaredRunInvariant, StoreInv, Session, Snapshot, Readable
<1> QED BY <1>1, <1>2 DEF DeclaredRunInvariant

\* The run is over.
LEMMA EndingStep ==
    ASSUME DeclaredRunInvariant, run' = NoRun, UNCHANGED files
    PROVE  DeclaredRunInvariant'
<1>1. FilesInv'
  BY FilesStay DEF DeclaredRunInvariant
<1>2. /\ IsRun(run') /\ run'.phase = "idle" /\ run'.why = None /\ run'.verified = FALSE
  BY NoRunIs
<1>3. InputsInv'
  BY <1>2, Phases DEF InputsInv, Bound
<1> QED BY <1>1, <1>2, <1>3, QuietStep, Phases, FilesAssumption

\* A refusal keeps what was loaded.
LEMMA RefusalStep ==
    ASSUME DeclaredRunInvariant, UNCHANGED files, NEW reason, Refuse(reason),
           reason \in {"candidate", "never"} => ~SomePrefixRecovers
    PROVE  DeclaredRunInvariant'
<1>1. FilesInv'
  BY FilesStay DEF DeclaredRunInvariant
<1>2. /\ IsRun(run') /\ SameInputs(run, run') /\ run'.phase = "refused"
      /\ run'.why = reason /\ run'.verified = run.verified
  BY Refused DEF DeclaredRunInvariant, InputsInv
<1>3. InputsInv'
  BY <1>2 DEF DeclaredRunInvariant, InputsInv, Bound, Running
<1>4. SomePrefixRecovers' <=> SomePrefixRecovers
  BY <1>2 DEF SomePrefixRecovers, SameInputs
<1> QED BY <1>1, <1>2, <1>3, <1>4, QuietStep, Phases

\* A load takes what is in the store.
LEMMA LoadStep ==
    ASSUME DeclaredRunInvariant, LoadBinding \/ LoadDataset \/ LoadConfiguration
    PROVE  DeclaredRunInvariant'
<1>1. IsRun(run) /\ UNCHANGED files /\ FilesInv
  BY DEF DeclaredRunInvariant, InputsInv, LoadBinding, LoadDataset, LoadConfiguration, Load
<1>2. FilesInv'
  BY <1>1, FilesStay
<1>3. run.phase # "refused" => run.why = None
  BY DEF DeclaredRunInvariant, VerifyInv
<1>4. CASE LoadBinding
  <2>1. CASE Readable("binding")
    <3> DEFINE p == "bound"
               b == files["binding"]
               r == [run EXCEPT !.phase = p]
    <3> HIDE DEF p, b
    <3>1. run' = [r EXCEPT !.binding = b] /\ run.phase = "idle"
      BY <1>1, <1>4, <2>1 DEF LoadBinding, Load, IsRun, p, b
    <3>2. /\ IsRun(r) /\ SameInputs(run, r) /\ r.phase = p /\ r.why = run.why
          /\ r.verified = run.verified
      BY <1>1, PhaseSet
    <3> HIDE DEF r
    <3>3. /\ IsRun(run') /\ run'.phase = p /\ run'.why = run.why /\ run'.binding = b
          /\ run'.verified = run.verified
      BY <3>1, <3>2, BindingSet
    <3>4. b \in Bindings
      BY <1>1, <2>1 DEF FilesInv, Inputs, Declarable, b
    <3>5. InputsInv'
      BY <3>3, <3>4, Phases DEF DeclaredRunInvariant, InputsInv, Bound, p
    <3> QED BY <1>2, <1>3, <3>1, <3>3, <3>5, QuietStep, Phases, FilesAssumption DEF p
  <2>2. CASE ~Readable("binding")
    BY <1>1, <1>4, <2>2, RefusalStep DEF LoadBinding, Load
  <2> QED BY <2>1, <2>2
<1>5. CASE LoadDataset
  <2>1. CASE Readable("dataset")
    <3> DEFINE p == "dataset"
               b == files["dataset"]
               r == [run EXCEPT !.phase = p]
    <3> HIDE DEF p, b
    <3>1. run' = [r EXCEPT !.dataset = b] /\ run.phase = "bound"
      BY <1>1, <1>5, <2>1 DEF LoadDataset, Load, IsRun, p, b
    <3>2. /\ IsRun(r) /\ SameInputs(run, r) /\ r.phase = p /\ r.why = run.why
          /\ r.verified = run.verified
      BY <1>1, PhaseSet
    <3> HIDE DEF r
    <3>3. /\ IsRun(run') /\ run'.phase = p /\ run'.why = run.why /\ run'.dataset = b
          /\ run'.verified = run.verified /\ run'.binding = run.binding
      BY <3>1, <3>2, DatasetSet DEF SameInputs
    <3>4. b \in Datasets
      BY <1>1, <2>1 DEF FilesInv, Inputs, Declarable, b
    <3>5. InputsInv'
      BY <3>1, <3>3, <3>4, Phases DEF DeclaredRunInvariant, InputsInv, Bound, p
    <3> QED BY <1>2, <1>3, <3>1, <3>3, <3>5, QuietStep, Phases, FilesAssumption DEF p
  <2>2. CASE ~Readable("dataset")
    BY <1>1, <1>5, <2>2, RefusalStep DEF LoadDataset, Load
  <2> QED BY <2>1, <2>2
<1>6. CASE LoadConfiguration
  <2>1. CASE Readable("configuration")
    <3> DEFINE p == "loaded"
               b == files["configuration"]
               r == [run EXCEPT !.phase = p]
    <3> HIDE DEF p, b
    <3>1. run' = [r EXCEPT !.configuration = b] /\ run.phase = "dataset"
      BY <1>1, <1>6, <2>1 DEF LoadConfiguration, Load, IsRun, p, b
    <3>2. /\ IsRun(r) /\ SameInputs(run, r) /\ r.phase = p /\ r.why = run.why
          /\ r.verified = run.verified
      BY <1>1, PhaseSet
    <3> HIDE DEF r
    <3>3. /\ IsRun(run') /\ run'.phase = p /\ run'.why = run.why /\ run'.configuration = b
          /\ run'.verified = run.verified /\ run'.binding = run.binding
          /\ run'.dataset = run.dataset
      BY <3>1, <3>2, ConfigurationSet DEF SameInputs
    <3>4. b \in Configurations
      BY <1>1, <2>1 DEF FilesInv, Inputs, Declarable, b
    <3>5. InputsInv'
      BY <3>1, <3>3, <3>4, Phases DEF DeclaredRunInvariant, InputsInv, Bound, p
    <3> QED BY <1>2, <1>3, <3>1, <3>3, <3>5, QuietStep, Phases, FilesAssumption DEF p
  <2>2. CASE ~Readable("configuration")
    BY <1>1, <1>6, <2>2, RefusalStep DEF LoadConfiguration, Load
  <2> QED BY <2>1, <2>2
<1> QED BY <1>4, <1>5, <1>6

\* The comparison with the binding.
LEMMA VerifyStep ==
    ASSUME DeclaredRunInvariant, Verify
    PROVE  DeclaredRunInvariant'
<1>1. IsRun(run) /\ UNCHANGED files /\ FilesInv /\ run.phase = "loaded" /\ run.why = None
  BY DEF DeclaredRunInvariant, InputsInv, VerifyInv, Verify
<1>2. FilesInv'
  BY <1>1, FilesStay
<1>3. CASE InputsAreDeclared
  <2> DEFINE p == "verified"
  <2> HIDE DEF p
  <2>1. run' = [run EXCEPT !.phase = p]
    BY <1>3 DEF Verify, p
  <2>2. /\ IsRun(run') /\ SameInputs(run, run') /\ run'.phase = p /\ run'.why = run.why
        /\ run'.verified = run.verified
    BY <1>1, <2>1, PhaseSet
  <2>3. InputsInv'
    BY <1>1, <1>3, <2>2
       DEF DeclaredRunInvariant, InputsInv, InputsAreDeclared, SameInputs, Bound, Running, p
  <2> QED BY <1>1, <1>2, <2>2, <2>3, QuietStep, Phases, FilesAssumption DEF p
<1>4. CASE ~InputsAreDeclared
  BY <1>1, <1>4, RefusalStep DEF Verify
<1> QED BY <1>3, <1>4

\* What a run that has started knows.
LEMMA RunningKnows ==
    ASSUME DeclaredRunInvariant, run.phase \in Running
    PROVE  /\ IsRun(run) /\ run.configuration \in Configurations
           /\ run.dataset \in Seq(Candles) /\ Len(run.dataset) > 0 /\ run.dataset \in Datasets
           /\ InputsAreDeclared /\ run.verified \in BOOLEAN
           /\ Told \in Seq(Candles) /\ run.lifecycle = After(Told, run.configuration)
           /\ GoesForward(Told)
           /\ Replayed = Len(Told) /\ Snapshot = LedgerOf(Told, run.configuration)
           /\ Len(Told) > 0 => /\ Fed = Told
                               /\ run.lifecycle.tracker.latest = Frame(Told, run.configuration.chain)
<1>1. /\ IsRun(run) /\ run.configuration \in Configurations /\ run.dataset \in Datasets
      /\ InputsAreDeclared /\ run.verified \in BOOLEAN
      /\ Told \in Seq(Candles) /\ run.lifecycle = After(Told, run.configuration)
      /\ GoesForward(Told)
  BY Phases DEF DeclaredRunInvariant, InputsInv, LifecycleInv
<1>2. run.dataset \in Seq(Candles) /\ Len(run.dataset) > 0
  BY <1>1, DeclaredRunAssumption
<1>3. /\ run.lifecycle.tracker.count = Len(Told)
      /\ Len(Told) > 0 => run.lifecycle.tracker.latest = Frame(Told, run.configuration.chain)
      /\ SnapshotLedger(run.lifecycle) = LedgerOf(Told, run.configuration)
  BY <1>1, AfterKnows
<1>4. Len(Told) > 0 => run.lifecycle.tracker.latest.prefix = Told
  <2> DEFINE f == Frame(Told, run.configuration.chain)
  <2>1. f.prefix = Told
    BY DEF Frame
  <2> QED BY <1>3, <2>1
<1> QED BY <1>1, <1>2, <1>3, <1>4 DEF Replayed, Snapshot, Fed

\* What it is after a step.
LEMMA RunningStep ==
    ASSUME NEW fed \in Seq(Candles), run'.lifecycle = After(fed, run'.configuration)
    PROVE  Told' = fed /\ Replayed' = Len(fed) /\ Snapshot' = LedgerOf(fed, run'.configuration)
<1>1. /\ run'.lifecycle.tracker.count = Len(fed) /\ ToldBy(run'.lifecycle) = fed
      /\ SnapshotLedger(run'.lifecycle) = LedgerOf(fed, run'.configuration)
  BY AfterKnows
<1> QED BY <1>1 DEF ToldBy, Told, Replayed, Fed, Snapshot

\* A prefix of a prefix is one.
LEMMA PrefixOfAPrefix ==
    ASSUME NEW S, NEW r \in Seq(S), NEW s \in Seq(S), NEW t \in Seq(S), IsPrefix(r, s),
           IsPrefix(s, t)
    PROVE  IsPrefix(r, t)
<1>1. /\ Len(r) <= Len(s) /\ \A i \in 1 .. Len(r) : r[i] = s[i]
      /\ Len(s) <= Len(t) /\ \A i \in 1 .. Len(s) : s[i] = t[i]
  BY PrefixIs
<1>2. Len(r) \in Nat /\ Len(s) \in Nat /\ Len(t) \in Nat
  OBVIOUS
<1>3. Len(r) <= Len(t) /\ \A i \in 1 .. Len(r) : r[i] = t[i]
  BY <1>1, <1>2
<1> QED BY <1>3, PrefixIs

\* Every dataset is the beginning of what the market did.
LEMMA DatasetsBegin ==
    ASSUME NEW d \in Datasets, NEW h \in Seq(Candles), IsPrefix(h, d)
    PROVE  \E history \in Histories : IsPrefix(h, history)
<1>1. PICK history \in Histories : IsPrefix(d, history)
  BY DeclaredRunAssumption
<1>2. d \in Seq(Candles) /\ history \in Seq(Candles)
  BY DeclaredRunAssumption
<1> QED BY <1>1, <1>2, PrefixOfAPrefix

\* Nothing is told yet.
LEMMA NothingTold ==
    ASSUME NEW c, NEW d \in Seq(Candles)
    PROVE  /\ <<>> \in Seq(Candles) /\ NewLifecycle(SettingsOf(c)) = After(<<>>, c)
           /\ IsPrefix(<<>>, d) /\ SubSeq(d, 1, 0) = <<>> /\ Len(<<>>) = 0
<1> DEFINE e == <<>>
<1>1. e \in Seq(Candles) /\ Len(e) = 0 /\ SubSeq(d, 1, 0) = e
  OBVIOUS
<1> HIDE DEF e
<1>2. After(e, c) = NewLifecycle(SettingsOf(c))
  BY <1>1, NoCandle
<1>3. IsPrefix(e, d)
  <2>1. Len(e) <= Len(d) /\ \A i \in 1 .. Len(e) : e[i] = d[i]
    BY <1>1
  <2> QED BY <1>1, <2>1, PrefixIs
<1> QED BY <1>1, <1>2, <1>3 DEF e

\* The session begins to replay.
LEMMA OpenStep ==
    ASSUME DeclaredRunInvariant, Open
    PROVE  DeclaredRunInvariant'
<1> DEFINE stored == LoadedLedger
           c == run.configuration
           d == run.dataset
           fresh == NewLifecycle(Settings)
           v == stored = None \/ SnapshotLedger(fresh) = stored
           p == "replaying"
<1>1. /\ IsRun(run) /\ UNCHANGED files /\ FilesInv /\ run.phase = "verified" /\ run.why = None
      /\ run.dataset \in Datasets /\ run.configuration \in Configurations
      /\ run.binding \in Bindings /\ InputsAreDeclared
  BY DEF DeclaredRunInvariant, InputsInv, VerifyInv, Open, Bound
<1>2. FilesInv'
  BY <1>1, FilesStay
<1>3. CASE stored = Unreadable
  BY <1>1, <1>3, RefusalStep DEF Open
<1>4. CASE stored # Unreadable /\ stored # None /\ stored.settings # Settings
  BY <1>1, <1>4, RefusalStep DEF Open
<1>5. CASE stored # Unreadable /\ ~ (stored # None /\ stored.settings # Settings)
  <2>1. run' = [run EXCEPT !.phase = p, !.stored = stored, !.dataset = ExecutedDataset,
                           !.lifecycle = fresh, !.verified = v]
    BY <1>5 DEF Open
  <2>2. ExecutedDataset = d
    BY DEF ExecutedDataset
  <2>3. stored = files["ledger"]
    BY <1>5 DEF LoadedLedger
  <2>4. d \in Seq(Candles)
    BY <1>1, DeclaredRunAssumption
  <2>5. fresh = After(<<>>, c)
    <3>1. Settings = SettingsOf(c)
      BY DEF Settings, SettingsOf
    <3> QED BY <2>4, <3>1, NothingTold
  <2>6. v \in BOOLEAN
    OBVIOUS
  <2> HIDE DEF stored, fresh, v, p, d, c
  <2> DEFINE r1 == [run EXCEPT !.phase = p]
             r2 == [r1 EXCEPT !.stored = stored]
             r3 == [r2 EXCEPT !.dataset = d]
             r4 == [r3 EXCEPT !.lifecycle = fresh]
             r5 == [r4 EXCEPT !.verified = v]
  <2>7. run' = r5
    BY <1>1, <2>1, <2>2 DEF IsRun
  <2>8. /\ IsRun(r1) /\ SameInputs(run, r1) /\ r1.phase = p /\ r1.why = run.why
    BY <1>1, PhaseSet
  <2> HIDE DEF r1
  <2>9. /\ IsRun(r2) /\ r2.phase = p /\ r2.why = run.why /\ r2.binding = run.binding
        /\ r2.configuration = c /\ r2.stored = stored
    BY <2>8, StoredSet DEF SameInputs, c
  <2> HIDE DEF r2
  <2>10. /\ IsRun(r3) /\ r3.phase = p /\ r3.why = run.why /\ r3.binding = run.binding
         /\ r3.configuration = c /\ r3.stored = stored /\ r3.dataset = d
    BY <2>9, DatasetSet
  <2> HIDE DEF r3
  <2>11. /\ IsRun(r4) /\ r4.phase = p /\ r4.why = run.why /\ r4.binding = run.binding
         /\ r4.configuration = c /\ r4.stored = stored /\ r4.dataset = d
         /\ r4.lifecycle = fresh
    BY <2>10, LifecycleSet DEF SameInputs
  <2> HIDE DEF r4
  <2>12. /\ IsRun(run') /\ run'.phase = p /\ run'.why = None /\ run'.binding = run.binding
         /\ run'.configuration = c /\ run'.stored = stored /\ run'.dataset = d
         /\ run'.lifecycle = fresh /\ run'.verified = v
    BY <1>1, <2>7, <2>11, VerifiedSet DEF SameInputs
  <2> HIDE DEF r5
  <2>13. InputsInv'
    BY <1>1, <2>6, <2>12 DEF InputsInv, InputsAreDeclared, Running, Bound, p, c, d
  <2>14. /\ Told' = <<>> /\ Replayed' = 0 /\ Snapshot' = LedgerOf(<<>>, c)
         /\ SnapshotLedger(fresh) = LedgerOf(<<>>, c)
    BY <2>4, <2>5, <2>12, NothingTold, RunningStep, AfterKnows
  <2>15. LifecycleInv'
    <3>1. <<>> \in Seq(Candles) /\ IsPrefix(<<>>, d)
      BY <2>4, NothingTold
    <3>2. \E history \in Histories : IsPrefix(<<>>, history)
      BY <1>1, <3>1, DatasetsBegin DEF d
    <3>3. GoesForward(<<>>)
      BY DEF GoesForward
    <3> QED BY <2>5, <2>12, <2>14, <3>1, <3>2, <3>3 DEF LifecycleInv, Session, p
  <2>16. StoreInv'
    BY <1>1, <2>3, <2>12 DEF StoreInv, Session, p
  <2>17. VerifyInv'
    <3>1. ASSUME ~v
          PROVE  /\ stored # None
                 /\ \A n \in 0 .. 0 : ~Recovers(SubSeq(d, 1, n), c, stored)
      <4>1. stored # None /\ LedgerOf(<<>>, c) # stored
        BY <2>14, <3>1 DEF v
      <4>2. ~Recovers(SubSeq(d, 1, 0), c, stored)
        BY <2>4, <4>1, NothingTold DEF Recovers
      <4>3. \A n \in 0 .. 0 : n = 0
        OBVIOUS
      <4> QED BY <4>1, <4>2, <4>3
    <3>2. ASSUME v, stored # None
          PROVE  \E n \in 0 .. Len(d) : Recovers(SubSeq(d, 1, n), c, stored)
      <4>1. 0 \in 0 .. Len(d)
        BY <2>4
      <4>2. Recovers(SubSeq(d, 1, 0), c, stored)
        BY <2>4, <2>14, <3>2, NothingTold DEF v, Recovers
      <4> QED BY <4>1, <4>2
    <3>3. run'.why \notin {"candidate", "never"}
      BY <2>12, FilesAssumption
    <3> QED BY <2>12, <2>14, <3>1, <3>2, <3>3 DEF VerifyInv, SomePrefixRecovers, Session, p
  <2> QED BY <1>2, <2>13, <2>15, <2>16, <2>17 DEF DeclaredRunInvariant
<1> QED BY <1>3, <1>4, <1>5

\* Telling a run one candle more.
LEMMA OneMoreTold ==
    ASSUME DeclaredRunInvariant, run.phase \in Running, NEW h \in Seq(Candles),
           Len(h) = Replayed + 1, IsPrefix(Told, h)
    PROVE  UpdateLifecycle(run.lifecycle, Frame(h, run.configuration.chain))
              = After(h, run.configuration)
<1> DEFINE n == Len(Told)
           c == run.configuration
<1>1. Told \in Seq(Candles) /\ run.lifecycle = After(Told, c) /\ n \in Nat /\ Len(h) = n + 1
  BY RunningKnows
<1>2. SubSeq(h, 1, n) = Told
  BY <1>1 DEF IsPrefix
<1> HIDE DEF n, c
<1>3. After(h, c) = UpdateLifecycle(After(SubSeq(h, 1, n), c), Frame(h, c.chain))
  BY <1>1, OneMoreCandle
<1> QED BY <1>1, <1>2, <1>3 DEF c

\* The candles told still open one after the other.
LEMMA OneMoreForward ==
    ASSUME DeclaredRunInvariant, run.phase \in Running, NEW h \in Seq(Candles),
           Len(h) = Replayed + 1, IsPrefix(Told, h),
           LifecycleAccepts(run.lifecycle, Frame(h, run.configuration.chain))
    PROVE  GoesForward(h)
<1> DEFINE n == Len(Told)
           chain == run.configuration.chain
           tracker == run.lifecycle.tracker
<1>1. /\ Told \in Seq(Candles) /\ n \in Nat /\ Len(h) = n + 1 /\ GoesForward(Told)
      /\ n > 0 => tracker.latest = Frame(Told, chain)
  BY RunningKnows
<1>2. chain \in Nat
  BY RunningKnows, DeclaredRunAssumption
<1>3. TrackerAccepts(tracker, Frame(h, chain))
  BY DEF LifecycleAccepts
<1>4. Len(Told) = n
  OBVIOUS
<1> HIDE DEF n, chain, tracker
<1> QED BY <1>1, <1>2, <1>3, <1>4, AcceptedGoesForward

\* A candle of the dataset is replayed.
LEMMA ReplayStep ==
    ASSUME DeclaredRunInvariant, ReplayFrame
    PROVE  DeclaredRunInvariant'
<1> DEFINE c == run.configuration
           d == run.dataset
           n == Replayed
           h == SubSeq(d, 1, n + 1)
           frame == SeriesFrames[n + 1]
           next == UpdateLifecycle(run.lifecycle, frame)
           candidate == ~run.verified /\ CountsMatch(next, run.stored)
           v == run.verified \/ candidate
<1>1. /\ IsRun(run) /\ UNCHANGED files /\ UNCHANGED writing /\ run.phase = "replaying"
      /\ run.why = None /\ n < Len(d) /\ FilesInv /\ run.phase \in Running
  BY DEF DeclaredRunInvariant, InputsInv, VerifyInv, ReplayFrame, Running
<1>2. /\ c \in Configurations /\ d \in Seq(Candles) /\ Told \in Seq(Candles)
      /\ run.lifecycle = After(Told, c) /\ n = Len(Told) /\ run.verified \in BOOLEAN
      /\ IsPrefix(Told, d) /\ n \in Nat
  BY <1>1, RunningKnows DEF DeclaredRunInvariant, LifecycleInv
<1>3. h \in Seq(Candles) /\ Len(h) = n + 1 /\ n + 1 \in 1 .. Len(d)
  <2> HIDE DEF n, d
  <2> QED BY <1>1, <1>2
<1>4. frame = Frame(h, c.chain)
  <2> HIDE DEF n
  <2> DEFINE k == n + 1
             chain == c.chain
  <2>1. k \in 1 .. Len(d)
    BY <1>3
  <2> HIDE DEF k, chain
  <2>2. FramesOf(d, chain)[k] = Frame(SubSeq(d, 1, k), chain)
    BY <2>1 DEF FramesOf
  <2> QED BY <2>2 DEF SeriesFrames, k, chain
<1>5. IsPrefix(Told, h) /\ IsPrefix(h, d)
  <2> HIDE DEF n, d, h
  <2>1. /\ Len(h) <= Len(d) /\ \A i \in 1 .. Len(h) : h[i] = d[i]
    BY <1>1, <1>2, <1>3 DEF h
  <2>2. /\ Len(Told) <= Len(d) /\ \A i \in 1 .. Len(Told) : Told[i] = d[i]
    BY <1>2, PrefixIs
  <2>3. /\ Len(Told) <= Len(h) /\ \A i \in 1 .. Len(Told) : Told[i] = h[i]
    BY <1>2, <1>3, <2>1, <2>2
  <2> QED BY <1>2, <1>3, <2>1, <2>3, PrefixIs
<1>6. next = After(h, c)
  <2> HIDE DEF h
  <2> QED BY <1>1, <1>3, <1>4, <1>5, OneMoreTold
<1>7. SnapshotLedger(next) = LedgerOf(h, c)
  <2> HIDE DEF h, next
  <2> QED BY <1>3, <1>6, AfterKnows
<1>8. CountsMatch(next, run.stored) <=>
         /\ Len(LedgerOf(h, c).observations) = Len(run.stored.observations)
         /\ Len(LedgerOf(h, c).finalized) = Len(run.stored.finalized)
  <2> HIDE DEF h, next
  <2>1. /\ SnapshotLedger(next).observations = next.observer.observations
        /\ SnapshotLedger(next).finalized = FinalizedOutcomes(next.observer)
    BY DEF SnapshotLedger
  <2> QED BY <1>7, <2>1 DEF CountsMatch
<1>9. FilesInv'
  BY <1>1, FilesStay
<1>10. ~run.verified => /\ run.stored # None
                        /\ \A i \in 0 .. n : ~Recovers(SubSeq(d, 1, i), c, run.stored)
  BY <1>1 DEF DeclaredRunInvariant, VerifyInv
<1>11. ASSUME candidate, SnapshotLedger(next) # run.stored
       PROVE  DeclaredRunInvariant'
  <2>1. Refuse("candidate")
    BY <1>11 DEF ReplayFrame
  <2>2. ASSUME NEW i \in 0 .. Len(d), Recovers(SubSeq(d, 1, i), c, run.stored) PROVE FALSE
    <3> DEFINE g == SubSeq(d, 1, i)
    <3> HIDE DEF n, d, h
    <3>1. ~ (i <= n)
      BY <1>2, <1>10, <1>11, <2>2
    <3>2. g \in Seq(Candles) /\ Len(g) = i /\ IsPrefix(h, g)
      <4>1. g \in Seq(Candles) /\ Len(g) = i /\ \A j \in 1 .. i : g[j] = d[j]
        BY <1>2
      <4>2. \A j \in 1 .. Len(h) : h[j] = d[j]
        BY <1>1, <1>2, <1>3 DEF h
      <4>3. i \in Nat /\ n + 1 <= i
        BY <1>2, <3>1
      <4> HIDE DEF g
      <4>4. Len(h) <= Len(g) /\ \A j \in 1 .. Len(h) : h[j] = g[j]
        BY <1>2, <1>3, <4>1, <4>2, <4>3
      <4> QED BY <1>3, <4>1, <4>4, PrefixIs
    <3>3. LedgerOf(g, c) = run.stored
      BY <2>2 DEF Recovers
    <3> HIDE DEF g
    <3>4. LedgerOf(g, c) = LedgerOf(h, c)
      BY <1>3, <1>8, <1>11, <3>2, <3>3, LedgersGrow
    <3> QED BY <1>7, <1>11, <3>3, <3>4
  <2>3. ~SomePrefixRecovers
    BY <2>2 DEF SomePrefixRecovers
  <2> QED BY <1>1, <2>1, <2>3, RefusalStep
<1>12. ASSUME ~ (candidate /\ SnapshotLedger(next) # run.stored)
       PROVE  DeclaredRunInvariant'
  <2>1. run' = [run EXCEPT !.lifecycle = next, !.verified = @ \/ candidate]
    BY <1>12 DEF ReplayFrame
  <2> HIDE DEF next
  <2> DEFINE r == [run EXCEPT !.lifecycle = next]
  <2>2. run' = [r EXCEPT !.verified = v]
    <3>1. run' = [run EXCEPT !.lifecycle = next, !.verified = v]
      BY <2>1
    <3> HIDE DEF v
    <3> QED BY <1>1, <3>1 DEF IsRun
  <2>3. IsRun(r) /\ SameInputs(run, r) /\ r.phase = run.phase /\ r.why = None /\ r.lifecycle = next
    BY <1>1, LifecycleSet
  <2>4. v \in BOOLEAN
    BY <1>2
  <2> HIDE DEF r, v
  <2>5. /\ IsRun(run') /\ run'.phase = "replaying" /\ run'.why = None /\ run'.binding = run.binding
        /\ run'.configuration = c /\ run'.dataset = d /\ run'.stored = run.stored
        /\ run'.lifecycle = next /\ run'.verified = v
    BY <1>1, <2>2, <2>3, VerifiedSet DEF SameInputs
  <2> HIDE DEF c, d, h, n
  <2>6. InputsInv'
    BY <1>1, <2>4, <2>5
       DEF DeclaredRunInvariant, InputsInv, InputsAreDeclared, Running, Bound, c, d
  <2>7. Told' = h /\ Replayed' = n + 1
    BY <1>3, <1>6, <2>5, RunningStep
  <2>8. LifecycleInv'
    <3>1. \E history \in Histories : IsPrefix(h, history)
      BY <1>1, <1>3, <1>5, RunningKnows, DatasetsBegin DEF d
    <3>2. GoesForward(h)
      BY <1>1, <1>3, <1>4, <1>5, OneMoreForward DEF ReplayFrame, c, n
    <3> QED BY <1>3, <1>5, <1>6, <2>5, <2>7, <3>1, <3>2 DEF LifecycleInv, Session
  <2>9. StoreInv'
    BY <1>1, <2>5 DEF DeclaredRunInvariant, StoreInv, Session
  <2>10. VerifyInv'
    <3>1. ASSUME ~v
          PROVE  /\ run.stored # None
                 /\ \A i \in 0 .. n + 1 : ~Recovers(SubSeq(d, 1, i), c, run.stored)
      <4>1. ~run.verified /\ ~CountsMatch(next, run.stored)
        BY <3>1 DEF v
      <4>2. ~Recovers(h, c, run.stored)
        BY <1>8, <4>1 DEF Recovers, next
      <4>3. \A i \in 0 .. n + 1 : i = n + 1 \/ i \in 0 .. n
        BY <1>2
      <4> QED BY <1>10, <4>1, <4>2, <4>3 DEF h
    <3>2. ASSUME v, run.stored # None
          PROVE  \E i \in 0 .. Len(d) : Recovers(SubSeq(d, 1, i), c, run.stored)
      <4>1. CASE run.verified
        BY <1>1, <3>2, <4>1 DEF DeclaredRunInvariant, VerifyInv, SomePrefixRecovers, c, d
      <4>2. CASE ~run.verified
        <5>1. candidate
          BY <3>2, <4>2 DEF v
        <5>2. LedgerOf(h, c) = run.stored
          BY <1>7, <1>12, <5>1 DEF next
        <5>3. n + 1 \in 0 .. Len(d)
          BY <1>3
        <5> QED BY <5>2, <5>3 DEF Recovers, h
      <4> QED BY <4>1, <4>2
    <3>3. run'.why \notin {"candidate", "never"}
      BY <2>5, FilesAssumption
    <3> QED BY <2>5, <2>7, <3>1, <3>2, <3>3 DEF VerifyInv, SomePrefixRecovers, Session
  <2> QED BY <1>9, <2>6, <2>8, <2>9, <2>10 DEF DeclaredRunInvariant
<1> QED BY <1>11, <1>12

\* Only the phase of a run changes, its session begins or goes on.
LEMMA PhaseStep ==
    ASSUME DeclaredRunInvariant, FilesInv', run.phase \in Running, NEW p \in {"saving", "open"},
           run' = [run EXCEPT !.phase = p], p = "saving" => writing' = Snapshot,
           IsPrefix(run.dataset, Told), run.verified,
           Readable("ledger")' => Extends(Snapshot, files'["ledger"])
    PROVE  DeclaredRunInvariant'
<1>1. /\ IsRun(run') /\ SameInputs(run, run') /\ run'.phase = p /\ run'.why = run.why
      /\ run'.lifecycle = run.lifecycle /\ run'.verified = run.verified
  <2> DEFINE s == [run EXCEPT !.phase = p]
  <2>1. IsRun(run)
    BY RunningKnows
  <2>2. /\ IsRun(s) /\ SameInputs(run, s) /\ s.phase = p /\ s.why = run.why
        /\ s.lifecycle = run.lifecycle /\ s.verified = run.verified
    BY <2>1, PhaseSet
  <2> QED BY <2>2
<1>2. Told' = Told /\ Replayed' = Replayed /\ Snapshot' = Snapshot
  BY <1>1 DEF Told, Fed, Replayed, Snapshot
<1>3. run.phase # "refused"
  BY Phases
<1>4. InputsInv'
  BY <1>1 DEF DeclaredRunInvariant, InputsInv, InputsAreDeclared, SameInputs, Running, Bound
<1>5. LifecycleInv'
  <2>1. \E history \in Histories : IsPrefix(Told, history)
    BY DEF DeclaredRunInvariant, LifecycleInv
  <2> QED BY <1>1, <1>2, <2>1, RunningKnows DEF LifecycleInv, SameInputs
<1>6. StoreInv'
  BY <1>1, <1>2 DEF StoreInv
<1>7. VerifyInv'
  BY <1>1, <1>2, <1>3, FilesAssumption
     DEF DeclaredRunInvariant, VerifyInv, SomePrefixRecovers, SameInputs, Session
<1> QED BY <1>4, <1>5, <1>6, <1>7 DEF DeclaredRunInvariant

\* The whole dataset has been replayed.
LEMMA EndStep ==
    ASSUME DeclaredRunInvariant, EndOfReplay
    PROVE  DeclaredRunInvariant'
<1> DEFINE c == run.configuration
           d == run.dataset
<1>1. /\ run.phase = "replaying" /\ run.phase \in Running /\ Replayed = Len(d) /\ UNCHANGED files
      /\ FilesInv'
  BY FilesStay DEF DeclaredRunInvariant, EndOfReplay, Running, WriteSnapshot
<1>2. /\ d \in Seq(Candles) /\ Told \in Seq(Candles) /\ Replayed = Len(Told)
      /\ IsPrefix(Told, d) /\ run.verified \in BOOLEAN /\ Snapshot = LedgerOf(Told, c)
  BY <1>1, RunningKnows DEF DeclaredRunInvariant, LifecycleInv
<1>3. Told = d
  <2> HIDE DEF d
  <2>1. \A i \in 1 .. Len(Told) : Told[i] = d[i]
    BY <1>2, PrefixIs
  <2>2. Len(Told) = Len(d) /\ Told \in Seq(Candles) /\ d \in Seq(Candles)
    BY <1>1, <1>2
  <2> QED BY <2>1, <2>2
<1>4. CASE run.verified
  <2>1. run' = [run EXCEPT !.phase = "saving"] /\ writing' = Snapshot
    BY <1>4 DEF EndOfReplay, WriteSnapshot
  <2>2. IsPrefix(d, Told)
    BY <1>2, <1>3
  <2>3. ASSUME Readable("ledger")' PROVE Extends(Snapshot, files'["ledger"])
    <3>1. /\ files'["ledger"] = run.stored /\ run.stored # None
      BY <1>1, <2>3 DEF DeclaredRunInvariant, StoreInv, Readable
    <3>2. PICK n \in 0 .. Len(d) : LedgerOf(SubSeq(d, 1, n), c) = run.stored
      BY <1>1, <1>4, <3>1 DEF DeclaredRunInvariant, VerifyInv, SomePrefixRecovers, Recovers
    <3> DEFINE g == SubSeq(d, 1, n)
    <3>3. g \in Seq(Candles) /\ IsPrefix(g, d)
      <4> HIDE DEF d
      <4>1. g \in Seq(Candles) /\ Len(g) = n /\ \A i \in 1 .. n : g[i] = d[i]
        BY <1>2
      <4>2. n <= Len(d)
        BY <1>2
      <4> HIDE DEF g
      <4>3. Len(g) <= Len(d) /\ \A i \in 1 .. Len(g) : g[i] = d[i]
        BY <4>1, <4>2
      <4> QED BY <1>2, <4>1, <4>3, PrefixIs
    <3> HIDE DEF g, d, c
    <3>4. Extends(LedgerOf(d, c), LedgerOf(g, c))
      BY <1>2, <3>3, LedgersGrow
    <3> QED BY <1>2, <1>3, <3>1, <3>2, <3>4 DEF g
  <2> QED BY <1>1, <1>4, <2>1, <2>2, <2>3, PhaseStep
<1>5. CASE ~run.verified
  <2>1. Refuse("never")
    BY <1>5 DEF EndOfReplay
  <2>2. ~SomePrefixRecovers
    BY <1>1, <1>5 DEF DeclaredRunInvariant, VerifyInv, SomePrefixRecovers
  <2> QED BY <1>1, <2>1, <2>2, RefusalStep
<1> QED BY <1>2, <1>4, <1>5

\* What a session knows.
LEMMA SessionKnows ==
    ASSUME DeclaredRunInvariant, Session
    PROVE  /\ run.phase \in Running /\ IsPrefix(run.dataset, Told) /\ run.verified
           /\ Len(Told) > 0 /\ Fed = Told /\ IsASequence(Snapshot.observations)
           /\ Extends(Snapshot, Snapshot) /\ Snapshot \in Genuine
           /\ Readable("ledger") => Extends(Snapshot, files["ledger"])
<1>1. run.phase \in Running
  BY DEF Session, Running
<1>2. IsPrefix(run.dataset, Told) /\ run.verified
      /\ (Readable("ledger") => Extends(Snapshot, files["ledger"]))
  BY <1>1 DEF DeclaredRunInvariant, LifecycleInv, StoreInv, VerifyInv
<1>3. Len(Told) > 0
  <2>1. Len(run.dataset) <= Len(Told)
    BY <1>2 DEF IsPrefix
  <2>2. Len(run.dataset) > 0 /\ run.dataset \in Seq(Candles) /\ Told \in Seq(Candles)
    BY <1>1, RunningKnows
  <2>3. Len(run.dataset) \in Nat /\ Len(Told) \in Nat
    BY <2>2
  <2> QED BY <2>1, <2>2, <2>3
<1>4. IsASequence(Snapshot.observations)
  BY <1>1, RunningKnows, LedgerHasSequences
<1>5. Snapshot \in Genuine
  <2>1. PICK history \in Histories : IsPrefix(Told, history)
    BY <1>1 DEF DeclaredRunInvariant, LifecycleInv
  <2> DEFINE n == Len(Told)
  <2>2. Told \in Seq(Candles) /\ history \in Seq(Candles)
    BY <1>1, RunningKnows, DeclaredRunAssumption
  <2>3. n <= Len(history) /\ SubSeq(Told, 1, n) = SubSeq(history, 1, n) /\ SubSeq(Told, 1, n) = Told
    BY <2>1, <2>2 DEF IsPrefix
  <2>4. n \in DOMAIN history
    <3>1. n \in Nat /\ Len(history) \in Nat /\ DOMAIN history = 1 .. Len(history)
      BY <2>2
    <3> QED BY <1>3, <2>3, <3>1
  <2> HIDE DEF n
  <2>5. Told \in UNION {{SubSeq(h, 1, k) : k \in DOMAIN h} : h \in Histories}
    BY <2>3, <2>4
  <2>6. Snapshot = LedgerOf(Told, run.configuration) /\ run.configuration \in Configurations
    BY <1>1, RunningKnows
  <2> QED BY <2>5, <2>6 DEF Genuine
<1> QED BY <1>1, <1>2, <1>3, <1>4, <1>5, RunningKnows, ExtendsItself

\* The written ledger takes the place of the stored one.
LEMMA ReplaceStep ==
    ASSUME DeclaredRunInvariant, Replace
    PROVE  DeclaredRunInvariant' /\ files'["ledger"] = Snapshot
<1>1. Session /\ run.phase = "saving" /\ writing = Snapshot /\ run.phase \in Running
  BY DEF Replace, Session, Running, DeclaredRunInvariant, LifecycleInv
<1> DEFINE w == writing
<1>2. files' = [files EXCEPT !["ledger"] = w]
  BY DEF Replace
<1>3. files = [path \in Inputs \union {"ledger"} |-> files[path]]
  BY DEF DeclaredRunInvariant, FilesInv
<1>4. /\ files' = [path \in Inputs \union {"ledger"} |-> files'[path]]
      /\ files'["ledger"] = w /\ \A path \in Inputs : files'[path] = files[path]
  <2> HIDE DEF w
  <2> QED BY <1>2, <1>3 DEF Inputs
<1>5. IsASequence(w.observations) /\ Extends(Snapshot, w)
  BY <1>1, SessionKnows
<1>6. FilesInv'
  BY <1>4, <1>5 DEF DeclaredRunInvariant, FilesInv, Readable, Declarable
<1>7. run' = [run EXCEPT !.phase = "open"]
  BY DEF Replace
<1> QED BY <1>1, <1>4, <1>5, <1>6, <1>7, PhaseStep, SessionKnows

\* A save that fails leaves the store as it was.
LEMMA SaveFailsStep ==
    ASSUME DeclaredRunInvariant, SaveFails
    PROVE  DeclaredRunInvariant'
<1>1. Session /\ run.phase \in Running /\ UNCHANGED files /\ FilesInv'
  BY FilesStay DEF SaveFails, Session, Running, DeclaredRunInvariant
<1>2. CASE Replayed = Len(run.dataset)
  BY <1>1, <1>2, RefusalStep, FilesAssumption DEF SaveFails
<1>3. CASE Replayed # Len(run.dataset)
  <2>1. run' = [run EXCEPT !.phase = "open"]
    BY <1>3 DEF SaveFails
  <2>2. Readable("ledger")' => Extends(Snapshot, files'["ledger"])
    BY <1>1, SessionKnows DEF Readable
  <2> QED BY <1>1, <2>1, <2>2, PhaseStep, SessionKnows
<1> QED BY <1>2, <1>3

\* The session begins to save.
LEMMA PersistStep ==
    ASSUME DeclaredRunInvariant, Persist
    PROVE  DeclaredRunInvariant'
<1>1. /\ Session /\ run.phase \in Running /\ UNCHANGED files /\ FilesInv' /\ writing' = Snapshot
      /\ run' = [run EXCEPT !.phase = "saving"]
  BY FilesStay DEF Persist, Session, Running, DeclaredRunInvariant, WriteSnapshot
<1>2. Readable("ledger")' => Extends(Snapshot, files'["ledger"])
  BY <1>1, SessionKnows DEF Readable
<1> QED BY <1>1, <1>2, PhaseStep, SessionKnows

\* The session is told one candle more.
LEMMA ContinueStep ==
    ASSUME DeclaredRunInvariant, NEW history \in Histories, Continue(history)
    PROVE  DeclaredRunInvariant'
<1> DEFINE c == run.configuration
           d == run.dataset
<1>1. /\ run.phase = "open" /\ Session /\ run.phase \in Running /\ UNCHANGED files
      /\ UNCHANGED writing /\ FilesInv'
  BY FilesStay DEF Continue, Session, Running, DeclaredRunInvariant
<1>2. PICK frame \in ToSet(FramesOf(history, c.chain)) :
          /\ LifecycleAccepts(run.lifecycle, frame)
          /\ IsPrefix(run.lifecycle.tracker.latest.prefix, frame.prefix)
          /\ run' = [run EXCEPT !.lifecycle = UpdateLifecycle(@, frame)]
  BY DEF Continue
<1>3. history \in Seq(Candles)
  BY DeclaredRunAssumption
<1>4. PICK i \in 1 .. Len(history) : frame = Frame(SubSeq(history, 1, i), c.chain)
  <2> DEFINE chain == c.chain
             frames == FramesOf(history, chain)
  <2> HIDE DEF chain
  <2>1. frames = [k \in 1 .. Len(history) |-> Frame(SubSeq(history, 1, k), chain)]
    BY DEF FramesOf
  <2> HIDE DEF frames
  <2>2. PICK k \in 1 .. Len(history) : frame = frames[k]
    BY <1>2, <2>1 DEF ToSet, chain, frames
  <2> QED BY <2>1, <2>2 DEF chain
<1> DEFINE h == SubSeq(history, 1, i)
<1>5. h \in Seq(Candles) /\ Len(h) = i
  BY <1>3
<1> HIDE DEF h
<1>6. frame = Frame(h, c.chain) /\ frame.prefix = h
  BY <1>4 DEF Frame, h
<1>7. /\ Told \in Seq(Candles) /\ Replayed = Len(Told) /\ Fed = Told /\ IsPrefix(d, Told)
      /\ d \in Seq(Candles) /\ run.verified /\ IsRun(run)
  BY <1>1, RunningKnows, SessionKnows
<1>8. Len(h) = Replayed + 1
  <2>1. CurrentObservation(frame).index = Replayed
    BY <1>2 DEF LifecycleAccepts, TrackerAccepts, Replayed
  <2>2. CurrentObservation(frame).index = Len(h) - 1
    BY <1>6 DEF CurrentObservation
  <2>3. Len(h) \in Nat
    BY <1>5
  <2> QED BY <2>1, <2>2, <2>3
<1>9. IsPrefix(Told, h)
  BY <1>2, <1>6, <1>7 DEF Fed
<1> DEFINE next == UpdateLifecycle(run.lifecycle, frame)
<1>10. next = After(h, c)
  BY <1>1, <1>5, <1>6, <1>8, <1>9, OneMoreTold
<1>11. run' = [run EXCEPT !.lifecycle = next]
  BY <1>2
<1> HIDE DEF next
<1>12. /\ IsRun(run') /\ SameInputs(run, run') /\ run'.phase = "open" /\ run'.why = run.why
       /\ run'.lifecycle = next /\ run'.verified = run.verified
  <2> DEFINE s == [run EXCEPT !.lifecycle = next]
  <2>1. /\ IsRun(s) /\ SameInputs(run, s) /\ s.phase = run.phase /\ s.why = run.why
        /\ s.lifecycle = next /\ s.verified = run.verified
    BY <1>7, LifecycleSet
  <2> HIDE DEF s
  <2>2. run' = s
    BY <1>11 DEF s
  <2> QED BY <1>1, <2>1, <2>2
<1>13. run'.configuration = c /\ run'.dataset = d /\ run'.stored = run.stored
  BY <1>12 DEF SameInputs
<1>14. Told' = h /\ Replayed' = Len(h) /\ Snapshot' = LedgerOf(h, c)
  BY <1>5, <1>10, <1>12, <1>13, RunningStep
<1>15. InputsInv'
  BY <1>1, <1>12
     DEF DeclaredRunInvariant, InputsInv, InputsAreDeclared, SameInputs, Running, Bound
<1> HIDE DEF c, d
<1>16. IsPrefix(d, h)
  <2>1. /\ Len(d) <= Len(Told) /\ \A j \in 1 .. Len(d) : d[j] = Told[j]
    BY <1>7, PrefixIs
  <2>2. /\ Len(Told) <= Len(h) /\ \A j \in 1 .. Len(Told) : Told[j] = h[j]
    BY <1>5, <1>7, <1>9, PrefixIs
  <2>3. Len(d) \in Nat /\ Len(Told) \in Nat /\ Len(h) \in Nat
    BY <1>5, <1>7
  <2>4. /\ Len(d) <= Len(h) /\ \A j \in 1 .. Len(d) : d[j] = h[j]
    BY <2>1, <2>2, <2>3
  <2> QED BY <1>5, <1>7, <2>4, PrefixIs
<1>17. LifecycleInv'
  <2>1. IsPrefix(h, history)
    <3>1. h = SubSeq(history, 1, i) /\ i <= Len(history) /\ Len(h) = i
      BY <1>3, <1>5 DEF h
    <3>2. \A j \in 1 .. i : SubSeq(history, 1, i)[j] = history[j]
      BY <1>3
    <3> QED BY <1>3, <1>5, <3>1, <3>2, PrefixIs
  <2>2. GoesForward(h)
    BY <1>1, <1>2, <1>5, <1>6, <1>8, <1>9, OneMoreForward DEF c
  <2> QED BY <1>5, <1>10, <1>12, <1>13, <1>14, <1>16, <2>1, <2>2 DEF LifecycleInv, Session
<1>18. StoreInv'
  <2>1. ASSUME Readable("ledger") PROVE Extends(LedgerOf(h, c), files["ledger"])
    <3>1. Extends(LedgerOf(Told, c), files["ledger"]) /\ IsASequence(files["ledger"].observations)
      BY <1>1, <2>1, RunningKnows, SessionKnows DEF DeclaredRunInvariant, FilesInv, c
    <3>2. Extends(LedgerOf(h, c), LedgerOf(Told, c))
      BY <1>5, <1>7, <1>9, LedgersGrow
    <3>3. IsASequence(LedgerOf(h, c).observations) /\ IsASequence(LedgerOf(Told, c).observations)
      BY <1>5, <1>7, LedgerHasSequences
    <3> QED BY <3>1, <3>2, <3>3, ExtendsOnAndOn
  <2> QED BY <1>1, <1>12, <1>14, <2>1 DEF StoreInv, Readable
<1>19. VerifyInv'
  BY <1>1, <1>7, <1>12, FilesAssumption
     DEF DeclaredRunInvariant, VerifyInv, SomePrefixRecovers, SameInputs, Session
<1> QED BY <1>1, <1>15, <1>17, <1>18, <1>19 DEF DeclaredRunInvariant

\* What is left of a sequence is one.
LEMMA FrontIsASequence ==
    ASSUME NEW s, IsASequence(s) PROVE IsASequence(Front(s))
<1> DEFINE T == ToSet(s)
           t == Front(s)
<1>1. s \in Seq(T)
  BY DEF IsASequence
<1> HIDE DEF T
<1>2. t \in Seq(T) /\ Len(t) \in Nat
  BY <1>1 DEF Front
<1> HIDE DEF t
<1>3. t = [k \in 1 .. Len(t) |-> t[k]]
  BY <1>2
<1>4. IsASequence(t)
  BY <1>2, <1>3, FunctionIsASequence
<1> QED BY <1>4 DEF t

\* An edited ledger is still a document.
LEMMA EditStep ==
    ASSUME DeclaredRunInvariant, Edit
    PROVE  DeclaredRunInvariant'
<1>1. /\ run = NoRun /\ UNCHANGED <<writing, run>> /\ files["ledger"] \in Genuine
  BY DEF Edit
<1>2. PICK x \in Edited(files["ledger"]) : files' = [files EXCEPT !["ledger"] = x]
  BY DEF Edit
<1>3. files = [path \in Inputs \union {"ledger"} |-> files[path]]
  BY DEF DeclaredRunInvariant, FilesInv
<1>4. /\ files' = [path \in Inputs \union {"ledger"} |-> files'[path]]
      /\ files'["ledger"] = x /\ \A path \in Inputs : files'[path] = files[path]
  BY <1>2, <1>3 DEF Inputs
<1>5. PICK h \in Seq(Candles), c \in Configurations : files["ledger"] = LedgerOf(h, c)
  <2>1. PICK prefix \in UNION {{SubSeq(h, 1, n) : n \in DOMAIN h} : h \in Histories},
             c \in Configurations : files["ledger"] = LedgerOf(prefix, c)
    BY <1>1 DEF Genuine
  <2>2. PICK h \in Histories : prefix \in {SubSeq(h, 1, n) : n \in DOMAIN h}
    OBVIOUS
  <2>3. PICK n \in DOMAIN h : prefix = SubSeq(h, 1, n)
    BY <2>2
  <2>4. h \in Seq(Candles)
    BY DeclaredRunAssumption
  <2>5. n \in 1 .. Len(h)
    BY <2>4
  <2>6. prefix \in Seq(Candles)
    BY <2>3, <2>4, <2>5
  <2> QED BY <2>1, <2>6
<1>6. IsASequence(x.observations)
  <2> DEFINE l == LedgerOf(h, c)
             s == l.settings
             o == l.observations
             f == l.finalized
  <2>1. l = [settings |-> s, observations |-> o, finalized |-> f]
    BY DEF LedgerOf, SnapshotLedger
  <2>2. IsASequence(o)
    BY LedgerHasSequences
  <2>3. x \in Edited(l)
    BY <1>2, <1>5
  <2> HIDE DEF l, s, o, f
  <2>4. l.observations = o /\ l.finalized = f
    BY <2>1
  <2>5. \/ x = [l EXCEPT !.observations = Front(o)]
        \/ x = [l EXCEPT !.finalized = Front(f)] \/ x = [l EXCEPT !.finalized = Tail(f)]
        \/ x = [l EXCEPT !.finalized[1].status = "FLAT"]
    BY <2>3, <2>4 DEF Edited
  <2>6. CASE x = [l EXCEPT !.observations = Front(o)]
    <3> DEFINE e == Front(o)
    <3>1. IsASequence(e)
      BY <2>2, FrontIsASequence
    <3> HIDE DEF e
    <3>2. x = [l EXCEPT !.observations = e]
      BY <2>6 DEF e
    <3> QED BY <2>1, <3>1, <3>2
  <2>7. CASE x = [l EXCEPT !.finalized = Front(f)]
    <3> DEFINE e == Front(f)
    <3>1. x = [l EXCEPT !.finalized = e]
      BY <2>7
    <3> HIDE DEF e
    <3> QED BY <2>1, <2>2, <3>1
  <2>8. CASE x = [l EXCEPT !.finalized = Tail(f)]
    <3> DEFINE e == Tail(f)
    <3>1. x = [l EXCEPT !.finalized = e]
      BY <2>8
    <3> HIDE DEF e
    <3> QED BY <2>1, <2>2, <3>1
  <2>9. CASE x = [l EXCEPT !.finalized[1].status = "FLAT"]
    <3> DEFINE e == [f EXCEPT ![1].status = "FLAT"]
    <3>1. x = [l EXCEPT !.finalized = e]
      BY <2>4, <2>9
    <3> HIDE DEF e
    <3> QED BY <2>1, <2>2, <3>1
  <2> QED BY <2>5, <2>6, <2>7, <2>8, <2>9
<1>7. FilesInv'
  BY <1>4, <1>6 DEF DeclaredRunInvariant, FilesInv, Readable, Declarable
<1> QED BY <1>1, <1>7, OutsideStep, NoRunIs

\* Input files that are saved or damaged.
LEMMA InputStep ==
    ASSUME DeclaredRunInvariant, NEW path \in Inputs,
           Damage(path) \/ \E content \in Declarable[path] : SaveInput(path, content)
    PROVE  DeclaredRunInvariant' /\ files'["ledger"] = files["ledger"]
<1>1. UNCHANGED <<writing, run>>
  BY DEF Damage, SaveInput
<1>2. PICK x : files' = [files EXCEPT ![path] = x] /\ (x = Unreadable \/ x \in Declarable[path])
  BY DEF Damage, SaveInput
<1>3. files = [p \in Inputs \union {"ledger"} |-> files[p]]
  BY DEF DeclaredRunInvariant, FilesInv
<1>4. /\ files' = [p \in Inputs \union {"ledger"} |-> files'[p]]
      /\ files'["ledger"] = files["ledger"]
      /\ \A p \in Inputs : files'[p] = IF p = path THEN x ELSE files[p]
  BY <1>2, <1>3 DEF Inputs
<1>5. FilesInv'
  BY <1>2, <1>4 DEF DeclaredRunInvariant, FilesInv, Readable, Declarable
<1> QED BY <1>1, <1>4, <1>5, OutsideStep

\* A damaged ledger.
LEMMA DamageStep ==
    ASSUME DeclaredRunInvariant, Damage("ledger")
    PROVE  DeclaredRunInvariant'
<1>1. UNCHANGED <<writing, run>> /\ files' = [files EXCEPT !["ledger"] = Unreadable]
  BY DEF Damage
<1>2. files = [p \in Inputs \union {"ledger"} |-> files[p]]
  BY DEF DeclaredRunInvariant, FilesInv
<1>3. /\ files' = [p \in Inputs \union {"ledger"} |-> files'[p]]
      /\ files'["ledger"] = Unreadable /\ \A p \in Inputs : files'[p] = files[p]
  BY <1>1, <1>2 DEF Inputs
<1>4. FilesInv'
  BY <1>3 DEF DeclaredRunInvariant, FilesInv, Readable, Declarable
<1> QED BY <1>1, <1>3, <1>4, OutsideStep

-----------------------------------------------------------------------------
(* The theorems.                                                           *)

LEMMA InitiallyInvariant == Init => DeclaredRunInvariant
<1> SUFFICES ASSUME Init PROVE DeclaredRunInvariant
  OBVIOUS
<1>1. /\ IsRun(run) /\ run.phase = "idle" /\ run.why = None /\ run.verified = FALSE
  BY NoRunIs DEF Init
<1>2. FilesInv
  BY DEF Init, FilesInv, Readable, Inputs
<1>3. InputsInv
  BY <1>1 DEF InputsInv, Bound, Running
<1>4. LifecycleInv /\ StoreInv /\ VerifyInv
  BY <1>1, FilesAssumption DEF LifecycleInv, StoreInv, VerifyInv, Running, Session
<1> QED BY <1>2, <1>3, <1>4 DEF DeclaredRunInvariant

LEMMA StutteringKeeps ==
    ASSUME DeclaredRunInvariant, UNCHANGED declared PROVE DeclaredRunInvariant'
<1>1. UNCHANGED <<writing, run>> /\ files' = files
  BY DEF declared
<1> QED BY <1>1, FilesStay, OutsideStep DEF DeclaredRunInvariant

LEMMA NextKeeps ==
    ASSUME DeclaredRunInvariant, Next PROVE DeclaredRunInvariant'
<1>1. CASE \E path \in Inputs :
              /\ Exposed(path)
              /\ Damage(path) \/ \E content \in Declarable[path] : SaveInput(path, content)
  BY <1>1, InputStep
<1>2. CASE run.phase # "saving" /\ Damage("ledger")
  BY <1>2, DamageStep
<1>3. CASE Edit
  BY <1>3, EditStep
<1>4. CASE Crash
  BY <1>4, EndingStep DEF Crash
<1>5. CASE LoadBinding \/ LoadDataset \/ LoadConfiguration
  BY <1>5, LoadStep
<1>6. CASE Verify
  BY <1>6, VerifyStep
<1>7. CASE Open
  BY <1>7, OpenStep
<1>8. CASE ReplayFrame
  BY <1>8, ReplayStep
<1>9. CASE EndOfReplay
  BY <1>9, EndStep
<1>10. CASE Replace
  BY <1>10, ReplaceStep
<1>11. CASE SaveFails
  BY <1>11, SaveFailsStep
<1>12. CASE \E history \in Histories : Continue(history)
  BY <1>12, ContinueStep
<1>13. CASE Persist
  BY <1>13, PersistStep
<1>14. CASE Close
  BY <1>14, EndingStep DEF Close
<1> QED BY <1>1, <1>2, <1>3, <1>4, <1>5, <1>6, <1>7, <1>8, <1>9, <1>10, <1>11, <1>12, <1>13,
           <1>14 DEF Next

\* The inductive invariant holds of every reachable state.
THEOREM DeclaredRunIsSound == Spec => []DeclaredRunInvariant
<1>1. Init => DeclaredRunInvariant
  BY InitiallyInvariant
<1>2. DeclaredRunInvariant /\ [Next]_declared => DeclaredRunInvariant'
  BY NextKeeps, StutteringKeeps
<1> QED BY <1>1, <1>2, PTL DEF Spec

\* Whatever happens to the stores while a run is under way, the ledger it holds is that of
\* the dataset and the configuration its binding pinned (execute_verified_run).
THEOREM RunsUseTheirInputs == Spec => []RunUsesDeclaredInputs
<1>1. DeclaredRunInvariant => RunUsesDeclaredInputs
  BY RunningKnows, SessionKnows DEF RunUsesDeclaredInputs, InputsAreDeclared
<1> QED BY <1>1, DeclaredRunIsSound, PTL

\* The check at the first match of the counts decides as a search over every prefix of the
\* history would (open_ledger_session).
THEOREM TheFirstMatchDecides == Spec => []ResumesIffReproduced
<1>1. DeclaredRunInvariant => ResumesIffReproduced
  BY SessionKnows DEF ResumesIffReproduced, DeclaredRunInvariant, VerifyInv
<1> QED BY <1>1, DeclaredRunIsSound, PTL

\* The ledger of a session has one observation for every BUY of its history and one final,
\* with the status and the first extremes the candles show, for every BUY whose horizon lies
\* inside it; every record and the ledger satisfy their constructors (advance_outcome,
\* SignalOutcomeLifecycle.update).
THEOREM TheFinalsAreTrue == Spec => []FinalsMatchTheMarket
<1>1. ASSUME DeclaredRunInvariant PROVE FinalsMatchTheMarket
  <2> SUFFICES ASSUME Session
               PROVE  /\ {o.reference.index + 1 : o \in ToSet(Snapshot.observations)}
                            = Published(Fed, run.configuration)
                      /\ {o.reference.index + 1 : o \in ToSet(Snapshot.finalized)}
                            = Decided(Fed, run.configuration)
                      /\ \A final \in ToSet(Snapshot.finalized) :
                            SaysOf(final, Fed, run.configuration)
                      /\ \A record \in ToSet(run.lifecycle.tracker.records) :
                            OutcomeIsValid(record)
                      /\ SnapshotIsValid(Snapshot)
    BY DEF FinalsMatchTheMarket
  <2> DEFINE c == run.configuration
  <2>1. /\ Fed = Told /\ Told \in Seq(Candles) /\ GoesForward(Told)
        /\ run.lifecycle = After(Told, c) /\ Snapshot = SnapshotLedger(After(Told, c))
    BY <1>1, SessionKnows, RunningKnows DEF Snapshot
  <2>2. c \in Declarations
    BY <1>1, SessionKnows, RunningKnows, DeclaredRunAssumption DEF Declarations
  <2> HIDE DEF c
  <2> DEFINE h == Told
  <2>3. h \in Seq(Candles) /\ GoesForward(h)
    BY <2>1
  <2> HIDE DEF h
  <2>4. LET l == After(h, c)
            ledger == SnapshotLedger(l)
        IN  /\ {o.reference.index + 1 : o \in ToSet(ledger.observations)} = Published(h, c)
            /\ {o.reference.index + 1 : o \in ToSet(ledger.finalized)} = Decided(h, c)
            /\ \A final \in ToSet(ledger.finalized) : SaysOf(final, h, c)
            /\ \A record \in ToSet(l.tracker.records) : OutcomeIsValid(record)
            /\ SnapshotIsValid(ledger)
    BY <2>2, <2>3, TheLedgerTells
  <2> QED BY <2>1, <2>4 DEF h, c
<1>2. DeclaredRunInvariant => FinalsMatchTheMarket
  BY <1>1
<1> QED BY <1>2, DeclaredRunIsSound, PTL

\* What is read back from the store gives the report and the statistics of the live observer,
\* and every publication is counted once (RestoredAnalyticsLedger, AnalyticsSummary).
THEOREM TheStoreReportsTheSame == Spec => []ReportsSurviveTheStore
<1>1. ASSUME DeclaredRunInvariant PROVE ReportsSurviveTheStore
  <2> SUFFICES ASSUME Session
               PROVE  /\ RestoredReport(Snapshot) = LiveReport
                      /\ RestoredStats(Snapshot) = LiveStats
                      /\ SummaryIsValid(LiveStats) /\ MonthsSumTo(LiveReport, LiveStats)
    BY DEF ReportsSurviveTheStore
  <2> DEFINE c == run.configuration
             h == Told
             live == After(h, c).observer
             ledger == SnapshotLedger(After(h, c))
             stats == StrategyStats(FinalizedOutcomes(live), Len(OpenOutcomes(live)))
  <2>1. h \in Seq(Candles) /\ GoesForward(h) /\ run.lifecycle = After(h, c) /\ Snapshot = ledger
    BY <1>1, SessionKnows, RunningKnows DEF Snapshot
  <2>2. c \in Declarations
    BY <1>1, SessionKnows, RunningKnows, DeclaredRunAssumption DEF Declarations
  <2>3. LiveReport = MonthlyReport(CurrentVersions(live)) /\ LiveStats = stats
    BY <2>1 DEF LiveReport, LiveStats
  <2> HIDE DEF c, h
  <2>4. /\ RestoredReport(ledger) = MonthlyReport(CurrentVersions(live))
        /\ RestoredStats(ledger) = stats /\ SummaryIsValid(stats)
        /\ MonthsSumTo(MonthlyReport(CurrentVersions(live)), stats)
    BY <2>1, <2>2, TheStoreReports
  <2> QED BY <2>1, <2>3, <2>4
<1>2. DeclaredRunInvariant => ReportsSurviveTheStore
  BY <1>1
<1> QED BY <1>2, DeclaredRunIsSound, PTL

\* The ledger of a session, live or restored, tells what the market did (SignalOutcomeLifecycle,
\* RestoredAnalyticsLedger).
THEOREM LedgersAreTrue == Spec => []LedgerTellsTheMarket
<1>1. FinalsMatchTheMarket /\ ReportsSurviveTheStore => LedgerTellsTheMarket
  BY DEF LedgerTellsTheMarket
<1> QED BY <1>1, TheFinalsAreTrue, TheStoreReportsTheSame, PTL

\* No run, crash or failed save takes back or changes what is in the ledger store
\* (open_ledger_session, FileLedgerStore.save).
THEOREM TheLedgerIsKept == Spec => LedgerNeverGoesBack
<1> DEFINE Kept == files["ledger"] \notin {None, Unreadable} =>
                      \/ run' = run
                      \/ /\ files'["ledger"] # Unreadable
                         /\ Extends(files'["ledger"], files["ledger"])
<1>1. ASSUME DeclaredRunInvariant, Next PROVE Kept
  <2> SUFFICES ASSUME Readable("ledger"), run' # run
               PROVE  /\ files'["ledger"] # Unreadable
                      /\ Extends(files'["ledger"], files["ledger"])
    BY DEF Readable
  <2>1. IsASequence(files["ledger"].observations) /\ files["ledger"] # Unreadable
    BY <1>1 DEF DeclaredRunInvariant, FilesInv, Readable
  <2>2. CASE UNCHANGED files
    BY <2>1, <2>2, ExtendsItself
  <2>3. CASE Replace
    <3>1. Session /\ files'["ledger"] = Snapshot
      BY <1>1, <2>3, ReplaceStep DEF Replace, Session
    <3>2. Extends(Snapshot, files["ledger"])
      BY <1>1, <3>1, SessionKnows
    <3>3. Snapshot # Unreadable
      BY <1>1, <3>1, SessionKnows, FilesAssumption
    <3> QED BY <3>1, <3>2, <3>3
  <2> QED BY <1>1, <2>2, <2>3
          DEF Next, Damage, SaveInput, Edit, Crash, LoadBinding, LoadDataset, LoadConfiguration,
              Load, Verify, Open, ReplayFrame, EndOfReplay, SaveFails, Continue, Persist,
              WriteSnapshot, Close
<1>2. DeclaredRunInvariant /\ [Next]_declared => [Kept]_declared
  BY <1>1
<1> QED BY <1>2, DeclaredRunIsSound, PTL DEF LedgerNeverGoesBack, Spec
=============================================================================
