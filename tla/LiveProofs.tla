------------------------------ MODULE LiveProofs ------------------------------
(***************************************************************************)
(* Proofs about the live service.  The first part is about LiveCycle: the  *)
(* order and durability of what is handed over, the continuity of the      *)
(* gap-aware history and the fidelity of a restart, for every market,      *)
(* limit, service and number of deaths.  The second is about the poll loop *)
(* and the operator's view of it, for every grid, jitter, backoff, budget, *)
(* history limit and behaviour of server and clock.                        *)
(***************************************************************************)
EXTENDS LiveCycle, LiveOperator, FiniteSetTheorems, TLAPS

-----------------------------------------------------------------------------
(* Sets of candles. *)

Less == {p \in Nat \X Nat : p[1] < p[2]}

\* Candles are positive.
LEMMA CandleIsNat == Candle \subseteq Nat /\ 0 \notin Candle /\ Candle \subseteq 0 .. MaxCandle
BY BoundAssumption DEF Candle

\* Every nonempty set of naturals has a least element.
LEMMA LeastNatural ==
    ASSUME NEW T, T \subseteq Nat, T # {} PROVE \E x \in T : \A y \in T : x <= y
<1>1. IsWellFoundedOn(Less, Nat)
  BY NatLessThanWellFounded DEF OpToRel, Less
<1>2. PICK x \in T : \A y \in T : ~ (<<y, x>> \in Less)
  BY <1>1, WFMin
<1>3. \A y \in T : y \in Nat /\ x \in Nat /\ ~(y < x)
  BY <1>2 DEF Less
<1> QED BY <1>3

\* Min is what its name says.
LEMMA MinIsLeast ==
    ASSUME NEW T, T \subseteq Nat, T # {} PROVE Min(T) \in T /\ \A y \in T : Min(T) <= y
BY LeastNatural DEF Min

\* Max, of candles or of cursors, is what its name says.
LEMMA MaxIsGreatest ==
    ASSUME NEW h, h \subseteq 0 .. MaxCandle, h # {}
    PROVE  Max(h) \in h /\ \A y \in h : y <= Max(h)
<1> DEFINE T == {MaxCandle - c : c \in h}
<1>1. \A c \in h : c \in Nat /\ MaxCandle - c \in Nat /\ MaxCandle - (MaxCandle - c) = c
  BY BoundAssumption
<1>2. T \subseteq Nat /\ T # {}
  BY <1>1
<1> HIDE DEF T
<1>3. PICK x \in T : \A y \in T : x <= y
  BY <1>2, LeastNatural
<1>4. PICK c \in h : x = MaxCandle - c
  BY <1>3 DEF T
<1>5. \A d \in h : MaxCandle - c <= MaxCandle - d
  BY <1>3, <1>4 DEF T
<1>6. \A d \in h : c >= d
  BY <1>1, <1>5, BoundAssumption
<1>7. Max(h) \in h /\ \A d \in h : Max(h) >= d
  BY <1>6 DEF Max
<1> QED BY <1>1, <1>7

\* The last candle of a window is in it and no candle is behind it.
LEMMA LastIsLast ==
    ASSUME NEW h, h \subseteq Candle
    PROVE  /\ Last(h) \in 0 .. MaxCandle
           /\ \A c \in h : c <= Last(h)
           /\ h # {} => Last(h) \in h
           /\ h = {} => Last(h) = 0
<1>1. CASE h = {}
  BY <1>1, BoundAssumption DEF Last
<1>2. CASE h # {}
  <2>1. h \subseteq 0 .. MaxCandle
    BY CandleIsNat
  <2>2. Max(h) \in h /\ \A d \in h : d <= Max(h)
    BY <1>2, <2>1, MaxIsGreatest
  <2> QED BY <1>2, <2>1, <2>2 DEF Last
<1> QED BY <1>1, <1>2

\* A candle of the window that no other is behind is the last.
LEMMA LastIs ==
    ASSUME NEW h, h \subseteq Candle, NEW c \in h, \A d \in h : d <= c PROVE Last(h) = c
<1>1. Last(h) \in h /\ c <= Last(h)
  BY LastIsLast
<1>2. Last(h) <= c /\ Last(h) \in Nat /\ c \in Nat
  BY <1>1, CandleIsNat
<1> QED BY <1>1, <1>2

\* Retention keeps the last candle.
LEMMA NewestKeepsLast ==
    ASSUME NEW h, h \subseteq Candle, NEW n \in Nat \ {0}
    PROVE  Newest(h, n) \subseteq h /\ Last(Newest(h, n)) = Last(h)
<1>1. Newest(h, n) \subseteq h
  BY DEF Newest
<1>2. CASE h = {}
  BY <1>1, <1>2
<1>3. CASE h # {}
  <2>1. Last(h) \in h /\ {d \in h : d > Last(h)} = {}
    <3>1. Last(h) \in h /\ \A d \in h : d <= Last(h) /\ d \in Nat /\ Last(h) \in Nat
      BY <1>3, LastIsLast, CandleIsNat
    <3> QED BY <3>1
  <2>2. Last(h) \in Newest(h, n)
    BY <2>1, FS_EmptySet DEF Newest
  <2> QED BY <1>1, <2>2, LastIs, LastIsLast
<1> QED BY <1>2, <1>3

\* Without internal gap every candle between two of a batch is in it.
LEMMA ContiguousBetween ==
    ASSUME NEW h, h \subseteq Candle, Contiguous(h), NEW c \in h, NEW d \in h,
           NEW k \in c .. d
    PROVE  k \in h
<1> SUFFICES ASSUME k \notin h PROVE FALSE
  OBVIOUS
<1> DEFINE T == {e \in c .. d : e \notin h}
<1>1. c \in Nat /\ d \in Nat /\ T \subseteq Nat /\ k \in T
  BY DEF Candle
<1>2. PICK e \in T : \A f \in T : e <= f
  BY <1>1, LeastNatural
<1>3. e \in Nat /\ c < e /\ e <= d
  BY <1>1, <1>2
<1>4. e - 1 \in c .. d /\ e - 1 < d /\ (e - 1) + 1 = e
  BY <1>1, <1>3
<1>5. e - 1 \in h
  <2>1. e - 1 \in T => e <= e - 1
    BY <1>2
  <2> QED BY <1>3, <1>4, <2>1
<1> QED BY <1>2, <1>4, <1>5 DEF Contiguous

\* What continues a window without gap leaves it without gap.
LEMMA ContiguousJoin ==
    ASSUME NEW w, w \subseteq Candle, Contiguous(w), NEW p, p \subseteq Candle, Contiguous(p),
           ~GapAfter(Last(w), p), w # {}
    PROVE  Contiguous(w \cup {c \in p : c > Last(w)})
<1> DEFINE new == {c \in p : c > Last(w)}
<1>1. Last(w) \in w /\ \A c \in w : c <= Last(w)
  BY LastIsLast
<1>2. SUFFICES ASSUME NEW c \in w \cup new, NEW d \in w \cup new, c < d
               PROVE  c + 1 \in w \cup new
  BY DEF Contiguous
<1>3. c \in Nat /\ d \in Nat /\ Last(w) \in Nat /\ Last(w) # 0
  BY <1>1, CandleIsNat
<1>4. CASE d \in w
  <2>1. c \in w
    BY <1>1, <1>2, <1>3, <1>4
  <2> QED BY <1>2, <1>4, <2>1 DEF Contiguous
<1>5. CASE d \in new /\ c \in new
  BY <1>2, <1>3, <1>5 DEF Contiguous
<1>6. CASE d \in new /\ c \in w /\ c # Last(w)
  <2>1. c < Last(w)
    BY <1>1, <1>3, <1>6
  <2> QED BY <1>1, <1>6, <2>1 DEF Contiguous
<1>7. CASE d \in new /\ c = Last(w)
  <2>1. p \subseteq Nat /\ p # {} /\ d \in p /\ d > Last(w)
    BY <1>7, CandleIsNat
  <2>2. Min(p) \in p /\ Min(p) <= d /\ Min(p) <= Last(w) + 1 /\ Min(p) \in Nat
    <3>1. Min(p) \in p /\ \A e \in p : Min(p) <= e
      BY <2>1, MinIsLeast
    <3>2. ~(Min(p) > Last(w) + 1)
      BY <1>3, <2>1 DEF GapAfter
    <3>3. Min(p) \in Nat /\ d \in Nat /\ Min(p) <= d
      BY <2>1, <3>1
    <3> HIDE DEF new
    <3> QED BY <1>3, <3>1, <3>2, <3>3
  <2>3. Last(w) + 1 \in Min(p) .. d
    BY <1>3, <2>1, <2>2
  <2>4. Last(w) + 1 \in p
    BY <2>1, <2>2, <2>3, ContiguousBetween
  <2> QED BY <1>3, <1>7, <2>4
<1> QED BY <1>2, <1>4, <1>5, <1>6, <1>7

-----------------------------------------------------------------------------
(* The ledger of a history and of its prefixes. *)

Prefix(g, h) == g \subseteq h /\ \A c \in g, d \in h : d <= c => d \in g

\* What a history consumed up to a candle is the same in every longer one.
LEMMA SameUpTo ==
    ASSUME NEW g, NEW h, g \subseteq Candle, h \subseteq Candle, Prefix(g, h), NEW c \in g
    PROVE  UpTo(g, c) = UpTo(h, c) /\ Frame(g, c) = Frame(h, c)
BY DEF Prefix, UpTo, Frame

\* Cutting a history gives prefixes, of it and of each other.
LEMMA UpToIsPrefix ==
    ASSUME NEW h, h \subseteq Candle, NEW k \in Nat
    PROVE  /\ UpTo(h, k) \subseteq Candle /\ Prefix(UpTo(h, k), h)
           /\ UpTo(h, Last(h)) = h
<1>1. \A c \in h : c \in Nat /\ c <= Last(h)
  BY LastIsLast, CandleIsNat
<1> QED BY <1>1 DEF UpTo, Prefix

\* An outcome that is final stays final, at the same frame.
LEMMA FinalsStay ==
    ASSUME NEW g, NEW h, g \subseteq Candle, h \subseteq Candle, Prefix(g, h), NEW c \in g
    PROVE  FinalAt(g, c) \subseteq FinalAt(h, c)
<1> SUFFICES ASSUME NEW d \in FinalAt(g, c) PROVE d \in FinalAt(h, c)
  OBVIOUS
<1>1. d \in g /\ d \in h /\ d > c
  BY DEF FinalAt, Prefix
<1>2. {e \in g : c < e /\ e <= d} = {e \in h : c < e /\ e <= d}
  BY <1>1 DEF Prefix
<1> QED BY <1>1, <1>2 DEF FinalAt

\* The ledger of a longer history holds that of the shorter one.
LEMMA LedgerGrows ==
    ASSUME NEW g, NEW h, g \subseteq Candle, h \subseteq Candle, Prefix(g, h)
    PROVE  /\ LedgerOf(g).observed \subseteq LedgerOf(h).observed
           /\ LedgerOf(g).finalized \subseteq LedgerOf(h).finalized
<1>1. g \subseteq h
  BY DEF Prefix
<1>2. \A c \in g : Frame(g, c) = Frame(h, c)
  BY SameUpTo
<1>3. ASSUME NEW x \in LedgerOf(g).observed PROVE x \in LedgerOf(h).observed
  <2>1. PICK c \in g \cap Buys : x = Frame(g, c)
    BY <1>3 DEF LedgerOf
  <2>2. x = Frame(h, c) /\ c \in h \cap Buys
    BY <1>1, <1>2, <2>1
  <2> QED BY <2>2 DEF LedgerOf
<1>4. ASSUME NEW x \in LedgerOf(g).finalized PROVE x \in LedgerOf(h).finalized
  <2>1. PICK c \in g \cap Buys : x \in {<<c, Frame(g, d)>> : d \in FinalAt(g, c)}
    BY <1>4 DEF LedgerOf
  <2>2. PICK d \in FinalAt(g, c) : x = <<c, Frame(g, d)>>
    BY <2>1
  <2>3. d \in g /\ d \in FinalAt(h, c)
    BY <2>2, FinalsStay DEF FinalAt
  <2>4. x = <<c, Frame(h, d)>> /\ c \in h \cap Buys
    BY <1>1, <1>2, <2>2, <2>3
  <2> QED BY <2>3, <2>4 DEF LedgerOf
<1> QED BY <1>3, <1>4

\* Ledgers are finite, and none is the absent one.
LEMMA LedgerIsFinite ==
    ASSUME NEW h, h \subseteq Candle
    PROVE  /\ LedgerOf(h).observed \subseteq Candle \X SUBSET Candle
           /\ IsFiniteSet(LedgerOf(h).observed) /\ IsFiniteSet(LedgerOf(h).finalized)
           /\ LedgerOf(h) # NoLedger
<1>1. \A c \in h : Frame(h, c) \in Candle \X SUBSET Candle
  BY DEF Frame, UpTo
<1>2. LedgerOf(h).observed \subseteq Candle \X SUBSET Candle
  BY <1>1 DEF LedgerOf
<1>3. LedgerOf(h).finalized \subseteq Candle \X (Candle \X SUBSET Candle)
  <2>1. \A c \in h : FinalAt(h, c) \subseteq h
    BY DEF FinalAt
  <2> SUFFICES ASSUME NEW x \in LedgerOf(h).finalized
               PROVE  x \in Candle \X (Candle \X SUBSET Candle)
    OBVIOUS
  <2>2. PICK c \in h \cap Buys : x \in {<<c, Frame(h, d)>> : d \in FinalAt(h, c)}
    BY DEF LedgerOf
  <2> QED BY <1>1, <2>1, <2>2
<1>4. IsFiniteSet(Candle) /\ IsFiniteSet(SUBSET Candle)
  <2>1. IsFiniteSet(1 .. MaxCandle)
    BY FS_Interval, BoundAssumption
  <2> QED BY <2>1, FS_SUBSET DEF Candle
<1>5. IsFiniteSet(Candle \X SUBSET Candle)
  BY <1>4, FS_Product
<1>6. IsFiniteSet(Candle \X (Candle \X SUBSET Candle))
  BY <1>4, <1>5, FS_Product
<1>7. LedgerOf(h) # NoLedger
  <2>1. <<0, <<0, {}>>>> \notin LedgerOf(h).finalized
    <3>1. 0 \notin Candle
      BY DEF Candle
    <3> QED BY <1>3, <3>1
  <2>2. <<0, <<0, {}>>>> \in NoLedger.finalized
    BY DEF NoLedger
  <2> QED BY <2>1, <2>2
<1> QED BY <1>2, <1>3, <1>5, <1>6, <1>7, FS_Subset

\* Of a history and its prefix, equal counts mean equal ledgers.
LEMMA SameCountsSameLedger ==
    ASSUME NEW g, NEW h, g \subseteq Candle, h \subseteq Candle, Prefix(g, h),
           SameCounts(LedgerOf(g), LedgerOf(h))
    PROVE  LedgerOf(g) = LedgerOf(h)
<1>1. LedgerOf(g).observed = LedgerOf(h).observed
  BY LedgerGrows, LedgerIsFinite, FS_Subset DEF SameCounts
<1>2. LedgerOf(g).finalized = LedgerOf(h).finalized
  BY LedgerGrows, LedgerIsFinite, FS_Subset DEF SameCounts
<1> QED BY <1>1, <1>2 DEF LedgerOf

\* A warm-up over the very history of the ledger opens it.
LEMMA OwnHistoryOpens ==
    ASSUME NEW h, h \subseteq Candle PROVE Verified(h, LedgerOf(h))
<1> DEFINE stored == LedgerOf(h)
           candidates == {c \in h \cup {0} : SameCounts(LedgerOf(UpTo(h, c)), stored)}
<1>1. h \cup {0} \subseteq Nat /\ Last(h) \in h \cup {0}
  <2>1. h \cup {0} \subseteq Nat
    BY CandleIsNat
  <2>2. Last(h) \in h \/ Last(h) = 0
    BY LastIsLast
  <2> QED BY <2>1, <2>2
<1>2. Last(h) \in candidates
  BY <1>1, UpToIsPrefix DEF SameCounts
<1>3. Min(candidates) \in candidates
  BY <1>1, <1>2, MinIsLeast
<1> DEFINE m == Min(candidates)
<1> HIDE DEF m
<1>4. m \in Nat /\ SameCounts(LedgerOf(UpTo(h, m)), LedgerOf(h))
  BY <1>1, <1>3 DEF m
<1>5. LedgerOf(UpTo(h, m)) = LedgerOf(h)
  BY <1>4, UpToIsPrefix, SameCountsSameLedger
<1> QED BY <1>2, <1>5 DEF Verified, m

\* Whatever ledger a warm-up opens, it holds nothing the warm-up does not.
LEMMA OpenedIsContained ==
    ASSUME NEW h, h \subseteq Candle, NEW stored, Verified(h, stored), stored # NoLedger
    PROVE  stored.observed \subseteq LedgerOf(h).observed
<1> DEFINE candidates == {c \in h \cup {0} : SameCounts(LedgerOf(UpTo(h, c)), stored)}
           m == Min(candidates)
<1>1. candidates # {} /\ LedgerOf(UpTo(h, m)) = stored
  BY DEF Verified
<1>2. m \in candidates
  <2>1. h \cup {0} \subseteq Nat
    BY CandleIsNat
  <2>2. candidates \subseteq h \cup {0}
    OBVIOUS
  <2> HIDE DEF candidates
  <2> QED BY <1>1, <2>1, <2>2, MinIsLeast
<1> HIDE DEF m
<1>3. m \in Nat
  BY <1>2, CandleIsNat
<1> QED BY <1>1, <1>3, UpToIsPrefix, LedgerGrows

-----------------------------------------------------------------------------
(* The inductive invariant. *)

Stopped == {"down", "load", "refused"}

\* The types, with that of the frames handed over.
DataOK == TypeOK /\ sent \in Seq(Candle \X SUBSET Candle)

\* What the process remembers of its history, and where it remembers nothing.
WindowInv ==
    /\ Last(window) = Last(history)
    /\ service # "checkpointed" => window = history
    /\ IF pc \in Stopped THEN history = {} ELSE history # {}
    /\ pending # {} => pc \in {"ledger", "window", "checkpoint", "deliver"}
    /\ polled # {} => pc = "higher"

\* The ledger is that of the history except while it waits to be written.
LedgerInv ==
    /\ pc \in {"idle", "higher", "window", "checkpoint", "deliver"} => ledger = LedgerOf(history)
    /\ pc = "ledger" => ledger.observed \subseteq LedgerOf(history).observed
    /\ pc \in {"idle", "higher", "checkpoint", "deliver"} => Last(saved) = Last(history)

\* What is still to be handed over comes after everything handed over.
OrderInv == SentOnceInOrder /\ \A i \in DOMAIN sent : \A c \in pending : sent[i][1] < c

GapInv == GapAwareIsContiguous /\ (GapAware /\ pc = "higher" => Contiguous(polled))

\* Unless a write was torn or the checkpoint lost, the recovery source is the
\* history of the ledger, except between the two writes.
SourceInv ==
    /\ service # "checkpointed" => checkpoint = {} /\ pc # "checkpoint"
    /\ pc \in {"idle", "higher", "ledger", "deliver"} => ~torn
    /\ ~torn /\ fault # "lost" /\ pc \notin {"window", "checkpoint"} /\ ledger # NoLedger =>
           /\ RecoverySource # {} /\ ledger = LedgerOf(RecoverySource)
           /\ pc = "open" => history = RecoverySource
    /\ RefusedOnlyWhenTorn
    /\ UntrustedStopsTheService
    /\ fault = "untrusted" => service = "checkpointed" /\ checkpoint # {}

IInv == /\ DataOK /\ WindowInv /\ LedgerInv /\ HandedOverIsDurable
        /\ OrderInv /\ GapInv /\ SourceInv

-----------------------------------------------------------------------------
(* Each part is kept by every step. *)

\* What the provider serves are candles.
LEMMA BatchIsCandles == TypeOK => Batch \subseteq Candle
<1> SUFFICES ASSUME TypeOK PROVE Batch \subseteq Candle
  OBVIOUS
<1>1. closed \in 0 .. MaxCandle
  BY DEF TypeOK
<1>2. 1 .. closed \subseteq Candle
  BY <1>1, BoundAssumption DEF Candle
<1> QED BY <1>2 DEF Batch, Newest

\* The order of the durable writes.
LEMMA AfterIs ==
    /\ After("ledger") = "window"
    /\ After("window") = IF service = "checkpointed" THEN "checkpoint" ELSE "deliver"
    /\ After("checkpoint") = "deliver"
BY DEF After

\* The types are kept.
LEMMA DataKept == IInv /\ [Next]_vars => DataOK'
<1> SUFFICES ASSUME IInv, [Next]_vars PROVE DataOK'
  OBVIOUS
<1> USE DEF marketVars, diskVars, cycleVars, faultVars
<1>inv. /\ TypeOK /\ sent \in Seq(Candle \X SUBSET Candle)
        /\ WindowInv
  BY DEF IInv, DataOK
<1>1. CASE Start
  BY <1>1, <1>inv DEF Start, DataOK, TypeOK, WindowInv
<1>2. CASE RefuseCheckpoint
  BY <1>2, <1>inv DEF RefuseCheckpoint, DataOK, TypeOK, WindowInv
<1>3. CASE WarmUp
  <2>1. RecoverySource \subseteq Candle /\ pending = {}
    BY <1>3, <1>inv DEF RecoverySource, WarmUp, TypeOK, WindowInv
  <2> QED BY <1>3, <1>inv, <2>1 DEF WarmUp, DataOK, TypeOK
<1>4. CASE InitialPoll
  <2>1. Batch \subseteq Candle /\ Last(Batch) \in 0 .. MaxCandle /\ pending = {}
    BY <1>4, <1>inv, BatchIsCandles, LastIsLast DEF InitialPoll, WindowInv
  <2> QED BY <1>4, <1>inv, <2>1 DEF InitialPoll, DataOK, TypeOK
<1>5. CASE OpenLedger
  <2>1. LedgerOf(history).observed \subseteq Candle \X SUBSET Candle /\ pending = {}
    BY <1>5, <1>inv, LedgerIsFinite DEF OpenLedger, TypeOK, WindowInv
  <2>2. 0 \in 0 .. MaxCandle
    BY BoundAssumption
  <2>3. CASE Verified(history, ledger)
    BY <1>5, <1>inv, <2>1, <2>3, AfterIs DEF OpenLedger, DataOK, TypeOK
  <2>4. CASE ~Verified(history, ledger)
    BY <1>5, <1>inv, <2>1, <2>2, <2>4 DEF OpenLedger, DataOK, TypeOK
  <2> QED BY <2>3, <2>4
<1>6. CASE PollPrimary
  <2> DEFINE fresh == {c \in Batch : c > cursor}
  <2>1. fresh \subseteq Candle /\ fresh \cup {cursor} \subseteq 0 .. MaxCandle
    BY <1>inv, BatchIsCandles, CandleIsNat DEF TypeOK
  <2> HIDE DEF fresh
  <2>2. Max(fresh \cup {cursor}) \in 0 .. MaxCandle
    BY <2>1, MaxIsGreatest
  <2>3. /\ cursor' = Max(fresh \cup {cursor})
        /\ (pc' = pc /\ polled' = polled) \/ (pc' = "higher" /\ polled' = fresh)
        /\ UNCHANGED <<marketVars, diskVars, service, window, history, pending, sent, faultVars>>
    BY <1>6 DEF PollPrimary, fresh
  <2> QED BY <1>inv, <2>1, <2>2, <2>3 DEF DataOK, TypeOK
<1>7. CASE HigherFails
  BY <1>7, <1>inv DEF HigherFails, DataOK, TypeOK, WindowInv
<1>8. CASE Apply
  <2>1. Accepted \subseteq Candle
    BY <1>inv DEF Accepted, TypeOK
  <2> QED BY <1>8, <1>inv, <2>1 DEF Apply, DataOK, TypeOK
<1>9. CASE SaveLedger
  <2>1. LedgerOf(history).observed \subseteq Candle \X SUBSET Candle
    BY <1>inv, LedgerIsFinite DEF TypeOK
  <2> QED BY <1>9, <1>inv, <2>1, AfterIs DEF SaveLedger, DataOK, TypeOK
<1>10. CASE SaveWindow
  BY <1>10, <1>inv, AfterIs DEF SaveWindow, DataOK, TypeOK
<1>11. CASE SaveCheckpoint
  <2>1. Newest(window, LocalBound) \subseteq window
    BY DEF Newest
  <2> QED BY <1>11, <1>inv, <2>1, AfterIs DEF SaveCheckpoint, Exported, DataOK, TypeOK
<1>12. CASE Deliver
  <2>1. Min(pending) \in Candle
    BY <1>12, <1>inv, MinIsLeast, CandleIsNat DEF Deliver, TypeOK
  <2>2. Frame(history, Min(pending)) \in Candle \X SUBSET Candle
    BY <1>inv, <2>1 DEF Frame, UpTo, TypeOK
  <2>3. sent' \in Seq(Candle \X SUBSET Candle)
    BY <1>12, <1>inv, <2>2 DEF Deliver
  <2> QED BY <1>12, <1>inv, <2>3 DEF Deliver, DataOK, TypeOK
<1>13. CASE CycleDone
  BY <1>13, <1>inv DEF CycleDone, DataOK, TypeOK, WindowInv
<1>14. CASE CandleCloses
  <2>1. closed' \in 0 .. MaxCandle
    BY <1>14, <1>inv, BoundAssumption DEF CandleCloses, TypeOK
  <2> QED BY <1>14, <1>inv, <2>1 DEF CandleCloses, DataOK, TypeOK
<1>15. CASE Dies
  <2>1. deaths' \in 0 .. MaxDeaths /\ 0 \in 0 .. MaxCandle
    BY <1>15, <1>inv, BoundAssumption DEF Dies, TypeOK
  <2> QED BY <1>15, <1>inv, <2>1 DEF Dies, DataOK, TypeOK
<1>16. CASE SpoilCheckpoint
  BY <1>16, <1>inv DEF SpoilCheckpoint, DataOK, TypeOK, WindowInv
<1>17. CASE LoseCheckpoint
  BY <1>17, <1>inv DEF LoseCheckpoint, DataOK, TypeOK, WindowInv
<1>18. CASE Upgrade
  BY <1>18, <1>inv DEF Upgrade, DataOK, TypeOK, WindowInv
<1>19. CASE UNCHANGED vars
  BY <1>19, <1>inv DEF vars, DataOK, TypeOK, WindowInv
<1> QED
  BY <1>1, <1>2, <1>3, <1>4, <1>5, <1>6, <1>7, <1>8, <1>9, <1>10, <1>11, <1>12, <1>13,
    <1>14, <1>15, <1>16, <1>17, <1>18, <1>19 DEF Next, Process

\* The last candle of a window that grew is the last of what it grew by.
LEMMA LastOfJoin ==
    ASSUME NEW h, h \subseteq Candle, NEW a, a \subseteq Candle, a # {},
           \A c \in a : c > Last(h)
    PROVE  Last(h \cup a) = Last(a)
<1>1. Last(a) \in a /\ Last(a) \in Nat /\ Last(h) \in Nat /\ Last(a) > Last(h)
  <2>1. Last(a) \in a /\ Last(h) \in 0 .. MaxCandle
    BY LastIsLast
  <2>2. Last(a) \in Nat
    BY <2>1, CandleIsNat
  <2>3. Last(h) \in Nat
    BY <2>1, BoundAssumption
  <2>4. Last(a) > Last(h)
    BY <2>1
  <2> QED BY <2>1, <2>2, <2>3, <2>4
<1>2. \A c \in h \cup a : c \in Nat /\ c <= Last(a)
  <2>1. \A c \in a : c \in Nat /\ c <= Last(a)
    BY LastIsLast, CandleIsNat
  <2>2. \A c \in h : c \in Nat /\ c <= Last(h)
    BY LastIsLast, CandleIsNat
  <2> QED BY <1>1, <2>1, <2>2
<1> QED BY <1>1, <1>2, LastIs

\* A history is a prefix of what it grows to.
LEMMA JoinHasPrefix ==
    ASSUME NEW h, h \subseteq Candle, NEW a, a \subseteq Candle, \A c \in a : c > Last(h)
    PROVE  Prefix(h, h \cup a)
<1>1. \A c \in h : c \in Nat /\ c <= Last(h) /\ Last(h) \in Nat
  BY LastIsLast, CandleIsNat, BoundAssumption
<1>2. \A c \in a : c \in Nat
  BY CandleIsNat
<1> QED BY <1>1, <1>2 DEF Prefix

\* What a ledger observed lies in its history.
LEMMA ObservedIsPast ==
    ASSUME NEW h, h \subseteq Candle, NEW x \in LedgerOf(h).observed
    PROVE  x[1] <= Last(h)
<1>1. PICK c \in h : x = Frame(h, c)
  BY DEF LedgerOf
<1> QED BY <1>1, LastIsLast DEF Frame

\* The window ends where the history ends.
LEMMA WindowKept == IInv /\ [Next]_vars => WindowInv'
<1> SUFFICES ASSUME IInv, [Next]_vars PROVE WindowInv'
  OBVIOUS
<1> USE DEF marketVars, diskVars, cycleVars, faultVars
<1>inv. /\ TypeOK /\ sent \in Seq(Candle \X SUBSET Candle)
        /\ WindowInv /\ SourceInv
  BY DEF IInv, DataOK
<1>1. CASE Start
  BY <1>1, <1>inv DEF Start, WindowInv, Stopped
<1>2. CASE RefuseCheckpoint
  BY <1>2, <1>inv DEF RefuseCheckpoint, WindowInv, Stopped
<1>3. CASE WarmUp
  BY <1>3, <1>inv DEF WarmUp, WindowInv, Stopped
<1>4. CASE InitialPoll
  BY <1>4, <1>inv DEF InitialPoll, WindowInv, Stopped
<1>5. CASE OpenLedger
  <2>1. CASE Verified(history, ledger)
    BY <1>5, <1>inv, <2>1, AfterIs DEF OpenLedger, WindowInv, Stopped
  <2>2. CASE ~Verified(history, ledger)
    BY <1>5, <1>inv, <2>2 DEF OpenLedger, WindowInv, Stopped
  <2> QED BY <2>1, <2>2
<1>6. CASE PollPrimary
  <2>1. /\ (pc' = "idle" /\ polled' = polled) \/ pc' = "higher"
        /\ pc = "idle" /\ UNCHANGED <<service, window, history, pending>>
    BY <1>6 DEF PollPrimary
  <2> QED BY <1>inv, <2>1 DEF WindowInv, Stopped
<1>7. CASE HigherFails
  BY <1>7, <1>inv DEF HigherFails, WindowInv, Stopped
<1>8. CASE Apply
  <2>1. CASE pc' = "ledger"
    <3>1. /\ Accepted # {} /\ window' = window \cup Accepted
          /\ history' = history \cup Accepted /\ polled' = {} /\ service' = service
      BY <1>8, <2>1 DEF Apply
    <3>2. /\ Accepted \subseteq Candle /\ window \subseteq Candle /\ history \subseteq Candle
          /\ \A c \in Accepted : c > Last(window)
      BY <1>inv DEF Accepted, TypeOK
    <3>3. Last(window') = Last(Accepted) /\ Last(history') = Last(Accepted)
      BY <1>inv, <3>1, <3>2, LastOfJoin DEF WindowInv
    <3> QED BY <1>inv, <2>1, <3>1, <3>3 DEF WindowInv, Stopped
  <2>2. CASE pc' # "ledger"
    BY <1>8, <1>inv, <2>2 DEF Apply, WindowInv, Stopped
  <2> QED BY <2>1, <2>2
<1>9. CASE SaveLedger
  BY <1>9, <1>inv, AfterIs DEF SaveLedger, WindowInv, Stopped
<1>10. CASE SaveWindow
  BY <1>10, <1>inv, AfterIs DEF SaveWindow, WindowInv, Stopped
<1>11. CASE SaveCheckpoint
  <2>1. window \subseteq Candle /\ LocalBound \in Nat \ {0} /\ service = "checkpointed"
    BY <1>11, <1>inv, BoundAssumption DEF SaveCheckpoint, TypeOK, SourceInv
  <2>2. Last(window') = Last(window)
    BY <1>11, <2>1, NewestKeepsLast DEF SaveCheckpoint
  <2> QED BY <1>11, <1>inv, <2>1, <2>2, AfterIs DEF SaveCheckpoint, WindowInv, Stopped
<1>12. CASE Deliver
  <2>1. pending # {} /\ pc = "deliver" /\ pc' = pc
        /\ UNCHANGED <<service, window, history, polled>>
    BY <1>12 DEF Deliver
  <2> QED BY <1>inv, <2>1 DEF WindowInv, Stopped
<1>13. CASE CycleDone
  BY <1>13, <1>inv DEF CycleDone, WindowInv, Stopped
<1>14. CASE CandleCloses
  BY <1>14, <1>inv DEF CandleCloses, WindowInv, Stopped
<1>15. CASE Dies
  BY <1>15, <1>inv DEF Dies, WindowInv, Stopped
<1>16. CASE SpoilCheckpoint
  BY <1>16, <1>inv DEF SpoilCheckpoint, WindowInv, Stopped
<1>17. CASE LoseCheckpoint
  BY <1>17, <1>inv DEF LoseCheckpoint, WindowInv, Stopped
<1>18. CASE Upgrade
  BY <1>18, <1>inv DEF Upgrade, WindowInv, Stopped
<1>19. CASE UNCHANGED vars
  BY <1>19, <1>inv DEF vars, WindowInv, Stopped
<1> QED
  BY <1>1, <1>2, <1>3, <1>4, <1>5, <1>6, <1>7, <1>8, <1>9, <1>10, <1>11, <1>12, <1>13,
    <1>14, <1>15, <1>16, <1>17, <1>18, <1>19 DEF Next, Process

\* The ledger keeps up with the history.
LEMMA LedgerKept == IInv /\ [Next]_vars => LedgerInv'
<1> SUFFICES ASSUME IInv, [Next]_vars PROVE LedgerInv'
  OBVIOUS
<1> USE DEF marketVars, diskVars, cycleVars, faultVars
<1>inv. /\ TypeOK /\ sent \in Seq(Candle \X SUBSET Candle)
        /\ WindowInv /\ LedgerInv
  BY DEF IInv, DataOK
<1>1. CASE Start
  BY <1>1, <1>inv DEF Start, LedgerInv
<1>2. CASE RefuseCheckpoint
  BY <1>2, <1>inv DEF RefuseCheckpoint, LedgerInv
<1>3. CASE WarmUp
  BY <1>3, <1>inv DEF WarmUp, LedgerInv
<1>4. CASE InitialPoll
  BY <1>4, <1>inv DEF InitialPoll, LedgerInv
<1>5. CASE OpenLedger
  <2>1. CASE Verified(history, ledger)
    BY <1>5, <1>inv, <2>1, AfterIs DEF OpenLedger, LedgerInv
  <2>2. CASE ~Verified(history, ledger)
    BY <1>5, <1>inv, <2>2 DEF OpenLedger, LedgerInv
  <2> QED BY <2>1, <2>2
<1>6. CASE PollPrimary
  <2>1. pc = "idle" /\ pc' \in {"idle", "higher"} /\ UNCHANGED <<ledger, saved, history>>
    BY <1>6 DEF PollPrimary
  <2> QED BY <1>inv, <2>1 DEF LedgerInv
<1>7. CASE HigherFails
  BY <1>7, <1>inv DEF HigherFails, LedgerInv
<1>8. CASE Apply
  <2>1. CASE pc' = "ledger"
    <3>1. pc = "higher" /\ history' = history \cup Accepted /\ ledger' = ledger
      BY <1>8, <2>1 DEF Apply
    <3>2. /\ Accepted \subseteq Candle /\ history \subseteq Candle
          /\ \A c \in Accepted : c > Last(history)
      BY <1>inv DEF Accepted, TypeOK, WindowInv
    <3>3. LedgerOf(history).observed \subseteq LedgerOf(history').observed
      BY <3>1, <3>2, JoinHasPrefix, LedgerGrows
    <3> QED BY <1>inv, <2>1, <3>1, <3>3 DEF LedgerInv
  <2>2. CASE pc' # "ledger"
    BY <1>8, <1>inv, <2>2 DEF Apply, LedgerInv
  <2> QED BY <2>1, <2>2
<1>9. CASE SaveLedger
  BY <1>9, <1>inv, AfterIs DEF SaveLedger, LedgerInv
<1>10. CASE SaveWindow
  BY <1>10, <1>inv, AfterIs DEF SaveWindow, LedgerInv, WindowInv
<1>11. CASE SaveCheckpoint
  BY <1>11, <1>inv, AfterIs DEF SaveCheckpoint, LedgerInv
<1>12. CASE Deliver
  BY <1>12, <1>inv DEF Deliver, LedgerInv
<1>13. CASE CycleDone
  BY <1>13, <1>inv DEF CycleDone, LedgerInv
<1>14. CASE CandleCloses
  BY <1>14, <1>inv DEF CandleCloses, LedgerInv
<1>15. CASE Dies
  BY <1>15, <1>inv DEF Dies, LedgerInv
<1>16. CASE SpoilCheckpoint
  BY <1>16, <1>inv DEF SpoilCheckpoint, LedgerInv
<1>17. CASE LoseCheckpoint
  BY <1>17, <1>inv DEF LoseCheckpoint, LedgerInv
<1>18. CASE Upgrade
  BY <1>18, <1>inv DEF Upgrade, LedgerInv
<1>19. CASE UNCHANGED vars
  BY <1>19, <1>inv DEF vars, LedgerInv
<1> QED
  BY <1>1, <1>2, <1>3, <1>4, <1>5, <1>6, <1>7, <1>8, <1>9, <1>10, <1>11, <1>12, <1>13,
    <1>14, <1>15, <1>16, <1>17, <1>18, <1>19 DEF Next, Process

\* What was handed over stays durable.
LEMMA HandedOverKept == IInv /\ [Next]_vars => HandedOverIsDurable'
<1> SUFFICES ASSUME IInv, [Next]_vars PROVE HandedOverIsDurable'
  OBVIOUS
<1> USE DEF marketVars, diskVars, cycleVars, faultVars
<1>inv. /\ TypeOK /\ sent \in Seq(Candle \X SUBSET Candle)
        /\ WindowInv /\ LedgerInv /\ HandedOverIsDurable
  BY DEF IInv, DataOK
<1>1. CASE Start
  BY <1>1, <1>inv DEF Start, HandedOverIsDurable
<1>2. CASE RefuseCheckpoint
  BY <1>2, <1>inv DEF RefuseCheckpoint, HandedOverIsDurable
<1>3. CASE WarmUp
  BY <1>3, <1>inv DEF WarmUp, HandedOverIsDurable
<1>4. CASE InitialPoll
  BY <1>4, <1>inv DEF InitialPoll, HandedOverIsDurable
<1>5. CASE OpenLedger
  <2>1. CASE Verified(history, ledger) /\ ledger # NoLedger
    <3>1. ledger.observed \subseteq LedgerOf(history).observed
      BY <1>inv, <2>1, OpenedIsContained DEF TypeOK
    <3>2. ledger' = LedgerOf(history) /\ UNCHANGED <<saved, sent>>
      BY <1>5, <2>1 DEF OpenLedger
    <3> QED BY <1>inv, <3>1, <3>2 DEF HandedOverIsDurable
  <2>2. CASE ledger = NoLedger
    <3>1. DOMAIN sent = {}
      BY <1>inv, <2>2 DEF HandedOverIsDurable, NoLedger
    <3>2. sent' = sent
      BY <1>5 DEF OpenLedger
    <3> QED BY <3>1, <3>2 DEF HandedOverIsDurable
  <2>3. CASE ~Verified(history, ledger)
    <3>1. UNCHANGED <<ledger, saved, sent>>
      BY <1>5, <2>3 DEF OpenLedger
    <3> QED BY <1>inv, <3>1 DEF HandedOverIsDurable
  <2> QED BY <2>1, <2>2, <2>3
<1>6. CASE PollPrimary
  <2>1. UNCHANGED <<ledger, saved, sent>>
    BY <1>6 DEF PollPrimary
  <2> QED BY <1>inv, <2>1 DEF HandedOverIsDurable
<1>7. CASE HigherFails
  BY <1>7, <1>inv DEF HigherFails, HandedOverIsDurable
<1>8. CASE Apply
  BY <1>8, <1>inv DEF Apply, HandedOverIsDurable
<1>9. CASE SaveLedger
  <2>1. ledger.observed \subseteq LedgerOf(history).observed
    BY <1>9, <1>inv DEF SaveLedger, LedgerInv
  <2>2. ledger' = LedgerOf(history) /\ UNCHANGED <<saved, sent>>
    BY <1>9 DEF SaveLedger
  <2> QED BY <1>inv, <2>1, <2>2 DEF HandedOverIsDurable
<1>10. CASE SaveWindow
  <2>1. /\ pc = "window" /\ saved' = window /\ UNCHANGED <<ledger, sent>>
        /\ ledger = LedgerOf(history) /\ Last(window) = Last(history) /\ history \subseteq Candle
    BY <1>10, <1>inv DEF SaveWindow, LedgerInv, WindowInv, TypeOK
  <2>2. \A i \in DOMAIN sent : sent[i] \in LedgerOf(history).observed
    BY <1>inv, <2>1 DEF HandedOverIsDurable
  <2>3. \A i \in DOMAIN sent : sent[i][1] <= Last(history)
    BY <2>1, <2>2, ObservedIsPast
  <2> QED BY <2>1, <2>2, <2>3 DEF HandedOverIsDurable
<1>11. CASE SaveCheckpoint
  BY <1>11, <1>inv DEF SaveCheckpoint, HandedOverIsDurable
<1>12. CASE Deliver
  <2> DEFINE c == Min(pending)
  <2>1. /\ pc = "deliver" /\ sent' = Append(sent, Frame(history, c)) /\ pending # {}
        /\ UNCHANGED <<ledger, saved>>
    BY <1>12 DEF Deliver
  <2>2. c \in pending /\ pending \subseteq history \cap Buys /\ history \subseteq Candle
    BY <1>inv, <2>1, MinIsLeast, CandleIsNat DEF TypeOK
  <2>3. ledger = LedgerOf(history) /\ Last(saved) = Last(history)
    BY <1>inv, <2>1 DEF LedgerInv
  <2>4. Frame(history, c) \in ledger.observed
    BY <2>2, <2>3 DEF LedgerOf
  <2>5. Frame(history, c)[1] <= Last(saved)
    BY <2>2, <2>3, <2>4, ObservedIsPast
  <2> HIDE DEF c
  <2>6. \A i \in DOMAIN sent' :
          sent'[i] = Frame(history, c) \/ (i \in DOMAIN sent /\ sent'[i] = sent[i])
    BY <1>inv, <2>1
  <2> QED BY <1>inv, <2>1, <2>4, <2>5, <2>6 DEF HandedOverIsDurable
<1>13. CASE CycleDone
  BY <1>13, <1>inv DEF CycleDone, HandedOverIsDurable
<1>14. CASE CandleCloses
  BY <1>14, <1>inv DEF CandleCloses, HandedOverIsDurable
<1>15. CASE Dies
  BY <1>15, <1>inv DEF Dies, HandedOverIsDurable
<1>16. CASE SpoilCheckpoint
  BY <1>16, <1>inv DEF SpoilCheckpoint, HandedOverIsDurable
<1>17. CASE LoseCheckpoint
  BY <1>17, <1>inv DEF LoseCheckpoint, HandedOverIsDurable
<1>18. CASE Upgrade
  BY <1>18, <1>inv DEF Upgrade, HandedOverIsDurable
<1>19. CASE UNCHANGED vars
  BY <1>19, <1>inv DEF vars, HandedOverIsDurable
<1> QED
  BY <1>1, <1>2, <1>3, <1>4, <1>5, <1>6, <1>7, <1>8, <1>9, <1>10, <1>11, <1>12, <1>13,
    <1>14, <1>15, <1>16, <1>17, <1>18, <1>19 DEF Next, Process

\* The order of what is handed over is kept.
LEMMA OrderKept == IInv /\ [Next]_vars => OrderInv'
<1> SUFFICES ASSUME IInv, [Next]_vars PROVE OrderInv'
  OBVIOUS
<1> USE DEF marketVars, diskVars, cycleVars, faultVars
<1>inv. /\ TypeOK /\ sent \in Seq(Candle \X SUBSET Candle)
        /\ WindowInv /\ LedgerInv /\ HandedOverIsDurable /\ OrderInv
  BY DEF IInv, DataOK
<1>1. CASE Start
  BY <1>1, <1>inv DEF Start, OrderInv, SentOnceInOrder
<1>2. CASE RefuseCheckpoint
  BY <1>2, <1>inv DEF RefuseCheckpoint, OrderInv, SentOnceInOrder
<1>3. CASE WarmUp
  BY <1>3, <1>inv DEF WarmUp, OrderInv, SentOnceInOrder
<1>4. CASE InitialPoll
  BY <1>4, <1>inv DEF InitialPoll, OrderInv, SentOnceInOrder
<1>5. CASE OpenLedger
  <2>1. pending' = pending /\ sent' = sent
    BY <1>5 DEF OpenLedger
  <2> QED BY <1>inv, <2>1 DEF OrderInv, SentOnceInOrder
<1>6. CASE PollPrimary
  <2>1. UNCHANGED <<pending, sent>>
    BY <1>6 DEF PollPrimary
  <2> QED BY <1>inv, <2>1 DEF OrderInv, SentOnceInOrder
<1>7. CASE HigherFails
  BY <1>7, <1>inv DEF HigherFails, OrderInv, SentOnceInOrder
<1>8. CASE Apply
  <2>1. CASE pc' = "ledger"
    <3>1. pc = "higher" /\ pending' = Accepted \cap Buys /\ sent' = sent
      BY <1>8, <2>1 DEF Apply
    <3>2. /\ Last(saved) = Last(history) /\ Last(window) = Last(history)
          /\ Last(history) \in Int
      BY <1>inv, <3>1, LastIsLast DEF LedgerInv, WindowInv, TypeOK
    <3>3. \A c \in Accepted : c \in Nat /\ c > Last(history)
      BY <1>inv, <3>2, CandleIsNat DEF Accepted, TypeOK
    <3>4. \A i \in DOMAIN sent : sent[i][1] \in Nat /\ sent[i][1] <= Last(history)
      <4>1. \A i \in DOMAIN sent : sent[i] \in Candle \X SUBSET Candle
        BY <1>inv
      <4> QED BY <1>inv, <3>2, <4>1, CandleIsNat DEF HandedOverIsDurable
    <3>5. \A i \in DOMAIN sent : \A c \in Accepted : sent[i][1] < c
      BY <3>2, <3>3, <3>4
    <3> QED BY <1>inv, <3>1, <3>5 DEF OrderInv, SentOnceInOrder
  <2>2. CASE pc' # "ledger"
    BY <1>8, <1>inv, <2>2 DEF Apply, OrderInv, SentOnceInOrder
  <2> QED BY <2>1, <2>2
<1>9. CASE SaveLedger
  BY <1>9, <1>inv DEF SaveLedger, OrderInv, SentOnceInOrder
<1>10. CASE SaveWindow
  BY <1>10, <1>inv DEF SaveWindow, OrderInv, SentOnceInOrder
<1>11. CASE SaveCheckpoint
  BY <1>11, <1>inv DEF SaveCheckpoint, OrderInv, SentOnceInOrder
<1>12. CASE Deliver
  <2> DEFINE c == Min(pending)
  <2>1. /\ sent' = Append(sent, Frame(history, c)) /\ pending # {} /\ pending' = pending \ {c}
    BY <1>12 DEF Deliver
  <2>2. c \in pending /\ pending \subseteq Nat /\ \A d \in pending : c <= d
    BY <1>inv, <2>1, MinIsLeast, CandleIsNat DEF TypeOK
  <2>3. Frame(history, c)[1] = c
    BY DEF Frame
  <2> HIDE DEF c
  <2>4. \A d \in pending' : c < d
    BY <2>1, <2>2
  <2>5. \A i \in DOMAIN sent : sent[i][1] < c /\ sent[i][1] \in Nat
    <3>1. \A i \in DOMAIN sent : sent[i] \in Candle \X SUBSET Candle
      BY <1>inv
    <3> QED BY <1>inv, <2>2, <3>1, CandleIsNat DEF OrderInv
  <2>6. /\ DOMAIN sent' = 1 .. Len(sent) + 1 /\ DOMAIN sent = 1 .. Len(sent) /\ Len(sent) \in Nat
        /\ \A i \in 1 .. Len(sent) : sent'[i] = sent[i]
        /\ sent'[Len(sent) + 1] = Frame(history, c)
    BY <1>inv, <2>1
  <2>7. SentOnceInOrder'
    <3>1. SUFFICES ASSUME NEW i \in DOMAIN sent', NEW j \in DOMAIN sent', i < j
                   PROVE  sent'[i][1] < sent'[j][1]
      BY DEF SentOnceInOrder
    <3>2. i \in DOMAIN sent /\ sent'[i] = sent[i]
      BY <2>6, <3>1
    <3>3. CASE j = Len(sent) + 1
      BY <2>3, <2>5, <2>6, <3>2, <3>3
    <3>4. CASE j # Len(sent) + 1
      <4>1. j \in DOMAIN sent /\ sent'[j] = sent[j]
        BY <2>6, <3>4
      <4> QED BY <1>inv, <3>1, <3>2, <4>1 DEF OrderInv, SentOnceInOrder
    <3> QED BY <3>3, <3>4
  <2>8. \A i \in DOMAIN sent' : \A d \in pending' : sent'[i][1] < d
    <3>1. SUFFICES ASSUME NEW i \in DOMAIN sent', NEW d \in pending' PROVE sent'[i][1] < d
      OBVIOUS
    <3>2. c < d /\ d \in Nat /\ c \in Nat
      BY <2>1, <2>2, <2>4
    <3>3. CASE i \in DOMAIN sent
      BY <2>5, <2>6, <3>2, <3>3
    <3>4. CASE i \notin DOMAIN sent
      <4>1. i = Len(sent) + 1
        BY <2>6, <3>4
      <4> QED BY <2>3, <2>6, <3>2, <4>1
    <3> QED BY <3>3, <3>4
  <2> QED BY <2>7, <2>8 DEF OrderInv
<1>13. CASE CycleDone
  BY <1>13, <1>inv DEF CycleDone, OrderInv, SentOnceInOrder
<1>14. CASE CandleCloses
  BY <1>14, <1>inv DEF CandleCloses, OrderInv, SentOnceInOrder
<1>15. CASE Dies
  BY <1>15, <1>inv DEF Dies, OrderInv, SentOnceInOrder
<1>16. CASE SpoilCheckpoint
  BY <1>16, <1>inv DEF SpoilCheckpoint, OrderInv, SentOnceInOrder
<1>17. CASE LoseCheckpoint
  BY <1>17, <1>inv DEF LoseCheckpoint, OrderInv, SentOnceInOrder
<1>18. CASE Upgrade
  BY <1>18, <1>inv DEF Upgrade, OrderInv, SentOnceInOrder
<1>19. CASE UNCHANGED vars
  BY <1>19, <1>inv DEF vars, OrderInv, SentOnceInOrder
<1> QED
  BY <1>1, <1>2, <1>3, <1>4, <1>5, <1>6, <1>7, <1>8, <1>9, <1>10, <1>11, <1>12, <1>13,
    <1>14, <1>15, <1>16, <1>17, <1>18, <1>19 DEF Next, Process

\* The gap-aware service lets no gap in.
LEMMA GapKept == IInv /\ [Next]_vars => GapInv'
<1> SUFFICES ASSUME IInv, [Next]_vars PROVE GapInv'
  OBVIOUS
<1> USE DEF marketVars, diskVars, cycleVars, faultVars
<1>inv. /\ TypeOK /\ sent \in Seq(Candle \X SUBSET Candle)
        /\ WindowInv /\ GapInv /\ SourceInv
  BY DEF IInv, DataOK
<1>1. CASE Start
  BY <1>1, <1>inv DEF Start, GapInv, GapAwareIsContiguous, GapAware
<1>2. CASE RefuseCheckpoint
  BY <1>2, <1>inv DEF RefuseCheckpoint, GapInv, GapAwareIsContiguous, GapAware
<1>3. CASE WarmUp
  BY <1>3, <1>inv DEF WarmUp, GapInv, GapAwareIsContiguous, GapAware
<1>4. CASE InitialPoll
  BY <1>4, <1>inv DEF InitialPoll, BatchUsable, GapInv, GapAwareIsContiguous, GapAware
<1>5. CASE OpenLedger
  <2>1. /\ UNCHANGED <<service, window, history, polled>> \/ pc' = "refused"
        /\ pc = "open" /\ pc' # "higher" /\ service' = service
    BY <1>5, AfterIs DEF OpenLedger
  <2> QED BY <1>inv, <2>1 DEF GapInv, GapAwareIsContiguous, GapAware
<1>6. CASE PollPrimary
  <2> DEFINE fresh == {c \in Batch : c > cursor}
  <2>1. /\ pc = "idle" /\ BatchUsable /\ UNCHANGED <<service, window, history>>
        /\ pc' = pc \/ (pc' = "higher" /\ polled' = fresh)
    BY <1>6 DEF PollPrimary
  <2>2. GapAware => Contiguous(Batch)
    BY <2>1 DEF BatchUsable
  <2>3. Batch \subseteq Nat /\ cursor \in Nat
    <3>1. Batch \subseteq Candle /\ cursor \in 0 .. MaxCandle
      BY <1>inv, BatchIsCandles DEF TypeOK
    <3> QED BY <3>1, CandleIsNat, BoundAssumption
  <2>4. GapAware => Contiguous(fresh)
    BY <2>2, <2>3 DEF Contiguous
  <2> HIDE DEF fresh
  <2> QED BY <1>inv, <2>1, <2>4 DEF GapInv, GapAwareIsContiguous, GapAware
<1>7. CASE HigherFails
  BY <1>7, <1>inv DEF HigherFails, GapInv, GapAwareIsContiguous, GapAware
<1>8. CASE Apply
  <2>1. CASE pc' = "ledger" /\ GapAware
    <3>1. /\ pc = "higher" /\ window' = window \cup Accepted /\ history' = history \cup Accepted
          /\ service' = service /\ ~GapAfter(Last(window), polled)
      BY <1>8, <2>1 DEF Apply
    <3>2. /\ window = history /\ window # {} /\ window \subseteq Candle /\ polled \subseteq Candle
      BY <1>inv, <2>1, <3>1 DEF WindowInv, GapAware, Stopped, TypeOK
    <3>3. Contiguous(window) /\ Contiguous(polled)
      BY <1>inv, <2>1, <3>1 DEF GapInv, GapAwareIsContiguous
    <3>4. Contiguous(window')
      BY <3>1, <3>2, <3>3, ContiguousJoin DEF Accepted
    <3> QED BY <2>1, <3>1, <3>2, <3>4 DEF GapInv, GapAwareIsContiguous, GapAware
  <2>2. CASE ~GapAware
    BY <1>8, <2>2 DEF Apply, GapInv, GapAwareIsContiguous, GapAware
  <2>3. CASE pc' # "ledger"
    BY <1>8, <1>inv, <2>3 DEF Apply, GapInv, GapAwareIsContiguous, GapAware
  <2> QED BY <2>1, <2>2, <2>3
<1>9. CASE SaveLedger
  BY <1>9, <1>inv, AfterIs DEF SaveLedger, GapInv, GapAwareIsContiguous, GapAware
<1>10. CASE SaveWindow
  BY <1>10, <1>inv, AfterIs DEF SaveWindow, GapInv, GapAwareIsContiguous, GapAware
<1>11. CASE SaveCheckpoint
  <2>1. service = "checkpointed" /\ service' = service
    BY <1>11, <1>inv DEF SaveCheckpoint, SourceInv
  <2> QED BY <2>1 DEF GapInv, GapAwareIsContiguous, GapAware
<1>12. CASE Deliver
  <2>1. pc = "deliver" /\ UNCHANGED <<pc, service, window, history>>
    BY <1>12 DEF Deliver
  <2> QED BY <1>inv, <2>1 DEF GapInv, GapAwareIsContiguous, GapAware
<1>13. CASE CycleDone
  BY <1>13, <1>inv DEF CycleDone, GapInv, GapAwareIsContiguous, GapAware
<1>14. CASE CandleCloses
  BY <1>14, <1>inv DEF CandleCloses, GapInv, GapAwareIsContiguous, GapAware
<1>15. CASE Dies
  BY <1>15, <1>inv DEF Dies, GapInv, GapAwareIsContiguous, GapAware
<1>16. CASE SpoilCheckpoint
  BY <1>16, <1>inv DEF SpoilCheckpoint, GapInv, GapAwareIsContiguous, GapAware
<1>17. CASE LoseCheckpoint
  BY <1>17, <1>inv DEF LoseCheckpoint, GapInv, GapAwareIsContiguous, GapAware
<1>18. CASE Upgrade
  BY <1>18, <1>inv DEF Upgrade, GapInv, GapAwareIsContiguous, GapAware
<1>19. CASE UNCHANGED vars
  BY <1>19, <1>inv DEF vars, GapInv, GapAwareIsContiguous, GapAware
<1> QED
  BY <1>1, <1>2, <1>3, <1>4, <1>5, <1>6, <1>7, <1>8, <1>9, <1>10, <1>11, <1>12, <1>13,
    <1>14, <1>15, <1>16, <1>17, <1>18, <1>19 DEF Next, Process

\* The recovery source stays that of the ledger.
LEMMA SourceKept == IInv /\ [Next]_vars => SourceInv'
<1> SUFFICES ASSUME IInv, [Next]_vars PROVE SourceInv'
  OBVIOUS
<1> USE DEF marketVars, diskVars, cycleVars, faultVars
<1>inv. /\ TypeOK /\ sent \in Seq(Candle \X SUBSET Candle)
        /\ WindowInv /\ LedgerInv /\ SourceInv
  BY DEF IInv, DataOK
<1>1. CASE Start
  BY <1>1, <1>inv DEF Start, SourceInv, RefusedOnlyWhenTorn, UntrustedStopsTheService,
      RecoverySource
<1>2. CASE RefuseCheckpoint
  BY <1>2, <1>inv DEF RefuseCheckpoint, Untrusted, SourceInv, RefusedOnlyWhenTorn,
      UntrustedStopsTheService, RecoverySource
<1>3. CASE WarmUp
  <2>1. /\ pc = "load" /\ ~Untrusted /\ UNCHANGED <<diskVars, service, faultVars>>
        /\ pc' = "down" \/ (pc' = "open" /\ history' = RecoverySource)
    BY <1>3 DEF WarmUp
  <2> QED BY <1>inv, <2>1 DEF Untrusted, SourceInv, RefusedOnlyWhenTorn,
      UntrustedStopsTheService, RecoverySource
<1>4. CASE InitialPoll
  <2>1. /\ pc = "load" /\ RecoverySource = {} /\ UNCHANGED <<diskVars, service, faultVars>>
        /\ pc' \in {"down", "open"}
    BY <1>4 DEF InitialPoll
  <2> QED BY <1>inv, <2>1 DEF SourceInv, RefusedOnlyWhenTorn, UntrustedStopsTheService,
                            RecoverySource
<1>5. CASE OpenLedger
  <2>1. CASE Verified(history, ledger)
    BY <1>5, <1>inv, <2>1, AfterIs DEF OpenLedger, SourceInv, RefusedOnlyWhenTorn,
        UntrustedStopsTheService, RecoverySource
  <2>2. CASE ~Verified(history, ledger)
    <3>1. /\ pc = "open" /\ pc' = "refused"
          /\ UNCHANGED <<ledger, saved, checkpoint, service, faultVars>>
      BY <1>5, <2>2 DEF OpenLedger
    <3>2. torn \/ fault # "none"
      <4>1. ledger # NoLedger /\ ~(ledger = LedgerOf(history))
        BY <1>inv, <2>2, OwnHistoryOpens DEF Verified, TypeOK
      <4>2. \/ ledger = LedgerOf(RecoverySource) /\ history = RecoverySource
            \/ torn
            \/ fault = "lost"
        BY <1>inv, <3>1, <4>1 DEF SourceInv
      <4> QED BY <4>1, <4>2
    <3> QED BY <1>inv, <3>1, <3>2 DEF SourceInv, RefusedOnlyWhenTorn, UntrustedStopsTheService,
                                    RecoverySource
  <2> QED BY <2>1, <2>2
<1>6. CASE PollPrimary
  <2>1. /\ pc = "idle" /\ pc' \in {"idle", "higher"}
        /\ UNCHANGED <<diskVars, service, faultVars>>
    BY <1>6 DEF PollPrimary
  <2> QED BY <1>inv, <2>1 DEF SourceInv, RefusedOnlyWhenTorn, UntrustedStopsTheService,
                            RecoverySource
<1>7. CASE HigherFails
  BY <1>7, <1>inv DEF HigherFails, SourceInv, RefusedOnlyWhenTorn, UntrustedStopsTheService,
      RecoverySource
<1>8. CASE Apply
  <2>1. /\ pc = "higher" /\ pc' \in {"idle", "ledger"}
        /\ UNCHANGED <<diskVars, service, faultVars>>
    BY <1>8 DEF Apply
  <2> QED BY <1>inv, <2>1 DEF SourceInv, RefusedOnlyWhenTorn, UntrustedStopsTheService,
                            RecoverySource
<1>9. CASE SaveLedger
  BY <1>9, <1>inv, AfterIs DEF SaveLedger, SourceInv, RefusedOnlyWhenTorn,
      UntrustedStopsTheService, RecoverySource
<1>10. CASE SaveWindow
  <2>1. /\ pc = "window" /\ saved' = window /\ pc' = After("window")
        /\ torn' = (torn /\ service = "checkpointed")
        /\ UNCHANGED <<ledger, checkpoint, service, fault>>
    BY <1>10 DEF SaveWindow
  <2>2. ledger = LedgerOf(history) /\ history # {}
    BY <1>inv, <2>1 DEF LedgerInv, WindowInv, Stopped
  <2>3. CASE service = "checkpointed"
    BY <1>inv, <2>1, <2>3, AfterIs DEF SourceInv, RefusedOnlyWhenTorn, UntrustedStopsTheService
  <2>4. CASE service # "checkpointed"
    <3>1. /\ RecoverySource' = history /\ pc' = "deliver" /\ torn' = FALSE
          /\ checkpoint' = {} /\ service' # "checkpointed"
      BY <1>inv, <2>1, <2>4, AfterIs DEF RecoverySource, WindowInv, SourceInv
    <3> QED BY <1>inv, <2>1, <2>2, <2>4, <3>1
         DEF SourceInv, RefusedOnlyWhenTorn, UntrustedStopsTheService
  <2> QED BY <2>3, <2>4
<1>11. CASE SaveCheckpoint
  <2>1. /\ pc = "checkpoint" /\ checkpoint' = history /\ pc' = "deliver" /\ torn' = FALSE
        /\ UNCHANGED <<ledger, service, fault>>
    BY <1>11, AfterIs DEF SaveCheckpoint, Exported
  <2>2. ledger = LedgerOf(history) /\ history # {} /\ service = "checkpointed"
    BY <1>inv, <2>1 DEF LedgerInv, WindowInv, Stopped, SourceInv
  <2>3. RecoverySource' = history
    BY <2>1, <2>2 DEF RecoverySource
  <2> QED BY <1>inv, <2>1, <2>2, <2>3 DEF SourceInv, RefusedOnlyWhenTorn, UntrustedStopsTheService
<1>12. CASE Deliver
  <2>1. pc = "deliver" /\ UNCHANGED <<pc, diskVars, service, faultVars>>
    BY <1>12 DEF Deliver
  <2> QED BY <1>inv, <2>1 DEF SourceInv, RefusedOnlyWhenTorn, UntrustedStopsTheService,
                            RecoverySource
<1>13. CASE CycleDone
  BY <1>13, <1>inv DEF CycleDone, SourceInv, RefusedOnlyWhenTorn, UntrustedStopsTheService,
      RecoverySource
<1>14. CASE CandleCloses
  BY <1>14, <1>inv DEF CandleCloses, SourceInv, RefusedOnlyWhenTorn, UntrustedStopsTheService,
      RecoverySource
<1>15. CASE Dies
  <2>1. /\ pc \notin {"down", "refused"} /\ pc' = "down"
        /\ torn' = (torn \/ pc \in {"window", "checkpoint"})
        /\ UNCHANGED <<diskVars, service, fault>>
    BY <1>15 DEF Dies
  <2> QED BY <1>inv, <2>1 DEF SourceInv, RefusedOnlyWhenTorn, UntrustedStopsTheService,
                            RecoverySource
<1>16. CASE SpoilCheckpoint
  <2>1. service = "checkpointed"
    BY <1>16, <1>inv DEF SpoilCheckpoint, SourceInv
  <2> QED BY <1>16, <1>inv, <2>1 DEF SpoilCheckpoint, SourceInv, RefusedOnlyWhenTorn,
      UntrustedStopsTheService, RecoverySource
<1>17. CASE LoseCheckpoint
  BY <1>17, <1>inv DEF LoseCheckpoint, SourceInv, RefusedOnlyWhenTorn, UntrustedStopsTheService,
      RecoverySource
<1>18. CASE Upgrade
  <2>1. pc = "down" /\ service = "plain" /\ service' = "gap_aware"
        /\ UNCHANGED <<diskVars, pc, history, faultVars>>
    BY <1>18 DEF Upgrade
  <2> QED BY <1>inv, <2>1 DEF SourceInv, RefusedOnlyWhenTorn, UntrustedStopsTheService,
                            RecoverySource
<1>19. CASE UNCHANGED vars
  BY <1>19, <1>inv DEF vars, SourceInv, RefusedOnlyWhenTorn, UntrustedStopsTheService,
      RecoverySource
<1> QED
  BY <1>1, <1>2, <1>3, <1>4, <1>5, <1>6, <1>7, <1>8, <1>9, <1>10, <1>11, <1>12, <1>13,
    <1>14, <1>15, <1>16, <1>17, <1>18, <1>19 DEF Next, Process

-----------------------------------------------------------------------------
(* The theorems. *)

\* Nothing has happened: nothing is remembered, written or handed over.
LEMMA InitInv == Init => IInv
<1> SUFFICES ASSUME Init PROVE IInv
  OBVIOUS
<1>1. sent = <<>> /\ DOMAIN sent = {} /\ holes \subseteq Candle
  BY MarketAssumption DEF Init
<1>2. DataOK
  <2>1. 0 \in 0 .. MaxCandle /\ 0 \in 0 .. MaxDeaths
    BY BoundAssumption
  <2>2. ledger.observed = {} /\ <<>> \in Seq(Candle \X SUBSET Candle)
    BY DEF Init, NoLedger
  <2> QED BY <1>1, <2>1, <2>2 DEF Init, DataOK, TypeOK
<1>3. WindowInv /\ LedgerInv /\ SourceInv
  BY DEF Init, WindowInv, LedgerInv, SourceInv, Stopped, RefusedOnlyWhenTorn,
         UntrustedStopsTheService
<1>4. HandedOverIsDurable /\ OrderInv
  BY <1>1 DEF HandedOverIsDurable, OrderInv, SentOnceInOrder
<1>5. GapInv
  BY DEF Init, GapInv, GapAwareIsContiguous
<1> QED BY <1>2, <1>3, <1>4, <1>5 DEF IInv

\* Every step of the process, of the market and of the world around keeps it.
LEMMA StepInv == IInv /\ [Next]_vars => IInv'
BY DataKept, WindowKept, LedgerKept, HandedOverKept, OrderKept, GapKept, SourceKept DEF IInv

\* The inductive invariant holds in every state.
THEOREM CycleInvariant == Spec => []IInv
BY InitInv, StepInv, PTL DEF Spec

\* The state of the service is well typed.
THEOREM CycleTypeOK == Spec => []TypeOK
<1>1. IInv => TypeOK
  BY DEF IInv, DataOK
<1> QED BY <1>1, CycleInvariant, PTL

\* A signal that reached delivery is in the durable ledger, and behind the
\* durable window, whenever the process dies (LiveService.run_cycle).
THEOREM DurableBeforeDelivery == Spec => []HandedOverIsDurable
<1>1. IInv => HandedOverIsDurable
  BY DEF IInv
<1> QED BY <1>1, CycleInvariant, PTL

\* Signals are handed over in candle order and each at most once, across deaths,
\* lost polls and repeated histories (_accept_primary and the cursors).
THEOREM HandedOverOnce == Spec => []SentOnceInOrder
<1>1. IInv => SentOnceInOrder
  BY DEF IInv, OrderInv
<1> QED BY <1>1, CycleInvariant, PTL

\* No history with a gap reaches the gap-aware service (detect_internal_gap and
\* detect_continuity_gap), for any history limit and any holes of the market.
THEOREM NoGapGetsIn == Spec => []GapAwareIsContiguous
<1>1. IInv => GapAwareIsContiguous
  BY DEF IInv, GapInv
<1> QED BY <1>1, CycleInvariant, PTL

\* Restarts go on from the ledger where the process left it, and are refused
\* only after a torn write or when something befell the checkpoint
\* (open_ledger_session and start_live_service).
THEOREM RestartsAreFaithful == Spec => []RestartIsFaithful
<1>1. IInv => RestartReproduces
  <2>1. SUFFICES ASSUME IInv, pc \in {"idle", "higher", "ledger", "deliver"}, fault # "lost"
                 PROVE  Verified(RecoverySource, ledger)
    BY DEF RestartReproduces
  <2>2. CASE ledger = NoLedger
    BY <2>2 DEF Verified
  <2>3. CASE ledger # NoLedger
    <3>1. ledger = LedgerOf(RecoverySource)
      BY <2>1, <2>3 DEF IInv, SourceInv
    <3>2. RecoverySource \subseteq Candle
      BY <2>1 DEF IInv, DataOK, TypeOK, RecoverySource
    <3> QED BY <3>1, <3>2, OwnHistoryOpens
  <2> QED BY <2>2, <2>3
<1>2. IInv => RefusedOnlyWhenTorn /\ UntrustedStopsTheService
  BY DEF IInv, SourceInv
<1>3. IInv => RestartIsFaithful
  BY <1>1, <1>2 DEF RestartIsFaithful
<1> QED BY <1>3, CycleInvariant, PTL

-----------------------------------------------------------------------------
(* The poll loop and what the operator sees of it.                         *)

USE DEF Outcome, Report, Places

-----------------------------------------------------------------------------
(* The candle grid. *)

\* A later moment is in no earlier candle.
LEMMA CandleGrows ==
    ASSUME NEW a \in Nat, NEW b \in Nat, a <= b
    PROVE  CandleOf(a) \in Nat /\ CandleOf(a) <= CandleOf(b)
  BY GridAssumption DEF CandleOf

\* A target on the next boundary, with jitter, is in a later candle.
LEMMA NextCandle ==
    ASSUME NEW now \in Nat, NEW jitter \in Nat
    PROVE  /\ NextPollTime(now) + jitter \in Nat
           /\ NextPollTime(now) + jitter > now
           /\ CandleOf(NextPollTime(now) + jitter) > CandleOf(now)
  <1>1. now \div Interval \in Nat
    BY GridAssumption
  <1>2. (now \div Interval + 1) * Interval \in Nat
    BY <1>1, GridAssumption
  <1>3. now < (now \div Interval + 1) * Interval
    BY GridAssumption
  <1>4. ((now \div Interval + 1) * Interval + jitter) \div Interval > now \div Interval
    BY GridAssumption
  <1> QED BY <1>2, <1>3, <1>4 DEF NextPollTime, CandleOf

\* The wait after a failure is at least what the server asked for.
LEMMA BackoffIsBounded ==
    ASSUME NEW n \in Nat \ {0}, NEW delay \in Nat \cup {None}
    PROVE  /\ Backoff(n, delay) \in Nat
           /\ delay # None => Backoff(n, delay) >= delay
           /\ delay = None => Backoff(n, delay) <= BackoffCap
  <1>1. Smaller(n - 1, MaxExponent) \in 0 .. MaxExponent
    BY DoublingAssumption DEF Smaller
  <1> DEFINE power == 2 ^ Smaller(n - 1, MaxExponent)
  <1>2. power \in Nat
    BY <1>1, DoublingAssumption
  <1> HIDE DEF power
  <1>3. BackoffBase * power \in Nat
    BY <1>2, BackoffAssumption
  <1>4. CappedBackoff(n) \in Nat /\ CappedBackoff(n) <= BackoffCap
    BY <1>3, BackoffAssumption DEF CappedBackoff, Smaller, power
  <1> QED BY <1>4, EnvironmentAssumption DEF Backoff, Larger

\* Time moves forward, within the horizon.
LEMMA ClockNeverGoesBack ==
    ASSUME clock \in 0 .. ClockEnd, NEW d \in Nat
    PROVE  Later(d) \in 0 .. ClockEnd /\ Later(d) >= clock
  BY GridAssumption DEF Later, Smaller

-----------------------------------------------------------------------------
(* Type correctness. *)

(* After a cycle that the loop repeats there is a failure to back off from, and
   a sleep has time to wait for. *)
PlanHasFailure == place = "plan" /\ outcome = "recoverable" => failures > 0
SleepHasTime   == place = "sleep" => clock < target

TypeInv == LoopTypeOK /\ PlanHasFailure /\ SleepHasTime

\* Leaving run() keeps the types.
LEMMA LeaveTypes ==
    ASSUME TypeInv, NEW how \in {"stopped", "stalled", "observer", "fatal", "finished"},
           Leave(how), clock' \in 0 .. ClockEnd
    PROVE  TypeInv'
  BY BackoffAssumption
     DEF TypeInv, LoopTypeOK, PlanHasFailure, SleepHasTime, Leave, ForgetCycle, loopVars

\* An observer only takes time.
LEMMA ObserverTime ==
    ASSUME LoopTypeOK, \E d \in Durations : clock' = Later(d)
    PROVE  clock' \in 0 .. ClockEnd /\ clock' >= clock
  BY ClockNeverGoesBack, EnvironmentAssumption DEF LoopTypeOK

\* So does a sleep.
LEMMA SleepTime ==
    ASSUME TypeInv, Sleep
    PROVE  clock' \in 0 .. ClockEnd /\ clock' >= clock
  <1>1. CASE clock' = clock
    BY <1>1 DEF TypeInv, LoopTypeOK
  <1>2. ASSUME NEW d \in Overshoots, clock' = Later(Smaller(target - clock, Chunk) + d)
        PROVE  clock' \in 0 .. ClockEnd /\ clock' >= clock
    <2>1. target \in Nat /\ clock \in 0 .. ClockEnd /\ target - clock > 0 /\ d \in Nat
      BY EnvironmentAssumption DEF Sleep, TypeInv, LoopTypeOK, SleepHasTime
    <2>2. Smaller(target - clock, Chunk) + d \in Nat
      BY <2>1, BackoffAssumption, GridAssumption DEF Smaller
    <2> QED BY <1>2, <2>1, <2>2, ClockNeverGoesBack
  <1> QED BY <1>1, <1>2 DEF Sleep

\* A loop that was not started is well typed.
LEMMA TypeInit == LoopInit => TypeInv
  BY GridAssumption, BackoffAssumption, EnvironmentAssumption
     DEF LoopInit, TypeInv, LoopTypeOK, PlanHasFailure, SleepHasTime

\* Every step keeps the types.
LEMMA TypeStep == TypeInv /\ [LoopNext]_pollVars => TypeInv'
  <1> SUFFICES ASSUME TypeInv, [LoopNext]_pollVars PROVE TypeInv'
    OBVIOUS
  <1> USE DEF TypeInv, LoopTypeOK, PlanHasFailure, SleepHasTime, waitVars, runVars, outcomeVars,
              loopVars, ghostVars
  <1>1. CASE UNCHANGED pollVars
    BY <1>1 DEF pollVars
  <1>2. CASE RequestStop
    BY <1>2 DEF RequestStop
  <1>3. CASE RunStopped
    BY <1>3, LeaveTypes DEF RunStopped
  <1>4. CASE Run
    <2> PICK jitter \in JitterMin .. JitterMax :
            WaitUntil(NextPollTime(clock) + jitter) /\ nextPollAt' = NextPollTime(clock) + jitter
      BY <1>4 DEF Run
    <2>0. clock \in Nat /\ jitter \in Nat
      BY GridAssumption
    <2>1. NextPollTime(clock) + jitter \in Nat
      BY <2>0, NextCandle
    <2> QED BY <1>4, <2>1, BackoffAssumption DEF Run, WaitUntil
  <1>5. CASE HonourStop
    BY <1>5, LeaveTypes DEF HonourStop
  <1>6. CASE KeepWaiting
    BY <1>6 DEF KeepWaiting
  <1>7. CASE Due
    BY <1>7 DEF Due
  <1>8. CASE NotDue
    <2>1. StalledNow \in 0 .. MaxStalled
      BY <1>8, BackoffAssumption DEF NotDue, StalledNow
    <2> QED BY <1>8, <2>1 DEF NotDue
  <1>9. CASE ClockIsBroken
    BY <1>9, LeaveTypes DEF ClockIsBroken
  <1>10. CASE Sleep
    BY <1>10, SleepTime DEF Sleep
  <1>11. CASE BeginCycle
    BY <1>11 DEF BeginCycle
  <1>12. CASE CycleEnds
    <2>1. clock' \in 0 .. ClockEnd /\ clock' >= clock
      BY <1>12, ObserverTime DEF CycleEnds
    <2> PICK result \in Outcome, delay \in RetryAfters :
            /\ outcome' = result /\ holder' = HolderAfter(result, delay)
            /\ asked' = [at |-> clock', delay |-> RetryAfterDelay(delay)]
            /\ served' = IF result = "success" THEN CandleOf(clock') ELSE served
            /\ report' \in IF result = "success" THEN Report \ {"none"} ELSE {"none"}
      BY <1>12 DEF CycleEnds
    <2>2. RetryAfterDelay(delay) \in 0 .. MaxRetryAfter \cup {None}
      BY EnvironmentAssumption, BackoffAssumption DEF RetryAfterDelay, Smaller
    <2>3. CandleOf(clock') \in Nat
      BY <2>1, CandleGrows
    <2> QED BY <1>12, <2>1, <2>2, <2>3 DEF CycleEnds, HolderAfter
  <1>13. CASE Count
    BY <1>13 DEF Count, FailuresAfter
  <1>14. CASE Plan
    <2>1. nextAt' \in Nat \cup {None}
      <3>1. CASE Stopping
        BY <1>14, <3>1 DEF Plan, NextTargets
      <3>2. CASE ~Stopping /\ outcome = "success"
        BY <1>14, <3>2, NextCandle, GridAssumption DEF Plan, NextTargets
      <3>3. CASE ~Stopping /\ outcome = "recoverable"
        <4>1. failures \in Nat \ {0} /\ holder \in Nat \cup {None}
          BY <1>14, <3>3, BackoffAssumption DEF Plan
        <4>2. Backoff(failures, holder) \in Nat
          BY <4>1, BackoffIsBounded
        <4>3. clock + Backoff(failures, holder) \in Nat
          BY <4>2, GridAssumption
        <4> QED BY <1>14, <3>3, <4>3 DEF Plan, NextTargets
      <3> QED BY <3>1, <3>2, <3>3 DEF Stopping
    <2> QED BY <1>14, <2>1 DEF Plan
  <1>15. CASE Record
    <2> DEFINE result == [outcome |-> outcome, report |-> report]
    <2> DEFINE all == Append(loopHistory, result)
    <2>1. result \in [outcome : Outcome, report : Report]
      OBVIOUS
    <2>2. /\ all \in Seq([outcome : Outcome, report : Report])
          /\ Len(all) = Len(loopHistory) + 1
      BY <2>1
    <2>3. Len(all) > LoopHistoryLimit => /\ Tail(all) \in Seq([outcome : Outcome, report : Report])
                                     /\ Len(Tail(all)) = Len(loopHistory)
      BY <2>2, BackoffAssumption
    <2> HIDE DEF all, result
    <2>4. loopHistory' = IF Len(all) > LoopHistoryLimit THEN Tail(all) ELSE all
      BY <1>15 DEF Record, all, result
    <2>5. /\ loopHistory' \in Seq([outcome : Outcome, report : Report])
          /\ Len(loopHistory') <= LoopHistoryLimit
      BY <2>2, <2>3, <2>4, BackoffAssumption
    <2> QED BY <1>15, <2>5 DEF Record
  <1>16. CASE ObserverRaises
    BY <1>16, ObserverTime, LeaveTypes DEF ObserverRaises
  <1>17. CASE SurfaceFatal
    BY <1>17, ObserverTime, LeaveTypes DEF SurfaceFatal
  <1>18. CASE Finish
    BY <1>18, ObserverTime, LeaveTypes DEF Finish
  <1>19. CASE GoOn
    BY <1>19, ObserverTime, BackoffAssumption DEF GoOn, WaitUntil, ForgetCycle
  <1> QED BY <1>1, <1>2, <1>3, <1>4, <1>5, <1>6, <1>7, <1>8, <1>9, <1>10, <1>11, <1>12, <1>13,
             <1>14, <1>15, <1>16, <1>17, <1>18, <1>19
          DEF LoopNext, LoopStep, Wait, Cycle, Observe

(* LoopTypeOK, the run-time types of the loop's state, holds in every state. *)
THEOREM LoopTypeCorrect == LoopSpec => []LoopTypeOK
  <1>1. LoopSpec => []TypeInv
    BY TypeInit, TypeStep, PTL DEF LoopSpec
  <1>2. TypeInv => LoopTypeOK
    BY DEF TypeInv
  <1> QED BY <1>1, <1>2, PTL

-----------------------------------------------------------------------------
(* One poll per candle. *)

GridInv ==
    served # None =>
        /\ served <= CandleOf(clock)
        /\ place \in {"wait", "look", "sleep"} => CandleOf(target) > served
        /\ place \in {"begin", "cycle"} => CandleOf(clock) > served
        /\ place \in {"count", "plan"} /\ outcome # "success" => CandleOf(clock) > served
        /\ place \in {"record", "observe"} /\ nextAt # None => CandleOf(nextAt) > served

\* Leaving run() polls nothing.
LEMMA GridLeave ==
    ASSUME TypeInv, GridInv, NEW how, Leave(how), clock' \in 0 .. ClockEnd, clock' >= clock
    PROVE  GridInv'
  <1>1. CandleOf(clock) \in Nat /\ CandleOf(clock) <= CandleOf(clock')
    BY CandleGrows DEF TypeInv, LoopTypeOK
  <1>2. CandleOf(clock') \in Nat
    BY CandleGrows DEF TypeInv, LoopTypeOK
  <1> QED BY <1>1, <1>2 DEF GridInv, Leave, TypeInv, LoopTypeOK

\* No step polls a candle that succeeded again.
LEMMA GridStep == TypeInv /\ GridInv /\ [LoopNext]_pollVars => GridInv'
  <1> SUFFICES ASSUME TypeInv, GridInv, [LoopNext]_pollVars PROVE GridInv'
    OBVIOUS
  <1> USE DEF GridInv, waitVars, runVars, outcomeVars, loopVars, ghostVars
  <1>0. clock \in Nat /\ CandleOf(clock) \in Nat /\ served \in Nat \cup {None}
    BY CandleGrows, GridAssumption DEF TypeInv, LoopTypeOK
  <1>1. CASE UNCHANGED pollVars
    BY <1>1 DEF pollVars
  <1>2. CASE RequestStop \/ KeepWaiting \/ NotDue \/ BeginCycle \/ Count
    BY <1>2 DEF RequestStop, KeepWaiting, NotDue, BeginCycle, Count
  <1>3. CASE RunStopped \/ HonourStop \/ ClockIsBroken
    <2>1. clock' \in 0 .. ClockEnd /\ clock' >= clock
      BY <1>3 DEF RunStopped, HonourStop, ClockIsBroken, TypeInv, LoopTypeOK
    <2> QED BY <1>3, <2>1, GridLeave DEF RunStopped, HonourStop, ClockIsBroken
  <1>4. CASE ObserverRaises \/ SurfaceFatal \/ Finish
    <2>1. clock' \in 0 .. ClockEnd /\ clock' >= clock
      BY <1>4, ObserverTime DEF ObserverRaises, SurfaceFatal, Finish, TypeInv
    <2> QED BY <1>4, <2>1, GridLeave DEF ObserverRaises, SurfaceFatal, Finish
  <1>5. CASE Run
    <2> PICK jitter \in JitterMin .. JitterMax : WaitUntil(NextPollTime(clock) + jitter)
      BY <1>5 DEF Run
    <2>1. jitter \in Nat
      BY GridAssumption
    <2>2. CandleOf(NextPollTime(clock) + jitter) > CandleOf(clock)
      BY <1>0, <2>1, NextCandle
    <2>3. CandleOf(NextPollTime(clock) + jitter) \in Nat
      BY <1>0, <2>1, NextCandle, CandleGrows
    <2> QED BY <1>0, <1>5, <2>2, <2>3 DEF Run, WaitUntil
  <1>6. CASE Due
    <2>1. target \in Nat /\ target <= clock
      BY <1>0, <1>6 DEF Due, TypeInv, LoopTypeOK
    <2>2. CandleOf(target) \in Nat /\ CandleOf(target) <= CandleOf(clock)
      BY <1>0, <2>1, CandleGrows
    <2> QED BY <1>0, <1>6, <2>2 DEF Due
  <1>7. CASE Sleep \/ GoOn
    <2>1. clock' \in Nat /\ clock' >= clock
      BY <1>7, SleepTime, ObserverTime, GridAssumption DEF GoOn, TypeInv
    <2>2. CandleOf(clock') \in Nat /\ CandleOf(clock) <= CandleOf(clock')
      BY <1>0, <2>1, CandleGrows
    <2> QED BY <1>0, <1>7, <2>2 DEF Sleep, GoOn, WaitUntil
  <1>8. CASE CycleEnds
    <2>1. clock' \in Nat /\ clock' >= clock
      BY <1>8, ObserverTime, GridAssumption DEF CycleEnds, TypeInv
    <2>2. CandleOf(clock') \in Nat /\ CandleOf(clock) <= CandleOf(clock')
      BY <1>0, <2>1, CandleGrows
    <2>3. served' = IF outcome' = "success" THEN CandleOf(clock') ELSE served
      BY <1>8 DEF CycleEnds
    <2> QED BY <1>0, <1>8, <2>2, <2>3 DEF CycleEnds
  <1>9. CASE Plan
    <2>1. ASSUME nextAt' # None
          PROVE  /\ nextAt' \in Nat /\ CandleOf(nextAt') >= CandleOf(clock)
                 /\ outcome = "success" => CandleOf(nextAt') > CandleOf(clock)
      <3>1. CASE outcome = "success"
        <4> PICK jitter \in JitterMin .. JitterMax : nextAt' = NextPollTime(clock) + jitter
          BY <1>9, <2>1, <3>1 DEF Plan, NextTargets
        <4>1. jitter \in Nat
          BY GridAssumption
        <4>2. nextAt' \in Nat /\ CandleOf(nextAt') > CandleOf(clock)
          BY <1>0, <4>1, NextCandle
        <4>3. CandleOf(nextAt') \in Nat
          BY <4>2, CandleGrows
        <4> QED BY <1>0, <4>2, <4>3
      <3>2. CASE outcome # "success"
        <4>1. outcome = "recoverable" /\ nextAt' = clock + Backoff(failures, holder)
          BY <1>9, <2>1, <3>2 DEF Plan, NextTargets, Stopping, TypeInv, LoopTypeOK
        <4>2. failures \in Nat \ {0} /\ holder \in Nat \cup {None}
          BY <1>9, <4>1, BackoffAssumption DEF Plan, TypeInv, LoopTypeOK, PlanHasFailure
        <4>3. nextAt' \in Nat /\ clock <= nextAt'
          BY <1>0, <4>1, <4>2, BackoffIsBounded
        <4>4. CandleOf(nextAt') >= CandleOf(clock)
          BY <1>0, <4>3, CandleGrows
        <4> QED BY <3>2, <4>3, <4>4
      <3> QED BY <3>1, <3>2
    <2>2. nextAt' # None => CandleOf(nextAt') \in Nat
      BY <2>1, CandleGrows
    <2> QED BY <1>0, <1>9, <2>1, <2>2 DEF Plan
  <1>10. CASE Record
    BY <1>10 DEF Record
  <1> QED BY <1>1, <1>2, <1>3, <1>4, <1>5, <1>6, <1>7, <1>8, <1>9, <1>10
          DEF LoopNext, LoopStep, Wait, Cycle, Observe

(* No candle is polled again once a cycle succeeded in it, whatever the grid,
   the jitter and the time that cycles, observers and sleeps take. *)
THEOREM NoCandlePolledTwice == LoopSpec => []OnePollPerCandle
  <1>1. LoopInit => GridInv
    BY DEF LoopInit, GridInv
  <1>2. LoopSpec => [](TypeInv /\ GridInv)
    BY <1>1, TypeInit, TypeStep, GridStep, PTL DEF LoopSpec
  <1>3. GridInv => OnePollPerCandle
    BY DEF GridInv, OnePollPerCandle
  <1> QED BY <1>2, <1>3, PTL

-----------------------------------------------------------------------------
(* Stop requests. *)

StopInv ==
    /\ late.sleeps + late.cycles <= 1
    /\ ~stop \/ place \in {"look", "sleep", "begin"} => late.sleeps = 0 /\ late.cycles = 0
    /\ stop /\ place \in {"record", "observe"} /\ late.cycles > 0 => nextAt = None

\* No step forgets a stop request.
LEMMA StopStep == TypeInv /\ StopInv /\ [LoopNext]_pollVars => StopInv'
  <1> SUFFICES ASSUME TypeInv, StopInv, [LoopNext]_pollVars PROVE StopInv'
    OBVIOUS
  <1> USE DEF StopInv, waitVars, runVars, outcomeVars, loopVars, ghostVars
  <1>0. late \in [sleeps : Nat, cycles : Nat] /\ stop \in BOOLEAN
    BY DEF TypeInv, LoopTypeOK
  <1>1. CASE UNCHANGED pollVars
    BY <1>1 DEF pollVars
  <1>2. CASE RequestStop \/ RunStopped
    BY <1>0, <1>2 DEF RequestStop, RunStopped, Leave
  <1>9. CASE Run
    <2>1. place' = "wait" /\ UNCHANGED <<stop, late>>
      BY <1>9 DEF Run, WaitUntil
    <2> QED BY <2>1
  <1>3. CASE HonourStop \/ KeepWaiting \/ Due \/ NotDue \/ ClockIsBroken
    BY <1>0, <1>3 DEF HonourStop, KeepWaiting, Due, NotDue, ClockIsBroken, Leave
  <1>4. CASE Sleep
    BY <1>0, <1>4 DEF Sleep
  <1>5. CASE BeginCycle
    BY <1>0, <1>5 DEF BeginCycle
  <1>6. CASE CycleEnds \/ Count \/ Record
    <2>1. CASE CycleEnds
      BY <1>0, <2>1 DEF CycleEnds
    <2>2. CASE Count \/ Record
      BY <1>0, <2>2 DEF Count, Record
    <2> QED BY <1>6, <2>1, <2>2
  <1>7. CASE Plan
    <2>1. stop => nextAt' = None
      BY <1>7 DEF Plan, NextTargets, Stopping
    <2> QED BY <1>7, <2>1 DEF Plan
  <1>8. CASE Observe
    BY <1>0, <1>8 DEF Observe, ObserverRaises, SurfaceFatal, Finish, GoOn, Leave, WaitUntil
  <1> QED BY <1>1, <1>2, <1>3, <1>4, <1>5, <1>6, <1>7, <1>8, <1>9 DEF LoopNext, LoopStep, Wait, Cycle

(* Wherever a stop request falls, the loop leaves after at most one sleep or
   one cycle. *)
THEOREM StopIsHonoured == LoopSpec => []StopIsPrompt
  <1>1. LoopInit => StopInv
    BY DEF LoopInit, StopInv
  <1>2. LoopSpec => [](TypeInv /\ StopInv)
    BY <1>1, TypeInit, TypeStep, StopStep, PTL DEF LoopSpec
  <1>3. StopInv => StopIsPrompt
    BY DEF StopInv, StopIsPrompt
  <1> QED BY <1>2, <1>3, PTL

-----------------------------------------------------------------------------
(* Retry-After. *)

\* The time t is a fit target after the last failure of this run.
Fit(t) ==
    /\ asked.delay # None => t >= asked.at + asked.delay
    /\ failures > 0 /\ asked.at # None /\ asked.delay = None => t <= asked.at + BackoffCap

RetryInv ==
    /\ asked.delay # None => asked.at # None
    /\ place = "idle" => asked.at = None
    /\ place \in {"count", "plan"} =>
           /\ asked.at = clock /\ holder = asked.delay
           /\ outcome = "success" => asked.delay = None
    /\ place = "plan" /\ outcome = "success" => failures = 0
    /\ place \in {"record", "observe"} /\ nextAt # None => Fit(nextAt)
    /\ place \in {"wait", "look", "sleep"} => Fit(target)
    /\ place = "begin" /\ asked.delay # None => clock >= asked.at + asked.delay

\* No step forgets the delay that a failure carries, or keeps it longer.
LEMMA RetryStep == TypeInv /\ RetryInv /\ [LoopNext]_pollVars => RetryInv'
  <1> SUFFICES ASSUME TypeInv, RetryInv, [LoopNext]_pollVars PROVE RetryInv'
    OBVIOUS
  <1> USE DEF RetryInv, Fit, waitVars, runVars, outcomeVars, loopVars, ghostVars
  <1>0. /\ asked \in [at : Nat \cup {None}, delay : Nat \cup {None}]
        /\ clock \in Nat /\ target \in Nat /\ nextAt \in Nat \cup {None}
        /\ holder \in Nat \cup {None} /\ failures \in Nat /\ outcome \in Outcome
    BY GridAssumption, BackoffAssumption DEF TypeInv, LoopTypeOK
  <1>1. CASE UNCHANGED pollVars
    BY <1>1 DEF pollVars
  <1>2. CASE RequestStop \/ RunStopped
    BY <1>2 DEF RequestStop, RunStopped, Leave
  <1>3. CASE Run
    <2>1. place' = "wait" /\ place = "idle" /\ UNCHANGED <<asked, failures, clock, outcome>>
      BY <1>3 DEF Run, WaitUntil
    <2> QED BY <2>1
  <1>4. CASE HonourStop \/ KeepWaiting \/ NotDue \/ ClockIsBroken
    BY <1>4 DEF HonourStop, KeepWaiting, NotDue, ClockIsBroken, Leave
  <1>5. CASE Due
    BY <1>0, <1>5 DEF Due
  <1>6. CASE Sleep
    <2>1. place' = "wait" /\ UNCHANGED <<target, asked, failures>>
      BY <1>6 DEF Sleep
    <2> QED BY <1>6, <2>1 DEF Sleep
  <1>7. CASE BeginCycle
    BY <1>7 DEF BeginCycle
  <1>8. CASE CycleEnds
    <2> PICK result \in Outcome, delay \in RetryAfters :
            /\ result = "success" => delay = None
            /\ outcome' = result /\ holder' = HolderAfter(result, delay)
            /\ asked' = [at |-> clock', delay |-> RetryAfterDelay(delay)]
      BY <1>8 DEF CycleEnds
    <2>1. outcome' = "success" => delay = None
      OBVIOUS
    <2>2. holder' = asked'.delay /\ asked'.at = clock'
          /\ (outcome' = "success" => asked'.delay = None)
      BY <2>1 DEF HolderAfter, RetryAfterDelay
    <2>3. clock' \in Nat /\ clock' # None
      BY <1>8, ObserverTime, EnvironmentAssumption, GridAssumption DEF CycleEnds, TypeInv
    <2> QED BY <1>8, <2>2, <2>3 DEF CycleEnds
  <1>9. CASE Count
    BY <1>0, <1>9 DEF Count, FailuresAfter
  <1>10. CASE Plan
    <2>1. ASSUME nextAt' # None PROVE Fit(nextAt')
      <3>1. CASE outcome = "success"
        BY <1>10, <3>1 DEF Plan
      <3>2. CASE outcome # "success"
        <4>1. outcome = "recoverable" /\ nextAt' = clock + Backoff(failures, holder)
          BY <1>0, <1>10, <2>1, <3>2 DEF Plan, NextTargets, Stopping
        <4>2. failures \in Nat \ {0}
          BY <1>0, <1>10, <4>1 DEF Plan, TypeInv, PlanHasFailure
        <4>3. /\ Backoff(failures, holder) \in Nat
              /\ holder # None => Backoff(failures, holder) >= holder
              /\ holder = None => Backoff(failures, holder) <= BackoffCap
          BY <1>0, <4>2, BackoffIsBounded
        <4>4. asked.at = clock /\ holder = asked.delay
          BY <1>10 DEF Plan
        <4> QED BY <1>0, <4>1, <4>3, <4>4, BackoffAssumption, EnvironmentAssumption
      <3> QED BY <3>1, <3>2
    <2> QED BY <1>10, <2>1 DEF Plan
  <1>11. CASE Record
    BY <1>11 DEF Record
  <1>12. CASE ObserverRaises \/ SurfaceFatal \/ Finish
    BY <1>12 DEF ObserverRaises, SurfaceFatal, Finish, Leave
  <1>13. CASE GoOn
    <2>1. place' = "wait" /\ target' = nextAt /\ UNCHANGED <<asked, failures>>
      BY <1>13 DEF GoOn, WaitUntil
    <2>2. Fit(nextAt)
      BY <1>13 DEF GoOn
    <2> QED BY <1>13, <2>1, <2>2 DEF GoOn
  <1> QED BY <1>1, <1>2, <1>3, <1>4, <1>5, <1>6, <1>7, <1>8, <1>9, <1>10, <1>11, <1>12, <1>13
          DEF LoopNext, LoopStep, Wait, Cycle, Observe

(* Within a run no cycle begins before the time that the server asked to wait,
   and an older request never lengthens a later backoff. *)
THEOREM RetryAfterHonoured == LoopSpec => []RetryAfterIsHonoured
  <1>1. LoopInit => RetryInv
    BY DEF LoopInit, RetryInv, Fit
  <1>2. LoopSpec => [](TypeInv /\ RetryInv)
    BY <1>1, TypeInit, TypeStep, RetryStep, PTL DEF LoopSpec
  <1>3. RetryInv => RetryAfterIsHonoured
    BY DEF RetryInv, Fit, RetryAfterIsHonoured
  <1> QED BY <1>2, <1>3, PTL

-----------------------------------------------------------------------------
(* Snapshots. *)

CountInv ==
    /\ failures <= cycles
    /\ Presentable => /\ cycles = 0 <=> loopHistory = <<>>
                      /\ failures > 0 => loopHistory # <<>> /\ LastResult.outcome # "success"
    /\ ~Presentable => cycles > 0 /\ (failures > 0 => outcome # "success")

\* Every step keeps the counters and the history in line with the cycles.
LEMMA CountStep == TypeInv /\ CountInv /\ [LoopNext]_pollVars => CountInv'
  <1> SUFFICES ASSUME TypeInv, CountInv, [LoopNext]_pollVars PROVE CountInv'
    OBVIOUS
  <1> USE DEF CountInv, Presentable, LastResult, waitVars, runVars, outcomeVars, loopVars,
              ghostVars
  <1>0. cycles \in Nat /\ failures \in Nat /\ outcome \in Outcome
    BY DEF TypeInv, LoopTypeOK
  <1>1. CASE UNCHANGED pollVars
    BY <1>1 DEF pollVars
  <1>2. CASE RequestStop \/ RunStopped \/ Run
    BY <1>2 DEF RequestStop, RunStopped, Run, Leave, WaitUntil
  <1>3. CASE Wait
    BY <1>3 DEF Wait, HonourStop, KeepWaiting, Due, NotDue, ClockIsBroken, Sleep, Leave
  <1>4. CASE BeginCycle \/ CycleEnds \/ Plan
    BY <1>4 DEF BeginCycle, CycleEnds, Plan
  <1>5. CASE Count
    BY <1>0, <1>5 DEF Count, FailuresAfter
  <1>6. CASE Record
    <2> DEFINE result == [outcome |-> outcome, report |-> report]
    <2> DEFINE Results == [outcome : Outcome, report : Report]
    <2> DEFINE all == Append(loopHistory, result)
    <2>1. result \in Results /\ result.outcome = outcome /\ loopHistory \in Seq(Results)
      BY DEF TypeInv, LoopTypeOK
    <2> HIDE DEF result, Results
    <2>2. all \in Seq(Results) /\ Len(all) = Len(loopHistory) + 1 /\ all[Len(all)] = result
      BY <2>1
    <2>3. Len(all) > LoopHistoryLimit =>
              /\ Tail(all) \in Seq(Results) /\ Len(Tail(all)) > 0
              /\ Tail(all)[Len(Tail(all))] = result
      BY <2>1, <2>2, BackoffAssumption
    <2> HIDE DEF all
    <2>4. loopHistory' = IF Len(all) > LoopHistoryLimit THEN Tail(all) ELSE all
      BY <1>6 DEF Record, all, result
    <2>5. loopHistory' # <<>> /\ loopHistory'[Len(loopHistory')] = result
      BY <2>1, <2>2, <2>3, <2>4
    <2> QED BY <1>0, <1>6, <2>1, <2>5 DEF Record
  <1>7. CASE Observe
    BY <1>7 DEF Observe, ObserverRaises, SurfaceFatal, Finish, GoOn, Leave, WaitUntil
  <1> QED BY <1>1, <1>2, <1>3, <1>4, <1>5, <1>6, <1>7 DEF LoopNext, LoopStep, Cycle

\* The views beside the loop make a snapshot of the right type.
LEMMA SideViewsFit ==
    ASSUME TypeInv, NEW side \in SideViews
    PROVE  SnapshotOf(side) \in Snapshot
  <1>1. LifecycleOf \in Lifecycle
    BY DEF TypeInv, LoopTypeOK, LifecycleOf, Lifecycle
  <1>2. LastCycleSuccess \in TriState /\ LastPersistSuccess \in TriState
    BY Zenon DEF LastCycleSuccess, LastPersistSuccess, TriState
  <1>3. (holder # None) \in BOOLEAN
    OBVIOUS
  <1>4. /\ side.pending \in Nat /\ side.failed \in Nat
        /\ side.intact \in BOOLEAN /\ side.failing \in BOOLEAN
    BY DEF SideViews
  <1>5. cycles \in Nat /\ failures \in Nat
    BY DEF TypeInv, LoopTypeOK
  <1> QED BY <1>1, <1>2, <1>3, <1>4, <1>5, Zenon DEF SnapshotOf, Snapshot

(* Every snapshot of the loop is valid except between the counters of a cycle
   and its result. *)
THEOREM SnapshotsFit == LoopSpec => []SnapshotIsAccepted
  <1>1. LoopInit => CountInv
    BY DEF LoopInit, CountInv, Presentable
  <1>2. LoopSpec => [](TypeInv /\ CountInv)
    BY <1>1, TypeInit, TypeStep, CountStep, PTL DEF LoopSpec
  <1>3. TypeInv /\ CountInv => SnapshotIsAccepted
    <2> SUFFICES ASSUME TypeInv, CountInv, Presentable, NEW side \in SideViews
                 PROVE  Valid(SnapshotOf(side))
      BY DEF SnapshotIsAccepted
    <2>1. cycles \in Nat /\ failures \in Nat
      BY DEF TypeInv, LoopTypeOK
    <2>2. CyclesFit(SnapshotOf(side))
      BY <2>1 DEF CountInv, CyclesFit, SnapshotOf, LastCycleSuccess
    <2> QED BY <2>2, SideViewsFit DEF Valid
  <1> QED BY <1>2, <1>3, PTL

-----------------------------------------------------------------------------
(* Health. *)

(* For every valid snapshot the fail-closed branch of classify_health is not
   reached, as its comment says, and HEALTHY means that no requirement of
   unmet_health_requirements is left. *)
THEOREM HealthIsEarned ==
    ASSUME NEW s, Valid(s)
    PROVE  /\ ClassifyHealth(s) # "FAIL_CLOSED"
           /\ ClassifyHealth(s) = "HEALTHY" <=> UnmetHealthRequirements(s) = {}
           /\ ClassifyHealth(s) = "HEALTHY" =>
                  s.lifecycle = "RUNNING" /\ s.last = "yes" /\ s.failures = 0 /\ ~s.retryAfter
  <1>0. /\ s.lifecycle \in Lifecycle /\ s.completed \in Nat /\ s.failures \in Nat
        /\ s.last \in TriState /\ s.retryAfter \in BOOLEAN
    BY DEF Valid, Snapshot
  <1>1. FailedConditions(s) = {} <=> s.lifecycle # "FAILED"
    BY DEF FailedConditions
  <1>2. s.lifecycle # "FAILED" =>
            (RecoveringConditions(s) = {} <=> s.failures = 0 /\ ~s.retryAfter)
    BY <1>0 DEF RecoveringConditions
  <1>3. Unestablished(s) = {} <=>
            s.lifecycle = "RUNNING" /\ s.completed # 0 /\ s.last = "yes"
    BY <1>0 DEF Unestablished, TriState
  <1>4. s.lifecycle # "FAILED" /\ RecoveringConditions(s) = {} /\ DegradedConditions(s) = {}
            => UnknownConditions(s) = Unestablished(s)
    BY DEF UnknownConditions
  <1>5. s.last = "yes" => s.completed # 0
    BY DEF Valid, CyclesFit
  <1>6. UnmetHealthRequirements(s) = {} <=>
            /\ Unestablished(s) = {} /\ s.failures = 0 /\ ~s.retryAfter
            /\ DegradedConditions(s) = {}
    <2>1. Unestablished(s) = {} => UnknownConditions(s) = {}
      BY DEF UnknownConditions
    <2> QED BY <1>0, <2>1 DEF UnmetHealthRequirements
  <1>7. ClassifyHealth(s) = "HEALTHY" <=>
            /\ FailedConditions(s) = {} /\ RecoveringConditions(s) = {}
            /\ DegradedConditions(s) = {} /\ UnknownConditions(s) = {}
            /\ UnmetHealthRequirements(s) = {}
    BY DEF ClassifyHealth
  <1>8. s.lifecycle = "RUNNING" => s.lifecycle # "FAILED"
    OBVIOUS
  <1>9. ClassifyHealth(s) = "HEALTHY" <=> UnmetHealthRequirements(s) = {}
    BY <1>1, <1>2, <1>3, <1>4, <1>6, <1>7, <1>8
  <1>10. ClassifyHealth(s) # "FAIL_CLOSED"
    <2> SUFFICES ASSUME FailedConditions(s) = {}, RecoveringConditions(s) = {},
                        DegradedConditions(s) = {}, UnknownConditions(s) = {}
                 PROVE  UnmetHealthRequirements(s) = {}
      BY DEF ClassifyHealth
    <2> QED BY <1>1, <1>2, <1>4, <1>6
  <1> QED BY <1>3, <1>6, <1>9, <1>10

-----------------------------------------------------------------------------
(* What a snapshot says of the loop. *)

\* What the counter of failures and the holder say of the newest outcome.
Tells(result) ==
    /\ result = "recoverable" => failures > 0
    /\ result = "success" => holder = None

HealthInv ==
    /\ place \notin {"count", "plan", "record"} /\ loopHistory # <<>> => Tells(LastResult.outcome)
    /\ place \in {"count", "plan", "record"} /\ outcome = "success" => holder = None
    /\ place \in {"plan", "record"} => Tells(outcome)

\* Every step keeps what the snapshot says of the loop.
LEMMA HealthStep == TypeInv /\ HealthInv /\ [LoopNext]_pollVars => HealthInv'
  <1> SUFFICES ASSUME TypeInv, HealthInv, [LoopNext]_pollVars PROVE HealthInv'
    OBVIOUS
  <1> USE DEF HealthInv, Tells, LastResult, waitVars, runVars, outcomeVars, loopVars, ghostVars
  <1>0. cycles \in Nat /\ failures \in Nat /\ outcome \in Outcome
    BY DEF TypeInv, LoopTypeOK
  <1>1. CASE UNCHANGED pollVars
    BY <1>1 DEF pollVars
  <1>2. CASE RequestStop \/ RunStopped \/ Run
    BY <1>2 DEF RequestStop, RunStopped, Run, Leave, WaitUntil
  <1>3. CASE Wait
    BY <1>3 DEF Wait, HonourStop, KeepWaiting, Due, NotDue, ClockIsBroken, Sleep, Leave
  <1>4. CASE BeginCycle \/ Plan
    BY <1>4 DEF BeginCycle, Plan
  <1>5. CASE CycleEnds
    BY <1>5 DEF CycleEnds, HolderAfter
  <1>6. CASE Count
    BY <1>0, <1>6 DEF Count, FailuresAfter, Outcome
  <1>7. CASE Record
    <2> DEFINE result == [outcome |-> outcome, report |-> report]
    <2> DEFINE Results == [outcome : Outcome, report : Report]
    <2> DEFINE all == Append(loopHistory, result)
    <2>1. result \in Results /\ result.outcome = outcome /\ loopHistory \in Seq(Results)
      BY DEF TypeInv, LoopTypeOK
    <2> HIDE DEF result, Results
    <2>2. all \in Seq(Results) /\ Len(all) = Len(loopHistory) + 1 /\ all[Len(all)] = result
      BY <2>1
    <2>3. Len(all) > LoopHistoryLimit =>
              /\ Tail(all) \in Seq(Results) /\ Len(Tail(all)) > 0
              /\ Tail(all)[Len(Tail(all))] = result
      BY <2>2, EnvironmentAssumption
    <2>4. loopHistory'[Len(loopHistory')] = result
      BY <1>7, <2>2, <2>3 DEF Record, result
    <2>5. place' = "observe" /\ UNCHANGED <<failures, holder>> /\ Tells(outcome)
      BY <1>7 DEF Record
    <2> QED BY <2>1, <2>4, <2>5
  <1>8. CASE Observe
    BY <1>8 DEF Observe, ObserverRaises, SurfaceFatal, Finish, GoOn, Leave, WaitUntil
  <1> QED BY <1>1, <1>2, <1>3, <1>4, <1>5, <1>6, <1>7, <1>8 DEF LoopNext, LoopStep, Cycle

\* live/operator.py and live/health.py: at every moment but between the counters
\* of a cycle and its history entry, a snapshot is valid and classified as the
\* loop stands.
THEOREM OperatorIsTold == LoopSpec => []OperatorSeesTheLoop
  <1>1. LoopInit => HealthInv
    BY DEF LoopInit, HealthInv, Tells
  <1>2. LoopSpec => []HealthInv
    <2>1. LoopSpec => []TypeInv
      BY TypeInit, TypeStep, PTL DEF LoopSpec
    <2> QED BY <1>1, <2>1, HealthStep, PTL DEF LoopSpec
  <1>3. HealthInv /\ SnapshotIsAccepted => HealthTracksLoop
    <2> SUFFICES ASSUME HealthInv, SnapshotIsAccepted, Presentable, place # "count",
                        loopHistory # <<>>, NEW side \in SideViews
                 PROVE  LET s == SnapshotOf(side)
                            health == ClassifyHealth(s)
                        IN  /\ LifecycleOf # "FAILED" /\ LastResult.outcome = "recoverable"
                                   => health = "RECOVERING"
                            /\ LastCycleSuccess = "yes" => health # "RECOVERING"
                            /\ health = "HEALTHY" => LastCycleSuccess = "yes"
                            /\ health # "FAIL_CLOSED"
      BY DEF HealthTracksLoop
    <2> DEFINE s == SnapshotOf(side)
    <2>1. Valid(s)
      BY DEF SnapshotIsAccepted
    <2>2. /\ s.lifecycle = LifecycleOf /\ s.last = LastCycleSuccess
          /\ s.failures = failures /\ (s.retryAfter <=> holder # None)
      BY Zenon DEF SnapshotOf
    <2>3. Tells(LastResult.outcome)
      BY DEF HealthInv, Presentable
    <2>4. s.last = "yes" => s.failures = 0 /\ ~s.retryAfter
      <3>1. s.last = "yes" => LastResult.outcome = "success" /\ holder = None
        BY <2>2, <2>3 DEF LastCycleSuccess, Tells
      <3>2. s.failures \in Nat /\ (s.failures > 0 => s.last = "no")
        BY <2>1 DEF Valid, CyclesFit, Snapshot
      <3>3. s.last = "yes" => s.failures = 0
        BY <3>2
      <3>4. s.last = "yes" => ~s.retryAfter
        BY <2>2, <3>1, Zenon
      <3> QED BY <3>3, <3>4
    <2> HIDE DEF s
    <2>5. ClassifyHealth(s) = "RECOVERING" =>
              RecoveringConditions(s) # {} /\ s.lifecycle # "FAILED"
      BY DEF ClassifyHealth, FailedConditions
    <2>6. RecoveringConditions(s) # {} => s.failures > 0 \/ s.retryAfter
      BY DEF RecoveringConditions
    <2>7. s.lifecycle # "FAILED" /\ s.failures > 0 => ClassifyHealth(s) = "RECOVERING"
      <3>1. s.lifecycle # "FAILED" /\ s.failures > 0 =>
                "consecutive_failures_present" \in RecoveringConditions(s)
        BY DEF RecoveringConditions
      <3> QED BY <3>1 DEF ClassifyHealth, FailedConditions
    <2>8. /\ LifecycleOf # "FAILED" /\ LastResult.outcome = "recoverable"
                 => ClassifyHealth(s) = "RECOVERING"
      BY <2>2, <2>3, <2>7 DEF Tells
    <2>9. LastCycleSuccess = "yes" => ClassifyHealth(s) # "RECOVERING"
      <3>1. s.failures = 0 => ~(s.failures > 0)
        OBVIOUS
      <3> QED BY <2>2, <2>4, <2>5, <2>6, <3>1
    <2>10. /\ ClassifyHealth(s) = "HEALTHY" => s.last = "yes"
           /\ ClassifyHealth(s) # "FAIL_CLOSED"
      BY <2>1, HealthIsEarned
    <2> QED BY <2>2, <2>8, <2>9, <2>10 DEF s
  <1> QED BY <1>2, <1>3, SnapshotsFit, PTL DEF OperatorSeesTheLoop
=============================================================================
