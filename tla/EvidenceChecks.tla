--------------------------- MODULE EvidenceChecks ---------------------------
(***************************************************************************)
(* What the constructors of the analysis records insist on.  Every record  *)
(* is a frozen dataclass that judges its own evidence in __post_init__ and *)
(* raises AnalysisInputError, and a frame that raises stops the series for *)
(* good.  Each operator says of the newest frame what one constructor      *)
(* checks; types, price units, hashes and the lists of dependencies are    *)
(* left out.                                                               *)
(***************************************************************************)
EXTENDS ZoneLifecycle

Current == window[Len(window)]
Previous == window[Len(window) - 1]

Consecutive(candles) ==
    \A i \in 1 .. Len(candles) - 1 :
        /\ candles[i].index + 1 = candles[i + 1].index
        /\ candles[i].available <= candles[i + 1].available

Chronological(swings) ==
    \A i \in 1 .. Len(swings) - 1 :
        /\ swings[i].pivot < swings[i + 1].pivot
        /\ swings[i].confirmed < swings[i + 1].confirmed

-----------------------------------------------------------------------------
(* SwingEvidence: the window is whole and proves a strict extremum.        *)
SwingAccepted(swing) ==
    /\ Len(window) = 2 * (swing.confirmed - swing.pivot) + 1
    /\ Consecutive(window)
    /\ window[Radius + 1].index = swing.pivot /\ Current.index = swing.confirmed
    /\ swing.price = Extreme(window[Radius + 1], swing.kind)
    /\ \A i \in 1 .. Len(window) \ {Radius + 1} :
          Beyond(swing.kind, swing.price, Extreme(window[i], swing.kind))
    /\ swing.available = Current.available

(* TrendState                                                              *)
TrendAccepted ==
    \A kind \in Kinds :
        /\ \A i \in 1 .. Len(recent[kind]) :
              recent[kind][i].kind = kind /\ recent[kind][i].confirmed <= snapshot.index
        /\ Chronological(recent[kind])

(* StructureEvent: a strict crossing of an older level, named for the      *)
(* trend before it.                                                        *)
EventAccepted(event) ==
    /\ event.before # "ranging" /\ event.level.confirmed < event.index
    /\ ~Beyond(event.level.kind, event.previousClose, event.level.price)
    /\ Beyond(event.level.kind, event.close, event.level.price)
    /\ event.direction = Toward(event.level.kind)
    /\ event.kind = "BOS" <=> event.direction = event.before

(* AnalysisSnapshot                                                        *)
StructureAccepted ==
    /\ Cardinality(snapshot.events) <= 1
    /\ Cardinality({s.kind : s \in snapshot.swings}) = Cardinality(snapshot.swings)
    /\ \A s \in snapshot.swings : s.confirmed = snapshot.index /\ SwingAccepted(s)
    /\ \A e \in snapshot.events : e.index = snapshot.index /\ EventAccepted(e)
    /\ TrendAccepted

-----------------------------------------------------------------------------
(* LiquidityPool: members of one side in one fixed band, in order.         *)
PoolAccepted(pool) ==
    /\ pool.members # <<>> /\ pool.anchor = pool.members[1]
    /\ Chronological(pool.members)
    /\ \A i \in 1 .. Len(pool.members) :
          /\ pool.members[i].kind = pool.anchor.kind /\ InBand(pool, pool.members[i].price)
          /\ pool.members[i].available <= Current.available

(* The rest of LiquidityPool, for a pool that ended: this candle breaches  *)
(* it, and the reason is the one that the two candles give.                *)
EndAccepted(update) ==
    /\ Breached(update.pool, Current)
    /\ Previous.index + 1 = Current.index
    /\ \A i \in 1 .. Len(update.pool.members) :
          update.pool.members[i].available <= update.pool.available
    /\ update.reason = Failure(update.pool, Previous, Current)
    /\ update.status = "swept" <=> update.reason = "none"

(* SweepEvent: a pool of an earlier candle, breached and reclaimed.        *)
SweepAccepted(sweep) ==
    /\ sweep.pool.members[Len(sweep.pool.members)].confirmed < Current.index
    /\ Breached(sweep.pool, Current) /\ Failure(sweep.pool, Previous, Current) = "none"

(* LiquiditySnapshot                                                       *)
LiquidityAccepted ==
    /\ \A u \in updates : PoolAccepted(u.pool) /\ (u.status # "active" => EndAccepted(u))
    /\ \A s \in sweeps : SweepAccepted(s) /\ s.available = Current.available
    /\ {u.pool : u \in {v \in updates : v.status = "swept"}} = {s.pool : s \in sweeps}
    /\ Cardinality({u.pool.anchor : u \in updates}) = Cardinality(updates)

-----------------------------------------------------------------------------
(* ATRReference: a whole window that ends at this frame.                   *)
AtrAccepted ==
    /\ (atr = NoAtr) <=> Current.index < AtrPeriod
    /\ atr # NoAtr =>
         /\ Len(observations) = AtrPeriod + 1 /\ Consecutive(observations)
         /\ observations[Len(observations)] = Current

(* validate_sweeps: one cohort of an earlier candle, known at the open.    *)
SweepsAccepted(cohort, candle) ==
    /\ Cardinality({s.index : s \in cohort}) <= 1
    /\ \A s \in cohort : candle.index - s.index \in 1 .. SweepLookback
                         /\ s.available <= candle.index

(* DisplacementSnapshot: no event before the reference range is ready.     *)
DisplacementAccepted ==
    /\ AtrAccepted
    /\ displacement.index = Current.index
    /\ SweepsAccepted(displacement.preceding, Current)
    /\ displacement.event => Current.index > AtrPeriod /\ displacement.direction # "none"

(* FVGEvent: the displacement, if the gap has one, is that of its second   *)
(* candle and was known by the third.                                      *)
GapAccepted(event) ==
    /\ QualifiedGap(gapWindow)
    /\ Consecutive([i \in 1 .. 3 |-> gapWindow[i].candle]) /\ gapWindow[3].candle = Current
    /\ event.lower < event.upper /\ event.middle = gapWindow[2].displacement
    /\ event.middle.index = gapWindow[2].candle.index
    /\ event.middle.available <= event.available

(* FVGSnapshot                                                             *)
GapsAccepted ==
    /\ Len(gapWindow) = Min({Current.index + 1, 3})
    /\ gap # {} <=> QualifiedGap(gapWindow)
    /\ \A g \in gap : GapAccepted(g)

-----------------------------------------------------------------------------
(* validate_history: all of the bounded history, in one piece.             *)
HistoryAccepted(past, index) ==
    /\ Len(past) = Min({index, MaxLookback}) /\ Consecutive(past)
    /\ past # <<>> => past[Len(past)].index = index - 1

(* OrderBlockEvent                                                         *)
BlockAccepted(block) ==
    /\ block.candidate < block.displaced /\ block.lower < block.upper
    /\ block.displaced - block.candidate <= MaxLookback
    /\ block.index = IF config.requireFvg THEN block.displaced + 1 ELSE block.displaced
    /\ block.index = Current.index

(* OrderBlockSnapshot                                                      *)
BlocksAccepted ==
    /\ HistoryAccepted(history, Current.index + 1)
    /\ \A p \in pending : HistoryAccepted(p.past, p.displaced.index)
    /\ Cardinality(blocks) <= 1 /\ \A b \in blocks : BlockAccepted(b)

-----------------------------------------------------------------------------
(* DealingRange: it is published when its later endpoint confirms.         *)
RangeAccepted(r) ==
    /\ PairStatus({r.low, r.high}) = "confirmed"
    /\ Max({r.low.confirmed, r.high.confirmed}) = r.index
    /\ r.low.available <= r.available /\ r.high.available <= r.available

(* context_reference: nothing from the future.                             *)
ContextAccepted(r) == r.index <= Current.index /\ r.available <= Current.available

(* PDArrayContext: a subject is annotated where it is published.           *)
SidecarAccepted(sidecar) ==
    /\ sidecar.facts.index = Current.index /\ sidecar.facts.available = Current.available
    /\ sidecar.facts.lower <= sidecar.facts.position
    /\ sidecar.facts.position <= sidecar.facts.upper

(* PDSnapshot: the endpoints are the newest swings of the trend evidence,  *)
(* and there is a range exactly when they are a pair.                      *)
PremiumAccepted ==
    /\ \A kind \in Kinds :
          {e \in endpoints : e.kind = kind} =
            IF recent[kind] = <<>> THEN {} ELSE {recent[kind][Len(recent[kind])]}
    /\ range # {} <=> PairStatus(endpoints) = "confirmed"
    /\ \A r \in range : RangeAccepted(r) /\ ContextAccepted(r) /\ {r.low, r.high} = endpoints
    /\ \A a \in premium.arrays : SidecarAccepted(a)

(* OTEObservation: no judgement by a range unknown at the open.            *)
ObservationAccepted ==
    /\ \A z \in ote.usable : KnownWhenOpened(z.range, Current)
    /\ ote.usable = {} <=> ote.class = "INSUFFICIENT_CONTEXT"

(* OTESnapshot                                                             *)
OTEAccepted ==
    /\ {z.range : z \in ote.zone} = range
    /\ ote.usable = {z \in ote.zone : KnownWhenOpened(z.range, Current)}
    /\ ObservationAccepted

-----------------------------------------------------------------------------
(* MSSEvidence: the displacement of this candle breaks a level that was    *)
(* known; qualifying_shift raises when the break contradicts the closes.   *)
ShiftAccepted(m) ==
    /\ displacement.event /\ displacement.index = m.index
    /\ m.level.confirmed < m.index /\ m.level.available <= m.index
    /\ \A e \in snapshot.events : e.close = Current.close /\ e.previousClose = Previous.close

(* MSSSnapshot                                                             *)
ShiftsAccepted == Cardinality(shift) <= 1 /\ \A m \in shift : ShiftAccepted(m)

(* BreakerEvidence: a block that was there, and a close beyond it.         *)
BreakerAccepted(v) ==
    /\ v.block.index <= Current.index /\ v.block.available <= Current.available
    /\ Violates(v.block, Current.close)

(* BreakerSnapshot: at most one judgement of a block in a frame.           *)
BreakersAccepted ==
    /\ Cardinality({v.block : v \in violations}) = Cardinality(violations)
    /\ \A v \in violations : BreakerAccepted(v)

\* BreakerBlock: what qualified names its displacement and its shift.
ConversionsAccepted == Qualified(violations) # {} => displacement.event /\ shift # {}

(* MitigationEvidence, with ignore_after_breaker.                          *)
MitigationAccepted(m) ==
    /\ KnownAtOpen(m.block, Current) /\ Intersects(m.block, Current)
    /\ \A v \in Qualified(violations) : v.block # m.block

(* MitigationSnapshot                                                      *)
MitigationsAccepted ==
    /\ Cardinality({m.block : m \in mitigations}) = Cardinality(mitigations)
    /\ \A m \in mitigations : MitigationAccepted(m)
=============================================================================
