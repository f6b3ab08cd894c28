------------------------------- MODULE Runtime -------------------------------
(***************************************************************************)
(* The live runtime (live/runtime.py) between the service that feeds it    *)
(* and the checkpoint it is restored from: primary candles are pushed one  *)
(* at a time, higher-timeframe candles arrive when they arrive, and the    *)
(* join with everything downstream of it is either fast-forwarded or       *)
(* rebuilt from the first frame.                                           *)
(*                                                                         *)
(* A primary candle is its position p on the grid: it opens at p and       *)
(* closes at p + 1.  Candle n of a higher timeframe is available at        *)
(* n * Ratio.  What the frame of a candle says is fixed by `market`.  The  *)
(* halal, quality and eligibility analysers keep no state but counts and   *)
(* are operators of SetupScore.                                            *)
(***************************************************************************)
EXTENDS Naturals, Sequences, SequencesExt, SetupScore

CONSTANTS
    Timeframes,   \* MTFConfig.higher_timeframes
    Ratio,        \* primary candles to one candle of a higher timeframe
    Markets,      \* the markets, settings and symbols a run may start with
    MaxPrimary,   \* bound: primary candles
    MaxHigher,    \* bound: candles of each higher timeframe
    MaxRestarts   \* bound: restarts of the process

Candle == 1 .. MaxPrimary
HigherCandle == 1 .. MaxHigher

\* A market: what each frame says, the trend label of each higher frame, the
\* threshold of the configuration and whether the symbol is allowed.
MarketType == [facts : [Candle -> Facts],
               trend : [Timeframes -> [HigherCandle -> MTFDirection \ {"MIXED"}]],
               threshold : 0 .. 100, halal : BOOLEAN]

ASSUME RatioAssumption == Ratio \in [Timeframes -> Nat \ {0}]
ASSUME BoundsAssumption == MaxPrimary \in Nat /\ MaxHigher \in Nat /\ MaxRestarts \in Nat
ASSUME MarketsAssumption == Markets \subseteq MarketType

VARIABLES
    market,
    \* LiveRuntime.
    frames,      \* _ote_frames
    higher,      \* _higher_candles
    dirty,       \* _higher_dirty
    frameCount,  \* _frame_count
    latest,      \* _latest
    built,       \* _built_higher_counts
    mtf,         \* MTFAnalyzer: frames it was built over, cursor, published, count
    engine,      \* SignalEngineAnalyzer: published setups, latest, count
    pc,          \* where update() or the startup is
    \* The service around it.
    pending,     \* candles the startup has still to replay
    warming,     \* the startup is under way
    fresh,       \* the frames of the cycle that is under way
    \* Durable, and what left the process.
    recorded,    \* the frames the ledger session has seen, in order
    saved,       \* the checkpoint
    delivered,   \* BUY frames handed to delivery, in order
    restarts

runtimeVars == <<frames, higher, dirty, frameCount, latest, built, mtf, engine>>
serviceVars == <<pending, warming, fresh>>
durableVars == <<recorded, saved, delivered, restarts>>
vars == <<market, runtimeVars, pc, serviceVars, durableVars>>

-----------------------------------------------------------------------------
(* Time. *)

Available(tf, n) == n * Ratio[tf]

\* is_eligible: known at the open of the primary candle.
Eligible(tf, n, p) == Available(tf, n) <= p

-----------------------------------------------------------------------------
(* The join and the engine. *)

NoFrame == [candle |-> 0]

FreshMtf(known) == [known     |-> known,
                    cursor    |-> [tf \in Timeframes |-> 0],
                    published |-> [tf \in Timeframes |-> {}],
                    count     |-> 0]

FreshEngine == [published |-> {}, latest |-> NoFrame, count |-> 0]

\* The cursor loop of MTFAnalyzer.update.
CursorAt(m, tf, p) ==
    CHOOSE c \in m.cursor[tf] .. m.known[tf] :
        /\ \A i \in m.cursor[tf] + 1 .. c : Eligible(tf, higher[tf][i], p)
        /\ c < m.known[tf] => ~Eligible(tf, higher[tf][c + 1], p)

\* MTFAnalyzer.update.
Joined(m, p) ==
    LET cursor == [tf \in Timeframes |-> CursorAt(m, tf, p)]
    IN [m EXCEPT !.cursor = cursor,
                 !.published = [tf \in Timeframes |->
                     @[tf] \cup {higher[tf][i] : i \in m.cursor[tf] + 1 .. cursor[tf]}],
                 !.count = @ + 1]

\* The relations of a snapshot: the evidence published so far and the latest
\* frame, 0 for none, of each higher timeframe.
Context(m) ==
    [tf \in Timeframes |-> [published |-> m.published[tf],
                            latest    |-> IF m.cursor[tf] = 0 THEN 0
                                          ELSE higher[tf][m.cursor[tf]]]]

\* htf_direction of every relation, and their confluence.
Direction(context) ==
    Confluence({IF context[tf].latest = 0 THEN "INSUFFICIENT_CONTEXT"
                ELSE market.trend[tf][context[tf].latest] : tf \in Timeframes})

\* setup_identity: the events of a candle have identities of their own.
Identity(p, context) ==
    LET facts == market.facts[p]
    IN [bias  |-> Bias(market.halal, facts, Direction(context)),
        mtf   |-> context,
        zone  |-> facts.zone,
        event |-> IF facts.displacement \/ facts.gap \/ facts.block # "NONE" THEN p ELSE 0]

Status(p, context) ==
    StatusFor(market.halal, market.facts[p], Direction(context), market.threshold)

\* Variant: the fence is not looked at.
SnapshotUnfenced(p, context, published) ==
    [candle |-> p, context |-> context, status |-> Status(p, context)]

\* build_signal_snapshot: a BUY of a setup that was published is none.
Snapshot(p, context, published) ==
    [candle |-> p, context |-> context,
     status |-> IF Status(p, context) = "BUY_SIGNAL" /\ Identity(p, context) \in published
                THEN "NO_SIGNAL" ELSE Status(p, context)]

\* SignalEngineAnalyzer.update.
Published(e, p, context) ==
    LET snapshot == Snapshot(p, context, e.published)
    IN [published |-> IF snapshot.status = "BUY_SIGNAL"
                      THEN e.published \cup {Identity(p, context)} ELSE e.published,
        latest    |-> snapshot,
        count     |-> e.count + 1]

\* _advance_downstream.
AdvanceDownstream(p) ==
    /\ mtf' = Joined(mtf, p)
    /\ engine' = Published(engine, p, Context(mtf'))

-----------------------------------------------------------------------------
(* The rebuild. *)

HigherCounts == [tf \in Timeframes |-> Len(higher[tf])]

\* Variant: a candle that became available exactly at the last open is new.
AffectsStrictly ==
    /\ mtf.count \in 1 .. Len(frames)
    /\ \E tf \in Timeframes : \E i \in built[tf] + 1 .. Len(higher[tf]) :
           Available(tf, higher[tf][i]) < frames[mtf.count]

\* _new_htf_affects_processed_primaries.
AffectsProcessed ==
    /\ mtf.count \in 1 .. Len(frames)
    /\ \E tf \in Timeframes : \E i \in built[tf] + 1 .. Len(higher[tf]) :
           Eligible(tf, higher[tf][i], frames[mtf.count])

\* _can_fast_forward.
CanFastForward ==
    /\ latest # NoFrame /\ frames # <<>>
    /\ mtf.count = frameCount /\ engine.count = frameCount
    /\ ~AffectsProcessed
    /\ \A tf \in Timeframes : built[tf] <= Len(higher[tf])

\* _fast_forward_downstream: the join over the longer histories, its own
\* progress restored.
Restored == [mtf EXCEPT !.known = HigherCounts]

\* _build_downstream when it may fast-forward.
FastForward ==
    /\ pc = "build" /\ CanFastForward
    /\ mtf' = Restored
    /\ built' = HigherCounts
    /\ dirty' = FALSE
    /\ pc' = "advance"
    /\ UNCHANGED <<market, frames, higher, frameCount, latest, engine, serviceVars, durableVars>>

\* _build_downstream when it may not: a new join and a new engine.
Rebuild ==
    /\ pc = "build" /\ ~CanFastForward
    /\ mtf' = FreshMtf(HigherCounts)
    /\ engine' = FreshEngine
    /\ pc' = "replay"
    /\ UNCHANGED <<market, frames, higher, dirty, frameCount, latest, built, serviceVars,
                   durableVars>>

\* One frame of the full replay.
Replay ==
    /\ pc = "replay" /\ mtf.count < Len(frames)
    /\ AdvanceDownstream(frames[mtf.count + 1])
    /\ UNCHANGED <<market, frames, higher, dirty, frameCount, latest, built, pc, serviceVars,
                   durableVars>>

\* update() returns `snapshot`: to the startup, or to the cycle.
Return(snapshot) ==
    /\ frameCount' = frameCount + 1
    /\ latest' = snapshot
    /\ fresh' = Append(fresh, snapshot)
    /\ pc' = IF warming /\ pending = <<>> THEN "verify" ELSE "idle"

\* The replay has reached the candle that was pushed.
ReplayDone ==
    /\ pc = "replay" /\ mtf.count = Len(frames)
    /\ built' = HigherCounts
    /\ dirty' = FALSE
    /\ Return(engine.latest)
    /\ UNCHANGED <<market, frames, higher, mtf, engine, pending, warming, durableVars>>

\* Only the candle that was pushed advances.
Advance ==
    /\ pc = "advance"
    /\ AdvanceDownstream(frames[Len(frames)])
    /\ Return(engine'.latest)
    /\ UNCHANGED <<market, frames, higher, dirty, built, pending, warming, durableVars>>

-----------------------------------------------------------------------------
(* The service. *)

LastOf(candles) == IF candles = <<>> THEN 0 ELSE candles[Len(candles)]

\* extend_higher, which refuses a candle that is not newer.
ExtendHigher(tf, n) ==
    /\ n > LastOf(higher[tf])
    /\ higher' = [higher EXCEPT ![tf] = Append(@, n)]

\* run_cycle accepts a higher candle: before the primary ones of the cycle.
AcceptHigher ==
    /\ pc = "idle" /\ ~warming /\ fresh = <<>>
    /\ \E tf \in Timeframes, n \in HigherCandle : ExtendHigher(tf, n)
    /\ dirty' = TRUE
    /\ UNCHANGED <<market, frames, frameCount, latest, built, mtf, engine, pc, serviceVars,
                   durableVars>>

\* _push_primary.
PushPrimary(p) ==
    /\ frames' = Append(frames, p)
    /\ pc' = IF dirty THEN "build" ELSE "advance"
    /\ UNCHANGED <<market, higher, dirty, frameCount, latest, built, mtf, engine, warming, fresh,
                   durableVars>>

\* run_cycle accepts a primary candle; the plain feed may leave one out.
AcceptPrimary ==
    /\ pc = "idle" /\ ~warming
    /\ \E p \in Candle :
        /\ p \in LastOf(frames) + 1 .. LastOf(frames) + 2
        /\ PushPrimary(p)
    /\ UNCHANGED pending

\* warm_up: the next candle of the recovery history.
WarmUp ==
    /\ pc = "idle" /\ warming
    /\ PushPrimary(Head(pending))
    /\ pending' = Tail(pending)

\* export_checkpoint_state.
Export ==
    [frames |-> frames, higher |-> higher, published |-> engine.published, latest |-> latest]

IsBuy(snapshot) == snapshot.status = "BUY_SIGNAL"

\* The BUY frames among them, in order.
BuysOf(snapshots) ==
    LET upTo[k \in 0 .. Len(snapshots)] ==
            IF k = 0 THEN <<>>
            ELSE IF IsBuy(snapshots[k]) THEN Append(upTo[k - 1], snapshots[k])
            ELSE upTo[k - 1]
    IN  upTo[Len(snapshots)]

\* Variant: the cycle leaves the checkpoint of the last start.
FinishWithoutCheckpoint ==
    /\ pc = "idle" /\ ~warming /\ fresh # <<>>
    /\ recorded' = recorded \o fresh
    /\ delivered' = delivered \o BuysOf(fresh)
    /\ fresh' = <<>>
    /\ UNCHANGED <<market, runtimeVars, pc, pending, warming, saved, restarts>>

\* The rest of run_cycle: ledger, checkpoint, delivery; nothing without frames.
FinishCycle ==
    /\ pc = "idle" /\ ~warming /\ fresh # <<>>
    /\ recorded' = recorded \o fresh
    /\ saved' = Export
    /\ delivered' = delivered \o BuysOf(fresh)
    /\ fresh' = <<>>
    /\ UNCHANGED <<market, runtimeVars, pc, pending, warming, restarts>>

\* A new process: a runtime over the saved higher candles, nothing pushed.
Restart ==
    /\ restarts < MaxRestarts /\ saved.frames # <<>>
    /\ restarts' = restarts + 1
    /\ higher' = saved.higher
    /\ built' = [tf \in Timeframes |-> Len(saved.higher[tf])]
    /\ mtf' = FreshMtf([tf \in Timeframes |-> Len(saved.higher[tf])])
    /\ engine' = FreshEngine
    /\ frames' = <<>> /\ dirty' = FALSE /\ frameCount' = 0 /\ latest' = NoFrame
    /\ pending' = saved.frames /\ warming' = TRUE /\ fresh' = <<>>
    /\ pc' = "idle"
    /\ UNCHANGED <<market, recorded, saved, delivered>>

\* The checks of the checkpoint against what the warm-up regenerated.
CheckpointAgrees ==
    saved.frames # <<>> =>
        /\ engine.published = saved.published
        /\ latest = saved.latest
        /\ frameCount = Len(saved.frames)

\* open_ledger_session: a prefix of the regenerated frames has the stored ledger.
LedgerAgrees == IsPrefix(BuysOf(recorded), BuysOf(fresh))

\* start_live_service after the warm-up.
Verify ==
    /\ pc = "verify"
    /\ IF CheckpointAgrees /\ LedgerAgrees
       THEN /\ pc' = "idle" /\ warming' = FALSE
            /\ recorded' = fresh /\ saved' = Export /\ fresh' = <<>>
       ELSE /\ pc' = IF CheckpointAgrees THEN "refused_ledger" ELSE "refused_checkpoint"
            /\ UNCHANGED <<recorded, saved, fresh, warming>>
    /\ UNCHANGED <<market, runtimeVars, pending, delivered, restarts>>

-----------------------------------------------------------------------------

\* The first poll: some of every history, and at least one primary candle.
Init ==
    /\ market \in Markets
    /\ higher \in [Timeframes -> {<<>>} \cup {[i \in 1 .. n |-> i] : n \in HigherCandle}]
    /\ \E n \in Candle : pending = [i \in 1 .. n |-> i]
    /\ built = HigherCounts /\ mtf = FreshMtf(HigherCounts) /\ engine = FreshEngine
    /\ frames = <<>> /\ dirty = FALSE /\ frameCount = 0 /\ latest = NoFrame
    /\ warming = TRUE /\ fresh = <<>> /\ pc = "idle"
    /\ recorded = <<>> /\ delivered = <<>> /\ restarts = 0
    /\ saved = [frames |-> <<>>, higher |-> higher, published |-> {}, latest |-> NoFrame]

Next ==
    \/ AcceptHigher \/ AcceptPrimary \/ WarmUp
    \/ FastForward \/ Rebuild \/ Replay \/ ReplayDone \/ Advance
    \/ FinishCycle \/ Restart \/ Verify

Spec == Init /\ [][Next]_vars

-----------------------------------------------------------------------------
(* The reference: the whole history at once. *)

\* The higher candles known at the open of p.
Known(tf, p) == {n \in Range(higher[tf]) : Available(tf, n) <= p}

FullContext(p) ==
    [tf \in Timeframes |-> [published |-> Known(tf, p),
                            latest    |-> IF Known(tf, p) = {} THEN 0
                                          ELSE CHOOSE n \in Known(tf, p) :
                                                   \A k \in Known(tf, p) : k <= n]]

\* The setups that qualified at the candles before the i-th, the i-th included.
Setups(i) == {Identity(frames[j], FullContext(frames[j])) :
                 j \in {k \in 1 .. i : Status(frames[k], FullContext(frames[k])) = "BUY_SIGNAL"}}

\* The i-th frame, had every higher candle been there from the start.
FullFrame(i) == Snapshot(frames[i], FullContext(frames[i]), Setups(i - 1))

-----------------------------------------------------------------------------
(* Properties. *)

TypeOK ==
    /\ market \in Markets
    /\ frames \in Seq(Candle) /\ pending \in Seq(Candle)
    /\ higher \in [Timeframes -> Seq(HigherCandle)]
    /\ dirty \in BOOLEAN /\ warming \in BOOLEAN
    /\ frameCount \in Nat /\ restarts \in 0 .. MaxRestarts
    /\ built \in [Timeframes -> Nat]
    /\ mtf \in [known : [Timeframes -> Nat], cursor : [Timeframes -> Nat],
                published : [Timeframes -> SUBSET HigherCandle], count : Nat]
    /\ engine.count \in Nat
    /\ latest # NoFrame => latest.candle \in Candle /\ latest.status \in SignalStatus
    /\ pc \in {"idle", "build", "replay", "advance", "verify", "refused_checkpoint",
               "refused_ledger"}

\* "Either path is frame-for-frame equivalent to having held the full HTF
\* history from the start" (live/runtime.py): whenever no reconstruction is
\* due, the fence and the last frame that update() returned are those of the
\* whole history, whichever mixture of fast-forwards and replays came before.
EitherPathIsEquivalent ==
    pc = "idle" /\ ~dirty =>
        /\ engine.published = Setups(Len(frames))
        /\ frames # <<>> => latest = FullFrame(Len(frames))

\* One BUY per setup (signal_engine/evidence.py, "one_per_setup"): no two
\* frames handed to delivery have the same setup, although a rebuild throws the
\* fence away and a restart starts with an empty one.
OneBuyPerSetup ==
    \A i, j \in 1 .. Len(delivered) : i < j =>
        Identity(delivered[i].candle, delivered[i].context)
            # Identity(delivered[j].candle, delivered[j].context)

\* A checkpoint can be resumed from: what its histories regenerate is the
\* fence, the signal and the count that were saved with them, also when the
\* process died between a higher candle and the next checkpoint.
CheckpointIsReproduced == pc # "refused_checkpoint"

\* Whichever way the chain was built, by update() or from a checkpoint, it is the
\* chain of the whole history (live/runtime.py, live/service.py).
ChainFollowsHistory == EitherPathIsEquivalent /\ CheckpointIsReproduced

\* The ledger refuses a restart only if some frame it has seen was published
\* without a higher candle that was eligible for it and arrived too late.
RefusedOnlyAfterLateCandle ==
    pc = "refused_ledger" =>
        \E i \in 1 .. Len(recorded) : recorded[i].context # FullContext(recorded[i].candle)

\* At the default threshold a BUY takes every event at once: the candle itself
\* publishes a displacement, a sweep, a gap and an order block, and the higher
\* timeframes agree on bullish (the components that never score leave 80 of
\* the 100 points).
DefaultBuyTakesEverything ==
    latest # NoFrame /\ latest.status = "BUY_SIGNAL" /\ market.threshold >= 75 =>
        LET facts == market.facts[latest.candle]
        IN /\ facts.displacement /\ facts.sweep /\ facts.gap /\ facts.block # "NONE"
           /\ Direction(latest.context) = "BULLISH"
=============================================================================
