--------------------------- MODULE AnalysisChain ---------------------------
(***************************************************************************)
(* The chain of analyzers that closed candles pass through, from the       *)
(* market structure to the mitigated zones, and what its frames must say   *)
(* of the candles.  The order is that of LiveRuntime._push_primary in      *)
(* live/runtime.py up to the retracement zone, and then that of the shift, *)
(* breaker and mitigation analyzers, each of which takes the frame of the  *)
(* one before.                                                             *)
(*                                                                         *)
(* The analyzers keep short windows and sets of candidates and look at     *)
(* every candle once.  The properties say the same things of the whole     *)
(* history of candles, without any of that state.                          *)
(***************************************************************************)
EXTENDS EvidenceChecks

CONSTANT Feed    \* Feed[i]: what candle i - 1 may be; bound on the history

ASSUME FeedAssumption ==
    /\ Feed \in Seq(SUBSET [open : Nat, high : Nat, low : Nat, close : Nat, lag : Nat])
    /\ \A i \in 1 .. Len(Feed) : \A c \in Feed[i] :
          c.low > 0 /\ c.low <= Min({c.open, c.close}) /\ c.high >= Max({c.open, c.close})

VARIABLE frames    \* the frames published so far, one for each candle

vars == <<structureVars, liquidityVars, displacementVars, gapVars, blockVars, rangeVars,
          zoneVars, frames>>

(* A candle becomes available when it closes, or lag candles later: the    *)
(* available_at that LiquidityAnalyzer.update takes beside the candle.     *)
Observed(shape) ==
    [index |-> Len(frames), open |-> shape.open, high |-> shape.high, low |-> shape.low,
     close |-> shape.close, available |-> Len(frames) + 1 + shape.lag]

Init ==
    /\ StructureInit /\ LiquidityInit /\ DisplacementInit /\ GapInit
    /\ OrderBlockInit /\ RangeInit /\ ZoneInit
    /\ frames = <<>>

Analyze(candle) ==
    /\ StructureUpdate(candle)
    /\ LiquidityUpdate(candle)
    /\ DisplacementUpdate(candle)
    /\ GapUpdate(candle)
    /\ OrderBlockUpdate(candle)
    /\ PremiumUpdate(candle)
    /\ OTEUpdate(candle)
    /\ ShiftUpdate(candle)
    /\ BreakerUpdate(candle)
    /\ MitigationUpdate(candle)
    /\ frames' = Append(frames,
         [candle |-> candle, swings |-> snapshot'.swings, events |-> snapshot'.events,
          trend |-> snapshot'.trend, updates |-> updates', sweeps |-> sweeps',
          displacement |-> displacement', gap |-> gap', blocks |-> blocks', range |-> range',
          premium |-> premium', ote |-> ote', shift |-> shift',
          violations |-> violations', mitigations |-> mitigations'])

(* Availability must not rewind: LiquidityAnalyzer.update refuses such a   *)
(* candle before it changes anything.                                      *)
Next ==
    /\ Len(frames) < Len(Feed)
    /\ \E shape \in Feed[Len(frames) + 1] :
         /\ Observed(shape).available >= snapshot.available
         /\ Analyze(Observed(shape))

Spec == Init /\ [][Next]_vars

-----------------------------------------------------------------------------
(* The history, candle by candle.                                          *)
Now == Len(frames) - 1
Indices == 0 .. Now
At(i) == frames[i + 1]
Bar(i) == frames[i + 1].candle

IsFractal(kind, p) ==
    /\ p - Radius >= 0 /\ p + Radius <= Now
    /\ \A i \in (p - Radius .. p + Radius) \ {p} :
          Beyond(kind, Extreme(Bar(p), kind), Extreme(Bar(i), kind))

\* The pivots whose confirmation has closed by candle i.
PivotsBy(kind, i) == {p \in Indices : p + Radius <= i /\ IsFractal(kind, p)}

TrendBy(i) ==
    LET Newest(kind) == Max(PivotsBy(kind, i))
        Older(kind) == Max(PivotsBy(kind, i) \ {Newest(kind)})
        Rising(kind) == Extreme(Bar(Newest(kind)), kind) > Extreme(Bar(Older(kind)), kind)
        Falling(kind) == Extreme(Bar(Newest(kind)), kind) < Extreme(Bar(Older(kind)), kind)
    IN  IF \E kind \in Kinds : Cardinality(PivotsBy(kind, i)) < 2 THEN "ranging"
        ELSE IF \A kind \in Kinds : Rising(kind) THEN "bullish"
        ELSE IF \A kind \in Kinds : Falling(kind) THEN "bearish" ELSE "ranging"

\* Candle i is the first after the confirmation of pivot p to close across it.
Crosses(kind, p, i) ==
    /\ ~Beyond(kind, Bar(i - 1).close, Extreme(Bar(p), kind))
    /\ Beyond(kind, Bar(i).close, Extreme(Bar(p), kind))

FirstCrossing(kind, p, i) ==
    Crosses(kind, p, i) /\ \A k \in p + Radius + 1 .. i - 1 : ~Crosses(kind, p, k)

(* Every frame breaks exactly the levels that the history says it breaks:  *)
(* the newest pivot of a kind that was confirmed before the candle, at the *)
(* first close across it, named by the trend of the candle before.  A      *)
(* level is spent once, in a range as well, and a swing that the candle    *)
(* itself confirms does not yet count                                      *)
(* (analysis/structure.py MarketStructureAnalyzer.update).                 *)
BreaksAreFirstCrossings ==
    Now >= 0 =>
    LET Level(kind) == Max(PivotsBy(kind, Now - 1))
    IN  /\ {<<s.kind, s.pivot>> : s \in At(Now).swings} =
             {<<kind, Now - Radius>> : kind \in {k \in Kinds : IsFractal(k, Now - Radius)}}
        /\ {<<e.level.kind, e.level.pivot, e.kind>> : e \in At(Now).events} =
             {<<kind, Level(kind), IF Toward(kind) = TrendBy(Now - 1) THEN "BOS" ELSE "CHoCH">> :
                kind \in {k \in Kinds : /\ PivotsBy(k, Now - 1) # {}
                                        /\ TrendBy(Now - 1) # "ranging"
                                        /\ FirstCrossing(k, Level(k), Now)}}

Breaches(pool) == {i \in pool.anchor.pivot .. Now : Breached(pool, Bar(i))}
Terminal(i) == {u \in At(i).updates : u.status # "active"}
Members(pool) == {pool.members[i] : i \in 1 .. Len(pool.members)}

(***************************************************************************)
(* A pool lives until the first candle that trades through its band,       *)
(* counted from its first pivot, and that candle decides how it ends: it   *)
(* sweeps the pool only if the pool was known when it opened, if price     *)
(* came from inside and closed back beyond the other bound.  A pool that   *)
(* ended never returns, and every swing ever confirmed is in one pool      *)
(* (analysis/liquidity/analyzer.py LiquidityAnalyzer.update).              *)
(***************************************************************************)
PoolsEndAtFirstBreach ==
    /\ \A pool \in pools : Breaches(pool) = {}
    /\ \A u \in updates : u.status # "active" =>
         /\ Breaches(u.pool) = {Now}
         /\ (u.status = "swept") <=>
              /\ \A s \in Members(u.pool) : s.available <= Now
              /\ ~StartedOutside(u.pool, Bar(Now - 1), Bar(Now))
              /\ Reclaimed(u.pool, Bar(Now))
    /\ \A i \in Indices : \A s \in At(i).swings :
         Cardinality({p \in pools \cup UNION {{u.pool : u \in Terminal(k)} : k \in Indices} :
                        s \in Members(p)}) = 1

(***************************************************************************)
(* A level and a pool of liquidity each end once, at the first candle      *)
(* across them in the whole history, in the way that this candle says: the *)
(* two claims above together (analysis/structure.py                        *)
(* MarketStructureAnalyzer.update, analysis/liquidity/analyzer.py          *)
(* LiquidityAnalyzer.update).                                              *)
(***************************************************************************)
LevelsEndOnce == BreaksAreFirstCrossings /\ PoolsEndAtFirstBreach

(***************************************************************************)
(* Nothing that a frame publishes rests on what was not yet available when *)
(* its candle opened, its own candle apart: the pool of a sweep, the       *)
(* sweeps before a displacement, the trend and the level of a shift, the   *)
(* candle of an order block, the block of a breaker or of a mitigation,    *)
(* the range of a retracement (docs/no-look-ahead.md).                     *)
(***************************************************************************)
NothingFromTheFuture ==
    Now >= 0 =>
    /\ \A s \in At(Now).sweeps : \A m \in Members(s.pool) : m.available <= Now
    /\ \A s \in At(Now).displacement.preceding : s.available <= Now
    /\ \A b \in At(Now).blocks :
         Bar(b.candidate).available <= b.displaced /\ b.displaced <= Now
    /\ \A m \in At(Now).shift : m.level.available <= Now /\ Bar(Now - 1).available <= Now
    /\ \A v \in Qualified(At(Now).violations) : v.block.available <= Now
    /\ \A m \in At(Now).mitigations : m.block.available <= Now
    /\ \A z \in At(Now).ote.usable : z.range.available <= Now

\* The newest confirmed pivot of each kind by candle i, if they span a range.
SpansBy(i) ==
    /\ \A kind \in Kinds : PivotsBy(kind, i) # {}
    /\ LET low == Max(PivotsBy("low", i))
           high == Max(PivotsBy("high", i))
       IN  low # high /\ Bar(high).high > Bar(low).low

\* What a frame reads off that range, in terms of the history alone.
NewestMoveIsRead ==
    LET low == Max(PivotsBy("low", Now))
        high == Max(PivotsBy("high", Now))
        since == Max({low, high}) + Radius
        bottom == Bar(low).low
        size == Bar(high).high - bottom
        close == Bar(Now).close
        \* how much of the move the close has given back, times 100
        given == 100 * (IF low < high THEN Bar(high).high - close ELSE close - bottom)
        known == since < Now /\ Bar(since).available <= Now
    IN  /\ {<<r.low.pivot, r.high.pivot, r.index>> : r \in range} = {<<low, high, since>>}
        /\ premium.class = "OUTSIDE_RANGE" <=> close \notin bottom .. bottom + size
        /\ premium.class = "DISCOUNT" <=>
             close >= bottom /\ 100 * (close - bottom) < (50 - HalfWidthPct) * size
        /\ premium.class = "PREMIUM" <=>
             close <= bottom + size /\ 100 * (close - bottom) > (50 + HalfWidthPct) * size
        /\ (ote.class = "INSUFFICIENT_CONTEXT") <=> ~known
        /\ (ote.class = "INSIDE_OTE") <=>
             /\ known
             /\ given >= LowerRetracementPct * size /\ given <= UpperRetracementPct * size

(***************************************************************************)
(* The range of a frame is that of the newest confirmed low and high, and  *)
(* no range when these are one candle or the wrong way round.  It dates    *)
(* from the candle that confirmed the later of the two, however long it    *)
(* stays, and a close counts as a retracement of the move only from the    *)
(* first candle on that opened when that confirmation was available.  On   *)
(* the very candle that replaces a range there is no retracement, not even *)
(* of the range before                                                     *)
(* (premium_discount/analyzer.py PDAnalyzer.update, ote/analyzer.py        *)
(* OTEAnalyzer.update).                                                    *)
(***************************************************************************)
RangeFollowsThePivots ==
    /\ (Now >= 0 /\ ~SpansBy(Now)) =>
         /\ range = {} /\ premium.class = "INSUFFICIENT_CONTEXT"
         /\ ote.class = "INSUFFICIENT_CONTEXT"
    /\ (Now >= 0 /\ SpansBy(Now)) => NewestMoveIsRead

Opposing(d) ==
    {k \in d - MaxLookback .. d - 1 :
        /\ k >= 0 /\ Bar(k).available <= d /\ ZoneUpper(Bar(k)) > ZoneLower(Bar(k))
        /\ \/ Direction(Bar(k)) = Opposite(Direction(Bar(d)))
           \/ config.allowDoji /\ Direction(Bar(k)) = "none"}

\* The one of them that the configuration selects.
Source(d) == IF config.selection = "nearest" THEN Max(Opposing(d)) ELSE Min(Opposing(d))

LeavesZone(d, k) ==
    IF Direction(Bar(d)) = "bullish" THEN Bar(d).close > ZoneUpper(Bar(k))
    ELSE Bar(d).close < ZoneLower(Bar(k))

\* The candles around d leave a gap of the size that counts.
GapAround(d) ==
    /\ d >= 1 /\ d < Now
    /\ IF Direction(Bar(d)) = "bullish"
       THEN Bar(d + 1).low > Bar(d - 1).high /\ Bar(d + 1).low - Bar(d - 1).high >= MinGap
       ELSE Bar(d + 1).high < Bar(d - 1).low /\ Bar(d - 1).low - Bar(d + 1).high >= MinGap

\* The structure break of candle d that the configuration asks for.
BreaksAlong(d) ==
    \/ config.structure = "displacement_only"
    \/ \E e \in At(d).events :
          /\ e.direction = Direction(Bar(d))
          /\ config.structure = "bos" => e.kind = "BOS"
          /\ config.structure = "choch" => e.kind = "CHoCH"

\* Candle d makes a block, if its gap is left aside.
Makes(d) ==
    /\ At(d).displacement.event
    /\ Opposing(d) # {} /\ LeavesZone(d, Source(d)) /\ BreaksAlong(d)

(***************************************************************************)
(* An order block is the last opposing candle before a displacement (or    *)
(* the first one, or a doji, as the configuration says) that was known by  *)
(* then and has a zone, among the candles looked back at; the displacement *)
(* must close beyond the zone, with the structure break that the           *)
(* configuration asks for on the same candle.  A block that needs a gap    *)
(* appears one candle later, with the zone of the time of the              *)
(* displacement, and only if the next candle leaves the gap                *)
(* (analysis/order_blocks/analyzer.py OrderBlockAnalyzer.update).          *)
(***************************************************************************)
BlocksAreLastOpposing ==
    LET d == IF config.requireFvg THEN Now - 1 ELSE Now
    IN  d >= 0 =>
          {<<b.displaced, b.candidate, b.index, b.lower, b.upper>> : b \in At(Now).blocks} =
            IF Makes(d) /\ (config.requireFvg => GapAround(d))
            THEN {<<d, Source(d), Now, ZoneLower(Bar(Source(d))), ZoneUpper(Bar(Source(d)))>>}
            ELSE {}

Published == UNION {At(i).blocks : i \in Indices}
Beyonds(b) == {i \in b.index .. Now : Violates(b, Bar(i).close)}

(***************************************************************************)
(* Every block is judged once, by the first close beyond its zone since it *)
(* was published: it turns into a breaker if it was known at the open and  *)
(* if that very candle is a shift against it, and otherwise never.  Two of *)
(* the six reasons that the code has for a rejection cannot occur          *)
(* (analysis/breaker_blocks/analyzer.py BreakerBlockAnalyzer.update).      *)
(***************************************************************************)
BlocksBreakOnce ==
    Now >= 0 =>
    /\ {v.block : v \in At(Now).violations} = {b \in Published : Beyonds(b) = {Now}}
    /\ \A v \in At(Now).violations :
         /\ v.reason \notin {"previous_close_already_beyond", "wrong_mss_direction"}
         /\ v.reason = "none" <=>
              /\ KnownAtOpen(v.block, Bar(Now))
              /\ \E m \in At(Now).shift : m.direction # v.block.direction

Converted(i) == {v.block : v \in Qualified(At(i).violations)}
Returns(b) == {i \in b.index + 1 .. Now : KnownAtOpen(b, Bar(i)) /\ Intersects(b, Bar(i))}

(***************************************************************************)
(* A block is mitigated once, by the first candle that trades inside its   *)
(* zone after the block was known, and never by or after the candle that   *)
(* turned it into a breaker.  A violation that made no breaker does not    *)
(* keep it from being mitigated                                            *)
(* (analysis/mitigation_blocks/analyzer.py MitigationBlockAnalyzer.update).*)
(***************************************************************************)
MitigatedOnFirstReturn ==
    Now >= 0 =>
    {m.block : m \in At(Now).mitigations} =
        {b \in Published : Returns(b) = {Now} /\ \A i \in Indices : b \notin Converted(i)}

(***************************************************************************)
(* A block is made of the last opposing candle, turns into a breaker at    *)
(* most once and is mitigated at most once, each at the first candle in    *)
(* the whole history that can: the three claims above together             *)
(* (order_blocks, breaker_blocks and mitigation_blocks analyzer.py).       *)
(***************************************************************************)
BlocksLiveOnce == BlocksAreLastOpposing /\ BlocksBreakOnce /\ MitigatedOnFirstReturn

(***************************************************************************)
(* The chain never refuses its own evidence: no constructor of a record    *)
(* raises, whatever candles close, in whatever lag they become available,  *)
(* and no block is ever published twice, which BreakerBlockAnalyzer and    *)
(* MitigationBlockAnalyzer would refuse as well (breaker_blocks/           *)
(* analyzer.py update, mitigation_blocks/analyzer.py update).              *)
(***************************************************************************)
EvidenceIsAccepted ==
    Now >= 0 =>
    /\ StructureAccepted /\ LiquidityAccepted /\ DisplacementAccepted /\ GapsAccepted
    /\ BlocksAccepted /\ PremiumAccepted /\ OTEAccepted
    /\ ShiftsAccepted /\ BreakersAccepted /\ ConversionsAccepted /\ MitigationsAccepted
    /\ \A i \in Indices : \A b \in At(i).blocks :
         b \in seen /\ \A k \in Indices : b \in At(k).blocks => k = i
=============================================================================
