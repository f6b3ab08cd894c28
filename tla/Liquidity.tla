----------------------------- MODULE Liquidity -----------------------------
(***************************************************************************)
(* Liquidity pools and sweeps (analysis/liquidity/analyzer.py and          *)
(* models.py).  A pool is the band around the price of its first swing.    *)
(* It gathers later swings inside of the band until a candle trades        *)
(* through it: that candle sweeps the pool, or invalidates it.             *)
(***************************************************************************)
EXTENDS MarketStructure

CONSTANT ToleranceBps       \* equal_tolerance_bps

ASSUME ToleranceAssumption == ToleranceBps \in 0 .. 1000

VARIABLES
    pools,     \* _active
    updates,   \* pool_updates of the newest frame
    sweeps     \* sweeps of the newest frame

liquidityVars == <<pools, updates, sweeps>>

(* price_band.  The bounds are kept in units of 1 / 10000, so that they    *)
(* are as exact as the Decimals of the code.                               *)
Scaled(price) == price * 10000
Lower(pool) == pool.anchor.price * (10000 - ToleranceBps)
Upper(pool) == pool.anchor.price * (10000 + ToleranceBps)

InBand(pool, price) == Lower(pool) <= Scaled(price) /\ Scaled(price) <= Upper(pool)

Breached(pool, candle) ==
    IF pool.anchor.kind = "high" THEN Scaled(candle.high) > Upper(pool)
    ELSE Scaled(candle.low) < Lower(pool)

(* _failure: why a candle that breaches the pool does not sweep it.        *)
StartedOutside(pool, previous, candle) ==
    IF pool.anchor.kind = "high"
    THEN Scaled(previous.close) > Upper(pool) \/ Scaled(candle.open) > Upper(pool)
    ELSE Scaled(previous.close) < Lower(pool) \/ Scaled(candle.open) < Lower(pool)

Reclaimed(pool, candle) ==
    IF pool.anchor.kind = "high" THEN Scaled(candle.close) < Lower(pool)
    ELSE Scaled(candle.close) > Upper(pool)

\* A variant that takes every active pool for known.
FailureOfAny(pool, previous, candle) ==
    IF StartedOutside(pool, previous, candle) THEN "started_outside"
    ELSE IF Reclaimed(pool, candle) THEN "none"
    ELSE "not_reclaimed"

Failure(pool, previous, candle) ==
    IF pool.available > candle.index THEN "not_known_at_open"
    ELSE IF StartedOutside(pool, previous, candle) THEN "started_outside"
    ELSE IF Reclaimed(pool, candle) THEN "none"
    ELSE "not_reclaimed"

Retirement(pool, previous, candle) ==
    LET reason == Failure(pool, previous, candle)
    IN  [pool |-> pool, status |-> IF reason = "none" THEN "swept" ELSE "invalidated",
         reason |-> reason]

-----------------------------------------------------------------------------
(* A confirmed swing joins the oldest pool of its side whose band holds    *)
(* it, or starts a pool.  Of two pools of a side the older one has the     *)
(* earlier anchor.                                                         *)
Matching(ps, swing) == {p \in ps : p.anchor.kind = swing.kind /\ InBand(p, swing.price)}

Oldest(ps) == CHOOSE p \in ps : \A q \in ps : p.anchor.pivot <= q.anchor.pivot

Started(swing) == [anchor |-> swing, members |-> <<swing>>, available |-> swing.available]

Extended(pool, swing) ==
    [anchor |-> pool.anchor, members |-> Append(pool.members, swing),
     available |-> swing.available]

Joined(ps, swing) ==
    IF Matching(ps, swing) = {} THEN ps \cup {Started(swing)}
    ELSE LET p == Oldest(Matching(ps, swing)) IN (ps \ {p}) \cup {Extended(p, swing)}

JoinedKind(ps, swings, kind) ==
    IF \E s \in swings : s.kind = kind
    THEN Joined(ps, CHOOSE s \in swings : s.kind = kind) ELSE ps

LiquidityInit == pools = {} /\ updates = {} /\ sweeps = {}

(* LiquidityAnalyzer.update, after the structure update it makes: all the  *)
(* pools that the candle breaches go before any swing joins one.           *)
LiquidityUpdate(candle) ==
    LET kept == {p \in pools : ~Breached(p, candle)}
        touched == JoinedKind(JoinedKind(kept, snapshot'.swings, "high"), snapshot'.swings, "low")
        retired == {Retirement(p, window[Len(window)], candle) : p \in pools \ kept}
    IN  /\ pools' = touched
        /\ updates' = retired \cup {[pool |-> p, status |-> "active", reason |-> "none"] :
                                       p \in touched \ kept}
        /\ sweeps' = {[pool |-> r.pool, index |-> candle.index, available |-> candle.available] :
                        r \in {q \in retired : q.status = "swept"}}
=============================================================================
