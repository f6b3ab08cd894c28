--------------------------- MODULE ZoneLifecycle ---------------------------
(***************************************************************************)
(* What becomes of an order block: the market structure shift              *)
(* (analysis/mss) over the newest confirmed swings (analysis/              *)
(* premium_discount), the breaker block that a close beyond the zone makes *)
(* of it (analysis/breaker_blocks), and the mitigation block that the      *)
(* first return into the zone makes (analysis/mitigation_blocks).          *)
(***************************************************************************)
EXTENDS DealingRange

VARIABLES
    shift,         \* events of the newest MSS frame: at most one
    candidates,    \* BreakerBlockAnalyzer._candidates
    seen,          \* _seen of it and of MitigationBlockAnalyzer
    violations,    \* evidence of the newest breaker frame
    unmitigated,   \* MitigationBlockAnalyzer._candidates
    broken,        \* its _broken
    mitigations    \* evidence of the newest mitigation frame

zoneVars == <<shift, candidates, seen, violations, unmitigated, broken, mitigations>>

-----------------------------------------------------------------------------
(* qualifying_shift: a displacement against the trend of the frame before, *)
(* whose close breaks the endpoint of the frame before.                    *)
Shifts(candle) ==
    {[index |-> candle.index, direction |-> displacement'.direction,
      level |-> e.level, available |-> candle.available] :
        e \in {f \in snapshot'.events :
                 /\ snapshot.ready /\ snapshot.trend # "ranging"
                 /\ snapshot.available <= candle.index
                 /\ displacement'.event
                 /\ displacement'.direction # snapshot.trend
                 /\ f.kind = "CHoCH" /\ f.direction = displacement'.direction
                 /\ f.before = snapshot.trend
                 /\ f.level \in endpoints
                 /\ f.level.confirmed < candle.index
                 /\ f.level.available <= candle.index}}

-----------------------------------------------------------------------------
Violates(block, close) ==
    IF block.direction = "bearish" THEN close > block.upper ELSE close < block.lower

\* A variant that goes by the index of the block alone.
KnownByIndex(block, candle) == block.index < candle.index

KnownAtOpen(block, candle) ==
    block.index < candle.index /\ block.available <= candle.index

(* rejection_reason, in the order of its early returns.                    *)
Rejection(block, candle) ==
    IF ~KnownAtOpen(block, candle) THEN "source_not_known_at_open"
    ELSE IF Violates(block, previousClose) THEN "previous_close_already_beyond"
    ELSE IF ~displacement'.event THEN "missing_displacement"
    ELSE IF displacement'.direction # Opposite(block.direction)
         THEN "wrong_displacement_direction"
    ELSE IF shift' = {} THEN "missing_mss"
    ELSE IF \A m \in shift' : m.direction # Opposite(block.direction) THEN "wrong_mss_direction"
    ELSE "none"

Violation(block, candle) ==
    [block |-> block, index |-> candle.index, reason |-> Rejection(block, candle)]

Qualified(evidence) == {v \in evidence : v.reason = "none"}

(* interior_overlap                                                        *)
Intersects(block, candle) == candle.high > block.lower /\ candle.low < block.upper

-----------------------------------------------------------------------------
ZoneInit ==
    /\ shift = {} /\ candidates = {} /\ seen = {} /\ violations = {}
    /\ unmitigated = {} /\ broken = {} /\ mitigations = {}

(* MSSAnalyzer.update                                                      *)
ShiftUpdate(candle) == shift' = Shifts(candle)

\* A variant in which an unconfirmed violation does not settle the block.
BreakerRetries(candle) ==
    LET violated == {b \in candidates \cup blocks' : Violates(b, candle.close)}
    IN  /\ violations' = {Violation(b, candle) : b \in violated}
        /\ candidates' = (candidates \cup blocks') \ {v.block : v \in Qualified(violations')}
        /\ seen' = seen \cup blocks'

(* BreakerBlockAnalyzer.update: the first violation settles a block, with  *)
(* a confirmation or without.                                              *)
BreakerUpdate(candle) ==
    LET violated == {b \in candidates \cup blocks' : Violates(b, candle.close)}
    IN  /\ violations' = {Violation(b, candle) : b \in violated}
        /\ candidates' = (candidates \cup blocks') \ violated
        /\ seen' = seen \cup blocks'

\* A variant that lets the converting candle still mitigate the block.
MitigationFirst(candle) ==
    LET converted == {v.block : v \in Qualified(violations')}
        returned == {b \in unmitigated : KnownAtOpen(b, candle) /\ Intersects(b, candle)}
    IN  /\ mitigations' = {[block |-> b, index |-> candle.index] : b \in returned}
        /\ broken' = broken \cup converted
        /\ unmitigated' = (unmitigated \ (returned \cup converted))
                             \cup (blocks' \ (broken \cup converted))

(* MitigationBlockAnalyzer.update: converted blocks leave first; a block   *)
(* published by this frame is not looked at before the next one.           *)
MitigationUpdate(candle) ==
    LET converted == {v.block : v \in Qualified(violations')}
        alive == unmitigated \ converted
        returned == {b \in alive : KnownAtOpen(b, candle) /\ Intersects(b, candle)}
    IN  /\ mitigations' = {[block |-> b, index |-> candle.index] : b \in returned}
        /\ broken' = broken \cup converted
        /\ unmitigated' = (alive \ returned) \cup (blocks' \ (broken \cup converted))
=============================================================================
