---------------------------- MODULE DealingRange ----------------------------
(***************************************************************************)
(* The dealing range between the newest confirmed low and high, where a    *)
(* price lies in it (analysis/premium_discount), and the retracement zone  *)
(* that the range opens (analysis/ote).                                    *)
(*                                                                         *)
(* A position is a price in units of 1 / 20000, so that midpoints and the  *)
(* bounds of a pool are as exact as the Decimals of the code.  Fractions   *)
(* of the range are in percent.                                            *)
(***************************************************************************)
EXTENDS OrderBlocks

CONSTANTS
    HalfWidthPct,                      \* equilibrium_half_width_fraction of PDConfig
    LowerRetracementPct, UpperRetracementPct    \* OTEConfig

ASSUME DealingRangeAssumption ==
    /\ HalfWidthPct \in 0 .. 50
    /\ LowerRetracementPct \in 1 .. 98
    /\ UpperRetracementPct \in LowerRetracementPct + 1 .. 99

VARIABLES
    endpoints,     \* _low and _high of PDAnalyzer: at most one swing of a kind
    range,         \* _range and _equilibrium: at most one
    premium,       \* classification and arrays of the newest PD frame
    ote            \* zone and observation of the newest OTE frame

rangeVars == <<endpoints, range, premium, ote>>

(* PDAnalyzer.update: the swings of this frame are the newest endpoints.   *)
EndpointsAfter(swings) ==
    {e \in endpoints : \A s \in swings : s.kind # e.kind} \cup swings

Of(kind, pair) == CHOOSE e \in pair : e.kind = kind

(* pair_status                                                             *)
PairStatus(pair) ==
    IF {e.kind : e \in pair} # Kinds THEN "missing_swings"
    ELSE IF Of("low", pair).pivot = Of("high", pair).pivot THEN "same_pivot"
    ELSE IF Of("high", pair).price <= Of("low", pair).price THEN "nonpositive_span"
    ELSE "confirmed"

(* DealingRange: the order of the pivots gives its direction, the candle   *)
(* at which it is built its confirmation.                                  *)
NewRange(pair, candle) ==
    LET low == Of("low", pair)
        high == Of("high", pair)
    IN  [low |-> low, high |-> high,
         direction |-> IF low.pivot < high.pivot THEN "bullish" ELSE "bearish",
         index |-> candle.index, available |-> candle.available]

Size(r) == r.high.price - r.low.price

\* A variant that builds the range anew at every candle.
RangeAfterRebuilt(pair, candle) ==
    IF PairStatus(pair) = "confirmed" THEN {NewRange(pair, candle)} ELSE {}

(* A range stays the same for as long as its pair of swings does.          *)
RangeAfter(pair, candle) ==
    IF PairStatus(pair) # "confirmed" THEN {}
    ELSE IF \E r \in range : {r.low, r.high} = pair THEN range
    ELSE {NewRange(pair, candle)}

-----------------------------------------------------------------------------
Position(price) == 20000 * price
Midpoint(lower, upper) == 10000 * (lower + upper)

(* equilibrium_band: half the width of the band around the midpoint.       *)
HalfWidth(r) == 200 * HalfWidthPct * Size(r)

(* classify_price of premium_discount; ranges holds the range, if any.     *)
Classified(position, ranges) ==
    IF ranges = {} THEN "INSUFFICIENT_CONTEXT"
    ELSE LET r == CHOOSE r \in ranges : TRUE
             center == Midpoint(r.low.price, r.high.price)
         IN  CASE position < Position(r.low.price) \/ position > Position(r.high.price)
                    -> "OUTSIDE_RANGE"
               [] OTHER -> IF position < center - HalfWidth(r) THEN "DISCOUNT"
                           ELSE IF position > center + HalfWidth(r) THEN "PREMIUM"
                           ELSE "EQUILIBRIUM"

Facts(kind, lower, upper, position, record) ==
    [kind |-> kind, lower |-> lower, upper |-> upper, position |-> position,
     index |-> record.index, available |-> record.available]

Zoned(kind, record) ==
    Facts(kind, Position(record.lower), Position(record.upper),
          Midpoint(record.lower, record.upper), record)

(* published_arrays with the array_prices of each: everything that the     *)
(* frames before this one published for the candle.                        *)
PublishedArrays(candle) ==
    {Facts("liquidity_pool", 2 * Lower(u.pool), 2 * Upper(u.pool),
           Position(u.pool.anchor.price), candle) : u \in updates'}
    \cup {LET extreme == Position(Extreme(candle, s.pool.anchor.kind))
          IN  Facts("sweep", extreme, extreme, extreme, s) : s \in sweeps'}
    \cup {LET close == Position(candle.close)
          IN  Facts("displacement", close, close, close, d) :
            d \in {e \in {displacement'} : e.event}}
    \cup {Zoned("fvg", g) : g \in gap'}
    \cup {Zoned("order_block", b) : b \in blocks'}

(* PDArrayContext                                                          *)
Sidecar(facts, ranges) ==
    [facts |-> facts, class |-> Classified(facts.position, ranges),
     lower |-> Classified(facts.lower, ranges), upper |-> Classified(facts.upper, ranges)]

-----------------------------------------------------------------------------
(* known_at_open of ote                                                    *)
KnownWhenOpened(r, candle) == r.index < candle.index /\ r.available <= candle.index

(* zone_geometry: bounds in percent of a price, retraced from the end of   *)
(* the move back towards its start.                                        *)
Retraced(r, pct) ==
    IF r.direction = "bullish" THEN 100 * r.high.price - pct * Size(r)
    ELSE 100 * r.low.price + pct * Size(r)

ZoneOf(r) ==
    [range |-> r,
     lower |-> Min({Retraced(r, LowerRetracementPct), Retraced(r, UpperRetracementPct)}),
     upper |-> Max({Retraced(r, LowerRetracementPct), Retraced(r, UpperRetracementPct)})]

(* classify_price of ote                                                   *)
OTEClass(close, zones) ==
    IF zones = {} THEN "INSUFFICIENT_CONTEXT"
    ELSE LET z == CHOOSE z \in zones : TRUE
         IN  IF 100 * close < z.lower THEN "BELOW_OTE"
             ELSE IF 100 * close > z.upper THEN "ABOVE_OTE" ELSE "INSIDE_OTE"

-----------------------------------------------------------------------------
RangeInit ==
    /\ endpoints = {} /\ range = {}
    /\ premium = [class |-> "INSUFFICIENT_CONTEXT", arrays |-> {}]
    /\ ote = [zone |-> {}, usable |-> {}, class |-> "INSUFFICIENT_CONTEXT"]

(* PDAnalyzer.update                                                       *)
PremiumUpdate(candle) ==
    /\ endpoints' = EndpointsAfter(snapshot'.swings)
    /\ range' = RangeAfter(endpoints', candle)
    /\ premium' = [class |-> Classified(Position(candle.close), range'),
                   arrays |-> {Sidecar(f, range') : f \in PublishedArrays(candle)}]

(* OTEAnalyzer.update: the zone is that of the current range, but a close  *)
(* is only judged by a range that was known when its candle opened.        *)
OTEUpdate(candle) ==
    LET zones == {ZoneOf(r) : r \in range'}
        usable == {z \in zones : KnownWhenOpened(z.range, candle)}
    IN  ote' = [zone |-> zones, usable |-> usable, class |-> OTEClass(candle.close, usable)]
=============================================================================
