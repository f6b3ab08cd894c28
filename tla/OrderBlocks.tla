---------------------------- MODULE OrderBlocks ----------------------------
(***************************************************************************)
(* Order blocks (analysis/order_blocks): the opposing candle before a      *)
(* displacement.  A configuration may ask for a gap around the             *)
(* displacement, and then the block waits for the next candle.             *)
(***************************************************************************)
EXTENDS Displacement

CONSTANTS
    MaxLookback,      \* max_candidate_lookback
    Configurations    \* what OrderBlockConfig may say otherwise

ASSUME OrderBlockAssumption ==
    /\ MaxLookback \in Nat \ {0}
    /\ Configurations \subseteq
         [selection : {"nearest", "earliest"}, basis : {"full_range", "body"},
          allowDoji : BOOLEAN, requireFvg : BOOLEAN,
          structure : {"bos_or_choch", "bos", "choch", "displacement_only"}]

VARIABLES
    config,     \* _config
    history,    \* _history
    pending,    \* _pending: at most one wait
    blocks      \* events of the newest frame: at most one

blockVars == <<config, history, pending, blocks>>

Opposite(direction) == IF direction = "bullish" THEN "bearish" ELSE "bullish"

ZoneLower(candle) ==
    IF config.basis = "full_range" THEN candle.low ELSE Min({candle.open, candle.close})
ZoneUpper(candle) ==
    IF config.basis = "full_range" THEN candle.high ELSE Max({candle.open, candle.close})

(* select_candidate: by the facts of the candles alone.                    *)
Candidate(candle, displaced) ==
    /\ \/ Direction(candle) = Opposite(displaced.direction)
       \/ config.allowDoji /\ Direction(candle) = "none"
    /\ candle.available <= displaced.index
    /\ ZoneUpper(candle) > ZoneLower(candle)

Candidates(past, displaced) == {i \in 1 .. Len(past) : Candidate(past[i], displaced)}

Selected(past, displaced) ==
    past[IF config.selection = "nearest" THEN Max(Candidates(past, displaced))
         ELSE Min(Candidates(past, displaced))]

Departs(candidate, displaced, close) ==
    IF displaced.direction = "bullish" THEN close > ZoneUpper(candidate)
    ELSE close < ZoneLower(candidate)

StructureAgrees(displaced, events) ==
    LET matching == {e \in events : e.direction = displaced.direction}
    IN  CASE config.structure = "displacement_only" -> TRUE
          [] config.structure = "bos_or_choch" -> matching # {}
          [] config.structure = "bos" -> \E e \in matching : e.kind = "BOS"
          [] config.structure = "choch" -> \E e \in matching : e.kind = "CHoCH"

\* A variant that lets any candidate stand in for the selected one.
FormsWithAny(past, displaced, close, events) ==
    /\ displaced.event
    /\ \E i \in Candidates(past, displaced) : Departs(past[i], displaced, close)
    /\ StructureAgrees(displaced, events)

(* formation_candidate: the selected candle stands or falls, no other one  *)
(* is tried after it.                                                      *)
Forms(past, displaced, close, events) ==
    /\ displaced.event
    /\ Candidates(past, displaced) # {}
    /\ Departs(Selected(past, displaced), displaced, close)
    /\ StructureAgrees(displaced, events)

Block(past, displaced, candle) ==
    LET candidate == Selected(past, displaced)
    IN  [displaced |-> displaced.index, candidate |-> candidate.index,
         direction |-> displaced.direction,
         lower |-> ZoneLower(candidate), upper |-> ZoneUpper(candidate),
         index |-> candle.index, available |-> candle.available]

(* matching_fvg                                                            *)
GapMatches(displaced, gaps) ==
    \E g \in gaps : /\ g.index = displaced.index + 1
                    /\ g.direction = displaced.direction
                    /\ g.middle.event /\ g.middle = displaced

OrderBlockInit ==
    config \in Configurations /\ history = <<>> /\ pending = {} /\ blocks = {}

(* OrderBlockAnalyzer.update                                               *)
OrderBlockUpdate(candle) ==
    LET forms == Forms(history, displacement', candle.close, snapshot'.events)
        waited == {Block(p.past, p.displaced, candle) :
                     p \in {q \in pending : GapMatches(q.displaced, gap')}}
    IN  /\ blocks' = IF config.requireFvg THEN waited
                     ELSE IF forms THEN {Block(history, displacement', candle)} ELSE {}
        /\ pending' = IF config.requireFvg /\ forms
                      THEN {[past |-> history, displaced |-> displacement']} ELSE {}
        /\ history' = Slide(history, candle, MaxLookback)
        /\ UNCHANGED config
=============================================================================
