------------------------------ MODULE LiveCycle ------------------------------
(***************************************************************************)
(* One live process around its poll cycle: the market feed and its cursor  *)
(* (live/market_feed.py, live/gap_aware_feed.py), the cycle and the        *)
(* startup of the services (live/service.py, live/gap_aware_service.py)    *)
(* and the verified opening of the ledger (sessions/ledger_session.py).    *)
(*                                                                         *)
(* A primary candle is its position on the candle grid.  A history, window *)
(* or batch of candles is the set of them, for every list of candles in    *)
(* the code is strictly ascending.  Higher-timeframe candles are left out: *)
(* what counts here is that they are fetched after the primary ones and    *)
(* that this fetch may fail.  One step is one fetch, one durable write or  *)
(* one hand-over to delivery.                                              *)
(***************************************************************************)
EXTENDS Integers, Sequences, FiniteSetsExt

CONSTANTS
    MaxCandle,      \* bound: candles that close during a behaviour
    HistoryLimit,   \* MarketDataConfig.history_limit
    Horizon,        \* OutcomeTrackingConfig.horizon_bars
    LocalBound,     \* RetentionPolicy.local_context_bound
    Buys,           \* the candles whose frame is a BUY signal
    HoleSets,       \* which candles the exchange may never publish
    Services,       \* the services an operator may start
    MaxDeaths,      \* bound: deaths of the process
    CheckpointFaults    \* what may befall the checkpoint file, once

Candle == 1 .. MaxCandle

ASSUME BoundAssumption ==
    /\ MaxCandle \in Nat /\ HistoryLimit \in Nat \ {0} /\ Horizon \in Nat \ {0}
    /\ LocalBound \in Nat /\ LocalBound >= 3
    /\ MaxDeaths \in Nat /\ CheckpointFaults \subseteq {"lost", "untrusted"}
ASSUME MarketAssumption == Buys \subseteq Candle /\ HoleSets \subseteq SUBSET Candle
ASSUME ServiceAssumption == Services \subseteq {"plain", "checkpointed", "gap_aware"}

VARIABLES
    \* The market.
    closed,      \* the last candle that has closed
    holes,       \* the candles the exchange never publishes
    \* On disk.
    ledger,      \* the ledger store: a ledger, or NoLedger
    saved,       \* the window store: the saved window, {} for none
    checkpoint,  \* the checkpoint store: its primary candles, {} for none
    \* In the process.
    service,     \* which service the operator runs
    pc,          \* where the process is
    cursor,      \* the feed's last_seen of the primary timeframe, 0 for None
    polled,      \* primary candles of the poll that is under way
    window,      \* _primary_window
    history,     \* the candles the runtime and the ledger session have consumed
    pending,     \* BUY candles of the cycle that delivery has not got yet
    \* What no part of the code can see.
    sent,        \* the frames handed to delivery, in order
    torn,        \* a death left the ledger written and its recovery source not
    fault,       \* the checkpoint file's fault: "none", "lost" or "untrusted"
    deaths

marketVars == <<closed, holes>>
diskVars   == <<ledger, saved, checkpoint>>
cycleVars  == <<cursor, polled, window, history, pending>>
faultVars  == <<torn, fault, deaths>>
vars == <<marketVars, diskVars, service, pc, cycleVars, sent, faultVars>>

-----------------------------------------------------------------------------
(* Candles, frames and the ledger they produce. *)

UpTo(h, c)   == {d \in h : d <= c}
Newest(h, n) == {c \in h : Cardinality({d \in h : d > c}) < n}
Last(h)      == IF h = {} THEN 0 ELSE Max(h)

\* detect_internal_gap.
Contiguous(h) == \A c, d \in h : c < d => c + 1 \in h

\* Variant: one missing candle is taken for the next one.
GapAfterLax(last, new) == last # 0 /\ new # {} /\ Min(new) > last + 2

\* detect_continuity_gap.
GapAfter(last, new) == last # 0 /\ new # {} /\ Min(new) > last + 1

\* The chain is deterministic: a frame, and its signal id, is its candle and
\* everything the runtime consumed up to it.
Frame(h, c) == <<c, UpTo(h, c)>>

\* The frame at which a signal's outcome becomes final: horizon_bars later.
FinalAt(h, c) == {d \in h : Cardinality({e \in h : c < e /\ e <= d}) = Horizon /\ d > c}

\* What the ledger lifecycle holds after the history h: an observation of every
\* BUY frame, and the final outcome of those the horizon has passed.
LedgerOf(h) ==
    [observed  |-> {Frame(h, c) : c \in h \cap Buys},
     finalized |-> UNION {{<<c, Frame(h, d)>> : d \in FinalAt(h, c)} : c \in h \cap Buys}]

\* A store without a ledger: no history produces this value.
NoLedger == [observed |-> {}, finalized |-> {<<0, <<0, {}>>>>}]

SameCounts(l, m) ==
    /\ Cardinality(l.observed) = Cardinality(m.observed)
    /\ Cardinality(l.finalized) = Cardinality(m.finalized)

\* The verified open: the first prefix of the replayed history whose counts are
\* those of the stored ledger has to equal it.
Verified(h, stored) ==
    LET candidates == {c \in h \cup {0} : SameCounts(LedgerOf(UpTo(h, c)), stored)}
    IN stored # NoLedger =>
         candidates # {} /\ LedgerOf(UpTo(h, Min(candidates))) = stored

-----------------------------------------------------------------------------

\* What a startup warms up from, {} for one initial poll.
RecoverySource ==
    IF service = "checkpointed" /\ checkpoint # {} THEN checkpoint ELSE saved

\* What makes load_checkpoint_bytes or the declaration check raise: a document
\* that is no checkpoint, another content digest, another configuration.
Untrusted == service = "checkpointed" /\ checkpoint # {} /\ fault = "untrusted"

\* Variant: delivery runs as soon as the ledger is durable.
DeliverEarly(write) ==
    CASE write = "ledger"     -> "deliver"
      [] write = "window"     -> IF service = "checkpointed" THEN "checkpoint" ELSE "deliver"
      [] write = "checkpoint" -> "deliver"

\* The order of the durable writes; delivery comes after all of them.
After(write) ==
    CASE write = "ledger"     -> "window"
      [] write = "window"     -> IF service = "checkpointed" THEN "checkpoint" ELSE "deliver"
      [] write = "checkpoint" -> "deliver"

\* Variant: the checkpoint holds what the service window holds.
ExportedWindow == window

\* export_checkpoint_state: the full history, whatever the window retains.
Exported == history

\* Variant: the window does not fence candles the feed repeats.
AcceptedAll == polled

\* _accept_primary.
Accepted == {c \in polled : c > Last(window)}

GapAware == service = "gap_aware"

\* The provider's snapshot of closed candles.
Batch == Newest((1 .. closed) \ holes, HistoryLimit)

\* GapAwareLiveMarketFeed refuses a snapshot with an internal gap before it
\* moves its cursor; the poll then fails and changes nothing.
BatchUsable == GapAware => Contiguous(Batch)

-----------------------------------------------------------------------------
(* Startup: start_live_service and start_gap_aware_live_service. *)

Init ==
    /\ closed = 0 /\ holes \in HoleSets
    /\ ledger = NoLedger /\ saved = {} /\ checkpoint = {}
    /\ service \in Services /\ pc = "down"
    /\ cursor = 0 /\ polled = {} /\ window = {} /\ history = {} /\ pending = {}
    /\ sent = <<>> /\ torn = FALSE /\ fault = "none" /\ deaths = 0

Start ==
    /\ pc \in {"down", "refused"}
    /\ pc' = "load"
    /\ UNCHANGED <<marketVars, diskVars, service, cycleVars, sent, faultVars>>

\* An untrusted checkpoint is never replaced by the window: the start is refused.
RefuseCheckpoint ==
    /\ pc = "load"
    /\ Untrusted
    /\ pc' = "refused"
    /\ UNCHANGED <<marketVars, diskVars, service, cycleVars, sent, faultVars>>

\* Warm up from the checkpoint or the window; the gap-aware service refuses a
\* window with a gap.
WarmUp ==
    /\ pc = "load"
    /\ ~Untrusted /\ RecoverySource # {}
    /\ IF GapAware /\ ~Contiguous(RecoverySource)
       THEN pc' = "down" /\ UNCHANGED <<window, history>>
       ELSE pc' = "open" /\ window' = RecoverySource /\ history' = RecoverySource
    /\ UNCHANGED <<marketVars, diskVars, service, cursor, polled, pending, sent, faultVars>>

\* Nothing to recover from: one poll gives the warm-up window.  Without candles,
\* or when a fetch fails, the start fails.
InitialPoll ==
    /\ pc = "load"
    /\ RecoverySource = {}
    /\ \/ /\ Batch # {} /\ BatchUsable
          /\ pc' = "open" /\ window' = Batch /\ history' = Batch /\ cursor' = Last(Batch)
       \/ pc' = "down" /\ UNCHANGED <<window, history, cursor>>
    /\ UNCHANGED <<marketVars, diskVars, service, polled, pending, sent, faultVars>>

\* open_ledger_session: verify, feed the whole history, save.
OpenLedger ==
    /\ pc = "open"
    /\ IF Verified(history, ledger)
       THEN /\ ledger' = LedgerOf(history) /\ pc' = After("ledger")
            /\ UNCHANGED cycleVars
       ELSE /\ pc' = "refused"
            /\ cursor' = 0 /\ window' = {} /\ history' = {}
            /\ UNCHANGED <<ledger, polled, pending>>
    /\ UNCHANGED <<marketVars, saved, checkpoint, service, sent, faultVars>>

-----------------------------------------------------------------------------
(* One cycle: run_cycle. *)

\* The primary fetch.  The cursor moves on whatever happens next: also when the
\* gap-aware feed then finds a gap behind it and raises.
PollPrimary ==
    /\ pc = "idle"
    /\ BatchUsable
    /\ LET fresh == {c \in Batch : c > cursor}
       IN /\ cursor' = Max(fresh \cup {cursor})
          /\ IF GapAware /\ GapAfter(cursor, fresh)
             THEN UNCHANGED <<pc, polled>>
             ELSE pc' = "higher" /\ polled' = fresh
    /\ UNCHANGED <<marketVars, diskVars, service, window, history, pending, sent, faultVars>>

\* A higher-timeframe fetch raises: a recoverable failure of the cycle.
HigherFails ==
    /\ pc = "higher"
    /\ pc' = "idle" /\ polled' = {}
    /\ UNCHANGED <<marketVars, diskVars, service, cursor, window, history, pending, sent,
                   faultVars>>

\* The poll is complete: the gap-aware service compares it with its window and
\* raises on a gap; otherwise the runtime consumes the new candles.
Apply ==
    /\ pc = "higher"
    /\ polled' = {}
    /\ IF (GapAware /\ GapAfter(Last(window), polled)) \/ Accepted = {}
       THEN pc' = "idle" /\ UNCHANGED <<window, history, pending>>
       ELSE /\ window' = window \cup Accepted
            /\ history' = history \cup Accepted
            /\ pending' = Accepted \cap Buys
            /\ pc' = "ledger"
    /\ UNCHANGED <<marketVars, diskVars, service, cursor, sent, faultVars>>

SaveLedger ==
    /\ pc = "ledger"
    /\ ledger' = LedgerOf(history)
    /\ pc' = After("ledger")
    /\ UNCHANGED <<marketVars, saved, checkpoint, service, cycleVars, sent, faultVars>>

SaveWindow ==
    /\ pc = "window"
    /\ saved' = window
    /\ pc' = After("window")
    /\ torn' = (torn /\ service = "checkpointed")
    /\ UNCHANGED <<marketVars, ledger, checkpoint, service, cycleVars, sent, fault, deaths>>

\* The checkpoint is durable before retention trims the window in memory.
SaveCheckpoint ==
    /\ pc = "checkpoint"
    /\ checkpoint' = Exported
    /\ window' = Newest(window, LocalBound)
    /\ pc' = After("checkpoint")
    /\ torn' = FALSE
    /\ UNCHANGED <<marketVars, ledger, saved, service, cursor, polled, history, pending, sent,
                   fault, deaths>>

\* Delivery gets the BUY frames of the cycle in order; its receipts, failures
\* included, end here.
Deliver ==
    /\ pc = "deliver" /\ pending # {}
    /\ sent' = Append(sent, Frame(history, Min(pending)))
    /\ pending' = pending \ {Min(pending)}
    /\ UNCHANGED <<marketVars, diskVars, service, pc, cursor, polled, window, history, faultVars>>

CycleDone ==
    /\ pc = "deliver" /\ pending = {}
    /\ pc' = "idle"
    /\ UNCHANGED <<marketVars, diskVars, service, cycleVars, sent, faultVars>>

-----------------------------------------------------------------------------
(* Around the process. *)

CandleCloses ==
    /\ closed < MaxCandle
    /\ closed' = closed + 1
    /\ UNCHANGED <<holes, diskVars, service, pc, cycleVars, sent, faultVars>>

\* The process dies between two steps: it is killed, or a write or the delivery
\* raises, which the poll loop takes for fatal.
Dies ==
    /\ pc \notin {"down", "refused"} /\ deaths < MaxDeaths
    /\ deaths' = deaths + 1
    /\ torn' = (torn \/ pc \in {"window", "checkpoint"})
    /\ pc' = "down"
    /\ cursor' = 0 /\ polled' = {} /\ window' = {} /\ history' = {} /\ pending' = {}
    /\ UNCHANGED <<marketVars, diskVars, service, sent, fault>>

\* The file is damaged, or comes from a service with another configuration.
SpoilCheckpoint ==
    /\ fault = "none" /\ "untrusted" \in CheckpointFaults
    /\ pc = "down" /\ checkpoint # {}
    /\ fault' = "untrusted"
    /\ UNCHANGED <<marketVars, diskVars, service, pc, cycleVars, sent, torn, deaths>>

\* The file is lost, or the operator removes one that is refused.
LoseCheckpoint ==
    /\ fault = "untrusted" \/ (fault = "none" /\ "lost" \in CheckpointFaults)
    /\ pc \in {"down", "refused"} /\ checkpoint # {}
    /\ checkpoint' = {} /\ fault' = "lost"
    /\ UNCHANGED <<marketVars, ledger, saved, service, pc, cycleVars, sent, torn, deaths>>

\* The operator moves the stores of a plain service to the gap-aware one.
Upgrade ==
    /\ pc = "down" /\ service = "plain" /\ "gap_aware" \in Services
    /\ service' = "gap_aware"
    /\ UNCHANGED <<marketVars, diskVars, pc, cycleVars, sent, faultVars>>

-----------------------------------------------------------------------------

Process == \/ Start \/ RefuseCheckpoint \/ WarmUp \/ InitialPoll \/ OpenLedger
           \/ PollPrimary \/ HigherFails \/ Apply
           \/ SaveLedger \/ SaveWindow \/ SaveCheckpoint \/ Deliver \/ CycleDone

Next == Process \/ CandleCloses \/ Dies \/ SpoilCheckpoint \/ LoseCheckpoint \/ Upgrade

Spec == Init /\ [][Next]_vars

-----------------------------------------------------------------------------

TypeOK ==
    /\ closed \in 0 .. MaxCandle /\ holes \subseteq Candle
    /\ ledger.observed \subseteq Candle \X SUBSET Candle
    /\ saved \subseteq Candle /\ checkpoint \subseteq Candle
    /\ service \in Services
    /\ pc \in {"down", "refused", "load", "open", "idle", "higher", "ledger", "window",
               "checkpoint", "deliver"}
    /\ cursor \in 0 .. MaxCandle
    /\ polled \subseteq Candle /\ window \subseteq history /\ history \subseteq Candle
    /\ pending \subseteq history \cap Buys
    /\ torn \in BOOLEAN /\ fault \in {"none", "lost", "untrusted"} /\ deaths \in 0 .. MaxDeaths

\* A signal that reached delivery is in the durable ledger, and its candle in
\* the durable window, which a restart continues after (service.py: "Delivery
\* never runs before durable ledger state").
HandedOverIsDurable ==
    \A i \in DOMAIN sent :
        sent[i] \in ledger.observed /\ sent[i][1] <= Last(saved)

\* Signals are handed over in candle order and each at most once, across
\* restarts, lost polls and a feed that repeats its history from the start
\* (the cursors and _accept_primary).
SentOnceInOrder ==
    \A i, j \in DOMAIN sent : i < j => sent[i][1] < sent[j][1]

\* No history with a gap reaches the runtime of the gap-aware service or its
\* durable window, not even one that the plain service left behind
\* (gap_aware_service.py: "no incomplete/gapped primary window reaches frozen
\* runtime").
GapAwareIsContiguous ==
    GapAware /\ pc \notin {"down", "load", "refused"} => Contiguous(window) /\ Contiguous(history)

\* Whenever the process may stop between two cycles, what a restart warms up
\* from reproduces the ledger, so that the verified open succeeds.  Only a lost
\* checkpoint excuses it (service.py, "one deterministic restart").
RestartReproduces ==
    pc \in {"idle", "higher", "ledger", "deliver"} /\ fault # "lost" =>
        Verified(RecoverySource, ledger)

\* A startup is refused only when a death tore the ledger from its recovery
\* source, or something befell the checkpoint.
RefusedOnlyWhenTorn == pc = "refused" => torn \/ fault # "none"

\* No process runs beside a checkpoint it cannot trust, not even from the
\* window, until the operator removes it (service.py, "refusing to restore").
UntrustedStopsTheService == fault = "untrusted" => pc \in {"down", "load", "refused"}

\* Restarts go on from the ledger where the process left it: they can, they do
\* from nothing else, and are refused for no other reason than a torn write or
\* a checkpoint that is lost or untrusted.
RestartIsFaithful == RestartReproduces /\ RefusedOnlyWhenTorn /\ UntrustedStopsTheService

=============================================================================
