------------------------------- MODULE Outbox -------------------------------
(***************************************************************************)
(* The durable delivery path of one live process: the outbox store         *)
(* (delivery/outbox/store.py), the sink that owns the record lifecycle     *)
(* (delivery/outbox/sink.py), startup reconciliation                       *)
(* (delivery/outbox/reconcile.py) and the draining cycle runner with its   *)
(* startup order (live/outbox_wiring.py).                                  *)
(*                                                                         *)
(* One step is one durable write or one transport call, so a crash may     *)
(* fall between any two of them.  A signal stands for the delivery id of   *)
(* one BUY frame to the one live destination; delivery ids are ordered,    *)
(* because a drain pass walks the record files in that order.              *)
(***************************************************************************)
EXTENDS OutboxRecord, FiniteSets

CONSTANTS
    Ids,             \* the delivery ids of the BUY frames of the run
    MaxPerDrain,     \* OutboxConfig.max_per_drain
    MaxCrashes,      \* bound: crashes of the process
    MaxCorruptions,  \* bound: documents found damaged after a crash
    PowerLoss        \* whether a crash may undo the last window write

ASSUME IdsAssumption       == Ids \subseteq Nat \ {0} /\ IsFiniteSet(Ids)
ASSUME DrainAssumption     == MaxPerDrain \in Nat \ {0}
ASSUME FaultBoundAssumption == MaxCrashes \in Nat /\ MaxCorruptions \in Nat
ASSUME PowerLossAssumption == PowerLoss \in BOOLEAN

VARIABLES
    \* On disk.
    disk,          \* records/: delivery id -> document
    quarantined,   \* corrupt/: ids whose record file was quarantined
    marker,        \* meta.outbox.json: "ABSENT", "VALID" or "CORRUPT"
    before,        \* ids whose candle opened before activated_at
    window,        \* ids of the BUY frames the durable window regenerates
    unsynced,      \* what the window write of this cycle added: a power loss
                   \* within the cycle may undo it
    \* In the process.
    pc,            \* where the process is
    mode,          \* which loop of the cycle it is in: "inline" or "drain"
    inline,        \* BUY frames of the cycle not handed to delivery yet
    todo,          \* records the drain pass has still to visit
    made,          \* attempts of the drain pass
    cur,           \* the record being attempted, 0 for none
    receipt,       \* the receipt not settled yet
    cycle,         \* how the wrapped cycle ended: "ok", "retry", "fatal"
    reconciled,    \* reconciliation ran at this startup
    \* Around the process.
    opened,        \* ids whose candle has opened by now
    cooling,       \* ids attempted less than cooldown_seconds ago
    crashes, corruptions,
    \* What no part of the code can see.
    calls,         \* transport calls made for the present record
    accepts,       \* messages the transport took, in all
    undone         \* ids whose candle a power loss took out of the window

windowVars  == <<window, unsynced>>
diskVars    == <<disk, quarantined, marker, before, windowVars>>
loopVars    == <<inline, todo, made, cur, receipt>>
procVars    == <<pc, mode, loopVars, cycle, reconciled>>
envVars     == <<opened, cooling, crashes, corruptions>>
ghostVars   == <<calls, accepts, undone>>
vars        == <<diskVars, procVars, envVars, ghostVars>>

PC      == {"down", "boot", "marker", "reconcile", "idle", "pick", "begin", "call", "settle"}
Outcome == {"ok", "retry", "fatal"}

TypeOK ==
    /\ disk \in [Ids -> Document]
    /\ quarantined \subseteq Ids
    /\ marker \in {"ABSENT", "VALID", "CORRUPT"}
    /\ before \subseteq Ids /\ window \subseteq Ids /\ unsynced \subseteq window
    /\ opened \subseteq Ids /\ cooling \subseteq Ids
    /\ pc \in PC
    /\ mode \in {"inline", "drain"}
    /\ inline \subseteq Ids /\ todo \subseteq Ids
    /\ made \in 0 .. MaxPerDrain
    /\ cur \in Ids \cup {0}
    /\ receipt \in Receipt \cup {NoReceipt}
    /\ cycle \in Outcome
    /\ reconciled \in BOOLEAN
    /\ crashes \in 0 .. MaxCrashes /\ corruptions \in 0 .. MaxCorruptions
    /\ calls \in [Ids -> Nat] /\ accepts \in [Ids -> Nat]
    /\ undone \subseteq Ids

-----------------------------------------------------------------------------
(* Startup: the sink's constructor, the activation marker, reconciliation. *)

\* What a dead process holds.
Halted ==
    /\ pc' = "down"
    /\ mode' = "inline" /\ inline' = {} /\ todo' = {} /\ made' = 0
    /\ cur' = 0 /\ receipt' = NoReceipt /\ cycle' = "ok" /\ reconciled' = FALSE

\* The outbox store is new; the window is the one the first poll, or an earlier
\* deployment without the outbox, has saved.
Init ==
    /\ disk = [id \in Ids |-> Absent]
    /\ quarantined = {} /\ marker = "ABSENT" /\ before = {}
    /\ opened \in SUBSET Ids /\ window \in SUBSET opened /\ unsynced = {}
    /\ pc = "down" /\ mode = "inline" /\ inline = {} /\ todo = {} /\ made = 0
    /\ cur = 0 /\ receipt = NoReceipt /\ cycle = "ok" /\ reconciled = FALSE
    /\ cooling = {} /\ crashes = 0 /\ corruptions = 0
    /\ calls = [id \in Ids |-> 0] /\ accepts = [id \in Ids |-> 0]
    /\ undone = {}

Start ==
    /\ pc = "down"
    /\ pc' = "boot"
    /\ UNCHANGED <<diskVars, mode, loopVars, cycle, reconciled, envVars, ghostVars>>

\* all_records: a document that does not parse is moved to corrupt/.
Quarantine(id) ==
    /\ pc = "boot"
    /\ disk[id].state = "CORRUPT"
    /\ disk' = [disk EXCEPT ![id] = Absent]
    /\ quarantined' = quarantined \cup {id}
    /\ UNCHANGED <<marker, before, windowVars, procVars, envVars, ghostVars>>

\* _recover_in_flight, over the records that all_records returned.
RecoverInFlight(id) ==
    /\ pc = "boot"
    /\ \A other \in Ids : disk[other].state # "CORRUPT"
    /\ disk[id].state = "IN_FLIGHT"
    /\ disk' = [disk EXCEPT ![id] = Recovered(@)]
    /\ UNCHANGED <<quarantined, marker, before, windowVars, procVars, envVars, ghostVars>>

Booted ==
    /\ pc = "boot"
    /\ \A id \in Ids : disk[id].state \notin {"CORRUPT", "IN_FLIGHT"}
    /\ pc' = "marker"
    /\ UNCHANGED <<diskVars, mode, loopVars, cycle, reconciled, envVars, ghostVars>>

\* ensure_meta.  An untrusted marker is moved away and this startup runs
\* without reconciliation.
EnsureMeta ==
    /\ pc = "marker"
    /\ \/ /\ marker = "ABSENT"
          /\ marker' = "VALID" /\ before' = opened /\ pc' = "reconcile"
       \/ /\ marker = "VALID"
          /\ pc' = "reconcile"
          /\ UNCHANGED <<marker, before>>
       \/ /\ marker = "CORRUPT"
          /\ marker' = "ABSENT" /\ pc' = "idle"
          /\ UNCHANGED before
    /\ UNCHANGED <<disk, quarantined, windowVars, mode, loopVars, cycle, reconciled,
                   envVars, ghostVars>>

\* Variant: the newest BUY frame of the window is not looked at.
MissingButNewest ==
    {id \in window \ before : ~Present(disk[id]) /\ \E newer \in window : id < newer}

\* The intents reconcile_missing has to recreate.
Missing == {id \in window \ before : ~Present(disk[id])}

Reconcile(id) ==
    /\ pc = "reconcile"
    /\ id \in Missing
    /\ disk' = [disk EXCEPT ![id] = NewQueuedRecord(id \in quarantined)]
    /\ calls' = [calls EXCEPT ![id] = 0]
    /\ UNCHANGED <<quarantined, marker, before, windowVars, procVars, envVars, accepts, undone>>

Reconciled ==
    /\ pc = "reconcile"
    /\ Missing = {}
    /\ pc' = "idle" /\ reconciled' = TRUE
    /\ UNCHANGED <<diskVars, mode, loopVars, cycle, envVars, ghostVars>>

-----------------------------------------------------------------------------
(* One cycle: the wrapped service cycle, then always one drain pass. *)

\* Variant: only the intents no attempt was made for.
LiveRecordsQueued == {id \in Ids : disk[id].state \in {"QUEUED", "IN_FLIGHT"}}

\* Variant: every record that can be read.
LiveRecordsAll == {id \in Ids : Present(disk[id])}

LiveRecords == {id \in Ids : disk[id].state \in LiveStates}

\* Variant: the pass does not look at the cooldown.
BeginDrainHot ==
    /\ pc' = "pick" /\ mode' = "drain" /\ made' = 0
    /\ todo' = LiveRecords

\* The records one pass will attempt or recover; now is read once, so what is
\* cooling at the start of the pass stays out of it.
BeginDrain ==
    /\ pc' = "pick" /\ mode' = "drain" /\ made' = 0
    /\ todo' = {id \in LiveRecords : id \notin cooling \/ disk[id].state = "IN_FLIGHT"}

\* A poll that succeeds: the ledger and the window are persisted before any
\* of the new BUY frames is delivered.
Poll(frames) ==
    /\ pc = "idle"
    /\ frames \subseteq opened \ window
    /\ window' = window \cup frames
    /\ unsynced' = frames
    /\ inline' = frames
    /\ pc' = "pick" /\ mode' = "inline" /\ cycle' = "ok"
    /\ UNCHANGED <<disk, quarantined, marker, before, todo, made, cur, receipt,
                   reconciled, envVars, ghostVars>>

\* A cycle that raises before it persists anything: "retry" for the feed
\* errors the poll loop survives, "fatal" for the others.
PollRaises ==
    /\ pc = "idle"
    /\ cycle' \in {"retry", "fatal"}
    /\ BeginDrain
    /\ UNCHANGED <<diskVars, inline, cur, receipt, reconciled, envVars, ghostVars>>

\* deliver_payload for a BUY frame of the cycle, up to the decision to attempt.
Deliver(id) ==
    /\ pc = "pick" /\ mode = "inline" /\ id \in inline
    /\ LET r == IF disk[id].state = "IN_FLIGHT" THEN Recovered(disk[id])
                ELSE IF Present(disk[id]) THEN disk[id] ELSE NewQueuedRecord(FALSE)
       IN /\ disk' = [disk EXCEPT ![id] = r]
          /\ IF IsTerminal(r)
             THEN inline' = inline \ {id} /\ UNCHANGED <<pc, cur>>
             ELSE pc' = "begin" /\ cur' = id /\ UNCHANGED inline
    /\ calls' = IF Present(disk[id]) THEN calls ELSE [calls EXCEPT ![id] = 0]
    /\ UNCHANGED <<quarantined, marker, before, windowVars, mode, todo, made, receipt,
                   cycle, reconciled, envVars, accepts, undone>>

InlineDone ==
    /\ pc = "pick" /\ mode = "inline" /\ inline = {}
    /\ BeginDrain
    /\ UNCHANGED <<diskVars, inline, cur, receipt, cycle, reconciled, envVars, ghostVars>>

\* The drain visits its records in delivery-id order.
Visits(id) ==
    /\ pc = "pick" /\ mode = "drain" /\ made < MaxPerDrain
    /\ id \in todo /\ \A other \in todo : id <= other

DrainRecover(id) ==
    /\ Visits(id)
    /\ disk[id].state = "IN_FLIGHT"
    /\ disk' = [disk EXCEPT ![id] = Recovered(@)]
    /\ todo' = IF id \in cooling \/ IsTerminal(disk'[id]) THEN todo \ {id} ELSE todo
    /\ UNCHANGED <<quarantined, marker, before, windowVars, pc, mode, inline, made, cur,
                   receipt, cycle, reconciled, envVars, ghostVars>>

DrainVisit(id) ==
    /\ Visits(id)
    /\ disk[id].state # "IN_FLIGHT"
    /\ IF BudgetRemaining(disk[id])
       THEN pc' = "begin" /\ cur' = id /\ UNCHANGED <<disk, todo>>
       ELSE /\ disk' = [disk EXCEPT ![id] = BudgetExhausted(@)]
            /\ todo' = todo \ {id}
            /\ UNCHANGED <<pc, cur>>
    /\ UNCHANGED <<quarantined, marker, before, windowVars, mode, inline, made, receipt,
                   cycle, reconciled, envVars, ghostVars>>

\* The poll loop waits for its next boundary.  By then the disk has caught up.
BackToIdle ==
    /\ pc' = "idle" /\ mode' = "inline" /\ inline' = {} /\ todo' = {} /\ made' = 0
    /\ cur' = 0 /\ receipt' = NoReceipt /\ cycle' = "ok"
    /\ UNCHANGED reconciled

\* The cycle's own failure wins: a fatal one ends the process after the drain.
DrainDone ==
    /\ pc = "pick" /\ mode = "drain"
    /\ todo = {} \/ made = MaxPerDrain
    /\ IF cycle = "fatal" THEN Halted ELSE BackToIdle
    /\ unsynced' = {}
    /\ UNCHANGED <<disk, quarantined, marker, before, window, envVars, ghostVars>>

-----------------------------------------------------------------------------
(* One attempt: the IN_FLIGHT write, the transport call, the settlement. *)

\* The loop that asked for the attempt has dealt with the current record.
LoopContinues ==
    /\ pc' = "pick" /\ cur' = 0
    /\ IF mode = "inline"
       THEN inline' = inline \ {cur} /\ UNCHANGED <<todo, made>>
       ELSE todo' = todo \ {cur} /\ made' = made + 1 /\ UNCHANGED inline

BeginAttempt ==
    /\ pc = "begin"
    /\ IF BudgetRemaining(disk[cur])
       THEN /\ disk' = [disk EXCEPT ![cur] = InFlight(@)]
            /\ cooling' = cooling \cup {cur}
            /\ pc' = "call"
            /\ UNCHANGED <<inline, todo, made, cur>>
       ELSE /\ disk' = [disk EXCEPT ![cur] = BudgetExhausted(@)]
            /\ LoopContinues
            /\ UNCHANGED cooling
    /\ UNCHANGED <<quarantined, marker, before, windowVars, mode, receipt, cycle, reconciled,
                   opened, crashes, corruptions, ghostVars>>

\* The receipts of the transport, and whether it took the message: a success
\* confirms it, a timeout says nothing, any other receipt is a refusal.
Answers ==
    {<<"DELIVERED", 1>>, <<"UNKNOWN", 0>>, <<"UNKNOWN", 1>>,
     <<"RETRYABLE", 0>>, <<"REFUSED", 0>>}

CallReturns(answer) ==
    /\ pc = "call"
    /\ calls' = [calls EXCEPT ![cur] = @ + 1]
    /\ accepts' = [accepts EXCEPT ![cur] = @ + answer[2]]
    /\ receipt' = answer[1]
    /\ pc' = "settle"
    /\ UNCHANGED <<diskVars, mode, inline, todo, made, cur, cycle, reconciled, envVars,
                   undone>>

\* The transport raises (a connection reset reaches the sink as an exception).
\* In the cycle this is fatal and the drain still runs; in the drain it ends
\* the pass, and the process too unless a feed error is re-raised instead.
CallRaises(took) ==
    /\ pc = "call"
    /\ calls' = [calls EXCEPT ![cur] = @ + 1]
    /\ accepts' = [accepts EXCEPT ![cur] = @ + took]
    /\ IF mode = "inline"
       THEN /\ BeginDrain
            /\ inline' = {} /\ cur' = 0 /\ cycle' = "fatal"
            /\ UNCHANGED <<receipt, reconciled, unsynced>>
       ELSE /\ IF cycle = "retry" THEN BackToIdle ELSE Halted
            /\ unsynced' = {}
    /\ UNCHANGED <<disk, quarantined, marker, before, window, envVars, undone>>

Settle ==
    /\ pc = "settle"
    /\ disk' = [disk EXCEPT ![cur] = Settled(@, receipt)]
    /\ receipt' = NoReceipt
    /\ LoopContinues
    /\ UNCHANGED <<quarantined, marker, before, windowVars, mode, cycle, reconciled,
                   envVars, ghostVars>>

-----------------------------------------------------------------------------
(* Around the process. *)

\* Only EnsureMeta and Poll read the clock against a candle, and they wait.
CandleOpens(id) ==
    /\ pc \in {"down", "marker", "idle"}
    /\ id \in Ids \ opened
    /\ opened' = opened \cup {id}
    /\ UNCHANGED <<diskVars, procVars, cooling, crashes, corruptions, ghostVars>>

\* Time that passes during a drain pass does not change what it visits.
CooldownElapses(id) ==
    /\ mode = "inline"
    /\ id \in cooling
    /\ cooling' = cooling \ {id}
    /\ UNCHANGED <<diskVars, procVars, opened, crashes, corruptions, ghostVars>>

\* The process dies between two steps.  The window file is replaced without a
\* sync, so a power loss may bring back the one of before the cycle.
Crash ==
    /\ pc # "down" /\ crashes < MaxCrashes
    /\ crashes' = crashes + 1
    /\ \E lost \in IF PowerLoss THEN {{}, unsynced} ELSE {{}} :
           window' = window \ lost /\ undone' = undone \cup lost
    /\ unsynced' = {}
    /\ Halted
    /\ UNCHANGED <<disk, quarantined, marker, before, opened, cooling, corruptions,
                   calls, accepts>>

\* A document is found damaged when the next process starts.
CorruptRecord(id) ==
    /\ pc = "down" /\ corruptions < MaxCorruptions
    /\ Present(disk[id])
    /\ disk' = [disk EXCEPT ![id] = Corrupt]
    /\ corruptions' = corruptions + 1
    /\ UNCHANGED <<quarantined, marker, before, windowVars, procVars, opened, cooling, crashes,
                   ghostVars>>

CorruptMarker ==
    /\ pc = "down" /\ corruptions < MaxCorruptions
    /\ marker = "VALID"
    /\ marker' = "CORRUPT"
    /\ corruptions' = corruptions + 1
    /\ UNCHANGED <<disk, quarantined, before, windowVars, procVars, opened, cooling, crashes,
                   ghostVars>>

-----------------------------------------------------------------------------

Startup == Start \/ Booted \/ EnsureMeta \/ Reconciled
             \/ \E id \in Ids : Quarantine(id) \/ RecoverInFlight(id) \/ Reconcile(id)
Cycle   == PollRaises \/ InlineDone \/ DrainDone
             \/ \E frames \in SUBSET Ids : Poll(frames)
             \/ \E id \in Ids : Deliver(id) \/ DrainRecover(id) \/ DrainVisit(id)
Attempt == BeginAttempt \/ Settle
             \/ \E answer \in Answers : CallReturns(answer)
             \/ \E took \in {0, 1} : CallRaises(took)
Faults  == Crash \/ CorruptMarker \/ \E id \in Ids : CorruptRecord(id)

Next == \/ Startup \/ Cycle \/ Attempt \/ Faults
        \/ \E id \in Ids : CandleOpens(id) \/ CooldownElapses(id)

Spec == Init /\ [][Next]_vars

\* The process keeps taking steps: it is restarted when it stops, the poll
\* loop runs the next cycle, and every transport call ends, by its timeout if
\* by nothing else.  Cooldowns are over in the end.  Nothing else is fair: no
\* fault has to happen, no candle has to open.
FairSpec ==
    /\ Spec
    /\ WF_vars(Startup \/ Cycle \/ Attempt)
    /\ \A id \in Ids : SF_vars(CooldownElapses(id))

-----------------------------------------------------------------------------
(* What makes the delivery path correct. *)

\* Every transport call was counted on disk before it was made, so no crash,
\* exception or restart lets a record exceed its attempt budget; a QUEUED
\* record has reached no transport (sink.py _attempt, models.py OutboxState).
CallsAreWrittenAhead ==
    \A id \in Ids : Present(disk[id]) =>
        /\ calls[id] <= disk[id].used
        /\ pc = "call" /\ cur = id => calls[id] < disk[id].used

\* The attempt log has one entry for every consumed attempt, the recovered
\* ones included; only an attempt in flight has none yet (sink.py
\* _recover_record, "keeping the attempt log complete and sequential").
LogIsComplete ==
    \A id \in Ids : Present(disk[id]) =>
        disk[id].logged = disk[id].used - (IF disk[id].state = "IN_FLIGHT" THEN 1 ELSE 0)

\* A record is never DELIVERED unless the transport confirmed a message
\* (sink.py: "without ever reporting a success that the transport did not
\* confirm").
SuccessIsConfirmed ==
    \A id \in Ids : disk[id].state = "DELIVERED" => accepts[id] >= 1

\* A message the transport may have taken leaves a trace on the record: a
\* delivery taken twice is flagged when it ends well, and a record that is not
\* DELIVERED although a message went out says that this is possible.  The one
\* exception: a power loss damages the record and takes the candle back too, so
\* that the signal is delivered again as if it were new.
DuplicateRiskIsVisible ==
    \A id \in Ids \ (quarantined \cap undone) :
        /\ disk[id].state = "DELIVERED" /\ accepts[id] > 1 => disk[id].duplicated
        /\ disk[id].state \in OutboxState \ {"DELIVERED", "IN_FLIGHT"} /\ accepts[id] > 0
               => disk[id].ambiguous \/ disk[id].duplicated

\* What a record says of its message agrees with what the transport confirmed
\* and what it may have taken.
RecordTellsTheTruth == SuccessIsConfirmed /\ DuplicateRiskIsVisible

\* Between cycles every BUY signal of the durable window whose candle opened
\* after the activation has its record, whatever crashed in between
\* (reconcile.py: reconciliation closes the crash window).
NoIntentIsLost ==
    pc = "idle" /\ reconciled => \A id \in window \ before : Present(disk[id])

\* A terminal record is never attempted, rewritten or recovered again (T10);
\* only damage to its file can end it.
SettledForever ==
    [][\A id \in Ids : IsTerminal(disk[id]) => disk'[id] \in {disk[id], Corrupt}]_vars

\* A drain never attempts a record again within its cooldown, not even one
\* the same cycle has just attempted inline (sink.py _cooldown_elapsed).
DrainRespectsCooldown ==
    [][pc = "begin" /\ pc' = "call" /\ mode = "drain" => cur \notin cooling]_vars

\* Every signal persisted after the activation is settled in the end, whatever
\* raises, stops or restarts the process in between.
EverySignalSettles ==
    \A id \in Ids :
        id \in window \ before /\ marker = "VALID" ~> IsTerminal(disk[id])

-----------------------------------------------------------------------------
(* The promise the records keep. *)

\* What an on-disk document stands for.
PromiseOf(r) ==
    CASE r.state \in NoRecord                   -> "none"
      [] r.state \in LiveStates                 -> "owed"
      [] r.state = "DELIVERED"                  -> "delivered"
      [] r.state = "FAILED_TERMINAL"            -> "failed"
      [] r.state \in {"EXHAUSTED", "AMBIGUOUS"} -> "unresolved"

\* An attempt of the promise is one that is counted on disk.
Promise ==
    INSTANCE DeliveryPromise WITH
        Intents <- Ids,
        Budget  <- MaxAttempts,
        status  <- [id \in Ids |-> PromiseOf(disk[id])],
        tries   <- [id \in Ids |-> disk[id].used]

\* While no file is damaged the outbox implements the promise it makes to its
\* callers, fairness included: an accepted intent is owed until it is closed,
\* stays closed, is tried within its budget, and is closed in the end.
KeepsThePromise == Promise!Spec

=============================================================================
