---------------------------- MODULE OutboxProofs ----------------------------
(***************************************************************************)
(* The durable outbox, for every set of signals, attempt budget, drain cap *)
(* and number of faults: its safety, what its records say of their         *)
(* messages, and that it implements DeliveryPromise while no file is       *)
(* damaged.                                                                *)
(***************************************************************************)
EXTENDS Outbox, TLAPS

Busy    == {"begin", "call", "settle"}
Running == Busy \cup {"pick"}

\* What the counters of a document say of its state.
RecordOK(r) ==
    /\ r \in Document
    /\ r.state \in NoRecord \cup {"QUEUED"} => r.used = 0
    /\ r.state = "IN_FLIGHT" => r.used > 0
    /\ r.state = "WAITING" => r.used < MaxAttempts
    /\ r.logged = r.used - (IF r.state = "IN_FLIGHT" THEN 1 ELSE 0)

\* Where the process is, and what the records it works on look like there.
ControlInv ==
    /\ pc \in Busy => cur \in Ids
    /\ pc = "begin" => disk[cur].state \in {"QUEUED", "WAITING"}
    /\ pc \in {"call", "settle"} => disk[cur].state = "IN_FLIGHT"
    /\ pc = "settle" => receipt \in Receipt
    /\ pc \notin Running => mode = "inline" /\ inline = {}
    /\ mode = "drain" => inline = {}
    /\ mode = "drain" /\ pc \in Busy => made < MaxPerDrain
    /\ mode = "inline" => todo = {}
    /\ \A id \in todo : disk[id].state \in LiveStates

\* Where the intent of a signal of the durable window can be, once
\* reconciliation has run: on disk, still to be delivered by this cycle, or
\* left to the next startup by a cycle that is about to end the process.
IntentInv ==
    /\ pc \in {"down", "boot", "marker", "reconcile"} => reconciled = FALSE
    /\ pc \notin Running => cycle = "ok"
    /\ reconciled = TRUE =>
         \A id \in window \ before : Present(disk[id]) \/ id \in inline \/ cycle = "fatal"

IInv ==
    /\ TypeOK
    /\ \A id \in Ids : RecordOK(disk[id])
    /\ ControlInv
    /\ CallsAreWrittenAhead
    /\ IntentInv

-----------------------------------------------------------------------------
(* What the transitions of a record preserve. *)

\* No record, and one that cannot be read, are records.
LEMMA BlankOK == RecordOK(Absent) /\ RecordOK(Corrupt)
  <1>1. 0 \in 0 .. MaxAttempts
    BY MaxAttemptsAssumption
  <1> QED
    BY <1>1 DEF RecordOK, Absent, Corrupt, Blank, Document, NoRecord

\* So is a new one.
LEMMA NewQueuedOK ==
    ASSUME NEW b \in BOOLEAN
    PROVE  RecordOK(NewQueuedRecord(b)) /\ NewQueuedRecord(b).state = "QUEUED"
  <1>1. 0 \in 0 .. MaxAttempts
    BY MaxAttemptsAssumption
  <1>2. "QUEUED" \in OutboxState
    BY DEF OutboxState, LiveStates
  <1>3. NewQueuedRecord(b) \in Document
    BY <1>1, <1>2 DEF NewQueuedRecord, Blank, Document
  <1>4. NewQueuedRecord(b).state = "QUEUED" /\ NewQueuedRecord(b).used = 0
        /\ NewQueuedRecord(b).logged = 0
    BY DEF NewQueuedRecord, Blank
  <1> QED
    BY <1>3, <1>4 DEF RecordOK

\* So is one whose attempt was just counted.
LEMMA InFlightOK ==
    ASSUME NEW r, RecordOK(r), r.state \in {"QUEUED", "WAITING"}, BudgetRemaining(r)
    PROVE  /\ RecordOK(InFlight(r))
           /\ InFlight(r).state = "IN_FLIGHT"
           /\ InFlight(r).used = r.used + 1
  <1> r \in Document
    BY DEF RecordOK
  <1>1. r.used + 1 \in 0 .. MaxAttempts /\ r.used \in Nat
    BY MaxAttemptsAssumption DEF BudgetRemaining, Document
  <1>2. "IN_FLIGHT" \in OutboxState
    BY DEF OutboxState, LiveStates
  <1>3. InFlight(r) \in Document
    BY <1>1, <1>2 DEF InFlight, Document
  <1>4. /\ InFlight(r).state = "IN_FLIGHT"
        /\ InFlight(r).used = r.used + 1
        /\ InFlight(r).logged = r.logged
    BY DEF InFlight, Document
  <1> QED
    BY <1>1, <1>3, <1>4 DEF RecordOK, NoRecord

\* T9 on a record in flight.
LEMMA RecoveredOK ==
    ASSUME NEW r, RecordOK(r), r.state = "IN_FLIGHT"
    PROVE  /\ RecordOK(Recovered(r))
           /\ Recovered(r).state \in {"WAITING", "AMBIGUOUS"}
           /\ Recovered(r).used = r.used
  <1> r \in Document
    BY DEF RecordOK
  <1>1. r.used \in 1 .. MaxAttempts /\ r.logged = r.used - 1
    BY MaxAttemptsAssumption DEF RecordOK, Document
  <1>2. (IF BudgetRemaining(r) THEN "WAITING" ELSE "AMBIGUOUS") \in OutboxState
    BY DEF OutboxState, LiveStates, TerminalStates
  <1>3. (IF r.logged < r.used THEN r.logged + 1 ELSE r.logged) = r.used
    BY <1>1
  <1>4. (r.duplicated \/ ~BudgetRemaining(r)) \in BOOLEAN
    OBVIOUS
  <1>5. Recovered(r) \in Document
    BY <1>1, <1>2, <1>3, <1>4 DEF Recovered, Document
  <1>6. /\ Recovered(r).state = IF BudgetRemaining(r) THEN "WAITING" ELSE "AMBIGUOUS"
        /\ Recovered(r).used = r.used
        /\ Recovered(r).logged = r.used
    BY <1>3 DEF Recovered, Document
  <1> QED
    BY <1>1, <1>5, <1>6 DEF RecordOK, NoRecord, BudgetRemaining

\* After a receipt a record is terminal, or waits with attempts left.
LEMMA StateAfterCases ==
    ASSUME NEW r, NEW a \in Receipt
    PROVE  /\ StateAfter(r, a) \in TerminalStates \cup {"WAITING"}
           /\ StateAfter(r, a) = "WAITING" => BudgetRemaining(r)
  BY DEF StateAfter, ReceiptAllowsRetry, Receipt, TerminalStates

\* T4..T8 on a record in flight.
LEMMA SettledOK ==
    ASSUME NEW r, RecordOK(r), r.state = "IN_FLIGHT", NEW a \in Receipt
    PROVE  /\ RecordOK(Settled(r, a))
           /\ Settled(r, a).state = StateAfter(r, a)
           /\ Settled(r, a).used = r.used
  <1> r \in Document
    BY DEF RecordOK
  <1>1. r.used \in 1 .. MaxAttempts /\ r.logged = r.used - 1 /\ r.logged + 1 = r.used
    BY MaxAttemptsAssumption DEF RecordOK, Document
  <1>2. StateAfter(r, a) \in OutboxState
    BY StateAfterCases DEF OutboxState, LiveStates
  <1>3. (IF a = "DELIVERED" THEN r.ambiguous
         ELSE r.duplicated \/ StateAfter(r, a) = "AMBIGUOUS") \in BOOLEAN
    BY DEF Document
  <1>4. (r.ambiguous \/ (StateAfter(r, a) = "WAITING" /\ a = "UNKNOWN")) \in BOOLEAN
    OBVIOUS
  <1>5. Settled(r, a) \in Document
    BY <1>1, <1>2, <1>3, <1>4 DEF Settled, Document
  <1>6. /\ Settled(r, a).state = StateAfter(r, a)
        /\ Settled(r, a).used = r.used
        /\ Settled(r, a).logged = r.used
    BY <1>1 DEF Settled, Document
  <1> QED
    BY <1>1, <1>5, <1>6, StateAfterCases
       DEF RecordOK, NoRecord, TerminalStates, BudgetRemaining

\* A record closed for want of attempts is terminal.
LEMMA BudgetExhaustedOK ==
    ASSUME NEW r, RecordOK(r), r.state \in OutboxState \ {"QUEUED", "IN_FLIGHT"}
    PROVE  /\ RecordOK(BudgetExhausted(r))
           /\ BudgetExhausted(r).state \in TerminalStates
           /\ IsTerminal(r) => BudgetExhausted(r) = r
           /\ BudgetExhausted(r).used = r.used
  <1> r \in Document
    BY DEF RecordOK
  <1>1. CASE IsTerminal(r)
    BY <1>1 DEF BudgetExhausted, IsTerminal
  <1>2. CASE ~IsTerminal(r)
    <2>1. {"AMBIGUOUS", "EXHAUSTED"} \subseteq OutboxState
      BY DEF OutboxState, TerminalStates
    <2>2. BudgetExhausted(r) \in Document
      BY <1>2, <2>1 DEF BudgetExhausted, Document
    <2>3. /\ BudgetExhausted(r).state \in {"AMBIGUOUS", "EXHAUSTED"}
          /\ BudgetExhausted(r).used = r.used
          /\ BudgetExhausted(r).logged = r.logged
      BY <1>2 DEF BudgetExhausted, Document
    <2> QED
      BY <1>2, <2>2, <2>3 DEF RecordOK, NoRecord, TerminalStates
  <1> QED
    BY <1>1, <1>2

\* A record that waits for an attempt has budget left for one.
LEMMA LiveHasBudget ==
    ASSUME NEW r, RecordOK(r), r.state \in {"QUEUED", "WAITING"}
    PROVE  BudgetRemaining(r)
  BY MaxAttemptsAssumption DEF RecordOK, BudgetRemaining

-----------------------------------------------------------------------------
(* The invariant holds at the start and every action preserves it. *)

\* An empty outbox satisfies the invariant.
LEMMA InitIInv == Init => IInv
  <1> SUFFICES ASSUME Init PROVE IInv
    OBVIOUS
  <1>1. \A id \in Ids : RecordOK(disk[id])
    BY BlankOK DEF Init
  <1>2. TypeOK
    <2>1. disk \in [Ids -> Document]
      BY BlankOK DEF Init, RecordOK
    <2>2. made \in 0 .. MaxPerDrain /\ crashes \in 0 .. MaxCrashes
          /\ corruptions \in 0 .. MaxCorruptions
      BY FaultBoundAssumption, DrainAssumption DEF Init
    <2>3. calls \in [Ids -> Nat] /\ accepts \in [Ids -> Nat]
      BY DEF Init
    <2> QED
      BY <2>1, <2>2, <2>3 DEF Init, TypeOK, PC, Outcome
  <1>3. ControlInv
    BY DEF Init, ControlInv, Running, Busy
  <1>4. IntentInv
    BY DEF Init, IntentInv, Running, Busy
  <1>5. CallsAreWrittenAhead
    BY <1>2 DEF Init, CallsAreWrittenAhead, Present, Absent, Blank, OutboxState, LiveStates,
                TerminalStates
  <1> QED
    BY <1>1, <1>2, <1>3, <1>4, <1>5 DEF IInv

\* The drain pass that a cycle ends with, however the cycle ended.
LEMMA BeginDrainInv ==
    ASSUME IInv, PollRaises \/ InlineDone
    PROVE  IInv'
  <1> USE DEF IInv, PollRaises, InlineDone, BeginDrain, diskVars, windowVars, envVars, ghostVars
  <1>1. TypeOK'
    BY DrainAssumption DEF LiveRecords, TypeOK, PC, Outcome
  <1>2. \A id \in Ids : RecordOK(disk[id])'
    OBVIOUS
  <1>3. ControlInv'
    BY DEF ControlInv, LiveRecords, Busy, Running
  <1>4. CallsAreWrittenAhead'
    BY DEF CallsAreWrittenAhead
  <1>5. IntentInv'
    BY DEF IntentInv, ControlInv, Running, Busy
  <1> QED
    BY <1>1, <1>2, <1>3, <1>4, <1>5

\* The ends of the process and of the cycle.
LEMMA EndInv ==
    ASSUME IInv, DrainDone \/ Crash
    PROVE  IInv'
  <1> USE DEF IInv, envVars, ghostVars
  <1>1. Halted \/ BackToIdle
    BY DEF DrainDone, Crash
  <1>2. /\ window' \subseteq window /\ undone' \subseteq Ids /\ unsynced' = {}
        /\ crashes' \in 0 .. MaxCrashes
        /\ UNCHANGED <<disk, quarantined, marker, before, opened, cooling, corruptions, calls,
                       accepts>>
    <2>1. CASE DrainDone
      BY <2>1 DEF DrainDone, TypeOK
    <2>2. CASE Crash
      <3>1. PICK lost \in IF PowerLoss THEN {{}, unsynced} ELSE {{}} :
                   window' = window \ lost /\ undone' = undone \cup lost
        BY <2>2 DEF Crash
      <3>2. lost \subseteq Ids
        BY PowerLossAssumption DEF TypeOK
      <3>3. crashes' \in 0 .. MaxCrashes
        BY <2>2, FaultBoundAssumption DEF Crash, TypeOK
      <3> QED
        BY <2>2, <3>1, <3>2, <3>3 DEF Crash, TypeOK
    <2> QED
      BY <2>1, <2>2
  <1>3. reconciled' \in BOOLEAN
    <2>1. CASE Halted
      BY <2>1, Zenon DEF Halted
    <2>2. CASE BackToIdle
      BY <2>2 DEF BackToIdle, TypeOK
    <2> QED
      BY <1>1, <2>1, <2>2
  <1>4. TypeOK'
    BY <1>1, <1>2, <1>3, DrainAssumption DEF Halted, BackToIdle, TypeOK, PC, Outcome
  <1>5. \A id \in Ids : RecordOK(disk[id])'
    BY <1>2
  <1>6. ControlInv'
    BY <1>1 DEF ControlInv, Halted, BackToIdle, Running, Busy
  <1>7. CallsAreWrittenAhead'
    BY <1>1, <1>2 DEF CallsAreWrittenAhead, Halted, BackToIdle
  <1>8. IntentInv'
    <2>1. CASE Halted
      BY <2>1 DEF Halted, IntentInv, Running, Busy
    <2>2. CASE BackToIdle /\ DrainDone /\ cycle # "fatal"
      BY <2>2, <1>2 DEF BackToIdle, DrainDone, IntentInv, ControlInv, Running, Busy
    <2> QED
      BY <2>1, <2>2 DEF Crash, DrainDone
  <1> QED
    BY <1>4, <1>5, <1>6, <1>7, <1>8

\* The other steps that leave every record alone and are not part of an attempt.
LEMMA QuietInv ==
    ASSUME IInv,
           \/ Start \/ Booted \/ EnsureMeta \/ Reconciled \/ CorruptMarker
           \/ \E frames \in SUBSET Ids : Poll(frames)
           \/ \E id \in Ids : CandleOpens(id) \/ CooldownElapses(id)
           \/ UNCHANGED vars
    PROVE  IInv'
  <1> USE DEF IInv, TypeOK, ControlInv, CallsAreWrittenAhead, IntentInv, PC, Outcome,
              Busy, Running, vars, procVars, diskVars, windowVars, loopVars, envVars, ghostVars
  <1>1. CASE Start
    BY <1>1 DEF Start
  <1>2. CASE Booted
    BY <1>2 DEF Booted
  <1>3. CASE EnsureMeta
    BY <1>3 DEF EnsureMeta
  <1>4. CASE Reconciled
    <2>1. TypeOK'
      BY <1>4 DEF Reconciled
    <2>2. ControlInv' /\ CallsAreWrittenAhead'
      BY <1>4 DEF Reconciled
    <2>3. \A id \in window \ before : Present(disk[id])
      BY <1>4 DEF Reconciled, Missing
    <2>4. IntentInv'
      BY <1>4, <2>3 DEF Reconciled
    <2> QED
      BY <1>4, <2>1, <2>2, <2>4 DEF Reconciled
  <1>5. CASE CorruptMarker
    <2>1. corruptions' \in 0 .. MaxCorruptions
      BY <1>5, FaultBoundAssumption DEF CorruptMarker
    <2> QED
      BY <1>5, <2>1 DEF CorruptMarker
  <1>6. CASE \E frames \in SUBSET Ids : Poll(frames)
    BY <1>6 DEF Poll
  <1>7. CASE \E id \in Ids : CandleOpens(id) \/ CooldownElapses(id)
    BY <1>7 DEF CandleOpens, CooldownElapses
  <1>8. CASE UNCHANGED vars
    BY <1>8
  <1> QED
    BY <1>1, <1>2, <1>3, <1>4, <1>5, <1>6, <1>7, <1>8

\* The steps outside an attempt that write one record.
LEMMA StartupWriteInv ==
    ASSUME IInv, NEW id \in Ids,
           Quarantine(id) \/ RecoverInFlight(id) \/ Reconcile(id) \/ CorruptRecord(id)
    PROVE  IInv'
  <1> USE DEF IInv, vars, procVars, diskVars, windowVars, loopVars, envVars, ghostVars
  <1> DEFINE r == disk'[id]
  <1>1. /\ RecordOK(r)
        /\ disk' = [disk EXCEPT ![id] = r]
        /\ calls'[id] <= r.used \/ ~Present(r)
        /\ calls' \in [Ids -> Nat]
        /\ \A i \in Ids \ {id} : calls'[i] = calls[i]
    <2>1. CASE Quarantine(id)
      BY <2>1, BlankOK
         DEF Quarantine, TypeOK, Present, Absent, Blank, OutboxState, LiveStates, TerminalStates
    <2>2. CASE RecoverInFlight(id)
      BY <2>2, RecoveredOK
         DEF RecoverInFlight, TypeOK, CallsAreWrittenAhead, Present, OutboxState, LiveStates
    <2>3. CASE Reconcile(id)
      <3>1. r = NewQueuedRecord(id \in quarantined) /\ calls'[id] = 0
        BY <2>3 DEF Reconcile, TypeOK
      <3>2. RecordOK(r)
        <4>1. (id \in quarantined) \in BOOLEAN
          OBVIOUS
        <4> QED
          BY <3>1, <4>1, NewQueuedOK
      <3>3. r.used >= 0
        BY <3>2, MaxAttemptsAssumption DEF RecordOK, Document
      <3> QED
        BY <2>3, <3>1, <3>2, <3>3 DEF Reconcile, TypeOK
    <2>4. CASE CorruptRecord(id)
      BY <2>4, BlankOK
         DEF CorruptRecord, TypeOK, Present, Corrupt, Blank, OutboxState, LiveStates, TerminalStates
    <2> QED
      BY <2>1, <2>2, <2>3, <2>4
  <1> HIDE DEF r
  <1>2. /\ pc \notin Running /\ pc' = pc
        /\ UNCHANGED <<before, window, unsynced, mode, inline, todo, made, cur, receipt, cycle,
                       reconciled, opened, cooling, crashes, accepts, undone>>
        /\ quarantined' \subseteq Ids
        /\ marker' = marker
        /\ corruptions' \in 0 .. MaxCorruptions
    BY FaultBoundAssumption
       DEF Quarantine, RecoverInFlight, Reconcile, CorruptRecord, Running, Busy, TypeOK
  <1>3. TypeOK'
    BY <1>1, <1>2 DEF TypeOK, RecordOK
  <1>4. \A i \in Ids : RecordOK(disk'[i])
    BY <1>1 DEF TypeOK
  <1>5. ControlInv'
    BY <1>2 DEF ControlInv, Running, Busy
  <1>6. CallsAreWrittenAhead'
    BY <1>1, <1>2 DEF CallsAreWrittenAhead, TypeOK, Running, Busy
  <1>7. IntentInv'
    <2>1. pc \in {"boot", "reconcile", "down"}
      BY DEF Quarantine, RecoverInFlight, Reconcile, CorruptRecord
    <2> QED
      BY <1>2, <2>1 DEF IntentInv, Running, Busy
  <1> QED
    BY <1>3, <1>4, <1>5, <1>6, <1>7

\* deliver_payload: what the record becomes before the decision to attempt.
LEMMA DeliverInv ==
    ASSUME IInv, NEW id \in Ids, Deliver(id)
    PROVE  IInv'
  <1> USE DEF IInv, windowVars, envVars
  <1> DEFINE r == IF disk[id].state = "IN_FLIGHT" THEN Recovered(disk[id])
                  ELSE IF Present(disk[id]) THEN disk[id] ELSE NewQueuedRecord(FALSE)
  <1>1. RecordOK(r) /\ r.state # "IN_FLIGHT" /\ Present(r)
    <2>1. CASE disk[id].state = "IN_FLIGHT"
      BY <2>1, RecoveredOK DEF Present, OutboxState, LiveStates, TerminalStates
    <2>2. CASE disk[id].state # "IN_FLIGHT" /\ Present(disk[id])
      BY <2>2
    <2>3. CASE ~Present(disk[id])
      BY <2>3, NewQueuedOK DEF Present, OutboxState, LiveStates
    <2> QED
      BY <2>1, <2>2, <2>3
  <1>2. calls'[id] <= r.used
    <2>1. CASE Present(disk[id])
      <3>1. r.used = disk[id].used
        BY <2>1, RecoveredOK
      <3>2. calls'[id] = calls[id] /\ calls[id] <= disk[id].used
        BY <2>1 DEF Deliver, CallsAreWrittenAhead
      <3> HIDE DEF r
      <3> QED
        BY <3>1, <3>2
    <2>2. CASE ~Present(disk[id])
      <3>1. calls'[id] = 0
        BY <2>2 DEF Deliver, TypeOK
      <3>2. r.used \in 0 .. MaxAttempts
        BY <1>1 DEF RecordOK, Document
      <3> HIDE DEF r
      <3> QED
        BY <3>1, <3>2, MaxAttemptsAssumption
    <2> QED
      BY <2>1, <2>2
  <1> HIDE DEF r
  <1>3. /\ pc = "pick" /\ mode = "inline" /\ id \in inline
        /\ disk' = [disk EXCEPT ![id] = r]
        /\ \/ inline' = inline \ {id} /\ UNCHANGED <<pc, cur>>
           \/ ~IsTerminal(r) /\ pc' = "begin" /\ cur' = id /\ UNCHANGED inline
        /\ UNCHANGED <<quarantined, marker, before, windowVars, mode, todo, made, receipt,
                       cycle, reconciled, envVars, accepts, undone>>
    BY DEF Deliver, r
  <1>4. calls' \in [Ids -> Nat] /\ \A i \in Ids \ {id} : calls'[i] = calls[i]
    BY DEF Deliver, TypeOK
  <1>5. disk'[id] = r /\ \A i \in Ids \ {id} : disk'[i] = disk[i]
    BY <1>3 DEF TypeOK
  <1>6. TypeOK'
    BY <1>1, <1>3, <1>4 DEF TypeOK, RecordOK, PC
  <1>7. \A i \in Ids : RecordOK(disk'[i])
    BY <1>1, <1>5
  <1>8. ControlInv'
    BY <1>1, <1>3, <1>5
       DEF ControlInv, Running, Busy, Present, IsTerminal, OutboxState, LiveStates
  <1>9. CallsAreWrittenAhead'
    BY <1>2, <1>3, <1>4, <1>5 DEF CallsAreWrittenAhead
  <1>10. IntentInv'
    BY <1>1, <1>3, <1>5 DEF IntentInv, Running, Busy, TypeOK
  <1> QED
    BY <1>6, <1>7, <1>8, <1>9, <1>10

\* A record of the drain pass is live, and one that is not in flight has budget.
LEMMA DrainInv ==
    ASSUME IInv, NEW id \in Ids, DrainRecover(id) \/ DrainVisit(id)
    PROVE  IInv'
  <1> USE DEF IInv, windowVars, envVars, ghostVars
  <1>1. disk[id].state \in LiveStates
    BY DEF DrainRecover, DrainVisit, Visits, ControlInv
  <1>2. CASE DrainRecover(id)
    <2>1. /\ RecordOK(Recovered(disk[id]))
          /\ Recovered(disk[id]).state \in {"WAITING", "AMBIGUOUS"}
          /\ Recovered(disk[id]).used = disk[id].used
      BY <1>2, RecoveredOK DEF DrainRecover
    <2>2. /\ disk' \in [Ids -> Document]
          /\ disk'[id] = Recovered(disk[id]) /\ \A i \in Ids \ {id} : disk'[i] = disk[i]
      BY <1>2, <2>1 DEF DrainRecover, TypeOK, RecordOK
    <2>3. /\ pc = "pick" /\ mode = "drain" /\ todo' \subseteq todo
          /\ IsTerminal(disk'[id]) => id \notin todo'
      BY <1>2 DEF DrainRecover, Visits
    <2>4. TypeOK'
      BY <1>2, <2>2, <2>3 DEF DrainRecover, TypeOK
    <2>5. \A i \in Ids : RecordOK(disk'[i])
      BY <2>1, <2>2
    <2>6. ControlInv'
      BY <1>2, <2>1, <2>2, <2>3
         DEF DrainRecover, ControlInv, Running, Busy, IsTerminal, TerminalStates, LiveStates, TypeOK
    <2>7. CallsAreWrittenAhead'
      BY <1>2, <2>1, <2>2
         DEF DrainRecover, Visits, CallsAreWrittenAhead, Present, OutboxState, LiveStates
    <2>8. IntentInv'
      BY <1>2, <2>1, <2>2, <2>3
         DEF DrainRecover, IntentInv, Present, OutboxState, LiveStates, TerminalStates,
             Running, Busy, TypeOK
    <2> QED
      BY <2>4, <2>5, <2>6, <2>7, <2>8
  <1>3. CASE DrainVisit(id)
    <2>1. /\ pc = "pick" /\ mode = "drain" /\ made < MaxPerDrain
          /\ disk[id].state \in {"QUEUED", "WAITING"} /\ BudgetRemaining(disk[id])
      BY <1>1, <1>3, LiveHasBudget DEF DrainVisit, Visits, LiveStates
    <2>2. /\ pc' = "begin" /\ cur' = id
          /\ UNCHANGED <<disk, todo, quarantined, marker, before, windowVars, mode, inline,
                         made, receipt, cycle, reconciled, envVars, ghostVars>>
      BY <1>3, <2>1 DEF DrainVisit
    <2>3. TypeOK'
      BY <2>2 DEF TypeOK, PC
    <2>4. ControlInv'
      BY <2>1, <2>2 DEF ControlInv, Running, Busy
    <2>5. CallsAreWrittenAhead' /\ IntentInv'
      BY <2>1, <2>2 DEF CallsAreWrittenAhead, IntentInv, Running, Busy
    <2> QED
      BY <2>2, <2>3, <2>4, <2>5
  <1> QED
    BY <1>2, <1>3

\* The loop that asked for the attempt goes on to its next record.
LEMMA LoopContinuesInv ==
    ASSUME IInv, pc \in Busy, LoopContinues
    PROVE  /\ inline' \subseteq Ids /\ inline \ {cur} \subseteq inline'
           /\ todo' \subseteq todo /\ made' \in 0 .. MaxPerDrain
           /\ mode = "inline" => todo' = {}
           /\ mode = "drain" => inline' = {} /\ cur \notin todo'
  BY DrainAssumption DEF IInv, LoopContinues, ControlInv, TypeOK

\* The attempt is written before the call.
LEMMA BeginAttemptInv == ASSUME IInv, BeginAttempt PROVE IInv'
  <1> USE DEF IInv, BeginAttempt, windowVars, ghostVars
  <1>1. cur \in Ids /\ disk[cur].state \in {"QUEUED", "WAITING"} /\ BudgetRemaining(disk[cur])
    BY LiveHasBudget DEF ControlInv, Busy
  <1>2. /\ RecordOK(InFlight(disk[cur]))
        /\ InFlight(disk[cur]).state = "IN_FLIGHT"
        /\ InFlight(disk[cur]).used = disk[cur].used + 1
    BY <1>1, InFlightOK
  <1>3. /\ disk' \in [Ids -> Document]
        /\ disk'[cur] = InFlight(disk[cur]) /\ \A i \in Ids \ {cur} : disk'[i] = disk[i]
    BY <1>1, <1>2 DEF TypeOK, RecordOK
  <1>4. pc = "begin" /\ pc' = "call" /\ cooling' = cooling \cup {cur}
        /\ UNCHANGED <<inline, todo, made, cur, quarantined, marker, before, window, unsynced,
                       mode, receipt, cycle, reconciled, opened, crashes, corruptions,
                       calls, accepts, undone>>
    BY <1>1
  <1> SUFFICES TypeOK' /\ (\A i \in Ids : RecordOK(disk'[i])) /\ ControlInv'
               /\ CallsAreWrittenAhead' /\ IntentInv'
    OBVIOUS
  <1>5. TypeOK'
    BY <1>1, <1>3, <1>4 DEF TypeOK, PC
  <1>6. \A i \in Ids : RecordOK(disk'[i])
    BY <1>2, <1>3
  <1>7. ControlInv'
    BY <1>1, <1>2, <1>3, <1>4 DEF ControlInv, Running, Busy, LiveStates, TypeOK
  <1>8. CallsAreWrittenAhead'
    <2>1. disk[cur].used \in Nat /\ calls[cur] \in Nat /\ calls[cur] <= disk[cur].used
      BY <1>1, MaxAttemptsAssumption
         DEF TypeOK, Document, RecordOK, CallsAreWrittenAhead, Present, OutboxState, LiveStates
    <2> QED
      BY <1>2, <1>3, <1>4, <2>1 DEF CallsAreWrittenAhead
  <1>9. IntentInv'
    BY <1>1, <1>2, <1>3, <1>4
       DEF IntentInv, Present, OutboxState, LiveStates, Running, Busy, TypeOK
  <1> QED
    BY <1>5, <1>6, <1>7, <1>8, <1>9

\* The call itself: it was counted before, whether it returns or raises.
LEMMA CallInv ==
    ASSUME IInv,
           \/ \E answer \in Answers : CallReturns(answer)
           \/ \E took \in {0, 1} : CallRaises(took)
    PROVE  IInv'
  <1> USE DEF IInv, windowVars, diskVars, envVars
  <1>1. /\ pc = "call" /\ cur \in Ids /\ disk[cur].state = "IN_FLIGHT" /\ disk' = disk
        /\ calls' = [calls EXCEPT ![cur] = @ + 1]
        /\ \E took \in {0, 1} : accepts' = [accepts EXCEPT ![cur] = @ + took]
        /\ UNCHANGED <<quarantined, marker, before, window, opened, cooling, crashes,
                       corruptions, undone>>
    BY DEF CallReturns, CallRaises, Answers, ControlInv, Busy
  <1>2. calls' \in [Ids -> Nat] /\ accepts' \in [Ids -> Nat]
    BY <1>1 DEF TypeOK
  <1>3. CallsAreWrittenAhead'
    <2>1. pc' # "call"
      BY <1>1 DEF CallReturns, CallRaises, BeginDrain, BackToIdle, Halted
    <2>2. calls[cur] < disk[cur].used /\ calls[cur] \in Nat /\ disk[cur].used \in Nat
      BY <1>1, MaxAttemptsAssumption
         DEF TypeOK, CallsAreWrittenAhead, Present, OutboxState, LiveStates, Document
    <2>3. \A i \in Ids \ {cur} : calls'[i] = calls[i]
      BY <1>1 DEF TypeOK
    <2>4. calls'[cur] <= disk[cur].used
      BY <1>1, <2>2 DEF TypeOK
    <2> QED
      BY <1>1, <2>1, <2>3, <2>4 DEF CallsAreWrittenAhead
  <1>4. \A i \in Ids : RecordOK(disk'[i])
    BY <1>1
  <1>5. CASE \E answer \in Answers : CallReturns(answer)
    <2>1. /\ pc' = "settle" /\ receipt' \in Receipt
          /\ UNCHANGED <<unsynced, mode, inline, todo, made, cur, cycle, reconciled>>
      BY <1>5 DEF CallReturns, Answers, Receipt
    <2>2. TypeOK'
      BY <1>1, <1>2, <2>1 DEF TypeOK, PC
    <2>3. ControlInv' /\ IntentInv'
      BY <1>1, <2>1 DEF ControlInv, IntentInv, Running, Busy
    <2> QED
      BY <1>3, <1>4, <2>2, <2>3
  <1>6. CASE mode = "inline" /\ \E took \in {0, 1} : CallRaises(took)
    <2>1. /\ BeginDrain /\ inline' = {} /\ cur' = 0 /\ cycle' = "fatal"
          /\ UNCHANGED <<receipt, reconciled, unsynced>>
      BY <1>6 DEF CallRaises
    <2>2. TypeOK'
      BY <1>1, <1>2, <2>1, DrainAssumption DEF TypeOK, PC, BeginDrain, LiveRecords, Outcome
    <2>3. ControlInv'
      BY <1>1, <2>1 DEF ControlInv, BeginDrain, LiveRecords, Running, Busy
    <2>4. IntentInv'
      BY <1>1, <2>1 DEF IntentInv, BeginDrain, Running, Busy
    <2> QED
      BY <1>3, <1>4, <2>2, <2>3, <2>4
  <1>7. CASE mode = "drain" /\ \E took \in {0, 1} : CallRaises(took)
    <2>1. /\ IF cycle = "retry" THEN BackToIdle ELSE Halted
          /\ unsynced' = {}
      BY <1>7 DEF CallRaises
    <2>2. CASE cycle = "retry"
      <3>1. TypeOK'
        BY <1>1, <1>2, <2>1, <2>2, DrainAssumption DEF TypeOK, PC, BackToIdle, Outcome
      <3>2. ControlInv'
        BY <2>1, <2>2 DEF ControlInv, BackToIdle, Running, Busy
      <3>3. IntentInv'
        BY <1>1, <1>7, <2>1, <2>2 DEF IntentInv, ControlInv, BackToIdle, Running, Busy
      <3> QED
        BY <1>3, <1>4, <3>1, <3>2, <3>3
    <2>3. CASE cycle # "retry"
      <3>1. reconciled' \in BOOLEAN
        BY <2>1, <2>3, Zenon DEF Halted
      <3>2. TypeOK'
        BY <1>1, <1>2, <2>1, <2>3, <3>1, DrainAssumption DEF TypeOK, PC, Halted, Outcome
      <3>3. ControlInv'
        BY <2>1, <2>3 DEF ControlInv, Halted, Running, Busy
      <3>4. IntentInv'
        BY <2>1, <2>3 DEF IntentInv, Halted, Running, Busy
      <3> QED
        BY <1>3, <1>4, <3>2, <3>3, <3>4
    <2> QED
      BY <2>2, <2>3
  <1> QED
    BY <1>5, <1>6, <1>7 DEF TypeOK

\* The receipt is written after it.
LEMMA SettleInv == ASSUME IInv, Settle PROVE IInv'
  <1> USE DEF IInv, windowVars, envVars, ghostVars
  <1>1. cur \in Ids /\ disk[cur].state = "IN_FLIGHT" /\ receipt \in Receipt /\ pc = "settle"
    BY DEF Settle, ControlInv, Busy
  <1> DEFINE r == Settled(disk[cur], receipt)
  <1>2. /\ RecordOK(r) /\ r.used = disk[cur].used
        /\ r.state \in TerminalStates \cup {"WAITING"}
    BY <1>1, SettledOK, StateAfterCases
  <1>3. /\ disk' \in [Ids -> Document]
        /\ disk'[cur] = r /\ \A i \in Ids \ {cur} : disk'[i] = disk[i]
    BY <1>1, <1>2 DEF Settle, TypeOK, RecordOK
  <1> HIDE DEF r
  <1>4. /\ pc' = "pick" /\ cur' = 0 /\ receipt' = NoReceipt /\ LoopContinues
        /\ UNCHANGED <<quarantined, marker, before, window, unsynced, mode, cycle, reconciled,
                       opened, cooling, crashes, corruptions, calls, accepts, undone>>
    BY DEF Settle, LoopContinues
  <1>5. /\ inline' \subseteq Ids /\ inline \ {cur} \subseteq inline'
        /\ todo' \subseteq todo /\ made' \in 0 .. MaxPerDrain
        /\ mode = "inline" => todo' = {}
        /\ mode = "drain" => inline' = {} /\ cur \notin todo'
    BY <1>1, <1>4, LoopContinuesInv DEF Busy
  <1>6. TypeOK'
    BY <1>3, <1>4, <1>5 DEF TypeOK, PC
  <1>7. \A i \in Ids : RecordOK(disk'[i])
    BY <1>2, <1>3
  <1>8. ControlInv'
    BY <1>3, <1>4, <1>5 DEF ControlInv, Running, Busy, TypeOK
  <1>9. CallsAreWrittenAhead'
    BY <1>1, <1>2, <1>3, <1>4 DEF CallsAreWrittenAhead, Present, OutboxState, LiveStates
  <1>10. IntentInv'
    BY <1>1, <1>2, <1>3, <1>4, <1>5
       DEF IntentInv, Present, OutboxState, LiveStates, TerminalStates, Running, Busy, TypeOK
  <1> QED
    BY <1>6, <1>7, <1>8, <1>9, <1>10

\* Every step keeps the invariant.
LEMMA NextIInv == IInv /\ [Next]_vars => IInv'
  <1> SUFFICES ASSUME IInv, [Next]_vars PROVE IInv'
    OBVIOUS
  <1>1. CASE Startup
    BY <1>1, QuietInv, StartupWriteInv DEF Startup
  <1>2. CASE Cycle
    BY <1>2, QuietInv, BeginDrainInv, EndInv, DeliverInv, DrainInv DEF Cycle
  <1>3. CASE Attempt
    BY <1>3, BeginAttemptInv, CallInv, SettleInv DEF Attempt
  <1>4. CASE Faults
    BY <1>4, QuietInv, EndInv, StartupWriteInv DEF Faults
  <1>5. CASE \E id \in Ids : CandleOpens(id) \/ CooldownElapses(id)
    BY <1>5, QuietInv
  <1>6. CASE UNCHANGED vars
    BY <1>6, QuietInv
  <1> QED
    BY <1>1, <1>2, <1>3, <1>4, <1>5, <1>6 DEF Next

\* Every reachable state satisfies it.
LEMMA Inductive == Spec => []IInv
  BY InitIInv, NextIInv, PTL DEF Spec

-----------------------------------------------------------------------------
(* What follows for every execution. *)

\* Every variable keeps its type: in particular no record's attempt counter
\* passes max_attempts, whatever crashes and damaged files come in between.
THEOREM TypeCorrect == Spec => []TypeOK
  BY Inductive, PTL DEF IInv

\* The attempt is counted before the call, for every number of attempts,
\* signals and faults.
THEOREM WrittenAhead == Spec => []CallsAreWrittenAhead
  BY Inductive, PTL DEF IInv

\* The attempt log has one entry for every consumed attempt (the attempt log of
\* models.py, _settle and _recover_record).
THEOREM LogComplete == Spec => []LogIsComplete
  <1>1. IInv => LogIsComplete
    BY DEF IInv, RecordOK, LogIsComplete
  <1> QED
    BY <1>1, Inductive, PTL

\* Between cycles no signal of the durable window is without its record.
THEOREM NoLoss == Spec => []NoIntentIsLost
  <1>1. IInv => NoIntentIsLost
    BY DEF IInv, TypeOK, ControlInv, IntentInv, NoIntentIsLost, Running, Busy
  <1> QED
    BY <1>1, Inductive, PTL

\* T10: a terminal record is frozen.
THEOREM TerminalIsFrozen == Spec => SettledForever
  <1>1. ASSUME IInv, Next, NEW id \in Ids, IsTerminal(disk[id])
        PROVE  disk'[id] \in {disk[id], Corrupt}
    <2> USE <1>1 DEF IInv
    <2>1. disk[id].state \in TerminalStates /\ Present(disk[id])
          /\ disk[id].state \notin {"ABSENT", "CORRUPT", "IN_FLIGHT", "QUEUED", "WAITING"}
      BY DEF IsTerminal, TerminalStates, Present, OutboxState
    <2>2. CASE UNCHANGED disk
      BY <2>2
    <2>3. ASSUME NEW i \in Ids, Quarantine(i) \/ RecoverInFlight(i) \/ Reconcile(i)
                                \/ CorruptRecord(i)
          PROVE  disk'[id] \in {disk[id], Corrupt}
      BY <2>1, <2>3 DEF Quarantine, RecoverInFlight, Reconcile, Missing, CorruptRecord, TypeOK
    <2>4. ASSUME NEW i \in Ids, Deliver(i)
          PROVE  disk'[id] = disk[id]
      BY <2>1, <2>4 DEF Deliver, TypeOK
    <2>5. ASSUME NEW i \in Ids, DrainRecover(i) \/ DrainVisit(i)
          PROVE  disk'[id] = disk[id]
      BY <2>1, <2>5 DEF DrainRecover, DrainVisit, Visits, ControlInv, LiveStates, TypeOK,
                        BudgetExhausted
    <2>6. CASE BeginAttempt \/ Settle
      <3>1. cur # id
        BY <2>1, <2>6 DEF BeginAttempt, Settle, ControlInv
      <3> QED
        BY <2>6, <3>1 DEF BeginAttempt, Settle, TypeOK
    <2> QED
      BY <1>1, <2>2, <2>3, <2>4, <2>5, <2>6
         DEF Next, Startup, Cycle, Attempt, Faults, Start, Booted, EnsureMeta, Reconciled,
             PollRaises, InlineDone, DrainDone, Poll, CallReturns, CallRaises, Crash,
             CorruptMarker, CandleOpens, CooldownElapses, diskVars
  <1>2. IInv /\ [Next]_vars
          => (\A id \in Ids : IsTerminal(disk[id]) => disk'[id] \in {disk[id], Corrupt})
    BY <1>1 DEF vars, diskVars
  <1> QED
    BY <1>2, Inductive, PTL DEF Spec, SettledForever

-----------------------------------------------------------------------------
(* What the records say of their messages agrees with what the transport   *)
(* did, and drains keep the cooldown.                                      *)

Clean(id) == id \notin quarantined \cap undone

\* What the transport took and what a record says of it.
TakenInv ==
    \A id \in Ids :
        /\ disk[id].state = "DELIVERED" => accepts[id] > 0
        /\ Clean(id) /\ accepts[id] > 0 =>
              /\ disk[id].state \in {"QUEUED", "WAITING"} => disk[id].ambiguous
              /\ disk[id].state = "DELIVERED" /\ accepts[id] > 1 => disk[id].duplicated
              /\ disk[id].state \in TerminalStates \ {"DELIVERED"} =>
                     disk[id].ambiguous \/ disk[id].duplicated
        /\ id \notin window \cup undone => accepts[id] = 0 /\ ~Present(disk[id])

\* The attempt at hand: what was taken before it left its mark already.
AttemptInv ==
    /\ pc = "call" /\ Clean(cur) /\ accepts[cur] > 0 => disk[cur].ambiguous
    /\ pc = "settle" =>
          /\ receipt \in {"DELIVERED", "UNKNOWN", "RETRYABLE", "REFUSED"}
          /\ receipt = "DELIVERED" => accepts[cur] > 0
          /\ Clean(cur) /\ accepts[cur] > (IF receipt = "DELIVERED" THEN 1 ELSE 0)
                /\ receipt # "UNKNOWN" => disk[cur].ambiguous

\* A message can be without a record only where that was noticed.
UnrecordedInv ==
    /\ pc \notin {"down", "boot"} => \A id \in Ids : disk[id].state # "CORRUPT"
    /\ inline \subseteq window
    /\ \A id \in Ids : disk[id].state = "ABSENT" /\ accepts[id] > 0 =>
           /\ id \in quarantined
           /\ id \in inline => id \in undone

\* What a drain has still to visit is cold, or to be recovered.
ColdInv ==
    mode = "drain" =>
        /\ \A id \in todo : id \notin cooling \/ disk[id].state = "IN_FLIGHT"
        /\ pc = "begin" => cur \notin cooling

TruthInv == TakenInv /\ AttemptInv /\ UnrecordedInv /\ ColdInv

-----------------------------------------------------------------------------
(* What the transitions of a record do to its marks. *)

\* A new intent is marked when reconciliation says so.
LEMMA NewMarks ==
    ASSUME NEW b \in BOOLEAN
    PROVE  NewQueuedRecord(b).state = "QUEUED" /\ NewQueuedRecord(b).ambiguous = b
BY DEF NewQueuedRecord, Blank

\* An attempt that begins leaves the marks alone.
LEMMA InFlightMarks ==
    ASSUME NEW r \in Document
    PROVE  InFlight(r).state = "IN_FLIGHT" /\ InFlight(r).ambiguous = r.ambiguous
BY DEF InFlight, Document

\* A recovered attempt is marked, and the record says so if it was the last.
LEMMA RecoveredMarks ==
    ASSUME NEW r \in Document
    PROVE  /\ Recovered(r).state \in {"WAITING", "AMBIGUOUS"}
           /\ Recovered(r).ambiguous = TRUE
BY DEF Recovered, Document

\* What settles an attempt keeps its marks, and adds one after an UNKNOWN.
LEMMA SettledMarks ==
    ASSUME NEW r \in Document, NEW a \in {"DELIVERED", "UNKNOWN", "RETRYABLE", "REFUSED"}
    PROVE  /\ Settled(r, a).state = "DELIVERED" <=> a = "DELIVERED"
           /\ Settled(r, a).state \in {"DELIVERED", "WAITING"} \cup TerminalStates
           /\ a = "DELIVERED" => Settled(r, a).duplicated = r.ambiguous
           /\ r.ambiguous => Settled(r, a).ambiguous
           /\ a = "UNKNOWN" => Settled(r, a).ambiguous \/ Settled(r, a).duplicated
           /\ a = "UNKNOWN" /\ Settled(r, a).state = "WAITING" => Settled(r, a).ambiguous
<1> DEFINE next == StateAfter(r, a)
<1>1. /\ next \in {"DELIVERED", "FAILED_TERMINAL", "WAITING", "AMBIGUOUS", "EXHAUSTED"}
      /\ next = "DELIVERED" <=> a = "DELIVERED"
      /\ a = "UNKNOWN" => next \in {"WAITING", "AMBIGUOUS"}
  BY DEF StateAfter, ReceiptAllowsRetry
<1>2. /\ Settled(r, a).state = next
      /\ Settled(r, a).ambiguous = (r.ambiguous \/ (next = "WAITING" /\ a = "UNKNOWN"))
      /\ Settled(r, a).duplicated =
            IF a = "DELIVERED" THEN r.ambiguous ELSE r.duplicated \/ next = "AMBIGUOUS"
  BY DEF Settled, Document
<1> HIDE DEF next
<1> QED BY <1>1, <1>2 DEF TerminalStates

-----------------------------------------------------------------------------
(* What each step that writes a record does to its marks. *)

Only(id) == \A other \in Ids \ {id} : disk'[other] = disk[other]

\* The state of every record is one of the document's, and its own counters.
LEMMA Documents ==
    ASSUME IInv
    PROVE  \A id \in Ids :
              /\ disk[id] \in Document
              /\ disk[id].state \in OutboxState \cup NoRecord
              /\ disk[id].ambiguous \in BOOLEAN /\ disk[id].duplicated \in BOOLEAN
              /\ accepts[id] \in Nat
<1>1. \A id \in Ids : disk[id] \in Document
  BY DEF IInv, RecordOK
<1>2. \A r \in Document : /\ r.state \in OutboxState \cup NoRecord
                          /\ r.ambiguous \in BOOLEAN /\ r.duplicated \in BOOLEAN
  BY DEF Document
<1>3. \A id \in Ids : accepts[id] \in Nat
  BY DEF IInv, TypeOK
<1> QED BY <1>1, <1>2, <1>3

\* A document that is moved away, or found damaged, is none.
LEMMA RemovalWrites ==
    ASSUME IInv, NEW id \in Ids
    PROVE  /\ Quarantine(id) => Only(id) /\ disk'[id].state = "ABSENT"
           /\ CorruptRecord(id) => Only(id) /\ disk'[id].state = "CORRUPT"
<1>1. Absent.state = "ABSENT" /\ Corrupt.state = "CORRUPT"
  BY DEF Absent, Corrupt, Blank
<1>2. disk \in [Ids -> Document]
  BY DEF IInv, TypeOK
<1> QED BY <1>1, <1>2 DEF Quarantine, CorruptRecord, Only

\* A recovery marks its record.
LEMMA RecoveryWrites ==
    ASSUME IInv, NEW id \in Ids, RecoverInFlight(id) \/ DrainRecover(id)
    PROVE  /\ Only(id)
           /\ disk'[id].state \in {"WAITING", "AMBIGUOUS"} /\ disk'[id].ambiguous = TRUE
<1>1. disk \in [Ids -> Document]
  BY DEF IInv, TypeOK
<1>2. disk' = [disk EXCEPT ![id] = Recovered(disk[id])]
  BY DEF RecoverInFlight, DrainRecover
<1> QED BY <1>1, <1>2, RecoveredMarks, Documents DEF Only

\* A recreated intent is marked if the lost record was quarantined.
LEMMA ReconcileWrites ==
    ASSUME IInv, NEW id \in Ids, Reconcile(id)
    PROVE  /\ Only(id)
           /\ disk'[id].state = "QUEUED" /\ disk'[id].ambiguous = (id \in quarantined)
<1>1. disk \in [Ids -> Document]
  BY DEF IInv, TypeOK
<1>2. disk' = [disk EXCEPT ![id] = NewQueuedRecord(id \in quarantined)]
  BY DEF Reconcile
<1>3. (id \in quarantined) \in BOOLEAN
  OBVIOUS
<1> QED BY <1>1, <1>2, <1>3, NewMarks DEF Only

\* A delivery recovers, takes up or creates the record of its frame.
LEMMA DeliverWrites ==
    ASSUME IInv, NEW id \in Ids, Deliver(id)
    PROVE  /\ Only(id)
           /\ disk[id].state = "IN_FLIGHT" =>
                 disk'[id].state \in {"WAITING", "AMBIGUOUS"} /\ disk'[id].ambiguous = TRUE
           /\ disk[id].state \in OutboxState \ {"IN_FLIGHT"} => disk'[id] = disk[id]
           /\ disk[id].state \in NoRecord =>
                 disk'[id].state = "QUEUED" /\ disk'[id].ambiguous = FALSE
<1>1. disk \in [Ids -> Document]
  BY DEF IInv, TypeOK
<1>2. disk' = [disk EXCEPT ![id] =
          IF disk[id].state = "IN_FLIGHT" THEN Recovered(disk[id])
          ELSE IF Present(disk[id]) THEN disk[id] ELSE NewQueuedRecord(FALSE)]
  BY DEF Deliver
<1>3. disk[id].state \in NoRecord => ~Present(disk[id]) /\ disk[id].state # "IN_FLIGHT"
  BY DEF NoRecord, Present, OutboxState, LiveStates, TerminalStates
<1>4. disk[id].state \in OutboxState \ {"IN_FLIGHT"} => Present(disk[id])
  BY DEF Present
<1> QED BY <1>1, <1>2, <1>3, <1>4, NewMarks, RecoveredMarks, Documents DEF Only

\* A live record has budget, so a visit leads to an attempt and writes nothing.
LEMMA VisitWrites ==
    ASSUME IInv, NEW id \in Ids, DrainVisit(id)
    PROVE  disk' = disk /\ pc' = "begin" /\ cur' = id /\ todo' = todo
<1>1. disk[id].state \in LiveStates /\ disk[id].state # "IN_FLIGHT"
  BY DEF DrainVisit, Visits, IInv, ControlInv
<1>2. BudgetRemaining(disk[id])
  BY <1>1, LiveHasBudget DEF LiveStates, IInv
<1> QED BY <1>2 DEF DrainVisit

\* An attempt leaves the marks as they are.
LEMMA AttemptWrites ==
    ASSUME IInv, BeginAttempt
    PROVE  /\ Only(cur) /\ pc' = "call"
           /\ disk'[cur].state = "IN_FLIGHT" /\ disk'[cur].ambiguous = disk[cur].ambiguous
           /\ cur \in Ids /\ UNCHANGED <<inline, todo, made, cur>>
<1>1. disk \in [Ids -> Document] /\ cur \in Ids /\ disk[cur].state \in {"QUEUED", "WAITING"}
  BY DEF IInv, TypeOK, ControlInv, BeginAttempt, Busy
<1>2. BudgetRemaining(disk[cur])
  BY <1>1, LiveHasBudget DEF IInv
<1>3. disk' = [disk EXCEPT ![cur] = InFlight(disk[cur])] /\ pc' = "call"
      /\ UNCHANGED <<inline, todo, made, cur>>
  BY <1>2 DEF BeginAttempt
<1> QED BY <1>1, <1>3, InFlightMarks DEF Only

\* A settled attempt leaves its marks, as its receipt asks for.
LEMMA SettleWrites ==
    ASSUME IInv, AttemptInv, Settle
    PROVE  /\ Only(cur) /\ pc' = "pick" /\ cur \in Ids
           /\ disk[cur].state = "IN_FLIGHT"
           /\ disk'[cur].state = "DELIVERED" <=> receipt = "DELIVERED"
           /\ disk'[cur].state \in {"DELIVERED", "WAITING"} \cup TerminalStates
           /\ receipt = "DELIVERED" => disk'[cur].duplicated = disk[cur].ambiguous
           /\ disk[cur].ambiguous => disk'[cur].ambiguous
           /\ receipt = "UNKNOWN" => disk'[cur].ambiguous \/ disk'[cur].duplicated
           /\ receipt = "UNKNOWN" /\ disk'[cur].state = "WAITING" => disk'[cur].ambiguous
           /\ inline' \subseteq inline
           /\ UNCHANGED <<window, quarantined, undone, accepts>>
<1>1. /\ disk \in [Ids -> Document] /\ cur \in Ids /\ disk[cur].state = "IN_FLIGHT"
      /\ receipt \in {"DELIVERED", "UNKNOWN", "RETRYABLE", "REFUSED"}
  BY DEF IInv, TypeOK, ControlInv, Settle, Busy, AttemptInv
<1>2. disk' = [disk EXCEPT ![cur] = Settled(disk[cur], receipt)]
  BY DEF Settle
<1>3. disk[cur] \in Document
  BY <1>1
<1>4. disk'[cur] = Settled(disk[cur], receipt) /\ Only(cur)
  BY <1>1, <1>2 DEF Only
<1>5. pc' = "pick" /\ inline' \subseteq inline
      /\ UNCHANGED <<window, quarantined, undone, accepts>>
  BY DEF Settle, LoopContinues, ghostVars, windowVars
<1> QED BY <1>1, <1>3, <1>4, <1>5, SettledMarks

\* A call that ends writes nothing, and only adds to what was taken.
LEMMA CallAdds ==
    ASSUME IInv, NEW took \in {0, 1},
           (\E answer \in Answers : answer[2] = took /\ CallReturns(answer)) \/ CallRaises(took)
    PROVE  /\ cur \in Ids /\ disk[cur].state = "IN_FLIGHT"
           /\ accepts'[cur] = accepts[cur] + took
           /\ \A other \in Ids \ {cur} : accepts'[other] = accepts[other]
           /\ inline' \subseteq inline
           /\ UNCHANGED <<disk, window, quarantined, undone>>
<1>1. accepts \in [Ids -> Nat] /\ cur \in Ids /\ disk[cur].state = "IN_FLIGHT"
  BY DEF IInv, TypeOK, ControlInv, CallReturns, CallRaises, Busy
<1>2. accepts' = [accepts EXCEPT ![cur] = accepts[cur] + took]
  BY DEF CallReturns, CallRaises
<1>3. inline' \subseteq inline /\ UNCHANGED <<disk, window, quarantined, undone>>
  BY DEF CallReturns, CallRaises, BackToIdle, Halted, diskVars, windowVars
<1> QED BY <1>1, <1>2, <1>3

-----------------------------------------------------------------------------
(* Each part is kept by every step. *)

\* A drain stays away from what is cooling.
LEMMA ColdKept == IInv /\ TruthInv /\ [Next]_vars => ColdInv'
<1> SUFFICES ASSUME IInv, TruthInv, [Next]_vars PROVE ColdInv'
  OBVIOUS
<1> USE DEF diskVars, windowVars, loopVars, procVars, envVars, ghostVars
<1>inv. TypeOK /\ ControlInv /\ ColdInv
  BY DEF IInv, TruthInv
<1>1. CASE Start
  BY <1>1, <1>inv DEF Start, ColdInv, ControlInv, Running, Busy, TypeOK
<1>2. ASSUME NEW id \in Ids, Quarantine(id) PROVE ColdInv'
  BY <1>2, <1>inv, RemovalWrites, Documents DEF Quarantine, Only, ColdInv, ControlInv, Running,
      Busy, TypeOK, OutboxState, LiveStates, TerminalStates, NoRecord, Present
<1>3. ASSUME NEW id \in Ids, RecoverInFlight(id) PROVE ColdInv'
  BY <1>3, <1>inv, RecoveryWrites, Documents DEF RecoverInFlight, Only, ColdInv, ControlInv,
      Running, Busy, TypeOK, OutboxState, LiveStates, TerminalStates, NoRecord, Present
<1>4. CASE Booted
  BY <1>4, <1>inv DEF Booted, ColdInv, ControlInv, Running, Busy, TypeOK
<1>5. CASE EnsureMeta
  BY <1>5, <1>inv DEF EnsureMeta, ColdInv, ControlInv, Running, Busy, TypeOK
<1>6. ASSUME NEW id \in Ids, Reconcile(id) PROVE ColdInv'
  BY <1>6, <1>inv, ReconcileWrites, Documents DEF Reconcile, Missing, Only, ColdInv, ControlInv,
      Running, Busy, TypeOK, OutboxState, LiveStates, TerminalStates, NoRecord, Present
<1>7. CASE Reconciled
  BY <1>7, <1>inv DEF Reconciled, Missing, ColdInv, ControlInv, Running, Busy, TypeOK
<1>8. ASSUME NEW frames \in SUBSET Ids, Poll(frames) PROVE ColdInv'
  BY <1>8, <1>inv DEF Poll, ColdInv, ControlInv, Running, Busy, TypeOK
<1>9. CASE PollRaises
  BY <1>9, <1>inv DEF PollRaises, BeginDrain, ColdInv, ControlInv, Running, Busy, TypeOK
<1>10. ASSUME NEW id \in Ids, Deliver(id) PROVE ColdInv'
  BY <1>10, <1>inv, DeliverWrites, Documents DEF Deliver, Only, ColdInv, ControlInv, Running,
      Busy, TypeOK, OutboxState, LiveStates, TerminalStates, NoRecord, Present
<1>11. CASE InlineDone
  BY <1>11, <1>inv DEF InlineDone, BeginDrain, ColdInv, ControlInv, Running, Busy, TypeOK
<1>12. ASSUME NEW id \in Ids, DrainRecover(id) PROVE ColdInv'
  BY <1>12, <1>inv, RecoveryWrites, Documents DEF DrainRecover, Visits, Only, ColdInv,
      ControlInv, Running, Busy, TypeOK, OutboxState, LiveStates, TerminalStates, NoRecord,
      Present
<1>13. ASSUME NEW id \in Ids, DrainVisit(id) PROVE ColdInv'
  BY <1>13, <1>inv, VisitWrites, Documents DEF DrainVisit, Visits, Only, ColdInv, ControlInv,
      Running, Busy, TypeOK, OutboxState, LiveStates, TerminalStates, NoRecord, Present
<1>14. CASE DrainDone
  BY <1>14, <1>inv DEF DrainDone, BackToIdle, Halted, ColdInv, ControlInv, Running, Busy, TypeOK
<1>15. CASE BeginAttempt
  BY <1>15, <1>inv, AttemptWrites, Documents DEF BeginAttempt, LoopContinues, Only, ColdInv,
      ControlInv, Running, Busy, TypeOK, OutboxState, LiveStates, TerminalStates, NoRecord,
      Present
<1>16. ASSUME NEW answer \in Answers, CallReturns(answer) PROVE ColdInv'
  BY <1>16, <1>inv DEF CallReturns, ColdInv, ControlInv, Running, Busy, TypeOK
<1>17. ASSUME NEW took \in {0, 1}, CallRaises(took) PROVE ColdInv'
  BY <1>17, <1>inv DEF CallRaises, BeginDrain, BackToIdle, Halted, ColdInv, ControlInv, Running,
      Busy, TypeOK
<1>18. CASE Settle
  BY <1>18, <1>inv DEF Settle, LoopContinues, ColdInv, ControlInv, Running, Busy, TypeOK
<1>19. ASSUME NEW id \in Ids, CandleOpens(id) PROVE ColdInv'
  BY <1>19, <1>inv DEF CandleOpens, ColdInv, ControlInv, Running, Busy, TypeOK
<1>20. ASSUME NEW id \in Ids, CooldownElapses(id) PROVE ColdInv'
  BY <1>20, <1>inv DEF CooldownElapses, ColdInv, ControlInv, Running, Busy, TypeOK
<1>21. CASE Crash
  BY <1>21, <1>inv DEF Crash, Halted, ColdInv, ControlInv, Running, Busy, TypeOK
<1>22. ASSUME NEW id \in Ids, CorruptRecord(id) PROVE ColdInv'
  BY <1>22, <1>inv, RemovalWrites, Documents DEF CorruptRecord, Only, ColdInv, ControlInv,
      Running, Busy, TypeOK, OutboxState, LiveStates, TerminalStates, NoRecord, Present
<1>23. CASE CorruptMarker
  BY <1>23, <1>inv DEF CorruptMarker, ColdInv, ControlInv, Running, Busy, TypeOK
<1>24. CASE UNCHANGED vars
  BY <1>24, <1>inv DEF vars, ColdInv, ControlInv, Running, Busy, TypeOK
<1> QED
  BY <1>1, <1>2, <1>3, <1>4, <1>5, <1>6, <1>7, <1>8, <1>9, <1>10, <1>11, <1>12,
    <1>13, <1>14, <1>15, <1>16, <1>17, <1>18, <1>19, <1>20, <1>21, <1>22, <1>23, <1>24
    DEF Next, Startup, Cycle, Attempt, Faults

\* A message without a record stays noticed.
LEMMA UnrecordedKept == IInv /\ TruthInv /\ [Next]_vars => UnrecordedInv'
<1> SUFFICES ASSUME IInv, TruthInv, [Next]_vars PROVE UnrecordedInv'
  OBVIOUS
<1> USE DEF diskVars, windowVars, loopVars, procVars, envVars, ghostVars
<1>inv. TypeOK /\ ControlInv /\ TakenInv /\ UnrecordedInv /\ AttemptInv
  BY DEF IInv, TruthInv
<1>1. CASE Start
  BY <1>1, <1>inv DEF Start, UnrecordedInv, ControlInv, Running, Busy, TakenInv
<1>2. ASSUME NEW id \in Ids, Quarantine(id) PROVE UnrecordedInv'
  <2>1. /\ Only(id)
        /\ disk'[id].state = "ABSENT"
    BY <1>2, RemovalWrites
  <2>2. disk[id].state = "CORRUPT" /\ pc = "boot" /\ pc' = pc /\ inline' = inline
        /\ quarantined' = quarantined \cup {id}
        /\ UNCHANGED <<window, undone, accepts>>
    BY <1>2 DEF Quarantine
  <2> QED
    BY <2>1, <2>2, <1>inv, Documents DEF Only, UnrecordedInv, ControlInv, Running, Busy,
        TakenInv, OutboxState, LiveStates, TerminalStates, NoRecord, Present
<1>3. ASSUME NEW id \in Ids, RecoverInFlight(id) PROVE UnrecordedInv'
  <2>1. /\ Only(id)
        /\ disk'[id].state \in {"WAITING", "AMBIGUOUS"} /\ disk'[id].ambiguous = TRUE
    BY <1>3, RecoveryWrites
  <2>2. disk[id].state = "IN_FLIGHT" /\ pc = "boot" /\ pc' = pc /\ inline' = inline
        /\ UNCHANGED <<window, quarantined, undone, accepts>>
    BY <1>3 DEF RecoverInFlight
  <2> QED
    BY <2>1, <2>2, <1>inv, Documents DEF Only, UnrecordedInv, ControlInv, Running, Busy,
        TakenInv, OutboxState, LiveStates, TerminalStates, NoRecord, Present
<1>4. CASE Booted
  BY <1>4, <1>inv DEF Booted, UnrecordedInv, ControlInv, Running, Busy, TakenInv
<1>5. CASE EnsureMeta
  BY <1>5, <1>inv DEF EnsureMeta, UnrecordedInv, ControlInv, Running, Busy, TakenInv
<1>6. ASSUME NEW id \in Ids, Reconcile(id) PROVE UnrecordedInv'
  <2>1. /\ Only(id)
        /\ disk'[id].state = "QUEUED" /\ disk'[id].ambiguous = (id \in quarantined)
    BY <1>6, ReconcileWrites
  <2>2. id \in window /\ ~Present(disk[id]) /\ pc = "reconcile" /\ pc' = pc /\ inline' = inline
        /\ UNCHANGED <<window, quarantined, undone, accepts>>
    BY <1>6 DEF Reconcile, Missing
  <2> QED
    BY <2>1, <2>2, <1>inv, Documents DEF Only, UnrecordedInv, ControlInv, Running, Busy,
        TakenInv, OutboxState, LiveStates, TerminalStates, NoRecord, Present
<1>7. CASE Reconciled
  BY <1>7, <1>inv DEF Reconciled, Missing, UnrecordedInv, ControlInv, Running, Busy, TakenInv
<1>8. ASSUME NEW frames \in SUBSET Ids, Poll(frames) PROVE UnrecordedInv'
  BY <1>8, <1>inv DEF Poll, UnrecordedInv, ControlInv, Running, Busy, TakenInv
<1>9. CASE PollRaises
  BY <1>9, <1>inv DEF PollRaises, BeginDrain, UnrecordedInv, ControlInv, Running, Busy, TakenInv
<1>10. ASSUME NEW id \in Ids, Deliver(id) PROVE UnrecordedInv'
  <2>1. /\ Only(id)
        /\ (/\ disk[id].state = "IN_FLIGHT" =>
                  disk'[id].state \in {"WAITING", "AMBIGUOUS"} /\ disk'[id].ambiguous = TRUE
            /\ disk[id].state \in OutboxState \ {"IN_FLIGHT"} => disk'[id] = disk[id]
            /\ disk[id].state \in NoRecord =>
                  disk'[id].state = "QUEUED" /\ disk'[id].ambiguous = FALSE)
    BY <1>10, DeliverWrites
  <2>2. pc = "pick" /\ pc' # "call" /\ pc' # "down" /\ inline' \subseteq inline /\ id \in inline
        /\ UNCHANGED <<window, quarantined, undone, accepts>>
    BY <1>10 DEF Deliver
  <2> QED
    BY <2>1, <2>2, <1>inv, Documents DEF Only, UnrecordedInv, ControlInv, Running, Busy,
        TakenInv, OutboxState, LiveStates, TerminalStates, NoRecord, Present
<1>11. CASE InlineDone
  BY <1>11, <1>inv DEF InlineDone, BeginDrain, UnrecordedInv, ControlInv, Running, Busy, TakenInv
<1>12. ASSUME NEW id \in Ids, DrainRecover(id) PROVE UnrecordedInv'
  <2>1. /\ Only(id)
        /\ disk'[id].state \in {"WAITING", "AMBIGUOUS"} /\ disk'[id].ambiguous = TRUE
    BY <1>12, RecoveryWrites
  <2>2. disk[id].state = "IN_FLIGHT" /\ pc = "pick" /\ pc' = pc /\ inline' = inline
        /\ UNCHANGED <<window, quarantined, undone, accepts>>
    BY <1>12 DEF DrainRecover, Visits
  <2> QED
    BY <2>1, <2>2, <1>inv, Documents DEF Only, UnrecordedInv, ControlInv, Running, Busy,
        TakenInv, OutboxState, LiveStates, TerminalStates, NoRecord, Present
<1>13. ASSUME NEW id \in Ids, DrainVisit(id) PROVE UnrecordedInv'
  BY <1>13, <1>inv, VisitWrites, Documents DEF DrainVisit, Visits, Only, UnrecordedInv,
      ControlInv, Running, Busy, TakenInv, OutboxState, LiveStates, TerminalStates, NoRecord,
      Present
<1>14. CASE DrainDone
  BY <1>14, <1>inv DEF DrainDone, BackToIdle, Halted, UnrecordedInv, ControlInv, Running, Busy,
      TakenInv
<1>15. CASE BeginAttempt
  BY <1>15, <1>inv, AttemptWrites, Documents DEF BeginAttempt, LoopContinues, Only,
      UnrecordedInv, ControlInv, Running, Busy, TakenInv, OutboxState, LiveStates,
      TerminalStates, NoRecord, Present
<1>16. ASSUME NEW answer \in Answers, CallReturns(answer) PROVE UnrecordedInv'
  BY <1>16, <1>inv DEF CallReturns, UnrecordedInv, ControlInv, Running, Busy, TakenInv
<1>17. ASSUME NEW took \in {0, 1}, CallRaises(took) PROVE UnrecordedInv'
  BY <1>17, <1>inv DEF CallRaises, BeginDrain, BackToIdle, Halted, UnrecordedInv, ControlInv,
      Running, Busy, TakenInv
<1>18. CASE Settle
  <2>1. /\ Only(cur) /\ disk'[cur].state \notin NoRecord /\ inline' \subseteq inline
        /\ UNCHANGED <<window, quarantined, undone, accepts>>
    BY <1>18, <1>inv, SettleWrites DEF NoRecord, TerminalStates
  <2> QED
    BY <1>18, <1>inv, <2>1 DEF Settle, Only, UnrecordedInv, NoRecord
<1>19. ASSUME NEW id \in Ids, CandleOpens(id) PROVE UnrecordedInv'
  BY <1>19, <1>inv DEF CandleOpens, UnrecordedInv, ControlInv, Running, Busy, TakenInv
<1>20. ASSUME NEW id \in Ids, CooldownElapses(id) PROVE UnrecordedInv'
  BY <1>20, <1>inv DEF CooldownElapses, UnrecordedInv, ControlInv, Running, Busy, TakenInv
<1>21. CASE Crash
  BY <1>21, <1>inv DEF Crash, Halted, UnrecordedInv, ControlInv, Running, Busy, TakenInv
<1>22. ASSUME NEW id \in Ids, CorruptRecord(id) PROVE UnrecordedInv'
  <2>1. /\ Only(id)
        /\ disk'[id].state = "CORRUPT"
    BY <1>22, RemovalWrites
  <2>2. Present(disk[id]) /\ pc = "down" /\ pc' = pc /\ inline' = inline
        /\ UNCHANGED <<window, quarantined, undone, accepts>>
    BY <1>22 DEF CorruptRecord
  <2> QED
    BY <2>1, <2>2, <1>inv, Documents DEF Only, UnrecordedInv, ControlInv, Running, Busy,
        TakenInv, OutboxState, LiveStates, TerminalStates, NoRecord, Present
<1>23. CASE CorruptMarker
  BY <1>23, <1>inv DEF CorruptMarker, UnrecordedInv, ControlInv, Running, Busy, TakenInv
<1>24. CASE UNCHANGED vars
  BY <1>24, <1>inv DEF vars, UnrecordedInv, ControlInv, Running, Busy, TakenInv
<1> QED
  BY <1>1, <1>2, <1>3, <1>4, <1>5, <1>6, <1>7, <1>8, <1>9, <1>10, <1>11, <1>12,
    <1>13, <1>14, <1>15, <1>16, <1>17, <1>18, <1>19, <1>20, <1>21, <1>22, <1>23, <1>24
    DEF Next, Startup, Cycle, Attempt, Faults

\* What was taken before the attempt at hand stays marked.
LEMMA AttemptKept == IInv /\ TruthInv /\ [Next]_vars => AttemptInv'
<1> SUFFICES ASSUME IInv, TruthInv, [Next]_vars PROVE AttemptInv'
  OBVIOUS
<1> USE DEF diskVars, windowVars, loopVars, procVars, envVars, ghostVars
<1>inv. TypeOK /\ ControlInv /\ TakenInv /\ AttemptInv
        /\ \A i \in Ids : disk[i] \in Document
  BY DEF IInv, TruthInv, RecordOK
<1>1. CASE Start
  BY <1>1, <1>inv DEF Start, AttemptInv, ControlInv, Clean, Running, Busy, TypeOK, TakenInv
<1>2. ASSUME NEW id \in Ids, Quarantine(id) PROVE AttemptInv'
  BY <1>2, <1>inv, RemovalWrites, Documents DEF Quarantine, Only, AttemptInv, ControlInv, Clean,
      Running, Busy, TypeOK, TakenInv, OutboxState, LiveStates, TerminalStates, NoRecord, Present
<1>3. ASSUME NEW id \in Ids, RecoverInFlight(id) PROVE AttemptInv'
  BY <1>3, <1>inv, RecoveryWrites, Documents DEF RecoverInFlight, Only, AttemptInv, ControlInv,
      Clean, Running, Busy, TypeOK, TakenInv, OutboxState, LiveStates, TerminalStates, NoRecord,
      Present
<1>4. CASE Booted
  BY <1>4, <1>inv DEF Booted, AttemptInv, ControlInv, Clean, Running, Busy, TypeOK, TakenInv
<1>5. CASE EnsureMeta
  BY <1>5, <1>inv DEF EnsureMeta, AttemptInv, ControlInv, Clean, Running, Busy, TypeOK, TakenInv
<1>6. ASSUME NEW id \in Ids, Reconcile(id) PROVE AttemptInv'
  BY <1>6, <1>inv, ReconcileWrites, Documents DEF Reconcile, Missing, Only, AttemptInv,
      ControlInv, Clean, Running, Busy, TypeOK, TakenInv, OutboxState, LiveStates,
      TerminalStates, NoRecord, Present
<1>7. CASE Reconciled
  BY <1>7, <1>inv DEF Reconciled, Missing, AttemptInv, ControlInv, Clean, Running, Busy, TypeOK,
      TakenInv
<1>8. ASSUME NEW frames \in SUBSET Ids, Poll(frames) PROVE AttemptInv'
  BY <1>8, <1>inv DEF Poll, AttemptInv, ControlInv, Clean, Running, Busy, TypeOK, TakenInv
<1>9. CASE PollRaises
  BY <1>9, <1>inv DEF PollRaises, BeginDrain, AttemptInv, ControlInv, Clean, Running, Busy,
      TypeOK, TakenInv
<1>10. ASSUME NEW id \in Ids, Deliver(id) PROVE AttemptInv'
  BY <1>10, <1>inv, DeliverWrites, Documents DEF Deliver, Only, AttemptInv, ControlInv, Clean,
      Running, Busy, TypeOK, TakenInv, OutboxState, LiveStates, TerminalStates, NoRecord, Present
<1>11. CASE InlineDone
  BY <1>11, <1>inv DEF InlineDone, BeginDrain, AttemptInv, ControlInv, Clean, Running, Busy,
      TypeOK, TakenInv
<1>12. ASSUME NEW id \in Ids, DrainRecover(id) PROVE AttemptInv'
  BY <1>12, <1>inv, RecoveryWrites, Documents DEF DrainRecover, Visits, Only, AttemptInv,
      ControlInv, Clean, Running, Busy, TypeOK, TakenInv, OutboxState, LiveStates,
      TerminalStates, NoRecord, Present
<1>13. ASSUME NEW id \in Ids, DrainVisit(id) PROVE AttemptInv'
  BY <1>13, <1>inv, VisitWrites, Documents DEF DrainVisit, Visits, Only, AttemptInv, ControlInv,
      Clean, Running, Busy, TypeOK, TakenInv, OutboxState, LiveStates, TerminalStates, NoRecord,
      Present
<1>14. CASE DrainDone
  BY <1>14, <1>inv DEF DrainDone, BackToIdle, Halted, AttemptInv, ControlInv, Clean, Running,
      Busy, TypeOK, TakenInv
<1>15. CASE BeginAttempt
  BY <1>15, <1>inv, AttemptWrites, Documents DEF BeginAttempt, LoopContinues, Only, AttemptInv,
      ControlInv, Clean, Running, Busy, TypeOK, TakenInv, OutboxState, LiveStates,
      TerminalStates, NoRecord, Present
<1>16. ASSUME NEW answer \in Answers, CallReturns(answer) PROVE AttemptInv'
  <2>1. PICK took \in {0, 1} : answer[2] = took
    BY DEF Answers
  <2>2. /\ cur \in Ids /\ accepts'[cur] = accepts[cur] + took
        /\ UNCHANGED <<disk, quarantined, undone>>
    BY <1>16, <2>1, CallAdds
  <2>3. pc = "call" /\ pc' = "settle" /\ receipt' = answer[1] /\ cur' = cur
    BY <1>16 DEF CallReturns
  <2>4. /\ answer[1] \in {"DELIVERED", "UNKNOWN", "RETRYABLE", "REFUSED"}
        /\ took = 1 => answer[1] \in {"DELIVERED", "UNKNOWN"}
        /\ answer[1] = "DELIVERED" => took = 1
    BY <2>1 DEF Answers
  <2>5. accepts[cur] \in Nat
    BY <2>2, Documents
  <2> QED
    BY <1>inv, <2>1, <2>2, <2>3, <2>4, <2>5 DEF AttemptInv, Clean
<1>17. ASSUME NEW took \in {0, 1}, CallRaises(took) PROVE AttemptInv'
  BY <1>17, <1>inv DEF CallRaises, BeginDrain, BackToIdle, Halted, AttemptInv, ControlInv, Clean,
      Running, Busy, TypeOK, TakenInv
<1>18. CASE Settle
  BY <1>18, <1>inv DEF Settle, LoopContinues, AttemptInv, ControlInv, Clean, Running, Busy,
      TypeOK, TakenInv
<1>19. ASSUME NEW id \in Ids, CandleOpens(id) PROVE AttemptInv'
  BY <1>19, <1>inv DEF CandleOpens, AttemptInv, ControlInv, Clean, Running, Busy, TypeOK, TakenInv
<1>20. ASSUME NEW id \in Ids, CooldownElapses(id) PROVE AttemptInv'
  BY <1>20, <1>inv DEF CooldownElapses, AttemptInv, ControlInv, Clean, Running, Busy, TypeOK,
      TakenInv
<1>21. CASE Crash
  BY <1>21, <1>inv DEF Crash, Halted, AttemptInv, ControlInv, Clean, Running, Busy, TypeOK,
      TakenInv
<1>22. ASSUME NEW id \in Ids, CorruptRecord(id) PROVE AttemptInv'
  BY <1>22, <1>inv, RemovalWrites, Documents DEF CorruptRecord, Only, AttemptInv, ControlInv,
      Clean, Running, Busy, TypeOK, TakenInv, OutboxState, LiveStates, TerminalStates, NoRecord,
      Present
<1>23. CASE CorruptMarker
  BY <1>23, <1>inv DEF CorruptMarker, AttemptInv, ControlInv, Clean, Running, Busy, TypeOK,
      TakenInv
<1>24. CASE UNCHANGED vars
  BY <1>24, <1>inv DEF vars, AttemptInv, ControlInv, Clean, Running, Busy, TypeOK, TakenInv
<1> QED
  BY <1>1, <1>2, <1>3, <1>4, <1>5, <1>6, <1>7, <1>8, <1>9, <1>10, <1>11, <1>12,
    <1>13, <1>14, <1>15, <1>16, <1>17, <1>18, <1>19, <1>20, <1>21, <1>22, <1>23, <1>24
    DEF Next, Startup, Cycle, Attempt, Faults

\* The records keep telling what was taken.
LEMMA TakenKept == IInv /\ TruthInv /\ [Next]_vars => TakenInv'
<1> SUFFICES ASSUME IInv, TruthInv, [Next]_vars PROVE TakenInv'
  OBVIOUS
<1> USE DEF diskVars, windowVars, loopVars, procVars, envVars, ghostVars
<1>inv. TypeOK /\ ControlInv /\ TakenInv /\ AttemptInv /\ UnrecordedInv
        /\ \A i \in Ids : disk[i] \in Document
  BY DEF IInv, TruthInv, RecordOK
<1>1. CASE Start
  BY <1>1, <1>inv DEF Start, TakenInv, AttemptInv, UnrecordedInv, ControlInv, Clean, Running,
      Busy, TypeOK
<1>2. ASSUME NEW id \in Ids, Quarantine(id) PROVE TakenInv'
  <2>1. /\ Only(id)
        /\ disk'[id].state = "ABSENT"
    BY <1>2, RemovalWrites
  <2>2. disk[id].state = "CORRUPT" /\ pc = "boot" /\ pc' = pc /\ inline' = inline
        /\ quarantined' = quarantined \cup {id}
        /\ UNCHANGED <<window, undone, accepts>>
    BY <1>2 DEF Quarantine
  <2> QED
    BY <2>1, <2>2, <1>inv, Documents DEF Only, TakenInv, AttemptInv, UnrecordedInv, ControlInv,
        Clean, Running, Busy, TypeOK, OutboxState, LiveStates, TerminalStates, NoRecord, Present
<1>3. ASSUME NEW id \in Ids, RecoverInFlight(id) PROVE TakenInv'
  <2>1. /\ Only(id)
        /\ disk'[id].state \in {"WAITING", "AMBIGUOUS"} /\ disk'[id].ambiguous = TRUE
    BY <1>3, RecoveryWrites
  <2>2. disk[id].state = "IN_FLIGHT" /\ pc = "boot" /\ pc' = pc /\ inline' = inline
        /\ UNCHANGED <<window, quarantined, undone, accepts>>
    BY <1>3 DEF RecoverInFlight
  <2> QED
    BY <2>1, <2>2, <1>inv, Documents DEF Only, TakenInv, AttemptInv, UnrecordedInv, ControlInv,
        Clean, Running, Busy, TypeOK, OutboxState, LiveStates, TerminalStates, NoRecord, Present
<1>4. CASE Booted
  BY <1>4, <1>inv DEF Booted, TakenInv, AttemptInv, UnrecordedInv, ControlInv, Clean, Running,
      Busy, TypeOK
<1>5. CASE EnsureMeta
  BY <1>5, <1>inv DEF EnsureMeta, TakenInv, AttemptInv, UnrecordedInv, ControlInv, Clean,
      Running, Busy, TypeOK
<1>6. ASSUME NEW id \in Ids, Reconcile(id) PROVE TakenInv'
  <2>1. /\ Only(id)
        /\ disk'[id].state = "QUEUED" /\ disk'[id].ambiguous = (id \in quarantined)
    BY <1>6, ReconcileWrites
  <2>2. id \in window /\ ~Present(disk[id]) /\ pc = "reconcile"
        /\ UNCHANGED <<window, quarantined, undone, accepts>>
    BY <1>6 DEF Reconcile, Missing
  <2>3. disk[id].state = "ABSENT"
    BY <2>2, <1>inv, Documents DEF UnrecordedInv, Present, NoRecord
  <2>4. accepts[id] > 0 => disk'[id].ambiguous
    BY <2>1, <2>3, <1>inv, Documents DEF UnrecordedInv
  <2> QED
    BY <2>1, <2>2, <2>4, <1>inv DEF Only, TakenInv, Clean, TerminalStates
<1>7. CASE Reconciled
  BY <1>7, <1>inv DEF Reconciled, Missing, TakenInv, AttemptInv, UnrecordedInv, ControlInv,
      Clean, Running, Busy, TypeOK
<1>8. ASSUME NEW frames \in SUBSET Ids, Poll(frames) PROVE TakenInv'
  BY <1>8, <1>inv DEF Poll, TakenInv, AttemptInv, UnrecordedInv, ControlInv, Clean, Running,
      Busy, TypeOK
<1>9. CASE PollRaises
  BY <1>9, <1>inv DEF PollRaises, BeginDrain, TakenInv, AttemptInv, UnrecordedInv, ControlInv,
      Clean, Running, Busy, TypeOK
<1>10. ASSUME NEW id \in Ids, Deliver(id) PROVE TakenInv'
  <2>1. /\ Only(id)
        /\ (/\ disk[id].state = "IN_FLIGHT" =>
                  disk'[id].state \in {"WAITING", "AMBIGUOUS"} /\ disk'[id].ambiguous = TRUE
            /\ disk[id].state \in OutboxState \ {"IN_FLIGHT"} => disk'[id] = disk[id]
            /\ disk[id].state \in NoRecord =>
                  disk'[id].state = "QUEUED" /\ disk'[id].ambiguous = FALSE)
    BY <1>10, DeliverWrites
  <2>2. pc = "pick" /\ pc' # "call" /\ pc' # "down" /\ inline' \subseteq inline /\ id \in inline
        /\ UNCHANGED <<window, quarantined, undone, accepts>>
    BY <1>10 DEF Deliver
  <2> QED
    BY <2>1, <2>2, <1>inv, Documents DEF Only, TakenInv, AttemptInv, UnrecordedInv, ControlInv,
        Clean, Running, Busy, TypeOK, OutboxState, LiveStates, TerminalStates, NoRecord, Present
<1>11. CASE InlineDone
  BY <1>11, <1>inv DEF InlineDone, BeginDrain, TakenInv, AttemptInv, UnrecordedInv, ControlInv,
      Clean, Running, Busy, TypeOK
<1>12. ASSUME NEW id \in Ids, DrainRecover(id) PROVE TakenInv'
  <2>1. /\ Only(id)
        /\ disk'[id].state \in {"WAITING", "AMBIGUOUS"} /\ disk'[id].ambiguous = TRUE
    BY <1>12, RecoveryWrites
  <2>2. disk[id].state = "IN_FLIGHT" /\ pc = "pick" /\ pc' = pc /\ inline' = inline
        /\ UNCHANGED <<window, quarantined, undone, accepts>>
    BY <1>12 DEF DrainRecover, Visits
  <2> QED
    BY <2>1, <2>2, <1>inv, Documents DEF Only, TakenInv, AttemptInv, UnrecordedInv, ControlInv,
        Clean, Running, Busy, TypeOK, OutboxState, LiveStates, TerminalStates, NoRecord, Present
<1>13. ASSUME NEW id \in Ids, DrainVisit(id) PROVE TakenInv'
  BY <1>13, <1>inv, VisitWrites, Documents DEF DrainVisit, Visits, Only, TakenInv, AttemptInv,
      UnrecordedInv, ControlInv, Clean, Running, Busy, TypeOK, OutboxState, LiveStates,
      TerminalStates, NoRecord, Present
<1>14. CASE DrainDone
  BY <1>14, <1>inv DEF DrainDone, BackToIdle, Halted, TakenInv, AttemptInv, UnrecordedInv,
      ControlInv, Clean, Running, Busy, TypeOK
<1>15. CASE BeginAttempt
  BY <1>15, <1>inv, AttemptWrites, Documents DEF BeginAttempt, LoopContinues, Only, TakenInv,
      AttemptInv, UnrecordedInv, ControlInv, Clean, Running, Busy, TypeOK, OutboxState,
      LiveStates, TerminalStates, NoRecord, Present
<1>16. ASSUME NEW answer \in Answers, CallReturns(answer) PROVE TakenInv'
  <2>1. PICK took \in {0, 1} : answer[2] = took
    BY DEF Answers
  <2>2. /\ cur \in Ids /\ disk[cur].state = "IN_FLIGHT"
        /\ \A other \in Ids \ {cur} : accepts'[other] = accepts[other]
        /\ UNCHANGED <<disk, window, quarantined, undone>>
    BY <1>16, <2>1, CallAdds
  <2> QED
    BY <1>inv, <2>2 DEF TakenInv, Clean, Present, OutboxState, LiveStates, TerminalStates
<1>17. ASSUME NEW took \in {0, 1}, CallRaises(took) PROVE TakenInv'
  <2>1. /\ cur \in Ids /\ disk[cur].state = "IN_FLIGHT"
        /\ \A other \in Ids \ {cur} : accepts'[other] = accepts[other]
        /\ UNCHANGED <<disk, window, quarantined, undone>>
    BY <1>17, CallAdds
  <2> QED
    BY <1>inv, <2>1 DEF TakenInv, Clean, Present, OutboxState, LiveStates, TerminalStates
<1>18. CASE Settle
  <2>1. /\ Only(cur) /\ cur \in Ids /\ pc = "settle" /\ disk[cur].state = "IN_FLIGHT"
        /\ disk'[cur].state = "DELIVERED" <=> receipt = "DELIVERED"
        /\ disk'[cur].state \in {"DELIVERED", "WAITING"} \cup TerminalStates
        /\ receipt = "DELIVERED" => disk'[cur].duplicated = disk[cur].ambiguous
        /\ disk[cur].ambiguous => disk'[cur].ambiguous
        /\ receipt = "UNKNOWN" => disk'[cur].ambiguous \/ disk'[cur].duplicated
        /\ receipt = "UNKNOWN" /\ disk'[cur].state = "WAITING" => disk'[cur].ambiguous
        /\ UNCHANGED <<window, quarantined, undone, accepts>>
    BY <1>18, <1>inv, SettleWrites DEF Settle
  <2>2. cur \in window \cup undone
    BY <2>1, <1>inv DEF TakenInv, Present, OutboxState, LiveStates
  <2>3. /\ receipt = "DELIVERED" => accepts[cur] > 0
        /\ Clean(cur) /\ receipt # "UNKNOWN" /\ receipt # "DELIVERED" /\ accepts[cur] > 0
              => disk[cur].ambiguous
        /\ Clean(cur) /\ receipt = "DELIVERED" /\ accepts[cur] > 1 => disk[cur].ambiguous
    BY <2>1, <1>inv DEF AttemptInv
  <2> QED
    BY <2>1, <2>2, <2>3, <1>inv DEF Only, TakenInv, Clean, TerminalStates
<1>19. ASSUME NEW id \in Ids, CandleOpens(id) PROVE TakenInv'
  BY <1>19, <1>inv DEF CandleOpens, TakenInv, AttemptInv, UnrecordedInv, ControlInv, Clean,
      Running, Busy, TypeOK
<1>20. ASSUME NEW id \in Ids, CooldownElapses(id) PROVE TakenInv'
  BY <1>20, <1>inv DEF CooldownElapses, TakenInv, AttemptInv, UnrecordedInv, ControlInv, Clean,
      Running, Busy, TypeOK
<1>21. CASE Crash
  BY <1>21, <1>inv DEF Crash, Halted, TakenInv, AttemptInv, UnrecordedInv, ControlInv, Clean,
      Running, Busy, TypeOK
<1>22. ASSUME NEW id \in Ids, CorruptRecord(id) PROVE TakenInv'
  <2>1. /\ Only(id)
        /\ disk'[id].state = "CORRUPT"
    BY <1>22, RemovalWrites
  <2>2. Present(disk[id]) /\ pc = "down" /\ pc' = pc /\ inline' = inline
        /\ UNCHANGED <<window, quarantined, undone, accepts>>
    BY <1>22 DEF CorruptRecord
  <2> QED
    BY <2>1, <2>2, <1>inv, Documents DEF Only, TakenInv, AttemptInv, UnrecordedInv, ControlInv,
        Clean, Running, Busy, TypeOK, OutboxState, LiveStates, TerminalStates, NoRecord, Present
<1>23. CASE CorruptMarker
  BY <1>23, <1>inv DEF CorruptMarker, TakenInv, AttemptInv, UnrecordedInv, ControlInv, Clean,
      Running, Busy, TypeOK
<1>24. CASE UNCHANGED vars
  BY <1>24, <1>inv DEF vars, TakenInv, AttemptInv, UnrecordedInv, ControlInv, Clean, Running,
      Busy, TypeOK
<1> QED
  BY <1>1, <1>2, <1>3, <1>4, <1>5, <1>6, <1>7, <1>8, <1>9, <1>10, <1>11, <1>12,
    <1>13, <1>14, <1>15, <1>16, <1>17, <1>18, <1>19, <1>20, <1>21, <1>22, <1>23, <1>24
    DEF Next, Startup, Cycle, Attempt, Faults

-----------------------------------------------------------------------------
(* What follows for every execution. *)

\* Nothing is on disk and nothing was taken at the start.
LEMMA InitTruth == Init => TruthInv
<1> SUFFICES ASSUME Init PROVE TruthInv
  OBVIOUS
<1>1. \A id \in Ids : disk[id].state = "ABSENT" /\ accepts[id] = 0
  BY DEF Init, Absent, Blank
<1> QED
  BY <1>1 DEF Init, TruthInv, TakenInv, AttemptInv, UnrecordedInv, ColdInv, Present, OutboxState,
              LiveStates, TerminalStates

\* What the records say stays true in every step.
LEMMA TruthIsKept == Spec => []TruthInv
<1>1. IInv /\ TruthInv /\ [Next]_vars => TruthInv'
  BY ColdKept, UnrecordedKept, AttemptKept, TakenKept DEF TruthInv
<1> QED
  BY <1>1, InitTruth, Inductive, PTL DEF Spec

\* A DELIVERED record was confirmed, and one that is not, or was taken twice,
\* says so: for every number of crashes, power losses and damaged files.
THEOREM RecordsTellTheTruth == Spec => []RecordTellsTheTruth
<1>1. IInv /\ TruthInv => SuccessIsConfirmed
  BY Documents DEF TruthInv, TakenInv, SuccessIsConfirmed
<1>2. IInv /\ TruthInv => DuplicateRiskIsVisible
  BY Documents DEF TruthInv, TakenInv, Clean, DuplicateRiskIsVisible, OutboxState, LiveStates,
                   TerminalStates
<1> QED
  BY <1>1, <1>2, Inductive, TruthIsKept, PTL DEF RecordTellsTheTruth

\* No drain attempts a record within its cooldown, for every number of records
\* and every cap of a pass.
THEOREM DrainsKeepTheCooldown == Spec => DrainRespectsCooldown
<1>1. TruthInv => (pc = "begin" /\ pc' = "call" /\ mode = "drain" => cur \notin cooling)
  BY DEF TruthInv, ColdInv
<1> QED
  BY <1>1, TruthIsKept, PTL DEF DrainRespectsCooldown

-----------------------------------------------------------------------------
(* Undamaged, the outbox implements DeliveryPromise.                       *)

\* What one step may do to one record, as the promise sees it.
OwedStep(r, q)    == r.state = "ABSENT" /\ q.state = "QUEUED" /\ q.used = r.used
TriedStep(r, q)   == /\ r.state \in LiveStates /\ q.state \in LiveStates
                     /\ r.used < MaxAttempts /\ q.used = r.used + 1
ClosedStep(r, q)  == /\ r.state \in LiveStates /\ q.state \in TerminalStates
                     /\ q.used = r.used /\ r.used > 0
                     /\ q.state \in {"EXHAUSTED", "AMBIGUOUS"} => r.used = MaxAttempts
UnseenStep(r, q)  == \/ q = r
                     \/ r.state \in LiveStates /\ q.state \in LiveStates /\ q.used = r.used

PromiseStep(r, q) == OwedStep(r, q) \/ TriedStep(r, q) \/ ClosedStep(r, q) \/ UnseenStep(r, q)

\* A step that changes one record in one of these ways is a step of the promise.
LEMMA RecordStepMaps ==
    ASSUME disk \in [Ids -> Document], NEW id \in Ids, NEW q,
           disk' = [disk EXCEPT ![id] = q],
           PromiseStep(disk[id], q)
    PROVE  [Promise!Next]_(Promise!promise)
  <1> DEFINE status == [i \in Ids |-> PromiseOf(disk[i])]
             tries  == [i \in Ids |-> disk[i].used]
  <1>1. /\ status' = [status EXCEPT ![id] = PromiseOf(q)]
        /\ tries' = [tries EXCEPT ![id] = q.used]
        /\ status[id] = PromiseOf(disk[id]) /\ tries[id] = disk[id].used
    OBVIOUS
  <1>2. status = [status EXCEPT ![id] = status[id]] /\ tries = [tries EXCEPT ![id] = tries[id]]
    OBVIOUS
  <1>3. CASE OwedStep(disk[id], q)
    <2>1. PromiseOf(disk[id]) = "none" /\ PromiseOf(q) = "owed" /\ q.used = disk[id].used
      BY <1>3 DEF OwedStep, PromiseOf, NoRecord, LiveStates
    <2>2. Promise!Owe(id)
      BY <1>1, <1>2, <2>1 DEF Promise!Owe
    <2> QED
      BY <2>2 DEF Promise!Next
  <1>4. CASE TriedStep(disk[id], q)
    <2>1. /\ PromiseOf(disk[id]) = "owed" /\ PromiseOf(q) = "owed"
          /\ disk[id].used < MaxAttempts /\ q.used = disk[id].used + 1
      BY <1>4 DEF TriedStep, PromiseOf, NoRecord, LiveStates
    <2>2. Promise!Try(id)
      BY <1>1, <1>2, <2>1 DEF Promise!Try
    <2> QED
      BY <2>2 DEF Promise!Next, Promise!Progress
  <1>5. CASE ClosedStep(disk[id], q)
    <2>1. /\ PromiseOf(disk[id]) = "owed" /\ PromiseOf(q) \in {"delivered", "failed", "unresolved"}
          /\ PromiseOf(q) = "unresolved" => disk[id].used = MaxAttempts
          /\ disk[id].used > 0 /\ q.used = disk[id].used
      BY <1>5 DEF ClosedStep, PromiseOf, NoRecord, LiveStates, TerminalStates
    <2>2. Promise!Close(id, PromiseOf(q))
      BY <1>1, <1>2, <2>1 DEF Promise!Close
    <2> QED
      BY <2>1, <2>2 DEF Promise!Next, Promise!Progress, Promise!Closed
  <1>6. CASE UnseenStep(disk[id], q)
    <2>1. PromiseOf(q) = PromiseOf(disk[id]) /\ q.used = disk[id].used
      BY <1>6 DEF UnseenStep, PromiseOf, NoRecord, LiveStates
    <2> QED
      BY <1>1, <1>2, <2>1 DEF Promise!promise
  <1> QED
    BY <1>3, <1>4, <1>5, <1>6 DEF PromiseStep

\* Recovering an attempt in flight is a step of the promise.
LEMMA RecoveredStep ==
    ASSUME NEW r, RecordOK(r), r.state = "IN_FLIGHT"
    PROVE  PromiseStep(r, Recovered(r))
  <1>1. /\ Recovered(r).state = IF BudgetRemaining(r) THEN "WAITING" ELSE "AMBIGUOUS"
        /\ Recovered(r).used = r.used
    BY DEF Recovered, RecordOK, Document
  <1>2. r.used \in 1 .. MaxAttempts
    BY MaxAttemptsAssumption DEF RecordOK, Document
  <1> QED
    BY <1>1, <1>2, MaxAttemptsAssumption
       DEF PromiseStep, ClosedStep, UnseenStep, BudgetRemaining, LiveStates, TerminalStates

\* So is settling one.
LEMMA SettledStep ==
    ASSUME NEW r, RecordOK(r), r.state = "IN_FLIGHT", NEW a \in Receipt
    PROVE  PromiseStep(r, Settled(r, a))
  <1>1. Settled(r, a).state = StateAfter(r, a) /\ Settled(r, a).used = r.used
    BY SettledOK
  <1>2. /\ StateAfter(r, a) \in TerminalStates \cup {"WAITING"}
        /\ StateAfter(r, a) \in {"EXHAUSTED", "AMBIGUOUS"} => ~BudgetRemaining(r)
    BY DEF StateAfter, ReceiptAllowsRetry, Receipt, TerminalStates
  <1>3. r.used \in 1 .. MaxAttempts
    BY MaxAttemptsAssumption DEF RecordOK, Document
  <1> QED
    BY <1>1, <1>2, <1>3, MaxAttemptsAssumption
       DEF PromiseStep, ClosedStep, UnseenStep, BudgetRemaining, LiveStates, TerminalStates

\* With no fault left to damage a file, none is damaged.
Undamaged == \A id \in Ids : disk[id].state # "CORRUPT"

\* Without damage every step of the outbox is a step of the promise, or none.
LEMMA UndamagedStep ==
    ASSUME MaxCorruptions = 0, IInv, Undamaged, [Next]_vars
    PROVE  [Promise!Next]_(Promise!promise)
  <1> USE DEF IInv
  <1>1. disk \in [Ids -> Document]
    BY DEF TypeOK
  <1>2. corruptions = 0
    BY DEF TypeOK
  <1>3. ASSUME UNCHANGED disk PROVE UNCHANGED Promise!promise
    BY <1>3 DEF Promise!promise
  <1>4. ASSUME NEW id \in Ids, RecoverInFlight(id) \/ Reconcile(id) \/ DrainRecover(id)
        PROVE  [Promise!Next]_(Promise!promise)
    <2>1. CASE RecoverInFlight(id) \/ DrainRecover(id)
      <3>1. disk[id].state = "IN_FLIGHT" /\ disk' = [disk EXCEPT ![id] = Recovered(disk[id])]
        BY <2>1 DEF RecoverInFlight, DrainRecover
      <3> QED
        BY <1>1, <3>1, RecoveredStep, RecordStepMaps
    <2>2. CASE Reconcile(id)
      <3>1. /\ ~Present(disk[id])
            /\ disk' = [disk EXCEPT ![id] = NewQueuedRecord(id \in quarantined)]
        BY <2>2 DEF Reconcile, Missing
      <3>2. disk[id].state = "ABSENT" /\ disk[id].used = 0
        BY <1>1, <3>1 DEF Undamaged, Present, Document, RecordOK, NoRecord
      <3>3. /\ NewQueuedRecord(id \in quarantined).state = "QUEUED"
            /\ NewQueuedRecord(id \in quarantined).used = 0
        BY DEF NewQueuedRecord, Blank
      <3> QED
        BY <1>1, <3>1, <3>2, <3>3, RecordStepMaps DEF PromiseStep, OwedStep
    <2> QED
      BY <1>4, <2>1, <2>2
  <1>5. ASSUME NEW id \in Ids, Deliver(id) PROVE [Promise!Next]_(Promise!promise)
    <2>1. CASE disk[id].state = "IN_FLIGHT"
      <3>1. disk' = [disk EXCEPT ![id] = Recovered(disk[id])]
        BY <1>5, <2>1 DEF Deliver
      <3> QED
        BY <1>1, <2>1, <3>1, RecoveredStep, RecordStepMaps
    <2>2. CASE disk[id].state # "IN_FLIGHT" /\ Present(disk[id])
      <3>1. disk' = [disk EXCEPT ![id] = disk[id]]
        BY <1>5, <2>2 DEF Deliver
      <3> QED
        BY <1>1, <3>1, RecordStepMaps DEF PromiseStep, UnseenStep
    <2>3. CASE ~Present(disk[id])
      <3>1. disk' = [disk EXCEPT ![id] = NewQueuedRecord(FALSE)]
        BY <1>5, <2>3 DEF Deliver, Present, OutboxState, LiveStates
      <3>2. disk[id].state = "ABSENT" /\ disk[id].used = 0
        BY <1>1, <2>3 DEF Undamaged, Present, Document, RecordOK, NoRecord
      <3>3. NewQueuedRecord(FALSE).state = "QUEUED" /\ NewQueuedRecord(FALSE).used = 0
        BY DEF NewQueuedRecord, Blank
      <3> QED
        BY <1>1, <3>1, <3>2, <3>3, RecordStepMaps DEF PromiseStep, OwedStep
    <2> QED
      BY <2>1, <2>2, <2>3
  <1>6. ASSUME NEW id \in Ids, DrainVisit(id) PROVE UNCHANGED disk
    <2>1. BudgetRemaining(disk[id])
      BY <1>6, LiveHasBudget DEF DrainVisit, Visits, ControlInv, LiveStates
    <2> QED
      BY <1>6, <2>1 DEF DrainVisit
  <1>7. ASSUME BeginAttempt PROVE [Promise!Next]_(Promise!promise)
    <2>1. cur \in Ids /\ disk[cur].state \in {"QUEUED", "WAITING"} /\ BudgetRemaining(disk[cur])
      BY <1>7, LiveHasBudget DEF BeginAttempt, ControlInv, Busy
    <2>2. disk' = [disk EXCEPT ![cur] = InFlight(disk[cur])]
      BY <1>7, <2>1 DEF BeginAttempt
    <2>3. TriedStep(disk[cur], InFlight(disk[cur]))
      BY <2>1, InFlightOK DEF TriedStep, LiveStates, BudgetRemaining
    <2> QED
      BY <1>1, <2>1, <2>2, <2>3, RecordStepMaps DEF PromiseStep
  <1>8. ASSUME Settle PROVE [Promise!Next]_(Promise!promise)
    <2>1. cur \in Ids /\ disk[cur].state = "IN_FLIGHT" /\ receipt \in Receipt
      BY <1>8 DEF Settle, ControlInv, Busy
    <2>2. disk' = [disk EXCEPT ![cur] = Settled(disk[cur], receipt)]
      BY <1>8 DEF Settle
    <2> QED
      BY <1>1, <2>1, <2>2, SettledStep, RecordStepMaps
  <1>9. ASSUME NEW id \in Ids PROVE ~Quarantine(id) /\ ~CorruptRecord(id)
    BY <1>2 DEF Quarantine, Undamaged, CorruptRecord
  <1> QED
    BY <1>3, <1>4, <1>5, <1>6, <1>7, <1>8, <1>9
       DEF Next, Startup, Cycle, Attempt, Faults, Start, Booted, EnsureMeta, Reconciled,
           PollRaises, InlineDone, DrainDone, Poll, CallReturns, CallRaises, Crash,
           CorruptMarker, CandleOpens, CooldownElapses, diskVars, vars

\* Without damage no record becomes corrupt.
LEMMA UndamagedInductive ==
    ASSUME MaxCorruptions = 0, IInv, Undamaged, [Next]_vars
    PROVE  Undamaged'
  <1> USE DEF IInv, Undamaged
  <1>1. corruptions = 0 /\ disk \in [Ids -> Document]
    BY DEF TypeOK
  <1>2. ASSUME NEW id \in Ids, RecoverInFlight(id) \/ Reconcile(id) \/ DrainRecover(id)
                               \/ Deliver(id) \/ DrainVisit(id)
        PROVE  disk'[id].state # "CORRUPT" /\ \A i \in Ids \ {id} : disk'[i] = disk[i]
    <2>1. Recovered(disk[id]).state # "CORRUPT" \/ disk[id].state # "IN_FLIGHT"
      BY RecoveredOK
    <2>2. \A b \in BOOLEAN : NewQueuedRecord(b).state # "CORRUPT"
      BY NewQueuedOK
    <2>3. (id \in quarantined) \in BOOLEAN
      OBVIOUS
    <2>4. CASE DrainVisit(id)
      <3>1. BudgetRemaining(disk[id])
        BY <2>4, LiveHasBudget DEF DrainVisit, Visits, ControlInv, LiveStates
      <3> QED
        BY <2>4, <3>1 DEF DrainVisit
    <2> QED
      BY <1>1, <1>2, <2>1, <2>2, <2>3, <2>4 DEF RecoverInFlight, Reconcile, DrainRecover, Deliver
  <1>3. ASSUME BeginAttempt \/ Settle
        PROVE  disk'[cur].state # "CORRUPT" /\ \A i \in Ids \ {cur} : disk'[i] = disk[i]
    <2>1. cur \in Ids
      BY <1>3 DEF BeginAttempt, Settle, ControlInv, Busy
    <2>2. CASE BeginAttempt
      <3>1. disk[cur].state \in {"QUEUED", "WAITING"} /\ BudgetRemaining(disk[cur])
        BY <2>1, <2>2, LiveHasBudget DEF BeginAttempt, ControlInv
      <3> QED
        BY <1>1, <2>1, <2>2, <3>1, InFlightOK DEF BeginAttempt
    <2>3. CASE Settle
      <3>1. disk[cur].state = "IN_FLIGHT" /\ receipt \in Receipt
        BY <2>3 DEF Settle, ControlInv
      <3> QED
        BY <1>1, <2>1, <2>3, <3>1, SettledOK, StateAfterCases DEF Settle, TerminalStates
    <2> QED
      BY <1>3, <2>2, <2>3
  <1>4. ASSUME NEW id \in Ids PROVE ~Quarantine(id) /\ ~CorruptRecord(id)
    BY <1>1 DEF Quarantine, CorruptRecord
  <1> QED
    BY <1>2, <1>3, <1>4
       DEF Next, Startup, Cycle, Attempt, Faults, Start, Booted, EnsureMeta, Reconciled,
           PollRaises, InlineDone, DrainDone, Poll, CallReturns, CallRaises, Crash,
           CorruptMarker, CandleOpens, CooldownElapses, diskVars, vars

\* While no file is damaged every execution is one of the promise: an accepted
\* intent is tried within its budget, closed only after an attempt, given up as
\* unresolved only with the budget gone, and never reopened.
THEOREM PromiseKept == MaxCorruptions = 0 => (Spec => Promise!SafeSpec)
  <1> SUFFICES ASSUME MaxCorruptions = 0 PROVE Spec => Promise!SafeSpec
    OBVIOUS
  <1>1. Init => Undamaged /\ Promise!Init
    <2> SUFFICES ASSUME Init PROVE Undamaged /\ Promise!Init
      OBVIOUS
    <2>1. \A id \in Ids : disk[id].state = "ABSENT" /\ disk[id].used = 0
      BY DEF Init, Absent, Blank
    <2>2. \A id \in Ids : PromiseOf(disk[id]) = "none"
      BY <2>1 DEF PromiseOf, NoRecord, LiveStates
    <2>3. /\ [id \in Ids |-> PromiseOf(disk[id])] = [id \in Ids |-> "none"]
          /\ [id \in Ids |-> disk[id].used] = [id \in Ids |-> 0]
      BY <2>1, <2>2
    <2> QED
      BY <2>1, <2>3 DEF Undamaged, Promise!Init
  <1>2. IInv /\ Undamaged /\ [Next]_vars => Undamaged' /\ [Promise!Next]_(Promise!promise)
    BY UndamagedInductive, UndamagedStep
  <1> QED
    BY <1>1, <1>2, Inductive, PTL DEF Spec, Promise!SafeSpec

=============================================================================
