---------------------------- MODULE LiveOperator ----------------------------
(***************************************************************************)
(* What an operator sees of the poll loop: snapshots taken of it           *)
(* (live/operator.py) and their health (live/health.py), and the           *)
(* properties of the loop.                                                 *)
(***************************************************************************)
EXTENDS PollLoop, OperatorHealth

\* What the operator may be told of the outbox and of the last delivery.
SideViews == [pending : 0 .. 1, failed : 0 .. 1, intact : BOOLEAN, failing : BOOLEAN]

\* The lifecycle that the owner of the loop declares: FAILED once run() raised.
LifecycleOf ==
    CASE place # "idle"                                           -> "RUNNING"
      [] place = "idle" /\ exit \in {"none", "stopped", "finished"} -> "STOPPED"
      [] place = "idle" /\ exit \in {"stalled", "observer", "fatal"} -> "FAILED"

\* cycle_view reads the outcome of the newest result.
LastResult == loopHistory[Len(loopHistory)]
LastCycleSuccess ==
    IF loopHistory = <<>> THEN "unset"
    ELSE IF LastResult.outcome = "success" THEN "yes" ELSE "no"

\* checkpoint_view reads the newest report that is still in the history.
Reports == {i \in DOMAIN loopHistory : loopHistory[i].report # "none"}
LastPersistSuccess ==
    IF Reports = {} THEN "unset"
    ELSE LET newest == CHOOSE i \in Reports : \A j \in Reports : j <= i
         IN  IF loopHistory[newest].report = "persisted" THEN "yes" ELSE "no"

\* build_operator_snapshot.
SnapshotOf(side) ==
    [lifecycle |-> LifecycleOf,
     completed |-> cycles, failures |-> failures, last |-> LastCycleSuccess,
     persisted |-> LastPersistSuccess, retryAfter |-> holder # None,
     pending |-> side.pending, failed |-> side.failed,
     intact |-> side.intact, failing |-> side.failing]

\* Between the counters of a cycle and its result in the history the loop is
\* halfway; on_cycle and everyone outside of run_cycle see it before or after.
Presentable == place \notin {"plan", "record"}

-----------------------------------------------------------------------------
(* Outside of those two steps the counters, the history and the Retry-After
   holder always fit together: no snapshot is rejected, neither one taken by
   on_cycle, nor after any way out of run(), nor after the next run() began. *)
SnapshotIsAccepted == Presentable => \A side \in SideViews : Valid(SnapshotOf(side))

(* A loop that is not FAILED is RECOVERING after a failed cycle that it may
   repeat, and no longer so after a success, whatever came before; only the
   success of the last cycle makes it HEALTHY, and nothing needs the
   fail-closed branch. *)
HealthTracksLoop ==
    Presentable /\ place # "count" /\ loopHistory # <<>> =>
        \A side \in SideViews :
            LET health == ClassifyHealth(SnapshotOf(side))
            IN  /\ LifecycleOf # "FAILED" /\ LastResult.outcome = "recoverable"
                       => health = "RECOVERING"
                /\ LastCycleSuccess = "yes" => health # "RECOVERING"
                /\ health = "HEALTHY" => LastCycleSuccess = "yes"
                /\ health # "FAIL_CLOSED"

(* What an operator is shown, live/operator.py and live/health.py together. *)
OperatorSeesTheLoop == SnapshotIsAccepted /\ HealthTracksLoop

(* A cycle never begins in the candle in which a successful one ended, or in an
   earlier one: no candle is polled twice without a failure, across runs, late
   wake-ups and cycles that overrun their candle. *)
OnePollPerCandle == place = "begin" /\ served # None => CandleOf(clock) > served

(* Within one run the next cycle never begins before the delay that the server
   asked for with the last failure is over, and a delay it asked for earlier
   never lengthens the backoff after a later failure. *)
RetryAfterIsHonoured ==
    /\ place = "begin" /\ asked.delay # None => clock >= asked.at + asked.delay
    /\ place = "wait" /\ failures > 0 /\ asked.at # None /\ asked.delay = None
           => target <= asked.at + BackoffCap

(* After the stop request, wherever it falls, the loop ends within one sleep or
   finishes one cycle that was about to begin, never both. *)
StopIsPrompt == late.sleeps + late.cycles <= 1

(* run() with a wait ahead polls or leaves, even when the clock stops. *)
WaitEnds == place = "wait" ~> place \in {"begin", "idle"}

=============================================================================
