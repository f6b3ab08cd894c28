--------------------------- MODULE OperatorHealth ---------------------------
(***************************************************************************)
(* The operator snapshot (live/operator.py) and its classification         *)
(* (live/health.py), as operators on one snapshot.                         *)
(*                                                                         *)
(* "unset", "yes" and "no" stand for None, True and False.  A delay, a     *)
(* failure category and an identity are reduced to whether there is one;   *)
(* reasons are the code's condition codes.                                 *)
(***************************************************************************)
EXTENDS Integers

TriState  == {"unset", "yes", "no"}
Lifecycle == {"RUNNING", "STOPPED", "FAILED"}

\* Well-typed snapshots, before _collect_violations relates their fields.
Snapshot ==
    [lifecycle : Lifecycle,
     completed : Nat, failures : Nat, last : TriState,   \* CycleView
     persisted : TriState,                               \* CheckpointView
     retryAfter : BOOLEAN,                               \* RetryAfterView.active
     pending : Nat, failed : Nat, intact : BOOLEAN,      \* OutboxView
     failing : BOOLEAN]                                  \* DeliveryView

\* _collect_cycle_violations: the fields of the cycle view fit together.
CyclesFit(s) ==
    /\ s.failures <= s.completed
    /\ s.completed = 0 <=> s.last = "unset"
    /\ s.failures > 0 => s.last = "no"

\* What OperatorSnapshot.__post_init__ accepts.
Valid(s) == s \in Snapshot /\ CyclesFit(s)

-----------------------------------------------------------------------------
(* Each rule gives its reasons; a rule without reasons does not apply. *)

FailedConditions(s) == {r \in {"lifecycle_state_failed"} : s.lifecycle = "FAILED"}

RecoveringConditions(s) ==
    {r \in {"consecutive_failures_present", "retry_after_active"} :
        /\ s.lifecycle # "FAILED"
        /\ r = "consecutive_failures_present" => s.failures > 0
        /\ r = "retry_after_active" => s.retryAfter}

DegradedConditions(s) ==
    {r \in {"outbox_pending", "outbox_failed", "outbox_unhealthy",
            "checkpoint_persist_failed", "delivery_failure_present"} :
        /\ s.lifecycle # "FAILED" /\ RecoveringConditions(s) = {} /\ s.last = "yes"
        /\ r = "outbox_pending" => s.pending > 0
        /\ r = "outbox_failed" => s.failed > 0
        /\ r = "outbox_unhealthy" => ~s.intact
        /\ r = "checkpoint_persist_failed" => s.persisted = "no"
        /\ r = "delivery_failure_present" => s.failing}

\* The requirements that unknown_conditions and unmet_health_requirements share.
Unestablished(s) ==
    {r \in {"no_completed_cycles", "last_cycle_outcome_unestablished",
            "lifecycle_not_running", "last_cycle_unsuccessful"} :
        /\ r = "no_completed_cycles" => s.completed = 0
        /\ r = "last_cycle_outcome_unestablished" => s.last = "unset"
        /\ r = "lifecycle_not_running" => s.lifecycle # "RUNNING"
        /\ r = "last_cycle_unsuccessful" => s.last = "no"}

UnknownConditions(s) ==
    {r \in Unestablished(s) :
        /\ s.lifecycle # "FAILED"
        /\ RecoveringConditions(s) = {} /\ DegradedConditions(s) = {}}

UnmetHealthRequirements(s) ==
    Unestablished(s)
    \cup {r \in {"consecutive_failures_present"} : s.failures > 0}
    \cup {r \in {"retry_after_active"} : s.retryAfter}
    \cup DegradedConditions(s) \cup UnknownConditions(s)

\* classify_health: the first rule that applies.  The last case is the fail-closed
\* one, which its comment calls unreachable.
ClassifyHealth(s) ==
    IF      FailedConditions(s) # {}        THEN "FAILED"
    ELSE IF RecoveringConditions(s) # {}    THEN "RECOVERING"
    ELSE IF DegradedConditions(s) # {}      THEN "DEGRADED"
    ELSE IF UnknownConditions(s) # {}       THEN "UNKNOWN"
    ELSE IF UnmetHealthRequirements(s) = {} THEN "HEALTHY"
    ELSE "FAIL_CLOSED"

=============================================================================
