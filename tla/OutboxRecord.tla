---------------------------- MODULE OutboxRecord ----------------------------
(***************************************************************************)
(* One durable delivery record (delivery/outbox/models.py) and the pure    *)
(* transitions the outbox sink applies to it (delivery/outbox/sink.py).    *)
(*                                                                         *)
(* A record file is a Document: a record in one of the seven OutboxState   *)
(* values, or a file that is ABSENT or CORRUPT.  The frozen receipts are   *)
(* kept up to what the sink tells apart: DELIVERED stands for SENT too,    *)
(* RETRYABLE for FAILED with a TRANSPORT, NETWORK or RATE_LIMIT category,  *)
(* REFUSED for every other FAILED receipt and for NOT_ATTEMPTED.           *)
(***************************************************************************)
EXTENDS Naturals

CONSTANT MaxAttempts      \* OutboxConfig.max_attempts

ASSUME MaxAttemptsAssumption == MaxAttempts \in Nat \ {0}

TerminalStates == {"DELIVERED", "FAILED_TERMINAL", "EXHAUSTED", "AMBIGUOUS"}
LiveStates     == {"QUEUED", "IN_FLIGHT", "WAITING"}
OutboxState    == LiveStates \cup TerminalStates
NoRecord       == {"ABSENT", "CORRUPT"}

Receipt   == {"DELIVERED", "SKIPPED_DUPLICATE", "UNKNOWN", "RETRYABLE", "REFUSED"}
NoReceipt == "NONE"

Document ==
    [state : OutboxState \cup NoRecord,
     used : 0 .. MaxAttempts,             \* attempts_used
     last : Receipt \cup {NoReceipt},     \* last_receipt_state, _category
     ambiguous  : BOOLEAN,                 \* ambiguous_attempt_seen
     duplicated : BOOLEAN,                 \* possibly_duplicated
     logged : 0 .. MaxAttempts]            \* length of attempt_log

Blank(state) ==
    [state |-> state, used |-> 0, last |-> NoReceipt,
     ambiguous |-> FALSE, duplicated |-> FALSE, logged |-> 0]

Absent  == Blank("ABSENT")
Corrupt == Blank("CORRUPT")

\* T1: a new intent.  Only reconciliation passes ambiguous = TRUE.
NewQueuedRecord(ambiguous) == [Blank("QUEUED") EXCEPT !.ambiguous = ambiguous]

Present(r)         == r.state \in OutboxState
IsTerminal(r)      == r.state \in TerminalStates
BudgetRemaining(r) == r.used < MaxAttempts

\* The receipts whose delivery the durable budget may try again.
ReceiptAllowsRetry(receipt) == receipt \in {"UNKNOWN", "RETRYABLE"}

-----------------------------------------------------------------------------
(* The transitions of the sink. *)

\* Variant: the attempt is counted only when it is settled.
InFlightUncounted(r) == [r EXCEPT !.state = "IN_FLIGHT"]

\* T2/T3: the attempt is counted before the transport is called.
InFlight(r) == [r EXCEPT !.state = "IN_FLIGHT", !.used = @ + 1]

StateAfter(r, receipt) ==
    CASE receipt \in {"DELIVERED", "SKIPPED_DUPLICATE"} -> "DELIVERED"
      [] receipt = "REFUSED"                            -> "FAILED_TERMINAL"
      [] ReceiptAllowsRetry(receipt) /\ BudgetRemaining(r)       -> "WAITING"
      [] receipt = "UNKNOWN" /\ ~BudgetRemaining(r)             -> "AMBIGUOUS"
      [] receipt = "RETRYABLE" /\ ~BudgetRemaining(r)           -> "EXHAUSTED"

\* T4..T8: the outcome of one attempt.  An UNKNOWN receipt marks the record
\* ambiguous only while budget remains.
Settled(r, receipt) ==
    LET next == StateAfter(r, receipt)
    IN [r EXCEPT
          !.state      = next,
          !.last       = receipt,
          !.ambiguous  = @ \/ (next = "WAITING" /\ receipt = "UNKNOWN"),
          !.duplicated = IF receipt = "DELIVERED" THEN r.ambiguous
                         ELSE @ \/ next = "AMBIGUOUS",
          !.logged     = @ + 1]

\* The budget is gone before an attempt could start.
BudgetExhausted(r) ==
    IF IsTerminal(r) THEN r
    ELSE IF r.last = "UNKNOWN"
         THEN [r EXCEPT !.state = "AMBIGUOUS", !.duplicated = TRUE]
         ELSE [r EXCEPT !.state = "EXHAUSTED"]

\* Variant: the interrupted attempt is taken for one that never reached anyone.
RecoveredUnflagged(r) ==
    [r EXCEPT !.state  = IF BudgetRemaining(r) THEN "WAITING" ELSE "EXHAUSTED",
              !.logged = IF @ < r.used THEN @ + 1 ELSE @]

\* Variant: the interrupted attempt is given back to the budget.
RecoveredRefunded(r) == [r EXCEPT !.state = "WAITING", !.used = @ - 1, !.ambiguous = TRUE]

\* T9: an IN_FLIGHT record found again: its attempt counts and its outcome is
\* unknowable.  The last receipt is that of an earlier attempt, and stays.
Recovered(r) ==
    [r EXCEPT
       !.state      = IF BudgetRemaining(r) THEN "WAITING" ELSE "AMBIGUOUS",
       !.ambiguous  = TRUE,
       !.duplicated = @ \/ ~BudgetRemaining(r),
       !.logged     = IF @ < r.used THEN @ + 1 ELSE @]

=============================================================================
