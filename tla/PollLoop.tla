------------------------------ MODULE PollLoop ------------------------------
(***************************************************************************)
(* The poll loop of the live service (live/poll_loop.py) with its          *)
(* Retry-After wrapper (live/poll_loop_retry_after.py).                    *)
(*                                                                         *)
(* Time is counted in ticks from the anchor of the candle grid.  A cycle,  *)
(* the observer of a cycle and a sleep take time, nothing else does, and   *)
(* the clock never goes back; it may stand still.  A stop may be requested *)
(* between any two steps, for the handler runs at any statement.           *)
(***************************************************************************)
EXTENDS Integers, Sequences

CONSTANTS
    Interval,        \* interval_seconds of the timeframe
    JitterMin, JitterMax,
    BackoffBase, BackoffCap,
    MaxExponent,     \* _MAX_BACKOFF_EXPONENT
    Chunk,           \* wait_chunk_seconds
    Budget,          \* max_consecutive_failures, 0 for None
    MaxStalled,      \* _MAX_STALLED_WAITS
    LoopHistoryLimit, \* history_limit
    MaxRetryAfter,   \* MAX_RETRY_AFTER_SECONDS
    RetryAfters,     \* what a server may ask for; None is there for nothing
    CycleBounds,     \* what max_cycles may be, 0 for None
    Durations,       \* how long a cycle or its observer may take
    Overshoots,      \* how much later than asked for a sleep may end
    ClockEnd,        \* bound: where the clock stands still
    None

ASSUME GridAssumption ==
    /\ Interval \in Nat \ {0} /\ ClockEnd \in Nat /\ ClockEnd >= Interval
    /\ JitterMin \in Nat /\ JitterMax \in JitterMin .. Interval - 1
ASSUME BackoffAssumption ==
    /\ BackoffBase \in Nat \ {0} /\ BackoffCap \in Nat /\ BackoffCap >= BackoffBase
    /\ Budget \in Nat /\ Chunk \in Nat \ {0} /\ MaxStalled \in Nat \ {0}
    /\ LoopHistoryLimit \in Nat \ {0} /\ MaxRetryAfter \in Nat
\* Arithmetic that the proofs need of the exponents in use.
ASSUME DoublingAssumption == MaxExponent \in Nat /\ \A k \in 0 .. MaxExponent : 2 ^ k \in Nat
ASSUME EnvironmentAssumption ==
    /\ None \notin Int /\ None \in RetryAfters /\ RetryAfters \subseteq Nat \cup {None}
    /\ CycleBounds \subseteq Nat /\ CycleBounds # {}
    /\ Durations \subseteq Nat /\ Overshoots \subseteq Nat

VARIABLES
    clock,       \* what the injected clock shows
    place,       \* where run() is; "idle" outside of it
    stop,        \* _stop_requested
    target,      \* the local target
    nextPollAt,  \* _next_poll_at
    stalled,     \* stalled and previous of _wait_until
    previous,
    executed,    \* executed and max_cycles of this run()
    bound,
    cycles,      \* _cycles
    failures,    \* _consecutive_failures
    holder,      \* _retry_after_holder[0]
    outcome,     \* outcome, report and next_at of the cycle at hand
    report,
    nextAt,
    loopHistory, \* _history: outcome and report of the newest results
    exit,        \* how the last run() ended
    \* What the code does not keep.
    asked,       \* end of this run's last cycle, and the delay its failure asked for
    served,      \* the candle in which the last successful cycle ended
    late         \* sleeps and cycles of this loop since stop was requested

waitVars    == <<stalled, previous>>
runVars     == <<executed, bound, exit>>
outcomeVars == <<outcome, report, nextAt>>
ghostVars   == <<asked, served, late>>
loopVars    == <<cycles, failures, holder, loopHistory>>
pollVars    == <<clock, place, stop, target, nextPollAt, waitVars, runVars, outcomeVars, loopVars,
                 ghostVars>>

Outcome == {"success", "recoverable", "fatal"}
Report  == {"none", "persisted", "not_persisted"}
Places  == {"idle", "wait", "look", "sleep", "begin", "cycle", "count", "plan", "record",
            "observe"}

-----------------------------------------------------------------------------
(* Scheduling. *)

Smaller(a, b) == IF a < b THEN a ELSE b
Larger(a, b)  == IF a > b THEN a ELSE b

\* Variant: a time on a boundary is its own next boundary.
NextPollTimeLax(now) == ((now + Interval - 1) \div Interval) * Interval

\* The first boundary strictly after now.
NextPollTime(now) == (now \div Interval + 1) * Interval

\* The time of now's candle.
CandleOf(now) == now \div Interval

\* LivePollLoopConfig.backoff_seconds.
CappedBackoff(n) == Smaller(BackoffBase * 2 ^ Smaller(n - 1, MaxExponent), BackoffCap)

\* RetryAfterAwarePollLoopConfig.backoff_seconds.
Backoff(n, delay) ==
    IF delay = None THEN CappedBackoff(n) ELSE Larger(CappedBackoff(n), delay)

\* _extract_retry_after_delay of a failure whose server asked for this delay.
RetryAfterDelay(delay) == IF delay = None THEN None ELSE Smaller(delay, MaxRetryAfter)

\* Variants: a failure without Retry-After keeps the old delay; so does a success.
HolderKept(result, delay) ==
    IF result = "success" THEN None
    ELSE IF delay = None THEN holder ELSE RetryAfterDelay(delay)
HolderNotCleared(result, delay) ==
    IF result = "success" THEN holder ELSE RetryAfterDelay(delay)

\* RetryAfterAwareRunner.run_cycle: a success clears the holder, a failure
\* overwrites it, also with None.
HolderAfter(result, delay) == IF result = "success" THEN None ELSE RetryAfterDelay(delay)

\* The time d later, unless the clock stands still before.
Later(d) == Smaller(clock + d, ClockEnd)

-----------------------------------------------------------------------------
LoopInit ==
    /\ clock \in 0 .. Interval
    /\ place = "idle" /\ stop = FALSE /\ target = 0 /\ nextPollAt = None
    /\ stalled = 0 /\ previous = None
    /\ executed = 0 /\ bound = 0 /\ exit = "none"
    /\ cycles = 0 /\ failures = 0 /\ holder = None /\ loopHistory = <<>>
    /\ outcome = "success" /\ report = "none" /\ nextAt = None
    /\ asked = [at |-> None, delay |-> None]
    /\ served = None
    /\ late = [sleeps |-> 0, cycles |-> 0]

\* request_stop, from a signal handler or another thread.
RequestStop ==
    /\ ~stop
    /\ stop' = TRUE
    /\ UNCHANGED <<clock, place, target, nextPollAt, waitVars, runVars, outcomeVars, loopVars,
                   ghostVars>>

\* _wait_until is entered for the target t.
WaitUntil(t) ==
    /\ place' = "wait" /\ target' = t
    /\ stalled' = 0 /\ previous' = None

\* The locals of a cycle are dead once the loop waits or leaves.
ForgetCycle == outcome' = "success" /\ report' = "none" /\ nextAt' = None

\* run() leaves, and its finally clause clears _running.
Leave(how) ==
    /\ place' = "idle" /\ exit' = how
    /\ target' = 0 /\ stalled' = 0 /\ previous' = None /\ executed' = 0 /\ bound' = 0
    /\ ForgetCycle
    /\ asked' = [at |-> None, delay |-> None]
    /\ UNCHANGED <<stop, nextPollAt, loopVars, served, late>>

\* run() with a stop requested before: nothing is scheduled.
RunStopped ==
    /\ place = "idle" /\ stop
    /\ Leave("stopped")
    /\ UNCHANGED clock

\* run() up to its first wait.
Run ==
    /\ place = "idle" /\ ~stop
    /\ \E n \in CycleBounds : bound' = n
    /\ executed' = 0 /\ exit' = "none"
    /\ \E jitter \in JitterMin .. JitterMax :
           /\ WaitUntil(NextPollTime(clock) + jitter)
           /\ nextPollAt' = NextPollTime(clock) + jitter
    /\ UNCHANGED <<clock, stop, outcomeVars, loopVars, ghostVars>>

\* _wait_until, the look at the stop flag.  Leaving this way, run() does not
\* touch _next_poll_at.
HonourStop ==
    /\ place = "wait" /\ stop
    /\ Leave("stopped")
    /\ UNCHANGED clock

\* Variant: the flag is only looked at between cycles.
KeepWaitingDeaf ==
    /\ place = "wait"
    /\ place' = "look"
    /\ UNCHANGED <<clock, stop, target, nextPollAt, waitVars, runVars, outcomeVars, loopVars,
                   ghostVars>>

KeepWaiting ==
    /\ place = "wait" /\ ~stop
    /\ place' = "look"
    /\ UNCHANGED <<clock, stop, target, nextPollAt, waitVars, runVars, outcomeVars, loopVars,
                   ghostVars>>

\* _wait_until, the look at the clock: the target is due.
Due ==
    /\ place = "look" /\ clock >= target
    /\ place' = "begin"
    /\ UNCHANGED <<clock, stop, target, nextPollAt, waitVars, runVars, outcomeVars, loopVars,
                   ghostVars>>

\* Variant: stalls are not counted.
StalledNever == 0

\* How often in a row the clock has not moved, this look included.
StalledNow == IF previous # None /\ clock <= previous THEN stalled + 1 ELSE 0

\* It is not, and the loop will sleep.
NotDue ==
    /\ place = "look" /\ clock < target
    /\ StalledNow < MaxStalled
    /\ stalled' = StalledNow /\ previous' = clock
    /\ place' = "sleep"
    /\ UNCHANGED <<clock, stop, target, nextPollAt, runVars, outcomeVars, loopVars, ghostVars>>

\* It is not, and the clock has stood still for too long: RuntimeError.
ClockIsBroken ==
    /\ place = "look" /\ clock < target
    /\ StalledNow >= MaxStalled
    /\ Leave("stalled")
    /\ UNCHANGED clock

\* The sleep ends: when it should, later, or with a clock that has not moved.
Sleep ==
    /\ place = "sleep"
    /\ \/ clock' = clock
       \/ \E d \in Overshoots : clock' = Later(Smaller(target - clock, Chunk) + d)
    /\ place' = "wait"
    /\ late' = IF stop THEN [late EXCEPT !.sleeps = @ + 1] ELSE late
    /\ UNCHANGED <<stop, target, nextPollAt, waitVars, runVars, outcomeVars, loopVars, asked,
                   served>>

\* run_cycle is called.
BeginCycle ==
    /\ place = "begin"
    /\ place' = "cycle"
    /\ late' = IF stop THEN [late EXCEPT !.cycles = @ + 1] ELSE late
    /\ UNCHANGED <<clock, stop, target, nextPollAt, waitVars, runVars, outcomeVars, loopVars,
                   asked, served>>

\* run_cycle returns its report or raises: a feed or data error or anything else,
\* either of which, or a cause of it, may carry a Retry-After.
CycleEnds ==
    /\ place = "cycle"
    /\ \E d \in Durations : clock' = Later(d)
    /\ \E result \in Outcome, delay \in RetryAfters :
           /\ result = "success" => delay = None
           /\ outcome' = result
           /\ holder' = HolderAfter(result, delay)
           /\ asked' = [at |-> clock', delay |-> RetryAfterDelay(delay)]
           /\ served' = IF result = "success" THEN CandleOf(clock') ELSE served
           /\ report' \in IF result = "success" THEN Report \ {"none"} ELSE {"none"}
    /\ place' = "count"
    /\ UNCHANGED <<stop, target, nextPollAt, waitVars, runVars, nextAt, cycles, failures,
                   loopHistory, late>>

\* Variant: the counter of failures outlives a success.
FailuresKept(n) == IF outcome = "recoverable" THEN n + 1 ELSE n

\* The counters of run(), and what its budget makes of the outcome.
FailuresAfter(n) ==
    CASE outcome = "success"     -> 0
      [] outcome = "recoverable" -> n + 1
      [] outcome = "fatal"       -> n

Count ==
    /\ place = "count"
    /\ cycles' = cycles + 1 /\ executed' = executed + 1
    /\ failures' = FailuresAfter(failures)
    /\ outcome' = IF outcome = "recoverable" /\ Budget # 0 /\ failures' >= Budget
                  THEN "fatal" ELSE outcome
    /\ place' = "plan"
    /\ UNCHANGED <<clock, stop, target, nextPollAt, waitVars, bound, exit, report, nextAt,
                   holder, loopHistory, ghostVars>>

Stopping == outcome = "fatal" \/ stop \/ (bound # 0 /\ executed >= bound)

\* The target after this cycle, None to stop.
NextTargets ==
    CASE Stopping -> {None}
      [] ~Stopping /\ outcome = "success" ->
             {NextPollTime(clock) + jitter : jitter \in JitterMin .. JitterMax}
      [] ~Stopping /\ outcome = "recoverable" -> {clock + Backoff(failures, holder)}

Plan ==
    /\ place = "plan"
    /\ nextAt' \in NextTargets /\ nextPollAt' = nextAt'
    /\ place' = "record"
    /\ UNCHANGED <<clock, stop, target, waitVars, runVars, outcome, report, loopVars, ghostVars>>

Record ==
    /\ place = "record"
    /\ LET all == Append(loopHistory, [outcome |-> outcome, report |-> report])
       IN  loopHistory' = IF Len(all) > LoopHistoryLimit THEN Tail(all) ELSE all
    /\ place' = "observe"
    /\ UNCHANGED <<clock, stop, target, nextPollAt, waitVars, runVars, outcomeVars, cycles,
                   failures, holder, ghostVars>>

\* on_cycle takes its time, and raises.
ObserverRaises ==
    /\ place = "observe"
    /\ \E d \in Durations : clock' = Later(d)
    /\ Leave("observer")

\* on_cycle returns after a fatal failure, which is raised again.
SurfaceFatal ==
    /\ place = "observe" /\ outcome = "fatal"
    /\ \E d \in Durations : clock' = Later(d)
    /\ Leave("fatal")

\* on_cycle returns and nothing is scheduled.
Finish ==
    /\ place = "observe" /\ outcome # "fatal" /\ nextAt = None
    /\ \E d \in Durations : clock' = Later(d)
    /\ Leave("finished")

\* on_cycle returns and the loop goes on.
GoOn ==
    /\ place = "observe" /\ outcome # "fatal" /\ nextAt # None
    /\ \E d \in Durations : clock' = Later(d)
    /\ WaitUntil(nextAt) /\ ForgetCycle
    /\ UNCHANGED <<stop, nextPollAt, runVars, loopVars, ghostVars>>

Wait     == HonourStop \/ KeepWaiting \/ Due \/ NotDue \/ ClockIsBroken \/ Sleep
Cycle    == BeginCycle \/ CycleEnds \/ Count \/ Plan \/ Record
Observe  == ObserverRaises \/ SurfaceFatal \/ Finish \/ GoOn
LoopStep == Wait \/ Cycle \/ Observe

LoopNext == RequestStop \/ RunStopped \/ Run \/ LoopStep

LoopSpec     == LoopInit /\ [][LoopNext]_pollVars
FairLoopSpec == LoopSpec /\ WF_pollVars(LoopStep)

-----------------------------------------------------------------------------
LoopTypeOK ==
    /\ clock \in 0 .. ClockEnd /\ place \in Places /\ stop \in BOOLEAN
    /\ target \in Nat /\ nextPollAt \in Nat \cup {None}
    /\ stalled \in 0 .. MaxStalled /\ previous \in Nat \cup {None}
    /\ executed \in Nat /\ bound \in CycleBounds \cup {0}
    /\ exit \in {"none", "stopped", "stalled", "observer", "fatal", "finished"}
    /\ cycles \in Nat /\ failures \in Nat /\ holder \in 0 .. MaxRetryAfter \cup {None}
    /\ outcome \in Outcome /\ report \in Report /\ nextAt \in Nat \cup {None}
    /\ loopHistory \in Seq([outcome : Outcome, report : Report])
    /\ Len(loopHistory) <= LoopHistoryLimit
    /\ asked \in [at : Nat \cup {None}, delay : 0 .. MaxRetryAfter \cup {None}]
    /\ served \in Nat \cup {None}
    /\ late \in [sleeps : Nat, cycles : Nat]

=============================================================================
