------------------------------ MODULE Delivery ------------------------------
(***************************************************************************)
(* The delivery stack of one process, from a published frame to the chat:  *)
(* the coordinator in projection mode (delivery/orchestrator.py), the      *)
(* Telegram driver and its bridge (delivery/telegram/integration.py), the  *)
(* frozen retry and deduplication loop (delivery/sink.py) and the Telegram *)
(* sink with its token bucket (delivery/telegram/sink.py, rate_limit.py).  *)
(* Everything runs on one thread; what varies is the clock, the answers of *)
(* the network and where a call can leave by an exception.                 *)
(***************************************************************************)
EXTENDS Presentation, FiniteSets, TLC

CONSTANTS
    Frames,             \* the published frames, records of Presentation
    Drawings,           \* the drawings a caller may pass, None among them
    Destinations,       \* logical destination ids
    Resolvable,         \* those the destination map resolves to a valid chat id
    Setups,             \* the configurations a process may be built with
    MaxAttempts,        \* attempts of the frozen loop, per delivery
    RetryMaxAttempts,   \* TelegramConfig.retry_max_attempts, per attempt
    Backoff,            \* min(retry_backoff_seconds, retry_backoff_max_seconds)
    Capacity,           \* TelegramConfig.rate_limit_capacity, in tokens
    Unit, Rate,         \* a token is Unit parts, a tick refills Rate parts
    MaxMessageChars,    \* TelegramConfig.max_message_chars
    Answers,            \* the answers of the network, see below
    Durations,          \* how long a request may take
    Pauses,             \* how long the process may do something else
    Horizon,            \* bound: no call starts later
    MaxCalls            \* bound: number of calls

ASSUME DeliveryAssumption ==
    /\ MaxAttempts \in Nat \ {0} /\ RetryMaxAttempts \in Nat \ {0}
    /\ Capacity \in Nat \ {0} /\ Unit \in Nat \ {0} /\ Rate \in Nat \ {0}
    /\ Backoff \in Nat /\ Durations \subseteq Nat /\ Pauses \subseteq Nat
    /\ MaxMessageChars \in Nat /\ Horizon \in Nat /\ MaxCalls \in Nat
    /\ Resolvable \subseteq Destinations
    /\ Setups \subseteq [enabled : BOOLEAN, deduplicate : BOOLEAN, dryRun : BOOLEAN,
                         telegram : BOOLEAN, charts : BOOLEAN,
                         show : [signal : BOOLEAN, setup : BOOLEAN, halal : BOOLEAN,
                                 times : BOOLEAN, marker : BOOLEAN, split : BOOLEAN]]

\* SignalMessage insists on evidence, each with an identity.
ASSUME FramesAssumption ==
    \A f \in Frames :
        /\ f.explanation \in Seq(Nat)
        /\ f.evidence \in Seq(Nat \ {0}) /\ f.evidence # <<>>

VARIABLES
    setup,          \* the configuration of this process
    clock,
    tokens, last,   \* TelegramRateLimiter: parts of tokens, time of the last refill
    registry,       \* DeliveryRegistry: the delivery ids already delivered
    counters,       \* TelegramDeliveryCounters per destination
    bound,          \* the payload bound to the bridge
    chartFailure,   \* TelegramSink.last_chart_failure
    call,           \* the delivery in progress, or None
    requests,       \* history: every request issued, with its answer
    results         \* history: how every call ended

delivery == <<setup, clock, tokens, last, registry, counters, bound, chartFailure, call,
              requests, results>>
bucket == <<tokens, last>>

States == {"NOT_ATTEMPTED", "SENT", "DELIVERED", "UNKNOWN", "FAILED", "SKIPPED_DUPLICATE"}

-----------------------------------------------------------------------------
(* The network.  The answers to a request: an HTTP status with or without  *)
(* ok in its body, a timeout, an error that urllib wraps (status 0), or a  *)
(* connection that breaks after the request was written, which it does not *)
(* wrap and which nothing on the way out catches.                          *)

Status(code, ok) == [kind |-> "status", code |-> code, ok |-> ok]
Timeout == [kind |-> "timeout", code |-> 0, ok |-> FALSE]
ApiError == [kind |-> "api", code |-> 0, ok |-> FALSE]
Broken == [kind |-> "broken", code |-> 0, ok |-> FALSE]

Retryable(code) == code \in {429, 500, 502, 503, 504}

Categorize(code) ==
    CASE code = 401 -> "config"
      [] code = 429 -> "rate_limit"
      [] OTHER -> "transport"

\* _ok
Confirms(answer) == answer.kind = "status" /\ answer.code = 200 /\ answer.ok

ASSUME AnswersAssumption ==
    \A answer \in Answers :
        \/ answer \in {Timeout, ApiError, Broken}
        \/ /\ answer.code \in Nat /\ answer.ok \in BOOLEAN
           /\ answer = Status(answer.code, answer.ok)

\* HTTP 200: the message is in the chat, confirmed or not.
Accepts(answer) == answer.kind = "status" /\ answer.code = 200

-----------------------------------------------------------------------------
(* The token bucket                                                        *)

Least(a, b) == IF a <= b THEN a ELSE b

Refilled == Least(Capacity * Unit, tokens + (clock - last) * Rate)

HasToken == Refilled >= Unit

\* Variant: the time of the last refill is kept when no token is there.
TryAcquireStale(taken) ==
    /\ last' = IF HasToken THEN last ELSE clock
    /\ taken <=> HasToken
    /\ tokens' = IF HasToken THEN Refilled - Unit ELSE Refilled

\* try_acquire: taken says whether a token was there.
TryAcquire(taken) ==
    /\ last' = clock
    /\ taken <=> HasToken
    /\ tokens' = IF HasToken THEN Refilled - Unit ELSE Refilled

-----------------------------------------------------------------------------
(* Envelopes                                                               *)

\* DeliveryCoordinator.deliver without a sink: the projection of a frame.
Outcome(frame, destination, drawing, show) ==
    LET message == FromSignal(frame)
        chart == AttachChart(message, drawing)
        rendered == Assemble(message, chart, show)
    IN  [signal |-> message.signal, message |-> rendered.message,
         id |-> DeliveryId(rendered.message, destination), destination |-> destination,
         rendered |-> rendered, context |-> message.signal,
         state |-> "NOT_ATTEMPTED", category |-> "config", attempt |-> 1]

\* The consistency guards of DeliveryOutcome.
OutcomeIsValid(outcome) ==
    /\ RenderedIsValid(outcome.rendered)
    /\ outcome.rendered.signal = outcome.signal
    /\ outcome.context = outcome.signal
    /\ outcome.rendered.message = outcome.message
    /\ outcome.state \in States /\ outcome.attempt >= 1

\* transport_payload_from_outcome
PayloadOf(outcome) ==
    [id |-> outcome.id, message |-> outcome.message, signal |-> outcome.signal,
     destination |-> outcome.destination, attempt |-> outcome.attempt,
     rendered |-> outcome.rendered]

PayloadIsValid(payload) ==
    /\ payload.rendered.signal = payload.signal
    /\ payload.rendered.message = payload.message
    /\ payload.attempt >= 1

\* What TelegramPayloadBridge checks before it forwards an attempt.
BridgeAccepts(payload, attempt) ==
    /\ payload # None
    /\ payload.id = attempt.id
    /\ payload.message = attempt.message /\ payload.signal = attempt.signal
    /\ payload.destination = attempt.destination

Attempt(outcome, n) ==
    [id |-> DeliveryId(outcome.rendered.message, outcome.destination),
     message |-> outcome.rendered.message, signal |-> outcome.rendered.signal,
     destination |-> outcome.destination, attempt |-> n]

-----------------------------------------------------------------------------
(* The records a process holds                                             *)

Ids == {DeliveryId(MessageId(f.signal), d) : f \in Frames, d \in Destinations}

Projections ==
    {Outcome(f, d, w, s.show) :
        f \in {g \in Frames : IsBuy(g)}, d \in Destinations, w \in Drawings, s \in Setups}

Categories == {"none", "config", "rate_limit", "transport", "timeout"}

Calls ==
    [step : {"attempt", "acquire", "backoff", "request", "answered", "chart", "raised"},
     outcome : Projections, attempt : 1 .. MaxAttempts, try : 0 .. RetryMaxAttempts,
     state : States, category : Categories, asked : Seq(Answers)]

Requests ==
    [id : Ids, kind : {"text", "chart"}, at : Nat, answer : Answers, call : Nat]

Results ==
    [id : Ids, state : States \union {"raised"}, category : Categories,
     attempt : 1 .. MaxAttempts, payload : BOOLEAN, asked : Seq(Answers)]

ASSUME NoneAssumption ==
    None \notin Calls /\ \A o \in Projections : None # PayloadOf(o)

-----------------------------------------------------------------------------
(* The end of a call                                                       *)

Tally(n, state) == [n EXCEPT ![state] = @ + 1]

\* What the history keeps of a call that ended.
Ended(state, category, payload) ==
    [id |-> call.outcome.id, state |-> state, category |-> category,
     attempt |-> call.attempt, payload |-> payload, asked |-> call.asked]

\* TelegramDeliveryIntegration._finish, after the bridge released its payload.
Finish(state, category) ==
    /\ bound' = None
    /\ counters' = [counters EXCEPT ![call.outcome.destination] = Tally(@, state)]
    /\ results' = Append(results, Ended(state, category, TRUE))
    /\ call' = None

\* Variant: only a confirmed message enters the registry.
RegisteredConfirmed(state) ==
    IF setup.deduplicate /\ state = "DELIVERED"
    THEN registry \cup {call.outcome.id} ELSE registry

\* Variant: a delivery enters the registry when it was tried.
RegisteredTried(state) ==
    IF setup.deduplicate /\ state # "NOT_ATTEMPTED"
    THEN registry \cup {call.outcome.id} ELSE registry

\* The registry after a receipt (deliver_message marks DELIVERED and SENT).
Registered(state) ==
    IF setup.deduplicate /\ state \in {"DELIVERED", "SENT"}
    THEN registry \cup {call.outcome.id} ELSE registry

\* deliver_message tries again only after FAILED, up to the attempt cap.
Retries(state) == state = "FAILED" /\ call.attempt < MaxAttempts

\* A receipt of the sink reaches the loop of deliver_message.
Conclude(state, category) ==
    /\ registry' = Registered(state)
    /\ IF Retries(state)
       THEN /\ call' = [call EXCEPT !.step = "attempt", !.attempt = @ + 1]
            /\ UNCHANGED <<bound, counters, results>>
       ELSE Finish(state, category)

\* An exception leaves the call: the bridge releases, nothing is counted or returned.
Raise ==
    /\ bound' = None
    /\ results' = Append(results, Ended("raised", "none", TRUE))
    /\ call' = None
    /\ UNCHANGED <<registry, counters>>

-----------------------------------------------------------------------------
(* Actions                                                                 *)

\* TelegramDeliveryIntegration.deliver: project, and stop when the master switch is off or
\* the registry knows the delivery.  A frame that is no BUY signal raises before anything.
Begin(frame, destination, drawing) ==
    /\ call = None /\ clock <= Horizon /\ Len(results) < MaxCalls
    /\ IsBuy(frame)
    /\ LET outcome == Outcome(frame, destination, drawing, setup.show)
           new == [step |-> "attempt", outcome |-> outcome, attempt |-> 1, try |-> 0,
                   state |-> "FAILED", category |-> "none", asked |-> <<>>]
           Done(state, category) ==
               /\ counters' = [counters EXCEPT ![destination] = Tally(@, state)]
               /\ results' = Append(results,
                      [id |-> outcome.id, state |-> state, category |-> category,
                       attempt |-> 1, payload |-> FALSE, asked |-> <<>>])
               /\ UNCHANGED <<bound, call>>      \* a bound payload is released at once
       IN  IF ~ setup.enabled
           THEN Done("NOT_ATTEMPTED", "config")
           ELSE IF setup.deduplicate /\ outcome.id \in registry
           THEN Done("SKIPPED_DUPLICATE", "none")
           ELSE /\ bound' = PayloadOf(outcome)
                /\ call' = new
                /\ UNCHANGED <<counters, results>>
    /\ UNCHANGED <<setup, clock, bucket, registry, chartFailure, requests>>

\* The bridge forwards an attempt and the sink checks it before any network call.  The
\* offline sink of a dry run answers DELIVERED (OfflinePayloadSink).
PreFlight ==
    /\ call # None /\ call.step = "attempt"
    /\ IF ~ BridgeAccepts(bound, Attempt(call.outcome, call.attempt))
       THEN Raise
       ELSE IF setup.dryRun
       THEN Conclude("DELIVERED", "none")
       ELSE IF \/ ~ setup.telegram
               \/ call.outcome.destination \notin Resolvable
               \/ TextLength(bound.rendered.lines) > MaxMessageChars
       THEN Conclude("NOT_ATTEMPTED", "config")
       ELSE /\ call' = [call EXCEPT !.step = "acquire", !.try = 1]
            /\ UNCHANGED <<bound, registry, counters, results>>
    /\ UNCHANGED <<setup, clock, bucket, chartFailure, requests>>

\* _send_text takes a token, before it sleeps for the backoff.
Acquire ==
    /\ call # None /\ call.step = "acquire"
    /\ \E taken \in BOOLEAN :
        /\ TryAcquire(taken)
        /\ IF taken
           THEN /\ call' = [call EXCEPT !.step = IF call.try > 1 THEN "backoff" ELSE "request"]
                /\ UNCHANGED <<bound, registry, counters, results>>
           ELSE Conclude("FAILED", "rate_limit")
    /\ UNCHANGED <<setup, clock, chartFailure, requests>>

Sleep ==
    /\ call # None /\ call.step = "backoff"
    /\ clock' = clock + Backoff
    /\ call' = [call EXCEPT !.step = "request"]
    /\ UNCHANGED <<setup, bucket, registry, counters, bound, chartFailure, requests, results>>

Request(kind, answer) ==
    [id |-> bound.id, kind |-> kind, at |-> clock, answer |-> answer, call |-> Len(results) + 1]

\* What _send_text makes of an answer.
Meaning(answer) ==
    CASE answer.kind = "broken" -> "raised"
      [] answer.kind = "timeout" -> "UNKNOWN"
      [] Confirms(answer) -> "DELIVERED"
      [] Accepts(answer) /\ ~ Confirms(answer) -> "SENT"
      [] Retryable(answer.code) -> "busy"
      [] OTHER -> "FAILED"

CategoryOf(answer) ==
    CASE Accepts(answer) -> "none"
      [] answer.kind = "timeout" -> "timeout"
      [] OTHER -> Categorize(answer.code)

\* sendMessage, with the whole caption of the payload bound to the bridge.
SendText(answer, duration) ==
    /\ call # None /\ call.step = "request"
    /\ clock' = clock + duration
    /\ requests' = Append(requests, Request("text", answer))
    /\ LET meaning == Meaning(answer)
           next == [call EXCEPT !.asked = Append(@, answer), !.category = CategoryOf(answer)]
       IN  call' = CASE meaning = "raised" -> [next EXCEPT !.step = "raised"]
                     [] meaning = "busy" /\ call.try < RetryMaxAttempts ->
                            [next EXCEPT !.step = "acquire", !.try = @ + 1]
                     [] meaning = "busy" /\ call.try = RetryMaxAttempts ->
                            [next EXCEPT !.step = "answered", !.state = "FAILED"]
                     [] OTHER -> [next EXCEPT !.step = "answered", !.state = meaning]
    /\ UNCHANGED <<setup, bucket, registry, counters, bound, chartFailure, results>>

\* The text is settled; a chart is sent only after a confirmed text.
Settle ==
    /\ call # None /\ call.step = "answered"
    /\ IF call.state = "DELIVERED" /\ bound.rendered.chart # None /\ setup.charts
       THEN /\ call' = [call EXCEPT !.step = "chart"]
            /\ UNCHANGED <<bound, registry, counters, results>>
       ELSE Conclude(call.state, call.category)
    /\ UNCHANGED <<setup, clock, bucket, chartFailure, requests>>

\* _send_chart_best_effort without a token for it.
SkipChart ==
    /\ call # None /\ call.step = "chart"
    /\ TryAcquire(FALSE)
    /\ chartFailure' = "rate-limited"
    /\ Conclude("DELIVERED", "none")
    /\ UNCHANGED <<setup, clock, requests>>

ChartOutcome(answer) ==
    CASE Confirms(answer) -> None
      [] answer.kind = "status" /\ ~ Confirms(answer) -> "http"
      [] OTHER -> "error"

\* _send_chart_best_effort: sendDocument.  The receipt of the text is built after it.
SendChart(answer, duration) ==
    /\ call # None /\ call.step = "chart"
    /\ TryAcquire(TRUE)
    /\ clock' = clock + duration
    /\ requests' = Append(requests, Request("chart", answer))
    /\ IF answer.kind = "broken"
       THEN /\ call' = [call EXCEPT !.step = "raised"]
            /\ UNCHANGED <<bound, registry, counters, results, chartFailure>>
       ELSE /\ chartFailure' = ChartOutcome(answer)
            /\ Conclude("DELIVERED", "none")
    /\ UNCHANGED setup

\* The exception passes deliver_outcome, whose finally clause releases the bridge.
Unwind ==
    /\ call # None /\ call.step = "raised"
    /\ Raise
    /\ UNCHANGED <<setup, clock, bucket, chartFailure, requests>>

\* The process is busy elsewhere.
Pass(pause) ==
    /\ call = None /\ clock <= Horizon /\ Len(results) < MaxCalls
    /\ clock' = clock + pause
    /\ UNCHANGED <<setup, bucket, registry, counters, bound, chartFailure, call, requests, results>>

-----------------------------------------------------------------------------

Zero == [state \in States |-> 0]

Init ==
    /\ setup \in Setups
    /\ clock = 0
    /\ tokens = Capacity * Unit /\ last = 0
    /\ registry = {} /\ counters = [d \in Destinations |-> Zero]
    /\ bound = None /\ chartFailure = None
    /\ call = None
    /\ requests = <<>> /\ results = <<>>

Next ==
    \/ \E f \in Frames, d \in Destinations, w \in Drawings : Begin(f, d, w)
    \/ PreFlight \/ Acquire \/ Sleep \/ Settle \/ SkipChart \/ Unwind
    \/ \E a \in Answers, t \in Durations : SendText(a, t) \/ SendChart(a, t)
    \/ \E t \in Pauses : Pass(t)

Spec == Init /\ [][Next]_delivery

-----------------------------------------------------------------------------
(* Properties                                                              *)

\* Every variable holds records of the kinds above, and no counter leaves its range.
TypeOK ==
    /\ setup \in Setups /\ clock \in Nat
    /\ tokens \in 0 .. Capacity * Unit /\ last \in 0 .. clock
    /\ registry \subseteq Ids
    /\ counters \in [Destinations -> [States -> Nat]]
    /\ chartFailure \in {None, "rate-limited", "http", "error"}
    /\ call \in Calls \union {None}
    /\ requests \in Seq(Requests) /\ results \in Seq(Results)

\* A receipt says what is known: DELIVERED only after a confirmation (or in a dry run), SENT
\* after an acceptance without one, UNKNOWN after a timeout, FAILED only when no request of
\* the call was accepted or timed out, NOT_ATTEMPTED and SKIPPED_DUPLICATE without any
\* request, and a duplicate is skipped only when an earlier call reported the delivery
\* (DeliveryState in delivery/models.py, deliver_message, TelegramSink.deliver_payload).
ReceiptTellsTheTruth ==
    \A k \in 1 .. Len(results) :
        LET r == results[k]
            final == r.asked[Len(r.asked)]
        IN  CASE r.state = "DELIVERED" -> setup.dryRun \/ (r.asked # <<>> /\ Confirms(final))
              [] r.state = "SENT" -> r.asked # <<>> /\ Accepts(final) /\ ~ Confirms(final)
              [] r.state = "UNKNOWN" -> r.asked # <<>> /\ final = Timeout
              [] r.state = "FAILED" -> \A i \in 1 .. Len(r.asked) :
                                           ~ Accepts(r.asked[i]) /\ r.asked[i] # Timeout
              [] r.state = "NOT_ATTEMPTED" -> r.asked = <<>>
              [] r.state = "SKIPPED_DUPLICATE" ->
                    r.asked = <<>> /\ \E j \in 1 .. k - 1 :
                        results[j].id = r.id /\ results[j].state \in {"DELIVERED", "SENT"}
              [] r.state = "raised" -> TRUE

IsText(i, id) == requests[i].kind = "text" /\ requests[i].id = id

\* With deduplication on, a text the API accepted is never sent again by this process,
\* unless its call was left by an exception (DeliveryRegistry in delivery/sink.py).
AcceptedIsFinal ==
    setup.deduplicate =>
        \A i, j \in 1 .. Len(requests) :
            /\ i < j /\ IsText(i, requests[i].id) /\ IsText(j, requests[i].id)
            /\ Accepts(requests[i].answer)
            => results[requests[i].call].state = "raised"

\* Within one call nothing follows a text that was accepted, that timed out or whose
\* connection broke: an ambiguous outcome is not retried silently (deliver_message,
\* TelegramSink._send_text).
NoSilentRetry ==
    \A i, j \in 1 .. Len(requests) :
        /\ i < j /\ requests[i].call = requests[j].call
        /\ IsText(i, requests[i].id) /\ requests[j].kind = "text"
        => /\ ~ Accepts(requests[i].answer)
           /\ requests[i].answer.kind \notin {"timeout", "broken"}

\* A message is settled once: by this process and within a call.
SettledOnce == AcceptedIsFinal /\ NoSilentRetry

\* Between any two requests, texts and charts alike, no more were issued than a full bucket
\* and its refill since the first of them allow; the first may have taken its token before
\* the backoff it slept (TelegramRateLimiter, TelegramSink._send_text).
RequestRateIsBounded ==
    \A i, j \in 1 .. Len(requests) :
        i < j => (j - i) * Unit <= Capacity * Unit + (requests[j].at - requests[i].at) * Rate

\* The parts of a caption obey the presentation limit and hold every line once, in order
\* and without a gap; a line is torn only when it is longer than a part, and only between
\* two parts, for within one the pieces are joined by newlines
\* (split_caption in delivery/formatting.py).
PartsCarryTheCaption ==
    call # None /\ call.step = "attempt" =>
        LET lines == call.outcome.rendered.lines
            parts == call.outcome.rendered.parts
        IN  /\ setup.show.split =>
                \A k \in 1 .. Len(parts) : PartLength(parts[k]) <= MaxCaptionLength
            /\ parts[1][1].line = 1 /\ parts[1][1].from = 1
            /\ \A k \in 1 .. Len(parts) : \A i \in 1 .. Len(parts[k]) :
                LET p == parts[k][i]
                IN  /\ p.line \in 1 .. Len(lines)
                    /\ p.from <= p.to /\ p.to <= lines[p.line].length
                    /\ i < Len(parts[k]) =>
                           p.to = lines[p.line].length /\ Follows(parts[k][i + 1], p, lines)
                    /\ i = Len(parts[k]) /\ k < Len(parts) => Follows(parts[k + 1][1], p, lines)
                    /\ i = Len(parts[k]) /\ k = Len(parts) =>
                           p.line = Len(lines) /\ p.to = lines[p.line].length

\* Nothing stale can be sent: a payload is bound exactly while its call runs, it is the one
\* of that call, and every constructor on the way accepts what it is given
\* (TelegramPayloadBridge, DeliveryOutcome, TransportPayload, RenderedSignalMessage).
BoundToItsCall ==
    IF call = None
    THEN bound = None
    ELSE /\ OutcomeIsValid(call.outcome) /\ PayloadIsValid(bound)
         /\ BridgeAccepts(bound, Attempt(call.outcome, call.attempt))

\* What a call is about to send is its own message, all of it.
CallCarriesItsMessage == BoundToItsCall /\ PartsCarryTheCaption

\* What TelegramSink says of charts: "A chart failure never invalidates the delivered text"
\* (delivery/telegram/sink.py, deliver_payload).
ChartNeverInvalidatesText ==
    \A k \in 1 .. Len(results) :
        (\E i \in 1 .. Len(results[k].asked) : Confirms(results[k].asked[i]))
        => results[k].state = "DELIVERED"

=============================================================================
