------------------------------ MODULE ModelDriver ------------------------------
(***************************************************************************)
(* One model request (src/model/driver.rs, driver/failure.rs, time.rs, and *)
(* map_model_failure of the runner): the attempts, their child tokens, the *)
(* effective deadline, delivery-aware retries and backoff.  The provider   *)
(* behind Model::start and its stream is the environment: it may answer    *)
(* with anything its types allow, or never.  What a stream event does to   *)
(* the response is Assembler.tla; here it is accepted or refused.          *)
(*                                                                         *)
(* Time is a counter; an action happens at the instant `now`.              *)
(***************************************************************************)
EXTENDS Naturals

CONSTANTS
  MaxAttempts,      \* model_retry_attempts
  BaseDelay,        \* model_retry_base_delay
  MaxRetryDelay,    \* MAX_MODEL_RETRY_DELAY
  RetryAfters,      \* retry_after hints a provider may give
  Turns,            \* turn deadlines a caller may pass
  Timeouts,         \* model_call_timeout
  MaxInstant,       \* the last instant checked_add can represent
  Clock             \* bound: the clock stops here

\* LoopOptions::validate.
ASSUME DriverAssumption ==
  /\ MaxAttempts \in Nat \ {0}
  /\ BaseDelay \in Nat \ {0} /\ MaxRetryDelay \in Nat /\ BaseDelay <= MaxRetryDelay
  /\ RetryAfters \subseteq Nat /\ Turns \subseteq Nat /\ Timeouts \subseteq Nat \ {0}
  /\ MaxInstant \in Nat /\ Clock \in Nat

VARIABLES
  now,          \* the clock
  cancelled,    \* ModelCallContext::cancellation, the loop's root token
  turn,         \* ModelCallContext::deadline
  timeout,      \* ModelDriverConfig::model_call_timeout
  valid,        \* what validate_request says of the request
  pc,           \* where run_detailed is
  deadline,     \* the effective deadline
  source,       \* its DeadlineSource
  attempt,      \* attempt
  observed,     \* Assembler::observed_event of the attempt
  live,         \* attempts whose child token is not cancelled
  failure,      \* the error of the last failed attempt
  delay,        \* the delay evaluate_retry chose
  retryAt,      \* retry_at
  result,       \* {} or what run_detailed returned
  path,         \* what map_model_failure makes of it: {} or one FailPath
  starts,       \* history: calls of Model::start
  streamed,     \* history: attempts that yielded an event
  delivered,    \* history: attempts whose request may have reached the provider
  failedAt      \* history: when the last attempt failed

callVars    == <<now, cancelled, turn, timeout, valid>>
planVars    == <<deadline, source>>
attemptVars == <<attempt, observed, live, starts, streamed, delivered>>
retryVars   == <<failure, delay, retryAt, failedAt>>
driverVars  == <<callVars, pc, planVars, attemptVars, retryVars, result, path>>

Kinds      == {"Provider", "Timeout", "Cancelled", "Panicked", "InvalidRequest",
               "InvalidProviderResponse", "IncompleteResponse", "UnexpectedToolCall"}
Deliveries == {"NotStarted", "Started", "Unknown"}
Sources    == {"Turn", "Port"}

\* RetryHint: {} is Never, {d} is Retryable with retry_after d (0 for none).
Hints      == {{}} \cup {{d} : d \in RetryAfters \cup {0}}
Errors     == [kind : Kinds, delivery : Deliveries, hint : Hints]

\* What ModelError's constructors admit: only not_started makes a retryable error.
\* A provider may return any of them, the kinds the driver generates included.
ModelErrors == {e \in Errors : e.hint # {} => e.delivery = "NotStarted"}

\* generated_error: never retryable.
generated_error(kind, delivery) == [kind |-> kind, delivery |-> delivery, hint |-> {}]

observed_delivery == IF observed THEN "Started" ELSE "Unknown"

Larger(a, b)  == IF a >= b THEN a ELSE b
Smaller(a, b) == IF a <= b THEN a ELSE b

DriverInit ==
  /\ now = 0
  /\ cancelled = FALSE
  /\ turn \in Turns
  /\ timeout \in Timeouts
  /\ valid \in BOOLEAN
  /\ pc = "Called"
  /\ deadline = 0
  /\ source = "Port"
  /\ attempt = 0
  /\ observed = FALSE
  /\ live = {}
  /\ failure = generated_error("Provider", "NotStarted")
  /\ delay = 0
  /\ retryAt = 0
  /\ result = {}
  /\ path = {}
  /\ starts = 0
  /\ streamed = {}
  /\ delivered = {}
  /\ failedAt = 0

-----------------------------------------------------------------------------
(* Deadlines and retries. *)

\* Mutant: a tie goes to the port timeout.
TurnWins_not_on_tie == turn < now + timeout

\* effective_deadline: the earlier of the two; a tie goes to the turn.
TurnWins == turn <= now + timeout

\* Mutant: only the token interrupts.
Interrupts_not_at_deadline ==
  IF cancelled THEN {[kind |-> "Cancelled", source |-> {}]} ELSE {}

\* What precheck, and the biased selects, find before anything else.
Interrupts ==
  IF cancelled THEN {[kind |-> "Cancelled", source |-> {}]}
  ELSE IF now >= deadline THEN {[kind |-> "Timeout", source |-> {source}]}
  ELSE {}

\* base_delay doubled `i` times, capped at MaxRetryDelay.
exponential[i \in Nat] ==
  IF i = 0 THEN BaseDelay ELSE Smaller(2 * exponential[i - 1], MaxRetryDelay)

\* Mutant: the provider's hint replaces the exponential delay.
delay_for_retry_hint_only(i, hint) == {h \in hint : h <= MaxRetryDelay}

\* delay_for_retry: at least the provider's hint, none if that is too long.
delay_for_retry(i, hint) == {Larger(h, exponential[i]) : h \in {g \in hint : g <= MaxRetryDelay}}

AttemptsLeft == attempt + 1 < MaxAttempts

\* evaluate_retry and retry_fits: {} or the delay before the next attempt.
evaluate_retry(error, seen) ==
  {d \in delay_for_retry(attempt, error.hint) :
     AttemptsLeft /\ ~seen /\ error.delivery = "NotStarted" /\ now + d < deadline}

\* normalize_after_event: after an event no error is retryable.
normalize_after_event(error) ==
  IF observed THEN [error EXCEPT !.delivery = "Started", !.hint = {}] ELSE error

Return(r) == pc' = "Returned" /\ result' = {r}

\* The driver gives up with an error.
Fail(error, src) == Return([ok |-> FALSE, error |-> error, source |-> src])

\* run_attempt returns an AttemptFailure: its drop guards cancel the child token,
\* and the driver plans a retry or gives up.  An error that says NotStarted, from
\* an attempt that produced no event, is the provider's word that nothing was sent.
AttemptEnds(error, src, seen) ==
  /\ live' = live \ {attempt}
  /\ observed' = seen
  /\ failure' = error
  /\ failedAt' = now
  /\ delivered' = IF error.delivery = "NotStarted" /\ attempt \notin streamed
                    THEN delivered \ {attempt} ELSE delivered
  /\ \/ evaluate_retry(error, seen) = {} /\ Fail(error, src) /\ UNCHANGED delay
     \/ /\ delay' \in evaluate_retry(error, seen)
        /\ pc' = "Retry"
        /\ UNCHANGED result
  /\ UNCHANGED <<callVars, planVars, attempt, starts, streamed, retryAt, path>>

-----------------------------------------------------------------------------
(* run_detailed. *)

Begin ==
  /\ pc = "Called"
  /\ IF now + timeout > MaxInstant
       THEN Fail(generated_error("InvalidRequest", "NotStarted"), {}) /\ UNCHANGED planVars
       ELSE /\ deadline' = IF TurnWins THEN turn ELSE now + timeout
            /\ source' = IF TurnWins THEN "Turn" ELSE "Port"
            /\ pc' = "Check"
            /\ UNCHANGED result
  /\ UNCHANGED <<callVars, attemptVars, retryVars, path>>

\* precheck, and before the first attempt validate_request, refuse to start.
Refuse ==
  /\ pc = "Check"
  /\ \/ \E i \in Interrupts : Fail(generated_error(i.kind, "NotStarted"), i.source)
     \/ /\ Interrupts = {} /\ ~valid
        /\ Fail(generated_error("InvalidRequest", "NotStarted"), {})
  /\ UNCHANGED <<callVars, planVars, attemptVars, retryVars, path>>

\* A fresh child token, and Model::start is called.
StartAttempt ==
  /\ pc = "Check"
  /\ Interrupts = {} /\ valid
  /\ pc' = "Starting"
  /\ observed' = FALSE
  /\ live' = live \cup {attempt}
  /\ starts' = starts + 1
  /\ delivered' = delivered \cup {attempt}
  /\ UNCHANGED <<callVars, planVars, attempt, streamed, retryVars, result, path>>

\* The token or the timer wins a select of run_attempt.
Interrupted ==
  /\ pc \in {"Starting", "Streaming"}
  /\ \E i \in Interrupts :
       AttemptEnds(generated_error(i.kind, observed_delivery), i.source, observed)

\* start resolves to an error, or panics (Panicked, of unknown delivery).
StartFails(error) ==
  /\ pc = "Starting"
  /\ Interrupts = {}
  /\ AttemptEnds(error, {}, FALSE)

\* start resolves to a stream.
Streams ==
  /\ pc = "Starting"
  /\ Interrupts = {}
  /\ pc' = "Streaming"
  /\ UNCHANGED <<callVars, planVars, attemptVars, retryVars, result, path>>

\* Mutant: an event the assembler accepts does not count as observed.
StreamEvent_unobserved ==
  /\ pc = "Streaming"
  /\ Interrupts = {}
  /\ streamed' = streamed \cup {attempt}
  /\ UNCHANGED <<callVars, pc, planVars, attempt, observed, live, starts, delivered, retryVars,
                 result, path>>

\* An event the assembler accepts.
StreamEvent ==
  /\ pc = "Streaming"
  /\ Interrupts = {}
  /\ observed' = TRUE
  /\ streamed' = streamed \cup {attempt}
  /\ UNCHANGED <<callVars, pc, planVars, attempt, live, starts, delivered, retryVars, result, path>>

\* An event push refuses: the error is always Started.
EventRefused(kind) ==
  /\ pc = "Streaming"
  /\ Interrupts = {}
  /\ AttemptEnds(generated_error(kind, "Started"), {}, TRUE)

\* The stream yields an error, whatever it claims about delivery.
StreamFails(error) ==
  /\ pc = "Streaming"
  /\ Interrupts = {}
  /\ AttemptEnds(normalize_after_event(error), {}, observed)

\* Polling the stream panics, or it ends without a usable response.
StreamBreaks ==
  /\ pc = "Streaming"
  /\ Interrupts = {}
  /\ \/ \E kind \in {"Panicked", "IncompleteResponse"} :
          AttemptEnds(generated_error(kind, observed_delivery), {}, observed)
     \/ observed /\ AttemptEnds(generated_error("InvalidProviderResponse", "Started"), {}, observed)

\* Mutant: a successful attempt leaves its child token alive.
Respond_keeps_token ==
  /\ pc = "Streaming"
  /\ Interrupts = {}
  /\ observed
  /\ Return([ok |-> TRUE, error |-> failure, source |-> {}])
  /\ UNCHANGED <<callVars, planVars, attemptVars, retryVars, path>>

\* End of a complete stream.
Respond ==
  /\ pc = "Streaming"
  /\ Interrupts = {}
  /\ observed
  /\ live' = live \ {attempt}
  /\ Return([ok |-> TRUE, error |-> failure, source |-> {}])
  /\ UNCHANGED <<callVars, planVars, attempt, observed, starts, streamed, delivered, retryVars,
                 path>>

\* wait_for_retry reads the clock again: the retry may now be due after the deadline.
EnterBackoff ==
  /\ pc = "Retry"
  /\ retryAt' = now + delay
  /\ pc' = "Backoff"
  /\ UNCHANGED <<callVars, planVars, attemptVars, failure, delay, failedAt, result, path>>

\* Interrupted backoff keeps the error of the attempt as the cause.
BackoffInterrupted ==
  /\ pc = "Backoff"
  /\ \E i \in Interrupts : Fail(failure, i.source)
  /\ UNCHANGED <<callVars, planVars, attemptVars, retryVars, path>>

BackoffOver ==
  /\ pc = "Backoff"
  /\ Interrupts = {}
  /\ now >= retryAt
  /\ attempt' = attempt + 1
  /\ pc' = "Check"
  /\ UNCHANGED <<callVars, planVars, observed, live, starts, streamed, delivered, retryVars,
                 result, path>>

\* Mutant: the token is not consulted, only what the driver says.
map_model_failure_ignores_cancel(r) ==
  IF r.source = {"Turn"} THEN "Deadline"
  ELSE IF r.error.kind \in {"InvalidProviderResponse", "IncompleteResponse", "UnexpectedToolCall"}
    THEN "InvalidModelResponse"
  ELSE "Model"

\* map_model_failure.
map_model_failure(r) ==
  IF cancelled THEN "Cancelled"
  ELSE IF r.source = {"Turn"} THEN "Deadline"
  ELSE IF r.error.kind \in {"InvalidProviderResponse", "IncompleteResponse", "UnexpectedToolCall"}
    THEN "InvalidModelResponse"
  ELSE "Model"

\* The runner takes the driver's answer.
TakeResult ==
  /\ pc = "Returned"
  /\ \E r \in result : path' = IF r.ok THEN {} ELSE {map_model_failure(r)}
  /\ pc' = "Done"
  /\ UNCHANGED <<callVars, planVars, attemptVars, retryVars, result>>

-----------------------------------------------------------------------------
\* Cancel, shutdown or owner drop, from any thread, while the call lasts: once it is
\* over, `cancelled` is what the runner saw when it took the answer.
CancelCall ==
  /\ ~cancelled /\ pc # "Done"
  /\ cancelled' = TRUE
  /\ UNCHANGED <<now, turn, timeout, valid, pc, planVars, attemptVars, retryVars, result, path>>

Tick ==
  /\ now < Clock
  /\ now' = now + 1
  /\ UNCHANGED <<cancelled, turn, timeout, valid, pc, planVars, attemptVars, retryVars, result, path>>

\* Steps the driver takes by itself, whatever the provider does.
DriverStep ==
  Begin \/ Refuse \/ StartAttempt \/ Interrupted \/ EnterBackoff \/ BackoffInterrupted
    \/ BackoffOver \/ TakeResult

\* Steps that need the provider to answer.
ProviderStep ==
  \/ \E error \in ModelErrors : StartFails(error) \/ StreamFails(error)
  \/ Streams
  \/ StreamEvent
  \/ \E kind \in {"InvalidProviderResponse", "UnexpectedToolCall"} : EventRefused(kind)
  \/ StreamBreaks
  \/ Respond

DriverDone == pc = "Done" /\ UNCHANGED driverVars

DriverNext == DriverStep \/ ProviderStep \/ CancelCall \/ Tick \/ DriverDone

DriverSpec == DriverInit /\ [][DriverNext]_driverVars

\* The runner polls the driver and time passes; the provider owes nothing.
DriverFairSpec == DriverSpec /\ WF_driverVars(DriverStep) /\ WF_driverVars(Tick)

-----------------------------------------------------------------------------
(* Properties. *)

DriverPCs == {"Called", "Check", "Starting", "Streaming", "Retry", "Backoff", "Returned", "Done"}

\* Delivery-aware retry: at most one attempt of a request may ever have reached
\* the provider, and it is the last one.  A retry never follows an event, a
\* timeout, a panic or an error of unknown delivery, whatever errors the
\* provider claims after it has streamed something.
AtMostOneDelivery == delivered \subseteq {attempt}

\* model_retry_attempts bounds the calls of Model::start, and a retry is never
\* planned with no attempt left.
AttemptsBounded ==
  /\ starts <= MaxAttempts
  /\ pc \in {"Retry", "Backoff", "Check"} => attempt < MaxAttempts /\ starts <= attempt + 1

\* A child token lives only while its attempt runs: nothing survives into a
\* backoff or past the return (model.md: cancelled on every attempt ending).
TokensReleased == live = IF pc \in {"Starting", "Streaming"} THEN {attempt} ELSE {}

\* A retry waits at least base_delay, and at least what the provider asked for.
RetriesAreSpaced ==
  [][starts' # starts /\ starts > 0 =>
       /\ now >= failedAt + BaseDelay
       /\ \A h \in failure.hint : now >= failedAt + h]_driverVars

\* No attempt starts at or after the effective deadline or after a cancellation.
StartsInTime == [][starts' # starts => now < deadline /\ ~cancelled]_driverVars

\* What a failed call becomes (map_model_failure): Cancelled exactly when the loop's
\* token is cancelled, whatever the provider or the driver made of it and also when
\* the cancel comes after the driver returned; Deadline only, and unless cancelled
\* always, when the loop's deadline stopped the call, be it in a backoff; never
\* Deadline when the model's own timeout did.  A timeout too long for the clock
\* (InvalidDeadline) starts nothing and is a plain model failure.
FailureMapped ==
  /\ "Deadline" \in path => now >= turn /\ deadline = turn
  /\ \A r \in result :
       /\ r.source # {} => now >= deadline
       /\ pc = "Done" /\ ~r.ok => (cancelled <=> path = {"Cancelled"})
       /\ pc = "Done" /\ r.source # {} /\ deadline = turn => path \subseteq {"Deadline", "Cancelled"}
  /\ timeout > MaxInstant => starts = 0 /\ path \subseteq {"Model", "Cancelled"}

\* The call returns although the provider may never answer, at the latest when
\* its effective deadline passes.
DriverReturns == <>(pc = "Done")
=============================================================================
