--------------------------- MODULE ModelDriverProofs ---------------------------
(***************************************************************************)
(* Safety of the model driver for every retry limit, delay, hint, deadline *)
(* and timeout, and of the assembler for every stream, budget and cut.     *)
(*                                                                         *)
(* Two recursive functions are part of the model: the exponential delay,   *)
(* and normalize_model_text.  What they compute is proved by induction on  *)
(* a set of numbers (SetInduction), in two parts: the function satisfies   *)
(* its equation, and what follows from the equation.                       *)
(***************************************************************************)
EXTENDS ModelDriver, Assembler, SequenceTheorems, FunctionTheorems, FiniteSetTheorems,
        WellFoundedInduction, TLAPS

(* Induction with a set in the place of the predicate. *)

\* A set of naturals has a least element.
LEMMA LeastNat ==
  ASSUME NEW T, T \subseteq Nat, T # {}
  PROVE  \E x \in T : \A y \in T : x <= y
  <1> DEFINE R == {ss \in Nat \X Nat : ss[1] < ss[2]}
  <1>1. OpToRel(<, Nat) = R
    BY DEF OpToRel
  <1>2. IsWellFoundedOn(R, Nat)
    BY <1>1, NatLessThanWellFounded
  <1> HIDE DEF R
  <1>3. PICK x \in T : \A y \in T : ~(<<y, x>> \in R)
    BY <1>2, WFMin
  <1>4. ASSUME NEW y \in T PROVE x <= y
    <2>1. x \in Nat /\ y \in Nat /\ <<y, x>> \notin R
      BY <1>3
    <2>2. ~(y < x)
      BY <2>1 DEF R
    <2> QED BY <2>1, <2>2
  <1> QED BY <1>4

\* A set with 0 and with every successor of its members holds all naturals.
LEMMA SetInduction ==
  ASSUME NEW S, 0 \in S, \A n \in Nat : n \in S => n + 1 \in S
  PROVE  \A n \in Nat : n \in S
  <1> DEFINE T == {n \in Nat : n \notin S}
  <1> SUFFICES ASSUME T # {} PROVE FALSE
    OBVIOUS
  <1>1. PICK x \in T : \A y \in T : x <= y
    BY LeastNat
  <1>2. x # 0 /\ x - 1 \in Nat
    BY <1>1
  <1>3. x - 1 \in T
    BY <1>2
  <1> QED BY <1>1, <1>2, <1>3

-----------------------------------------------------------------------------
(* The driver. *)

DriverTyping ==
  /\ now \in Nat /\ turn \in Nat /\ timeout \in Nat /\ deadline \in Nat
  /\ attempt \in Nat /\ starts \in Nat
  /\ pc \in DriverPCs
  /\ source \in Sources
  /\ observed \in BOOLEAN

\* An attempt that may have delivered is never left for another one; what was
\* streamed was streamed by this attempt or an earlier one, and was noticed.
DeliveryInv ==
  /\ delivered \subseteq {attempt}
  /\ pc \in {"Called", "Check", "Retry", "Backoff"} => delivered = {}
  /\ \A i \in streamed : i \in Nat /\ i <= attempt
  /\ pc \in {"Called", "Check", "Starting"} => attempt \notin streamed
  /\ pc = "Streaming" /\ attempt \in streamed => observed

\* Attempts and calls of Model::start move together.
CountInv ==
  /\ attempt < MaxAttempts /\ starts <= attempt + 1
  /\ pc \in {"Called", "Check"} => starts = attempt
  /\ pc \in {"Starting", "Streaming", "Retry", "Backoff"} => starts = attempt + 1
  /\ pc \in {"Retry", "Backoff"} => attempt + 1 < MaxAttempts

\* Once planned, the deadline is the turn's exactly when its source says so.
PlanInv ==
  \/ pc = "Called"
  \/ source = "Turn" /\ deadline = turn
  \/ source = "Port" /\ deadline < turn
  \/ pc \in {"Returned", "Done"} /\ \A r \in result : r.source = {}

\* A blamed deadline has passed, and map_model_failure reads the one result.
ResultInv ==
  /\ pc \notin {"Returned", "Done"} => result = {}
  /\ pc # "Done" => path = {}
  /\ \A r, q \in result : r = q
  /\ \A r \in result : r.source # {} => r.source = {source} /\ now >= deadline
  /\ pc = "Done" /\ path # {} =>
       \E r \in result : ~r.ok /\ (\/ path = {"Cancelled"}
                                   \/ r.source = {"Turn"} /\ path = {"Deadline"}
                                   \/ r.source # {"Turn"} /\ "Deadline" \notin path)
  /\ pc = "Done" => \A r \in result : ~r.ok => (cancelled <=> path = {"Cancelled"})

\* With a timeout that no instant can hold the call never gets past Begin.
OverflowInv ==
  timeout > MaxInstant =>
    /\ pc \in {"Called", "Returned", "Done"} /\ starts = 0
    /\ \A r \in result : r.source = {} /\ r.error.kind = "InvalidRequest"
    /\ path \subseteq {"Model", "Cancelled"}

DriverInv ==
  /\ DriverTyping
  /\ DeliveryInv
  /\ CountInv
  /\ TokensReleased
  /\ PlanInv
  /\ ResultInv
  /\ OverflowInv

\* The initial state.
LEMMA DriverInitInv == DriverInit => DriverInv
  <1> SUFFICES ASSUME DriverInit PROVE DriverInv
    OBVIOUS
  <1> USE DriverAssumption DEF DriverInit
  <1>1. DriverTyping
    BY DEF DriverTyping, DriverPCs, Sources
  <1>2. DeliveryInv /\ CountInv
    BY DEF DeliveryInv, CountInv
  <1>3. TokensReleased /\ PlanInv /\ ResultInv
    BY DEF TokensReleased, PlanInv, ResultInv
  <1>4. OverflowInv
    BY DEF OverflowInv
  <1> QED BY <1>1, <1>2, <1>3, <1>4 DEF DriverInv

\* Past Begin the timeout fits the clock, and it does not change.
LEMMA OverflowKept ==
  ASSUME OverflowInv, pc \notin {"Called", "Returned", "Done"}, UNCHANGED timeout
  PROVE  OverflowInv'
  BY DEF OverflowInv

\* Giving up with one error keeps the facts about results.
LEMMA FailInv ==
  ASSUME NEW error, NEW src, Fail(error, src), path' = {},
         UNCHANGED <<now, deadline, source>>,
         src # {} => src = {source} /\ now >= deadline
  PROVE  ResultInv' /\ pc' = "Returned" /\ (src = {} => \A q \in result' : q.source = {})
  <1> DEFINE r == [ok |-> FALSE, error |-> error, source |-> src]
  <1>1. result' = {r} /\ pc' = "Returned" /\ r.source = src
    BY DEF Fail, Return
  <1> HIDE DEF r
  <1>2. \A q \in result' : q = r
    BY <1>1
  <1> QED BY <1>1, <1>2 DEF ResultInv

\* However an attempt ends, a retry is planned only if nothing was delivered.
LEMMA AttemptEndsInv ==
  ASSUME DriverInv,
         NEW error, NEW src, NEW seen \in BOOLEAN,
         pc \in {"Starting", "Streaming"},
         ~seen => attempt \notin streamed,
         src # {} => src = {source} /\ now >= deadline,
         AttemptEnds(error, src, seen)
  PROVE  DriverInv'
  <1> USE DEF DriverInv, AttemptEnds, callVars, planVars
  <1>1. /\ pc' \in {"Returned", "Retry"}
        /\ pc' = "Retry" => /\ attempt + 1 < MaxAttempts
                            /\ ~seen
                            /\ error.delivery = "NotStarted"
                            /\ result' = result
        /\ pc' = "Returned" => result' = {[ok |-> FALSE, error |-> error, source |-> src]}
    BY DEF evaluate_retry, AttemptsLeft, Fail, Return
  <1>2. DriverTyping'
    BY <1>1 DEF DriverTyping, DriverPCs
  <1>3. DeliveryInv'
    BY <1>1 DEF DeliveryInv, DriverTyping
  <1>4. CountInv'
    BY <1>1 DEF CountInv
  <1>5. TokensReleased'
    BY <1>1 DEF TokensReleased
  <1>6. PlanInv'
    BY <1>1 DEF PlanInv
  <1>7. ResultInv'
    <2>1. path' = {} /\ UNCHANGED <<now, deadline, source>>
      BY DEF ResultInv
    <2>3. CASE pc' = "Returned"
      <3>1. Fail(error, src)
        BY <2>3
      <3> HIDE DEF AttemptEnds
      <3> QED BY <2>1, <3>1, FailInv
    <2>4. CASE pc' = "Retry"
      BY <1>1, <2>1, <2>4 DEF ResultInv
    <2> QED BY <1>1, <2>3, <2>4
  <1>8. OverflowInv'
    BY OverflowKept
  <1> QED BY <1>2, <1>3, <1>4, <1>5, <1>6, <1>7, <1>8

\* The invariant is inductive.
LEMMA DriverStepInv == DriverInv /\ [DriverNext]_driverVars => DriverInv'
  <1> SUFFICES ASSUME DriverInv, [DriverNext]_driverVars PROVE DriverInv'
    OBVIOUS
  <1> USE DriverAssumption DEF callVars, planVars, attemptVars, retryVars
  <1>a. /\ DriverTyping /\ DeliveryInv /\ CountInv /\ TokensReleased /\ PlanInv /\ ResultInv
        /\ OverflowInv
    BY DEF DriverInv
  <1>1. CASE Begin
    <2>0. turn \in Nat /\ now \in Nat /\ timeout \in Nat /\ now + timeout \in Nat
      BY <1>a DEF DriverTyping
    <2>1. DriverTyping' /\ DeliveryInv'
      BY <1>1, <1>a, <2>0
      DEF Begin, DriverTyping, DriverPCs, Sources, DeliveryInv, Fail, Return
    <2>2. CountInv' /\ TokensReleased'
      BY <1>1, <1>a DEF Begin, CountInv, TokensReleased, Fail, Return, DriverTyping
    <2>3. CASE now + timeout > MaxInstant
      <3>1. /\ Fail(generated_error("InvalidRequest", "NotStarted"), {})
            /\ path' = {} /\ UNCHANGED <<now, deadline, source>>
        BY <1>1, <1>a, <2>3 DEF Begin, ResultInv
      <3>2. ResultInv' /\ pc' = "Returned" /\ \A q \in result' : q.source = {}
        BY <3>1, FailInv
      <3>3. PlanInv'
        BY <3>2 DEF PlanInv
      <3>4. OverflowInv'
        BY <1>1, <1>a, <3>1, <3>2
        DEF Begin, OverflowInv, Fail, Return, generated_error, CountInv, DriverTyping, ResultInv
      <3> QED BY <2>1, <2>2, <3>2, <3>3, <3>4 DEF DriverInv
    <2>4. CASE ~(now + timeout > MaxInstant)
      <3>1. /\ pc = "Called" /\ pc' = "Check" /\ UNCHANGED <<result, path, turn, now>>
            /\ deadline' = IF TurnWins THEN turn ELSE now + timeout
            /\ source' = IF TurnWins THEN "Turn" ELSE "Port"
        BY <1>1, <2>4 DEF Begin
      <3>2. PlanInv'
        BY <3>1, <2>0 DEF PlanInv, TurnWins
      <3>3. ResultInv'
        BY <3>1, <1>a DEF ResultInv
      <3>4. OverflowInv'
        BY <1>1, <2>0, <2>4 DEF Begin, OverflowInv
      <3> QED BY <2>1, <2>2, <3>2, <3>3, <3>4 DEF DriverInv
    <2> QED BY <2>3, <2>4
  <1>2. CASE Refuse
    <2>1. \E e, src : Fail(e, src) /\ (src # {} => src = {source} /\ now >= deadline)
      BY <1>2 DEF Refuse, Interrupts
    <2>2. UNCHANGED <<callVars, planVars, attemptVars, retryVars, path>>
      BY <1>2 DEF Refuse
    <2>3. ResultInv' /\ pc' = "Returned" /\ pc = "Check"
      <3>1. path' = {} /\ UNCHANGED <<now, deadline, source>> /\ pc = "Check"
        BY <1>2, <2>2, <1>a DEF Refuse, ResultInv
      <3> QED BY <2>1, <3>1, FailInv
    <2>4. DriverTyping' /\ DeliveryInv'
      BY <2>2, <2>3, <1>a DEF DriverTyping, DriverPCs, DeliveryInv
    <2>5. CountInv' /\ TokensReleased'
      BY <2>2, <2>3, <1>a DEF CountInv, TokensReleased, DriverTyping
    <2>6. PlanInv'
      BY <2>2, <2>3, <1>a DEF PlanInv
    <2>7. OverflowInv'
      BY <1>2, <1>a, OverflowKept DEF Refuse
    <2> QED BY <2>3, <2>4, <2>5, <2>6, <2>7 DEF DriverInv
  <1>3. CASE StartAttempt
    <2>0. attempt \in Nat /\ starts \in Nat
      BY <1>a DEF DriverTyping
    <2>1. /\ pc = "Check" /\ pc' = "Starting" /\ observed' = FALSE
          /\ delivered' = delivered \cup {attempt} /\ live' = live \cup {attempt}
          /\ starts' = starts + 1
          /\ UNCHANGED <<now, turn, timeout, deadline, source, attempt, streamed, result, path>>
      BY <1>3 DEF StartAttempt
    <2>2. DriverTyping'
      <3>1. observed' \in BOOLEAN
        BY <2>1, Zenon
      <3>2. pc' \in DriverPCs /\ starts' \in Nat
        BY <2>0, <2>1 DEF DriverPCs
      <3> QED BY <2>1, <1>a, <3>1, <3>2 DEF DriverTyping
    <2>3. DeliveryInv'
      <3>1. delivered = {} /\ attempt \notin streamed /\ \A i \in streamed : i \in Nat /\ i <= attempt
        BY <2>1, <1>a DEF DeliveryInv
      <3>2. delivered' = {attempt}
        BY <2>1, <3>1
      <3> QED BY <2>1, <3>1, <3>2 DEF DeliveryInv
    <2>4. CountInv'
      BY <2>0, <2>1, <1>a DEF CountInv
    <2>5. TokensReleased'
      BY <2>1, <1>a DEF TokensReleased
    <2>6. PlanInv' /\ ResultInv'
      BY <2>1, <1>a DEF PlanInv, ResultInv
    <2>7. OverflowInv'
      BY <1>3, <1>a, OverflowKept DEF StartAttempt
    <2> QED BY <2>2, <2>3, <2>4, <2>5, <2>6, <2>7 DEF DriverInv
  <1>4. CASE Interrupted
    <2> PICK i \in Interrupts :
          AttemptEnds(generated_error(i.kind, observed_delivery), i.source, observed)
      BY <1>4 DEF Interrupted
    <2>1. i.source # {} => i.source = {source} /\ now >= deadline
      BY DEF Interrupts
    <2>2. ~observed => attempt \notin streamed
      BY <1>4, <1>a DEF Interrupted, DeliveryInv
    <2>3. observed \in BOOLEAN /\ pc \in {"Starting", "Streaming"}
      BY <1>4, <1>a DEF Interrupted, DriverTyping
    <2> QED BY <2>1, <2>2, <2>3, AttemptEndsInv
  <1>5. ASSUME NEW error, StartFails(error) PROVE DriverInv'
    <2>1. pc = "Starting" /\ attempt \notin streamed
      BY <1>5, <1>a DEF StartFails, DeliveryInv
    <2> QED BY <1>5, <2>1, AttemptEndsInv DEF StartFails
  <1>6. CASE Streams
    <2>1. DriverTyping' /\ DeliveryInv'
      BY <1>6, <1>a DEF Streams, DriverTyping, DriverPCs, DeliveryInv
    <2>2. CountInv' /\ TokensReleased'
      BY <1>6, <1>a DEF Streams, CountInv, TokensReleased
    <2>3. PlanInv' /\ ResultInv'
      BY <1>6, <1>a DEF Streams, PlanInv, ResultInv
    <2>4. OverflowInv'
      BY <1>6, <1>a, OverflowKept DEF Streams
    <2> QED BY <2>1, <2>2, <2>3, <2>4 DEF DriverInv
  <1>7. CASE StreamEvent
    <2>1. DriverTyping' /\ DeliveryInv'
      BY <1>7, <1>a DEF StreamEvent, DriverTyping, DriverPCs, DeliveryInv
    <2>2. CountInv' /\ TokensReleased'
      BY <1>7, <1>a DEF StreamEvent, CountInv, TokensReleased
    <2>3. PlanInv' /\ ResultInv'
      BY <1>7, <1>a DEF StreamEvent, PlanInv, ResultInv
    <2>4. OverflowInv'
      BY <1>7, <1>a, OverflowKept DEF StreamEvent
    <2> QED BY <2>1, <2>2, <2>3, <2>4 DEF DriverInv
  <1>8. ASSUME NEW kind, EventRefused(kind) PROVE DriverInv'
    BY <1>8, AttemptEndsInv DEF EventRefused
  <1>9. ASSUME NEW error, StreamFails(error) PROVE DriverInv'
    <2>1. observed \in BOOLEAN /\ pc = "Streaming" /\ (~observed => attempt \notin streamed)
      BY <1>9, <1>a DEF StreamFails, DriverTyping, DeliveryInv
    <2> QED BY <1>9, <2>1, AttemptEndsInv DEF StreamFails
  <1>10. CASE StreamBreaks
    <2>1. observed \in BOOLEAN /\ pc = "Streaming" /\ (~observed => attempt \notin streamed)
      BY <1>10, <1>a DEF StreamBreaks, DriverTyping, DeliveryInv
    <2>2. \E error : AttemptEnds(error, {}, observed)
      BY <1>10 DEF StreamBreaks
    <2> QED BY <2>1, <2>2, AttemptEndsInv
  <1>11. CASE Respond
    <2>1. DriverTyping' /\ DeliveryInv'
      BY <1>11, <1>a DEF Respond, Return, DriverTyping, DriverPCs, DeliveryInv
    <2>2. CountInv' /\ TokensReleased'
      BY <1>11, <1>a DEF Respond, Return, CountInv, TokensReleased
    <2>3. PlanInv' /\ ResultInv'
      BY <1>11, <1>a DEF Respond, Return, PlanInv, ResultInv
    <2>4. OverflowInv'
      BY <1>11, <1>a, OverflowKept DEF Respond
    <2> QED BY <2>1, <2>2, <2>3, <2>4 DEF DriverInv
  <1>12. CASE EnterBackoff
    <2>1. DriverTyping' /\ DeliveryInv'
      BY <1>12, <1>a DEF EnterBackoff, DriverTyping, DriverPCs, DeliveryInv
    <2>2. CountInv' /\ TokensReleased'
      BY <1>12, <1>a DEF EnterBackoff, CountInv, TokensReleased
    <2>3. PlanInv' /\ ResultInv'
      BY <1>12, <1>a DEF EnterBackoff, PlanInv, ResultInv
    <2>4. OverflowInv'
      BY <1>12, <1>a, OverflowKept DEF EnterBackoff
    <2> QED BY <2>1, <2>2, <2>3, <2>4 DEF DriverInv
  <1>13. CASE BackoffInterrupted
    <2>1. \E src : Fail(failure, src) /\ (src # {} => src = {source} /\ now >= deadline)
      BY <1>13 DEF BackoffInterrupted, Interrupts
    <2>2. UNCHANGED <<callVars, planVars, attemptVars, retryVars, path>>
      BY <1>13 DEF BackoffInterrupted
    <2>3. ResultInv' /\ pc' = "Returned" /\ pc = "Backoff"
      <3>1. path' = {} /\ UNCHANGED <<now, deadline, source>> /\ pc = "Backoff"
        BY <1>13, <2>2, <1>a DEF BackoffInterrupted, ResultInv
      <3> QED BY <2>1, <3>1, FailInv
    <2>4. DriverTyping' /\ DeliveryInv'
      BY <2>2, <2>3, <1>a DEF DriverTyping, DriverPCs, DeliveryInv
    <2>5. CountInv' /\ TokensReleased'
      BY <2>2, <2>3, <1>a DEF CountInv, TokensReleased, DriverTyping
    <2>6. PlanInv'
      BY <2>2, <2>3, <1>a DEF PlanInv
    <2>7. OverflowInv'
      BY <1>13, <1>a, OverflowKept DEF BackoffInterrupted
    <2> QED BY <2>3, <2>4, <2>5, <2>6, <2>7 DEF DriverInv
  <1>14. CASE BackoffOver
    <2>0. attempt \in Nat /\ starts \in Nat
      BY <1>a DEF DriverTyping
    <2>1. DriverTyping' /\ DeliveryInv'
      BY <1>14, <1>a, <2>0 DEF BackoffOver, DriverTyping, DriverPCs, DeliveryInv
    <2>2. CountInv' /\ TokensReleased'
      BY <1>14, <1>a, <2>0 DEF BackoffOver, CountInv, TokensReleased
    <2>3. PlanInv' /\ ResultInv'
      BY <1>14, <1>a DEF BackoffOver, PlanInv, ResultInv
    <2>4. OverflowInv'
      BY <1>14, <1>a, OverflowKept DEF BackoffOver
    <2> QED BY <2>1, <2>2, <2>3, <2>4 DEF DriverInv
  <1>15. CASE TakeResult
    <2>1. DriverTyping' /\ DeliveryInv'
      BY <1>15, <1>a DEF TakeResult, DriverTyping, DriverPCs, DeliveryInv
    <2>2. CountInv' /\ TokensReleased'
      BY <1>15, <1>a DEF TakeResult, CountInv, TokensReleased
    <2>3. PlanInv'
      BY <1>15, <1>a DEF TakeResult, PlanInv
    <2>4. ResultInv'
      <3> PICK r \in result : path' = IF r.ok THEN {} ELSE {map_model_failure(r)}
        BY <1>15 DEF TakeResult
      <3>1. map_model_failure(r) \in {"Cancelled", "Deadline", "InvalidModelResponse", "Model"}
        BY DEF map_model_failure
      <3>2. map_model_failure(r) = "Deadline" => r.source = {"Turn"}
        BY DEF map_model_failure
      <3>3. map_model_failure(r) # "Cancelled" /\ r.source = {"Turn"}
              => map_model_failure(r) = "Deadline"
        BY DEF map_model_failure
      <3>4. cancelled <=> map_model_failure(r) = "Cancelled"
        BY DEF map_model_failure
      <3> HIDE DEF map_model_failure
      <3>5. \A q \in result' : q = r
        BY <1>15, <1>a DEF TakeResult, ResultInv
      <3>6. \A q \in result' : ~q.ok => (cancelled' <=> path' = {"Cancelled"})
        BY <1>15, <3>4, <3>5 DEF TakeResult
      <3>7. pc' = "Done" /\ UNCHANGED <<now, deadline, source, result>>
        BY <1>15 DEF TakeResult
      <3> QED BY <1>a, <3>1, <3>2, <3>3, <3>6, <3>7 DEF ResultInv
    <2>5. OverflowInv'
      <3>1. path' \subseteq {map_model_failure(r) : r \in result}
        BY <1>15 DEF TakeResult
      <3>2. ASSUME NEW r \in result, r.source = {}, r.error.kind = "InvalidRequest"
            PROVE  map_model_failure(r) \in {"Model", "Cancelled"}
        BY <3>2 DEF map_model_failure
      <3> HIDE DEF map_model_failure
      <3> QED BY <1>15, <1>a, <3>1, <3>2 DEF TakeResult, OverflowInv
    <2> QED BY <2>1, <2>2, <2>3, <2>4, <2>5 DEF DriverInv
  <1>16. CASE CancelCall
    BY <1>16, <1>a DEF CancelCall, DriverInv, DriverTyping, DeliveryInv, CountInv, TokensReleased,
                       PlanInv, ResultInv, OverflowInv
  <1>17. CASE Tick
    <2>1. DriverTyping' /\ DeliveryInv'
      BY <1>17, <1>a DEF Tick, DriverTyping, DeliveryInv
    <2>2. CountInv' /\ TokensReleased'
      BY <1>17, <1>a DEF Tick, CountInv, TokensReleased
    <2>3. PlanInv' /\ ResultInv'
      BY <1>17, <1>a DEF Tick, PlanInv, ResultInv, DriverTyping
    <2>4. OverflowInv'
      BY <1>17, <1>a DEF Tick, OverflowInv
    <2> QED BY <2>1, <2>2, <2>3, <2>4 DEF DriverInv
  <1>18. CASE UNCHANGED driverVars
    BY <1>18, <1>a DEF driverVars, DriverInv, DriverTyping, DeliveryInv, CountInv, TokensReleased,
                       PlanInv, ResultInv, OverflowInv
  <1> QED
    BY <1>1, <1>2, <1>3, <1>4, <1>5, <1>6, <1>7, <1>8, <1>9, <1>10, <1>11, <1>12, <1>13, <1>14,
       <1>15, <1>16, <1>17, <1>18
    DEF DriverNext, DriverStep, ProviderStep, DriverDone

\* The inductive invariant holds in every behaviour.
THEOREM DriverSafety == DriverSpec => []DriverInv
  BY DriverInitInv, DriverStepInv, PTL DEF DriverSpec

\* Delivery-aware retry: whatever the provider claims, at most one attempt of a
\* model request may ever have reached it.
THEOREM RetryNeverDuplicates == DriverSpec => []AtMostOneDelivery
  <1>1. DriverInv => AtMostOneDelivery
    BY DEF DriverInv, DeliveryInv, AtMostOneDelivery
  <1> QED BY <1>1, DriverSafety, PTL

\* Model::start is called at most model_retry_attempts times.
THEOREM StartsAreBounded == DriverSpec => []AttemptsBounded
  <1>1. DriverInv => AttemptsBounded
    BY DriverAssumption DEF DriverInv, CountInv, AttemptsBounded, DriverTyping
  <1> QED BY <1>1, DriverSafety, PTL

\* No child token outlives its attempt.
THEOREM NoTokenLeaks == DriverSpec => []TokensReleased
  <1>1. DriverInv => TokensReleased
    BY DEF DriverInv
  <1> QED BY <1>1, DriverSafety, PTL

\* A failed call is Cancelled exactly when the loop is, blamed on the deadline that really
\* stopped it otherwise, and a plain model failure when its timeout overflows the clock.
THEOREM DeadlineIsBlamedRightly == DriverSpec => []FailureMapped
  <1>1. DriverInv => FailureMapped
    BY DEF DriverInv, DriverTyping, PlanInv, ResultInv, OverflowInv, FailureMapped, Sources
  <1> QED BY <1>1, DriverSafety, PTL

\* No attempt starts at or after the effective deadline or after a cancellation.
THEOREM NoLateStart == DriverSpec => StartsInTime
  <1>1. DriverInv /\ [DriverNext]_driverVars
          => [starts' # starts => now < deadline /\ ~cancelled]_driverVars
    <2> SUFFICES ASSUME DriverInv, DriverNext, starts' # starts
                 PROVE  now < deadline /\ ~cancelled
      OBVIOUS
    <2>1. StartAttempt => now < deadline /\ ~cancelled
      <3>1. Interrupts = {} => ~cancelled /\ ~(now >= deadline)
        BY Zenon DEF Interrupts
      <3>2. now \in Nat /\ deadline \in Nat
        BY DEF DriverInv, DriverTyping
      <3>3. ~(now >= deadline) => now < deadline
        BY <3>2
      <3> QED BY <3>1, <3>3 DEF StartAttempt
    <2>2. ~StartAttempt => starts' = starts
      BY DEF DriverNext, DriverStep, ProviderStep, DriverDone, Begin, Refuse, Interrupted,
             StartFails, Streams, StreamEvent, EventRefused, StreamFails, StreamBreaks, Respond,
             EnterBackoff, BackoffInterrupted, BackoffOver, TakeResult, CancelCall, Tick,
             AttemptEnds, attemptVars, driverVars
    <2> QED BY <2>1, <2>2
  <1> QED BY <1>1, DriverSafety, PTL DEF DriverSpec, StartsInTime

-----------------------------------------------------------------------------
(* Backoff: the exponential delay and the spacing of the attempts. *)

\* One doubling, with f for the ones before.
Doubled(f, i) == IF i = 0 THEN BaseDelay ELSE Smaller(2 * f[i - 1], MaxRetryDelay)

\* f is the exponential delay up to the n-th.
DelaysUpTo(n, f) == f \in [Nat -> Nat] /\ \A i \in Nat : i <= n => f[i] = Doubled(f, i)

\* A doubling is a number.
LEMMA DoubledType ==
  ASSUME NEW f \in [Nat -> Nat], NEW i \in Nat PROVE Doubled(f, i) \in Nat
  <1>1. CASE i = 0
    BY <1>1, DriverAssumption DEF Doubled
  <1>2. CASE i # 0
    <2>1. f[i - 1] \in Nat
      BY <1>2
    <2> QED BY <1>2, <2>1, DriverAssumption DEF Doubled, Smaller
  <1> QED BY <1>1, <1>2

\* There is such a function up to every number.
LEMMA DelaysExist == \A n \in Nat : \E f : DelaysUpTo(n, f)
  <1> DEFINE S == {n \in Nat : \E f : DelaysUpTo(n, f)}
  <1>1. 0 \in S
    <2> DEFINE f == [i \in Nat |-> BaseDelay]
    <2>1. f \in [Nat -> Nat] /\ f[0] = Doubled(f, 0)
      BY DriverAssumption DEF Doubled
    <2> HIDE DEF f
    <2>2. \A i \in Nat : i <= 0 => i = 0
      OBVIOUS
    <2>3. DelaysUpTo(0, f)
      BY <2>1, <2>2 DEF DelaysUpTo
    <2> QED BY <2>3
  <1>2. ASSUME NEW n \in Nat, n \in S PROVE n + 1 \in S
    <2>1. PICK f : DelaysUpTo(n, f)
      BY <1>2
    <2> DEFINE g == [i \in Nat |-> Doubled(f, i)]
    <2>2. g \in [Nat -> Nat] /\ \A i \in Nat : g[i] = Doubled(f, i)
      BY <2>1, DoubledType DEF DelaysUpTo
    <2> HIDE DEF g
    <2>3. \A i \in Nat : i <= n => g[i] = f[i]
      BY <2>1, <2>2 DEF DelaysUpTo
    <2>4. ASSUME NEW i \in Nat, i <= n + 1 PROVE g[i] = Doubled(g, i)
      <3>1. CASE i = 0
        BY <2>2, <3>1 DEF Doubled
      <3>2. CASE i # 0
        <4>1. g[i - 1] = f[i - 1]
          BY <2>3, <2>4, <3>2
        <4> QED BY <2>2, <3>2, <4>1 DEF Doubled
      <3> QED BY <3>1, <3>2
    <2>5. DelaysUpTo(n + 1, g)
      BY <2>2, <2>4 DEF DelaysUpTo
    <2> QED BY <2>5
  <1> HIDE DEF S
  <1>3. \A n \in Nat : n \in S
    BY <1>1, <1>2, SetInduction
  <1> QED BY <1>3 DEF S

\* Two of them agree as far as both reach.
LEMMA DelaysAgree ==
  ASSUME NEW n \in Nat, NEW f, NEW g,
         \A i \in Nat : i <= n => f[i] = Doubled(f, i),
         \A i \in Nat : i <= n => g[i] = Doubled(g, i)
  PROVE  \A i \in Nat : i <= n => f[i] = g[i]
  <1> DEFINE S == {i \in Nat : i <= n => f[i] = g[i]}
  <1>1. 0 \in S
    BY DEF Doubled
  <1>2. ASSUME NEW i \in Nat, i \in S PROVE i + 1 \in S
    <2> SUFFICES ASSUME i + 1 <= n PROVE f[i + 1] = g[i + 1]
      OBVIOUS
    <2>1. f[i] = g[i]
      BY <1>2
    <2>2. f[i + 1] = Doubled(f, i + 1) /\ g[i + 1] = Doubled(g, i + 1)
      OBVIOUS
    <2>3. i + 1 # 0 /\ (i + 1) - 1 = i
      OBVIOUS
    <2> QED BY <2>1, <2>2, <2>3 DEF Doubled
  <1> HIDE DEF S
  <1>3. \A i \in Nat : i \in S
    BY <1>1, <1>2, SetInduction
  <1> QED BY <1>3 DEF S

\* The exponential delay satisfies the equation that defines it.
LEMMA ExponentialIs ==
  exponential \in [Nat -> Nat] /\ \A i \in Nat : exponential[i] = Doubled(exponential, i)
  <1> DEFINE Solves(f) == f = [i \in Nat |-> Doubled(f, i)]
             F(n) == CHOOSE f : DelaysUpTo(n, f)
             h == [i \in Nat |-> F(i)[i]]
  <1>1. \A n \in Nat : DelaysUpTo(n, F(n))
    BY DelaysExist
  <1> HIDE DEF F
  <1>2. ASSUME NEW i \in Nat PROVE h[i] = Doubled(h, i)
    <2>1. DelaysUpTo(i, F(i)) /\ i <= i
      BY <1>1
    <2>2. h[i] = Doubled(F(i), i)
      BY <2>1 DEF DelaysUpTo
    <2>3. CASE i = 0
      BY <2>2, <2>3 DEF Doubled
    <2>4. CASE i # 0
      <3> DEFINE j == i - 1
      <3>1. j \in Nat /\ j <= i /\ j <= j
        BY <2>4
      <3>2. DelaysUpTo(j, F(j))
        BY <1>1, <3>1
      <3>3. \A x \in Nat : x <= j => F(i)[x] = Doubled(F(i), x)
        <4> SUFFICES ASSUME NEW x \in Nat, x <= j PROVE F(i)[x] = Doubled(F(i), x)
          OBVIOUS
        <4>1. x <= i
          BY <3>1
        <4> QED BY <2>1, <4>1 DEF DelaysUpTo
      <3>4. \A x \in Nat : x <= j => F(j)[x] = Doubled(F(j), x)
        BY <3>2 DEF DelaysUpTo
      <3> HIDE DEF j
      <3>5. F(i)[j] = F(j)[j]
        BY <3>1, <3>3, <3>4, DelaysAgree
      <3>6. h[j] = F(i)[j]
        BY <3>1, <3>5
      <3> QED BY <2>2, <2>4, <3>6 DEF Doubled, j
    <2> QED BY <2>3, <2>4
  <1>3. Solves(h)
    BY <1>2
  <1> HIDE DEF h
  <1>4. exponential = CHOOSE f : Solves(f)
    BY DEF exponential, Doubled
  <1>5. Solves(exponential)
    BY <1>3, <1>4
  <1> DEFINE N == exponential
  <1> HIDE DEF N
  <1>6. N = [i \in Nat |-> Doubled(N, i)]
    BY <1>5 DEF N
  <1>7. \A i \in Nat : N[i] = Doubled(N, i)
    BY <1>6
  <1>8. ASSUME NEW i \in Nat PROVE N[i] \in Nat
    <2>1. DelaysUpTo(i, F(i)) /\ i <= i
      BY <1>1
    <2>2. /\ \A x \in Nat : x <= i => N[x] = Doubled(N, x)
          /\ \A x \in Nat : x <= i => F(i)[x] = Doubled(F(i), x)
      BY <1>7, <2>1 DEF DelaysUpTo
    <2>3. N[i] = F(i)[i]
      BY <2>1, <2>2, DelaysAgree
    <2> QED BY <2>1, <2>3 DEF DelaysUpTo
  <1>9. N \in [Nat -> Nat]
    BY <1>6, <1>8
  <1> QED BY <1>7, <1>9 DEF N

\* It never falls below base_delay, nor rises above MAX_MODEL_RETRY_DELAY.
LEMMA ExponentialBounds ==
  \A i \in Nat : exponential[i] \in Nat /\ BaseDelay <= exponential[i] /\ exponential[i] <= MaxRetryDelay
  <1> DEFINE N == exponential
             S == {i \in Nat : BaseDelay <= N[i] /\ N[i] <= MaxRetryDelay}
  <1>1. N \in [Nat -> Nat] /\ \A i \in Nat : N[i] = Doubled(N, i)
    BY ExponentialIs
  <1> HIDE DEF N
  <1>2. 0 \in S
    BY <1>1, DriverAssumption DEF Doubled
  <1>3. ASSUME NEW i \in Nat, i \in S PROVE i + 1 \in S
    <2>1. N[i] \in Nat /\ BaseDelay <= N[i]
      BY <1>1, <1>3
    <2>2. N[i + 1] = Smaller(2 * N[i], MaxRetryDelay)
      <3>1. i + 1 \in Nat /\ i + 1 # 0 /\ (i + 1) - 1 = i
        OBVIOUS
      <3> QED BY <1>1, <3>1 DEF Doubled
    <2>3. BaseDelay <= Smaller(2 * N[i], MaxRetryDelay) /\ Smaller(2 * N[i], MaxRetryDelay) <= MaxRetryDelay
      BY <2>1, DriverAssumption DEF Smaller
    <2> QED BY <2>2, <2>3
  <1> HIDE DEF S
  <1>4. \A i \in Nat : i \in S
    BY <1>2, <1>3, SetInduction
  <1> QED BY <1>1, <1>4 DEF S, N

\* At least base_delay, and at least what the provider asked for, after `since`.
Waited(t, since, hint) == t >= since + BaseDelay /\ \A h \in hint : t >= since + h

\* From the failure of an attempt to the check before the next one, the wait is long enough.
SpacingInv ==
  /\ failedAt \in Nat /\ failedAt <= now
  /\ failure.hint \subseteq Nat
  /\ pc = "Called" => starts = 0
  /\ pc = "Retry" => delay \in Nat /\ delay >= BaseDelay /\ \A h \in failure.hint : delay >= h
  /\ pc = "Backoff" => retryAt \in Nat /\ Waited(retryAt, failedAt, failure.hint)
  /\ pc = "Check" /\ starts > 0 => Waited(now, failedAt, failure.hint)

\* Waiting longer is waiting enough.
LEMMA WaitedLonger ==
  ASSUME NEW t \in Nat, NEW u \in Nat, t <= u, NEW since \in Nat, NEW hint, hint \subseteq Nat,
         Waited(t, since, hint)
  PROVE  Waited(u, since, hint)
  <1>1. ASSUME NEW h \in Nat, t >= since + h PROVE u >= since + h
    BY <1>1
  <1>2. BaseDelay \in Nat
    BY DriverAssumption
  <1> QED BY <1>1, <1>2 DEF Waited

\* A delay counted from a later instant.
LEMMA DelayIsWaited ==
  ASSUME NEW t \in Nat, NEW d \in Nat, NEW since \in Nat, since <= t, NEW hint, hint \subseteq Nat,
         d >= BaseDelay, \A h \in hint : d >= h
  PROVE  Waited(t + d, since, hint)
  <1>1. ASSUME NEW h \in Nat, d >= h PROVE t + d >= since + h
    BY <1>1
  <1>2. BaseDelay \in Nat
    BY DriverAssumption
  <1> QED BY <1>1, <1>2 DEF Waited

\* The hints of an error are at most one, and a number.
Hinted(error) == error.hint \subseteq Nat /\ \A g, h \in error.hint : g = h

\* Every error the driver can see is one of them.
LEMMA ErrorsAreHinted ==
  /\ \A error \in ModelErrors : Hinted(error) /\ Hinted(normalize_after_event(error))
  /\ \A kind, delivery : Hinted(generated_error(kind, delivery))
  <1>1. ASSUME NEW error \in ModelErrors PROVE Hinted(error)
    <2>1. error.hint \in Hints
      BY DEF ModelErrors, Errors
    <2>2. CASE error.hint = {}
      BY <2>2 DEF Hinted
    <2>3. CASE \E d \in RetryAfters \cup {0} : error.hint = {d}
      BY <2>3, DriverAssumption DEF Hinted
    <2> QED BY <2>1, <2>2, <2>3 DEF Hints
  <1>2. ASSUME NEW error \in ModelErrors PROVE Hinted(normalize_after_event(error))
    <2>1. CASE observed
      <3>1. normalize_after_event(error).hint = {}
        BY <2>1 DEF normalize_after_event, ModelErrors, Errors
      <3> QED BY <3>1 DEF Hinted
    <2>2. CASE ~observed
      BY <1>1, <2>2 DEF normalize_after_event
    <2> QED BY <2>1, <2>2
  <1>3. ASSUME NEW kind, NEW delivery PROVE Hinted(generated_error(kind, delivery))
    BY DEF Hinted, generated_error
  <1> QED BY <1>1, <1>2, <1>3

\* The delay evaluate_retry chooses.
LEMMA ChosenDelay ==
  ASSUME DriverInv, NEW error, Hinted(error), NEW seen, NEW d \in evaluate_retry(error, seen)
  PROVE  d \in Nat /\ d >= BaseDelay /\ \A h \in error.hint : d >= h
  <1>1. attempt \in Nat
    BY DEF DriverInv, DriverTyping
  <1>2. PICK h \in error.hint : d = Larger(h, exponential[attempt])
    BY DEF evaluate_retry, delay_for_retry
  <1>3. h \in Nat /\ \A g \in error.hint : g = h
    BY <1>2 DEF Hinted
  <1> DEFINE x == exponential[attempt]
  <1>4. x \in Nat /\ BaseDelay <= x /\ BaseDelay \in Nat
    BY <1>1, ExponentialBounds, DriverAssumption
  <1> HIDE DEF x
  <1>5. d = Larger(h, x)
    BY <1>2 DEF x
  <1>6. d \in Nat /\ d >= BaseDelay /\ d >= h
    BY <1>3, <1>4, <1>5 DEF Larger
  <1> QED BY <1>3, <1>6

\* However an attempt ends.
LEMMA SpacingAfterAttempt ==
  ASSUME DriverInv, SpacingInv, NEW error, NEW src, NEW seen, Hinted(error), AttemptEnds(error, src, seen)
  PROVE  SpacingInv'
  <1>1. failedAt' = now /\ now' = now /\ failure' = error /\ now \in Nat
    BY DEF AttemptEnds, callVars, DriverInv, DriverTyping
  <1>2. pc' = "Returned" \/ (pc' = "Retry" /\ delay' \in evaluate_retry(error, seen))
    BY DEF AttemptEnds, Fail, Return
  <1>3. pc' = "Retry" => delay' \in Nat /\ delay' >= BaseDelay /\ \A h \in error.hint : delay' >= h
    BY <1>2, ChosenDelay
  <1> QED BY <1>1, <1>2, <1>3 DEF SpacingInv, Hinted

\* Every step keeps the spacing: one case for each action.
LEMMA SpacingStep == DriverInv /\ SpacingInv /\ [DriverNext]_driverVars => SpacingInv'
  <1> SUFFICES ASSUME DriverInv, SpacingInv, [DriverNext]_driverVars PROVE SpacingInv'
    OBVIOUS
  <1>0. now \in Nat /\ failedAt \in Nat /\ failedAt <= now /\ failure.hint \subseteq Nat
    BY DEF DriverInv, DriverTyping, SpacingInv
  <1>1. ASSUME NEW error, NEW src, NEW seen, Hinted(error), AttemptEnds(error, src, seen) PROVE SpacingInv'
    BY <1>1, SpacingAfterAttempt
  <1>2. ASSUME UNCHANGED <<failedAt, failure, now>>, pc' \in {"Starting", "Streaming", "Returned", "Done"}
        PROVE  SpacingInv'
    BY <1>0, <1>2 DEF SpacingInv
  <1>3. CASE Begin
    <2>1. UNCHANGED <<failedAt, failure, now, starts>> /\ pc' \in {"Returned", "Check"} /\ starts = 0
      BY <1>3 DEF Begin, Fail, Return, callVars, attemptVars, retryVars, SpacingInv
    <2> QED BY <1>0, <2>1 DEF SpacingInv
  <1>4. CASE Refuse \/ BackoffInterrupted \/ TakeResult \/ StartAttempt \/ Streams \/ StreamEvent \/ Respond
    <2>1. UNCHANGED <<failedAt, failure, now>> /\ pc' \in {"Starting", "Streaming", "Returned", "Done"}
      BY <1>4 DEF Refuse, BackoffInterrupted, TakeResult, StartAttempt, Streams, StreamEvent, Respond,
                  Fail, Return, callVars, retryVars
    <2> QED BY <1>2, <2>1
  <1>5. CASE Interrupted
    <2>1. PICK i \in Interrupts : AttemptEnds(generated_error(i.kind, observed_delivery), i.source, observed)
      BY <1>5 DEF Interrupted
    <2> QED BY <1>1, <2>1, ErrorsAreHinted
  <1>6. ASSUME NEW error \in ModelErrors, StartFails(error) \/ StreamFails(error) PROVE SpacingInv'
    BY <1>1, <1>6, ErrorsAreHinted DEF StartFails, StreamFails
  <1>7. ASSUME NEW kind, EventRefused(kind) PROVE SpacingInv'
    BY <1>1, <1>7, ErrorsAreHinted DEF EventRefused
  <1>8. CASE StreamBreaks
    BY <1>1, <1>8, ErrorsAreHinted DEF StreamBreaks
  <1>9. CASE EnterBackoff
    <2>1. /\ retryAt' = now + delay /\ pc' = "Backoff" /\ UNCHANGED <<failedAt, failure, now>>
          /\ delay \in Nat /\ delay >= BaseDelay /\ \A h \in failure.hint : delay >= h
      BY <1>9 DEF EnterBackoff, SpacingInv, callVars
    <2>2. Waited(now + delay, failedAt, failure.hint)
      BY <1>0, <2>1, DelayIsWaited
    <2>3. Waited(retryAt', failedAt', failure'.hint)
      BY <2>1, <2>2
    <2>4. now + delay \in Nat
      BY <1>0, <2>1
    <2> QED BY <1>0, <2>1, <2>3, <2>4 DEF SpacingInv
  <1>10. CASE BackoffOver
    <2>1. /\ pc' = "Check" /\ UNCHANGED <<failedAt, failure, now>> /\ now >= retryAt
          /\ retryAt \in Nat /\ Waited(retryAt, failedAt, failure.hint)
      BY <1>10 DEF BackoffOver, SpacingInv, callVars, retryVars
    <2>2. Waited(now, failedAt, failure.hint)
      BY <1>0, <2>1, WaitedLonger
    <2>3. Waited(now', failedAt', failure'.hint)
      BY <2>1, <2>2
    <2> QED BY <1>0, <2>1, <2>3 DEF SpacingInv
  <1>11. CASE Tick
    <2>1. now' = now + 1 /\ UNCHANGED <<failedAt, failure, pc, starts, delay, retryAt>>
      BY <1>11 DEF Tick, attemptVars, retryVars
    <2>2. now + 1 \in Nat /\ now <= now + 1 /\ failedAt <= now + 1
      BY <1>0
    <2>3. Waited(now, failedAt, failure.hint) => Waited(now', failedAt, failure.hint)
      BY <1>0, <2>1, <2>2, WaitedLonger
    <2> QED BY <1>0, <2>1, <2>2, <2>3 DEF SpacingInv
  <1>12. CASE CancelCall \/ DriverDone \/ UNCHANGED driverVars
    <2>1. UNCHANGED <<now, failedAt, failure, pc, starts, delay, retryAt>>
      BY <1>12 DEF CancelCall, DriverDone, driverVars, callVars, attemptVars, retryVars
    <2> QED BY <2>1 DEF SpacingInv
  <1> QED BY <1>3, <1>4, <1>5, <1>6, <1>7, <1>8, <1>9, <1>10, <1>11, <1>12
      DEF DriverNext, DriverStep, ProviderStep

\* The next attempt starts base_delay, and what the provider asked for, after the last failure.
THEOREM RetriesWait == DriverSpec => RetriesAreSpaced
  <1>1. DriverInit => SpacingInv
    BY DEF DriverInit, SpacingInv, generated_error
  <1>2. DriverInv /\ SpacingInv /\ [DriverNext]_driverVars
          => [starts' # starts /\ starts > 0 =>
                /\ now >= failedAt + BaseDelay
                /\ \A h \in failure.hint : now >= failedAt + h]_driverVars
    <2> SUFFICES ASSUME DriverInv, SpacingInv, DriverNext, starts' # starts, starts > 0
                 PROVE  now >= failedAt + BaseDelay /\ \A h \in failure.hint : now >= failedAt + h
      OBVIOUS
    <2>1. ~StartAttempt => starts' = starts
      BY DEF DriverNext, DriverStep, ProviderStep, DriverDone, Begin, Refuse, Interrupted,
             StartFails, Streams, StreamEvent, EventRefused, StreamFails, StreamBreaks, Respond,
             EnterBackoff, BackoffInterrupted, BackoffOver, TakeResult, CancelCall, Tick,
             AttemptEnds, attemptVars, driverVars
    <2>2. pc = "Check"
      BY <2>1 DEF StartAttempt
    <2> QED BY <2>2 DEF SpacingInv, Waited
  <1> QED BY <1>1, <1>2, DriverSafety, SpacingStep, PTL DEF DriverSpec, RetriesAreSpaced

-----------------------------------------------------------------------------
(* The assembler: normalize_model_text is what its equation says. *)

Strings == Seq(Alphabet)

\* What the loop has left after one turn.
Rest(s) == SubSeq(s, (IF Len(s) > 1 /\ s[1] = "CR" /\ s[2] = "LF" THEN 2 ELSE 1) + 1, Len(s))

\* One turn of the loop, with f for the turns to come.
Turn(f, s) == IF s = <<>> THEN <<>> ELSE <<Translate(s[1])>> \o f[Rest(s)]

\* f is the function up to length n.
UpTo(n, f) == f \in [Strings -> Strings] /\ \A s \in Strings : Len(s) <= n => f[s] = Turn(f, s)

\* Each turn shortens the text.
LEMMA RestIsShorter ==
  ASSUME NEW s \in Strings, s # <<>>
  PROVE  Rest(s) \in Strings /\ Len(Rest(s)) < Len(s) /\ Len(Rest(s)) \in Nat
  <1>1. Len(s) \in Nat /\ Len(s) >= 1
    BY DEF Strings
  <1>2. CASE Len(s) > 1 /\ s[1] = "CR" /\ s[2] = "LF"
    BY <1>1, <1>2 DEF Rest, Strings
  <1>3. CASE ~(Len(s) > 1 /\ s[1] = "CR" /\ s[2] = "LF")
    BY <1>1, <1>3 DEF Rest, Strings
  <1> QED BY <1>2, <1>3

\* Characters stay characters.
LEMMA TranslateType == ASSUME NEW x \in Alphabet PROVE Translate(x) \in Alphabet
  BY DEF Translate, Alphabet

\* A turn yields a text.
LEMMA TurnType ==
  ASSUME NEW f \in [Strings -> Strings], NEW s \in Strings PROVE Turn(f, s) \in Strings
  <1>1. CASE s = <<>>
    BY <1>1 DEF Turn, Strings
  <1>2. CASE s # <<>>
    <2>1. s[1] \in Alphabet
      BY <1>2 DEF Strings
    <2>2. <<Translate(s[1])>> \in Strings
      BY <2>1, TranslateType DEF Strings
    <2>3. f[Rest(s)] \in Strings
      BY <1>2, RestIsShorter
    <2> QED BY <1>2, <2>2, <2>3 DEF Turn, Strings
  <1> QED BY <1>1, <1>2

\* There is such a function up to every length.
LEMMA UpToExists == \A n \in Nat : \E f : UpTo(n, f)
  <1> DEFINE S == {n \in Nat : \E f : UpTo(n, f)}
  <1>1. 0 \in S
    <2> DEFINE f == [s \in Strings |-> <<>>]
    <2>1. f \in [Strings -> Strings]
      BY DEF Strings
    <2>2. ASSUME NEW s \in Strings, Len(s) <= 0 PROVE f[s] = Turn(f, s)
      <3>1. s = <<>>
        BY <2>2 DEF Strings
      <3> QED BY <3>1 DEF Turn
    <2>3. UpTo(0, f)
      BY <2>1, <2>2 DEF UpTo
    <2> QED BY <2>3
  <1>2. ASSUME NEW n \in Nat, n \in S PROVE n + 1 \in S
    <2>1. PICK f : UpTo(n, f)
      BY <1>2
    <2>2. f \in [Strings -> Strings]
      BY <2>1 DEF UpTo
    <2> DEFINE g == [s \in Strings |-> Turn(f, s)]
    <2>3. g \in [Strings -> Strings]
      BY <2>2, TurnType
    <2>4. ASSUME NEW s \in Strings, Len(s) <= n PROVE g[s] = f[s]
      BY <2>1, <2>4 DEF UpTo
    <2>5. \A s \in Strings : g[s] = Turn(f, s)
      OBVIOUS
    <2> HIDE DEF g
    <2>6. ASSUME NEW s \in Strings, Len(s) <= n + 1 PROVE g[s] = Turn(g, s)
      <3>1. CASE s = <<>>
        BY <2>5, <3>1 DEF Turn
      <3>2. CASE s # <<>>
        <4>1. Rest(s) \in Strings /\ Len(Rest(s)) <= n
          <5>1. Len(s) \in Nat /\ Len(Rest(s)) \in Nat /\ Len(Rest(s)) < Len(s) /\ Rest(s) \in Strings
            BY <3>2, RestIsShorter DEF Strings
          <5> QED BY <2>6, <5>1
        <4>2. g[Rest(s)] = f[Rest(s)]
          BY <2>4, <4>1
        <4> QED BY <2>5, <3>2, <4>2 DEF Turn
      <3> QED BY <3>1, <3>2
    <2>7. UpTo(n + 1, g)
      BY <2>3, <2>6 DEF UpTo
    <2> QED BY <2>7
  <1> HIDE DEF S
  <1>3. \A n \in Nat : n \in S
    BY <1>1, <1>2, SetInduction
  <1> QED BY <1>3 DEF S

\* Two of them agree as far as both reach.
LEMMA UpToAgree ==
  ASSUME NEW n \in Nat, NEW f, NEW g,
         \A s \in Strings : Len(s) <= n => f[s] = Turn(f, s),
         \A s \in Strings : Len(s) <= n => g[s] = Turn(g, s)
  PROVE  \A s \in Strings : Len(s) <= n => f[s] = g[s]
  <1> DEFINE S == {m \in Nat : \A s \in Strings : Len(s) <= m /\ Len(s) <= n => f[s] = g[s]}
  <1>1. 0 \in S
    <2> SUFFICES ASSUME NEW s \in Strings, Len(s) <= 0 PROVE f[s] = g[s]
      OBVIOUS
    <2>1. s = <<>> /\ Len(s) <= n
      BY DEF Strings
    <2> QED BY <2>1 DEF Turn
  <1>2. ASSUME NEW m \in Nat, m \in S PROVE m + 1 \in S
    <2> SUFFICES ASSUME NEW s \in Strings, Len(s) <= m + 1, Len(s) <= n PROVE f[s] = g[s]
      BY <1>2
    <2>1. CASE s = <<>>
      BY <2>1 DEF Turn
    <2>2. CASE s # <<>>
      <3>1. Rest(s) \in Strings /\ Len(Rest(s)) <= m /\ Len(Rest(s)) <= n
        <4>1. Len(s) \in Nat /\ Len(Rest(s)) \in Nat /\ Len(Rest(s)) < Len(s) /\ Rest(s) \in Strings
          BY <2>2, RestIsShorter DEF Strings
        <4> QED BY <4>1
      <3>2. f[Rest(s)] = g[Rest(s)]
        BY <1>2, <3>1
      <3> QED BY <2>2, <3>2 DEF Turn
    <2> QED BY <2>1, <2>2
  <1> HIDE DEF S
  <1>3. \A m \in Nat : m \in S
    BY <1>1, <1>2, SetInduction
  <1>4. n \in S
    BY <1>3
  <1> QED BY <1>4 DEF S

\* normalize_model_text satisfies the equation that defines it, for every text.
LEMMA NormalizeIs ==
  /\ normalize_model_text \in [Strings -> Strings]
  /\ \A s \in Strings : normalize_model_text[s] = Turn(normalize_model_text, s)
  <1> DEFINE Solves(f) == f = [s \in Strings |-> Turn(f, s)]
             F(n) == CHOOSE f : UpTo(n, f)
             h == [s \in Strings |-> F(Len(s))[s]]
  <1>1. \A n \in Nat : UpTo(n, F(n))
    BY UpToExists
  <1> HIDE DEF F
  <1>2. \A s \in Strings : Len(s) \in Nat
    BY DEF Strings
  <1>3. ASSUME NEW s \in Strings PROVE h[s] = Turn(h, s)
    <2>1. UpTo(Len(s), F(Len(s)))
      BY <1>1, <1>2
    <2>2. h[s] = Turn(F(Len(s)), s)
      BY <1>2, <2>1 DEF UpTo
    <2>3. CASE s = <<>>
      BY <2>2, <2>3 DEF Turn
    <2>4. CASE s # <<>>
      <3> DEFINE r == Rest(s)
      <3>1. r \in Strings /\ Len(r) \in Nat /\ Len(r) < Len(s)
        BY <2>4, RestIsShorter
      <3>2. UpTo(Len(r), F(Len(r)))
        BY <1>1, <3>1
      <3>3. \A t \in Strings : Len(t) <= Len(r) => F(Len(s))[t] = Turn(F(Len(s)), t)
        <4> SUFFICES ASSUME NEW t \in Strings, Len(t) <= Len(r) PROVE F(Len(s))[t] = Turn(F(Len(s)), t)
          OBVIOUS
        <4>1. Len(t) <= Len(s)
          BY <1>2, <3>1
        <4> QED BY <2>1, <4>1 DEF UpTo
      <3>4. \A t \in Strings : Len(t) <= Len(r) => F(Len(r))[t] = Turn(F(Len(r)), t)
        BY <3>2 DEF UpTo
      <3>5. F(Len(s))[r] = F(Len(r))[r]
        <4>1. Len(r) <= Len(r)
          BY <3>1
        <4> QED BY <3>1, <3>3, <3>4, <4>1, UpToAgree
      <3>6. h[r] = F(Len(s))[r]
        BY <3>1, <3>5
      <3> QED BY <2>2, <2>4, <3>6 DEF Turn
    <2> QED BY <2>3, <2>4
  <1>4. Solves(h)
    BY <1>3
  <1> HIDE DEF h
  <1>5. normalize_model_text = CHOOSE f : Solves(f)
    BY DEF normalize_model_text, Turn, Rest, Strings
  <1>6. Solves(normalize_model_text)
    BY <1>4, <1>5
  <1> DEFINE N == normalize_model_text
  <1> HIDE DEF N
  <1>7. N = [s \in Strings |-> Turn(N, s)]
    BY <1>6 DEF N
  <1>8. \A s \in Strings : N[s] = Turn(N, s)
    BY <1>7
  <1>9. ASSUME NEW s \in Strings PROVE N[s] \in Strings
    <2>1. UpTo(Len(s), F(Len(s))) /\ Len(s) \in Nat /\ Len(s) <= Len(s)
      BY <1>1, <1>2
    <2>2. /\ \A t \in Strings : Len(t) <= Len(s) => N[t] = Turn(N, t)
          /\ \A t \in Strings : Len(t) <= Len(s) => F(Len(s))[t] = Turn(F(Len(s)), t)
      BY <1>8, <2>1 DEF UpTo
    <2>3. N[s] = F(Len(s))[s]
      BY <2>1, <2>2, UpToAgree
    <2> QED BY <2>1, <2>3 DEF UpTo
  <1>10. N \in [Strings -> Strings]
    BY <1>7, <1>9
  <1> QED BY <1>8, <1>10 DEF N

-----------------------------------------------------------------------------
(* What normalization keeps, and where. *)

\* Moving a set of numbers does not change how many they are.
LEMMA ShiftedSet ==
  ASSUME NEW S, S \subseteq Nat, IsFiniteSet(S), NEW k \in Nat
  PROVE  IsFiniteSet({i + k : i \in S}) /\ Cardinality({i + k : i \in S}) = Cardinality(S)
  <1> DEFINE T == {i + k : i \in S}
             f == [i \in S |-> i + k]
  <1>1. f \in [S -> T]
    OBVIOUS
  <1>2. ASSUME NEW a \in S, NEW b \in S, f[a] = f[b] PROVE a = b
    BY <1>2
  <1>3. \A t \in T : \E i \in S : f[i] = t
    OBVIOUS
  <1> HIDE DEF f, T
  <1>4. f \in Bijection(S, T)
    BY <1>1, <1>2, <1>3 DEF Bijection, Injection, Surjection, IsInjective
  <1>5. ExistsBijection(S, T)
    BY <1>4 DEF ExistsBijection
  <1>6. IsFiniteSet(T) /\ Cardinality(T) = Cardinality(S)
    BY <1>5, FS_Bijection
  <1> QED BY <1>6 DEF T

\* Two finite sets without common elements add up.
LEMMA DisjointSets ==
  ASSUME NEW S, NEW T, IsFiniteSet(S), IsFiniteSet(T), S \cap T = {}
  PROVE  Cardinality(S \cup T) = Cardinality(S) + Cardinality(T)
  <1>1. Cardinality(S) \in Nat /\ Cardinality(T) \in Nat
    BY FS_CardinalityType
  <1>2. Cardinality(S \cup T) = Cardinality(S) + Cardinality(T) - Cardinality(S \cap T)
    BY FS_Union
  <1>3. Cardinality(S \cap T) = 0
    BY FS_EmptySet
  <1> QED BY <1>1, <1>2, <1>3

\* The kept positions are finitely many, and each has a place among them.
LEMMA KeptFacts ==
  ASSUME NEW s \in Strings
  PROVE  /\ Kept(s) \subseteq 1 .. Len(s) /\ Len(s) \in Nat
         /\ IsFiniteSet(Kept(s)) /\ Cardinality(Kept(s)) \in Nat
         /\ \A i \in Kept(s) : Place(s, i) \in 1 .. Cardinality(Kept(s))
  <1>1. DOMAIN s = 1 .. Len(s) /\ Len(s) \in Nat
    BY DEF Strings
  <1>2. Kept(s) \in SUBSET (1 .. Len(s))
    BY <1>1 DEF Kept
  <1>3. IsFiniteSet(1 .. Len(s))
    BY <1>1, FS_Interval
  <1>4. IsFiniteSet(Kept(s)) /\ Cardinality(Kept(s)) \in Nat
    BY <1>2, <1>3, FS_Subset, FS_CardinalityType
  <1>5. ASSUME NEW i \in Kept(s) PROVE Place(s, i) \in 1 .. Cardinality(Kept(s))
    <2> DEFINE B == {k \in Kept(s) : k <= i}
    <2>1. B \in SUBSET Kept(s) /\ i \in B
      BY <1>1, <1>2
    <2> HIDE DEF B
    <2>2. IsFiniteSet(B) /\ Cardinality(B) <= Cardinality(Kept(s)) /\ Cardinality(B) \in Nat
      BY <1>4, <2>1, FS_Subset, FS_CardinalityType
    <2>3. Cardinality(B) # 0
      BY <2>1, <2>2, FS_EmptySet
    <2>4. Place(s, i) = Cardinality(B)
      BY DEF Place, B
    <2> QED BY <1>4, <2>2, <2>3, <2>4
  <1> QED BY <1>1, <1>2, <1>4, <1>5

\* What s keeps is what r keeps, and then what e keeps, k positions later.
Splits(s, r, e, k) ==
  /\ Kept(r) \subseteq 1 .. k /\ Kept(s) = Kept(r) \cup {i + k : i \in Kept(e)}
  /\ \A i \in Kept(r) : s[i] = r[i]
  /\ \A i \in Kept(e) : s[i + k] = e[i]

\* Then the canonical texts of r and e, put together, are that of s.
LEMMA Joined ==
  ASSUME NEW r \in Strings, NEW e \in Strings, NEW s \in Strings, NEW k \in Nat,
         NEW t \in Strings, NEW u \in Strings, IsCanonical(t, r), IsCanonical(u, e),
         Splits(s, r, e, k)
  PROVE  IsCanonical(t \o u, s)
  <1>0. /\ Kept(r) \subseteq 1 .. k /\ Kept(s) = Kept(r) \cup {i + k : i \in Kept(e)}
        /\ \A i \in Kept(r) : s[i] = r[i]
        /\ \A i \in Kept(e) : s[i + k] = e[i]
    BY DEF Splits
  <1> DEFINE K == Kept(r)
             E == Kept(e)
             M == {i + k : i \in E}
             a == Cardinality(K)
             b == Cardinality(E)
  <1>1. /\ IsFiniteSet(K) /\ IsFiniteSet(E) /\ K \subseteq 1 .. k /\ E \subseteq 1 .. Len(e) /\ Len(e) \in Nat
        /\ a \in Nat /\ b \in Nat /\ Len(t) = a /\ Len(u) = b
        /\ \A i \in K : Place(r, i) \in 1 .. a
        /\ \A i \in E : Place(e, i) \in 1 .. b
    BY <1>0, KeptFacts DEF IsCanonical
  <1>2. /\ \A i \in K : t[Place(r, i)] = Translate(r[i])
        /\ \A i \in E : u[Place(e, i)] = Translate(e[i])
    BY DEF IsCanonical
  <1>3. Kept(s) = K \cup M
    BY <1>0
  <1> HIDE DEF K, E, a, b
  <1>4. E \subseteq Nat
    BY <1>1
  <1>5. IsFiniteSet(M) /\ Cardinality(M) = b
    BY <1>1, <1>4, ShiftedSet DEF b
  <1>6. K \cap M = {}
    BY <1>1
  <1>7. Cardinality(Kept(s)) = a + b
    BY <1>1, <1>3, <1>5, <1>6, DisjointSets DEF a
  <1>8. /\ Len(t \o u) = a + b
        /\ \A i \in 1 .. a : (t \o u)[i] = t[i]
        /\ \A i \in 1 .. b : (t \o u)[a + i] = u[i]
    <2>1. t \in Seq(Alphabet) /\ u \in Seq(Alphabet)
      BY DEF Strings
    <2>2. /\ Len(t \o u) = Len(t) + Len(u)
          /\ \A i \in 1 .. Len(t) + Len(u) :
               (t \o u)[i] = IF i <= Len(t) THEN t[i] ELSE u[i - Len(t)]
      BY <2>1, ConcatProperties
    <2>3. ASSUME NEW i \in 1 .. a PROVE (t \o u)[i] = t[i]
      <3>1. i \in 1 .. Len(t) + Len(u) /\ i <= Len(t)
        BY <1>1
      <3> QED BY <2>2, <3>1
    <2>4. ASSUME NEW i \in 1 .. b PROVE (t \o u)[a + i] = u[i]
      <3>1. a + i \in 1 .. Len(t) + Len(u) /\ ~(a + i <= Len(t)) /\ (a + i) - Len(t) = i
        BY <1>1
      <3> QED BY <2>2, <3>1
    <2> QED BY <1>1, <2>2, <2>3, <2>4
  <1>9. ASSUME NEW i \in K PROVE (t \o u)[Place(s, i)] = Translate(s[i])
    <2>1. {x \in Kept(s) : x <= i} = {x \in K : x <= i}
      <3>1. \A x \in M : ~(x <= i)
        BY <1>1
      <3> QED BY <1>3, <3>1
    <2>2. Place(s, i) = Place(r, i)
      BY <2>1 DEF Place, K
    <2>3. s[i] = r[i]
      BY <1>0 DEF K
    <2> QED BY <1>1, <1>2, <1>8, <2>2, <2>3
  <1>10. ASSUME NEW j \in E PROVE (t \o u)[Place(s, j + k)] = Translate(s[j + k])
    <2> DEFINE B == {x \in E : x <= j}
               C == {x + k : x \in B}
    <2>1. {x \in Kept(s) : x <= j + k} = K \cup C
      <3>1. ASSUME NEW x \in Kept(s), x <= j + k PROVE x \in K \cup C
        <4>1. CASE x \in K
          BY <4>1
        <4>2. CASE x \in M
          <5>1. PICK y \in E : x = y + k
            BY <4>2
          <5>2. y <= j
            BY <1>1, <3>1, <5>1
          <5> QED BY <5>1, <5>2
        <4> QED BY <1>3, <4>1, <4>2
      <3>2. ASSUME NEW x \in K PROVE x \in Kept(s) /\ x <= j + k
        BY <1>1, <1>3
      <3>3. ASSUME NEW x \in C PROVE x \in Kept(s) /\ x <= j + k
        <4>1. PICK y \in B : x = y + k
          OBVIOUS
        <4> QED BY <1>1, <1>3, <4>1
      <3> QED BY <3>1, <3>2, <3>3
    <2>2. IsFiniteSet(B) /\ B \subseteq Nat
      <3>1. B \in SUBSET E
        OBVIOUS
      <3> QED BY <1>1, <1>4, <3>1, FS_Subset
    <2>3. Place(e, j) = Cardinality(B)
      BY DEF Place, E
    <2>4. K \cap C = {}
      <3> SUFFICES ASSUME NEW x \in K, NEW y \in B, x = y + k PROVE FALSE
        OBVIOUS
      <3>1. y \in E
        OBVIOUS
      <3> QED BY <1>1, <3>1
    <2> HIDE DEF B
    <2>5. IsFiniteSet(C) /\ Cardinality(C) = Cardinality(B)
      BY <2>2, ShiftedSet
    <2> HIDE DEF C
    <2>6. Cardinality(K \cup C) = a + Place(e, j)
      BY <1>1, <2>3, <2>4, <2>5, DisjointSets DEF a
    <2>7. Place(s, j + k) = a + Place(e, j)
      BY <2>1, <2>6 DEF Place
    <2>8. s[j + k] = e[j]
      BY <1>0 DEF E
    <2> QED BY <1>1, <1>2, <1>8, <2>7, <2>8
  <1>11. ASSUME NEW i \in Kept(s) PROVE (t \o u)[Place(s, i)] = Translate(s[i])
    <2>1. CASE i \in K
      BY <1>9, <2>1
    <2>2. CASE i \in M
      <3>1. PICK j \in E : i = j + k
        BY <2>2
      <3> QED BY <1>10, <3>1
    <2> QED BY <1>3, <2>1, <2>2
  <1> QED BY <1>7, <1>8, <1>11 DEF IsCanonical

\* Behind a cut that is not inside a CRLF pair, the same is kept.
LEMMA KeptBehind ==
  ASSUME NEW s \in Strings, NEW e \in Strings, NEW k \in Nat, Len(s) = k + Len(e),
         \A i \in 1 .. Len(e) : s[i + k] = e[i],
         ~(e # <<>> /\ e[1] = "LF" /\ k >= 1 /\ s[k] = "CR")
  PROVE  {i \in Kept(s) : i > k} = {i + k : i \in Kept(e)}
  <1>1. DOMAIN s = 1 .. Len(s) /\ DOMAIN e = 1 .. Len(e) /\ Len(s) \in Nat /\ Len(e) \in Nat
    BY DEF Strings
  <1>2. ASSUME NEW i \in 1 .. Len(e) PROVE i + k \in Kept(s) <=> i \in Kept(e)
    <2>1. i + k \in DOMAIN s /\ i \in DOMAIN e /\ s[i + k] = e[i]
      BY <1>1
    <2>2. CASE i = 1
      <3>1. i \in Kept(e)
        BY <2>1, <2>2 DEF Kept
      <3>2. ASSUME i + k > 1, e[1] = "LF" PROVE s[(i + k) - 1] # "CR"
        <4>1. (i + k) - 1 = k /\ k >= 1 /\ e # <<>>
          BY <1>1, <2>1, <2>2, <3>2
        <4> QED BY <3>2, <4>1
      <3> QED BY <2>1, <2>2, <3>1, <3>2 DEF Kept
    <2>3. CASE i # 1
      <3>1. i > 1 /\ i + k > 1 /\ i - 1 \in 1 .. Len(e) /\ (i + k) - 1 = (i - 1) + k
        BY <1>1, <2>3
      <3>2. s[(i + k) - 1] = e[i - 1]
        BY <3>1
      <3> QED BY <2>1, <3>1, <3>2 DEF Kept
    <2> QED BY <2>2, <2>3
  <1>3. ASSUME NEW j \in Kept(s), j > k PROVE j \in {i + k : i \in Kept(e)}
    <2>1. j \in 1 .. Len(s)
      BY <1>1 DEF Kept
    <2>2. j - k \in 1 .. Len(e) /\ (j - k) + k = j
      BY <1>1, <1>3, <2>1
    <2>3. j - k \in Kept(e)
      BY <1>2, <2>2
    <2> QED BY <2>2, <2>3
  <1>4. ASSUME NEW i \in Kept(e) PROVE i + k \in Kept(s) /\ i + k > k
    <2>1. i \in 1 .. Len(e)
      BY <1>1 DEF Kept
    <2> QED BY <1>2, <2>1
  <1> QED BY <1>3, <1>4

\* One character is kept and translated.
LEMMA OneCharacter ==
  ASSUME NEW x \in Alphabet
  PROVE  Kept(<<x>>) = {1} /\ IsCanonical(<<Translate(x)>>, <<x>>)
  <1>1. Kept(<<x>>) = {1}
    BY DEF Kept
  <1>2. {k \in Kept(<<x>>) : k <= 1} = {1}
    BY <1>1
  <1>3. Cardinality({1}) = 1
    BY FS_Singleton
  <1>4. Place(<<x>>, 1) = 1
    BY <1>2, <1>3 DEF Place
  <1>5. Len(<<Translate(x)>>) = 1 /\ <<Translate(x)>>[1] = Translate(x) /\ <<x>>[1] = x
    OBVIOUS
  <1> QED BY <1>1, <1>3, <1>4, <1>5 DEF IsCanonical

\* Up to the end of r, what follows it does not change what is kept.
LEMMA KeptBefore ==
  ASSUME NEW r \in Strings, NEW s \in Strings, Len(r) <= Len(s),
         \A i \in 1 .. Len(r) : s[i] = r[i]
  PROVE  {i \in Kept(s) : i <= Len(r)} = Kept(r)
  <1>1. DOMAIN s = 1 .. Len(s) /\ DOMAIN r = 1 .. Len(r) /\ Len(s) \in Nat /\ Len(r) \in Nat
    BY DEF Strings
  <1>2. ASSUME NEW i \in 1 .. Len(r) PROVE i \in Kept(s) <=> i \in Kept(r)
    <2>1. i \in DOMAIN s /\ i \in DOMAIN r /\ s[i] = r[i]
      BY <1>1
    <2>2. CASE i = 1
      BY <2>1, <2>2 DEF Kept
    <2>3. CASE i # 1
      <3>1. i - 1 \in 1 .. Len(r)
        BY <1>1, <2>3
      <3>2. s[i - 1] = r[i - 1]
        BY <3>1
      <3> QED BY <2>1, <3>2 DEF Kept
    <2> QED BY <2>2, <2>3
  <1>3. ASSUME NEW j \in Kept(s), j <= Len(r) PROVE j \in Kept(r)
    <2>1. j \in 1 .. Len(s)
      BY <1>1 DEF Kept
    <2>2. j \in 1 .. Len(r)
      BY <1>1, <1>3, <2>1
    <2> QED BY <1>2, <2>2
  <1>4. ASSUME NEW i \in Kept(r) PROVE i \in Kept(s) /\ i <= Len(r)
    <2>1. i \in 1 .. Len(r)
      BY <1>1 DEF Kept
    <2> QED BY <1>1, <1>2, <2>1
  <1> QED BY <1>3, <1>4

\* s is r, then what is dropped, then e: not cut inside a CRLF pair whose LF is in e.
LEMMA SplitsAt ==
  ASSUME NEW r \in Strings, NEW e \in Strings, NEW s \in Strings, NEW k \in Nat,
         Len(r) <= k, Len(s) = k + Len(e),
         \A i \in 1 .. Len(r) : s[i] = r[i],
         \A i \in 1 .. Len(e) : s[i + k] = e[i],
         \A i \in Kept(s) : i <= Len(r) \/ i > k,
         ~(e # <<>> /\ e[1] = "LF" /\ k >= 1 /\ s[k] = "CR")
  PROVE  Splits(s, r, e, k)
  <1>1. Len(r) \in Nat /\ Len(e) \in Nat /\ Len(r) <= Len(s)
    BY DEF Strings
  <1>2. {i \in Kept(s) : i <= Len(r)} = Kept(r)
    BY <1>1, KeptBefore
  <1>3. {i \in Kept(s) : i > k} = {i + k : i \in Kept(e)}
    BY KeptBehind
  <1>4. Kept(s) = {i \in Kept(s) : i <= Len(r)} \cup {i \in Kept(s) : i > k}
    OBVIOUS
  <1>5. Kept(s) = Kept(r) \cup {i + k : i \in Kept(e)}
    BY <1>2, <1>3, <1>4
  <1>6. Kept(r) \subseteq 1 .. Len(r) /\ Kept(e) \subseteq 1 .. Len(e)
    BY KeptFacts
  <1>7. Kept(r) \subseteq 1 .. k
    BY <1>1, <1>6
  <1> QED BY <1>5, <1>6, <1>7 DEF Splits

\* One turn of the loop: the first character, and the LF behind it if it is a CR.
LEMMA TurnCanonical ==
  ASSUME NEW s \in Strings, s # <<>>, NEW u \in Strings, IsCanonical(u, Rest(s))
  PROVE  IsCanonical(<<Translate(s[1])>> \o u, s)
  <1> DEFINE crlf == Len(s) > 1 /\ s[1] = "CR" /\ s[2] = "LF"
             k == IF crlf THEN 2 ELSE 1
             e == Rest(s)
             r == <<s[1]>>
             t == <<Translate(s[1])>>
  <1>1. Len(s) \in Nat /\ Len(s) >= 1 /\ DOMAIN s = 1 .. Len(s) /\ s[1] \in Alphabet
    BY DEF Strings
  <1>2. k \in Nat /\ k >= 1 /\ k <= Len(s)
    BY <1>1
  <1>3. e \in Strings /\ Len(s) = k + Len(e) /\ \A i \in 1 .. Len(e) : s[i + k] = e[i]
    <2>1. e = SubSeq(s, k + 1, Len(s))
      BY DEF Rest
    <2> HIDE DEF k, e
    <2>2. k + 1 \in Int /\ Len(s) \in Int /\ \A i \in k + 1 .. Len(s) : s[i] \in Alphabet
      BY <1>1, <1>2 DEF Strings
    <2>3. /\ e \in Seq(Alphabet)
          /\ Len(e) = IF k + 1 <= Len(s) THEN Len(s) - (k + 1) + 1 ELSE 0
          /\ \A i \in 1 .. Len(s) - (k + 1) + 1 : e[i] = s[(k + 1) + i - 1]
      BY <2>1, <2>2, SubSeqProperties
    <2>4. Len(e) = Len(s) - k
      <3>1. Len(s) \in Nat /\ k \in Nat /\ k <= Len(s)
        BY <1>1, <1>2
      <3>2. CASE k + 1 <= Len(s)
        <4>1. Len(e) = Len(s) - (k + 1) + 1
          BY <2>3, <3>2
        <4> QED BY <3>1, <4>1
      <3>3. CASE ~(k + 1 <= Len(s))
        <4>1. Len(e) = 0
          BY <2>3, <3>3
        <4> QED BY <3>1, <3>3, <4>1
      <3> QED BY <3>2, <3>3
    <2>5. ASSUME NEW i \in 1 .. Len(e) PROVE s[i + k] = e[i]
      <3>1. i \in 1 .. Len(s) - (k + 1) + 1 /\ (k + 1) + i - 1 = i + k
        BY <1>1, <1>2, <2>4
      <3> QED BY <2>3, <3>1
    <2>6. e \in Strings
      BY <2>3 DEF Strings
    <2>7. Len(s) = k + Len(e)
      BY <1>1, <1>2, <2>4
    <2> QED BY <2>5, <2>6, <2>7
  <1>4. r \in Strings /\ t \in Strings
    BY <1>1, TranslateType DEF Strings
  <1>5. Kept(r) = {1} /\ IsCanonical(t, r)
    BY <1>1, OneCharacter
  <1>6. ~(e # <<>> /\ e[1] = "LF" /\ k >= 1 /\ s[k] = "CR")
    <2> SUFFICES ASSUME e # <<>>, e[1] = "LF", s[k] = "CR" PROVE FALSE
      OBVIOUS
    <2>1. Len(e) >= 1 /\ Len(e) \in Nat
      BY <1>3 DEF Strings
    <2>2. s[1 + k] = e[1]
      BY <1>3, <2>1
    <2>3. CASE crlf
      BY <2>3
    <2>4. CASE ~crlf
      <3>1. k = 1
        BY <2>4
      <3> HIDE DEF e, k
      <3>2. Len(s) > 1 /\ s[1 + k] = s[2]
        BY <1>1, <1>3, <2>1, <3>1
      <3>3. s[2] = "LF"
        BY <2>2, <3>2
      <3> QED BY <2>4, <3>1, <3>2, <3>3
    <2> QED BY <2>3, <2>4
  <1>7. \A i \in Kept(s) : i <= Len(r) \/ i > k
    <2> SUFFICES ASSUME NEW i \in Kept(s), ~(i <= 1), ~(i > k) PROVE FALSE
      OBVIOUS
    <2>1. i \in Nat /\ ~(s[i] = "LF" /\ i > 1 /\ s[i - 1] = "CR")
      BY <1>1 DEF Kept
    <2>2. crlf /\ i = 2
      BY <2>1
    <2> QED BY <2>1, <2>2
  <1>8. Len(r) = 1 /\ \A i \in 1 .. Len(r) : s[i] = r[i]
    OBVIOUS
  <1> HIDE DEF k, e, r, t
  <1>9. Splits(s, r, e, k)
    BY <1>2, <1>3, <1>4, <1>6, <1>7, <1>8, SplitsAt
  <1>10. IsCanonical(u, e)
    BY DEF e
  <1>11. IsCanonical(t, r)
    BY <1>5
  <1>12. IsCanonical(t \o u, s)
    BY <1>2, <1>3, <1>4, <1>9, <1>10, <1>11, Joined
  <1> QED BY <1>12 DEF t

\* normalize_model_text computes the canonical text, whatever the text.
LEMMA NormalizeIsCanonical ==
  ASSUME NEW s \in Strings
  PROVE  IsCanonical(normalize_model_text[s], s) /\ normalize_model_text[s] \in Strings
  <1> DEFINE N == normalize_model_text
             S == {n \in Nat : \A x \in Strings : Len(x) <= n => IsCanonical(N[x], x)}
  <1>1. \A x \in Strings : N[x] \in Strings /\ N[x] = Turn(N, x)
    BY NormalizeIs
  <1> HIDE DEF N
  <1>2. IsCanonical(N[<<>>], <<>>)
    <2>1. <<>> \in Strings
      BY DEF Strings
    <2>2. N[<<>>] = <<>>
      BY <1>1, <2>1 DEF Turn
    <2>3. Kept(<<>>) = {} /\ Len(<<>>) = 0
      BY DEF Kept
    <2> QED BY <2>2, <2>3, FS_EmptySet DEF IsCanonical
  <1>3. 0 \in S
    <2> SUFFICES ASSUME NEW x \in Strings, Len(x) <= 0 PROVE IsCanonical(N[x], x)
      OBVIOUS
    <2>1. x = <<>>
      BY DEF Strings
    <2> QED BY <1>2, <2>1
  <1>4. ASSUME NEW n \in Nat, n \in S PROVE n + 1 \in S
    <2> SUFFICES ASSUME NEW x \in Strings, Len(x) <= n + 1 PROVE IsCanonical(N[x], x)
      OBVIOUS
    <2>1. CASE x = <<>>
      BY <1>2, <2>1
    <2>2. CASE x # <<>>
      <3>1. Rest(x) \in Strings /\ Len(Rest(x)) <= n
        <4>1. Len(x) \in Nat /\ Len(Rest(x)) \in Nat /\ Len(Rest(x)) < Len(x) /\ Rest(x) \in Strings
          BY <2>2, RestIsShorter DEF Strings
        <4> QED BY <4>1
      <3>2. IsCanonical(N[Rest(x)], Rest(x)) /\ N[Rest(x)] \in Strings
        BY <1>1, <1>4, <3>1
      <3>3. N[x] = <<Translate(x[1])>> \o N[Rest(x)]
        BY <1>1, <2>2 DEF Turn
      <3> QED BY <2>2, <3>2, <3>3, TurnCanonical
    <2> QED BY <2>1, <2>2
  <1> HIDE DEF S
  <1>5. \A n \in Nat : n \in S
    BY <1>3, <1>4, SetInduction
  <1>6. Len(s) \in Nat /\ Len(s) <= Len(s)
    BY DEF Strings
  <1>7. Len(s) \in S
    BY <1>5, <1>6
  <1>8. IsCanonical(N[s], s)
    BY <1>6, <1>7 DEF S
  <1> QED BY <1>1, <1>8 DEF N

\* A delta joined to what was received: the LF of a pair cut between two deltas is dropped.
LEMMA DeltaCanonical ==
  ASSUME NEW r \in Strings, NEW d \in Strings, NEW t \in Strings, IsCanonical(t, r),
         NEW after \in BOOLEAN, after <=> (r # <<>> /\ r[Len(r)] = "CR")
  PROVE  normalized_delta(d, after) \in Strings /\ IsCanonical(t \o normalized_delta(d, after), r \o d)
  <1> DEFINE s == r \o d
             cut == after /\ d # <<>> /\ d[1] = "LF"
             e == IF cut THEN Tail(d) ELSE d
             k == IF cut THEN Len(r) + 1 ELSE Len(r)
             u == normalize_model_text[e]
  <1>1. Len(r) \in Nat /\ Len(d) \in Nat /\ s \in Strings /\ Len(s) = Len(r) + Len(d)
    BY DEF Strings
  <1>2. (\A i \in 1 .. Len(r) : s[i] = r[i]) /\ (\A i \in 1 .. Len(d) : s[i + Len(r)] = d[i])
    BY <1>1 DEF Strings
  <1> HIDE DEF s
  <1>3. e \in Strings /\ k \in Nat /\ Len(r) <= k /\ Len(s) = k + Len(e)
        /\ \A i \in 1 .. Len(e) : s[i + k] = e[i]
    <2>1. CASE cut
      <3>1. /\ Tail(d) \in Strings /\ Len(Tail(d)) = Len(d) - 1 /\ Len(d) >= 1
            /\ \A i \in 1 .. Len(d) - 1 : Tail(d)[i] = d[i + 1]
        BY <2>1, <1>1, HeadTailProperties DEF Strings
      <3>2. ASSUME NEW i \in 1 .. Len(Tail(d)) PROVE s[i + (Len(r) + 1)] = Tail(d)[i]
        <4>1. i + 1 \in 1 .. Len(d) /\ i \in 1 .. Len(d) - 1 /\ (i + 1) + Len(r) = i + (Len(r) + 1)
          BY <1>1, <3>1
        <4> QED BY <1>2, <3>1, <4>1
      <3> QED BY <1>1, <2>1, <3>1, <3>2
    <2>2. CASE ~cut
      BY <1>1, <1>2, <2>2
    <2> QED BY <2>1, <2>2
  <1>4. \A i \in Kept(s) : i <= Len(r) \/ i > k
    <2> SUFFICES ASSUME NEW i \in Kept(s), ~(i <= Len(r)), ~(i > k) PROVE FALSE
      OBVIOUS
    <2>1. i \in Nat /\ ~(s[i] = "LF" /\ i > 1 /\ s[i - 1] = "CR")
      BY <1>1, KeptFacts DEF Kept
    <2>2. cut /\ i = Len(r) + 1
      BY <1>1, <2>1
    <2>3. Len(d) >= 1 /\ Len(r) >= 1
      BY <1>1, <2>2 DEF Strings
    <2>4. s[i] = d[1] /\ s[i - 1] = r[Len(r)]
      <3>1. 1 + Len(r) = i /\ i - 1 = Len(r) /\ 1 \in 1 .. Len(d) /\ Len(r) \in 1 .. Len(r)
        BY <1>1, <2>2, <2>3
      <3> QED BY <1>2, <3>1
    <2> QED BY <1>1, <2>1, <2>2, <2>3, <2>4
  <1>5. ~(e # <<>> /\ e[1] = "LF" /\ k >= 1 /\ s[k] = "CR")
    <2> SUFFICES ASSUME e # <<>>, e[1] = "LF", k >= 1, s[k] = "CR" PROVE FALSE
      OBVIOUS
    <2>1. CASE cut
      <3>1. 1 \in 1 .. Len(d) /\ 1 + Len(r) = k
        BY <1>1, <2>1 DEF Strings
      <3>2. s[k] = "LF"
        BY <1>2, <2>1, <3>1
      <3> QED BY <3>2
    <2>2. CASE ~cut
      <3>1. k = Len(r) /\ Len(r) \in 1 .. Len(r) /\ r # <<>>
        BY <1>1, <2>2
      <3>2. s[k] = r[Len(r)]
        BY <1>2, <3>1
      <3> QED BY <2>2, <3>1, <3>2
    <2> QED BY <2>1, <2>2
  <1>6. normalized_delta(d, after) = u
    BY DEF normalized_delta
  <1> HIDE DEF e, k
  <1>7. u \in Strings /\ IsCanonical(u, e)
    BY <1>3, NormalizeIsCanonical
  <1> HIDE DEF u
  <1>8. Splits(s, r, e, k)
    BY <1>1, <1>2, <1>3, <1>4, <1>5, SplitsAt
  <1>9. IsCanonical(t \o u, s)
    BY <1>1, <1>3, <1>7, <1>8, Joined
  <1> QED BY <1>6, <1>7, <1>9 DEF s

-----------------------------------------------------------------------------
(* The assembled text. *)

EndsInCr(s) == s # <<>> /\ s[Len(s)] = "CR"

\* The flag of a channel is the last character received on it, and what is assembled is
\* canonical, forwarded and within its budget.
TextInv ==
  /\ text \in [Channels -> Strings] /\ raw \in [Channels -> Strings]
  /\ endedWithCr \in [Channels -> BOOLEAN]
  /\ \A c \in Channels :
       /\ endedWithCr[c] <=> EndsInCr(raw[c])
       /\ IsCanonical(text[c], raw[c])
       /\ Len(text[c]) <= Budget[c]
  /\ forwarded = text

\* The steps that leave the text alone.
LEMMA TextKept ==
  ASSUME TextInv, UNCHANGED <<text, raw, endedWithCr, forwarded>> PROVE TextInv'
  BY DEF TextInv

\* A delta is a text.
LEMMA DeltasAreStrings == Deltas \subseteq Strings
  <1> SUFFICES ASSUME NEW n \in 0 .. MaxDelta + 1, NEW d \in [1 .. n -> Chars] PROVE d \in Strings
    BY DEF Deltas
  <1>1. n \in Nat
    BY AssemblerAssumption
  <1>2. d \in [1 .. n -> Alphabet]
    BY AssemblerAssumption
  <1> QED BY <1>1, <1>2 DEF Strings

\* The flag after a delta, an empty one included.
LEMMA FlagFollows ==
  ASSUME NEW r \in Strings, NEW d \in Strings, NEW after \in BOOLEAN, after <=> EndsInCr(r)
  PROVE  EndsWithCr(d, after) \in BOOLEAN /\ (EndsWithCr(d, after) <=> EndsInCr(r \o d))
  <1>1. CASE d = <<>>
    <2>1. r \o d = r
      BY <1>1, ConcatEmptySeq DEF Strings
    <2> QED BY <1>1, <2>1 DEF EndsWithCr
  <1>2. CASE d # <<>>
    <2>1. /\ Len(r) \in Nat /\ Len(d) \in Nat /\ Len(d) >= 1
          /\ Len(r \o d) = Len(r) + Len(d) /\ (r \o d)[Len(r) + Len(d)] = d[Len(d)]
      BY <1>2 DEF Strings
    <2>2. r \o d # <<>>
      BY <2>1
    <2> QED BY <1>2, <2>1, <2>2 DEF EndsWithCr, EndsInCr
  <1> QED BY <1>1, <1>2

\* The budgets are numbers.
LEMMA BudgetType == \A c \in Channels : Budget[c] \in Nat
  BY AssemblerAssumption DEF Budget

\* An accepted delta.
LEMMA TextGrows ==
  ASSUME TextInv, NEW c \in Channels, NEW delta \in Strings,
         ~OverBudget(c, normalized_delta(delta, endedWithCr[c])),
         endedWithCr' = [endedWithCr EXCEPT ![c] = EndsWithCr(delta, @)],
         raw' = [raw EXCEPT ![c] = @ \o delta],
         text' = [text EXCEPT ![c] = @ \o normalized_delta(delta, endedWithCr[c])],
         forwarded' = [forwarded EXCEPT ![c] = @ \o normalized_delta(delta, endedWithCr[c])]
  PROVE  TextInv'
  <1> DEFINE d == normalized_delta(delta, endedWithCr[c])
             t == text[c] \o d
             r == raw[c] \o delta
             f == EndsWithCr(delta, endedWithCr[c])
  <1>1. /\ text[c] \in Strings /\ raw[c] \in Strings /\ endedWithCr[c] \in BOOLEAN
        /\ endedWithCr[c] <=> EndsInCr(raw[c])
        /\ IsCanonical(text[c], raw[c])
    BY DEF TextInv
  <1>2. d \in Strings /\ IsCanonical(t, r)
    BY <1>1, DeltaCanonical DEF EndsInCr
  <1>3. f \in BOOLEAN /\ (f <=> EndsInCr(r))
    BY <1>1, FlagFollows
  <1>4. t \in Strings /\ r \in Strings /\ Len(t) = Len(text[c]) + Len(d)
    BY <1>1, <1>2 DEF Strings
  <1>5. Len(t) <= Budget[c]
    <2> DEFINE n == Len(text[c])
               m == Len(d)
    <2>1. n \in Nat /\ m \in Nat
      BY <1>1, <1>2 DEF Strings
    <2>2. Budget[c] \in Nat
      BY BudgetType
    <2>3. ~(n + m > Budget[c])
      BY DEF OverBudget
    <2>4. Len(t) = n + m
      BY <1>4
    <2> HIDE DEF n, m, t
    <2> QED BY <2>1, <2>2, <2>3, <2>4
  <1> HIDE DEF d, t, r, f
  <1>6. /\ text' = [text EXCEPT ![c] = t] /\ raw' = [raw EXCEPT ![c] = r]
        /\ endedWithCr' = [endedWithCr EXCEPT ![c] = f] /\ forwarded' = [forwarded EXCEPT ![c] = t]
    BY DEF TextInv, d, t, r, f
  <1>7. /\ text' \in [Channels -> Strings] /\ raw' \in [Channels -> Strings]
        /\ endedWithCr' \in [Channels -> BOOLEAN]
    <2>1. text' \in [Channels -> Strings] /\ raw' \in [Channels -> Strings]
      <3>1. /\ text \in [Channels -> Strings] /\ raw \in [Channels -> Strings]
            /\ t \in Strings /\ r \in Strings
        BY <1>4 DEF TextInv
      <3> QED BY <1>6, <3>1, Zenon
    <2>2. endedWithCr' \in [Channels -> BOOLEAN]
      <3>1. endedWithCr \in [Channels -> BOOLEAN] /\ f \in BOOLEAN
        BY <1>3 DEF TextInv
      <3>2. endedWithCr' = [x \in Channels |-> IF x = c THEN f ELSE endedWithCr[x]]
        BY <1>6, <3>1, Zenon
      <3>3. \A x \in Channels : endedWithCr[x] \in BOOLEAN
        BY <3>1, Zenon
      <3>4. \A x \in Channels : (IF x = c THEN f ELSE endedWithCr[x]) \in BOOLEAN
        BY <3>1, <3>3, Zenon
      <3> QED BY <3>2, <3>4, Zenon
    <2> QED BY <2>1, <2>2
  <1>8. ASSUME NEW x \in Channels
        PROVE  /\ endedWithCr'[x] <=> EndsInCr(raw'[x])
               /\ IsCanonical(text'[x], raw'[x])
               /\ Len(text'[x]) <= Budget[x]
    <2>1. CASE x = c
      <3>1. text'[x] = t /\ raw'[x] = r /\ endedWithCr'[x] = f
        BY <1>6, <2>1 DEF TextInv
      <3> QED BY <1>2, <1>3, <1>5, <2>1, <3>1
    <2>2. CASE x # c
      <3>1. text'[x] = text[x] /\ raw'[x] = raw[x] /\ endedWithCr'[x] = endedWithCr[x]
        BY <1>6, <2>2 DEF TextInv
      <3> QED BY <3>1 DEF TextInv
    <2> QED BY <2>1, <2>2
  <1>9. forwarded' = text'
    BY <1>6 DEF TextInv
  <1> QED BY <1>7, <1>8, <1>9 DEF TextInv, EndsInCr, IsCanonical, Kept, Place

\* Nothing received, nothing assembled.
LEMMA TextStarts == AssemblerInit => TextInv
  <1> SUFFICES ASSUME AssemblerInit PROVE TextInv
    OBVIOUS
  <1>1. <<>> \in Strings
    BY DEF Strings
  <1>2. IsCanonical(<<>>, <<>>)
    <2>1. Kept(<<>>) = {} /\ Len(<<>>) = 0
      BY DEF Kept
    <2> QED BY <2>1, FS_EmptySet DEF IsCanonical
  <1>3. ASSUME NEW c \in Channels PROVE Len(<<>>) <= Budget[c]
    BY AssemblerAssumption DEF Budget
  <1> QED BY <1>1, <1>2, <1>3 DEF AssemblerInit, TextInv, EndsInCr

\* Every step keeps the text canonical.
LEMMA TextStep == TextInv /\ [AssemblerNext]_assemblerVars => TextInv'
  <1> SUFFICES ASSUME TextInv, [AssemblerNext]_assemblerVars PROVE TextInv'
    OBVIOUS
  <1>1. ASSUME NEW c \in Channels, NEW delta \in Deltas, Delta(c, delta) PROVE TextInv'
    <2>1. delta \in Strings
      BY DeltasAreStrings
    <2>2. CASE PushFails
      BY <2>2, TextKept DEF PushFails
    <2>3. CASE ~PushFails
      BY <1>1, <2>1, <2>3, TextGrows DEF Delta
    <2> QED BY <2>2, <2>3
  <1>2. ASSUME UNCHANGED <<text, raw, endedWithCr, forwarded>> PROVE TextInv'
    BY <1>2, TextKept
  <1>3. ASSUME NEW id \in ToolIds, NEW name, ToolCallStart(id, name) PROVE TextInv'
    BY <1>2, <1>3 DEF ToolCallStart, PushFails
  <1>4. ASSUME NEW id \in ToolIds, NEW bytes, ToolCallArgumentsDelta(id, bytes) PROVE TextInv'
    BY <1>2, <1>4 DEF ToolCallArgumentsDelta, PushFails
  <1>5. ASSUME NEW id \in ToolIds, NEW parses, ToolCallEnd(id, parses) PROVE TextInv'
    BY <1>2, <1>5 DEF ToolCallEnd, PushFails
  <1>6. CASE UsageEvent \/ ProviderReplayEvent \/ EventAfterFinish \/ EndOfStream
    BY <1>2, <1>6 DEF UsageEvent, ProviderReplayEvent, EventAfterFinish, EndOfStream, PushFails
  <1>7. ASSUME NEW reason, Finish(reason) PROVE TextInv'
    BY <1>2, <1>7 DEF Finish, PushFails
  <1>8. CASE AssemblerDone \/ UNCHANGED assemblerVars
    BY <1>2, <1>8 DEF AssemblerDone, assemblerVars
  <1> QED BY <1>1, <1>3, <1>4, <1>5, <1>6, <1>7, <1>8 DEF AssemblerNext

-----------------------------------------------------------------------------
(* The tool calls and the slots. *)

ToolRecords == [id : ToolIds, name : Offered, arguments : Nat, complete : BOOLEAN, index : Nat]
SlotRecords == [part : Channels] \cup [part : {"Tool"}, index : Nat]

\* The calls are numbered as they were started, under different ids; a complete one has
\* arguments.
ToolsFit(ts) ==
  /\ ts \in Seq(ToolRecords)
  /\ \A i \in DOMAIN ts : ts[i].index = i - 1 /\ (ts[i].complete => ts[i].arguments > 0)
  /\ \A i, j \in DOMAIN ts : ts[i].id = ts[j].id => i = j

\* The slots hold n calls, each once and in order, and each channel of C once, no other.
SlotsFit(s, n, C) ==
  /\ s \in Seq(SlotRecords)
  /\ \A i \in DOMAIN s : s[i].part = "Tool" => s[i].index \in 1 .. n
  /\ \A i, j \in DOMAIN s : s[i].part = "Tool" /\ s[j].part = "Tool" /\ i < j => s[i].index < s[j].index
  /\ \A k \in 1 .. n : \E i \in DOMAIN s : s[i].part = "Tool" /\ s[i].index = k
  /\ \A i \in DOMAIN s : s[i].part # "Tool" => s[i].part \in C
  /\ \A c \in C : \E i \in DOMAIN s : s[i].part = c
  /\ \A i, j \in DOMAIN s : s[i].part = s[j].part /\ s[i].part # "Tool" => i = j

\* A call is started.
LEMMA ToolAppended ==
  ASSUME NEW ts, ToolsFit(ts), NEW id \in ToolIds, NEW name \in Offered,
         \A i \in DOMAIN ts : ts[i].id # id
  PROVE  LET new == [id |-> id, name |-> name, arguments |-> 0, complete |-> FALSE, index |-> Len(ts)]
         IN  ToolsFit(Append(ts, new)) /\ Len(Append(ts, new)) = Len(ts) + 1
  <1> DEFINE new == [id |-> id, name |-> name, arguments |-> 0, complete |-> FALSE, index |-> Len(ts)]
             q == Append(ts, new)
             n == Len(ts)
  <1>1. ts \in Seq(ToolRecords) /\ n \in Nat /\ DOMAIN ts = 1 .. n
    BY DEF ToolsFit
  <1>2. new \in ToolRecords
    BY <1>1 DEF ToolRecords
  <1>3. new.id = id /\ new.index = n /\ new.complete = FALSE
    OBVIOUS
  <1> HIDE DEF new
  <1>4. /\ q \in Seq(ToolRecords) /\ Len(q) = n + 1 /\ DOMAIN q = 1 .. n + 1
        /\ \A i \in 1 .. n : q[i] = ts[i]
        /\ q[n + 1] = new
    BY <1>1, <1>2
  <1> HIDE DEF q, n
  <1>5. ASSUME NEW i \in DOMAIN q PROVE q[i].index = i - 1 /\ (q[i].complete => q[i].arguments > 0)
    <2>1. CASE i \in 1 .. n
      BY <1>1, <1>4, <2>1 DEF ToolsFit
    <2>2. CASE i = n + 1
      BY <1>1, <1>3, <1>4, <2>2
    <2> QED BY <1>1, <1>4, <2>1, <2>2
  <1>6. ASSUME NEW i \in DOMAIN q, NEW j \in DOMAIN q, q[i].id = q[j].id PROVE i = j
    <2>1. (i \in 1 .. n \/ i = n + 1) /\ (j \in 1 .. n \/ j = n + 1)
      BY <1>1, <1>4
    <2>2. CASE i \in 1 .. n /\ j \in 1 .. n
      BY <1>1, <1>4, <1>6, <2>2 DEF ToolsFit
    <2>3. CASE i \in 1 .. n /\ j = n + 1
      BY <1>1, <1>3, <1>4, <1>6, <2>3
    <2>4. CASE i = n + 1 /\ j \in 1 .. n
      BY <1>1, <1>3, <1>4, <1>6, <2>4
    <2> QED BY <2>1, <2>2, <2>3, <2>4
  <1>7. ToolsFit(q)
    BY <1>4, <1>5, <1>6 DEF ToolsFit
  <1> QED BY <1>4, <1>7 DEF q, new, n

\* A call is changed in its place.
LEMMA ToolChanged ==
  ASSUME NEW ts, ToolsFit(ts), NEW p \in DOMAIN ts, NEW x \in ToolRecords,
         x.id = ts[p].id, x.index = ts[p].index, x.complete => x.arguments > 0
  PROVE  ToolsFit([ts EXCEPT ![p] = x]) /\ Len([ts EXCEPT ![p] = x]) = Len(ts)
  <1> DEFINE q == [ts EXCEPT ![p] = x]
  <1>1. ts \in Seq(ToolRecords) /\ Len(ts) \in Nat /\ DOMAIN ts = 1 .. Len(ts)
    BY DEF ToolsFit
  <1>2. /\ q \in Seq(ToolRecords) /\ Len(q) = Len(ts) /\ DOMAIN q = DOMAIN ts
        /\ \A i \in DOMAIN ts : q[i] = IF i = p THEN x ELSE ts[i]
    BY <1>1, ExceptSeq
  <1> HIDE DEF q
  <1>3. \A i \in DOMAIN ts : q[i].id = ts[i].id /\ q[i].index = ts[i].index
    BY <1>2
  <1>4. \A i \in DOMAIN ts : q[i].complete => q[i].arguments > 0
    BY <1>2 DEF ToolsFit
  <1>5. ToolsFit(q)
    BY <1>2, <1>3, <1>4 DEF ToolsFit
  <1> QED BY <1>2, <1>5 DEF q

\* The slot of a new call.
LEMMA SlotOfTool ==
  ASSUME NEW s, NEW n \in Nat, NEW C, SlotsFit(s, n, C), "Tool" \notin C
  PROVE  SlotsFit(Append(s, [part |-> "Tool", index |-> n + 1]), n + 1, C)
  <1> DEFINE new == [part |-> "Tool", index |-> n + 1]
             q == Append(s, new)
             m == Len(s)
  <1>1. s \in Seq(SlotRecords) /\ m \in Nat /\ DOMAIN s = 1 .. m
    BY DEF SlotsFit
  <1>2. new \in SlotRecords /\ new.part = "Tool" /\ new.index = n + 1
    BY DEF SlotRecords
  <1> HIDE DEF new
  <1>3. /\ q \in Seq(SlotRecords) /\ DOMAIN q = 1 .. m + 1
        /\ \A i \in 1 .. m : q[i] = s[i]
        /\ q[m + 1] = new
    BY <1>1, <1>2
  <1> HIDE DEF q, m
  <1>4. \A i \in DOMAIN q : i \in 1 .. m \/ i = m + 1
    BY <1>1, <1>3
  <1>5. ASSUME NEW i \in DOMAIN q, q[i].part = "Tool" PROVE q[i].index \in 1 .. n + 1
    <2>1. CASE i \in 1 .. m
      <3>1. s[i].index \in 1 .. n
        BY <1>1, <1>3, <1>5, <2>1 DEF SlotsFit
      <3> QED BY <1>3, <2>1, <3>1
    <2>2. CASE i = m + 1
      BY <1>2, <1>3, <2>2
    <2> QED BY <1>4, <2>1, <2>2
  <1>6. ASSUME NEW i \in DOMAIN q, NEW j \in DOMAIN q, q[i].part = "Tool", q[j].part = "Tool", i < j
        PROVE  q[i].index < q[j].index
    <2>1. i \in 1 .. m
      BY <1>1, <1>3, <1>6
    <2>2. CASE j \in 1 .. m
      BY <1>1, <1>3, <1>6, <2>1, <2>2 DEF SlotsFit
    <2>3. CASE j = m + 1
      <3>1. s[i].index \in 1 .. n
        BY <1>1, <1>3, <1>6, <2>1 DEF SlotsFit
      <3> QED BY <1>2, <1>3, <2>1, <2>3, <3>1
    <2> QED BY <1>4, <2>2, <2>3
  <1>7. ASSUME NEW k \in 1 .. n + 1 PROVE \E i \in DOMAIN q : q[i].part = "Tool" /\ q[i].index = k
    <2>1. CASE k \in 1 .. n
      <3>1. PICK i \in DOMAIN s : s[i].part = "Tool" /\ s[i].index = k
        BY <2>1 DEF SlotsFit
      <3>2. i \in DOMAIN q /\ q[i] = s[i]
        BY <1>1, <1>3, <3>1
      <3> QED BY <3>1, <3>2
    <2>2. CASE k = n + 1
      BY <1>1, <1>2, <1>3, <2>2
    <2> QED BY <2>1, <2>2
  <1>8. ASSUME NEW i \in DOMAIN q, q[i].part # "Tool" PROVE i \in DOMAIN s /\ q[i] = s[i] /\ q[i].part \in C
    <2>1. i \in 1 .. m
      BY <1>2, <1>3, <1>4, <1>8
    <2> QED BY <1>1, <1>3, <1>8, <2>1 DEF SlotsFit
  <1>9. ASSUME NEW c \in C PROVE \E i \in DOMAIN q : q[i].part = c
    <2>1. PICK i \in DOMAIN s : s[i].part = c
      BY DEF SlotsFit
    <2>2. i \in DOMAIN q /\ q[i] = s[i]
      BY <1>1, <1>3, <2>1
    <2> QED BY <2>1, <2>2
  <1>10. ASSUME NEW i \in DOMAIN q, NEW j \in DOMAIN q, q[i].part = q[j].part, q[i].part # "Tool" PROVE i = j
    BY <1>8, <1>10 DEF SlotsFit
  <1>11. SlotsFit(q, n + 1, C)
    BY <1>3, <1>5, <1>6, <1>7, <1>8, <1>9, <1>10 DEF SlotsFit
  <1> QED BY <1>11 DEF q, new

\* The slot of a channel that had none.
LEMMA SlotOfChannel ==
  ASSUME NEW s, NEW n \in Nat, NEW C, SlotsFit(s, n, C), NEW c \in Channels, c \notin C
  PROVE  SlotsFit(Append(s, [part |-> c]), n, C \cup {c})
  <1> DEFINE new == [part |-> c]
             q == Append(s, new)
             m == Len(s)
  <1>1. s \in Seq(SlotRecords) /\ m \in Nat /\ DOMAIN s = 1 .. m
    BY DEF SlotsFit
  <1>2. new \in SlotRecords /\ new.part = c /\ c # "Tool"
    BY DEF SlotRecords, Channels
  <1> HIDE DEF new
  <1>3. /\ q \in Seq(SlotRecords) /\ DOMAIN q = 1 .. m + 1
        /\ \A i \in 1 .. m : q[i] = s[i]
        /\ q[m + 1] = new
    BY <1>1, <1>2
  <1> HIDE DEF q, m
  <1>4. \A i \in DOMAIN q : (i \in DOMAIN s /\ q[i] = s[i] /\ s[i].part # c) \/ i = m + 1
    <2> SUFFICES ASSUME NEW i \in DOMAIN q, i # m + 1 PROVE i \in DOMAIN s /\ q[i] = s[i] /\ s[i].part # c
      OBVIOUS
    <2>1. i \in DOMAIN s /\ q[i] = s[i]
      BY <1>1, <1>3
    <2> QED BY <1>2, <2>1 DEF SlotsFit
  <1>5. \A i \in DOMAIN s : i \in DOMAIN q /\ q[i] = s[i]
    BY <1>1, <1>3
  <1>6. m + 1 \in DOMAIN q /\ q[m + 1].part = c
    BY <1>1, <1>2, <1>3
  <1>7. \A i \in DOMAIN q : q[i].part = "Tool" => i \in DOMAIN s /\ q[i] = s[i]
    BY <1>2, <1>4, <1>6
  <1>8. \A i \in DOMAIN q : q[i].part = "Tool" => q[i].index \in 1 .. n
    BY <1>7 DEF SlotsFit
  <1>9. \A i, j \in DOMAIN q : q[i].part = "Tool" /\ q[j].part = "Tool" /\ i < j => q[i].index < q[j].index
    BY <1>7 DEF SlotsFit
  <1>10. \A k \in 1 .. n : \E i \in DOMAIN q : q[i].part = "Tool" /\ q[i].index = k
    BY <1>5 DEF SlotsFit
  <1>11. \A i \in DOMAIN q : q[i].part # "Tool" => q[i].part \in C \cup {c}
    BY <1>4, <1>6 DEF SlotsFit
  <1>12. \A x \in C \cup {c} : \E i \in DOMAIN q : q[i].part = x
    BY <1>5, <1>6 DEF SlotsFit
  <1>13. \A i, j \in DOMAIN q : q[i].part = q[j].part /\ q[i].part # "Tool" => i = j
    BY <1>4, <1>6 DEF SlotsFit
  <1>14. SlotsFit(q, n, C \cup {c})
    BY <1>3, <1>8, <1>9, <1>10, <1>11, <1>12, <1>13 DEF SlotsFit
  <1> QED BY <1>14 DEF q, new

\* The channels with text.
Shown == {c \in Channels : text[c] # <<>>}

CallInv == ToolsFit(tools) /\ SlotsFit(slots, Len(tools), Shown)

\* Finish saw every call complete, and a response was made where the reason agreed.
FinishInv ==
  /\ finishReason = {} \/ (AllComplete /\ \E reason \in Reasons : finishReason = {reason})
  /\ status = "Response" => /\ parts = [i \in DOMAIN slots |-> Part(slots[i])]
                            /\ \E reason \in finishReason : Agrees(reason)

AssemblerInv == TextInv /\ CallInv /\ FinishInv

\* Steps that change neither the calls nor the slots.
LEMMA CallsKept ==
  ASSUME CallInv, UNCHANGED <<tools, slots, text>> PROVE CallInv'
  BY DEF CallInv, Shown

\* Steps of an assembler that stays open, without an event after Finish.
LEMMA FinishKept ==
  ASSUME FinishInv, Taking, status' = status, UNCHANGED finishReason PROVE FinishInv'
  BY DEF FinishInv, Taking

\* A refused stream keeps what it had.
LEMMA RefusedKeeps ==
  ASSUME AssemblerInv, PushFails PROVE AssemblerInv'
  <1>1. UNCHANGED <<slots, text, endedWithCr, tools, finishReason, raw, forwarded>> /\ status' = "Refused"
    BY DEF PushFails
  <1>2. TextInv' /\ CallInv'
    BY <1>1, TextKept, CallsKept DEF AssemblerInv
  <1>3. FinishInv'
    BY <1>1 DEF AssemblerInv, FinishInv, AllComplete
  <1> QED BY <1>2, <1>3 DEF AssemblerInv

\* A delta gives its channel a slot exactly when it is its first text.
LEMMA DeltaKeepsCalls ==
  ASSUME TextInv, CallInv, NEW c \in Channels, NEW d \in Strings,
         slots' = IF d # <<>> /\ NewSlot(c) THEN Append(slots, [part |-> c]) ELSE slots,
         text' = [text EXCEPT ![c] = @ \o d], UNCHANGED tools
  PROVE  CallInv'
  <1>1. text \in [Channels -> Strings] /\ text[c] \in Strings
    BY DEF TextInv
  <1>2. text'[c] = text[c] \o d /\ \A x \in Channels : x # c => text'[x] = text[x]
    BY <1>1
  <1>3. text[c] \o d = <<>> <=> text[c] = <<>> /\ d = <<>>
    BY <1>1 DEF Strings
  <1>4. Len(tools) \in Nat
    BY DEF CallInv, ToolsFit
  <1>5. CASE d # <<>> /\ NewSlot(c)
    <2>1. c \notin Shown
      BY <1>5 DEF NewSlot, Shown
    <2>2. Shown' = Shown \cup {c}
      <3>1. text'[c] # <<>>
        BY <1>2, <1>3, <1>5
      <3> QED BY <1>2, <3>1 DEF Shown
    <2>3. SlotsFit(Append(slots, [part |-> c]), Len(tools), Shown \cup {c})
      BY <1>4, <2>1, SlotOfChannel DEF CallInv
    <2>4. slots' = Append(slots, [part |-> c])
      BY <1>5
    <2> QED BY <2>2, <2>3, <2>4 DEF CallInv
  <1>6. CASE ~(d # <<>> /\ NewSlot(c))
    <2>1. text'[c] # <<>> <=> text[c] # <<>>
      BY <1>2, <1>3, <1>6 DEF NewSlot
    <2>2. Shown' = Shown
      BY <1>2, <2>1 DEF Shown
    <2>3. slots' = slots
      BY <1>6
    <2> QED BY <2>2, <2>3 DEF CallInv
  <1> QED BY <1>5, <1>6

\* An offered call under a new id.
LEMMA StartKeepsCalls ==
  ASSUME CallInv, NEW id \in ToolIds, NEW name, MayStart(id, name),
         tools' = Append(tools, [id |-> id, name |-> name, arguments |-> 0, complete |-> FALSE,
                                 index |-> Len(tools)]),
         slots' = Append(slots, [part |-> "Tool", index |-> Len(tools) + 1]),
         UNCHANGED text
  PROVE  CallInv'
  <1>1. name \in Offered /\ \A i \in DOMAIN tools : tools[i].id # id
    BY DEF MayStart, Started
  <1>2. Len(tools) \in Nat
    BY DEF CallInv, ToolsFit
  <1>3. ToolsFit(tools') /\ Len(tools') = Len(tools) + 1
    BY <1>1, ToolAppended DEF CallInv
  <1>4. "Tool" \notin Shown
    BY DEF Shown, Channels
  <1>5. SlotsFit(slots', Len(tools) + 1, Shown)
    BY <1>2, <1>4, SlotOfTool DEF CallInv
  <1>6. Shown' = Shown
    BY DEF Shown
  <1> QED BY <1>3, <1>5, <1>6 DEF CallInv

\* The position of a running call.
LEMMA RunningPosition ==
  ASSUME CallInv, NEW id, Running(id)
  PROVE  /\ Position(id) \in DOMAIN tools /\ ~tools[Position(id)].complete
         /\ tools[Position(id)] \in ToolRecords
  <1>1. \E i \in DOMAIN tools : tools[i].id = id
    BY DEF Running, Started
  <1>2. Position(id) \in DOMAIN tools
    BY <1>1 DEF Position
  <1>3. tools[Position(id)] \in ToolRecords
    BY <1>2 DEF CallInv, ToolsFit
  <1> QED BY <1>2, <1>3 DEF Running

\* More arguments for a running call.
LEMMA ArgumentsKeepCalls ==
  ASSUME CallInv, NEW id, Running(id), NEW bytes \in Nat,
         tools' = [tools EXCEPT ![Position(id)].arguments = @ + bytes], UNCHANGED <<slots, text>>
  PROVE  CallInv'
  <1> DEFINE p == Position(id)
             x == [tools[p] EXCEPT !.arguments = @ + bytes]
  <1>1. p \in DOMAIN tools /\ ~tools[p].complete /\ tools[p] \in ToolRecords
    BY RunningPosition
  <1>2. x \in ToolRecords /\ x.id = tools[p].id /\ x.index = tools[p].index /\ ~x.complete
    BY <1>1 DEF ToolRecords
  <1>3. tools' = [tools EXCEPT ![p] = x]
    OBVIOUS
  <1> HIDE DEF p, x
  <1>4. ToolsFit(tools') /\ Len(tools') = Len(tools)
    <2>1. ToolsFit(tools)
      BY DEF CallInv
    <2>2. x.complete => x.arguments > 0
      BY <1>2
    <2>3. ToolsFit([tools EXCEPT ![p] = x]) /\ Len([tools EXCEPT ![p] = x]) = Len(tools)
      BY <1>1, <1>2, <2>1, <2>2, ToolChanged
    <2> QED BY <1>3, <2>3
  <1>5. Shown' = Shown
    BY DEF Shown
  <1> QED BY <1>4, <1>5 DEF CallInv

\* A running call with arguments is complete.
LEMMA EndKeepsCalls ==
  ASSUME CallInv, NEW id, Running(id), tools[Position(id)].arguments # 0,
         tools' = [tools EXCEPT ![Position(id)].complete = TRUE], UNCHANGED <<slots, text>>
  PROVE  CallInv'
  <1> DEFINE p == Position(id)
             x == [tools[p] EXCEPT !.complete = TRUE]
  <1>1. p \in DOMAIN tools /\ tools[p] \in ToolRecords /\ tools[p].arguments # 0
    BY RunningPosition
  <1>2. x \in ToolRecords /\ x.id = tools[p].id /\ x.index = tools[p].index /\ x.arguments > 0
    <2>1. tools[p].arguments \in Nat
      BY <1>1 DEF ToolRecords
    <2>2. x.arguments = tools[p].arguments /\ x.id = tools[p].id /\ x.index = tools[p].index
      BY <1>1 DEF ToolRecords
    <2>3. x \in ToolRecords
      BY <1>1 DEF ToolRecords
    <2> QED BY <1>1, <2>1, <2>2, <2>3
  <1>3. tools' = [tools EXCEPT ![p] = x]
    OBVIOUS
  <1> HIDE DEF p, x
  <1>4. ToolsFit(tools') /\ Len(tools') = Len(tools)
    <2>1. ToolsFit(tools)
      BY DEF CallInv
    <2>2. x.complete => x.arguments > 0
      BY <1>2
    <2>3. ToolsFit([tools EXCEPT ![p] = x]) /\ Len([tools EXCEPT ![p] = x]) = Len(tools)
      BY <1>1, <1>2, <2>1, <2>2, ToolChanged
    <2> QED BY <1>3, <2>3
  <1>5. Shown' = Shown
    BY DEF Shown
  <1> QED BY <1>4, <1>5 DEF CallInv

\* The empty assembler.
LEMMA AssemblerStarts == AssemblerInit => AssemblerInv
  <1> SUFFICES ASSUME AssemblerInit PROVE AssemblerInv
    OBVIOUS
  <1>1. TextInv
    BY TextStarts
  <1>2. tools = <<>> /\ slots = <<>> /\ Shown = {}
    BY DEF AssemblerInit, Shown
  <1>3. ToolsFit(tools) /\ Len(tools) = 0
    BY <1>2 DEF ToolsFit
  <1>4. SlotsFit(<<>>, 0, {})
    BY DEF SlotsFit
  <1>5. FinishInv
    BY DEF AssemblerInit, FinishInv
  <1> QED BY <1>1, <1>2, <1>3, <1>4, <1>5 DEF AssemblerInv, CallInv

\* Every step keeps the invariant: one case for each action.
LEMMA AssemblerStep == AssemblerInv /\ [AssemblerNext]_assemblerVars => AssemblerInv'
  <1> SUFFICES ASSUME AssemblerInv, [AssemblerNext]_assemblerVars PROVE AssemblerInv'
    OBVIOUS
  <1>0. TextInv /\ CallInv /\ FinishInv /\ TextInv'
    BY TextStep DEF AssemblerInv
  <1>1. CASE PushFails
    BY <1>1, RefusedKeeps
  <1>2. ASSUME NEW c \in Channels, NEW delta \in Deltas, Delta(c, delta), ~PushFails PROVE AssemblerInv'
    <2> DEFINE d == normalized_delta(delta, endedWithCr[c])
    <2>1. d \in Strings
      <3>1. /\ delta \in Strings /\ text[c] \in Strings /\ raw[c] \in Strings /\ endedWithCr[c] \in BOOLEAN
            /\ IsCanonical(text[c], raw[c]) /\ (endedWithCr[c] <=> EndsInCr(raw[c]))
        BY <1>0, DeltasAreStrings DEF TextInv
      <3> QED BY <3>1, DeltaCanonical DEF EndsInCr
    <2>2. /\ Taking /\ status' = status /\ UNCHANGED <<finishReason, tools>>
          /\ slots' = IF d # <<>> /\ NewSlot(c) THEN Append(slots, [part |-> c]) ELSE slots
          /\ text' = [text EXCEPT ![c] = @ \o d]
      BY <1>2 DEF Delta, Accept
    <2> HIDE DEF d
    <2>3. CallInv'
      BY <1>0, <2>1, <2>2, DeltaKeepsCalls
    <2>4. FinishInv'
      BY <1>0, <2>2, FinishKept
    <2> QED BY <1>0, <2>3, <2>4 DEF AssemblerInv
  <1>3. ASSUME NEW id \in ToolIds, NEW name, ToolCallStart(id, name), ~PushFails PROVE AssemblerInv'
    <2>1. CallInv'
      BY <1>0, <1>3, StartKeepsCalls DEF ToolCallStart
    <2>2. FinishInv'
      BY <1>0, <1>3, FinishKept DEF ToolCallStart, Accept
    <2> QED BY <1>0, <2>1, <2>2 DEF AssemblerInv
  <1>4. ASSUME NEW id \in ToolIds, NEW bytes \in 0 .. MaxDelta + 1, ToolCallArgumentsDelta(id, bytes), ~PushFails
        PROVE  AssemblerInv'
    <2>1. bytes \in Nat
      BY AssemblerAssumption
    <2>2. CallInv'
      BY <1>0, <1>4, <2>1, ArgumentsKeepCalls DEF ToolCallArgumentsDelta
    <2>3. FinishInv'
      BY <1>0, <1>4, FinishKept DEF ToolCallArgumentsDelta, Accept
    <2> QED BY <1>0, <2>2, <2>3 DEF AssemblerInv
  <1>5. ASSUME NEW id \in ToolIds, NEW parses, ToolCallEnd(id, parses), ~PushFails PROVE AssemblerInv'
    <2>1. CallInv'
      BY <1>0, <1>5, EndKeepsCalls DEF ToolCallEnd
    <2>2. FinishInv'
      BY <1>0, <1>5, FinishKept DEF ToolCallEnd, Accept
    <2> QED BY <1>0, <2>1, <2>2 DEF AssemblerInv
  <1>6. ASSUME UsageEvent \/ ProviderReplayEvent, ~PushFails PROVE AssemblerInv'
    <2>1. Taking /\ status' = status /\ UNCHANGED <<finishReason, tools, slots, text>>
      BY <1>6 DEF UsageEvent, ProviderReplayEvent, Accept
    <2>2. CallInv' /\ FinishInv'
      BY <1>0, <2>1, CallsKept, FinishKept
    <2> QED BY <1>0, <2>2 DEF AssemblerInv
  <1>7. ASSUME NEW reason \in Reasons, Finish(reason), ~PushFails PROVE AssemblerInv'
    <2>1. /\ AllComplete /\ finishReason' = {reason} /\ status = "Open" /\ status' = status
          /\ UNCHANGED <<tools, slots, text>>
      BY <1>7 DEF Finish, Accept, Taking
    <2>2. CallInv'
      BY <1>0, <2>1, CallsKept
    <2>3. FinishInv'
      BY <2>1 DEF FinishInv, AllComplete
    <2> QED BY <1>0, <2>2, <2>3 DEF AssemblerInv
  <1>8. ASSUME EndOfStream, ~PushFails PROVE AssemblerInv'
    <2>1. /\ \E reason \in finishReason : Agrees(reason)
          /\ parts' = [i \in DOMAIN slots |-> Part(slots[i])]
          /\ UNCHANGED <<slots, text, tools, replay, finishReason>>
      BY <1>8 DEF EndOfStream
    <2>2. CallInv'
      BY <1>0, <2>1, CallsKept
    <2>3. (finishReason = {} \/ (AllComplete /\ \E reason \in Reasons : finishReason = {reason}))'
      BY <1>0, <2>1 DEF FinishInv, AllComplete
    <2>4. (parts = [i \in DOMAIN slots |-> Part(slots[i])])'
      BY <2>1 DEF Part
    <2>5. (\E reason \in finishReason : Agrees(reason))'
      BY <2>1 DEF Agrees
    <2> QED BY <1>0, <2>2, <2>3, <2>4, <2>5 DEF AssemblerInv, FinishInv
  <1>9. CASE AssemblerDone \/ UNCHANGED assemblerVars
    <2>1. UNCHANGED <<slots, text, tools, replay, finishReason, status, parts>>
      BY <1>9 DEF AssemblerDone, assemblerVars
    <2>2. CallInv'
      BY <1>0, <2>1, CallsKept
    <2>3. FinishInv'
      BY <1>0, <2>1 DEF FinishInv, AllComplete, Part, Agrees
    <2> QED BY <1>0, <2>2, <2>3 DEF AssemblerInv
  <1>10. CASE EventAfterFinish
    BY <1>1, <1>10 DEF EventAfterFinish
  <1> QED BY <1>1, <1>2, <1>3, <1>4, <1>5, <1>6, <1>7, <1>8, <1>9, <1>10 DEF AssemblerNext

\* A part of the response is the slot's call, or its channel's text.
LEMMA PartsAreSlots ==
  ASSUME CallInv, parts = [i \in DOMAIN slots |-> Part(slots[i])]
  PROVE  /\ DOMAIN parts = DOMAIN slots
         /\ \A i \in DOMAIN slots :
              IF slots[i].part = "Tool"
                THEN LET k == slots[i].index
                     IN  /\ k \in DOMAIN tools
                         /\ parts[i].part = "Tool" /\ parts[i].id = tools[k].id
                         /\ parts[i].name = tools[k].name /\ parts[i].index = k - 1
                ELSE /\ slots[i].part \in Shown
                     /\ parts[i].part = slots[i].part /\ parts[i].text = text[slots[i].part]
  <1>1. Len(tools) \in Nat /\ DOMAIN tools = 1 .. Len(tools)
    BY DEF CallInv, ToolsFit
  <1>2. \A i \in DOMAIN slots : parts[i] = Part(slots[i])
    OBVIOUS
  <1>3. ASSUME NEW i \in DOMAIN slots, slots[i].part = "Tool"
        PROVE  LET k == slots[i].index
               IN  /\ k \in DOMAIN tools
                   /\ parts[i].part = "Tool" /\ parts[i].id = tools[k].id
                   /\ parts[i].name = tools[k].name /\ parts[i].index = k - 1
    <2> DEFINE k == slots[i].index
    <2>1. k \in DOMAIN tools
      BY <1>1, <1>3 DEF CallInv, SlotsFit
    <2>2. tools[k].index = k - 1
      BY <2>1 DEF CallInv, ToolsFit
    <2>3. parts[i] = [part |-> "Tool", id |-> tools[k].id, name |-> tools[k].name, index |-> tools[k].index]
      BY <1>2, <1>3 DEF Part
    <2> QED BY <2>1, <2>2, <2>3
  <1>4. ASSUME NEW i \in DOMAIN slots, slots[i].part # "Tool"
        PROVE  /\ slots[i].part \in Shown
               /\ parts[i].part = slots[i].part /\ parts[i].text = text[slots[i].part]
    <2>1. slots[i].part \in Shown
      BY <1>4 DEF CallInv, SlotsFit
    <2>2. parts[i] = [part |-> slots[i].part, text |-> text[slots[i].part]]
      BY <1>2, <1>4 DEF Part
    <2> QED BY <2>1, <2>2
  <1> QED BY <1>3, <1>4

\* What the invariant says of a response.
LEMMA ResponseHolds ==
  ASSUME AssemblerInv, status = "Response" PROVE HoldsCalls /\ HoldsText /\ Actionable
  <1>1. /\ CallInv /\ parts = [i \in DOMAIN slots |-> Part(slots[i])]
        /\ \E reason \in finishReason : Agrees(reason)
        /\ AllComplete /\ \E reason \in Reasons : finishReason = {reason}
    BY DEF AssemblerInv, FinishInv
  <1>2. Len(tools) \in Nat /\ DOMAIN tools = 1 .. Len(tools) /\ tools \in Seq(ToolRecords)
    BY <1>1 DEF CallInv, ToolsFit
  <1>3. "Tool" \notin Shown /\ Shown \subseteq Channels /\ "Tool" \notin Channels
    BY DEF Shown, Channels
  <1>4. DOMAIN parts = DOMAIN slots
    BY <1>1, PartsAreSlots
  <1>5. \A i \in DOMAIN slots : slots[i].part = "Tool" =>
          /\ slots[i].index \in DOMAIN tools
          /\ parts[i].part = "Tool" /\ parts[i].id = tools[slots[i].index].id
          /\ parts[i].name = tools[slots[i].index].name /\ parts[i].index = slots[i].index - 1
    BY <1>1, PartsAreSlots
  <1>6. \A i \in DOMAIN slots : slots[i].part # "Tool" =>
          slots[i].part \in Shown /\ parts[i].part = slots[i].part /\ parts[i].text = text[slots[i].part]
    BY <1>1, PartsAreSlots
  <1>7. CallParts = {i \in DOMAIN slots : slots[i].part = "Tool"}
    BY <1>3, <1>4, <1>5, <1>6 DEF CallParts
  <1>8. HoldsCalls
    <2>1. ASSUME NEW i \in CallParts PROVE parts[i].index < Len(tools)
      <3>1. slots[i].index \in 1 .. Len(tools) /\ parts[i].index = slots[i].index - 1
        BY <1>2, <1>5, <1>7
      <3> QED BY <1>2, <3>1
    <2>2. ASSUME NEW i \in CallParts, NEW j \in CallParts, i < j
          PROVE  parts[i].index < parts[j].index /\ parts[i].id # parts[j].id
      <3>1. /\ slots[i].index \in DOMAIN tools /\ slots[j].index \in DOMAIN tools
            /\ parts[i].index = slots[i].index - 1 /\ parts[j].index = slots[j].index - 1
            /\ parts[i].id = tools[slots[i].index].id /\ parts[j].id = tools[slots[j].index].id
        BY <1>5, <1>7
      <3>2. slots[i].index < slots[j].index
        BY <1>1, <1>7, <2>2 DEF CallInv, SlotsFit
      <3>3. slots[i].index \in Nat /\ slots[j].index \in Nat /\ slots[i].index # slots[j].index
        BY <1>2, <3>1, <3>2
      <3>4. parts[i].id # parts[j].id
        BY <1>1, <3>1, <3>3 DEF CallInv, ToolsFit
      <3>5. parts[i].index < parts[j].index
        BY <3>1, <3>2, <3>3
      <3> QED BY <3>4, <3>5
    <2>3. ASSUME NEW k \in DOMAIN tools
          PROVE  tools[k].complete /\ tools[k].arguments > 0 /\ tools[k].name \in Offered
      <3>1. tools[k].complete
        BY <1>1 DEF AllComplete
      <3>2. tools[k].arguments > 0
        BY <1>1, <3>1 DEF CallInv, ToolsFit
      <3>3. tools[k].name \in Offered
        <4>1. tools[k] \in ToolRecords
          BY <1>2
        <4> QED BY <4>1 DEF ToolRecords
      <3> QED BY <3>1, <3>2, <3>3
    <2>4. ASSUME NEW k \in DOMAIN tools
          PROVE  \E i \in CallParts : /\ parts[i].id = tools[k].id /\ parts[i].name = tools[k].name
                                      /\ parts[i].index = k - 1
      <3>1. PICK i \in DOMAIN slots : slots[i].part = "Tool" /\ slots[i].index = k
        BY <1>1, <1>2 DEF CallInv, SlotsFit
      <3> QED BY <1>5, <1>7, <3>1
    <2> QED BY <2>1, <2>2, <2>3, <2>4 DEF HoldsCalls
  <1>9. HoldsText
    <2> SUFFICES ASSUME NEW c \in Channels
                 PROVE  LET held == {i \in DOMAIN parts : parts[i].part = c}
                        IN  IF text[c] = <<>> THEN held = {}
                                              ELSE \E i \in held : held = {i} /\ parts[i].text = text[c]
      BY DEF HoldsText
    <2> DEFINE held == {i \in DOMAIN parts : parts[i].part = c}
    <2>1. held = {i \in DOMAIN slots : slots[i].part = c}
      BY <1>3, <1>4, <1>5, <1>6
    <2>2. CASE text[c] = <<>>
      <3>1. c \notin Shown
        BY <2>2 DEF Shown
      <3>2. \A i \in DOMAIN slots : slots[i].part # c
        BY <1>3, <1>6, <3>1
      <3> QED BY <2>1, <2>2, <3>2
    <2>3. CASE text[c] # <<>>
      <3>1. c \in Shown
        BY <2>3 DEF Shown
      <3>2. PICK i \in DOMAIN slots : slots[i].part = c
        BY <1>1, <3>1 DEF CallInv, SlotsFit
      <3>3. \A j \in DOMAIN slots : slots[j].part = c => j = i
        BY <1>1, <1>3, <3>2 DEF CallInv, SlotsFit
      <3>4. held = {i} /\ parts[i].text = text[c]
        BY <1>3, <1>6, <2>1, <3>2, <3>3
      <3> QED BY <2>3, <3>4
    <2> QED BY <2>2, <2>3
  <1>10. Actionable
    <2>1. PICK reason \in finishReason : Agrees(reason)
      BY <1>1
    <2>2. finishReason = {reason}
      BY <1>1, <2>1
    <2>3. CallParts # {} <=> tools # <<>>
      <3>1. ASSUME CallParts # {} PROVE tools # <<>>
        <4>1. PICK i \in CallParts : TRUE
          BY <3>1
        <4>2. slots[i].index \in DOMAIN tools
          BY <1>5, <1>7
        <4> QED BY <1>2, <4>2
      <3>2. ASSUME tools # <<>> PROVE CallParts # {}
        <4>1. 1 \in DOMAIN tools
          BY <1>2, <3>2
        <4> QED BY <1>8, <4>1 DEF HoldsCalls
      <3> QED BY <3>1, <3>2
    <2>4. slots # <<>> => parts # <<>>
      <3>1. slots \in Seq(SlotRecords)
        BY <1>1 DEF CallInv, SlotsFit
      <3>2. ASSUME slots # <<>> PROVE parts # <<>>
        <4>1. 1 \in DOMAIN slots
          BY <3>1, <3>2
        <4> QED BY <1>4, <4>1
      <3> QED BY <3>2
    <2> QED BY <2>1, <2>2, <2>3, <2>4 DEF Actionable, Agrees
  <1> QED BY <1>8, <1>9, <1>10

\* The inductive invariant holds in every behaviour.
LEMMA AssemblerAlways == AssemblerSpec => []AssemblerInv
  <1>1. AssemblerInit => AssemblerInv
    BY AssemblerStarts
  <1>2. AssemblerInv /\ [AssemblerNext]_assemblerVars => AssemblerInv'
    BY AssemblerStep
  <1> QED BY <1>1, <1>2, PTL DEF AssemblerSpec

\* Wherever a provider cuts its text into deltas, at any length and in any number, the
\* assembler's text is the canonical form of everything received (normalized_delta).
THEOREM CutsAreInvisible == AssemblerSpec => []ChunkingInvisible
  <1>1. AssemblerInv => ChunkingInvisible
    BY DEF AssemblerInv, TextInv, ChunkingInvisible
  <1> QED BY <1>1, AssemblerAlways, PTL

\* What push handed to the progress sink is what the response will hold.
THEOREM ProgressIsAssembled == AssemblerSpec => []ProgressIsText
  <1>1. AssemblerInv => ProgressIsText
    BY DEF AssemblerInv, TextInv, ProgressIsText
  <1> QED BY <1>1, AssemblerAlways, PTL

\* A response that finish returns holds everything streamed and can be acted on.
THEOREM ResponsesAreStreams == AssemblerSpec => []ResponseIsStream
  <1>1. AssemblerInv => ResponseIsStream
    BY ResponseHolds DEF AssemblerInv, TextInv, ResponseIsStream
  <1> QED BY <1>1, AssemblerAlways, PTL
=============================================================================
