------------------------------- MODULE AgentLoop -------------------------------
(***************************************************************************)
(* One agent loop: the single runner task (src/agent_loop/runner.rs and    *)
(* runner/), the control plane it shares with the handles, the watch       *)
(* channels it publishes to, and the host: cancelling, updating and        *)
(* answering threads, waiters, the passing of the deadline, panicking host *)
(* code and an abort of the task.                                          *)
(*                                                                         *)
(* A runner action is the code from one await, or one atomic section of    *)
(* the control plane, to the next.  The ports (prompt, model, policy,      *)
(* tool) are the environment's: every outcome run_port_call can produce in *)
(* the present state is a choice.                                          *)
(***************************************************************************)
EXTENDS LoopControl, Sequences

CONSTANTS
  Tools,        \* tool names
  ToolsOf,      \* the frozen ToolSet of a config
  HasPolicy,    \* configs that carry a ToolPolicy
  Options,      \* LoopOptions to start the loop with
  InitialConfig,\* LoopRequest::config
  Waiters,      \* callers of LoopHandle::wait
  MaxRequests,  \* bound: issued requests after which the model calls no more tools
  MaxInputs,    \* bound: inputs the host hands over in one loop
  MaxCalls,     \* max_tool_calls_per_response
  HostPanics,   \* host code may panic outside run_port_call's isolation
  TaskAborts    \* the runtime may drop the runner task at an await

\* A port timeout is Short (below the 24 h horizon that stands in for a missing
\* loop deadline), Long (at or above it) or Overflow (now + timeout does not
\* exist).  validate() bounds the model's timeout by 24 h, no other.
Timeouts == {"Short", "Long", "Overflow"}

LoopOptions ==
  [deadline : BOOLEAN, maxToolRounds : Nat, prompt : Timeouts, policy : Timeouts,
   tool : Timeouts, model : {"Short", "Long"}]

ASSUME LoopAssumption ==
  /\ InitialConfig \in Configs
  /\ HasPolicy \in SUBSET Configs
  /\ ToolsOf \in [Configs -> SUBSET Tools]
  /\ Options \subseteq LoopOptions
  /\ MaxRequests \in Nat /\ MaxInputs \in Nat /\ MaxCalls \in Nat
  /\ HostPanics \in BOOLEAN /\ TaskAborts \in BOOLEAN

VARIABLES
  options,          \* LoopOptions, fixed at start
  late,             \* the configured loop deadline has passed
  pc,               \* where the runner task is
  path,             \* FailPath the loop broke out with
  config,           \* current_config
  candidate,        \* candidate_revision: {} or one revision
  snapshot,         \* the config pinned for the request and its tool batch
  prompt,           \* the prepared messages: what they were built from
  issuedRevision,   \* issued_revision
  requestIndex,     \* request_index
  requests,         \* requests
  lastIssued,       \* last_issued_request_index: {} or one index
  toolRounds,       \* tool_rounds
  calls,            \* the tool calls of the current response
  callIx,           \* the call being executed
  appended,         \* WorkingHistory::appended
  taken,            \* inputs handed over by LoopInputs::take so far
  outcome,          \* `intended`, then the outcome of the report
  unwound,          \* how run_loop_inner unwound: No, Running, or Tail (after its report)
  loopState,        \* the LoopState watch channel
  completion,       \* the completion watch channel: {} or one report
  closed,           \* its sender is gone
  finishedEvent,    \* LoopEvent::Finished was emitted
  waiter,           \* where each LoopHandle::wait call is
  issued            \* history: the requests that went out

requestVars == <<config, candidate, snapshot, prompt, issuedRevision, requestIndex,
                 requests, lastIssued, issued>>
batchVars   == <<toolRounds, calls, callIx>>
historyVars == <<appended, taken>>
endVars     == <<path, outcome, unwound>>
channelVars == <<loopState, completion, closed, finishedEvent>>
hostVars    == <<options, late, waiter>>
runnerVars  == <<pc, requestVars, batchVars, historyVars, endVars, channelVars>>
vars        == <<controlVars, runnerVars, hostVars>>

FailPaths ==
  {"Completed", "Cancelled", "Deadline", "Prompt", "Model", "InvalidModelResponse",
   "OutputLimit", "Refused", "ContentFiltered", "Policy", "Interaction",
   "MaxToolRounds", "Internal"}

\* LoopOutcome: Completed, Cancelled(reason) as the reason, Failed(kind) as the kind.
Failures == FailPaths \ {"Completed", "Cancelled", "Deadline"}
LoopOutcomes == {"Completed", "Deadline"} \cup Reasons \cup Failures

ResultOutcomes == {"Success", "Failed", "Denied", "Cancelled", "InputProvided"}

\* History items.  `ref` numbers a steering input, counts an assistant's tool
\* calls, or is the position of the call a tool result answers.
Items ==
  [kind : {"Prompt", "Steering", "Assistant", "ToolResult"}, request : Nat, ref : Nat,
   result : ResultOutcomes \cup {"None"}]

UserItem(kind, n) == [kind |-> kind, request |-> 0, ref |-> n, result |-> "None"]
AssistantItem(index, n) ==
  [kind |-> "Assistant", request |-> index, ref |-> n, result |-> "None"]
ResultItem(index, n, result) ==
  [kind |-> "ToolResult", request |-> index, ref |-> n, result |-> result]

Reports ==
  [outcome : LoopOutcomes, appended : Seq(Items), requests : Nat, toolRounds : Nat,
   revision : Revisions]

Statuses ==
  {"Starting", "RunningModel", "RunningTools", "WaitingForInput", "Finishing", "Finished"}

LoopStates ==
  [status : Statuses, requestIndex : Nat, revision : Revisions, model : SUBSET Configs,
   pending : SUBSET Nat]

LoopStateOf(status, index, revision, model) ==
  [status |-> status, requestIndex |-> index, revision |-> revision, model |-> model,
   pending |-> {}]

Init ==
  /\ ControlInit
  /\ options \in Options
  /\ late = FALSE
  /\ waiter = [w \in Waiters |-> "Idle"]
  /\ pc = "Spawned"
  /\ path = "Completed"
  /\ outcome = "Completed"
  /\ unwound = "No"
  /\ config = InitialConfig
  /\ snapshot = InitialConfig
  /\ candidate = {}
  /\ prompt = [length |-> 0, config |-> InitialConfig]
  /\ issuedRevision = 0
  /\ requestIndex = 0
  /\ requests = 0
  /\ lastIssued = {}
  /\ issued = <<>>
  /\ toolRounds = 0
  /\ calls = <<>>
  /\ callIx = 1
  /\ appended = <<>>
  /\ taken = 0
  /\ loopState = LoopStateOf("Starting", 0, 0, {})
  /\ completion = {}
  /\ closed = FALSE
  /\ finishedEvent = FALSE

-----------------------------------------------------------------------------
(* Port calls. *)

\* Mutant: a timeout is blamed on the loop deadline whatever its source.
TurnExpires_always(timeout) == TRUE

\* turn_deadline and effective_deadline: with no loop deadline the turn's is 24 h
\* from now, so only a port timeout of at least that lets it win (ties do).
TurnExpires(timeout) == IF options.deadline THEN late ELSE timeout = "Long"
PortExpires(timeout) == options.deadline \/ timeout = "Short"

\* What run_port_call can return now.  The select is biased: a cancelled token,
\* then a passed deadline, then the future.
run_port_call(timeout) ==
  IF token THEN {"Cancelled"}
  ELSE IF timeout = "Overflow" THEN {"InvalidDeadline"}
  ELSE {o \in {"Returned", "Panicked", "Turn", "Port"} :
          CASE o = "Turn" -> TurnExpires(timeout)
            [] o = "Port" -> PortExpires(timeout)
            [] OTHER      -> ~late}

\* Leave the request loop (`break path`): finish_loop comes next.
BreakWith(p) == pc' = "Ending" /\ path' = p /\ UNCHANGED <<outcome, unwound>>

\* Go on to another point of the runner.
Goto(there) == pc' = there /\ UNCHANGED endVars

publish(s) == loopState' = s /\ UNCHANGED <<completion, closed, finishedEvent>>

-----------------------------------------------------------------------------
(* The request boundary. *)

\* The task is first polled: Started is emitted and the fresh input is appended.
StartRunner ==
  /\ pc = "Spawned"
  /\ appended' = Append(appended, UserItem("Prompt", 0))
  /\ Goto("Top")
  /\ UNCHANGED <<controlVars, requestVars, batchVars, taken, channelVars>>

\* Mutant: inputs are dropped by a boundary that also takes a config.
InputItems_unless_config(k) ==
  IF pendingConfig # {} THEN <<>> ELSE [i \in 1 .. k |-> UserItem("Steering", taken + i)]

\* The k inputs the host hands over, in order, as Steering items.
InputItems(k) == [i \in 1 .. k |-> UserItem("Steering", taken + i)]

\* take_boundary: the pending config becomes the working one, the inputs are appended.
take_boundary(k) ==
  /\ taken + k <= MaxInputs
  /\ take_config
  /\ \/ pendingConfig = {} /\ UNCHANGED <<config, candidate>>
     \/ \E p \in pendingConfig : config' = p.config /\ candidate' = {p.revision}
  /\ appended' = appended \o InputItems(k)
  /\ taken' = taken + k

\* The checks at the head of the loop.
StopAtTop ==
  /\ pc = "Top"
  /\ token \/ late
  /\ BreakWith(IF token THEN "Cancelled" ELSE "Deadline")
  /\ UNCHANGED <<controlVars, requestVars, batchVars, historyVars, channelVars>>

\* A-step, then Starting is published and the prompt provider is called.
BoundaryA(k) ==
  /\ pc = "Top"
  /\ ~token /\ ~late
  /\ take_boundary(k)
  /\ snapshot' = config'
  /\ publish(LoopStateOf("Starting", requestIndex, issuedRevision, {}))
  /\ Goto("Prepare")
  /\ UNCHANGED <<prompt, issuedRevision, requestIndex, requests, lastIssued, issued, batchVars>>

\* prepare_prompt returns messages built from the history it was given.
PromptReady ==
  /\ pc = "Prepare"
  /\ "Returned" \in run_port_call(options.prompt)
  /\ prompt' = [length |-> Len(appended), config |-> snapshot]
  /\ Goto("BoundaryF")
  /\ UNCHANGED <<controlVars, config, candidate, snapshot, issuedRevision, requestIndex,
                 requests, lastIssued, issued, batchVars, historyVars, channelVars>>

\* It fails: an error or empty prompt, a timeout, a panic, a cancellation.
PromptEnds ==
  /\ pc = "Prepare"
  /\ \E o \in run_port_call(options.prompt) :
       BreakWith(CASE o = "Cancelled" -> "Cancelled"
                   [] o = "Turn"      -> "Deadline"
                   [] OTHER           -> "Prompt")
  /\ UNCHANGED <<controlVars, requestVars, batchVars, historyVars, channelVars>>

\* Mutant: only a config makes the prompt stale, not an input.
Stale_config_only(k) == pendingConfig # {}

\* The boundary takes something: the prompt was prepared without it.
Stale(k) == pendingConfig # {} \/ k > 0

\* Mutant: a rebuilt prompt counts as another request.
BoundaryF_counts(k) ==
  /\ pc = "BoundaryF"
  /\ take_boundary(k)
  /\ Goto(IF Stale(k) THEN "Top" ELSE "Issue")
  /\ requestIndex' = IF Stale(k) THEN requestIndex + 1 ELSE requestIndex
  /\ UNCHANGED <<snapshot, prompt, issuedRevision, requests, lastIssued, issued,
                 batchVars, channelVars>>

\* F-step: whatever landed during the preparation makes the prompt stale.
BoundaryF(k) ==
  /\ pc = "BoundaryF"
  /\ take_boundary(k)
  /\ Goto(IF Stale(k) THEN "Top" ELSE "Issue")
  /\ UNCHANGED <<snapshot, prompt, issuedRevision, requestIndex, requests, lastIssued, issued,
                 batchVars, channelVars>>

\* build_model_request rejects the provider's messages.
BuildFails ==
  /\ pc = "Issue"
  /\ BreakWith("Prompt")
  /\ UNCHANGED <<controlVars, requestVars, batchVars, historyVars, channelVars>>

\* Mutant: every request gets a new revision, updated or not.
RevisionToIssue_counts == next(issuedRevision)

\* The revision of the request at the issue boundary.
RevisionToIssue == IF candidate = {} THEN issuedRevision ELSE CHOOSE r \in candidate : TRUE

\* The issue boundary: commit the revision, count the request, call the model.
Issue ==
  /\ pc = "Issue"
  /\ commit_revision(RevisionToIssue)
  /\ issuedRevision' = RevisionToIssue
  /\ candidate' = {}
  /\ requests' = requests + 1
  /\ lastIssued' = {requestIndex}
  /\ issued' = Append(issued, [index |-> requestIndex, revision |-> RevisionToIssue,
                               config |-> snapshot])
  /\ publish(LoopStateOf("RunningModel", requestIndex, RevisionToIssue, {snapshot}))
  /\ Goto("Model")
  /\ UNCHANGED <<config, snapshot, prompt, requestIndex, batchVars, historyVars>>

-----------------------------------------------------------------------------
(* The model call (run_model, map_model_failure).  The driver races the same *)
(* cancellation and effective deadline as the other ports.                   *)

\* The call fails, or its response is unusable: the usage total overflows
\* (Internal), or it has neither tool calls nor a supported finish reason.
ModelFails ==
  /\ pc = "Model"
  /\ \E o \in run_port_call(options.model) :
       \/ /\ o # "Returned"
          /\ BreakWith(CASE o = "Cancelled" -> "Cancelled"
                         [] o = "Turn"      -> "Deadline"
                         [] OTHER           -> "Model")
       \/ /\ o = "Returned"
          /\ \E p \in {"Model", "InvalidModelResponse", "Internal"} : BreakWith(p)
  /\ UNCHANGED <<controlVars, requestVars, batchVars, historyVars, channelVars>>

\* A response without tool calls ends the loop; only Completed closes accepting.
ModelFinal(p) ==
  /\ pc = "Model"
  /\ "Returned" \in run_port_call(options.model)
  /\ appended' = Append(appended, AssistantItem(requestIndex, 0))
  /\ IF p = "Completed" THEN begin_final ELSE UNCHANGED controlVars
  /\ BreakWith(p)
  /\ UNCHANGED <<requestVars, batchVars, taken, channelVars>>

\* Mutant: the assembler takes any tool name.
ToolCallLists_any == UNION {[1 .. n -> Tools] : n \in 1 .. MaxCalls}

\* What the assembler lets through: calls to tools of the request's frozen set.
ToolCallLists == UNION {[1 .. n -> ToolsOf[snapshot]] : n \in 1 .. MaxCalls}

\* settle_calls: one terminal result for each of the calls first .. last.
SettledCalls(first, last, result) ==
  [i \in 1 .. (last + 1 - first) |-> ResultItem(requestIndex, first + i - 1, result)]

\* Mutant: one round too many.
RoundsLeft_off_by_one == options.maxToolRounds = 0 \/ toolRounds <= options.maxToolRounds

\* max_tool_rounds; 0 is no limit.
RoundsLeft == options.maxToolRounds = 0 \/ toolRounds < options.maxToolRounds

\* The tool round limit is used up: every call is settled as Failed.
ToolRoundLimit(cs) ==
  /\ pc = "Model"
  /\ "Returned" \in run_port_call(options.model)
  /\ ~RoundsLeft
  /\ appended' = Append(appended, AssistantItem(requestIndex, Len(cs)))
                   \o SettledCalls(1, Len(cs), "Failed")
  /\ BreakWith("MaxToolRounds")
  /\ UNCHANGED <<controlVars, requestVars, batchVars, taken, channelVars>>

\* A response with tool calls starts the batch.
BeginBatch(cs) ==
  /\ pc = "Model"
  /\ "Returned" \in run_port_call(options.model)
  /\ RoundsLeft
  /\ requests < MaxRequests
  /\ appended' = Append(appended, AssistantItem(requestIndex, Len(cs)))
  /\ toolRounds' = toolRounds + 1
  /\ calls' = cs
  /\ callIx' = 1
  /\ publish(LoopStateOf("RunningTools", requestIndex, issuedRevision, {snapshot}))
  /\ Goto("Tools")
  /\ UNCHANGED <<controlVars, requestVars, taken>>

-----------------------------------------------------------------------------
(* The tool batch (run_tool_batch, run_tool_call). *)

\* One call got its result; on to the next.
Settle(result) ==
  /\ appended' = Append(appended, ResultItem(requestIndex, callIx, result))
  /\ callIx' = callIx + 1
  /\ Goto("Tools")
  /\ UNCHANGED <<taken, toolRounds, calls>>

\* Mutants: only the calls after the interrupted one are settled; the interrupted
\* exchange is taken out of the history again.
EndBatch_skips_current(p) ==
  /\ appended' = appended \o SettledCalls(callIx + 1, Len(calls), "Cancelled")
  /\ BreakWith(p)
  /\ UNCHANGED <<taken, batchVars>>
\* ToolStep::End: the current call and all later ones are settled as Cancelled.
EndBatch(p) ==
  /\ appended' = appended \o SettledCalls(callIx, Len(calls), "Cancelled")
  /\ BreakWith(p)
  /\ UNCHANGED <<taken, batchVars>>

\* The batch goes on without a result yet.
Proceed(there) == Goto(there) /\ UNCHANGED <<historyVars, batchVars>>

\* All calls have results: the next request.
BatchDone ==
  /\ pc = "Tools"
  /\ callIx > Len(calls)
  /\ requestIndex' = requestIndex + 1
  /\ Goto("Top")
  /\ UNCHANGED <<controlVars, config, candidate, snapshot, prompt, issuedRevision, requests,
                 lastIssued, issued, batchVars, historyVars, channelVars>>

\* The check before each call.
BatchCancelled ==
  /\ pc = "Tools"
  /\ callIx <= Len(calls)
  /\ token
  /\ EndBatch("Cancelled")
  /\ UNCHANGED <<controlVars, requestVars, channelVars>>

\* The call starts; the snapshot's policy, if any, decides first.
StartCall ==
  /\ pc = "Tools"
  /\ callIx <= Len(calls)
  /\ ~token
  /\ Proceed(IF snapshot \in HasPolicy THEN "Policy" ELSE "Port")
  /\ UNCHANGED <<controlVars, requestVars, channelVars>>

\* wait_interaction installs the slot; an answer may arrive from here on.
wait_interaction(kind, there) ==
  IF interaction # {}
    THEN EndBatch("Internal") /\ UNCHANGED controlVars
    ELSE set_interaction(kind) /\ Proceed(there)

\* Its second step shows the interaction to observers.
ShowInteraction ==
  /\ pc \in {"ShowApproval", "ShowInput"}
  /\ publish([loopState EXCEPT !.status = "WaitingForInput", !.pending = {slots}])
  /\ Proceed(IF pc = "ShowApproval" THEN "AwaitApproval" ELSE "AwaitInput")
  /\ UNCHANGED <<controlVars, requestVars>>

\* decide_policy.  A policy that fails, panics or times out denies the call.
PolicyAllows ==
  /\ pc = "Policy"
  /\ "Returned" \in run_port_call(options.policy)
  /\ Proceed("Port")
  /\ UNCHANGED <<controlVars, requestVars, channelVars>>

PolicyDenies ==
  /\ pc = "Policy"
  /\ run_port_call(options.policy) \cap {"Returned", "Panicked", "Port", "InvalidDeadline"} # {}
  /\ Settle("Denied")
  /\ UNCHANGED <<controlVars, requestVars, channelVars>>

PolicyAsks ==
  /\ pc = "Policy"
  /\ "Returned" \in run_port_call(options.policy)
  /\ wait_interaction("Approval", "ShowApproval")
  /\ UNCHANGED <<requestVars, channelVars>>

\* Cancelled, the turn deadline, an invalid decision, or no id for the approval.
PolicyEnds ==
  /\ pc = "Policy"
  /\ \E o \in run_port_call(options.policy) :
       \/ o = "Cancelled" /\ EndBatch("Cancelled")
       \/ o = "Turn" /\ EndBatch("Deadline")
       \/ o = "Returned" /\ \E p \in {"Policy", "Internal"} : EndBatch(p)
  /\ UNCHANGED <<controlVars, requestVars, channelVars>>

\* Mutant: the answered interaction stays in the published state.
Resolved_still_shown(value) ==
  /\ ~token /\ ~late
  /\ \E r \in reply : r.answer = value
  /\ take_interaction
  /\ publish([loopState EXCEPT !.status = "RunningTools"])

\* The tail of wait_interaction once the answer is there.
Resolved(value) ==
  /\ ~token /\ ~late
  /\ \E r \in reply : r.answer = value
  /\ take_interaction
  /\ publish([loopState EXCEPT !.status = "RunningTools", !.pending = {}])

\* The approval is answered; any other kind of answer is an Internal failure.
ApprovalAnswered(value) ==
  /\ pc = "AwaitApproval"
  /\ Resolved(value)
  /\ CASE value = "AllowOnce" -> Proceed("Port")
       [] value = "Deny"      -> Settle("Denied")
       [] OTHER               -> EndBatch("Internal")
  /\ UNCHANGED requestVars

\* The tool's question is answered; an encoding over the output limit fails the call.
InputAnswered(value) ==
  /\ pc = "AwaitInput"
  /\ Resolved(value)
  /\ IF value = "Input" THEN \E result \in {"InputProvided", "Failed"} : Settle(result)
                        ELSE EndBatch("Internal")
  /\ UNCHANGED requestVars

\* Mutants: the wait does not race the token; it does not race the deadline.
WaitPaths_not_on_cancel == IF late THEN {"Deadline"} ELSE {}
WaitPaths_not_on_deadline == IF token THEN {"Cancelled"} ELSE {}

\* How the biased select of wait_interaction ends without an answer: cancelled, the
\* deadline, or the reply sender is gone.
WaitPaths ==
  IF token THEN {"Cancelled"}
  ELSE IF late THEN {"Deadline"}
  ELSE IF interaction = {} /\ reply = {} THEN {"Interaction"}
  ELSE {}

\* Mutant: an early return that leaves the slot behind.
WaitEnds_leaks ==
  /\ pc \in {"AwaitApproval", "AwaitInput"}
  /\ \E p \in WaitPaths : EndBatch(p)
  /\ UNCHANGED <<controlVars, requestVars, channelVars>>

\* The wait ends without an answer, and takes its slot back.
WaitEnds ==
  /\ pc \in {"AwaitApproval", "AwaitInput"}
  /\ \E p \in WaitPaths : EndBatch(p)
  /\ take_interaction
  /\ UNCHANGED <<requestVars, channelVars>>

\* run_tool_port: the tool completes, or fails (oversized output, error, invalid
\* question, its own timeout, a panic); either way the call has its result.
ToolSettles(result) ==
  /\ pc = "Port"
  /\ \E o \in run_port_call(options.tool) :
       o = "Returned" \/ (result = "Failed" /\ o \in {"Port", "Panicked"})
  /\ Settle(result)
  /\ UNCHANGED <<controlVars, requestVars, channelVars>>

ToolAsks ==
  /\ pc = "Port"
  /\ "Returned" \in run_port_call(options.tool)
  /\ wait_interaction("ToolInput", "ShowInput")
  /\ UNCHANGED <<requestVars, channelVars>>

\* Cancelled, the turn deadline, a timeout that overflows, or no id for the question.
ToolEnds ==
  /\ pc = "Port"
  /\ \E o \in run_port_call(options.tool) :
       \/ o = "Cancelled" /\ EndBatch("Cancelled")
       \/ o = "Turn" /\ EndBatch("Deadline")
       \/ o \in {"InvalidDeadline", "Returned"} /\ EndBatch("Internal")
  /\ UNCHANGED <<controlVars, requestVars, channelVars>>

-----------------------------------------------------------------------------
(* Ending (finish_loop, and panic_report for a runner that unwound). *)

\* outcome_for; cancel_reason reads the state word and falls back to User.
outcome_for(p) ==
  CASE p = "Cancelled" -> IF state \in Reasons THEN state ELSE "User"
    [] OTHER           -> p

ChooseOutcome ==
  /\ pc = "Ending"
  /\ outcome' = outcome_for(path)
  /\ pc' = "Sealing"
  /\ UNCHANGED <<controlVars, requestVars, batchVars, historyVars, path, unwound, channelVars>>

\* Mutant: panic_report does not look at AlreadyFinished.
AlreadyFinished_ignored == FALSE

\* FinishSeal::AlreadyFinished.
AlreadyFinished == state = "FINISHED"

\* Mutant: the outcome chosen before the seal is reported whatever the seal says.
SealedOutcome_intended(seal) == outcome

\* A cancellation that got to the state word first decides the outcome.
SealedOutcome(seal) == IF seal \in Reasons THEN seal ELSE outcome

\* The seal.  panic_report reports Internal whatever the seal says.  On
\* AlreadyFinished the published report is returned as it is.
Seal ==
  /\ pc = "Sealing"
  /\ finish_once
  /\ IF AlreadyFinished
       THEN pc' = "Exit" /\ UNCHANGED outcome
       ELSE IF unwound = "No"
         THEN pc' = "Finishing" /\ outcome' = SealedOutcome(verdict')
         ELSE pc' = "Finished" /\ outcome' = "Internal"
  /\ UNCHANGED <<requestVars, batchVars, historyVars, path, unwound, channelVars>>

\* publish_final_states: Finishing, then Finished, for the last issued request.
FinalIndex == IF lastIssued = {} THEN 0 ELSE CHOOSE i \in lastIssued : TRUE

\* Mutant: the report goes out before the Finished state.
PublishFinishing_only ==
  /\ pc = "Finishing"
  /\ publish(LoopStateOf("Finishing", FinalIndex, currentRevision, loopState.model))
  /\ Goto("Deliver")
  /\ UNCHANGED <<controlVars, requestVars, batchVars, historyVars>>

PublishFinishing ==
  /\ pc = "Finishing"
  /\ publish(LoopStateOf("Finishing", FinalIndex, currentRevision, loopState.model))
  /\ Goto("Finished")
  /\ UNCHANGED <<controlVars, requestVars, batchVars, historyVars>>

PublishFinished ==
  /\ pc = "Finished"
  /\ publish(IF unwound = "No" THEN LoopStateOf("Finished", FinalIndex, currentRevision, loopState.model)
             ELSE LoopStateOf("Finished", 0, 0, {}))
  /\ Goto("Deliver")
  /\ UNCHANGED <<controlVars, requestVars, batchVars, historyVars>>

\* The report; the locals of a runner that unwound are gone.
Report ==
  IF unwound = "No"
    THEN [outcome |-> outcome, appended |-> appended, requests |-> requests,
          toolRounds |-> toolRounds, revision |-> currentRevision]
    ELSE [outcome |-> outcome, appended |-> <<>>, requests |-> 0, toolRounds |-> 0,
          revision |-> 0]

\* completion_tx.send_replace.
Deliver ==
  /\ pc = "Deliver"
  /\ completion' = {Report}
  /\ Goto(IF unwound = "No" THEN "Notify" ELSE "Release")
  /\ UNCHANGED <<controlVars, requestVars, batchVars, historyVars, loopState, closed,
                 finishedEvent>>

\* LoopEvent::Finished; panic_report emits none.
Notify ==
  /\ pc = "Notify"
  /\ finishedEvent' = TRUE
  /\ Goto("Release")
  /\ UNCHANGED <<controlVars, requestVars, batchVars, historyVars, loopState, completion,
                 closed>>

Release ==
  /\ pc = "Release"
  /\ release_token
  /\ Goto("Exit")
  /\ UNCHANGED <<requestVars, batchVars, historyVars, channelVars>>

\* The task returns; its completion sender is dropped.
Exit ==
  /\ pc = "Exit"
  /\ closed' = TRUE
  /\ Goto("Done")
  /\ UNCHANGED <<controlVars, requestVars, batchVars, historyVars, loopState, completion,
                 finishedEvent>>

-----------------------------------------------------------------------------
(* What can happen to the runner from outside. *)

\* catch_unwind in run_loop: panic_report comes next.
Unwind(when) == pc' = "Sealing" /\ unwound' = when /\ UNCHANGED <<path, outcome>>

\* LoopInputs::take or the displaced config's destructor panics in take_boundary,
\* after take_config.
BoundaryPanics ==
  /\ HostPanics
  /\ pc = "BoundaryF" \/ (pc = "Top" /\ ~token /\ ~late)
  /\ take_config
  /\ Unwind("Running")
  /\ UNCHANGED <<requestVars, batchVars, historyVars, channelVars>>

\* A port's future or stream panics when it is dropped, outside catch_unwind.
PortPanics ==
  /\ HostPanics
  /\ pc \in {"Prepare", "Model", "Policy", "Port"}
  /\ Unwind("Running")
  /\ UNCHANGED <<controlVars, requestVars, batchVars, historyVars, channelVars>>

\* run_loop_inner has reported; dropping its last configs panics.
TailPanics ==
  /\ HostPanics
  /\ pc = "Exit"
  /\ unwound = "No"
  /\ Unwind("Tail")
  /\ UNCHANGED <<controlVars, requestVars, batchVars, historyVars, channelVars>>

Awaits == {"Spawned", "Prepare", "Model", "Policy", "Port", "AwaitApproval", "AwaitInput"}

\* The runtime drops the task at an await, and the completion sender with it.
TaskAborted ==
  /\ TaskAborts
  /\ pc \in Awaits
  /\ Goto("Aborted")
  /\ closed' = TRUE
  /\ UNCHANGED <<controlVars, requestVars, batchVars, historyVars, loopState, completion,
                 finishedEvent>>

-----------------------------------------------------------------------------
(* The host. *)

\* LoopOptions::deadline passes.
DeadlinePasses ==
  /\ options.deadline
  /\ ~late
  /\ late' = TRUE
  /\ UNCHANGED <<controlVars, runnerVars, options, waiter>>

\* LoopHandle::wait: look at the channel, park until it changes or closes.
WaitCalled(w) ==
  /\ waiter[w] = "Idle"
  /\ waiter' = [waiter EXCEPT ![w] = "Checking"]
  /\ UNCHANGED <<controlVars, runnerVars, options, late>>

WaitChecks(w) ==
  /\ waiter[w] = "Checking"
  /\ waiter' = [waiter EXCEPT ![w] = IF completion # {} THEN "Reported" ELSE "Parked"]
  /\ UNCHANGED <<controlVars, runnerVars, options, late>>

\* changed() looks at the version before the closed flag.
WakesTo == IF completion # {} THEN {"Checking"} ELSE IF closed THEN {"Closed"} ELSE {}

\* Mutant: wait goes back to waiting when the channel is closed.
WaitWakes_not_on_close(w) ==
  /\ waiter[w] = "Parked"
  /\ \E there \in WakesTo \ {"Closed"} : waiter' = [waiter EXCEPT ![w] = there]
  /\ UNCHANGED <<controlVars, runnerVars, options, late>>

WaitWakes(w) ==
  /\ waiter[w] = "Parked"
  /\ \E there \in WakesTo : waiter' = [waiter EXCEPT ![w] = there]
  /\ UNCHANGED <<controlVars, runnerVars, options, late>>

WaiterStep(w) == WaitChecks(w) \/ WaitWakes(w)

\* Cancel, shutdown, owner drop, update and answer, from any thread.
HandleCalls == HandleStep /\ UNCHANGED <<runnerVars, hostVars>>

-----------------------------------------------------------------------------
RequestStep ==
  \/ StartRunner
  \/ StopAtTop
  \/ \E k \in 0 .. MaxInputs : BoundaryA(k) \/ BoundaryF(k)
  \/ PromptReady
  \/ PromptEnds
  \/ BuildFails
  \/ Issue
  \/ ModelFails
  \/ \E p \in {"Completed", "OutputLimit", "Refused", "ContentFiltered"} : ModelFinal(p)
  \/ \E cs \in ToolCallLists : ToolRoundLimit(cs) \/ BeginBatch(cs)

ToolStep ==
  \/ BatchDone
  \/ BatchCancelled
  \/ StartCall
  \/ PolicyAllows
  \/ PolicyDenies
  \/ PolicyAsks
  \/ PolicyEnds
  \/ ShowInteraction
  \/ \E value \in Answers : ApprovalAnswered(value) \/ InputAnswered(value)
  \/ WaitEnds
  \/ \E result \in {"Success", "Failed"} : ToolSettles(result)
  \/ ToolAsks
  \/ ToolEnds

EndStep ==
  \/ ChooseOutcome
  \/ Seal
  \/ PublishFinishing
  \/ PublishFinished
  \/ Deliver
  \/ Notify
  \/ Release
  \/ Exit

RunnerStep == (RequestStep \/ ToolStep \/ EndStep) /\ UNCHANGED hostVars

Faults == (BoundaryPanics \/ PortPanics \/ TailPanics \/ TaskAborted) /\ UNCHANGED hostVars

\* The loop is one-shot: once the task is gone nothing more need happen.
Terminated == pc \in {"Done", "Aborted"} /\ UNCHANGED vars

Next ==
  \/ RunnerStep
  \/ Faults
  \/ HandleCalls
  \/ DeadlinePasses
  \/ \E w \in Waiters : WaitCalled(w) \/ WaiterStep(w)
  \/ Terminated

Spec == Init /\ [][Next]_vars

\* The runtime keeps polling the runner (every port call has a timeout, so each
\* one returns), the thread inside mark_cancel gets to its second step, waiters
\* are woken, and time passes.  Nothing is assumed of the host's other calls.
Fairness ==
  /\ WF_vars(RunnerStep)
  /\ WF_vars(cancel_token /\ UNCHANGED <<runnerVars, hostVars>>)
  /\ WF_vars(DeadlinePasses)
  /\ \A w \in Waiters : WF_vars(WaiterStep(w))

FairSpec == Spec /\ Fairness

-----------------------------------------------------------------------------
(* Properties. *)

\* The runner has published an interaction, or is about to, and waits for its answer.
Asking   == {"ShowApproval", "ShowInput", "AwaitApproval", "AwaitInput"}
InBatch  == {"Tools", "Policy", "Port"} \cup Asking
InEnding == {"Ending", "Sealing", "Finishing", "Finished", "Deliver", "Notify", "Release",
             "Exit", "Done", "Aborted"}
PCs == {"Spawned", "Top", "Prepare", "BoundaryF", "Issue", "Model"} \cup InBatch \cup InEnding

\* Type invariant of the loop.
TypeOK ==
  /\ ControlTypeOK
  /\ options \in Options
  /\ late \in BOOLEAN
  /\ waiter \in [Waiters -> {"Idle", "Checking", "Parked", "Reported", "Closed"}]
  /\ pc \in PCs
  /\ path \in FailPaths
  /\ outcome \in LoopOutcomes
  /\ unwound \in {"No", "Running", "Tail"}
  /\ config \in Configs
  /\ snapshot \in Configs
  /\ candidate \in SUBSET Revisions
  /\ prompt \in [length : Nat, config : Configs]
  /\ issuedRevision \in Revisions
  /\ requestIndex \in Nat
  /\ requests \in Nat
  /\ lastIssued \in SUBSET Nat
  /\ issued \in Seq([index : Nat, revision : Revisions, config : Configs])
  /\ toolRounds \in Nat
  /\ calls \in Seq(Tools)
  /\ callIx \in Nat \ {0}
  /\ appended \in Seq(Items)
  /\ taken \in Nat
  /\ loopState \in LoopStates
  /\ completion \in SUBSET Reports
  /\ closed \in BOOLEAN
  /\ finishedEvent \in BOOLEAN

\* A report says Cancelled(reason) for a cancel, shutdown or owner drop exactly
\* when a call with that reason returned true; in particular a cancel that won
\* while the runner was already computing its ending decides the outcome, and a
\* loop that completed first stays Completed (cancellation.md).
ReportHonoursCancel ==
  \A r \in completion : unwound # "Running" =>
    /\ r.outcome \in Reasons => cancelWinner = {r.outcome}
    /\ cancelWinner # {} => cancelWinner = {r.outcome}

\* Without a loop deadline no report says Cancelled(Deadline), as long as no port
\* timeout reaches the 24 h horizon that stands in for it (LOOP_HORIZON).
DeadlineOutcomeIsConfigured ==
  \A r \in completion :
    r.outcome = "Deadline" =>
      options.deadline \/ "Long" \in {options.prompt, options.policy, options.tool, options.model}

\* A request goes out only with a prompt prepared from exactly the history and
\* the config it is issued with: whatever the boundary before it took, it was
\* prepared again (F-step).
NoStaleRequest ==
  pc = "Issue" =>
    /\ prompt = [length |-> Len(appended), config |-> config]
    /\ snapshot = config

\* The revision bookkeeping of issued requests: indices 0, 1, 2 ... without a gap
\* or a repeat whatever was rebuilt in between, revisions that never go back,
\* and the count, the last index and the applied revision follow them.  The
\* report and the final LoopState name the last request that really went out, not
\* a candidate that was taken and never issued (agent-loop.md).
IssuedRequestsAccounted ==
  LET n == Len(issued) IN
  /\ requests = n
  /\ \A i \in 1 .. n : issued[i].index = i - 1
  /\ \A i \in 1 .. n, j \in 1 .. n : i < j => issued[i].revision <= issued[j].revision
  /\ currentRevision = IF n = 0 THEN 0 ELSE issued[n].revision
  /\ lastIssued = IF n = 0 THEN {} ELSE {n - 1}
  /\ \A r \in completion : unwound # "Running" =>
       /\ r.requests = n
       /\ r.revision = currentRevision
       /\ loopState.revision = currentRevision
       /\ loopState.requestIndex = IF n = 0 THEN 0 ELSE n - 1

\* While a batch runs, it runs under the config of the request that produced it:
\* every call names a tool of that config (the runner's expect holds) and the
\* published state shows that request's revision, whatever update lands meanwhile.
BatchPinnedToRequest ==
  pc \in InBatch =>
    LET last == issued[Len(issued)] IN
    /\ issued # <<>>
    /\ last.index = requestIndex
    /\ last.config = snapshot
    /\ loopState.revision = last.revision
    /\ loopState.model = {last.config}
    /\ \A i \in 1 .. Len(calls) : calls[i] \in ToolsOf[last.config]

\* Tool exchanges in a history: every assistant item is followed at once by one
\* result for each of its calls, in order, and there is no other result.
Balanced(h) ==
  /\ \A i \in DOMAIN h : h[i].kind = "Assistant" =>
       \A k \in 1 .. h[i].ref :
         /\ i + k \in DOMAIN h
         /\ h[i + k].kind = "ToolResult"
         /\ h[i + k].request = h[i].request
         /\ h[i + k].ref = k
  /\ \A j \in DOMAIN h : h[j].kind = "ToolResult" =>
       LET i == j - h[j].ref IN
       /\ h[j].ref > 0
       /\ i \in DOMAIN h
       /\ h[i].kind = "Assistant"
       /\ h[j].ref <= h[i].ref

\* What a prompt provider is shown and what a report hands to the host is
\* balanced on every path: interrupted batches, exhausted rounds, answered and
\* abandoned interactions.  So validate_tool_exchange can accept the next prompt.
HistoryBalanced ==
  /\ pc \in {"Top", "Prepare", "BoundaryF", "Issue", "Model"} => Balanced(appended)
  /\ \A r \in completion : Balanced(r.appended)

SteeringIn(h) == {i \in DOMAIN h : h[i].kind = "Steering"}

\* Every input the host handed over is in the report, once and in order, however
\* the loop ends (agent-loop.md).  InputsSurviveEveryEnding drops the exception
\* for a runner that panicked.
InputsReported ==
  \A r \in completion : unwound # "Running" =>
    /\ {r.appended[i].ref : i \in SteeringIn(r.appended)} = 1 .. taken
    /\ \A i, j \in SteeringIn(r.appended) :
         i < j => r.appended[i].ref < r.appended[j].ref

\* A positive tool round limit bounds the batches entered, and a loop that
\* reports MaxToolRounds used all of them.
ToolRoundsBounded ==
  /\ options.maxToolRounds # 0 => toolRounds <= options.maxToolRounds
  /\ \A r \in completion :
       r.outcome = "MaxToolRounds" => r.toolRounds = options.maxToolRounds

\* A runner that waits for the host has either an open slot or a sent reply, and
\* one that does not wait has no slot: FailPath::Interaction and the Busy error
\* cannot happen, and no slot survives into a report.  (An aborted task leaves
\* its slot behind.)
InteractionNeverLost ==
  /\ pc \in Asking => interaction # {} \/ reply # {}
  /\ pc \notin Asking \cup {"Aborted"} => interaction = {}
  /\ path # "Interaction"

\* While the runner waits on an open slot the published LoopState shows exactly
\* that interaction, and it stops showing it before the call goes on: a host that
\* follows the state never answers an interaction that is over, except in a loop
\* that is ending.
OpenSlotIsShown ==
  /\ \A slot \in interaction :
       pc \in {"AwaitApproval", "AwaitInput"} => loopState.pending = {slot.id}
  /\ \A id \in loopState.pending :
       id = slots /\ pc \in {"AwaitApproval", "AwaitInput"} \cup InEnding

\* What observers can rely on: a report implies the Finished state, which implies
\* the seal; the Finished event comes after the report; a report or an abort is
\* there before the channel closes, and a waiter that saw it closed saw no report.
ObservationOrder ==
  /\ completion # {} => loopState.status = "Finished"
  /\ loopState.status \in {"Finishing", "Finished"} => state = "FINISHED"
  /\ finishedEvent => completion # {}
  /\ closed /\ pc # "Aborted" => completion # {} /\ token
  /\ \A w \in Waiters :
       /\ waiter[w] = "Reported" => completion # {}
       /\ waiter[w] = "Closed" => completion = {} /\ closed

\* Exactly one report: once delivered it is never replaced, so every waiter and
\* the owner's join see the same one.
ReportIsFinal == [][completion # {} => completion' = completion]_vars

\* The history only grows; nothing that was appended is rewritten or removed.
HistoryGrows ==
  [][/\ Len(appended') >= Len(appended)
     /\ \A i \in DOMAIN appended : appended'[i] = appended[i]]_vars

\* What handles and owners may rely on, as an abstract machine of its own.
Contract == INSTANCE LoopContract WITH
  Outcomes <- LoopOutcomes,
  winner   <- cancelWinner,
  sealed   <- IF state = "FINISHED" THEN {outcome} ELSE {},
  report   <- {r.outcome : r \in completion},
  gone     <- closed

\* The loop implements that contract: one winner, one seal that honours it, one
\* report, and no task that leaves a sealed loop without its report.
ImplementsContract == Contract!Spec

\* Every step of the loop is a step of the control plane's specification, so
\* what holds for any client of LoopControl holds in the loop.
ImplementsControl == ControlSpec

Ended == completion # {} \/ closed

\* A cancellation that returned true ends the loop, wherever the runner is: in a
\* port call, or waiting for an answer nobody gives.
CancelEndsLoop == (cancelWinner # {}) ~> Ended

\* A loop deadline bounds the whole loop, an unanswered interaction included.
DeadlineEndsLoop == options.deadline ~> Ended

\* Nobody waits for ever on a loop that ended.
WaitersReturn ==
  \A w \in Waiters :
    (waiter[w] # "Idle" /\ Ended) ~> waiter[w] \in {"Reported", "Closed"}

-----------------------------------------------------------------------------
(* Statements of the documentation that do not hold as written. *)

\* cancellation.md: "Inputs the loop already took from LoopInputs are in the
\* report for every ending, cancellation included".
InputsSurviveEveryEnding ==
  \A r \in completion : {r.appended[i].ref : i \in SteeringIn(r.appended)} = 1 .. taken

\* control.rs on mark_cancel and finish_once: "whichever wins first is the
\* authoritative outcome and every later call is a no-op".
WinningCancelIsReported ==
  \A r \in completion : cancelWinner # {} => cancelWinner = {r.outcome}
=============================================================================
