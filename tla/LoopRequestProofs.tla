--------------------------- MODULE LoopRequestProofs ---------------------------
(***************************************************************************)
(* What a running loop holds and publishes, for every host, every set of   *)
(* configs and tools and every bound: its types, the requests it issued    *)
(* and the batch that runs under one of them, the tool rounds and the      *)
(* deadline it blames, what observers see of it and in which order.        *)
(***************************************************************************)
EXTENDS AgentLoopProofs, SequenceTheorems

-----------------------------------------------------------------------------
(* Steps from outside. *)

\* Steps that are not the runner's.
HostStep ==
  \/ HandleCalls \/ DeadlinePasses \/ Terminated \/ UNCHANGED vars
  \/ \E w \in Waiters : WaitCalled(w) \/ WaiterStep(w)

\* They leave the runner alone; only handle calls touch the control plane.
LEMMA HostLeavesRunner ==
  ASSUME HostStep
  PROVE  /\ UNCHANGED <<pc, config, candidate, snapshot, prompt, issuedRevision, requestIndex,
                        requests, lastIssued, issued>>
         /\ UNCHANGED <<toolRounds, calls, callIx, appended, taken, path, outcome, unwound>>
         /\ UNCHANGED <<loopState, completion, closed, finishedEvent, options>>
         /\ UNCHANGED <<currentRevision, takenRevision, slots>>
  <1>1. UNCHANGED runnerVars /\ UNCHANGED options
    BY DEF HostStep, HandleCalls, DeadlinePasses, WaitCalled, WaiterStep, WaitChecks, WaitWakes,
           Terminated, vars, hostVars
  <1>2. UNCHANGED <<currentRevision, takenRevision, slots>>
    <2>1. CASE HandleCalls
      BY <2>1 DEF HandleCalls, HandleStep, mark_cancel, cancel_token, commit_update, begin_update,
                  answer, configVars, interactionVars
    <2>2. CASE UNCHANGED controlVars
      BY <2>2 DEF controlVars, configVars, interactionVars
    <2> QED BY <2>1, <2>2 DEF HostStep, DeadlinePasses, WaitCalled, WaiterStep, WaitChecks,
                              WaitWakes, Terminated, vars
  <1> QED BY <1>1, <1>2 DEF runnerVars, requestVars, batchVars, historyVars, endVars, channelVars

\* Every step is the runner's, a fault or from outside.
LEMMA StepKinds ==
  ASSUME [Next]_vars
  PROVE  \/ RequestStep /\ UNCHANGED hostVars
         \/ ToolStep /\ UNCHANGED hostVars
         \/ EndStep /\ UNCHANGED hostVars
         \/ Faults
         \/ HostStep
  BY DEF Next, RunnerStep, HostStep

-----------------------------------------------------------------------------
(* Types. *)

RequestTypes ==
  /\ config \in Configs /\ snapshot \in Configs
  /\ candidate \in SUBSET Revisions /\ issuedRevision \in Revisions
  /\ prompt \in [length : Nat, config : Configs]
  /\ requests \in Nat
  /\ lastIssued \in SUBSET Nat
  /\ issued \in Seq([index : Nat, revision : Revisions, config : Configs])

BatchTypes == pc \in PCs /\ toolRounds \in Nat /\ calls \in Seq(Tools)

ChannelTypes ==
  /\ loopState \in LoopStates
  /\ completion \in SUBSET Reports
  /\ closed \in BOOLEAN
  /\ finishedEvent \in BOOLEAN

HostTypes ==
  /\ options \in Options
  /\ late \in BOOLEAN
  /\ waiter \in [Waiters -> {"Idle", "Checking", "Parked", "Reported", "Closed"}]

\* The control plane's types, the ending's and the history's come from ControlInv, EndInv
\* and HistoryInv.
LoopTypes == RequestTypes /\ BatchTypes /\ ChannelTypes /\ HostTypes

\* AgentLoop::start leaves every variable within its type.
LEMMA TypesInit == Init => LoopTypes
  <1> SUFFICES ASSUME Init PROVE LoopTypes
    OBVIOUS
  <1>1. 0 \in Revisions
    BY ControlAssumption DEF Revisions
  <1>2. RequestTypes
    BY <1>1, LoopAssumption DEF Init, RequestTypes
  <1>3. BatchTypes
    BY DEF Init, BatchTypes, PCs
  <1>4. ChannelTypes
    BY <1>1 DEF Init, ChannelTypes, LoopStateOf, LoopStates, Statuses
  <1>5. HostTypes
    BY DEF Init, HostTypes
  <1> QED BY <1>2, <1>3, <1>4, <1>5 DEF LoopTypes

\* Where the runner goes.
LEMMA PlacesStep == ASSUME BatchTypes, [Next]_vars PROVE pc' \in PCs
  <1> USE DEF BatchTypes, PCs, InBatch, Asking, InEnding, Goto, BreakWith
  <1>1. CASE RequestStep
    BY <1>1 DEF RequestStep, StartRunner, StopAtTop, BoundaryA, BoundaryF, PromptReady, PromptEnds,
                BuildFails, Issue, ModelFails, ModelFinal, ToolRoundLimit, BeginBatch
  <1>2. CASE ToolStep
    BY <1>2
    DEF ToolStep, BatchDone, BatchCancelled, StartCall, PolicyAllows, PolicyDenies, PolicyAsks,
        PolicyEnds, ShowInteraction, ApprovalAnswered, InputAnswered, WaitEnds, ToolSettles,
        ToolAsks, ToolEnds, Proceed, Settle, EndBatch, wait_interaction
  <1>3. CASE EndStep \/ Faults
    BY <1>3
    DEF EndStep, ChooseOutcome, Seal, PublishFinishing, PublishFinished, Deliver, Notify, Release,
        Exit, Faults, BoundaryPanics, PortPanics, TailPanics, TaskAborted, Unwind
  <1>4. CASE HostStep
    BY <1>4, HostLeavesRunner
  <1> QED BY <1>1, <1>2, <1>3, <1>4, StepKinds

\* Which steps change what the next request is made of.
LEMMA RequestEffects ==
  ASSUME [Next]_vars
  PROVE  \/ \E k \in 0 .. MaxInputs : BoundaryA(k) \/ BoundaryF(k)
         \/ PromptReady \/ Issue \/ BatchDone
         \/ UNCHANGED requestVars
  <1>1. CASE RequestStep
    BY <1>1 DEF RequestStep, StartRunner, StopAtTop, PromptEnds, BuildFails, ModelFails, ModelFinal,
                ToolRoundLimit, BeginBatch
  <1>2. CASE ToolStep
    BY <1>2
    DEF ToolStep, BatchCancelled, StartCall, PolicyAllows, PolicyDenies, PolicyAsks, PolicyEnds,
        ShowInteraction, ApprovalAnswered, InputAnswered, WaitEnds, ToolSettles, ToolAsks, ToolEnds
  <1>3. CASE EndStep \/ Faults
    BY <1>3
    DEF EndStep, ChooseOutcome, Seal, PublishFinishing, PublishFinished, Deliver, Notify, Release,
        Exit, Faults, BoundaryPanics, PortPanics, TailPanics, TaskAborted
  <1>4. CASE HostStep
    BY <1>4, HostLeavesRunner DEF requestVars
  <1> QED BY <1>1, <1>2, <1>3, <1>4, StepKinds

\* Which steps change the batch: it begins, or one of its calls gets a result.
LEMMA BatchEffects ==
  ASSUME [Next]_vars
  PROVE  \/ \E cs \in ToolCallLists : BeginBatch(cs)
         \/ \E result \in ResultOutcomes : Settle(result)
         \/ UNCHANGED batchVars
  <1>1. CASE RequestStep
    BY <1>1 DEF RequestStep, StartRunner, StopAtTop, BoundaryA, BoundaryF, PromptReady, PromptEnds,
                BuildFails, Issue, ModelFails, ModelFinal, ToolRoundLimit
  <1>2. CASE ToolStep
    <2>1. CASE PolicyDenies \/ \E result \in {"Success", "Failed"} : ToolSettles(result)
      BY <2>1 DEF PolicyDenies, ToolSettles, ResultOutcomes
    <2>2. CASE \E value \in Answers : ApprovalAnswered(value) \/ InputAnswered(value)
      BY <2>2 DEF ApprovalAnswered, InputAnswered, ResultOutcomes, Proceed, EndBatch
    <2>3. CASE PolicyEnds \/ ToolEnds \/ WaitEnds \/ PolicyAsks \/ ToolAsks
      BY <2>3 DEF PolicyEnds, ToolEnds, WaitEnds, PolicyAsks, ToolAsks, wait_interaction, Proceed,
                  EndBatch
    <2> QED BY <1>2, <2>1, <2>2, <2>3 DEF ToolStep, BatchDone, BatchCancelled, StartCall,
               PolicyAllows, ShowInteraction, Proceed, EndBatch
  <1>3. CASE EndStep \/ Faults
    BY <1>3
    DEF EndStep, ChooseOutcome, Seal, PublishFinishing, PublishFinished, Deliver, Notify, Release,
        Exit, Faults, BoundaryPanics, PortPanics, TailPanics, TaskAborted
  <1>4. CASE HostStep
    BY <1>4, HostLeavesRunner DEF batchVars
  <1> QED BY <1>1, <1>2, <1>3, <1>4, StepKinds

\* A response's calls are calls to tools of the request's config.
LEMMA CallsOfConfig ==
  ASSUME NEW cs \in ToolCallLists
  PROVE  cs \in Seq(ToolsOf[snapshot]) /\ Len(cs) \in Nat \ {0}
  <1> PICK n \in 1 .. MaxCalls : cs \in [1 .. n -> ToolsOf[snapshot]]
    BY DEF ToolCallLists
  <1>1. n \in Nat \ {0}
    BY LoopAssumption
  <1>2. cs \in Seq(ToolsOf[snapshot])
    BY <1>1
  <1>3. Len(cs) = n
    BY <1>1, <1>2
  <1> QED BY <1>1, <1>2, <1>3

\* A boundary that takes a config takes one that an update brought.
LEMMA TakenConfig ==
  ASSUME ControlTypeOK, NEW k, take_boundary(k)
  PROVE  \/ UNCHANGED <<config, candidate>>
         \/ config' \in Configs /\ candidate' \in SUBSET Revisions
  BY DEF take_boundary, ControlTypeOK, Pending

\* The revision that goes out.
LEMMA RevisionIssued == ASSUME RequestTypes PROVE RevisionToIssue \in Revisions
  <1>1. CASE candidate = {}
    BY <1>1 DEF RevisionToIssue, RequestTypes
  <1>2. CASE candidate # {}
    <2>1. \E r \in candidate : TRUE
      BY <1>2
    <2>2. RevisionToIssue \in candidate
      BY <1>2, <2>1 DEF RevisionToIssue
    <2> QED BY <2>2 DEF RequestTypes
  <1> QED BY <1>1, <1>2

\* The types of the request variables are kept.
LEMMA RequestTypesStep ==
  ASSUME RequestTypes, ControlTypeOK, HistoryInv, [Next]_vars PROVE RequestTypes'
  <1>1. ASSUME NEW k \in 0 .. MaxInputs, BoundaryA(k) \/ BoundaryF(k) PROVE RequestTypes'
    <2>1. /\ take_boundary(k) /\ snapshot' \in {snapshot, config'}
          /\ UNCHANGED <<prompt, issuedRevision, requests, lastIssued, issued>>
      BY <1>1 DEF BoundaryA, BoundaryF
    <2>2. config' \in Configs /\ candidate' \in SUBSET Revisions
      BY <2>1, TakenConfig DEF RequestTypes
    <2> QED BY <2>1, <2>2 DEF RequestTypes
  <1>2. CASE PromptReady
    <2>1. Len(appended) \in Nat
      BY DEF HistoryInv
    <2> QED BY <1>2, <2>1 DEF PromptReady, RequestTypes
  <1>3. CASE Issue
    <2> DEFINE request == [index |-> requestIndex, revision |-> RevisionToIssue, config |-> snapshot]
    <2>1. RevisionToIssue \in Revisions
      BY RevisionIssued
    <2>2. request \in [index : Nat, revision : Revisions, config : Configs]
      BY <2>1 DEF RequestTypes, HistoryInv
    <2>3. issued' = Append(issued, request)
      BY <1>3 DEF Issue
    <2>4. issued' \in Seq([index : Nat, revision : Revisions, config : Configs])
      BY <2>2, <2>3 DEF RequestTypes
    <2>5. /\ issuedRevision' = RevisionToIssue /\ candidate' = {} /\ requests' = requests + 1
          /\ lastIssued' = {requestIndex} /\ UNCHANGED <<config, snapshot, prompt>>
      BY <1>3 DEF Issue
    <2> QED BY <2>1, <2>4, <2>5 DEF RequestTypes, HistoryInv
  <1>4. CASE BatchDone
    BY <1>4 DEF BatchDone, RequestTypes
  <1>5. CASE UNCHANGED requestVars
    BY <1>5 DEF requestVars, RequestTypes
  <1> QED BY <1>1, <1>2, <1>3, <1>4, <1>5, RequestEffects

\* The types of the batch are kept.
LEMMA BatchTypesStep ==
  ASSUME BatchTypes, RequestTypes, [Next]_vars PROVE BatchTypes'
  <1>1. ASSUME NEW cs \in ToolCallLists, BeginBatch(cs)
        PROVE  toolRounds' \in Nat /\ calls' \in Seq(Tools)
    <2>1. cs \in Seq(ToolsOf[snapshot]) /\ ToolsOf[snapshot] \subseteq Tools
      BY CallsOfConfig, LoopAssumption DEF RequestTypes
    <2>2. cs \in Seq(Tools)
      BY <2>1, SeqMonotonic
    <2> QED BY <1>1, <2>2 DEF BeginBatch, BatchTypes
  <1>2. CASE \E result \in ResultOutcomes : Settle(result)
    BY <1>2, PlacesStep DEF Settle, BatchTypes
  <1>3. CASE UNCHANGED batchVars
    BY <1>3, PlacesStep DEF batchVars, BatchTypes
  <1> QED BY <1>1, <1>2, <1>3, BatchEffects, PlacesStep DEF BatchTypes

\* Which steps touch the channels.
LEMMA ChannelEffects ==
  ASSUME [Next]_vars
  PROVE  \/ \E k \in 0 .. MaxInputs : BoundaryA(k)
         \/ Issue
         \/ \E cs \in ToolCallLists : BeginBatch(cs)
         \/ ShowInteraction
         \/ \E value \in Answers : ApprovalAnswered(value) \/ InputAnswered(value)
         \/ PublishFinishing \/ PublishFinished \/ Deliver \/ Notify \/ Exit
         \/ TaskAborted
         \/ UNCHANGED channelVars
  <1>1. CASE RequestStep
    BY <1>1 DEF RequestStep, StartRunner, StopAtTop, BoundaryF, PromptReady, PromptEnds, BuildFails,
                ModelFails, ModelFinal, ToolRoundLimit
  <1>2. CASE ToolStep
    BY <1>2
    DEF ToolStep, BatchDone, BatchCancelled, StartCall, PolicyAllows, PolicyDenies, PolicyAsks,
        PolicyEnds, WaitEnds, ToolSettles, ToolAsks, ToolEnds
  <1>3. CASE EndStep \/ Faults
    BY <1>3
    DEF EndStep, ChooseOutcome, Seal, Release, Faults, BoundaryPanics, PortPanics, TailPanics
  <1>4. CASE HostStep
    BY <1>4, HostLeavesRunner DEF channelVars
  <1> QED BY <1>1, <1>2, <1>3, <1>4, StepKinds

\* What the runner publishes is a LoopState.
LEMMA StatesPublished ==
  ASSUME NEW status \in Statuses, NEW index \in Nat, NEW revision \in Revisions,
         NEW model \in SUBSET Configs
  PROVE  LoopStateOf(status, index, revision, model) \in LoopStates
  BY DEF LoopStateOf, LoopStates

\* The index of the final states.
LEMMA FinalIndexIsNat == ASSUME RequestTypes PROVE FinalIndex \in Nat
  <1>1. CASE lastIssued = {}
    BY <1>1 DEF FinalIndex
  <1>2. CASE lastIssued # {}
    <2>1. \E i \in lastIssued : TRUE
      BY <1>2
    <2>2. FinalIndex \in lastIssued
      BY <1>2, <2>1 DEF FinalIndex
    <2> QED BY <2>2 DEF RequestTypes
  <1> QED BY <1>1, <1>2

\* The types of the channels are kept.
LEMMA ChannelTypesStep ==
  ASSUME ChannelTypes, RequestTypes, BatchTypes, ControlTypeOK, HistoryInv, EndInv, [Next]_vars
  PROVE  ChannelTypes'
  <1>0. 0 \in Revisions
    BY ControlAssumption DEF Revisions
  <1>a. ASSUME NEW s \in LoopStates, publish(s) PROVE ChannelTypes'
    BY <1>a DEF publish, ChannelTypes
  <1>1. ASSUME NEW k \in 0 .. MaxInputs, BoundaryA(k) PROVE ChannelTypes'
    <2>1. LoopStateOf("Starting", requestIndex, issuedRevision, {}) \in LoopStates
      BY StatesPublished DEF Statuses, RequestTypes, HistoryInv
    <2> QED BY <1>1, <1>a, <2>1 DEF BoundaryA
  <1>2. CASE Issue
    <2>1. LoopStateOf("RunningModel", requestIndex, RevisionToIssue, {snapshot}) \in LoopStates
      BY StatesPublished, RevisionIssued DEF Statuses, RequestTypes, HistoryInv
    <2> QED BY <1>2, <1>a, <2>1 DEF Issue
  <1>3. ASSUME NEW cs \in ToolCallLists, BeginBatch(cs) PROVE ChannelTypes'
    <2>1. LoopStateOf("RunningTools", requestIndex, issuedRevision, {snapshot}) \in LoopStates
      BY StatesPublished DEF Statuses, RequestTypes, HistoryInv
    <2> QED BY <1>3, <1>a, <2>1 DEF BeginBatch
  <1>4. CASE ShowInteraction
    <2>1. [loopState EXCEPT !.status = "WaitingForInput", !.pending = {slots}] \in LoopStates
      BY DEF ChannelTypes, LoopStates, Statuses, ControlTypeOK
    <2> QED BY <1>4, <1>a, <2>1 DEF ShowInteraction
  <1>5. ASSUME NEW value \in Answers, ApprovalAnswered(value) \/ InputAnswered(value)
        PROVE  ChannelTypes'
    <2>1. [loopState EXCEPT !.status = "RunningTools", !.pending = {}] \in LoopStates
      BY DEF ChannelTypes, LoopStates, Statuses
    <2> QED BY <1>5, <1>a, <2>1 DEF ApprovalAnswered, InputAnswered, Resolved
  <1>6. CASE PublishFinishing \/ PublishFinished
    <2>1. FinalIndex \in Nat /\ loopState.model \in SUBSET Configs
      BY FinalIndexIsNat DEF ChannelTypes, LoopStates
    <2>2. \A status \in Statuses :
            LoopStateOf(status, FinalIndex, currentRevision, loopState.model) \in LoopStates
      BY <2>1, StatesPublished DEF ControlTypeOK
    <2>3. LoopStateOf("Finished", 0, 0, {}) \in LoopStates
      BY <1>0, StatesPublished DEF Statuses
    <2>4. \E s \in LoopStates : publish(s)
      BY <1>6, <2>2, <2>3 DEF PublishFinishing, PublishFinished, Statuses
    <2> QED BY <1>a, <2>4
  <1>7. CASE Deliver
    <2>1. Report \in Reports
      <3>1. CASE unwound = "No"
        BY <3>1 DEF Report, Reports, EndInv, HistoryInv, RequestTypes, BatchTypes, ControlTypeOK
      <3>2. CASE unwound # "No"
        BY <1>0, <3>2 DEF Report, Reports, EndInv
      <3> QED BY <3>1, <3>2
    <2> HIDE DEF Report
    <2> QED BY <1>7, <2>1 DEF Deliver, ChannelTypes
  <1>8. CASE Notify \/ Exit \/ TaskAborted
    BY <1>8 DEF Notify, Exit, TaskAborted, ChannelTypes
  <1>9. CASE UNCHANGED channelVars
    BY <1>9 DEF channelVars, ChannelTypes
  <1> QED BY <1>1, <1>2, <1>3, <1>4, <1>5, <1>6, <1>7, <1>8, <1>9, ChannelEffects

\* The types of the host's side are kept.
LEMMA HostTypesStep == ASSUME HostTypes, [Next]_vars PROVE HostTypes'
  <1>1. CASE UNCHANGED hostVars
    BY <1>1 DEF hostVars, HostTypes
  <1>2. CASE DeadlinePasses
    BY <1>2 DEF DeadlinePasses, HostTypes
  <1>3. ASSUME NEW w \in Waiters, WaitCalled(w) \/ WaiterStep(w) PROVE HostTypes'
    <2>1. \E there \in {"Idle", "Checking", "Parked", "Reported", "Closed"} :
            waiter' = [waiter EXCEPT ![w] = there]
      BY <1>3 DEF WaitCalled, WaiterStep, WaitChecks, WaitWakes, WakesTo
    <2>2. UNCHANGED <<options, late>>
      BY <1>3 DEF WaitCalled, WaiterStep, WaitChecks, WaitWakes
    <2> QED BY <2>1, <2>2 DEF HostTypes
  <1> QED BY <1>1, <1>2, <1>3 DEF Next, RunnerStep, Faults, HandleCalls, Terminated, vars

\* The loop's variables keep their types.
LEMMA TypesStep ==
  ASSUME LoopTypes, ControlInv, EndInv, HistoryInv, [Next]_vars PROVE LoopTypes'
  <1>1. ControlTypeOK
    BY DEF ControlInv
  <1> QED BY <1>1, RequestTypesStep, BatchTypesStep, ChannelTypesStep, HostTypesStep DEF LoopTypes

\* The history's types hold in every behaviour.
LEMMA HistoryTypes == Spec => []HistoryInv
  <1>1. HistoryInv /\ [Next]_vars => HistoryInv'
    BY HistoryStep
  <1> QED BY HistoryInit, <1>1, PTL DEF Spec

\* The types of the loop hold in every behaviour.
LEMMA LoopTypesHold == Spec => []LoopTypes
  <1>1. LoopTypes /\ ControlInv /\ EndInv /\ HistoryInv /\ [Next]_vars => LoopTypes'
    BY TypesStep
  <1> QED BY TypesInit, <1>1, LoopControlSafety, EndingSafety, HistoryTypes, PTL DEF Spec

\* Every variable of the loop has its type, whatever host, handles and faults do.
THEOREM LoopIsTyped == Spec => []TypeOK
  <1>1. LoopTypes /\ ControlInv /\ EndInv /\ HistoryInv => TypeOK
    BY DEF LoopTypes, RequestTypes, BatchTypes, ChannelTypes, HostTypes, ControlInv, EndInv,
           UnwoundInv, HistoryInv, TypeOK
  <1> QED BY <1>1, LoopTypesHold, LoopControlSafety, EndingSafety, HistoryTypes, PTL

-----------------------------------------------------------------------------
(* The requests that went out, and the batch that runs under the last one. *)

BeforeModel == {"Spawned", "Top", "Prepare", "BoundaryF", "Issue"}
UnderRequest == {"Model"} \cup InBatch

\* How the runner gets from preparing a request to its model call, to its batch, and back.
LEMMA PlaceEffects ==
  ASSUME [Next]_vars
  PROVE  /\ pc' \in BeforeModel => pc \in BeforeModel \/ BatchDone
         /\ pc' = "Model" => pc = "Model" \/ Issue
         /\ pc' \in InBatch => pc \in InBatch \/ \E cs \in ToolCallLists : BeginBatch(cs)
         /\ pc \in InEnding => pc' \in InEnding
  <1> USE DEF BeforeModel, InBatch, Asking, InEnding, Goto, BreakWith
  <1>1. CASE RequestStep
    <2>1. CASE \E cs \in ToolCallLists : BeginBatch(cs)
      BY <2>1 DEF BeginBatch
    <2>2. CASE Issue
      BY <2>2 DEF Issue
    <2> QED BY <1>1, <2>1, <2>2
        DEF RequestStep, StartRunner, StopAtTop, BoundaryA, BoundaryF, PromptReady, PromptEnds,
            BuildFails, ModelFails, ModelFinal, ToolRoundLimit
  <1>2. CASE ToolStep
    <2>1. CASE BatchDone
      BY <2>1 DEF BatchDone
    <2> QED BY <1>2, <2>1
        DEF ToolStep, BatchCancelled, StartCall, PolicyAllows, PolicyDenies, PolicyAsks,
            PolicyEnds, ShowInteraction, ApprovalAnswered, InputAnswered, WaitEnds, ToolSettles,
            ToolAsks, ToolEnds, Proceed, Settle, EndBatch, wait_interaction
  <1>3. CASE EndStep \/ Faults
    BY <1>3
    DEF EndStep, ChooseOutcome, Seal, PublishFinishing, PublishFinished, Deliver, Notify, Release,
        Exit, Faults, BoundaryPanics, PortPanics, TailPanics, TaskAborted, Unwind
  <1>4. CASE HostStep
    BY <1>4, HostLeavesRunner
  <1> QED BY <1>1, <1>2, <1>3, <1>4, StepKinds

\* The applied revision changes at the issue boundary only.
LEMMA RevisionEffects == ASSUME [Next]_vars PROVE Issue \/ UNCHANGED currentRevision
  <1> USE DEF controlVars, configVars
  <1>1. CASE RequestStep
    BY <1>1 DEF RequestStep, StartRunner, StopAtTop, BoundaryA, BoundaryF, take_boundary,
                take_config, PromptReady, PromptEnds, BuildFails, ModelFails, ModelFinal,
                begin_final, ToolRoundLimit, BeginBatch
  <1>2. CASE ToolStep
    BY <1>2
    DEF ToolStep, BatchDone, BatchCancelled, StartCall, PolicyAllows, PolicyDenies, PolicyAsks,
        PolicyEnds, ShowInteraction, ApprovalAnswered, InputAnswered, Resolved, WaitEnds,
        take_interaction, ToolSettles, ToolAsks, ToolEnds, wait_interaction, set_interaction
  <1>3. CASE EndStep \/ Faults
    BY <1>3
    DEF EndStep, ChooseOutcome, Seal, finish_once, PublishFinishing, PublishFinished, Deliver,
        Notify, Release, release_token, Exit, Faults, BoundaryPanics, take_config, PortPanics,
        TailPanics, TaskAborted
  <1>4. CASE HostStep
    BY <1>4, HostLeavesRunner
  <1> QED BY <1>1, <1>2, <1>3, <1>4, StepKinds

\* The requests are numbered without a gap, and their revisions never go back.
IssuedInOrder ==
  /\ requests = Len(issued)
  /\ \A i \in 1 .. Len(issued) : issued[i].index = i - 1 /\ issued[i].revision <= currentRevision
  /\ \A i \in 1 .. Len(issued), j \in 1 .. Len(issued) :
       i < j => issued[i].revision <= issued[j].revision
  /\ currentRevision = IF Len(issued) = 0 THEN 0 ELSE issued[Len(issued)].revision
  /\ lastIssued = IF Len(issued) = 0 THEN {} ELSE {Len(issued) - 1}

\* The request being prepared is the next one; from its issue to the end of its batch the
\* runner and the published state keep to the last one.
RequestPinned ==
  /\ pc \in BeforeModel => requestIndex = Len(issued)
  /\ pc \in UnderRequest =>
       /\ Len(issued) > 0
       /\ requestIndex = Len(issued) - 1
       /\ issued[Len(issued)].config = snapshot
       /\ loopState.revision = currentRevision
       /\ loopState.model = {snapshot}
  /\ pc \in InBatch => \A i \in 1 .. Len(calls) : calls[i] \in ToolsOf[snapshot]

IssueInv == IssuedInOrder /\ RequestPinned

\* Nothing is issued at the start.
LEMMA IssueInit == Init => IssueInv
  BY DEF Init, ControlInit, IssueInv, IssuedInOrder, RequestPinned, BeforeModel, UnderRequest, InBatch,
         Asking

\* The revision that goes out is not below the applied one: it was taken from the slot
\* after it, or it is the applied one again.
LEMMA RevisionForward ==
  ASSUME RefineInv, ControlInv, Issue
  PROVE  /\ RevisionToIssue \in Revisions
         /\ currentRevision <= RevisionToIssue
         /\ currentRevision' = RevisionToIssue
  <1>1. PICK revision \in {currentRevision, takenRevision} : commit_revision(revision)
    BY IssueRefines
  <1>2. currentRevision' = RevisionToIssue /\ revision = RevisionToIssue
    BY <1>1 DEF Issue, commit_revision
  <1>3. /\ currentRevision \in Nat /\ takenRevision \in Nat
        /\ currentRevision \in Revisions /\ takenRevision \in Revisions
        /\ currentRevision <= takenRevision
    BY DEF ControlInv, ControlTypeOK, RevisionsOrdered, Revisions
  <1> QED BY <1>1, <1>2, <1>3

\* Issuing a request.
LEMMA IssueKeeps ==
  ASSUME IssueInv, LoopTypes, RefineInv, ControlInv, HistoryInv, Issue PROVE IssueInv'
  <1> DEFINE request == [index |-> requestIndex, revision |-> RevisionToIssue, config |-> snapshot]
             n == Len(issued)
  <1>1. /\ issued \in Seq([index : Nat, revision : Revisions, config : Configs])
        /\ n \in Nat /\ requestIndex = n
    BY DEF LoopTypes, RequestTypes, IssueInv, RequestPinned, BeforeModel, Issue
  <1>2. /\ RevisionToIssue \in Revisions
        /\ currentRevision <= RevisionToIssue
        /\ currentRevision' = RevisionToIssue
        /\ RevisionToIssue \in Nat /\ currentRevision \in Nat
    BY RevisionForward DEF Revisions, ControlInv, ControlTypeOK
  <1>3. request \in [index : Nat, revision : Revisions, config : Configs]
    BY <1>1, <1>2 DEF LoopTypes, RequestTypes
  <1>4. issued' = Append(issued, request) /\ lastIssued' = {requestIndex} /\ requests' = requests + 1
        /\ UNCHANGED <<snapshot, requestIndex>> /\ pc' = "Model"
        /\ loopState' = LoopStateOf("RunningModel", requestIndex, RevisionToIssue, {snapshot})
    BY DEF Issue, Goto, publish
  <1>5. request.index = n /\ request.revision = RevisionToIssue /\ request.config = snapshot
    BY <1>1
  <1> HIDE DEF request
  <1>6. /\ Len(issued') = n + 1
        /\ \A i \in 1 .. n : issued'[i] = issued[i]
        /\ issued'[n + 1] = request
    BY <1>1, <1>3, <1>4
  <1> HIDE DEF n
  <1>7. \A i \in 1 .. n : issued[i].revision \in Nat /\ issued[i].revision <= currentRevision
                          /\ issued[i].index = i - 1
    <2>1. \A i \in 1 .. n : issued[i] \in [index : Nat, revision : Revisions, config : Configs]
      BY <1>1, ElementOfSeq DEF n
    <2>2. \A r \in Revisions : r \in Nat
      BY DEF Revisions
    <2> QED BY <2>1, <2>2 DEF IssueInv, IssuedInOrder, n
  <1>8. \A i \in 1 .. n, j \in 1 .. n : i < j => issued[i].revision <= issued[j].revision
    BY DEF IssueInv, IssuedInOrder, n
  <1>9. requests = n
    BY DEF IssueInv, IssuedInOrder, n
  <1>10. \A i \in 1 .. n + 1 : issued'[i].index = i - 1 /\ issued'[i].revision <= RevisionToIssue
    <2> SUFFICES ASSUME NEW i \in 1 .. n + 1
                 PROVE  issued'[i].index = i - 1 /\ issued'[i].revision <= RevisionToIssue
      OBVIOUS
    <2>1. CASE i \in 1 .. n
      BY <1>2, <1>6, <1>7, <2>1
    <2>2. CASE i = n + 1
      BY <1>1, <1>2, <1>5, <1>6, <2>2
    <2> QED BY <1>1, <2>1, <2>2
  <1>11. \A i \in 1 .. n + 1, j \in 1 .. n + 1 :
           i < j => issued'[i].revision <= issued'[j].revision
    <2> SUFFICES ASSUME NEW i \in 1 .. n + 1, NEW j \in 1 .. n + 1, i < j
                 PROVE  issued'[i].revision <= issued'[j].revision
      OBVIOUS
    <2>1. CASE j \in 1 .. n
      BY <1>1, <1>6, <1>8, <2>1
    <2>2. CASE j = n + 1
      BY <1>1, <1>5, <1>6, <1>10, <2>2
    <2> QED BY <1>1, <2>1, <2>2
  <1>12. IssuedInOrder'
    BY <1>1, <1>2, <1>4, <1>5, <1>6, <1>9, <1>10, <1>11 DEF IssuedInOrder
  <1>13. RequestPinned'
    BY <1>1, <1>2, <1>4, <1>5, <1>6 DEF RequestPinned, BeforeModel, UnderRequest, InBatch, Asking,
                                        LoopStateOf
  <1> QED BY <1>12, <1>13 DEF IssueInv

\* Every other step keeps the issued requests; where the runner may be next to them is
\* PlaceEffects.
LEMMA IssueInvStep ==
  ASSUME IssueInv, LoopTypes, RefineInv, ControlInv, HistoryInv, [Next]_vars PROVE IssueInv'
  <1>1. CASE Issue
    BY <1>1, IssueKeeps
  <1>2. CASE ~Issue
    <2>1. UNCHANGED <<issued, requests, lastIssued, currentRevision>>
      BY <1>2, RequestEffects, RevisionEffects
      DEF BoundaryA, BoundaryF, PromptReady, BatchDone, requestVars
    <2>2. IssuedInOrder'
      BY <2>1 DEF IssueInv, IssuedInOrder
    <2>3. pc' \in BeforeModel => requestIndex' = Len(issued)
      <3>1. CASE BatchDone
        <4>1. Len(issued) \in Nat
          BY DEF LoopTypes, RequestTypes
        <4>2. requestIndex = Len(issued) - 1 /\ requestIndex' = requestIndex + 1
          BY <3>1 DEF BatchDone, IssueInv, RequestPinned, UnderRequest, InBatch
        <4> QED BY <4>1, <4>2
      <3>2. CASE ~BatchDone
        <4>1. UNCHANGED requestIndex
          BY <1>2, <3>2, RequestEffects DEF BoundaryA, BoundaryF, PromptReady, requestVars
        <4> QED BY <3>2, <4>1, PlaceEffects DEF IssueInv, RequestPinned
      <3> QED BY <3>1, <3>2
    <2>4. ASSUME pc' \in UnderRequest
          PROVE  /\ pc \in UnderRequest
                 /\ UNCHANGED <<snapshot, requestIndex>>
                 /\ loopState'.revision = currentRevision /\ loopState'.model = {snapshot}
      <3>1. pc \in UnderRequest
        BY <1>2, <2>4, PlaceEffects DEF UnderRequest, BeginBatch
      <3>2. UNCHANGED requestVars
        BY <1>2, <2>4, <3>1, RequestEffects
        DEF BoundaryA, BoundaryF, PromptReady, BatchDone, Goto, UnderRequest, InBatch, Asking
      <3>3. /\ loopState.revision = currentRevision /\ loopState.model = {snapshot}
            /\ loopState \in LoopStates /\ issuedRevision = currentRevision
        BY <3>1 DEF IssueInv, RequestPinned, LoopTypes, ChannelTypes, RefineInv
      <3>0. UNCHANGED <<snapshot, requestIndex>>
        BY <3>2 DEF requestVars
      <3>4. CASE \E cs \in ToolCallLists : BeginBatch(cs)
        BY <3>0, <3>1, <3>3, <3>4 DEF BeginBatch, publish, LoopStateOf
      <3>5. CASE ShowInteraction
        BY <3>0, <3>1, <3>3, <3>5 DEF ShowInteraction, publish, LoopStates
      <3>6. CASE \E value \in Answers : ApprovalAnswered(value) \/ InputAnswered(value)
        BY <3>0, <3>1, <3>3, <3>6 DEF ApprovalAnswered, InputAnswered, Resolved, publish, LoopStates
      <3>7. CASE UNCHANGED loopState
        BY <3>0, <3>1, <3>3, <3>7
      <3>8. ~PublishFinishing /\ ~PublishFinished /\ ~\E k \in 0 .. MaxInputs : BoundaryA(k)
        BY <3>1 DEF PublishFinishing, PublishFinished, BoundaryA, UnderRequest, InBatch, Asking
      <3> QED BY <1>2, <3>4, <3>5, <3>6, <3>7, <3>8, ChannelEffects
              DEF Deliver, Notify, Exit, TaskAborted, channelVars
    <2>5. ASSUME pc' \in InBatch PROVE \A i \in 1 .. Len(calls') : calls'[i] \in ToolsOf[snapshot']
      <3>0. UNCHANGED snapshot
        BY <2>4, <2>5 DEF UnderRequest
      <3>1. ASSUME NEW cs \in ToolCallLists, BeginBatch(cs)
            PROVE  \A i \in 1 .. Len(calls') : calls'[i] \in ToolsOf[snapshot]
        BY <3>1, CallsOfConfig DEF BeginBatch
      <3>2. CASE ~\E cs \in ToolCallLists : BeginBatch(cs)
        BY <2>5, <3>0, <3>2, PlaceEffects, BatchEffects DEF Settle, batchVars, IssueInv, RequestPinned
      <3> QED BY <3>0, <3>1, <3>2
    <2>6. RequestPinned'
      BY <2>1, <2>3, <2>4, <2>5 DEF RequestPinned, IssueInv
    <2> QED BY <2>2, <2>6 DEF IssueInv
  <1> QED BY <1>1, <1>2

-----------------------------------------------------------------------------
(* The report, and the final state published before it. *)

\* The Finished state is out.
PublishedAt == pc = "Deliver" \/ ReportedAt

\* What a report says, and what is left of one when the runner's locals are gone.
FullReport ==
  [outcome |-> outcome, appended |-> appended, requests |-> requests, toolRounds |-> toolRounds,
   revision |-> currentRevision]
EmptyReport ==
  [outcome |-> outcome, appended |-> <<>>, requests |-> 0, toolRounds |-> 0, revision |-> 0]

\* The report and the final state are the runner's own, as they still stand.
ReportInv ==
  /\ PublishedAt => loopState.status = "Finished"
  /\ PublishedAt /\ unwound # "Running" =>
       loopState.revision = currentRevision /\ loopState.requestIndex = FinalIndex
  /\ \A r \in completion : r = IF unwound = "Running" THEN EmptyReport ELSE FullReport
  /\ finishedEvent => ReportedAt

\* Nothing a report is made of changes behind it.
LEMMA AfterReport ==
  ASSUME EndInv, ReportedAt, [Next]_vars
  PROVE  /\ UNCHANGED <<outcome, appended, taken, requests, toolRounds, currentRevision, lastIssued>>
         /\ UNCHANGED <<completion, loopState>>
         /\ unwound' = "Running" <=> unwound = "Running"
         /\ ReportedAt'
  <1> USE DEF ReportedAt, UnwoundInv
  <1>1. CASE RequestStep \/ ToolStep
    BY <1>1, RequestWorks, BatchWorks DEF Works, Breaks, InEnding
  <1>2. CASE EndStep
    <2>1. Notify \/ Release \/ Exit \/ Seal
      BY <1>2 DEF EndStep, ChooseOutcome, PublishFinishing, PublishFinished, Deliver
    <2>2. CASE Notify \/ Release \/ Exit
      BY <2>2 DEF Notify, Release, release_token, Exit, Goto, endVars, historyVars, requestVars,
                  batchVars, channelVars, controlVars, configVars
    <2>3. CASE Seal
      <3>1. AlreadyFinished /\ unwound = "Tail"
        BY <2>3 DEF Seal, AlreadyFinished, EndInv, SealedAt
      <3> QED BY <2>3, <3>1 DEF Seal, finish_once, historyVars, requestVars, batchVars, channelVars
    <2> QED BY <2>1, <2>2, <2>3
  <1>3. CASE Faults
    <2>1. TailPanics
      BY <1>3 DEF Faults, BoundaryPanics, PortPanics, TaskAborted, Awaits
    <2> QED BY <2>1 DEF TailPanics, Unwind, historyVars, requestVars, batchVars, channelVars,
                        controlVars, configVars
  <1>4. CASE HostStep
    BY <1>4, HostLeavesRunner
  <1> QED BY <1>1, <1>2, <1>3, <1>4, StepKinds

\* The only ways to a published Finished state and to a report.
LEMMA TowardsReport ==
  ASSUME EndInv, ~ReportedAt, PublishedAt', [Next]_vars
  PROVE  PublishFinished \/ (pc = "Deliver" /\ (Deliver \/ HostStep))
  <1> USE DEF PublishedAt, ReportedAt
  <1>1. CASE RequestStep \/ ToolStep
    BY <1>1, RequestWorks, BatchWorks DEF Works, Breaks, InEnding
  <1>2. CASE EndStep
    <2>1. ~Notify /\ ~Release /\ ~Exit
      BY DEF Notify, Release, Exit
    <2>2. ~Seal
      BY DEF Seal, AlreadyFinished, EndInv, SealedAt
    <2>3. ~ChooseOutcome
      BY DEF ChooseOutcome, EndInv, UnwoundInv
    <2>4. ~PublishFinishing
      BY DEF PublishFinishing, Goto
    <2> QED BY <1>2, <2>1, <2>2, <2>3, <2>4 DEF EndStep, Deliver
  <1>3. CASE Faults
    BY <1>3 DEF Faults, BoundaryPanics, PortPanics, TailPanics, TaskAborted, Awaits, Unwind, Goto
  <1>4. CASE HostStep
    BY <1>4, HostLeavesRunner
  <1> QED BY <1>1, <1>2, <1>3, <1>4, StepKinds

\* ReportInv is inductive, given the ending's invariant.
LEMMA ReportInvStep ==
  ASSUME ReportInv, EndInv, EndInv', [Next]_vars PROVE ReportInv'
  <1>1. CASE ReportedAt
    <2>1. /\ UNCHANGED <<outcome, appended, requests, toolRounds, currentRevision, lastIssued,
                         completion, loopState>>
          /\ unwound' = "Running" <=> unwound = "Running"
          /\ ReportedAt'
      BY <1>1, AfterReport
    <2> QED BY <1>1, <2>1 DEF ReportInv, PublishedAt, FullReport, EmptyReport, FinalIndex
  <1>2. CASE ~ReportedAt /\ ~PublishedAt'
    <2>1. completion' = {} /\ ~ReportedAt'
      BY <1>2 DEF EndInv, PublishedAt
    <2>2. UNCHANGED finishedEvent
      <3>1. ~Notify
        BY <1>2 DEF Notify, ReportedAt
      <3> QED BY <3>1, ChannelEffects
          DEF BoundaryA, Issue, BeginBatch, ShowInteraction, ApprovalAnswered, InputAnswered,
              Resolved, PublishFinishing, PublishFinished, Deliver, Exit, TaskAborted, publish,
              channelVars
    <2> QED BY <1>2, <2>1, <2>2 DEF ReportInv
  <1>3. CASE ~ReportedAt /\ PublishFinished
    <2>1. pc' = "Deliver" /\ UNCHANGED <<unwound, completion, finishedEvent, currentRevision, lastIssued>>
      BY <1>3 DEF PublishFinished, Goto, endVars, publish, controlVars, configVars, requestVars
    <2>2. completion' = {} /\ ~finishedEvent
      BY <1>3, <2>1 DEF EndInv, ReportInv
    <2>3. /\ loopState'.status = "Finished"
          /\ unwound # "Running" => loopState'.revision = currentRevision
                                    /\ loopState'.requestIndex = FinalIndex
      <3>1. unwound = "No" \/ unwound = "Running"
        BY <1>3 DEF PublishFinished, EndInv, UnwoundInv
      <3> QED BY <1>3, <3>1 DEF PublishFinished, publish, LoopStateOf
    <2> QED BY <2>1, <2>2, <2>3 DEF ReportInv, FinalIndex
  <1>4. CASE ~ReportedAt /\ pc = "Deliver" /\ Deliver
    <2>1. /\ completion' = {Report} /\ pc' \in {"Notify", "Release"}
          /\ UNCHANGED <<unwound, outcome, finishedEvent, loopState, currentRevision, lastIssued,
                         appended, requests, toolRounds>>
      BY <1>4 DEF Deliver, Goto, endVars, controlVars, configVars, requestVars, historyVars, batchVars
    <2>2. Report = IF unwound = "Running" THEN EmptyReport ELSE FullReport
      <3>1. unwound = "No" \/ unwound = "Running"
        BY <1>4 DEF EndInv, UnwoundInv
      <3> QED BY <3>1 DEF Report, EmptyReport, FullReport
    <2>3. EmptyReport' = EmptyReport /\ FullReport' = FullReport /\ FinalIndex' = FinalIndex
      BY <2>1 DEF EmptyReport, FullReport, FinalIndex
    <2>4. ReportedAt' /\ PublishedAt
      BY <1>4, <2>1 DEF ReportedAt, PublishedAt
    <2> HIDE DEF Report, EmptyReport, FullReport, FinalIndex
    <2> QED BY <2>1, <2>2, <2>3, <2>4 DEF ReportInv
  <1>5. CASE ~ReportedAt /\ HostStep
    BY <1>5, HostLeavesRunner DEF ReportInv, PublishedAt, ReportedAt, FullReport, EmptyReport, FinalIndex
  <1> QED BY <1>1, <1>2, <1>3, <1>4, <1>5, TowardsReport

\* The invariants of the requests and of the report hold in every behaviour.
LEMMA RequestsHold == Spec => [](IssueInv /\ ReportInv)
  <1>1. Spec => []RefineInv
    BY RefineInit, RefineStep, PTL DEF Spec
  <1>2. IssueInv /\ LoopTypes /\ RefineInv /\ ControlInv /\ HistoryInv /\ [Next]_vars => IssueInv'
    BY IssueInvStep
  <1>3. ReportInv /\ EndInv /\ EndInv' /\ [Next]_vars => ReportInv'
    BY ReportInvStep
  <1>4. Init => ReportInv
    BY DEF Init, ReportInv, PublishedAt, ReportedAt
  <1> QED BY IssueInit, <1>1, <1>2, <1>3, <1>4, LoopTypesHold, LoopControlSafety, EndingSafety,
             HistoryTypes, PTL DEF Spec

\* Requests are numbered without a gap or a repeat and their revisions never go back, and
\* the report and the final state name the last one that really went out.
THEOREM RequestsAreAccounted == Spec => []IssuedRequestsAccounted
  <1>1. IssueInv /\ ReportInv /\ EndInv /\ LoopTypes => IssuedRequestsAccounted
    <2> SUFFICES ASSUME IssueInv, ReportInv, EndInv, LoopTypes PROVE IssuedRequestsAccounted
      OBVIOUS
    <2>1. Len(issued) \in Nat
      BY DEF LoopTypes, RequestTypes
    <2>2. FinalIndex = IF Len(issued) = 0 THEN 0 ELSE Len(issued) - 1
      BY <2>1 DEF IssueInv, IssuedInOrder, FinalIndex
    <2>3. ASSUME NEW r \in completion, unwound # "Running"
          PROVE  /\ r.requests = Len(issued)
                 /\ r.revision = currentRevision
                 /\ loopState.revision = currentRevision
                 /\ loopState.requestIndex = IF Len(issued) = 0 THEN 0 ELSE Len(issued) - 1
      <3>1. PublishedAt
        BY <2>3 DEF EndInv, PublishedAt
      <3> QED BY <2>2, <2>3, <3>1 DEF ReportInv, FullReport, IssueInv, IssuedInOrder
    <2> QED BY <2>3 DEF IssuedRequestsAccounted, IssueInv, IssuedInOrder
  <1> QED BY <1>1, RequestsHold, EndingSafety, LoopTypesHold, PTL

\* A batch runs under the config of the request that produced it, and only calls that
\* config's tools, whatever update lands meanwhile.
THEOREM BatchKeepsItsRequest == Spec => []BatchPinnedToRequest
  <1>1. IssueInv /\ LoopTypes => BatchPinnedToRequest
    <2> SUFFICES ASSUME IssueInv, LoopTypes, pc \in InBatch
                 PROVE  BatchPinnedToRequest
      BY DEF BatchPinnedToRequest
    <2>1. /\ Len(issued) \in Nat /\ Len(issued) > 0
          /\ requestIndex = Len(issued) - 1
          /\ issued[Len(issued)].config = snapshot
          /\ loopState.revision = currentRevision /\ loopState.model = {snapshot}
          /\ \A i \in 1 .. Len(calls) : calls[i] \in ToolsOf[snapshot]
      BY DEF IssueInv, RequestPinned, UnderRequest, LoopTypes, RequestTypes
    <2>2. /\ issued[Len(issued)].index = Len(issued) - 1
          /\ issued[Len(issued)].revision = currentRevision
          /\ issued # <<>>
      BY <2>1 DEF IssueInv, IssuedInOrder
    <2> QED BY <2>1, <2>2 DEF BatchPinnedToRequest
  <1> QED BY <1>1, RequestsHold, LoopTypesHold, PTL

-----------------------------------------------------------------------------
(* What the runner blames for its ending. *)

\* Something in the options lets a deadline pass.
DeadlineConfigured ==
  options.deadline \/ "Long" \in {options.prompt, options.policy, options.tool, options.model}

\* The blame for an ending is deserved.
Deserved(p) ==
  /\ p = "MaxToolRounds" => toolRounds = options.maxToolRounds
  /\ p = "Deadline" => DeadlineConfigured

PathInv ==
  /\ late => options.deadline
  /\ options.maxToolRounds # 0 => toolRounds <= options.maxToolRounds
  /\ pc \notin InEnding => path = "Completed" /\ outcome = "Completed"
  /\ Deserved(path) /\ Deserved(outcome)
  /\ SealedAt /\ unwound = "Running" => outcome = "Internal"

\* A port call that loses to the turn's deadline was configured to.
LEMMA TurnIsConfigured ==
  ASSUME late => options.deadline,
         NEW timeout \in {options.prompt, options.policy, options.tool, options.model},
         "Turn" \in run_port_call(timeout)
  PROVE  DeadlineConfigured
  <1>1. TurnExpires(timeout)
    BY DEF run_port_call
  <1> QED BY <1>1 DEF TurnExpires, DeadlineConfigured

\* Breaking out of the loop blames the deadline, or the rounds, only with a reason.
LEMMA BreakIsDeserved ==
  ASSUME late => options.deadline, RequestStep \/ ToolStep, path' # path
  PROVE  /\ path' = "Deadline" => DeadlineConfigured
         /\ path' = "MaxToolRounds" => ~RoundsLeft /\ UNCHANGED batchVars
  <1> USE DEF Goto, BreakWith, endVars
  <1>1. CASE StopAtTop
    BY <1>1 DEF StopAtTop, DeadlineConfigured
  <1>2. CASE PromptEnds
    BY <1>2, TurnIsConfigured DEF PromptEnds
  <1>3. CASE ModelFails
    BY <1>3, TurnIsConfigured DEF ModelFails
  <1>4. CASE \E p \in {"Completed", "OutputLimit", "Refused", "ContentFiltered"} : ModelFinal(p)
    BY <1>4 DEF ModelFinal
  <1>5. CASE \E cs \in ToolCallLists : ToolRoundLimit(cs)
    BY <1>5 DEF ToolRoundLimit
  <1>6. CASE PolicyEnds
    <2> PICK o \in run_port_call(options.policy) :
          \/ o = "Cancelled" /\ EndBatch("Cancelled")
          \/ o = "Turn" /\ EndBatch("Deadline")
          \/ o = "Returned" /\ \E p \in {"Policy", "Internal"} : EndBatch(p)
      BY <1>6 DEF PolicyEnds
    <2> QED BY TurnIsConfigured DEF EndBatch
  <1>7. CASE ToolEnds
    <2> PICK o \in run_port_call(options.tool) :
          \/ o = "Cancelled" /\ EndBatch("Cancelled")
          \/ o = "Turn" /\ EndBatch("Deadline")
          \/ o \in {"InvalidDeadline", "Returned"} /\ EndBatch("Internal")
      BY <1>7 DEF ToolEnds
    <2> QED BY TurnIsConfigured DEF EndBatch
  <1>8. CASE WaitEnds
    BY <1>8 DEF WaitEnds, WaitPaths, EndBatch, DeadlineConfigured
  <1>9. CASE \/ BuildFails \/ BatchCancelled \/ PolicyAsks \/ ToolAsks
             \/ \E value \in Answers : ApprovalAnswered(value) \/ InputAnswered(value)
    BY <1>9 DEF BuildFails, BatchCancelled, PolicyAsks, ToolAsks, wait_interaction, ApprovalAnswered,
                InputAnswered, Proceed, Settle, EndBatch
  <1> QED BY <1>1, <1>2, <1>3, <1>4, <1>5, <1>6, <1>7, <1>8, <1>9
          DEF RequestStep, StartRunner, BoundaryA, BoundaryF, PromptReady, Issue, BeginBatch,
              ToolStep, BatchDone, StartCall, PolicyAllows, PolicyDenies, ShowInteraction,
              ToolSettles, Proceed, Settle

\* The rounds counted never pass the limit.
LEMMA RoundsStep ==
  ASSUME LoopTypes, PathInv, [Next]_vars
  PROVE  /\ options'.maxToolRounds # 0 => toolRounds' <= options'.maxToolRounds
         /\ pc \in InEnding => UNCHANGED toolRounds
         /\ UNCHANGED options
         /\ late' => options.deadline
  <1>1. UNCHANGED options /\ (late' => options.deadline)
    BY DEF Next, RunnerStep, Faults, HandleCalls, DeadlinePasses, WaitCalled, WaiterStep,
           WaitChecks, WaitWakes, Terminated, hostVars, vars, PathInv
  <1>2. options.maxToolRounds \in Nat /\ toolRounds \in Nat
    BY LoopAssumption DEF LoopTypes, HostTypes, BatchTypes, LoopOptions
  <1>3. ASSUME NEW cs \in ToolCallLists, BeginBatch(cs)
        PROVE  /\ pc \notin InEnding
               /\ options.maxToolRounds # 0 => toolRounds' <= options.maxToolRounds
    BY <1>2, <1>3 DEF BeginBatch, RoundsLeft, InEnding
  <1>4. (\E cs \in ToolCallLists : BeginBatch(cs)) \/ UNCHANGED toolRounds
    BY BatchEffects DEF Settle, batchVars
  <1> QED BY <1>1, <1>3, <1>4 DEF PathInv

\* PathInv is inductive.
LEMMA PathInvStep ==
  ASSUME PathInv, LoopTypes, EndInv, [Next]_vars PROVE PathInv'
  <1> USE DEF PathInv
  <1>1. /\ UNCHANGED options
        /\ DeadlineConfigured' <=> DeadlineConfigured
        /\ pc \in InEnding => UNCHANGED toolRounds
    BY RoundsStep DEF DeadlineConfigured
  <1>2. CASE RequestStep \/ ToolStep
    <2>1. /\ Works \/ Breaks
          /\ pc \notin InEnding /\ path = "Completed" /\ outcome' = "Completed"
          /\ ~SealedAt'
      BY <1>2, RequestWorks, BatchWorks DEF Works, Breaks, endingVars, SealedAt, InEnding
    <2>2. Deserved(path)'
      <3>1. CASE path' = "Completed"
        BY <3>1 DEF Deserved
      <3>2. CASE path' # "Completed"
        <4>1. /\ path' = "Deadline" => DeadlineConfigured
              /\ path' = "MaxToolRounds" => ~RoundsLeft /\ UNCHANGED toolRounds
          BY <1>2, <2>1, <3>2, BreakIsDeserved DEF batchVars
        <4>2. options.maxToolRounds \in Nat /\ toolRounds \in Nat
          BY LoopAssumption DEF LoopTypes, HostTypes, BatchTypes, LoopOptions
        <4> QED BY <1>1, <4>1, <4>2 DEF Deserved, RoundsLeft
      <3> QED BY <3>1, <3>2
    <2>3. pc' \notin InEnding => path' = "Completed"
      BY <2>1 DEF Works, Breaks, InEnding
    <2> QED BY <2>1, <2>2, <2>3, RoundsStep DEF Deserved
  <1>3. CASE EndStep
    <2>1. pc \in InEnding /\ pc' \in InEnding /\ UNCHANGED <<path, toolRounds, unwound>>
      BY <1>1, <1>3, PlaceEffects
      DEF EndStep, ChooseOutcome, Seal, PublishFinishing, PublishFinished, Deliver, Notify, Release,
          Exit, Goto, endVars, InEnding
    <2>2. outcome' \in {outcome, path, "Internal"} \cup Reasons
      BY <1>3
      DEF EndStep, ChooseOutcome, outcome_for, Seal, SealedOutcome, PublishFinishing,
          PublishFinished, Deliver, Notify, Release, Exit, Goto, endVars, Reasons
    <2>3. Deserved(path)' /\ Deserved(outcome)'
      BY <1>1, <2>1, <2>2 DEF Deserved, Reasons
    <2>4. SealedAt' /\ unwound' = "Running" => outcome' = "Internal"
      <3>1. CASE Seal
        <4>1. unwound = "Running" => ~AlreadyFinished
          BY <3>1 DEF Seal, AlreadyFinished, EndInv, SealedAt
        <4> QED BY <3>1, <4>1 DEF Seal
      <3>2. CASE ChooseOutcome
        BY <3>2 DEF ChooseOutcome, SealedAt
      <3>3. CASE \/ PublishFinishing \/ PublishFinished \/ Deliver \/ Notify \/ Release \/ Exit
        BY <3>3 DEF PublishFinishing, PublishFinished, Deliver, Notify, Release, Exit, Goto, endVars,
                    SealedAt
      <3> QED BY <1>3, <3>1, <3>2, <3>3 DEF EndStep
    <2> QED BY <2>1, <2>3, <2>4, RoundsStep
  <1>4. CASE Faults
    <2>1. /\ UNCHANGED <<path, outcome, toolRounds>> /\ pc' \in InEnding
          /\ ~(SealedAt' /\ unwound' = "Running")
      BY <1>4
      DEF Faults, BoundaryPanics, PortPanics, TailPanics, TaskAborted, Unwind, Goto, endVars,
          batchVars, SealedAt, InEnding
    <2> QED BY <1>1, <2>1, RoundsStep DEF Deserved
  <1>5. CASE HostStep
    BY <1>1, <1>5, HostLeavesRunner, RoundsStep DEF Deserved, SealedAt
  <1> QED BY <1>2, <1>3, <1>4, <1>5, StepKinds

\* Every ending has a path that leads to it.
LEMMA PathHolds == Spec => []PathInv
  <1>1. Init => PathInv
    BY LoopAssumption DEF Init, PathInv, Deserved, SealedAt, InEnding, LoopOptions
  <1>2. PathInv /\ LoopTypes /\ EndInv /\ [Next]_vars => PathInv'
    BY PathInvStep
  <1> QED BY <1>1, <1>2, LoopTypesHold, EndingSafety, PTL DEF Spec

\* A positive limit bounds the tool rounds, and a report that blames it used them all.
THEOREM RoundsAreBounded == Spec => []ToolRoundsBounded
  <1>1. PathInv /\ ReportInv /\ EndInv => ToolRoundsBounded
    <2> SUFFICES ASSUME PathInv, ReportInv, EndInv,
                        NEW r \in completion, r.outcome = "MaxToolRounds"
                 PROVE  r.toolRounds = options.maxToolRounds
      BY DEF PathInv, ToolRoundsBounded
    <2>1. outcome = "MaxToolRounds" /\ SealedAt
      BY DEF EndInv, ReportedAt, SealedAt
    <2>2. r = FullReport
      BY <2>1 DEF ReportInv, PathInv
    <2> QED BY <2>1, <2>2 DEF FullReport, PathInv, Deserved
  <1> QED BY <1>1, PathHolds, RequestsHold, EndingSafety, PTL

\* No report blames a deadline that the options do not have.
THEOREM DeadlineIsConfigured == Spec => []DeadlineOutcomeIsConfigured
  <1>1. PathInv /\ EndInv => DeadlineOutcomeIsConfigured
    BY DEF PathInv, EndInv, Deserved, DeadlineConfigured, DeadlineOutcomeIsConfigured
  <1> QED BY <1>1, PathHolds, EndingSafety, PTL

-----------------------------------------------------------------------------
(* What observers see, and in which order. *)

\* A final status is published behind the seal, the runner leaves behind the token, and
\* a waiter returns what it saw.
ObsInv ==
  /\ loopState.status \in {"Finishing", "Finished"} => state = "FINISHED"
  /\ pc \in {"Exit", "Done"} \/ (pc = "Sealing" /\ unwound = "Tail") => token
  /\ \A w \in Waiters :
       /\ waiter[w] = "Reported" => completion # {}
       /\ waiter[w] = "Closed" => completion = {} /\ closed

\* The seal and the token are never taken back.
LEMMA SealStands ==
  ASSUME RefineInv, [Next]_vars
  PROVE  /\ state = "FINISHED" => state' = "FINISHED"
         /\ token => token'
  <1>1. [ControlNext]_controlVars
    BY RefineStep
  <1> QED BY <1>1 DEF ControlNext, HandleStep, RunnerCall, mark_cancel, cancel_token, release_token,
                      begin_update, commit_update, take_config, commit_revision, begin_final,
                      finish_once, set_interaction, take_interaction, answer, controlVars,
                      cancelVars

\* A final status says that the loop is sealed.
LEMMA StatusStep ==
  ASSUME ObsInv, LoopTypes, EndInv, RefineInv, [Next]_vars,
         loopState'.status \in {"Finishing", "Finished"}
  PROVE  state' = "FINISHED"
  <1>1. loopState \in LoopStates
    BY DEF LoopTypes, ChannelTypes
  <1>2. ASSUME NEW k \in 0 .. MaxInputs, BoundaryA(k) PROVE FALSE
    BY <1>2 DEF BoundaryA, publish, LoopStateOf
  <1>3. ~Issue
    BY DEF Issue, publish, LoopStateOf
  <1>4. ASSUME NEW cs \in ToolCallLists, BeginBatch(cs) PROVE FALSE
    BY <1>4 DEF BeginBatch, publish, LoopStateOf
  <1>5. ~ShowInteraction
    BY <1>1 DEF ShowInteraction, publish, LoopStates
  <1>6. ASSUME NEW value \in Answers, ApprovalAnswered(value) \/ InputAnswered(value) PROVE FALSE
    BY <1>1, <1>6 DEF ApprovalAnswered, InputAnswered, Resolved, publish, LoopStates
  <1>7. CASE PublishFinishing \/ PublishFinished
    <2>1. SealedAt
      BY <1>7 DEF PublishFinishing, PublishFinished, SealedAt
    <2> QED BY <2>1, SealStands DEF EndInv
  <1>8. CASE UNCHANGED loopState
    BY <1>8, SealStands DEF ObsInv
  <1> QED BY <1>2, <1>3, <1>4, <1>5, <1>6, <1>7, <1>8, ChannelEffects
          DEF Deliver, Notify, Exit, TaskAborted, channelVars

\* The runner leaves with the token cancelled.
LEMMA TokenStep ==
  ASSUME ObsInv, EndInv, RefineInv, [Next]_vars,
         pc' \in {"Exit", "Done"} \/ (pc' = "Sealing" /\ unwound' = "Tail")
  PROVE  token'
  <1>1. CASE RequestStep \/ ToolStep
    BY <1>1, RequestWorks, BatchWorks DEF Works, Breaks, InEnding
  <1>2. CASE EndStep
    <2>1. CASE Release
      BY <2>1 DEF Release, release_token
    <2>2. CASE Seal
      <3>1. AlreadyFinished
        BY <2>2 DEF Seal, UnwoundInv, EndInv
      <3>2. unwound = "Tail" /\ pc = "Sealing"
        BY <2>2, <3>1 DEF Seal, AlreadyFinished, EndInv, SealedAt
      <3> QED BY <3>2, SealStands DEF ObsInv
    <2>3. CASE Exit
      BY <2>3, SealStands DEF Exit, ObsInv
    <2>4. CASE ChooseOutcome
      BY <2>4 DEF ChooseOutcome, EndInv, UnwoundInv
    <2> QED BY <1>2, <2>1, <2>2, <2>3, <2>4
            DEF EndStep, PublishFinishing, PublishFinished, Deliver, Notify, Goto
  <1>3. CASE Faults
    BY <1>3, SealStands
    DEF Faults, BoundaryPanics, PortPanics, TailPanics, TaskAborted, Unwind, Goto, ObsInv
  <1>4. CASE HostStep
    BY <1>4, HostLeavesRunner, SealStands DEF ObsInv
  <1> QED BY <1>1, <1>2, <1>3, <1>4, StepKinds

\* What a waiter saw stays true: a report stays, and behind a task that is gone comes none.
LEMMA WaiterStays ==
  ASSUME ObsInv, LoopTypes, EndInv, EndInv', [Next]_vars, NEW w \in Waiters
  PROVE  /\ waiter'[w] = "Reported" => completion' # {}
         /\ waiter'[w] = "Closed" => completion' = {} /\ closed'
  <1>1. completion # {} => completion' # {}
    BY AfterReport DEF EndInv
  <1>2. ASSUME completion = {}, closed PROVE completion' = {} /\ closed'
    <2>1. pc = "Aborted"
      BY <1>2 DEF EndInv, ReportedAt
    <2>2. HostStep
      <3>1. ~RequestStep /\ ~ToolStep
        BY <2>1, RequestWorks, BatchWorks DEF Works, Breaks, InEnding
      <3>2. ~EndStep /\ ~Faults
        BY <2>1
        DEF EndStep, ChooseOutcome, Seal, PublishFinishing, PublishFinished, Deliver, Notify,
            Release, Exit, Faults, BoundaryPanics, PortPanics, TailPanics, TaskAborted, Awaits
      <3> QED BY <3>1, <3>2, StepKinds
    <2> QED BY <1>2, <2>2, HostLeavesRunner
  <1>3. CASE UNCHANGED waiter
    BY <1>1, <1>2, <1>3 DEF ObsInv
  <1>4. ASSUME NEW v \in Waiters, WaitCalled(v) \/ WaiterStep(v)
        PROVE  /\ waiter'[w] = "Reported" => completion' # {}
               /\ waiter'[w] = "Closed" => completion' = {} /\ closed'
    <2>1. UNCHANGED <<completion, closed>>
      BY <1>4, HostLeavesRunner DEF HostStep
    <2>2. waiter \in [Waiters -> {"Idle", "Checking", "Parked", "Reported", "Closed"}]
      BY DEF LoopTypes, HostTypes
    <2> QED BY <1>4, <2>1, <2>2
            DEF WaitCalled, WaiterStep, WaitChecks, WaitWakes, WakesTo, ObsInv
  <1> QED BY <1>3, <1>4 DEF Next, RunnerStep, Faults, HandleCalls, DeadlinePasses, Terminated,
                            hostVars, vars

\* What observers can see is ordered in every reachable state.
LEMMA ObsHolds == Spec => []ObsInv
  <1>1. Init => ObsInv
    BY DEF Init, ObsInv, LoopStateOf
  <1>2. ObsInv /\ LoopTypes /\ EndInv /\ EndInv' /\ RefineInv /\ [Next]_vars => ObsInv'
    <2> SUFFICES ASSUME ObsInv, LoopTypes, EndInv, EndInv', RefineInv, [Next]_vars PROVE ObsInv'
      OBVIOUS
    <2> QED BY StatusStep, TokenStep, WaiterStays DEF ObsInv
  <1>3. Spec => []RefineInv
    BY RefineInit, RefineStep, PTL DEF Spec
  <1> QED BY <1>1, <1>2, <1>3, LoopTypesHold, EndingSafety, PTL DEF Spec

\* A report implies the Finished state and that the seal; the Finished event and the closed
\* channel come behind the report, and no waiter that saw the channel closed missed one.
THEOREM ObserversAreOrdered == Spec => []ObservationOrder
  <1>1. ObsInv /\ ReportInv /\ EndInv => ObservationOrder
    <2> SUFFICES ASSUME ObsInv, ReportInv, EndInv PROVE ObservationOrder
      OBVIOUS
    <2>1. closed /\ pc # "Aborted" => completion # {} /\ token
      BY DEF EndInv, ReportedAt, ObsInv
    <2>2. completion # {} => loopState.status = "Finished"
      BY DEF EndInv, ReportInv, PublishedAt
    <2>3. finishedEvent => completion # {}
      BY DEF EndInv, ReportInv
    <2> QED BY <2>1, <2>2, <2>3 DEF ObsInv, ObservationOrder
  <1> QED BY <1>1, ObsHolds, RequestsHold, EndingSafety, PTL

-----------------------------------------------------------------------------
(* The interaction that is shown. *)

Awaiting == {"AwaitApproval", "AwaitInput"}

\* The published state shows the newest interaction or none, and that one exactly while the
\* runner waits for its answer; a loop that ends may leave it standing.
ShownInv ==
  /\ loopState.pending \subseteq {slots}
  /\ pc \in Awaiting => loopState.pending = {slots}
  /\ pc \notin Awaiting \cup InEnding => loopState.pending = {}

\* A new slot is installed before a runner shows anything.
LEMMA SlotEffects ==
  ASSUME [Next]_vars
  PROVE  \/ UNCHANGED slots
         \/ /\ pc \notin Awaiting \cup InEnding /\ pc' \notin Awaiting
            /\ UNCHANGED loopState
  <1> USE DEF controlVars, interactionVars
  <1>1. CASE RequestStep
    BY <1>1 DEF RequestStep, StartRunner, StopAtTop, BoundaryA, BoundaryF, take_boundary,
                take_config, PromptReady, PromptEnds, BuildFails, Issue, commit_revision, ModelFails,
                ModelFinal, begin_final, ToolRoundLimit, BeginBatch
  <1>2. CASE PolicyAsks \/ ToolAsks
    BY <1>2 DEF PolicyAsks, ToolAsks, wait_interaction, EndBatch, BreakWith, Proceed, Goto,
                channelVars, Awaiting, InEnding
  <1>3. CASE ToolStep /\ ~PolicyAsks /\ ~ToolAsks
    BY <1>3
    DEF ToolStep, BatchDone, BatchCancelled, StartCall, PolicyAllows, PolicyDenies, PolicyEnds,
        ShowInteraction, ApprovalAnswered, InputAnswered, Resolved, WaitEnds, take_interaction,
        ToolSettles, ToolEnds
  <1>4. CASE EndStep \/ Faults
    BY <1>4
    DEF EndStep, ChooseOutcome, Seal, finish_once, PublishFinishing, PublishFinished, Deliver,
        Notify, Release, release_token, Exit, Faults, BoundaryPanics, take_config, PortPanics,
        TailPanics, TaskAborted
  <1>5. CASE HostStep
    BY <1>5, HostLeavesRunner
  <1> QED BY <1>1, <1>2, <1>3, <1>4, <1>5, StepKinds

\* How a wait begins and ends.
LEMMA AwaitEffects ==
  ASSUME [Next]_vars
  PROVE  /\ pc' \in Awaiting => pc \in Awaiting \/ ShowInteraction
         /\ pc \in Awaiting /\ pc' \notin Awaiting =>
              \/ pc' \in InEnding
              \/ \E value \in Answers : ApprovalAnswered(value) \/ InputAnswered(value)
         /\ pc \in Awaiting /\ pc' \in Awaiting => HostStep
  <1> USE DEF Awaiting, InEnding, Goto, BreakWith
  <1>1. CASE RequestStep
    BY <1>1 DEF RequestStep, StartRunner, StopAtTop, BoundaryA, BoundaryF, PromptReady, PromptEnds,
                BuildFails, Issue, ModelFails, ModelFinal, ToolRoundLimit, BeginBatch
  <1>2. CASE ToolStep
    BY <1>2
    DEF ToolStep, BatchDone, BatchCancelled, StartCall, PolicyAllows, PolicyDenies, PolicyAsks,
        PolicyEnds, ShowInteraction, ApprovalAnswered, InputAnswered, WaitEnds, ToolSettles,
        ToolAsks, ToolEnds, Proceed, Settle, EndBatch, wait_interaction
  <1>3. CASE EndStep \/ Faults
    BY <1>3
    DEF EndStep, ChooseOutcome, Seal, PublishFinishing, PublishFinished, Deliver, Notify, Release,
        Exit, Faults, BoundaryPanics, PortPanics, TailPanics, TaskAborted, Unwind
  <1>4. CASE HostStep
    BY <1>4, HostLeavesRunner
  <1> QED BY <1>1, <1>2, <1>3, <1>4, StepKinds

\* Every step keeps an open slot and the state that shows it together.
LEMMA ShownInvStep ==
  ASSUME ShownInv, LoopTypes, [Next]_vars PROVE ShownInv'
  <1>1. loopState \in LoopStates
    BY DEF LoopTypes, ChannelTypes
  <1>2. CASE ~UNCHANGED slots
    <2>1. loopState.pending = {} /\ UNCHANGED loopState /\ pc' \notin Awaiting
      BY <1>2, SlotEffects DEF ShownInv
    <2> QED BY <2>1 DEF ShownInv
  <1>3. CASE UNCHANGED slots /\ ShowInteraction
    <2>1. loopState'.pending = {slots} /\ pc' \in Awaiting
      BY <1>1, <1>3 DEF ShowInteraction, publish, LoopStates, Proceed, Goto, Awaiting
    <2> QED BY <1>3, <2>1 DEF ShownInv
  <1>4. CASE UNCHANGED slots /\ loopState'.pending = {} /\ ~ShowInteraction
    <2>1. pc' \in Awaiting => HostStep
      BY <1>4, AwaitEffects
    <2>2. pc' \in Awaiting => UNCHANGED <<pc, loopState>>
      BY <2>1, HostLeavesRunner
    <2> QED BY <1>4, <2>2 DEF ShownInv
  <1>5. CASE UNCHANGED <<slots, loopState>> /\ ~ShowInteraction
    <2>1. ASSUME NEW value \in Answers, ApprovalAnswered(value) \/ InputAnswered(value)
          PROVE  loopState'.pending = {}
      BY <1>1, <2>1 DEF ApprovalAnswered, InputAnswered, Resolved, publish, LoopStates
    <2>2. pc' \in Awaiting => pc \in Awaiting
      BY <1>5, AwaitEffects
    <2>3. pc' \notin Awaiting \cup InEnding => loopState'.pending = {}
      <3>1. pc \in InEnding => pc' \in InEnding
        BY PlaceEffects
      <3> QED BY <1>5, <2>1, <3>1, AwaitEffects DEF ShownInv
    <2> QED BY <1>5, <2>2, <2>3 DEF ShownInv
  <1>6. loopState'.pending = {} \/ ShowInteraction \/ UNCHANGED loopState
    <2>1. ASSUME NEW status, NEW index, NEW revision, NEW model,
                 publish(LoopStateOf(status, index, revision, model))
          PROVE  loopState'.pending = {}
      BY <2>1 DEF publish, LoopStateOf
    <2>2. CASE Issue \/ \E k \in 0 .. MaxInputs : BoundaryA(k)
      BY <2>1, <2>2 DEF BoundaryA, Issue
    <2>3. CASE \E cs \in ToolCallLists : BeginBatch(cs)
      BY <2>1, <2>3 DEF BeginBatch
    <2>4. CASE PublishFinishing \/ PublishFinished
      BY <2>1, <2>4 DEF PublishFinishing, PublishFinished
    <2>5. CASE \E value \in Answers : ApprovalAnswered(value) \/ InputAnswered(value)
      BY <1>1, <2>5 DEF ApprovalAnswered, InputAnswered, Resolved, publish, LoopStates
    <2> QED BY <2>2, <2>3, <2>4, <2>5, ChannelEffects
            DEF Deliver, Notify, Exit, TaskAborted, channelVars
  <1> QED BY <1>2, <1>3, <1>4, <1>5, <1>6

\* While the runner waits on an open slot the state shows exactly it, and a state that shows
\* an interaction shows the newest one, of a runner that waits or a loop that ends.
THEOREM OpenSlotsAreShown == Spec => []OpenSlotIsShown
  <1>1. Init => ShownInv
    BY DEF Init, ShownInv, LoopStateOf, Awaiting, InEnding
  <1>2. ShownInv /\ LoopTypes /\ [Next]_vars => ShownInv'
    BY ShownInvStep
  <1>3. ShownInv /\ ControlInv => OpenSlotIsShown
    BY DEF ShownInv, ControlInv, AnswerReachesOwnSlot, OpenSlotIsShown, Awaiting
  <1> QED BY <1>1, <1>2, <1>3, LoopTypesHold, LoopControlSafety, PTL DEF Spec
=============================================================================
