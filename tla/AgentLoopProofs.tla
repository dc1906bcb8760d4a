---------------------------- MODULE AgentLoopProofs ----------------------------
(***************************************************************************)
(* The loop, for every host, every set of configs, tools and updaters, and *)
(* every bound: it is a client of the control plane as LoopControl allows  *)
(* one, and its report is the one the race on the state word decided.      *)
(***************************************************************************)
EXTENDS AgentLoop, LoopControlProofs

-----------------------------------------------------------------------------
(* The loop implements the control plane's specification. *)

\* The revision the runner is about to commit is the last one it took, until the
\* loop is ending (a panic in take_boundary takes a config and drops it).
RefineInv ==
  /\ \A p, q \in pendingConfig : p = q
  /\ issuedRevision = currentRevision
  /\ pc \notin InEnding => candidate \subseteq {takenRevision}

\* Steps that leave the control plane and the revisions alone.
Quiet ==
  /\ UNCHANGED <<controlVars, issuedRevision, candidate>>
  /\ pc \in InEnding => pc' \in InEnding

\* The initial state.
LEMMA RefineInit == Init => RefineInv /\ ControlInit
  BY DEF Init, RefineInv, ControlInit

\* Such a step keeps the invariant.
LEMMA QuietKeeps == RefineInv /\ Quiet => RefineInv' /\ UNCHANGED controlVars
  BY DEF RefineInv, Quiet, controlVars, configVars

\* The steps of the request loop that do not touch the control plane.
LEMMA RequestQuiet ==
  ASSUME \/ StartRunner \/ StopAtTop \/ PromptReady \/ PromptEnds \/ BuildFails \/ ModelFails
         \/ \E p \in {"OutputLimit", "Refused", "ContentFiltered"} : ModelFinal(p)
         \/ \E cs \in ToolCallLists : ToolRoundLimit(cs) \/ BeginBatch(cs)
  PROVE  Quiet
  <1> USE DEF Quiet, InEnding, Goto, BreakWith, requestVars
  <1>1. CASE StartRunner \/ StopAtTop
    BY <1>1 DEF StartRunner, StopAtTop
  <1>2. CASE PromptReady \/ PromptEnds \/ BuildFails
    BY <1>2 DEF PromptReady, PromptEnds, BuildFails
  <1>3. CASE ModelFails
    BY <1>3 DEF ModelFails
  <1>4. ASSUME NEW p \in {"OutputLimit", "Refused", "ContentFiltered"}, ModelFinal(p) PROVE Quiet
    BY <1>4 DEF ModelFinal
  <1>5. ASSUME NEW cs \in ToolCallLists, ToolRoundLimit(cs) \/ BeginBatch(cs) PROVE Quiet
    BY <1>5 DEF ToolRoundLimit, BeginBatch
  <1> QED BY <1>1, <1>2, <1>3, <1>4, <1>5

\* The steps of a tool batch that do not touch the control plane.
LEMMA BatchQuiet ==
  ASSUME \/ BatchDone \/ BatchCancelled \/ StartCall \/ PolicyAllows \/ PolicyDenies \/ PolicyEnds
         \/ ShowInteraction \/ ToolEnds
         \/ \E result \in {"Success", "Failed"} : ToolSettles(result)
  PROVE  Quiet
  <1> USE DEF Quiet, InEnding, Goto, BreakWith, Settle, EndBatch, Proceed, requestVars
  <1>1. CASE BatchDone \/ BatchCancelled \/ StartCall
    BY <1>1 DEF BatchDone, BatchCancelled, StartCall
  <1>2. CASE PolicyAllows \/ PolicyDenies
    BY <1>2 DEF PolicyAllows, PolicyDenies
  <1>3. CASE PolicyEnds
    BY <1>3 DEF PolicyEnds
  <1>4. CASE ShowInteraction
    BY <1>4 DEF ShowInteraction
  <1>5. CASE ToolEnds
    BY <1>5 DEF ToolEnds
  <1>6. CASE \E result \in {"Success", "Failed"} : ToolSettles(result)
    BY <1>6 DEF ToolSettles
  <1> QED BY <1>1, <1>2, <1>3, <1>4, <1>5, <1>6

\* The steps of the ending and the faults that do not touch the control plane.
LEMMA EndQuiet ==
  ASSUME \/ ChooseOutcome \/ PublishFinishing \/ PublishFinished \/ Deliver \/ Notify \/ Exit
         \/ PortPanics \/ TailPanics \/ TaskAborted
  PROVE  Quiet
  <1> USE DEF Quiet, InEnding, Goto, Unwind, requestVars
  <1>1. CASE ChooseOutcome \/ PublishFinishing \/ PublishFinished
    BY <1>1 DEF ChooseOutcome, PublishFinishing, PublishFinished
  <1>2. CASE Deliver \/ Notify \/ Exit
    BY <1>2 DEF Deliver, Notify, Exit
  <1>3. CASE PortPanics \/ TailPanics \/ TaskAborted
    BY <1>3 DEF PortPanics, TailPanics, TaskAborted
  <1> QED BY <1>1, <1>2, <1>3

\* A boundary takes the pending config and remembers its revision.
LEMMA BoundaryRefines ==
  ASSUME RefineInv, NEW k \in 0 .. MaxInputs, BoundaryA(k) \/ BoundaryF(k)
  PROVE  RefineInv' /\ take_config
  <1>1. /\ take_boundary(k) /\ issuedRevision' = issuedRevision
        /\ pc \notin InEnding
    BY DEF BoundaryA, BoundaryF, InEnding
  <1>2. take_config
    BY <1>1 DEF take_boundary
  <1>3. candidate \subseteq {takenRevision} /\ \A p, q \in pendingConfig : p = q
    BY <1>1 DEF RefineInv
  <1>4. candidate' \subseteq {takenRevision'}
    <2>1. CASE pendingConfig = {}
      BY <1>1, <1>3, <2>1 DEF take_boundary, take_config
    <2>2. CASE pendingConfig # {}
      <3> PICK p \in pendingConfig : takenRevision' = p.revision
        BY <1>2, <2>2 DEF take_config
      <3> PICK q \in pendingConfig : candidate' = {q.revision}
        BY <1>1, <2>2 DEF take_boundary
      <3> QED BY <1>3
    <2> QED BY <2>1, <2>2
  <1> QED BY <1>1, <1>2, <1>4 DEF RefineInv, take_config

\* The issue boundary commits the current revision or the last one taken.
LEMMA IssueRefines ==
  ASSUME RefineInv, Issue
  PROVE  RefineInv' /\ \E revision \in {currentRevision, takenRevision} : commit_revision(revision)
  <1>1. RevisionToIssue \in {currentRevision, takenRevision}
    <2>1. pc \notin InEnding
      BY DEF Issue, InEnding
    <2>2. candidate \subseteq {takenRevision} /\ issuedRevision = currentRevision
      BY <2>1 DEF RefineInv
    <2>3. CASE candidate = {}
      BY <2>2, <2>3 DEF RevisionToIssue
    <2>4. CASE candidate # {}
      <3>1. \E r \in candidate : TRUE
        BY <2>4
      <3>2. RevisionToIssue \in candidate
        BY <2>4, <3>1 DEF RevisionToIssue
      <3> QED BY <2>2, <3>2
    <2> QED BY <2>3, <2>4
  <1>2. commit_revision(RevisionToIssue) /\ issuedRevision' = RevisionToIssue /\ candidate' = {}
    BY DEF Issue
  <1>3. RefineInv'
    BY <1>2 DEF RefineInv, commit_revision
  <1> QED BY <1>1, <1>2, <1>3

\* Handle calls are steps of the control plane as they stand.
LEMMA HandleRefines ==
  ASSUME RefineInv, HandleCalls
  PROVE  RefineInv' /\ HandleStep
  <1>1. HandleStep /\ UNCHANGED <<issuedRevision, candidate, pc>>
    BY DEF HandleCalls, runnerVars, requestVars
  <1>2. /\ UNCHANGED <<currentRevision, takenRevision>>
        /\ pendingConfig' = pendingConfig \/ \E x : pendingConfig' = {x}
    BY <1>1 DEF HandleStep, mark_cancel, cancel_token, commit_update, begin_update, answer,
                configVars
  <1> QED BY <1>1, <1>2 DEF RefineInv

\* The remaining calls of the runner on the control plane.
LEMMA RunnerCallRefines ==
  ASSUME RefineInv,
         \/ ModelFinal("Completed") \/ PolicyAsks \/ ToolAsks
         \/ \E value \in Answers : ApprovalAnswered(value) \/ InputAnswered(value)
         \/ WaitEnds \/ Seal \/ Release \/ BoundaryPanics
  PROVE  RefineInv' /\ [ControlNext]_controlVars
  <1> USE DEF RefineInv, InEnding, ControlNext, RunnerCall
  <1>1. CASE ModelFinal("Completed")
    BY <1>1 DEF ModelFinal, begin_final, requestVars
  <1>2. CASE PolicyAsks \/ ToolAsks
    <2>1. /\ \/ UNCHANGED controlVars
             \/ \E kind \in Kinds : set_interaction(kind)
          /\ UNCHANGED requestVars
          /\ pc \notin InEnding
      BY <1>2 DEF PolicyAsks, ToolAsks, wait_interaction, Kinds
    <2> QED BY <2>1 DEF set_interaction, configVars, controlVars, requestVars
  <1>3. CASE \/ WaitEnds
             \/ \E value \in Answers : ApprovalAnswered(value) \/ InputAnswered(value)
    <2>1. take_interaction /\ UNCHANGED requestVars /\ pc \notin InEnding
      BY <1>3 DEF WaitEnds, ApprovalAnswered, InputAnswered, Resolved
    <2> QED BY <2>1 DEF take_interaction, configVars, requestVars
  <1>4. CASE Seal
    <2>1. finish_once /\ UNCHANGED requestVars /\ pc' \in InEnding
      BY <1>4 DEF Seal
    <2> QED BY <2>1 DEF finish_once, requestVars
  <1>5. CASE Release
    <2>1. release_token /\ UNCHANGED requestVars /\ pc' \in InEnding
      BY <1>5 DEF Release, Goto
    <2> QED BY <2>1 DEF release_token, requestVars, configVars
  <1>6. CASE BoundaryPanics
    <2>1. take_config /\ UNCHANGED requestVars /\ pc' \in InEnding
      BY <1>6 DEF BoundaryPanics, Unwind
    <2> QED BY <2>1 DEF take_config, requestVars
  <1> QED BY <1>1, <1>2, <1>3, <1>4, <1>5, <1>6

\* Every step of the loop is a step of the control plane or leaves it alone.
LEMMA RefineStep == RefineInv /\ [Next]_vars => RefineInv' /\ [ControlNext]_controlVars
  <1> SUFFICES ASSUME RefineInv, [Next]_vars PROVE RefineInv' /\ [ControlNext]_controlVars
    OBVIOUS
  <1>1. CASE Quiet
    BY <1>1, QuietKeeps
  <1>2. CASE RequestStep
    <2>1. ASSUME NEW k \in 0 .. MaxInputs, BoundaryA(k) \/ BoundaryF(k)
          PROVE  RefineInv' /\ [ControlNext]_controlVars
      BY <2>1, BoundaryRefines DEF ControlNext, RunnerCall
    <2>2. CASE Issue
      BY <2>2, IssueRefines DEF ControlNext, RunnerCall
    <2> QED BY <1>1, <1>2, <2>1, <2>2, RequestQuiet, RunnerCallRefines DEF RequestStep
  <1>3. CASE ToolStep
    BY <1>1, <1>3, BatchQuiet, RunnerCallRefines DEF ToolStep
  <1>4. CASE EndStep
    BY <1>1, <1>4, EndQuiet, RunnerCallRefines DEF EndStep
  <1>5. CASE Faults
    BY <1>1, <1>5, EndQuiet, RunnerCallRefines DEF Faults
  <1>6. CASE HandleCalls
    BY <1>6, HandleRefines DEF ControlNext
  <1>7. CASE \/ DeadlinePasses \/ Terminated \/ UNCHANGED vars
             \/ \E w \in Waiters : WaitCalled(w) \/ WaiterStep(w)
    <2>1. UNCHANGED <<controlVars, runnerVars>>
      BY <1>7 DEF DeadlinePasses, WaitCalled, WaiterStep, WaitChecks, WaitWakes, Terminated, vars
    <2>2. Quiet
      BY <2>1 DEF Quiet, runnerVars, requestVars
    <2> QED BY <1>1, <2>2
  <1> QED BY <1>2, <1>3, <1>4, <1>5, <1>6, <1>7 DEF Next, RunnerStep

\* The runner, with any host and any faults, uses the control plane as LoopControl
\* says a client may.
THEOREM LoopImplementsControl == Spec => ImplementsControl
  <1>1. Spec => []RefineInv
    BY RefineInit, RefineStep, PTL DEF Spec
  <1> QED BY <1>1, RefineInit, RefineStep, PTL DEF Spec, ImplementsControl, ControlSpec

\* So the control plane's invariant holds in the loop.
THEOREM LoopControlSafety == Spec => []ControlInv
  BY LoopImplementsControl, ControlSafety, PTL DEF ImplementsControl

-----------------------------------------------------------------------------
(* The report is the one the race between cancel and seal decided. *)

\* Where the runner is once the state word says FINISHED, and once the report is out.
SealedAt   == \/ pc \in {"Finishing", "Finished", "Deliver", "Notify", "Release", "Exit", "Done"}
              \/ pc = "Sealing" /\ unwound = "Tail"
ReportedAt == \/ pc \in {"Notify", "Release", "Exit", "Done"}
              \/ pc = "Sealing" /\ unwound = "Tail"

\* What the loop reports is what the winner decided.
OutcomeDecided ==
  /\ outcome \in Reasons => cancelWinner = {outcome}
  /\ cancelWinner # {} => cancelWinner = {outcome}

\* How the runner unwound limits where it can be.
UnwoundInv ==
  /\ unwound \in {"No", "Running", "Tail"}
  /\ unwound = "Running" => pc \in {"Sealing", "Finished", "Deliver", "Release", "Exit", "Done"}
  /\ unwound = "Tail" => pc \in {"Sealing", "Exit", "Done"}

\* The seal, the outcome and the report, at every point of the ending.
EndInv ==
  /\ UnwoundInv
  /\ path \in FailPaths /\ outcome \in LoopOutcomes
  /\ state = "FINISHED" <=> SealedAt
  /\ pc = "Ending" /\ path = "Cancelled" => state # "NONE"
  /\ pc = "Sealing" /\ unwound = "No" /\ outcome \in Reasons => state # "NONE"
  /\ SealedAt /\ unwound # "Running" => OutcomeDecided
  /\ completion # {} <=> ReportedAt
  /\ \A r \in completion : r.outcome = outcome
  /\ closed <=> pc \in {"Done", "Aborted"}

\* A runner step that stays in the loop, and one that breaks out of it.
endingVars == <<state, cancelWinner, outcome, unwound, completion, closed>>
Works  == pc \notin InEnding /\ pc' \notin InEnding /\ path' = path /\ UNCHANGED endingVars
Breaks == /\ pc \notin InEnding /\ pc' = "Ending" /\ path' \in FailPaths
          /\ path' = "Cancelled" => token
          /\ UNCHANGED endingVars

\* run_port_call says Cancelled only when the token is cancelled.
LEMMA PortOutcomes ==
  ASSUME NEW timeout, NEW o \in run_port_call(timeout)
  PROVE  /\ o \in {"Cancelled", "InvalidDeadline", "Returned", "Panicked", "Turn", "Port"}
         /\ o = "Cancelled" => token
  BY DEF run_port_call

\* The initial state.
LEMMA EndInit == Init => EndInv
  BY DEF Init, ControlInit, EndInv, UnwoundInv, SealedAt, ReportedAt, FailPaths, LoopOutcomes,
         OutcomeDecided

\* Every step of the request loop works on or breaks out.
LEMMA RequestWorks ==
  ASSUME RequestStep PROVE Works \/ Breaks
  <1> USE DEF InEnding, endingVars, channelVars, endVars, FailPaths
  <1>1. CASE StartRunner
    BY <1>1 DEF StartRunner, Works, Goto, controlVars, cancelVars
  <1>2. CASE StopAtTop
    BY <1>2 DEF StopAtTop, Breaks, BreakWith, controlVars, cancelVars
  <1>3. ASSUME NEW k \in 0 .. MaxInputs, BoundaryA(k) \/ BoundaryF(k) PROVE Works
    BY <1>3 DEF BoundaryA, BoundaryF, Works, Goto, take_boundary, take_config, cancelVars, publish
  <1>4. CASE PromptReady
    BY <1>4 DEF PromptReady, Works, Goto, controlVars, cancelVars
  <1>5. CASE PromptEnds
    <2> PICK o \in run_port_call(options.prompt) :
          BreakWith(CASE o = "Cancelled" -> "Cancelled" [] o = "Turn" -> "Deadline"
                      [] OTHER -> "Prompt")
      BY <1>5 DEF PromptEnds
    <2>1. o = "Cancelled" => token
      BY PortOutcomes
    <2> QED BY <1>5, <2>1 DEF PromptEnds, BreakWith, Breaks, controlVars, cancelVars
  <1>6. CASE BuildFails
    BY <1>6 DEF BuildFails, Breaks, BreakWith, controlVars, cancelVars
  <1>7. CASE Issue
    BY <1>7 DEF Issue, Works, Goto, commit_revision, cancelVars, publish
  <1>8. CASE ModelFails
    <2> PICK o \in run_port_call(options.model) :
          \/ /\ o # "Returned"
             /\ BreakWith(CASE o = "Cancelled" -> "Cancelled" [] o = "Turn" -> "Deadline"
                            [] OTHER -> "Model")
          \/ /\ o = "Returned"
             /\ \E p \in {"Model", "InvalidModelResponse", "Internal"} : BreakWith(p)
      BY <1>8 DEF ModelFails
    <2>1. o = "Cancelled" => token
      BY PortOutcomes
    <2> QED BY <1>8, <2>1 DEF ModelFails, BreakWith, Breaks, controlVars, cancelVars
  <1>9. ASSUME NEW p \in {"Completed", "OutputLimit", "Refused", "ContentFiltered"}, ModelFinal(p)
        PROVE  Breaks
    BY <1>9 DEF ModelFinal, Breaks, BreakWith, begin_final, controlVars, cancelVars
  <1>10. ASSUME NEW cs \in ToolCallLists, ToolRoundLimit(cs) PROVE Breaks
    BY <1>10 DEF ToolRoundLimit, Breaks, BreakWith, controlVars, cancelVars
  <1>11. ASSUME NEW cs \in ToolCallLists, BeginBatch(cs) PROVE Works
    BY <1>11 DEF BeginBatch, Works, Goto, controlVars, cancelVars, publish
  <1> QED BY <1>1, <1>2, <1>3, <1>4, <1>5, <1>6, <1>7, <1>8, <1>9, <1>10, <1>11 DEF RequestStep

\* So does every step of a tool batch.
LEMMA BatchWorks ==
  ASSUME ToolStep PROVE Works \/ Breaks
  <1> USE DEF InEnding, endingVars, channelVars, endVars, FailPaths
  <1>1. CASE BatchDone \/ StartCall \/ PolicyAllows
    BY <1>1 DEF BatchDone, StartCall, PolicyAllows, Proceed, Works, Goto, controlVars, cancelVars
  <1>2. CASE BatchCancelled
    BY <1>2 DEF BatchCancelled, EndBatch, BreakWith, Breaks, controlVars, cancelVars
  <1>3. CASE PolicyDenies \/ \E result \in {"Success", "Failed"} : ToolSettles(result)
    BY <1>3 DEF PolicyDenies, ToolSettles, Settle, Works, Goto, controlVars, cancelVars
  <1>4. CASE PolicyAsks \/ ToolAsks
    <2>1. CASE interaction # {}
      BY <1>4, <2>1 DEF PolicyAsks, ToolAsks, wait_interaction, EndBatch, BreakWith, Breaks,
                        controlVars, cancelVars
    <2>2. CASE interaction = {}
      BY <1>4, <2>2 DEF PolicyAsks, ToolAsks, wait_interaction, set_interaction, Proceed, Goto,
                        Works, cancelVars
    <2> QED BY <2>1, <2>2
  <1>5. CASE PolicyEnds
    <2> PICK o \in run_port_call(options.policy) :
          \/ o = "Cancelled" /\ EndBatch("Cancelled")
          \/ o = "Turn" /\ EndBatch("Deadline")
          \/ o = "Returned" /\ \E p \in {"Policy", "Internal"} : EndBatch(p)
      BY <1>5 DEF PolicyEnds
    <2>1. o = "Cancelled" => token
      BY PortOutcomes
    <2> QED BY <1>5, <2>1 DEF PolicyEnds, EndBatch, BreakWith, Breaks, controlVars, cancelVars
  <1>6. CASE ShowInteraction
    BY <1>6 DEF ShowInteraction, Proceed, Goto, Works, publish, controlVars, cancelVars
  <1>7. ASSUME NEW value \in Answers, ApprovalAnswered(value) \/ InputAnswered(value)
        PROVE  Works \/ Breaks
    <2>1. /\ pc \notin InEnding /\ UNCHANGED <<state, cancelWinner, completion, closed>>
          /\ \/ Goto("Port") \/ Goto("Tools") \/ BreakWith("Internal")
      BY <1>7 DEF ApprovalAnswered, InputAnswered, Resolved, take_interaction, cancelVars, publish,
                  Proceed, Settle, EndBatch
    <2> QED BY <2>1 DEF Goto, BreakWith, Works, Breaks
  <1>8. CASE WaitEnds
    <2> PICK p \in WaitPaths : EndBatch(p)
      BY <1>8 DEF WaitEnds
    <2>1. p \in {"Cancelled", "Deadline", "Interaction"} /\ (p = "Cancelled" => token)
      BY DEF WaitPaths
    <2> QED BY <1>8, <2>1 DEF WaitEnds, take_interaction, EndBatch, BreakWith, Breaks, cancelVars
  <1>9. CASE ToolEnds
    <2> PICK o \in run_port_call(options.tool) :
          \/ o = "Cancelled" /\ EndBatch("Cancelled")
          \/ o = "Turn" /\ EndBatch("Deadline")
          \/ o \in {"InvalidDeadline", "Returned"} /\ EndBatch("Internal")
      BY <1>9 DEF ToolEnds
    <2>1. o = "Cancelled" => token
      BY PortOutcomes
    <2> QED BY <1>9, <2>1 DEF ToolEnds, EndBatch, BreakWith, Breaks, controlVars, cancelVars
  <1> QED BY <1>1, <1>2, <1>3, <1>4, <1>5, <1>6, <1>7, <1>8, <1>9 DEF ToolStep

\* Inside the loop the ending has not begun; breaking out with Cancelled needs the
\* token, and the token a decision.
LEMMA WorkKeepsEnd == ASSUME EndInv, ControlInv, Works \/ Breaks PROVE EndInv'
  <1> USE DEF EndInv, UnwoundInv, SealedAt, ReportedAt, OutcomeDecided, InEnding, endingVars
  <1>1. CASE Works
    BY <1>1 DEF Works
  <1>2. CASE Breaks
    <2>1. token => state # "NONE"
      BY DEF ControlInv, TokenImpliesDecision, is_active
    <2> QED BY <1>2, <2>1 DEF Breaks
  <1> QED BY <1>1, <1>2

\* The steps of the ending.
LEMMA EndStepKeepsEnd == ASSUME EndInv, ControlInv, EndStep PROVE EndInv'
  <1> USE DEF EndInv, UnwoundInv, SealedAt, ReportedAt
  <1>1. CASE ChooseOutcome
    <2>1. path # "Cancelled" => outcome' \notin Reasons
      BY <1>1 DEF ChooseOutcome, outcome_for, FailPaths, Reasons
    <2>2. UNCHANGED <<state, cancelWinner, path, unwound, completion, closed>>
      BY <1>1 DEF ChooseOutcome, controlVars, cancelVars, channelVars
    <2>3. outcome' \in LoopOutcomes
      BY <1>1 DEF ChooseOutcome, outcome_for, FailPaths, Failures, LoopOutcomes, Reasons
    <2> QED BY <1>1, <2>1, <2>2, <2>3 DEF ChooseOutcome
  <1>2. CASE Seal
    <2>1. /\ pc = "Sealing" /\ state' = "FINISHED" /\ verdict' = FinishSeal
          /\ UNCHANGED <<cancelWinner, path, unwound, completion, closed>>
      BY <1>2 DEF Seal, finish_once, channelVars
    <2>2. CASE unwound = "Tail"
      <3>1. pc' = "Exit" /\ UNCHANGED outcome
        BY <1>2, <2>1, <2>2 DEF Seal, AlreadyFinished
      <3> QED BY <2>1, <2>2, <3>1 DEF OutcomeDecided
    <2>3. CASE unwound = "Running"
      <3>1. pc' = "Finished" /\ completion = {} /\ outcome' \in LoopOutcomes
        BY <1>2, <2>1, <2>3 DEF Seal, AlreadyFinished, LoopOutcomes, Failures, FailPaths
      <3> QED BY <2>1, <2>3, <3>1
    <2>4. CASE unwound = "No"
      <3>1. state # "FINISHED" /\ pc' = "Finishing" /\ outcome' = SealedOutcome(verdict')
        BY <1>2, <2>1, <2>4 DEF Seal, AlreadyFinished
      <3>2. OutcomeDecided'
        <4>1. state \in Reasons \cup {"NONE"}
          BY <3>1 DEF ControlInv, ControlTypeOK, States
        <4>2. CASE state \in Reasons
          <5>1. verdict' = state /\ cancelWinner = {state}
            BY <2>1, <4>2 DEF FinishSeal, Reasons, ControlInv, StateMatchesWinner
          <5> QED BY <2>1, <3>1, <4>2, <5>1 DEF SealedOutcome, OutcomeDecided
        <4>3. CASE state = "NONE"
          <5>1. verdict' = "Clean" /\ cancelWinner = {} /\ outcome \notin Reasons
            BY <2>1, <2>4, <4>3 DEF FinishSeal, ControlInv, StateMatchesWinner
          <5> QED BY <2>1, <3>1, <5>1 DEF SealedOutcome, OutcomeDecided, Reasons
        <4> QED BY <4>1, <4>2, <4>3
      <3>3. outcome' \in LoopOutcomes
        BY <3>1 DEF SealedOutcome, LoopOutcomes
      <3> QED BY <2>1, <2>4, <3>1, <3>2, <3>3
    <2> QED BY <2>2, <2>3, <2>4
  <1>3. CASE PublishFinishing \/ PublishFinished
    <2>1. /\ pc \in {"Finishing", "Finished"} /\ pc' \in {"Finished", "Deliver"}
          /\ UNCHANGED <<state, cancelWinner, path, outcome, unwound, completion, closed>>
      BY <1>3 DEF PublishFinishing, PublishFinished, Goto, publish, controlVars, cancelVars, endVars
    <2> QED BY <2>1 DEF OutcomeDecided
  <1>4. CASE Deliver
    <2>1. /\ pc = "Deliver" /\ pc' = IF unwound = "No" THEN "Notify" ELSE "Release"
          /\ completion' = {Report} /\ Report.outcome = outcome
          /\ UNCHANGED <<state, cancelWinner, path, outcome, unwound, closed>>
      BY <1>4 DEF Deliver, Goto, controlVars, cancelVars, endVars, Report
    <2> HIDE DEF Report
    <2>2. \A r \in completion' : r.outcome = outcome'
      BY <2>1
    <2> QED BY <2>1, <2>2 DEF OutcomeDecided
  <1>5. CASE Notify \/ Release
    <2>1. /\ pc \in {"Notify", "Release"} /\ pc' \in {"Release", "Exit"}
          /\ unwound = "Running" => pc = "Release"
          /\ UNCHANGED <<state, cancelWinner, path, outcome, unwound, completion, closed>>
      BY <1>5 DEF Notify, Release, release_token, Goto, controlVars, cancelVars, channelVars, endVars
    <2> QED BY <2>1 DEF OutcomeDecided
  <1>6. CASE Exit
    <2>1. /\ pc = "Exit" /\ pc' = "Done" /\ closed' = TRUE
          /\ UNCHANGED <<state, cancelWinner, path, outcome, unwound, completion>>
      BY <1>6 DEF Exit, Goto, controlVars, cancelVars, endVars
    <2> QED BY <2>1 DEF OutcomeDecided
  <1> QED BY <1>1, <1>2, <1>3, <1>4, <1>5, <1>6 DEF EndStep

\* Panics and an abort.
LEMMA FaultsKeepEnd == ASSUME EndInv, Faults PROVE EndInv'
  <1> USE DEF EndInv, UnwoundInv, SealedAt, ReportedAt
  <1>1. CASE BoundaryPanics \/ PortPanics
    <2>1. /\ pc \in {"Top", "BoundaryF", "Prepare", "Model", "Policy", "Port"}
          /\ pc' = "Sealing" /\ unwound' = "Running"
          /\ UNCHANGED <<state, cancelWinner, path, outcome, completion, closed>>
      BY <1>1 DEF BoundaryPanics, PortPanics, Unwind, take_config, controlVars, cancelVars,
                  channelVars
    <2> QED BY <2>1
  <1>2. CASE TailPanics
    <2>1. /\ pc = "Exit" /\ unwound = "No" /\ pc' = "Sealing" /\ unwound' = "Tail"
          /\ UNCHANGED <<state, cancelWinner, path, outcome, completion, closed>>
      BY <1>2 DEF TailPanics, Unwind, controlVars, cancelVars, channelVars
    <2> QED BY <2>1 DEF OutcomeDecided
  <1>3. CASE TaskAborted
    <2>1. /\ pc \in Awaits /\ pc' = "Aborted" /\ closed' = TRUE
          /\ UNCHANGED <<state, cancelWinner, path, outcome, unwound, completion>>
      BY <1>3 DEF TaskAborted, Goto, controlVars, cancelVars, endVars
    <2> QED BY <2>1 DEF Awaits
  <1> QED BY <1>1, <1>2, <1>3 DEF Faults

\* Handles may cancel, but not once the state word says FINISHED.
LEMMA HandlesKeepEnd == ASSUME EndInv, ControlInv, HandleCalls PROVE EndInv'
  <1>1. UNCHANGED <<pc, path, outcome, unwound, completion, closed>>
    BY DEF HandleCalls, runnerVars, endVars, channelVars
  <1>2. \/ UNCHANGED <<state, cancelWinner>>
        \/ state = "NONE" /\ state' \in Reasons
    BY DEF HandleCalls, HandleStep, mark_cancel, cancel_token, commit_update, begin_update, answer,
           cancelVars
  <1>3. CASE UNCHANGED <<state, cancelWinner>>
    BY <1>1, <1>3 DEF EndInv, UnwoundInv, SealedAt, ReportedAt, OutcomeDecided
  <1>4. CASE state = "NONE" /\ state' \in Reasons
    BY <1>1, <1>4 DEF EndInv, UnwoundInv, SealedAt, ReportedAt, OutcomeDecided, Reasons
  <1> QED BY <1>2, <1>3, <1>4

\* The ending's invariant is inductive relative to the control plane's.
LEMMA EndInvStep == EndInv /\ ControlInv /\ [Next]_vars => EndInv'
  <1> SUFFICES ASSUME EndInv, ControlInv, [Next]_vars PROVE EndInv'
    OBVIOUS
  <1>1. CASE RequestStep \/ ToolStep
    BY <1>1, RequestWorks, BatchWorks, WorkKeepsEnd
  <1>2. CASE EndStep
    BY <1>2, EndStepKeepsEnd
  <1>3. CASE Faults
    BY <1>3, FaultsKeepEnd
  <1>4. CASE HandleCalls
    BY <1>4, HandlesKeepEnd
  <1>5. CASE \/ DeadlinePasses \/ Terminated \/ UNCHANGED vars
             \/ \E w \in Waiters : WaitCalled(w) \/ WaiterStep(w)
    <2>1. UNCHANGED <<controlVars, runnerVars>>
      BY <1>5 DEF DeadlinePasses, WaitCalled, WaiterStep, WaitChecks, WaitWakes, Terminated, vars
    <2> QED BY <2>1 DEF controlVars, cancelVars, runnerVars, endVars, channelVars,
                        EndInv, UnwoundInv, SealedAt, ReportedAt, OutcomeDecided
  <1> QED BY <1>1, <1>2, <1>3, <1>4, <1>5 DEF Next, RunnerStep

\* The ending's invariant holds in every behaviour.
THEOREM EndingSafety == Spec => []EndInv
  BY EndInit, EndInvStep, LoopControlSafety, PTL DEF Spec

\* A report says Cancelled(reason) exactly when the call with that reason won, for
\* every interleaving of cancel calls with the ending (runner panics aside).
THEOREM WinnerIsReported == Spec => []ReportHonoursCancel
  <1>1. EndInv => ReportHonoursCancel
    BY DEF EndInv, SealedAt, ReportedAt, OutcomeDecided, ReportHonoursCancel
  <1> QED BY <1>1, EndingSafety, PTL

\* The report, once delivered, is never replaced, not even when the runner panics
\* while it drops its locals.
THEOREM OneReport == Spec => ReportIsFinal
  <1>1. EndInv /\ [Next]_vars => [completion # {} => completion' = completion]_vars
    <2> SUFFICES ASSUME EndInv, [Next]_vars, completion # {} PROVE completion' = completion
      OBVIOUS
    <2>1. ReportedAt
      BY DEF EndInv
    <2>2. CASE RequestStep \/ ToolStep
      BY <2>1, <2>2, RequestWorks, BatchWorks DEF Works, Breaks, endingVars, ReportedAt
    <2>3. CASE EndStep
      BY <2>1, <2>3 DEF EndStep, ReportedAt, ChooseOutcome, Seal, PublishFinishing,
                        PublishFinished, Deliver, Notify, Release, Exit, publish, channelVars
    <2>4. CASE Faults
      BY <2>4 DEF Faults, BoundaryPanics, PortPanics, TailPanics, TaskAborted, channelVars
    <2>5. CASE HandleCalls
      BY <2>5 DEF HandleCalls, runnerVars, channelVars
    <2>6. CASE \/ DeadlinePasses \/ Terminated \/ UNCHANGED vars
               \/ \E w \in Waiters : WaitCalled(w) \/ WaiterStep(w)
      BY <2>6 DEF DeadlinePasses, WaitCalled, WaiterStep, WaitChecks, WaitWakes, Terminated, vars,
                  runnerVars, channelVars
    <2> QED BY <2>2, <2>3, <2>4, <2>5, <2>6 DEF Next, RunnerStep
  <1> QED BY <1>1, EndingSafety, PTL DEF Spec, ReportIsFinal

-----------------------------------------------------------------------------
(* The loop implements LoopContract when host code does not panic. *)

\* Without such panics run_loop_inner never unwinds.
NoUnwind == ~HostPanics => unwound = "No"

\* Without host panics the runner never unwinds.
LEMMA NoUnwindStep == NoUnwind /\ EndInv /\ [Next]_vars => NoUnwind'
  <1> SUFFICES ASSUME NoUnwind, EndInv, [Next]_vars PROVE NoUnwind'
    OBVIOUS
  <1> USE DEF NoUnwind, Goto, endVars
  <1>1. CASE RequestStep \/ ToolStep
    BY <1>1, RequestWorks, BatchWorks DEF Works, Breaks, endingVars
  <1>2. CASE EndStep
    BY <1>2 DEF EndStep, ChooseOutcome, Seal, PublishFinishing, PublishFinished, Deliver, Notify,
                Release, Exit
  <1>3. CASE Faults
    BY <1>3 DEF Faults, BoundaryPanics, PortPanics, TailPanics, TaskAborted
  <1>4. CASE \/ HandleCalls \/ DeadlinePasses \/ Terminated \/ UNCHANGED vars
             \/ \E w \in Waiters : WaitCalled(w) \/ WaiterStep(w)
    BY <1>4 DEF HandleCalls, DeadlinePasses, WaitCalled, WaiterStep, WaitChecks, WaitWakes,
                Terminated, vars, runnerVars
  <1> QED BY <1>1, <1>2, <1>3, <1>4 DEF Next, RunnerStep

\* The state of the contract that a state of the loop stands for.
SealedWith == IF state = "FINISHED" THEN {outcome} ELSE {}
ReportWith == {r.outcome : r \in completion}
mappedVars == <<cancelWinner, SealedWith, ReportWith, closed>>

\* Steps that change nothing the contract sees.
LEMMA NothingSeen ==
  ASSUME EndInv, UNCHANGED <<cancelWinner, completion, closed, state>>,
         state = "FINISHED" => outcome' = outcome
  PROVE  UNCHANGED mappedVars
  BY DEF mappedVars, SealedWith, ReportWith

\* Every step of the loop is a step of the contract, or invisible to it.
LEMMA ContractStep ==
  ASSUME EndInv, EndInv', ControlInv, unwound = "No", unwound' = "No", [Next]_vars
  PROVE  [Contract!ContractNext]_mappedVars
  <1> USE DEF SealedWith, ReportWith
  <1>1. CASE RequestStep \/ ToolStep
    BY <1>1, RequestWorks, BatchWorks, NothingSeen DEF Works, Breaks, endingVars
  <1>2. CASE ChooseOutcome
    <2>1. state # "FINISHED" /\ UNCHANGED <<cancelWinner, completion, closed, state>>
      BY <1>2 DEF ChooseOutcome, EndInv, SealedAt, controlVars, cancelVars, channelVars
    <2> QED BY <2>1, NothingSeen
  <1>3. CASE Seal
    <2>1. /\ pc = "Sealing" /\ state # "FINISHED" /\ state' = "FINISHED"
          /\ UNCHANGED <<cancelWinner, completion, closed>>
      BY <1>3 DEF Seal, finish_once, channelVars, EndInv, SealedAt
    <2>2. OutcomeDecided' /\ outcome' \in LoopOutcomes
      BY <2>1 DEF EndInv
    <2>3. IF cancelWinner = {} THEN outcome' \notin Reasons ELSE outcome' \in cancelWinner
      BY <2>1, <2>2 DEF OutcomeDecided
    <2>4. SealedWith = {} /\ SealedWith' = {outcome'} /\ ReportWith' = ReportWith
      BY <2>1
    <2>5. Contract!Seal(outcome')
      BY <2>1, <2>3, <2>4 DEF Contract!Seal, Contract!CancelReasons, Reasons
    <2> QED BY <2>2, <2>5 DEF Contract!ContractNext
  <1>4. CASE Deliver
    <2>1. /\ state = "FINISHED" /\ completion = {} /\ ~closed
          /\ completion' = {Report} /\ Report.outcome = outcome
          /\ UNCHANGED <<cancelWinner, state, outcome, closed>>
      BY <1>4 DEF Deliver, Goto, controlVars, cancelVars, endVars, Report, EndInv, SealedAt,
                  ReportedAt
    <2> HIDE DEF Report
    <2>2. ReportWith = {} /\ ReportWith' = {outcome} /\ SealedWith = {outcome}
          /\ SealedWith' = SealedWith
      BY <2>1
    <2>3. Contract!Publish
      BY <2>1, <2>2 DEF Contract!Publish
    <2> QED BY <2>3 DEF Contract!ContractNext
  <1>5. CASE Exit
    <2>1. /\ state = "FINISHED" /\ completion # {} /\ ~closed /\ closed' = TRUE
          /\ \A r \in completion : r.outcome = outcome
          /\ UNCHANGED <<cancelWinner, state, outcome, completion>>
      BY <1>5 DEF Exit, Goto, controlVars, cancelVars, endVars, EndInv, SealedAt, ReportedAt
    <2>2. ReportWith = {outcome} /\ SealedWith = {outcome} /\ UNCHANGED <<ReportWith, SealedWith>>
      BY <2>1
    <2>3. Contract!Vanish
      BY <2>1, <2>2 DEF Contract!Vanish
    <2> QED BY <2>3 DEF Contract!ContractNext
  <1>6. CASE PublishFinishing \/ PublishFinished \/ Notify \/ Release
    <2>1. UNCHANGED <<cancelWinner, completion, closed, state, outcome>>
      BY <1>6 DEF PublishFinishing, PublishFinished, Notify, Release, release_token, Goto, publish,
                  controlVars, cancelVars, channelVars, endVars
    <2> QED BY <2>1, NothingSeen
  <1>7. CASE TaskAborted
    <2>1. /\ state # "FINISHED" /\ completion = {} /\ ~closed /\ closed' = TRUE
          /\ UNCHANGED <<cancelWinner, state, completion>>
      BY <1>7 DEF TaskAborted, Awaits, controlVars, cancelVars, EndInv, SealedAt, ReportedAt
    <2>2. ReportWith = {} /\ SealedWith = {} /\ UNCHANGED <<ReportWith, SealedWith>>
      BY <2>1
    <2>3. Contract!Vanish
      BY <2>1, <2>2 DEF Contract!Vanish
    <2> QED BY <2>3 DEF Contract!ContractNext
  <1>8. CASE Faults /\ ~TaskAborted
    BY <1>8 DEF Faults, BoundaryPanics, PortPanics, TailPanics, Unwind
  <1>9. CASE HandleCalls
    <2>1. UNCHANGED <<outcome, completion, closed>>
      BY <1>9 DEF HandleCalls, runnerVars, endVars, channelVars
    <2>2. \/ UNCHANGED <<state, cancelWinner>>
          \/ \E reason \in Reasons : mark_cancel(reason)
      BY <1>9 DEF HandleCalls, HandleStep, cancel_token, commit_update, begin_update, answer,
                  cancelVars
    <2>3. ASSUME NEW reason \in Reasons, mark_cancel(reason) PROVE Contract!ContractNext
      <3>1. state = "NONE" /\ state' # "FINISHED" /\ cancelWinner' = {reason}
        BY <2>3 DEF mark_cancel, Reasons
      <3>2. cancelWinner = {}
        BY <3>1 DEF ControlInv, StateMatchesWinner
      <3>3. SealedWith = {} /\ SealedWith' = {} /\ ReportWith' = ReportWith
        BY <2>1, <3>1
      <3>4. Contract!Cancel(reason)
        BY <2>1, <3>1, <3>2, <3>3 DEF Contract!Cancel
      <3> QED BY <3>4 DEF Contract!ContractNext, Contract!CancelReasons, Reasons
    <2> QED BY <2>1, <2>2, <2>3, NothingSeen
  <1>10. CASE \/ DeadlinePasses \/ Terminated \/ UNCHANGED vars
              \/ \E w \in Waiters : WaitCalled(w) \/ WaiterStep(w)
    <2>1. UNCHANGED <<cancelWinner, completion, closed, state, outcome>>
      BY <1>10 DEF DeadlinePasses, WaitCalled, WaiterStep, WaitChecks, WaitWakes, Terminated, vars,
                   runnerVars, controlVars, cancelVars, endVars, channelVars
    <2> QED BY <2>1, NothingSeen
  <1> QED BY <1>1, <1>2, <1>3, <1>4, <1>5, <1>6, <1>7, <1>8, <1>9, <1>10
          DEF Next, RunnerStep, EndStep, Faults

\* One winner, one seal that honours it, one report that says so, before the task
\* is gone: the loop implements the contract for every host that does not panic
\* inside the runner.
THEOREM LoopImplementsContract == ~HostPanics /\ Spec => ImplementsContract
  <1> SUFFICES ASSUME ~HostPanics PROVE Spec => ImplementsContract
    OBVIOUS
  <1>1. Init => Contract!ContractInit /\ NoUnwind
    BY DEF Init, ControlInit, Contract!ContractInit, NoUnwind
  <1>2. Spec => []NoUnwind
    BY <1>1, NoUnwindStep, EndingSafety, PTL DEF Spec
  <1>3. NoUnwind /\ NoUnwind' /\ EndInv /\ EndInv' /\ ControlInv /\ [Next]_vars
          => [Contract!ContractNext]_(Contract!contractVars)
    <2>1. mappedVars = Contract!contractVars /\ mappedVars' = Contract!contractVars'
      BY DEF mappedVars, SealedWith, ReportWith, Contract!contractVars
    <2> QED BY <2>1, ContractStep DEF NoUnwind
  <1>4. Spec => [][Contract!ContractNext]_(Contract!contractVars)
    BY <1>2, <1>3, EndingSafety, LoopControlSafety, PTL DEF Spec
  <1>5. Spec => Contract!ContractInit
    BY <1>1, PTL DEF Spec
  <1> QED BY <1>4, <1>5, PTL DEF ImplementsContract, Contract!Spec

-----------------------------------------------------------------------------
(* Interactions. *)

\* A step of a runner that neither asks nor has asked.
NotAsking ==
  /\ pc \notin Asking \cup {"Aborted"} /\ pc' \notin Asking \cup {"Aborted"}
  /\ interaction' = interaction
  /\ path' = path \/ path' \in FailPaths \ {"Interaction"}

\* Such a step keeps the slot as it is.
LEMMA NotAskingKeeps == ASSUME InteractionNeverLost, NotAsking PROVE InteractionNeverLost'
  BY DEF InteractionNeverLost, NotAsking

\* The request loop never asks.
LEMMA RequestNotAsking == ASSUME RequestStep PROVE NotAsking
  <1> USE DEF NotAsking, Asking, FailPaths, Goto, BreakWith, endVars
  <1>1. CASE StartRunner \/ StopAtTop
    BY <1>1 DEF StartRunner, StopAtTop, controlVars, interactionVars
  <1>2. ASSUME NEW k \in 0 .. MaxInputs, BoundaryA(k) \/ BoundaryF(k) PROVE NotAsking
    BY <1>2 DEF BoundaryA, BoundaryF, take_boundary, take_config, interactionVars
  <1>3. CASE PromptReady \/ PromptEnds \/ BuildFails
    BY <1>3 DEF PromptReady, PromptEnds, BuildFails, controlVars, interactionVars
  <1>4. CASE Issue
    BY <1>4 DEF Issue, commit_revision, interactionVars
  <1>5. CASE ModelFails
    BY <1>5 DEF ModelFails, controlVars, interactionVars
  <1>6. ASSUME NEW p \in {"Completed", "OutputLimit", "Refused", "ContentFiltered"}, ModelFinal(p)
        PROVE  NotAsking
    BY <1>6 DEF ModelFinal, begin_final, controlVars, interactionVars
  <1>7. ASSUME NEW cs \in ToolCallLists, ToolRoundLimit(cs) \/ BeginBatch(cs) PROVE NotAsking
    BY <1>7 DEF ToolRoundLimit, BeginBatch, controlVars, interactionVars
  <1> QED BY <1>1, <1>2, <1>3, <1>4, <1>5, <1>6, <1>7 DEF RequestStep

\* The steps of a batch.
LEMMA BatchKeepsInteraction ==
  ASSUME InteractionNeverLost, ToolStep PROVE InteractionNeverLost'
  <1> USE DEF Asking, FailPaths, Goto, BreakWith, Proceed, Settle, EndBatch, endVars
  <1>1. CASE BatchDone \/ BatchCancelled \/ StartCall \/ PolicyAllows \/ PolicyDenies
    BY <1>1, NotAskingKeeps DEF BatchDone, BatchCancelled, StartCall, PolicyAllows, PolicyDenies,
                                NotAsking, controlVars, interactionVars
  <1>2. CASE PolicyEnds \/ ToolEnds \/ \E result \in {"Success", "Failed"} : ToolSettles(result)
    BY <1>2, NotAskingKeeps DEF PolicyEnds, ToolEnds, ToolSettles, NotAsking, controlVars,
                                interactionVars
  <1>3. CASE PolicyAsks \/ ToolAsks
    <2>1. interaction = {}
      BY <1>3 DEF PolicyAsks, ToolAsks, InteractionNeverLost
    <2>2. \E kind \in Kinds : set_interaction(kind) /\ pc' \in Asking /\ path' = path
      BY <1>3, <2>1 DEF PolicyAsks, ToolAsks, wait_interaction, Kinds
    <2> QED BY <2>2 DEF set_interaction, InteractionNeverLost
  <1>4. CASE ShowInteraction
    BY <1>4 DEF ShowInteraction, InteractionNeverLost, controlVars, interactionVars
  <1>5. ASSUME NEW value \in Answers, ApprovalAnswered(value) \/ InputAnswered(value)
        PROVE  InteractionNeverLost'
    <2>1. /\ interaction' = {} /\ pc' \in {"Port", "Tools", "Ending"}
          /\ path' = path \/ path' = "Internal"
      BY <1>5 DEF ApprovalAnswered, InputAnswered, Resolved, take_interaction
    <2> QED BY <2>1 DEF InteractionNeverLost
  <1>6. CASE WaitEnds
    <2>1. interaction # {} \/ reply # {}
      BY <1>6 DEF WaitEnds, InteractionNeverLost
    <2>2. interaction' = {} /\ pc' = "Ending" /\ path' \in {"Cancelled", "Deadline"}
      BY <1>6, <2>1 DEF WaitEnds, WaitPaths, take_interaction
    <2> QED BY <2>2 DEF InteractionNeverLost
  <1> QED BY <1>1, <1>2, <1>3, <1>4, <1>5, <1>6 DEF ToolStep

\* InteractionNeverLost is inductive by itself.
LEMMA NeverLostStep == ASSUME InteractionNeverLost, [Next]_vars PROVE InteractionNeverLost'
  <1>1. CASE RequestStep
    BY <1>1, RequestNotAsking, NotAskingKeeps
  <1>2. CASE ToolStep
    BY <1>2, BatchKeepsInteraction
  <1>3. CASE EndStep
    BY <1>3, NotAskingKeeps
    DEF EndStep, ChooseOutcome, Seal, finish_once, PublishFinishing, PublishFinished, Deliver,
        Notify, Release, release_token, Exit, Goto, endVars, NotAsking, Asking, controlVars,
        interactionVars
  <1>4. CASE BoundaryPanics \/ PortPanics \/ TailPanics
    BY <1>4, NotAskingKeeps
    DEF BoundaryPanics, take_config, PortPanics, TailPanics, Unwind, NotAsking, Asking, controlVars,
        interactionVars
  <1>5. CASE TaskAborted
    BY <1>5 DEF TaskAborted, Goto, endVars, Asking, InteractionNeverLost
  <1>6. CASE HandleCalls
    <2>1. UNCHANGED <<pc, path>>
      BY <1>6 DEF HandleCalls, runnerVars, endVars
    <2>2. UNCHANGED <<interaction, reply>> \/ (interaction' = {} /\ reply' # {})
      BY <1>6 DEF HandleCalls, HandleStep, mark_cancel, cancel_token, commit_update, begin_update,
                  answer, interactionVars
    <2> QED BY <2>1, <2>2 DEF InteractionNeverLost
  <1>7. CASE \/ DeadlinePasses \/ Terminated \/ UNCHANGED vars
             \/ \E w \in Waiters : WaitCalled(w) \/ WaiterStep(w)
    <2>1. UNCHANGED <<pc, path, interaction, reply>>
      BY <1>7 DEF DeadlinePasses, WaitCalled, WaiterStep, WaitChecks, WaitWakes, Terminated, vars,
                  runnerVars, controlVars, interactionVars, endVars
    <2> QED BY <2>1 DEF InteractionNeverLost
  <1> QED BY <1>1, <1>2, <1>3, <1>4, <1>5, <1>6, <1>7 DEF Next, RunnerStep, Faults

\* A waiting runner always has its slot or its reply, and no slot outlives the
\* question: the Busy and the lost-sender error paths are dead code.
THEOREM InteractionsAreNotLost == Spec => []InteractionNeverLost
  <1>1. Init => InteractionNeverLost
    BY DEF Init, ControlInit, InteractionNeverLost, Asking
  <1>2. InteractionNeverLost /\ [Next]_vars => InteractionNeverLost'
    BY NeverLostStep
  <1> QED BY <1>1, <1>2, PTL DEF Spec

-----------------------------------------------------------------------------
(* The history, and the prompts prepared from it. *)

\* The types of what the runner appends from.
HistoryInv ==
  /\ appended \in Seq(Items)
  /\ taken \in Nat /\ requestIndex \in Nat
  /\ Len(calls) \in Nat /\ callIx \in Nat \ {0}

\* A step that appends items to the history (perhaps none).
Extends == \E s \in Seq(Items) : appended' = appended \o s
counters == <<taken, requestIndex, calls, callIx>>

\* Appending keeps the types and what was there.
LEMMA ExtendsGrows ==
  ASSUME HistoryInv, Extends \/ UNCHANGED appended
  PROVE  /\ appended' \in Seq(Items)
         /\ Len(appended') >= Len(appended)
         /\ \A i \in DOMAIN appended : appended'[i] = appended[i]
  <1>1. CASE Extends
    <2> PICK s \in Seq(Items) : appended' = appended \o s
      BY <1>1 DEF Extends
    <2>1. appended \in Seq(Items)
      BY DEF HistoryInv
    <2>2. Len(appended) \in Nat /\ Len(s) \in Nat /\ DOMAIN appended = 1 .. Len(appended)
      BY <2>1
    <2>3. /\ appended \o s \in Seq(Items)
          /\ Len(appended \o s) = Len(appended) + Len(s)
          /\ \A i \in 1 .. Len(appended) : (appended \o s)[i] = appended[i]
      BY <2>1
    <2>4. Len(appended') >= Len(appended)
      <3>1. \A m, n \in Nat : m + n >= m
        OBVIOUS
      <3>2. Len(appended) + Len(s) >= Len(appended)
        BY <2>2, <3>1
      <3>3. Len(appended') = Len(appended) + Len(s)
        BY <2>3
      <3> QED BY ONLY <3>2, <3>3
    <2>5. \A i \in DOMAIN appended : appended'[i] = appended[i]
      BY <2>2, <2>3
    <2> QED BY <2>3, <2>4, <2>5
  <1>2. CASE UNCHANGED appended
    BY <1>2 DEF HistoryInv
  <1> QED BY <1>1, <1>2

\* An item is appended.
LEMMA OneItem ==
  ASSUME HistoryInv, NEW item \in Items, appended' = Append(appended, item)
  PROVE  Extends
  <1>1. Append(appended, item) = appended \o <<item>> /\ <<item>> \in Seq(Items)
    BY DEF HistoryInv
  <1> QED BY <1>1 DEF Extends

\* The results of settled calls are items.
LEMMA SettledAreItems ==
  ASSUME HistoryInv, NEW first \in Nat \ {0}, NEW last \in Nat, NEW result \in ResultOutcomes
  PROVE  SettledCalls(first, last, result) \in Seq(Items)
  <1> DEFINE n == IF last + 1 >= first THEN last + 1 - first ELSE 0
  <1>1. n \in Nat /\ 1 .. (last + 1 - first) = 1 .. n
    OBVIOUS
  <1>2. \A i \in 1 .. n : ResultItem(requestIndex, first + i - 1, result) \in Items
    BY <1>1 DEF ResultItem, Items, HistoryInv
  <1>3. SettledCalls(first, last, result) \in [1 .. n -> Items]
    BY <1>1, <1>2 DEF SettledCalls
  <1> QED BY <1>1, <1>3

\* So are the inputs a boundary takes; handing over nothing changes nothing.
LEMMA InputsAreItems ==
  ASSUME HistoryInv, NEW k \in Nat
  PROVE  /\ InputItems(k) \in Seq(Items)
         /\ k = 0 => appended \o InputItems(k) = appended
  <1>1. \A i \in 1 .. k : UserItem("Steering", taken + i) \in Items
    BY DEF UserItem, Items, HistoryInv
  <1>2. InputItems(k) \in [1 .. k -> Items]
    BY <1>1 DEF InputItems
  <1>3. ASSUME k = 0 PROVE appended \o InputItems(k) = appended
    <2>1. InputItems(k) = << >>
      BY <1>3 DEF InputItems
    <2> QED BY <2>1 DEF HistoryInv
  <1> QED BY <1>2, <1>3

\* A response has a number of calls.
LEMMA CallsAreCounted == ASSUME NEW cs \in ToolCallLists PROVE Len(cs) \in Nat
  <1> PICK n \in 1 .. MaxCalls : cs \in [1 .. n -> ToolsOf[snapshot]]
    BY DEF ToolCallLists
  <1>1. n \in Nat /\ cs \in Seq(ToolsOf[snapshot])
    OBVIOUS
  <1> QED BY <1>1

\* The request loop appends inputs, assistant messages and refused calls.
LEMMA RequestHistory ==
  ASSUME HistoryInv, RequestStep PROVE HistoryInv' /\ (Extends \/ UNCHANGED appended)
  <1> USE DEF historyVars, batchVars, requestVars
  <1>1. CASE StartRunner
    <2>1. UserItem("Prompt", 0) \in Items
      BY DEF UserItem, Items
    <2>2. Extends
      BY <1>1, <2>1, OneItem DEF StartRunner
    <2> QED BY <1>1, <2>2, ExtendsGrows DEF StartRunner, HistoryInv
  <1>2. CASE StopAtTop \/ PromptReady \/ PromptEnds \/ BuildFails \/ ModelFails
    BY <1>2 DEF StopAtTop, PromptReady, PromptEnds, BuildFails, ModelFails, HistoryInv
  <1>3. ASSUME NEW k \in 0 .. MaxInputs, BoundaryA(k) \/ BoundaryF(k)
        PROVE  HistoryInv' /\ Extends
    <2>0. k \in Nat
      BY LoopAssumption
    <2>1. appended' = appended \o InputItems(k) /\ taken' = taken + k
      BY <1>3 DEF BoundaryA, BoundaryF, take_boundary
    <2>2. Extends
      BY <2>0, <2>1, InputsAreItems DEF Extends
    <2>3. UNCHANGED <<requestIndex, calls, callIx>>
      BY <1>3 DEF BoundaryA, BoundaryF
    <2> QED BY <2>1, <2>2, <2>3, ExtendsGrows DEF HistoryInv
  <1>4. CASE Issue
    BY <1>4 DEF Issue, HistoryInv
  <1>5. ASSUME NEW p \in {"Completed", "OutputLimit", "Refused", "ContentFiltered"}, ModelFinal(p)
        PROVE  HistoryInv' /\ Extends
    <2>1. AssistantItem(requestIndex, 0) \in Items
      BY DEF AssistantItem, Items, HistoryInv
    <2>2. Extends
      BY <1>5, <2>1, OneItem DEF ModelFinal
    <2> QED BY <1>5, <2>2, ExtendsGrows DEF ModelFinal, HistoryInv
  <1>6. ASSUME NEW cs \in ToolCallLists, ToolRoundLimit(cs) \/ BeginBatch(cs)
        PROVE  HistoryInv' /\ Extends
    <2> DEFINE assistant == AssistantItem(requestIndex, Len(cs))
    <2>1. Len(cs) \in Nat
      BY CallsAreCounted
    <2>2. assistant \in Items
      BY <2>1 DEF AssistantItem, Items, HistoryInv
    <2>3. CASE ToolRoundLimit(cs)
      <3> DEFINE refused == SettledCalls(1, Len(cs), "Failed")
      <3>1. refused \in Seq(Items)
        BY <2>1, SettledAreItems DEF ResultOutcomes
      <3>2. appended' = Append(appended, assistant) \o refused /\ UNCHANGED counters
        BY <2>3 DEF ToolRoundLimit, counters
      <3> HIDE DEF assistant, refused
      <3>3. Append(appended, assistant) \o refused = appended \o (<<assistant>> \o refused)
        BY <2>2, <3>1 DEF HistoryInv
      <3>4. <<assistant>> \o refused \in Seq(Items)
        BY <2>2, <3>1
      <3>5. Extends
        BY <3>2, <3>3, <3>4 DEF Extends
      <3> QED BY <3>2, <3>5, ExtendsGrows DEF HistoryInv, counters
    <2>4. CASE BeginBatch(cs)
      <3>1. Extends
        BY <2>2, <2>4, OneItem DEF BeginBatch
      <3> QED BY <2>1, <2>4, <3>1, ExtendsGrows DEF BeginBatch, HistoryInv
    <2> QED BY <1>6, <2>3, <2>4
  <1> QED BY <1>1, <1>2, <1>3, <1>4, <1>5, <1>6 DEF RequestStep

\* A settled call appends its result.
LEMMA SettleHistory ==
  ASSUME HistoryInv, NEW result \in ResultOutcomes, Settle(result), UNCHANGED requestVars
  PROVE  HistoryInv' /\ Extends
  <1>1. ResultItem(requestIndex, callIx, result) \in Items
    BY DEF ResultItem, Items, HistoryInv
  <1>2. Extends
    BY <1>1, OneItem DEF Settle
  <1> QED BY <1>2, ExtendsGrows DEF Settle, HistoryInv, requestVars

\* An interrupted batch appends a Cancelled result for each call without one.
LEMMA EndBatchHistory ==
  ASSUME HistoryInv, NEW p, EndBatch(p), UNCHANGED requestVars
  PROVE  HistoryInv' /\ Extends
  <1>1. SettledCalls(callIx, Len(calls), "Cancelled") \in Seq(Items)
    BY SettledAreItems DEF HistoryInv, ResultOutcomes
  <1>2. Extends
    BY <1>1 DEF EndBatch, Extends
  <1> QED BY <1>2, ExtendsGrows DEF EndBatch, HistoryInv, requestVars, batchVars

\* The steps of a batch settle calls, end the batch or leave the history alone.
LEMMA BatchHistory ==
  ASSUME HistoryInv, ToolStep PROVE HistoryInv' /\ (Extends \/ UNCHANGED appended)
  <1> DEFINE Result == HistoryInv' /\ (Extends \/ UNCHANGED appended)
  <1>a. ASSUME NEW there, Proceed(there), UNCHANGED requestVars PROVE Result
    BY <1>a DEF Proceed, historyVars, batchVars, requestVars, HistoryInv
  <1>1. CASE BatchDone
    BY <1>1 DEF BatchDone, historyVars, batchVars, HistoryInv
  <1>2. CASE BatchCancelled
    BY <1>2, EndBatchHistory DEF BatchCancelled
  <1>3. CASE StartCall \/ PolicyAllows \/ ShowInteraction
    BY <1>3, <1>a DEF StartCall, PolicyAllows, ShowInteraction
  <1>4. CASE PolicyDenies \/ \E result \in {"Success", "Failed"} : ToolSettles(result)
    BY <1>4, SettleHistory DEF PolicyDenies, ToolSettles, ResultOutcomes
  <1>5. CASE PolicyAsks \/ ToolAsks
    BY <1>5, <1>a, EndBatchHistory DEF PolicyAsks, ToolAsks, wait_interaction
  <1>6. CASE PolicyEnds \/ ToolEnds \/ WaitEnds
    <2>1. (\E p : EndBatch(p)) /\ UNCHANGED requestVars
      BY <1>6 DEF PolicyEnds, ToolEnds, WaitEnds
    <2> QED BY <2>1, EndBatchHistory
  <1>7. ASSUME NEW value \in Answers, ApprovalAnswered(value) \/ InputAnswered(value)
        PROVE  Result
    <2>1. /\ \/ Proceed("Port") \/ EndBatch("Internal")
             \/ \E result \in {"Denied", "InputProvided", "Failed"} : Settle(result)
          /\ UNCHANGED requestVars
      BY <1>7 DEF ApprovalAnswered, InputAnswered
    <2> QED BY <2>1, <1>a, SettleHistory, EndBatchHistory DEF ResultOutcomes
  <1> QED BY <1>1, <1>2, <1>3, <1>4, <1>5, <1>6, <1>7 DEF ToolStep

\* The whole step.
LEMMA HistoryStep ==
  ASSUME HistoryInv, [Next]_vars PROVE HistoryInv' /\ (Extends \/ UNCHANGED appended)
  <1>1. CASE RequestStep
    BY <1>1, RequestHistory
  <1>2. CASE ToolStep
    BY <1>2, BatchHistory
  <1>3. CASE EndStep \/ Faults
    <2>1. UNCHANGED <<requestVars, batchVars, historyVars>>
      BY <1>3 DEF EndStep, ChooseOutcome, Seal, PublishFinishing, PublishFinished, Deliver,
                  Notify, Release, Exit, Faults, BoundaryPanics, PortPanics, TailPanics,
                  TaskAborted
    <2> QED BY <2>1 DEF HistoryInv, requestVars, batchVars, historyVars
  <1>4. CASE \/ HandleCalls \/ DeadlinePasses \/ Terminated \/ UNCHANGED vars
             \/ \E w \in Waiters : WaitCalled(w) \/ WaiterStep(w)
    <2>1. UNCHANGED runnerVars
      BY <1>4 DEF HandleCalls, DeadlinePasses, WaitCalled, WaiterStep, WaitChecks, WaitWakes,
                  Terminated, vars
    <2> QED BY <2>1 DEF HistoryInv, runnerVars, requestVars, batchVars, historyVars
  <1> QED BY <1>1, <1>2, <1>3, <1>4 DEF Next, RunnerStep

\* The initial state.
LEMMA HistoryInit == Init => HistoryInv
  BY DEF Init, HistoryInv

\* What the report of a loop is made of is never rewritten: a batch that is
\* interrupted settles its calls, it does not take them back.
THEOREM HistoryIsAppendOnly == Spec => HistoryGrows
  <1>1. HistoryInv /\ [Next]_vars => HistoryInv'
    BY HistoryStep
  <1>2. HistoryInv /\ [Next]_vars =>
          [/\ Len(appended') >= Len(appended)
           /\ \A i \in DOMAIN appended : appended'[i] = appended[i]]_vars
    BY HistoryStep, ExtendsGrows
  <1> QED BY HistoryInit, <1>1, <1>2, PTL DEF Spec, HistoryGrows

\* What the runner holds between the preparation of a prompt and its issue.
PromptInv ==
  /\ pc = "Prepare" => snapshot = config
  /\ pc \in {"BoundaryF", "Issue"} =>
       /\ snapshot = config
       /\ prompt = [length |-> Len(appended), config |-> config]

\* PromptInv is inductive, given HistoryInv: only the F-step, which makes the
\* prompt stale by what it takes, needs an argument.
LEMMA PromptStep == ASSUME HistoryInv, PromptInv, [Next]_vars PROVE PromptInv'
  <1> USE DEF PromptInv, Goto, BreakWith
  <1>1. CASE RequestStep
    <2>1. CASE StartRunner \/ StopAtTop \/ PromptEnds \/ BuildFails \/ Issue \/ ModelFails
      BY <1>1, <2>1 DEF StartRunner, StopAtTop, PromptEnds, BuildFails, Issue, ModelFails
    <2>2. CASE PromptReady
      BY <2>2 DEF PromptReady, historyVars
    <2>3. ASSUME NEW k \in 0 .. MaxInputs, BoundaryA(k) PROVE PromptInv'
      BY <2>3 DEF BoundaryA
    <2>4. ASSUME NEW k \in 0 .. MaxInputs, BoundaryF(k) PROVE PromptInv'
      <3>1. CASE Stale(k)
        BY <2>4, <3>1 DEF BoundaryF
      <3>2. CASE ~Stale(k)
        <4>1. k = 0 /\ pendingConfig = {}
          BY <3>2, LoopAssumption DEF Stale
        <4>2. UNCHANGED <<appended, config, snapshot, prompt>> /\ pc = "BoundaryF"
          BY <2>4, <4>1, InputsAreItems DEF BoundaryF, take_boundary
        <4>3. pc' = "Issue"
          BY <2>4, <3>2 DEF BoundaryF
        <4> QED BY <4>2, <4>3
      <3> QED BY <3>1, <3>2
    <2>5. ASSUME NEW p \in {"Completed", "OutputLimit", "Refused", "ContentFiltered"}, ModelFinal(p)
          PROVE  PromptInv'
      BY <2>5 DEF ModelFinal
    <2>6. ASSUME NEW cs \in ToolCallLists, ToolRoundLimit(cs) \/ BeginBatch(cs)
          PROVE  PromptInv'
      BY <2>6 DEF ToolRoundLimit, BeginBatch
    <2> QED BY <1>1, <2>1, <2>2, <2>3, <2>4, <2>5, <2>6 DEF RequestStep
  <1>2. CASE ToolStep
    BY <1>2
    DEF ToolStep, BatchDone, BatchCancelled, StartCall, PolicyAllows, PolicyDenies, PolicyAsks,
        PolicyEnds, ShowInteraction, ApprovalAnswered, InputAnswered, WaitEnds, ToolSettles,
        ToolAsks, ToolEnds, Proceed, Settle, EndBatch, wait_interaction
  <1>3. CASE EndStep \/ Faults
    BY <1>3
    DEF EndStep, ChooseOutcome, Seal, PublishFinishing, PublishFinished, Deliver, Notify, Release,
        Exit, Faults, BoundaryPanics, PortPanics, TailPanics, TaskAborted, Unwind
  <1>4. CASE \/ HandleCalls \/ DeadlinePasses \/ Terminated \/ UNCHANGED vars
             \/ \E w \in Waiters : WaitCalled(w) \/ WaiterStep(w)
    <2>1. UNCHANGED <<pc, requestVars, historyVars>>
      BY <1>4 DEF HandleCalls, DeadlinePasses, WaitCalled, WaiterStep, WaitChecks, WaitWakes,
                  Terminated, vars, runnerVars
    <2> QED BY <2>1 DEF requestVars, historyVars
  <1> QED BY <1>1, <1>2, <1>3, <1>4 DEF Next, RunnerStep

\* Whatever lands while a prompt is prepared, the request that goes out was
\* prepared from the history and the config it is issued with.
THEOREM NoRequestIsStale == Spec => []NoStaleRequest
  <1>1. Init => PromptInv
    BY DEF Init, PromptInv
  <1>2. HistoryInv /\ [Next]_vars => HistoryInv'
    BY HistoryStep
  <1>3. HistoryInv /\ PromptInv /\ [Next]_vars => PromptInv'
    BY PromptStep
  <1>4. PromptInv => NoStaleRequest
    BY DEF PromptInv, NoStaleRequest
  <1> QED BY HistoryInit, <1>1, <1>2, <1>3, <1>4, PTL DEF Spec
=============================================================================
