--------------------------- MODULE LoopControlProofs ---------------------------
(***************************************************************************)
(* Safety of the control plane, for every set of configs and threads, every *)
(* revision ceiling and any client that keeps to ControlNext.               *)
(***************************************************************************)
EXTENDS LoopControl, TLAPS

\* The three option-typed slots hold at most one element.
SlotsAreOptions ==
  /\ \A p, q \in pendingConfig : p = q
  /\ \A s, t \in interaction : s = t

\* The state word and the history of the winner advance together.
StateMatchesWinner ==
  /\ state = "NONE" => cancelWinner = {} /\ verdict = "Open"
  /\ state \in Reasons => cancelWinner = {state} /\ verdict = "Open"
  /\ state = "FINISHED" => verdict # "Open"

ControlInv ==
  /\ ControlTypeOK
  /\ SlotsAreOptions
  /\ StateMatchesWinner
  /\ VerdictMatchesWinner
  /\ SealedStaysClosed
  /\ TokenImpliesDecision
  /\ RevisionsOrdered
  /\ AnswerReachesOwnSlot

\* next stays within the revisions and never goes back.
LEMMA NextRevision ==
  ASSUME NEW r \in Revisions
  PROVE  /\ next(r) \in Revisions
         /\ next(r) >= r
         /\ next(r) = r => r = MaxRevision
  BY ControlAssumption DEF next, Revisions

\* The initial control plane satisfies the invariant.
LEMMA ControlInitInv == ControlInit => ControlInv
  <1> SUFFICES ASSUME ControlInit PROVE ControlInv
    OBVIOUS
  <1> USE DEF ControlInit
  <1>1. 0 \in Revisions /\ next(0) \in Revisions /\ next(0) = 1
    BY ControlAssumption DEF next, Revisions
  <1>2. ControlTypeOK
    BY <1>1 DEF ControlTypeOK, States, Verdicts
  <1>3. StateMatchesWinner /\ VerdictMatchesWinner
    BY DEF StateMatchesWinner, VerdictMatchesWinner, Reasons
  <1>4. SealedStaysClosed /\ TokenImpliesDecision
    BY DEF SealedStaysClosed, TokenImpliesDecision, is_active
  <1>5. SlotsAreOptions /\ RevisionsOrdered /\ AnswerReachesOwnSlot
    BY <1>1 DEF SlotsAreOptions, RevisionsOrdered, AnswerReachesOwnSlot
  <1> QED BY <1>2, <1>3, <1>4, <1>5 DEF ControlInv

\* Typing is kept by every operation.
LEMMA ControlTyping == ControlTypeOK /\ [ControlNext]_controlVars => ControlTypeOK'
  <1> SUFFICES ASSUME ControlTypeOK, [ControlNext]_controlVars
               PROVE  ControlTypeOK'
    OBVIOUS
  <1> USE DEF ControlTypeOK, cancelVars, configVars, interactionVars
  <1>1. ASSUME NEW reason \in Reasons, mark_cancel(reason) PROVE ControlTypeOK'
    BY <1>1 DEF mark_cancel, States, Reasons
  <1>2. CASE cancel_token
    BY <1>2 DEF cancel_token
  <1>3. ASSUME NEW u \in Updaters, commit_update(u) PROVE ControlTypeOK'
    <2> PICK config \in updating[u] : commit_update(u)!(config)
      BY <1>3 DEF commit_update
    <2>1. config \in Configs
      OBVIOUS
    <2>2. next(nextRevision) \in Revisions
      BY NextRevision
    <2>3. [revision |-> nextRevision, config |-> config] \in Pending
      BY <2>1 DEF Pending
    <2> QED BY <2>2, <2>3
  <1>4. ASSUME NEW u \in Updaters, NEW config \in Configs, begin_update(u, config)
        PROVE  ControlTypeOK'
    BY <1>4 DEF begin_update
  <1>5. ASSUME NEW id \in 1 .. slots, NEW value \in Answers, answer(id, value)
        PROVE  ControlTypeOK'
    BY <1>5 DEF answer, Replies
  <1>6. CASE take_config
    BY <1>6 DEF take_config, Pending
  <1>7. CASE begin_final
    BY <1>7 DEF begin_final
  <1>8. ASSUME NEW revision \in {currentRevision, takenRevision}, commit_revision(revision)
        PROVE  ControlTypeOK'
    BY <1>8 DEF commit_revision
  <1>9. CASE finish_once
    BY <1>9 DEF finish_once, FinishSeal, States, Verdicts, Reasons
  <1>10. CASE release_token
    BY <1>10 DEF release_token
  <1>11. ASSUME NEW kind \in Kinds, set_interaction(kind) PROVE ControlTypeOK'
    BY <1>11 DEF set_interaction, Slots
  <1>12. CASE take_interaction
    BY <1>12 DEF take_interaction
  <1>13. CASE UNCHANGED controlVars
    BY <1>13 DEF controlVars
  <1> QED
    BY <1>1, <1>2, <1>3, <1>4, <1>5, <1>6, <1>7, <1>8, <1>9, <1>10, <1>11, <1>12, <1>13
    DEF ControlNext, HandleStep, RunnerCall

\* One decision: the state word, the verdict, the winner and the token stay in
\* agreement, whoever runs between the CAS of a cancel and its token.
LEMMA DecisionStep ==
  ASSUME ControlInv, [ControlNext]_controlVars
  PROVE  /\ StateMatchesWinner'
         /\ VerdictMatchesWinner'
         /\ TokenImpliesDecision'
  <1> USE DEF ControlInv, StateMatchesWinner, VerdictMatchesWinner, TokenImpliesDecision,
              is_active, cancelVars
  <1>1. ASSUME NEW reason \in Reasons, mark_cancel(reason)
        PROVE  StateMatchesWinner' /\ VerdictMatchesWinner' /\ TokenImpliesDecision'
    BY <1>1 DEF mark_cancel, Reasons
  <1>2. CASE cancel_token
    BY <1>2 DEF cancel_token
  <1>3. CASE release_token
    BY <1>3 DEF release_token
  <1>4. CASE finish_once
    <2>1. state \in States
      BY DEF ControlTypeOK
    <2> QED BY <1>4, <2>1 DEF finish_once, FinishSeal, States, Reasons
  <1>5. CASE UNCHANGED cancelVars
    BY <1>5
  <1> QED
    BY <1>1, <1>2, <1>3, <1>4, <1>5
    DEF ControlNext, HandleStep, RunnerCall, commit_update, begin_update, answer, take_config,
        begin_final, commit_revision, set_interaction, take_interaction, controlVars

\* The config slot and the revisions: an update that reaches the lock late is
\* refused, one that is accepted is newer than everything before it.
LEMMA ConfigStep ==
  ASSUME ControlInv, [ControlNext]_controlVars
  PROVE  /\ SealedStaysClosed'
         /\ RevisionsOrdered'
         /\ \A p, q \in pendingConfig' : p = q
  <1> DEFINE Goal == /\ SealedStaysClosed'
                     /\ RevisionsOrdered'
                     /\ \A p, q \in pendingConfig' : p = q
  <1> USE DEF ControlInv, ControlTypeOK
  <1>0. /\ MaxRevision \in Nat
        /\ \A r \in Revisions : r \in Nat
        /\ \A p \in pendingConfig : p.revision \in Revisions
        /\ \A p, q \in pendingConfig : p = q
    BY ControlAssumption DEF Revisions, Pending, SlotsAreOptions
  <1>1. ASSUME NEW reason \in Reasons, mark_cancel(reason) PROVE Goal
    BY <1>0, <1>1
    DEF mark_cancel, configVars, Reasons, SealedStaysClosed, RevisionsOrdered
  <1>2. ASSUME NEW u \in Updaters, commit_update(u) PROVE Goal
    <2> PICK config \in updating[u] : commit_update(u)!(config)
      BY <1>2 DEF commit_update
    <2>1. CASE MayUpdate
      <3>1. /\ pendingConfig' = {[revision |-> nextRevision, config |-> config]}
            /\ nextRevision' = next(nextRevision)
            /\ UNCHANGED <<cancelVars, accepting, currentRevision, takenRevision>>
        BY <2>1
      <3>2. /\ next(nextRevision) \in Revisions
            /\ next(nextRevision) >= nextRevision
            /\ next(nextRevision) = nextRevision => nextRevision = MaxRevision
        BY NextRevision
      <3>3. RevisionsOrdered'
        BY <3>1, <3>2, <1>0 DEF RevisionsOrdered, next
      <3>4. SealedStaysClosed'
        BY <3>1, <2>1 DEF SealedStaysClosed, MayUpdate, is_active, cancelVars
      <3> QED BY <3>1, <3>3, <3>4
    <2>2. CASE ~MayUpdate
      BY <2>2, <1>0 DEF SealedStaysClosed, RevisionsOrdered, cancelVars
    <2> QED BY <2>1, <2>2
  <1>3. CASE take_config
    <2>1. pendingConfig' = {}
      BY <1>3 DEF take_config
    <2>2. RevisionsOrdered'
      BY <1>0, <1>3 DEF take_config, RevisionsOrdered
    <2>3. SealedStaysClosed'
      BY <1>3 DEF take_config, SealedStaysClosed, cancelVars
    <2> QED BY <2>1, <2>2, <2>3
  <1>4. CASE begin_final
    BY <1>4, <1>0 DEF begin_final, SealedStaysClosed, RevisionsOrdered, cancelVars
  <1>5. ASSUME NEW revision \in {currentRevision, takenRevision}, commit_revision(revision)
        PROVE  Goal
    BY <1>5, <1>0 DEF commit_revision, SealedStaysClosed, RevisionsOrdered, cancelVars
  <1>6. CASE finish_once
    <2>1. verdict' # "Open"
      BY <1>6 DEF finish_once, FinishSeal, States, Reasons, StateMatchesWinner
    <2> QED BY <1>6, <1>0, <2>1 DEF finish_once, SealedStaysClosed, RevisionsOrdered
  <1>7. CASE UNCHANGED <<state, verdict, configVars>>
    BY <1>7, <1>0 DEF configVars, SealedStaysClosed, RevisionsOrdered
  <1> QED
    BY <1>1, <1>2, <1>3, <1>4, <1>5, <1>6, <1>7
    DEF ControlNext, HandleStep, RunnerCall, cancel_token, release_token, begin_update, answer,
        set_interaction, take_interaction, controlVars, cancelVars

\* The interaction slot: fresh ids make an old answer useless.
LEMMA InteractionStep ==
  ASSUME ControlInv, [ControlNext]_controlVars
  PROVE  AnswerReachesOwnSlot' /\ \A s, t \in interaction' : s = t
  <1> DEFINE Goal == AnswerReachesOwnSlot' /\ \A s, t \in interaction' : s = t
  <1> USE DEF ControlInv, AnswerReachesOwnSlot
  <1>0. slots \in Nat /\ answered \in SUBSET Nat /\ \A s, t \in interaction : s = t
    BY DEF ControlTypeOK, SlotsAreOptions
  <1>1. ASSUME NEW id \in 1 .. slots, NEW value \in Answers, answer(id, value) PROVE Goal
    BY <1>0, <1>1 DEF answer, Accepts
  <1>2. ASSUME NEW kind \in Kinds, set_interaction(kind) PROVE Goal
    BY <1>0, <1>2 DEF set_interaction
  <1>3. CASE take_interaction
    BY <1>0, <1>3 DEF take_interaction
  <1>4. CASE UNCHANGED interactionVars
    BY <1>0, <1>4 DEF interactionVars
  <1> QED
    BY <1>1, <1>2, <1>3, <1>4
    DEF ControlNext, HandleStep, RunnerCall, mark_cancel, cancel_token, release_token,
        begin_update, commit_update, take_config, begin_final, commit_revision, finish_once,
        controlVars

\* The invariant is inductive.
LEMMA ControlStepInv == ControlInv /\ [ControlNext]_controlVars => ControlInv'
  <1> SUFFICES ASSUME ControlInv, [ControlNext]_controlVars PROVE ControlInv'
    OBVIOUS
  <1>1. ControlTypeOK'
    BY ControlTyping DEF ControlInv
  <1> QED
    BY <1>1, DecisionStep, ConfigStep, InteractionStep DEF ControlInv, SlotsAreOptions

\* Every state a client of the control plane can reach satisfies the invariant:
\* one winner between cancel and seal, a closed slot after the seal, ordered
\* revisions, answers that reach only their own slot.
THEOREM ControlSafety == ControlSpec => []ControlInv
  BY ControlInitInv, ControlStepInv, PTL DEF ControlSpec

\* The state word and the token decide one winner (control.rs mark_cancel and
\* finish_once).
THEOREM OneWinner == ControlSpec => [](VerdictMatchesWinner /\ TokenImpliesDecision)
  <1>1. ControlInv => VerdictMatchesWinner /\ TokenImpliesDecision
    BY DEF ControlInv
  <1> QED BY <1>1, ControlSafety, PTL

\* No update gets past the seal, and a boundary only moves to newer configs.
THEOREM SealAndRevisions == ControlSpec => [](SealedStaysClosed /\ RevisionsOrdered)
  <1>1. ControlInv => SealedStaysClosed /\ RevisionsOrdered
    BY DEF ControlInv
  <1> QED BY <1>1, ControlSafety, PTL

\* A stale or repeated answer never reaches another interaction.
THEOREM AnswersReachOwnSlot == ControlSpec => []AnswerReachesOwnSlot
  <1>1. ControlInv => AnswerReachesOwnSlot
    BY DEF ControlInv
  <1> QED BY <1>1, ControlSafety, PTL

\* A sealed loop keeps its verdict and no cancel wins any more.
THEOREM VerdictIsFinal == ControlSpec => VerdictStands
  <1>1. ControlInv /\ [ControlNext]_controlVars =>
          [verdict # "Open" => verdict' = verdict /\ cancelWinner' = cancelWinner]_controlVars
    <2> SUFFICES ASSUME ControlInv, [ControlNext]_controlVars, verdict # "Open"
                 PROVE  verdict' = verdict /\ cancelWinner' = cancelWinner
      OBVIOUS
    <2>1. state = "FINISHED"
      BY DEF ControlInv, StateMatchesWinner, ControlTypeOK, States
    <2>2. CASE finish_once
      BY <2>1, <2>2 DEF finish_once, FinishSeal, Reasons
    <2>3. CASE UNCHANGED <<verdict, cancelWinner>>
      BY <2>3
    <2> QED
      BY <2>1, <2>2, <2>3
      DEF ControlNext, HandleStep, RunnerCall, mark_cancel, cancel_token, release_token,
          begin_update, commit_update, answer, take_config, begin_final, commit_revision,
          set_interaction, take_interaction, controlVars, cancelVars
  <1> QED BY <1>1, ControlSafety, PTL DEF ControlSpec, VerdictStands
=============================================================================
