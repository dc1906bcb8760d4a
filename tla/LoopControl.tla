------------------------------ MODULE LoopControl ------------------------------
(***************************************************************************)
(* The control plane of one agent loop (src/agent_loop/control.rs): the    *)
(* AtomicU8 that decides between cancelling and finishing, the root        *)
(* cancellation token, and the mutex-guarded ControlState (config slot,    *)
(* revisions, interaction slot).                                           *)
(*                                                                         *)
(* One action is one atomic section of the code: one compare_exchange, one *)
(* critical section of `inner`, or one CancellationToken::cancel().  A     *)
(* call that makes two of them (mark_cancel, update) is two actions, so    *)
(* other threads run in between.  Calls that return an error change        *)
(* nothing and are not steps.                                              *)
(*                                                                         *)
(* ControlSpec runs the operations for an arbitrary client; AgentLoop.tla  *)
(* extends this module and calls the same actions from the runner.         *)
(***************************************************************************)
EXTENDS Naturals

CONSTANTS
  Configs,          \* execution configs that pass validate_against_limits
  Updaters,         \* threads that may be inside LoopHandle::update
  MaxRevision,      \* u64::MAX, where ConfigRevision::next saturates
  MaxInteractions   \* bound: interaction slots installed in one loop

ASSUME ControlAssumption ==
  /\ MaxRevision \in Nat \ {0}
  /\ MaxInteractions \in Nat

VARIABLES
  state,            \* LoopControl::state
  token,            \* the root CancellationToken is cancelled
  tokenDue,         \* a mark_cancel won its CAS and has yet to cancel the token
  accepting,        \* ControlState::accepting_updates
  currentRevision,  \* ControlState::current_revision
  nextRevision,     \* ControlState::next_revision
  pendingConfig,    \* ControlState::pending_config: {} or one [revision, config]
  updating,         \* per thread: {} or the config of an update past its first check
  interaction,      \* ControlState::interaction: {} or one [id, kind]
  reply,            \* the oneshot of the last slot: {} or one [id, answer]
  slots,            \* slots installed so far; the last one is InteractionId `slots`
  verdict,          \* what the first finish_once returned
  takenRevision,    \* history: the revision take_config last returned
  cancelWinner,     \* history: {} or the reason whose mark_cancel returned true
  answered          \* history: interaction ids whose answer call returned Ok

cancelVars      == <<state, token, tokenDue, verdict, cancelWinner>>
configVars      == <<accepting, currentRevision, nextRevision, pendingConfig, takenRevision>>
interactionVars == <<interaction, reply, slots, answered>>
controlVars     == <<cancelVars, configVars, updating, interactionVars>>

\* CancelSource and the CANCEL_* values of the AtomicU8.
Reasons   == {"User", "OwnerDropped", "Shutdown"}
\* STATE_NONE, the three STATE_CANCEL_* and STATE_FINISHED.
States    == {"NONE", "FINISHED"} \cup Reasons
\* FinishSeal::Clean or CancelledPrior(reason); "Open" before the first seal.
Verdicts  == {"Open", "Clean"} \cup Reasons
Revisions == 0 .. MaxRevision
Kinds     == {"Approval", "ToolInput"}
Answers   == {"AllowOnce", "Deny", "Input"}
Pending   == [revision : Revisions, config : Configs]
Slots     == [id : Nat, kind : Kinds]
Replies   == [id : Nat, answer : Answers]

\* Mutant: next runs past u64.
next_unbounded(revision) == revision + 1

\* ConfigRevision::next saturates at the u64 ceiling.
next(revision) == IF revision = MaxRevision THEN revision ELSE revision + 1

\* The answers InteractionAnswer::validate accepts for a slot's kind.
Expected(kind) == IF kind = "Approval" THEN {"AllowOnce", "Deny"} ELSE {"Input"}

is_active == state = "NONE"

ControlInit ==
  /\ state = "NONE"
  /\ token = FALSE
  /\ tokenDue = FALSE
  /\ verdict = "Open"
  /\ cancelWinner = {}
  /\ accepting = TRUE
  /\ currentRevision = 0
  /\ nextRevision = next(0)
  /\ pendingConfig = {}
  /\ takenRevision = 0
  /\ updating = [u \in Updaters |-> {}]
  /\ interaction = {}
  /\ reply = {}
  /\ slots = 0
  /\ answered = {}

-----------------------------------------------------------------------------
(* Cancelling. *)

\* The CAS of mark_cancel; only the call that wins it does anything more.
mark_cancel(reason) ==
  /\ state = "NONE"
  /\ state' = reason
  /\ tokenDue' = TRUE
  /\ cancelWinner' = {reason}
  /\ UNCHANGED <<token, verdict, configVars, updating, interactionVars>>

\* The winner's second step; it holds no lock and may be arbitrarily late.
cancel_token ==
  /\ tokenDue
  /\ token' = TRUE
  /\ tokenDue' = FALSE
  /\ UNCHANGED <<state, verdict, cancelWinner, configVars, updating, interactionVars>>

\* Every ending cancels the root token once it has sealed the loop.
release_token ==
  /\ state = "FINISHED"
  /\ token' = TRUE
  /\ UNCHANGED <<state, tokenDue, verdict, cancelWinner, configVars, updating,
                 interactionVars>>

-----------------------------------------------------------------------------
(* Updating the configuration. *)

\* update up to the lock: active, and the config validated against the limits.
begin_update(u, config) ==
  /\ updating[u] = {}
  /\ is_active
  /\ updating' = [updating EXCEPT ![u] = {config}]
  /\ UNCHANGED <<cancelVars, configVars, interactionVars>>

\* Mutant: update trusts the check it made before it took the lock.
MayUpdate_unchecked == TRUE

\* The check update repeats under the lock.
MayUpdate == accepting /\ is_active

\* update under the lock: check again, hand out a revision, replace the slot.
commit_update(u) ==
  \E config \in updating[u] :
    /\ updating' = [updating EXCEPT ![u] = {}]
    /\ IF MayUpdate
         THEN /\ pendingConfig' = {[revision |-> nextRevision, config |-> config]}
              /\ nextRevision' = next(nextRevision)
         ELSE UNCHANGED <<pendingConfig, nextRevision>>
    /\ UNCHANGED <<cancelVars, accepting, currentRevision, takenRevision, interactionVars>>

\* take_config: the runner empties the slot.
take_config ==
  /\ pendingConfig' = {}
  /\ \/ pendingConfig = {} /\ UNCHANGED takenRevision
     \/ \E p \in pendingConfig : takenRevision' = p.revision
  /\ UNCHANGED <<cancelVars, accepting, currentRevision, nextRevision, updating,
                 interactionVars>>

\* commit_revision: the revision of a request that is going out.
commit_revision(revision) ==
  /\ currentRevision' = revision
  /\ UNCHANGED <<cancelVars, accepting, nextRevision, pendingConfig, takenRevision,
                 updating, interactionVars>>

\* begin_final: a final answer closes accepting and discards the slot.
begin_final ==
  /\ accepting' = FALSE
  /\ pendingConfig' = {}
  /\ UNCHANGED <<cancelVars, currentRevision, nextRevision, takenRevision, updating,
                 interactionVars>>

\* Mutant: the seal ignores a cancellation that got there first.
FinishSeal_clean == IF state = "FINISHED" THEN verdict ELSE "Clean"

\* What finish_once makes of the state word it finds.  A call that finds FINISHED
\* returns AlreadyFinished and keeps the verdict.
FinishSeal ==
  CASE state = "NONE"    -> "Clean"
    [] state \in Reasons -> state
    [] OTHER             -> verdict

\* finish_once: the seal, and in the same critical section the end of accepting.
finish_once ==
  /\ verdict' = FinishSeal
  /\ state' = "FINISHED"
  /\ accepting' = FALSE
  /\ pendingConfig' = {}
  /\ UNCHANGED <<token, tokenDue, cancelWinner, currentRevision, nextRevision,
                 takenRevision, updating, interactionVars>>

-----------------------------------------------------------------------------
(* The interaction slot. *)

\* set_interaction with a fresh id and its own oneshot; Busy if a slot is there.
set_interaction(kind) ==
  /\ slots < MaxInteractions
  /\ interaction = {}
  /\ slots' = slots + 1
  /\ interaction' = {[id |-> slots + 1, kind |-> kind]}
  /\ reply' = {}
  /\ UNCHANGED <<cancelVars, configVars, updating, answered>>

\* take_interaction drops whatever slot is left.
take_interaction ==
  /\ interaction' = {}
  /\ UNCHANGED <<cancelVars, configVars, updating, reply, slots, answered>>

\* Mutant: answer compares no ids.
Accepts_any_id(id, value) == \E slot \in interaction : value \in Expected(slot.kind)

\* The open slot is the one addressed, and the answer is of its kind.
Accepts(id, value) ==
  \E slot \in interaction : slot.id = id /\ value \in Expected(slot.kind)

\* answer: one critical section checks, takes the slot and sends the reply.
answer(id, value) ==
  /\ accepting
  /\ is_active
  /\ Accepts(id, value)
  /\ interaction' = {}
  /\ reply' = {[id |-> id, answer |-> value]}
  /\ answered' = answered \cup {id}
  /\ UNCHANGED <<cancelVars, configVars, updating, slots>>

-----------------------------------------------------------------------------
(* The handles' half of the interface, then any client of the whole of it. *)

HandleStep ==
  \/ \E reason \in Reasons : mark_cancel(reason)
  \/ cancel_token
  \/ \E u \in Updaters : commit_update(u) \/ \E config \in Configs : begin_update(u, config)
  \/ \E id \in 1 .. slots, value \in Answers : answer(id, value)

\* The runner commits the revision take_config last gave it, or the current one again.
RunnerCall ==
  \/ take_config
  \/ begin_final
  \/ \E revision \in {currentRevision, takenRevision} : commit_revision(revision)
  \/ finish_once
  \/ release_token
  \/ \E kind \in Kinds : set_interaction(kind)
  \/ take_interaction

ControlNext == HandleStep \/ RunnerCall

ControlSpec == ControlInit /\ [][ControlNext]_controlVars

-----------------------------------------------------------------------------
(* Properties. *)

\* Type invariant of the control plane.
ControlTypeOK ==
  /\ state \in States
  /\ token \in BOOLEAN
  /\ tokenDue \in BOOLEAN
  /\ verdict \in Verdicts
  /\ cancelWinner \in SUBSET Reasons
  /\ accepting \in BOOLEAN
  /\ currentRevision \in Revisions
  /\ nextRevision \in Revisions
  /\ takenRevision \in Revisions
  /\ pendingConfig \in SUBSET Pending
  /\ updating \in [Updaters -> SUBSET Configs]
  /\ interaction \in SUBSET Slots
  /\ reply \in SUBSET Replies
  /\ slots \in Nat
  /\ answered \in SUBSET Nat

\* The seal and mark_cancel agree on one winner: a loop sealed Clean had no
\* cancellation that returned true, a loop sealed CancelledPrior(reason) had
\* exactly the one with that reason (control.rs: "whichever wins first is the
\* authoritative outcome").
VerdictMatchesWinner ==
  /\ verdict = "Clean" => cancelWinner = {}
  /\ verdict \in Reasons => cancelWinner = {verdict}
  /\ cancelWinner # {} => verdict # "Clean" /\ ~is_active

\* Nothing gets into the config slot of a sealed loop, however late an update
\* that saw the loop active before it took the lock: it lands before the seal
\* and is discarded by it, or it is refused.
SealedStaysClosed ==
  state = "FINISHED" => ~accepting /\ pendingConfig = {} /\ verdict # "Open"

\* The token never runs ahead of the state word: whoever sees it cancelled finds
\* a reason, or FINISHED, in the AtomicU8, so cancel_reason never has to guess.
TokenImpliesDecision == token \/ tokenDue => ~is_active

\* Applied, taken, pending and next revisions are in this order, strictly below
\* the u64 ceiling: a boundary can only move the loop to a newer config.
RevisionsOrdered ==
  /\ currentRevision <= takenRevision
  /\ \A p \in pendingConfig :
       /\ takenRevision <= p.revision
       /\ takenRevision = p.revision => p.revision = MaxRevision
       /\ p.revision <= nextRevision
       /\ p.revision = nextRevision => nextRevision = MaxRevision
  /\ takenRevision <= nextRevision
  /\ takenRevision = nextRevision => nextRevision = MaxRevision

\* The open slot is the newest interaction, nobody has answered it and its
\* oneshot is empty; a sent reply is the answer of the newest interaction.  So
\* a stale or repeated answer can never reach another interaction's waiter.
AnswerReachesOwnSlot ==
  /\ \A slot \in interaction : slot.id = slots /\ slot.id \notin answered /\ reply = {}
  /\ \A r \in reply : r.id = slots /\ r.id \in answered
  /\ \A id \in answered : id <= slots

\* Once a loop is sealed its verdict stands, and no later cancel call wins.
VerdictStands ==
  [][verdict # "Open" => verdict' = verdict /\ cancelWinner' = cancelWinner]_controlVars
=============================================================================
