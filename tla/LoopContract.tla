----------------------------- MODULE LoopContract -----------------------------
(***************************************************************************)
(* What an agent loop promises its host about its ending, without saying   *)
(* how: at most one cancellation wins, the loop is sealed once, with the   *)
(* winner's reason if there is one, and a sealed loop publishes exactly    *)
(* that outcome before its task is gone.  AgentLoop implements it.         *)
(***************************************************************************)
EXTENDS Naturals

CONSTANT Outcomes   \* LoopOutcome; the cancel reasons are among them

VARIABLES
  winner,   \* {} or the reason of the cancel call that returned true
  sealed,   \* {} or the outcome the loop is sealed with
  report,   \* {} or the outcome of the published report
  gone      \* the runner task no longer exists

contractVars == <<winner, sealed, report, gone>>

CancelReasons == {"User", "OwnerDropped", "Shutdown"}

ContractInit == winner = {} /\ sealed = {} /\ report = {} /\ gone = FALSE

\* A cancel, shutdown or owner drop returns true.
Cancel(reason) ==
  /\ winner = {}
  /\ sealed = {}
  /\ winner' = {reason}
  /\ UNCHANGED <<sealed, report, gone>>

\* The loop ends; a cancellation that won decides the outcome.
Seal(o) ==
  /\ sealed = {}
  /\ IF winner = {} THEN o \notin CancelReasons ELSE o \in winner
  /\ sealed' = {o}
  /\ UNCHANGED <<winner, report, gone>>

\* The report becomes visible to every waiter at once.
Publish ==
  /\ sealed # {}
  /\ report = {}
  /\ ~gone
  /\ report' = sealed
  /\ UNCHANGED <<winner, sealed, gone>>

\* The task exits after its report, or is dropped before it sealed anything.
Vanish ==
  /\ ~gone
  /\ report = sealed
  /\ gone' = TRUE
  /\ UNCHANGED <<winner, sealed, report>>

ContractNext ==
  \/ \E reason \in CancelReasons : Cancel(reason)
  \/ \E o \in Outcomes : Seal(o)
  \/ Publish
  \/ Vanish

Spec == ContractInit /\ [][ContractNext]_contractVars
=============================================================================
