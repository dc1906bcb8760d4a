---------------------------- MODULE InputBoundaries ----------------------------
(***************************************************************************)
(* A host that records for which request each of its inputs was taken      *)
(* (docs/contracts/agent-loop.md, Inputs; BoundaryProbe, IndexPrompt and   *)
(* IndexModel of tests/host_observation_contract.rs), beside the loop that *)
(* takes them.  LoopInputs::take carries no request identity: the host     *)
(* only has the indices its prompt provider and its model were called      *)
(* with.                                                                   *)
(***************************************************************************)
EXTENDS AgentLoop

VARIABLES
  prepared,   \* prepared_index: of the last preparation, 0 at first
  called,     \* {} or {index of the last model call}
  marks,      \* the index the host recorded for each input
  shown       \* history: how much of the history each issued request showed

boundaryVars == <<prepared, called, marks, shown>>

BoundariesInit == Init /\ prepared = 0 /\ called = {} /\ marks = <<>> /\ shown = <<>>

\* Mutant: the host takes the index it saw prepared last.
CandidateIndex_prepared == prepared

\* candidate_index: a newer prepared index wins, else the one after the last call.
CandidateIndex ==
  IF \E c \in called : prepared <= c THEN 1 + CHOOSE c \in called : TRUE ELSE prepared

\* The wrappers around the prompt provider, the model and the queue of inputs.
Observes ==
  /\ prepared' = IF pc = "Prepare" /\ pc' = "BoundaryF" THEN requestIndex ELSE prepared
  /\ called'   = IF pc = "Issue" /\ pc' = "Model" THEN {requestIndex} ELSE called
  /\ marks'    = marks \o [i \in 1 .. taken' - taken |-> CandidateIndex]
  /\ shown'    = IF pc = "Issue" /\ pc' = "Model" THEN Append(shown, prompt.length) ELSE shown

BoundariesSpec == BoundariesInit /\ [][Next /\ Observes]_<<vars, boundaryVars>>

-----------------------------------------------------------------------------
(* Properties. *)

\* The inputs in a prefix of the history.
InputsIn(n) == {appended[i].ref : i \in {j \in SteeringIn(appended) : j <= n}}

\* The mark of an input is the index of the first request that shows it, however often
\* prompts were prepared again and configs replaced on the way; an input marked with a
\* request that was issued is in that request.
MarksNameFirstRequest ==
  unwound = "No" =>
    /\ Len(marks) = taken
    /\ \A r \in DOMAIN shown, n \in DOMAIN marks : n \in InputsIn(shown[r]) <=> marks[n] <= r - 1

=============================================================================
