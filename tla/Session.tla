-------------------------------- MODULE Session --------------------------------
(***************************************************************************)
(* A host that keeps a conversation and runs one loop per turn over it     *)
(* (examples/memory_agent.rs, docs/contracts/history.md): the history goes *)
(* into LoopRequest, the report's appended items come back.  The loop is   *)
(* what it appends, request by request, and the token counts it adds up    *)
(* (src/usage.rs, src/model/usage.rs); AgentLoop has the rest of it.       *)
(* Between turns the host may drop the delta, compact the history, undo,   *)
(* or be restarted from what it wrote out.                                 *)
(***************************************************************************)
EXTENDS Messages

CONSTANTS
  InputTexts,   \* texts users send
  Fields,       \* the fields of Usage
  MaxCount,     \* u64::MAX
  Usages,       \* the usages responses report; an optional count is {} or {n}
  MaxTurns,     \* bound: loops
  MaxRequests,  \* bound: requests of one loop after which the model calls no tools
  MaxInputs     \* bound: inputs one loop takes while it runs

ASSUME SessionAssumption ==
  /\ InputTexts \subseteq BoundedTexts
  /\ MaxTurns \in Nat /\ MaxRequests \in Nat /\ MaxInputs \in Nat /\ MaxCount \in Nat
  /\ Usages \subseteq [Fields -> {{}} \cup {{n} : n \in 0 .. MaxCount}]

VARIABLES
  base,       \* the host's history, LoopRequest::history
  appended,   \* the running loop's delta, then LoopReport::appended
  phase,      \* "Host", "Boundary", "Model", "Batch" or "Reported"
  batch,      \* ids of the calls of the current response without a result
  outcome,    \* of the last report
  total,      \* UsageAccumulator::value, then LoopReport::usage
  reported,   \* history: the counts of every response this loop received
  turns, requests, inputs,
  sound       \* history: no text was malformed and no exchange was cut by the host

sessionVars == <<base, appended, phase, batch, outcome, total, reported, turns, requests, inputs,
                 sound>>

usageVars == <<total, reported>>

Unreported == [f \in Fields |-> {}]

SessionInit ==
  /\ base = <<>> /\ appended = <<>> /\ batch = <<>>
  /\ phase = "Host" /\ outcome = "None"
  /\ total = Unreported /\ reported = <<>>
  /\ turns = 0 /\ requests = 0 /\ inputs = 0
  /\ sound = TRUE

-----------------------------------------------------------------------------
(* The prompt. *)

Rendered(h) == [i \in DOMAIN h |-> MessageOf(h[i])]

\* prepare succeeds, and so does build_model_request, whose scan decides just this
\* (PromptCheck: CheckDecides).
Accepted(h) ==
  /\ h # <<>>
  /\ \A i \in DOMAIN h : Projects(h[i])
  /\ WellFormed(Rendered(h))

-----------------------------------------------------------------------------
(* One loop. *)

Report(o) == phase' = "Reported" /\ outcome' = o /\ batch' = <<>>

\* AgentLoop::start takes no empty input, and the runner appends it.
Start(t) ==
  /\ phase = "Host" /\ turns < MaxTurns
  /\ t # "Empty"
  /\ turns' = turns + 1 /\ requests' = 0 /\ inputs' = 0
  /\ appended' = <<UserHistory(t)>>
  /\ phase' = "Boundary"
  /\ sound' = (sound /\ t = "Clean")
  /\ UNCHANGED <<base, batch, outcome, usageVars>>

\* LoopInputs::take is trusted.
TakesInput(t) ==
  /\ phase = "Boundary" /\ inputs < MaxInputs
  /\ inputs' = inputs + 1
  /\ appended' = Append(appended, UserHistory(t))
  /\ sound' = (sound /\ t = "Clean")
  /\ UNCHANGED <<base, phase, batch, outcome, turns, requests, usageVars>>

\* The prompt is prepared, checked and issued, or the loop fails as Prompt.
Request ==
  /\ phase = "Boundary"
  /\ IF Accepted(base \o appended)
       THEN phase' = "Model" /\ requests' = requests + 1 /\ UNCHANGED <<outcome, batch>>
       ELSE Report("Prompt") /\ UNCHANGED requests
  /\ UNCHANGED <<base, appended, turns, inputs, sound, usageVars>>

\* Cancelled, or a failure that appends nothing.
Stops ==
  /\ phase \in {"Boundary", "Model"}
  /\ Report("Stopped")
  /\ UNCHANGED <<base, appended, turns, requests, inputs, sound, usageVars>>

\* What the assembler lets through (Assembler: ResponseIsStream).
Responses ==
  {r \in [parts : PartLists, replay : BOOLEAN] :
     /\ ValidMessage(AssistantMessage(r.parts, r.replay))
     /\ normalize_parts(r.parts) = r.parts}

\* What the history keeps of a response.
Answered(r, u) ==
  [item |-> "Assistant", parts |-> r.parts, replay |-> r.replay, usage |-> u]

\* The calls of a response, in its order: the n-th has n - 1 calls before it.
CallsOf(ps) ==
  [n \in 1 .. Cardinality(CallPositions(ps)) |->
     ps[CHOOSE i \in CallPositions(ps) : CallsBefore(ps, i) = n - 1]]

Add(l, r) == {m + n : m \in l, n \in r}

\* Mutant: a field that only one side reports is not taken.
sum_field_both(l, r) == Add(l, r)

\* sum_field: None where neither side reports.
sum_field(l, r) == IF l = {} THEN r ELSE IF r = {} THEN l ELSE Add(l, r)

sum_usage(l, r) == [f \in Fields |-> sum_field(l[f], r[f])]

\* checked_add fails in some field.
Overflows(l, r) == \E f \in Fields : \E n \in Add(l[f], r[f]) : n > MaxCount

\* A response of which only the counts are left.
Counted(u) == [item |-> "Assistant", usage |-> u]

\* The total overflows: the loop ends as Internal, without the response.
Overflow(u) ==
  /\ phase = "Model"
  /\ Overflows(total, u)
  /\ Report("Overflow")
  /\ reported' = Append(reported, Counted(u))
  /\ UNCHANGED <<base, appended, total, turns, requests, inputs, sound>>

\* No call and a finish reason that is not supported: counted, but not appended.
Unsupported(u) ==
  /\ phase = "Model"
  /\ ~Overflows(total, u)
  /\ total' = sum_usage(total, u)
  /\ Report("InvalidModelResponse")
  /\ reported' = Append(reported, Counted(u))
  /\ UNCHANGED <<base, appended, turns, requests, inputs, sound>>

\* A response with calls starts a batch, one without ends the loop.
Responds(r, u) ==
  LET calls == CallsOf(r.parts)
  IN  /\ phase = "Model"
      /\ calls # <<>> => requests < MaxRequests
      /\ ~Overflows(total, u)
      /\ total' = sum_usage(total, u)
      /\ reported' = Append(reported, Counted(u))
      /\ appended' = Append(appended, Answered(r, u))
      /\ IF calls = <<>> THEN Report("Final")
                         ELSE /\ phase' = "Batch"
                              /\ batch' = [i \in DOMAIN calls |-> calls[i].id]
                              /\ UNCHANGED outcome
      /\ UNCHANGED <<base, turns, requests, inputs, sound>>

CallSettles ==
  /\ phase = "Batch"
  /\ appended' = Append(appended, ToolResultHistory(Head(batch)))
  /\ batch' = Tail(batch)
  /\ phase' = IF batch' = <<>> THEN "Boundary" ELSE "Batch"
  /\ UNCHANGED <<base, outcome, turns, requests, inputs, sound, usageVars>>

\* Mutant: only the calls behind the interrupted one are settled.
BatchEnds_skips_current ==
  /\ phase = "Batch"
  /\ appended' = appended \o [i \in DOMAIN Tail(batch) |-> ToolResultHistory(Tail(batch)[i])]
  /\ Report("Stopped")
  /\ UNCHANGED <<base, turns, requests, inputs, sound, usageVars>>

\* settle_calls: what is left of the batch, or all of it at the round limit.
BatchEnds ==
  /\ phase = "Batch"
  /\ appended' = appended \o [i \in DOMAIN batch |-> ToolResultHistory(batch[i])]
  /\ Report("Stopped")
  /\ UNCHANGED <<base, turns, requests, inputs, sound, usageVars>>

\* panic_report: the delta and the count are gone.
LoopPanics ==
  /\ phase \in {"Boundary", "Model", "Batch"}
  /\ appended' = <<>>
  /\ total' = Unreported
  /\ Report("Internal")
  /\ UNCHANGED <<base, reported, turns, requests, inputs, sound>>

-----------------------------------------------------------------------------
(* The host between loops. *)

\* The report is let go of; the next loop counts from nothing.
LetGo == appended' = <<>> /\ phase' = "Host" /\ total' = Unreported /\ reported' = <<>>

\* The delta is folded into the history, whatever the outcome (MemoryAgent::chat) ...
Folds ==
  /\ phase = "Reported"
  /\ base' = base \o appended
  /\ LetGo
  /\ UNCHANGED <<batch, outcome, turns, requests, inputs, sound>>

\* ... or dropped.
Drops ==
  /\ phase = "Reported"
  /\ LetGo
  /\ UNCHANGED <<base, batch, outcome, turns, requests, inputs, sound>>

\* The history can be cut behind item k without cutting an exchange.
CutsCleanly(h, k) == k + 1 \in DOMAIN h => h[k + 1].item # "ToolResult"

\* The first k items become a summary.
Compacts(k, t) ==
  /\ phase = "Host" /\ k \in DOMAIN base
  /\ base' = <<SummaryHistory(t)>> \o SubSeq(base, k + 1, Len(base))
  /\ sound' = (sound /\ t # "Raw" /\ CutsCleanly(base, k))
  /\ UNCHANGED <<appended, phase, batch, outcome, turns, requests, inputs, usageVars>>

\* Everything behind the first k items is undone.
Undoes(k) ==
  /\ phase = "Host" /\ k \in DOMAIN base
  /\ base' = SubSeq(base, 1, k)
  /\ sound' = (sound /\ CutsCleanly(base, k))
  /\ UNCHANGED <<appended, phase, batch, outcome, turns, requests, inputs, usageVars>>

\* The host is restarted and reads its history back; it can if every item reloads.
Restarts ==
  /\ phase = "Host"
  /\ \A i \in DOMAIN base : ItemReloads(base[i])
  /\ base' = [i \in DOMAIN base |-> Reloaded(base[i])]
  /\ UNCHANGED <<appended, phase, batch, outcome, turns, requests, inputs, sound, usageVars>>

SessionDone == phase = "Host" /\ turns = MaxTurns /\ UNCHANGED sessionVars

SessionNext ==
  \/ \E t \in InputTexts : Start(t) \/ TakesInput(t)
  \/ Request
  \/ Stops
  \/ \E u \in Usages : Overflow(u) \/ Unsupported(u) \/ \E r \in Responses : Responds(r, u)
  \/ CallSettles
  \/ BatchEnds
  \/ LoopPanics
  \/ Folds
  \/ Drops
  \/ \E k \in DOMAIN base : Undoes(k) \/ \E t \in InputTexts : Compacts(k, t)
  \/ Restarts
  \/ SessionDone

SessionSpec == SessionInit /\ [][SessionNext]_sessionVars

-----------------------------------------------------------------------------
(* Properties. *)

\* A session stays usable: as long as every text was clean and the host cut its
\* history between exchanges only, no loop ever fails as Prompt, however the loops
\* before it ended: cancelled in the middle of a batch, out of rounds, panicked,
\* with call ids used again, compacted, undone, restarted.  And it can be restarted.
SessionStaysUsable ==
  sound => outcome # "Prompt" /\ \A i \in DOMAIN base : ItemReloads(base[i])

\* Reference: one pair for each token that the responses of a history report in a field.
Tokens(h, f) ==
  {p \in (DOMAIN h) \X (1 .. MaxCount) :
     h[p[1]].item = "Assistant" /\ \E n \in h[p[1]].usage[f] : p[2] <= n}
Reports(h, f) == \E i \in DOMAIN h : h[i].item = "Assistant" /\ h[i].usage[f] # {}
SumOf(h, f)   == IF Reports(h, f) THEN {Cardinality(Tokens(h, f))} ELSE {}

\* The responses before the last one.
Earlier(h) == SubSeq(h, 1, Len(h) - 1)

\* The usage of a running loop, and of every report but two, is field by field the sum of
\* what all its responses reported, the one with an unsupported finish included, and None
\* where none of them did; and a host that adds up the delta gets the same, without a
\* response that was not appended.  A loop ends in an overflow only if some field really
\* does not fit, and then each field is a sum with or without the last response.  Of a
\* panicked loop nothing is said: panic_report knows no usage, whatever was received.
TotalIsSum ==
  LET ended(o) == phase = "Reported" /\ outcome = o
      kept     == IF ended("Overflow") \/ ended("InvalidModelResponse") THEN Earlier(reported)
                                                                       ELSE reported
  IN  \/ ended("Internal")
      \/ /\ \A f \in Fields :
              /\ SumOf(appended, f) = SumOf(kept, f)
              /\ total[f] = SumOf(reported, f) \/ (ended("Overflow") /\ total[f] = SumOf(kept, f))
         /\ ended("Overflow") => \E f \in Fields : Cardinality(Tokens(reported, f)) > MaxCount
=============================================================================
