------------------------------ MODULE EventStream ------------------------------
(***************************************************************************)
(* The best-effort event stream (src/agent_loop/event.rs) and the inner    *)
(* progress queues in front of it (run_model of runner/model.rs,           *)
(* run_tool_port and LoopToolProgress of runner/tools.rs): what is lost    *)
(* where, and how it is counted in dropped_before.                         *)
(*                                                                         *)
(* A port is one model or tool call with a progress queue of its own.  The *)
(* call emits from inside the runner's task; a tool may also hand clones   *)
(* of its ToolProgressSink to threads that run beside the runner and may   *)
(* outlive the call.  Payloads are left out: an event is what its envelope *)
(* says was dropped before it.                                             *)
(***************************************************************************)
EXTENDS Naturals, Sequences, FiniteSets

CONSTANTS
  Capacity,           \* event_capacity
  ProgressCapacity,   \* TOOL_PROGRESS_CAPACITY, MODEL_PROGRESS_CAPACITY
  Detached,           \* threads a tool leaves running with its progress sink
  MaxPorts,           \* bound on the calls of the loop
  MaxProduced         \* bound on the events and progress items produced

ASSUME StreamAssumption ==
  /\ Capacity \in Nat \ {0} /\ ProgressCapacity \in Nat \ {0}
  /\ MaxPorts \in Nat /\ MaxProduced \in Nat
  /\ IsFiniteSet(Detached)

VARIABLES
  pc,          \* where the runner is
  port,        \* calls begun so far
  dropped,     \* LoopEventSink::dropped
  closed,      \* LoopEventSink::closed
  queue,       \* the public queue: dropped_before of each envelope
  listening,   \* whether the host still holds the LoopEventStream
  inner,       \* items in the port's progress queue
  counter,     \* progress_dropped of the port
  missed,      \* per detached thread: {} or the port whose full queue refused its item
  produced,    \* history: events and progress items offered to an open queue
  aside,       \* history: those offered by detached threads
  received,    \* history: envelopes the host received
  gaps         \* history: sum of their dropped_before

seenVars   == <<received, gaps>>
streamVars == <<pc, port, dropped, closed, queue, listening, inner, counter, missed, produced,
                aside, seenVars>>

StreamInit ==
  /\ pc = "Between"
  /\ port = 0
  /\ dropped = 0
  /\ closed = FALSE
  /\ queue = <<>>
  /\ listening = TRUE
  /\ inner = 0
  /\ counter = 0
  /\ missed = [t \in Detached |-> {}]
  /\ produced = 0
  /\ aside = 0
  /\ received = 0
  /\ gaps = 0

PortPCs == {"Run", "RunSwap", "RunEmit", "FinalSwap", "Drain", "DrainSwap", "DrainEmit", "Close"}
InPort  == pc \in PortPCs
Room    == produced < MaxProduced

-----------------------------------------------------------------------------
(* LoopEventSink. *)

\* try_emit; once closed, always closed.
try_emit ==
  IF closed \/ ~listening
    THEN closed' = TRUE /\ UNCHANGED <<queue, dropped>>
    ELSE /\ IF Len(queue) < Capacity
              THEN queue' = Append(queue, dropped) /\ dropped' = 0
              ELSE queue' = queue /\ dropped' = dropped + 1
         /\ UNCHANGED closed

\* record_dropped(counter.swap(0)).
record_dropped == dropped' = dropped + counter /\ counter' = 0

-----------------------------------------------------------------------------
(* The runner. *)

\* A state or lifecycle event, between calls.
Publish ==
  /\ pc = "Between"
  /\ Room
  /\ produced' = produced + 1
  /\ try_emit
  /\ UNCHANGED <<pc, port, listening, inner, counter, missed, aside, seenVars>>

BeginPort ==
  /\ pc = "Between"
  /\ port < MaxPorts
  /\ pc' = "Run"
  /\ port' = port + 1
  /\ inner' = 0
  /\ counter' = 0
  /\ UNCHANGED <<dropped, closed, queue, listening, missed, produced, aside, seenVars>>

\* The call itself emits progress: in the runner's task, so in one step.
PortEmits ==
  /\ pc = "Run"
  /\ Room
  /\ produced' = produced + 1
  /\ IF inner < ProgressCapacity
       THEN inner' = inner + 1 /\ UNCHANGED counter
       ELSE counter' = counter + 1 /\ UNCHANGED inner
  /\ UNCHANGED <<pc, port, dropped, closed, queue, listening, missed, aside, seenVars>>

\* recv in the select, or try_recv after the call returned.
TakeProgress ==
  /\ inner > 0
  /\ \/ pc = "Run" /\ pc' = "RunSwap"
     \/ pc = "Drain" /\ pc' = "DrainSwap"
  /\ inner' = inner - 1
  /\ UNCHANGED <<port, dropped, closed, queue, listening, counter, missed, produced, aside, seenVars>>

PortReturns ==
  /\ pc = "Run"
  /\ pc' = "FinalSwap"
  /\ UNCHANGED <<port, dropped, closed, queue, listening, inner, counter, missed, produced, aside, seenVars>>

\* Mutant: the count is reset and not recorded.
SwapDropped_forgets ==
  /\ \/ pc = "RunSwap" /\ pc' = "RunEmit"
     \/ pc = "FinalSwap" /\ pc' = "Drain"
     \/ pc = "DrainSwap" /\ pc' = "DrainEmit"
  /\ counter' = 0
  /\ UNCHANGED <<dropped, port, closed, queue, listening, inner, missed, produced, aside, seenVars>>

\* The counter of the inner queue moves to the sink.
SwapDropped ==
  /\ \/ pc = "RunSwap" /\ pc' = "RunEmit"
     \/ pc = "FinalSwap" /\ pc' = "Drain"
     \/ pc = "DrainSwap" /\ pc' = "DrainEmit"
  /\ record_dropped
  /\ UNCHANGED <<port, closed, queue, listening, inner, missed, produced, aside, seenVars>>

\* Mutant: the runner waits for room in the public queue.
ForwardProgress_waits ==
  /\ ~listening \/ Len(queue) < Capacity
  /\ \/ pc = "RunEmit" /\ pc' = "Run"
     \/ pc = "DrainEmit" /\ pc' = "Drain"
  /\ try_emit
  /\ UNCHANGED <<port, listening, inner, counter, missed, produced, aside, seenVars>>

\* forward_progress and the ToolProgress emission.
ForwardProgress ==
  /\ \/ pc = "RunEmit" /\ pc' = "Run"
     \/ pc = "DrainEmit" /\ pc' = "Drain"
  /\ try_emit
  /\ UNCHANGED <<port, listening, inner, counter, missed, produced, aside, seenVars>>

\* try_recv finds the queue empty.
DrainDone ==
  /\ pc = "Drain"
  /\ inner = 0
  /\ pc' = "Close"
  /\ UNCHANGED <<port, dropped, closed, queue, listening, inner, counter, missed, produced, aside, seenVars>>

\* The receiver and the counter go out of scope with whatever they hold.
ClosePort ==
  /\ pc = "Close"
  /\ pc' = "Between"
  /\ inner' = 0
  /\ counter' = 0
  /\ UNCHANGED <<port, dropped, closed, queue, listening, missed, produced, aside, seenVars>>

EndLoop ==
  /\ pc = "Between"
  /\ pc' = "Over"
  /\ UNCHANGED <<port, dropped, closed, queue, listening, inner, counter, missed, produced, aside, seenVars>>

-----------------------------------------------------------------------------
(* Threads the tool left running: LoopToolProgress::emit in two steps. *)

\* try_send: queued, or refused because the queue is full.  On a closed queue
\* nothing happens.
DetachedSend(t) ==
  /\ InPort /\ Room
  /\ missed[t] = {}
  /\ produced' = produced + 1
  /\ aside' = aside + 1
  /\ IF inner < ProgressCapacity
       THEN inner' = inner + 1 /\ UNCHANGED missed
       ELSE missed' = [missed EXCEPT ![t] = {port}] /\ UNCHANGED inner
  /\ UNCHANGED <<pc, port, dropped, closed, queue, listening, counter, seenVars>>

\* fetch_add, on the counter of the port it was refused by.
DetachedCount(t) ==
  /\ missed[t] # {}
  /\ counter' = IF InPort /\ port \in missed[t] THEN counter + 1 ELSE counter
  /\ missed' = [missed EXCEPT ![t] = {}]
  /\ UNCHANGED <<pc, port, dropped, closed, queue, listening, inner, produced, aside, seenVars>>

-----------------------------------------------------------------------------
(* The host. *)

Receive ==
  /\ listening
  /\ queue # <<>>
  /\ received' = received + 1
  /\ gaps' = gaps + Head(queue)
  /\ queue' = Tail(queue)
  /\ UNCHANGED <<pc, port, dropped, closed, listening, inner, counter, missed, produced, aside>>

\* The host drops the LoopEventStream with all it holds.
DropStream ==
  /\ listening
  /\ listening' = FALSE
  /\ queue' = <<>>
  /\ UNCHANGED <<pc, port, dropped, closed, inner, counter, missed, produced, aside, seenVars>>

\* Steps the runner takes whatever the host and the threads do; that the call
\* returns is ensured by its deadline (AgentLoop, ModelDriver).
RunnerStep ==
  TakeProgress \/ PortReturns \/ SwapDropped \/ ForwardProgress \/ DrainDone \/ ClosePort \/ EndLoop

StreamOver == pc = "Over" /\ UNCHANGED streamVars

StreamNext ==
  \/ RunnerStep \/ Publish \/ BeginPort \/ PortEmits
  \/ \E t \in Detached : DetachedSend(t) \/ DetachedCount(t)
  \/ Receive \/ DropStream
  \/ StreamOver

StreamSpec == StreamInit /\ [][StreamNext]_streamVars

\* The runner's task is scheduled; nobody has to read the stream.
StreamFairSpec == StreamSpec /\ WF_streamVars(RunnerStep)

-----------------------------------------------------------------------------
(* Properties. *)

\* One pair for each loss that the envelopes of a queue count.
LossesIn(q) == UNION {{i} \X (1 .. q[i]) : i \in DOMAIN q}

\* Taken from the progress queue and not yet emitted.
InHand == IF pc \in {"RunSwap", "RunEmit", "DrainSwap", "DrainEmit"} THEN 1 ELSE 0

\* Refused by the full queue of the port that is running, and not yet counted.
Uncounted == Cardinality({t \in Detached : InPort /\ port \in missed[t]})

\* Everything on its way to the host, or counted as lost.
AccountedFor ==
  received + gaps + Len(queue) + Cardinality(LossesIn(queue)) + dropped + counter + inner
    + InHand + Uncounted

\* For as long as the host listens, every event and progress item is delivered,
\* on its way, or counted exactly once in a dropped_before, through both queues;
\* nothing is counted that was not lost.  Only items of threads that outlive
\* their call can go missing.
LossesCounted ==
  listening => AccountedFor <= produced /\ produced <= AccountedFor + aside

\* An unread, full or dropped stream never holds the loop back: with no fairness
\* for the host or the threads, the runner gets through its calls.
NeverBlocksRunner == <>(pc = "Over")

-----------------------------------------------------------------------------
(* A statement of the documentation that does not hold as written. *)

\* README.md: "lost events, including internal model and tool progress, are
\* counted in the next delivered event's dropped_before".
EveryLossCounted == listening => produced = AccountedFor
=============================================================================
