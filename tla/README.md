# A TLA+ model of MiniCore Runtime's agent loop

MiniCore Runtime is a Rust library that runs *one* live agent loop: a tokio task
(the runner) that alternates model requests and tool batches, while any number of
handles cancel it, update its configuration, answer its questions and wait for
its report. This directory models that loop, its control plane, its model driver,
its stream assembler and its event stream; the values that go in and out of it
(histories, prompts, questions, token counts); and hosts around it.
It checks them with TLC on small instances, and proves every safety property of a passing
run with TLAPS for all instances. Everything is translated from the Rust source under
`src/src/` and from the repository's own hosts (`examples/memory_agent.rs`, the observation tests);
`PROJECT.json` names the lines of each definition.

## 1. Inventory

| Part | Source | State it keeps | Operations | What makes it correct |
|---|---|---|---|---|
| Control plane | `agent_loop/control.rs`, `handle.rs` | an `AtomicU8`, the root token, and under one mutex: accepting flag, revisions, config slot, interaction slot | `mark_cancel`, `update`, `take_config`, `commit_revision`, `begin_final`, `finish_once`, `set_/take_interaction`, `answer` | one winner between cancel and finish; nothing enters a sealed loop; ordered revisions; answers reach only their own question |
| Runner: requests | `runner.rs`, `runner/model.rs`, `history.rs` | config, candidate revision, snapshot, counters, working history | boundaries A and F, prompt, issue, model result | no stale prompt goes out; indices, revisions and counts match the requests issued; inputs reach the report |
| Runner: tool batch | `runner/tools.rs`, `interaction.rs`, `tools/policy.rs` | the calls of a response and the position in them | policy, approval, tool, question, settle | exactly one result per call on every path; no lost slot; the batch stays under its request's config |
| Runner: ending | `runner.rs` | intended outcome, completion channel, state channel | `finish_loop`, `publish_final_states`, `panic_report` | one report, the winner's outcome, visible in a fixed order |
| Owner and waiters | `mod.rs`, `handle.rs`, `state.rs` | join handle, watch receivers | `start`, `shutdown`, drop, `wait`, `join` | waiters return, all with the same report |
| Port calls, deadlines | `port_call.rs`, `time.rs` | – | `run_port_call`, `effective_deadline` | cancel before deadline before result; the right deadline is blamed |
| Model driver | `model/driver.rs`, `driver/failure.rs`, `model/error.rs` | attempt, child tokens, deadline, backoff | attempts, retries | never a second delivery; bounded, spaced, in time; returns although the provider does not |
| Assembler | `driver/assembler.rs`, `value.rs`, `model/response.rs` | text, reasoning, tool calls, finish reason | `push` per event, `finish` | chunking is invisible; the response is what was streamed |
| Event stream | `event.rs`, progress queues in `runner/model.rs`, `runner/tools.rs` | public queue, drop counts, inner queue | `try_emit`, `record_dropped`, forward, drain | losses are counted once; the runner never blocks |
| Messages and requests | `model/message.rs`, `model/request.rs`, `history.rs`, `value.rs` | pending and completed call ids of the scan | validators, normalization, wire forms, `validate_tool_exchange` | accepts exactly the well-formed exchanges; what was issued survives the wire |
| Prompt provider | `prompt.rs`, `runner/model.rs` | the messages so far; the cut of a summary | `prepare`, `summary_message` | nothing dropped or reordered; no character cut in two |
| Tool set and config | `tools/set.rs`, `tools/tool.rs`, `execution.rs`, `model/port.rs` | frozen catalog, frozen descriptor, revisions | `ToolSetBuilder`, `ExecutionConfig::new`, `validate_against_limits` | a batch finds the tools of its own request; revisions never go back. Built by sequential code before a config is shared; partly modelled, section 6 |
| Tool values | `tools/input.rs`, `tools/policy.rs`, result constructors of `runner/tools.rs` | one call's question and answer | `validate`, `encode_result`, `denied_result`, `completed_result`, ... | no `expect` fires; outputs fit; the answer told Ok is the one recorded |
| Usage totals | `usage.rs`, `model/usage.rs` | one optional count per field | `add` | the exact sum, or an ending; never half an addition (a panicked loop's report knows no usage) |
| Hosts | `examples/memory_agent.rs`, `tests/host_observation_contract.rs` | a history over many loops; observed indices | fold, drop, compact, undo, restart; record inputs | a session stays usable; inputs can be attributed to requests |
| Ids, errors, replay blobs | `ids.rs`, `error.rs`, `model/replay.rs`, ... | – | – | not modelled, section 6 |
| Provider gate, scripts | `provider-gate/`, `scripts/` | – | – | not modelled: not part of the library at run time |

How they interact. The runner owns the working history and all publication. It
shares `LoopControl` with the handles: one atomic word and one mutex are the only
places where threads meet. It calls host code (prompt, model, policy, tool) only
through `run_port_call` or the driver, which race the call against the root token
and a deadline and catch panics; `LoopInputs::take` and destructors of host values
run on its task without that isolation. It publishes to a state watch channel, a
completion watch channel and the bounded event stream.

What is hard about it: the gap inside `mark_cancel` between winning and cancelling
the token; `update`, which checks before it locks; outcomes chosen before the seal;
prompts that go stale while they are prepared; batches interrupted in the middle;
answers racing deadlines; host code that panics before, during and after
publication; the task dropped at an await; two bounded queues with two drop
counters; delivery-aware retries against a provider whose errors may lie; CRLF
pairs cut in two; call ids used again in a later exchange; histories cut, compacted and
reloaded by their host; answers checked in one place and used in another; token counts at
the top of their type. `PROJECT.json` lists 39 hazards, each at its line with the
properties that would catch it.

## 2. Modules

| Module | What it is |
|---|---|
| `LoopControl` | the control plane; `ControlSpec` runs it for an arbitrary client |
| `AgentLoop` | extends `LoopControl`: runner, channels, owner, waiters, faults |
| `MCAgentLoop` | instances of `AgentLoop` for TLC |
| `LoopContract` | the abstract ending: winner, seal, report, gone |
| `ModelDriver` | one model request: attempts, retries, deadlines on a clock |
| `Assembler` | one provider stream into one response |
| `EventStream` | public queue, inner progress queues, counters |
| `Messages` | operators: texts, parts, messages, history items, their projection, the exchange scan, the wire |
| `PromptCheck` (`MCPromptCheck`) | one prompt from the history, or from any other provider, to an issued request; a summary is cut byte by byte |
| `Session` (`MCSession`) | a host's history over several loops, and the token counts of each |
| `ToolQuestion` (`MCToolQuestion`) | what a batch of calls says: policies' reasons, questions, answers, outputs |
| `InputBoundaries` (`MCInputBoundaries`) | extends `AgentLoop` by the observer of the contract tests |
| `LoopControlProofs` | theorems about the control plane |
| `AgentLoopProofs`, `LoopRequestProofs`, `LoopHistoryProofs` | theorems about the loop: its refinements and endings; its types, requests, batches and observers; its history and the observer's marks |
| `ModelDriverProofs` | theorems about the driver and the assembler |
| `PromptCheckProofs`, `ToolQuestionProofs` | theorems about prompts, and about what batches say |
| `HostProofs` | theorems about what a host gets: `EventStream` and `Session` |

`AgentLoop` composes runner and control plane by calling the control plane's
actions inside its own. `AgentLoop => ControlSpec` (`ImplementsControl`) and
`AgentLoop => LoopContract` (`ImplementsContract`, with `sealed` mapped to the
chosen outcome once the state word is `FINISHED`) are both checked and proved.
`ModelDriver` and `Assembler` refine the model call, which `AgentLoop` takes as
one step with every outcome; `EventStream` is beside the loop, since nothing in it
feeds back into the runner.

`InputBoundaries` composes the observer of the contract tests with the whole loop: it is
conjoined to every step of `AgentLoop`, and `requests` checks both at once.
`PromptCheck` and `Session` open up what `AgentLoop` takes as a choice (`BuildFails`, the
overflow ending), and `ToolQuestion` the payloads that `AgentLoop`'s interactions leave
out. `AgentLoop`'s `HistoryBalanced` is what lets `Session`'s loop append exactly one
result per call on every path, the assembler's `ResponseIsStream` what lets it take only
responses that are valid messages. `Session` takes the request check as what it decides
(`WellFormed`); that the scan of the code decides just that, for prompts of any length, is
`CheckDecides` of `PromptCheck`, checked there and proved (`CheckIsExact`).

### What one action is

- **Control plane.** One compare-exchange, one critical section or one
  `CancellationToken::cancel()`. `mark_cancel` is the exchange, then
  (`cancel_token`) the token, by the same thread and arbitrarily later; `update` is
  its unlocked check (`begin_update`), then the critical section
  (`commit_update`), which may find the loop closed. `finish_once`'s two exchanges
  are one action: only `mark_cancel` writes the word outside the mutex, and only
  from `NONE`. `answer` is one action although it reads the word inside its
  critical section: a cancel that lands after that read is the same as one that
  lands after the call. Calls that return an error change nothing and are no steps.
- **Runner.** From one await or control-plane section to the next. `take_boundary`
  is one action: between its `take_config` and its `inputs.take()` a handle can
  only do what it could also do after both. The ending is one action per
  publication, because observers can see each.
- **Port calls.** One action for call and outcome. `run_port_call(timeout)` is the
  set of outcomes the biased select allows in the current state: a cancelled token
  first, then a passed deadline, then the future. A timeout is a class: `Short`,
  `Long` (at least the 24 h horizon that stands in for a missing deadline; ties go
  to the turn) or `Overflow`. Tokio fires a timer up to a millisecond late; in that
  window the code takes a result the model treats as having come just before the
  deadline.
- **Host.** `HandleStep` is any cancel, shutdown, owner drop, update and answer, at
  any time. `WaitCalled/WaitChecks/WaitWakes` are `LoopHandle::wait`; `WakesTo` is
  tokio's `watch::changed` (external): a new version is reported before closure.
- **Faults.** `BoundaryPanics`: `LoopInputs::take` or the displaced config's
  destructor panics in `take_boundary`. `PortPanics`: a port future's destructor.
  `TailPanics`: a config's destructor after the report. `TaskAborted`: the runtime
  drops the task at an await. Each is switched by a constant.

### What is abstracted

Configs are opaque, with a tool set and perhaps a policy. History items keep kind,
request and position; result payloads only their outcome. A prompt is what it was
prepared from (history length and config), which is what staleness is about. A
rejected prompt (`BuildFails`), an unusable response, an overflowing usage total
and a failing id generator are choices the environment makes. `u32`/`u64` counters
that only grow and saturate are naturals, except `ConfigRevision`, whose saturation
is kept with `MaxRevision` as its ceiling. Rejected calls, events and diagnostics
carry no data. In the assembler a character is one of the classes normalization
distinguishes and one byte, argument text is its length, and whether it parses is a
choice. In the driver the kinds nothing tells apart are one kind, and providers may
return any error `ModelError`'s constructors admit, at any time. In messages a text is a
class (empty, clean, with a control character, too long), arguments and outputs are left
out, except that a summary in `PromptCheck` is its length with the offsets of characters
and control characters; in `ToolQuestion` a text is its length, what escaping adds, and
whether it is clean. A usage is two optional counts. In the event
stream, emission from inside the call is one step, since it happens on the runner's
own task; emission by a detached thread is two, `try_send` and `fetch_add`.

## 3. Runs

| Run | Instance | States | Shows |
|---|---|---|---|
| `requests` | 1 updater, 2 updates, 2 inputs, up to 3 requests, the observer | 2.3 M | `TypeOK`, `NoStaleRequest`, `IssuedRequestsAccounted`, `InputsReported`, `BatchPinnedToRequest`, `MarksNameFirstRequest`, `VerdictMatchesWinner`, `SealedStaysClosed`, `ImplementsControl`, `ImplementsContract` |
| `tool_batches` | batches of 2 calls, policy, 4 interactions, 1 round, with and without deadline, policy or tool timeout beyond the clock | 0.8 M | `HistoryBalanced`, `ToolRoundsBounded`, `InteractionNeverLost`, `OpenSlotIsShown`, `AnswerReachesOwnSlot` |
| `endings` | fairness; a waiter, deadline, panics, abort, port timeouts at and beyond the horizon and the clock | 0.3 M | `ObservationOrder`, `ReportHonoursCancel`, `ReportIsFinal`, `DeadlineOutcomeIsConfigured`, `CancelEndsLoop`, `DeadlineEndsLoop`, `WaitersReturn` |
| `driver` | 3 attempts, clock 0..9, turn 5 or 9, timeout 5, 7 or beyond the clock, hints 0, 2, 4 | 0.8 M | `AtMostOneDelivery`, `TokensReleased`, `FailureMapped`, `RetriesAreSpaced`, `DriverReturns` |
| `assembly` | 7 events, deltas up to 3 characters, 2 tool ids, an unoffered tool | 0.8 M | `ChunkingInvisible`, `ProgressIsText`, `ResponseIsStream` |
| `stream` | capacities 2 and 1, 2 calls, 7 items, 1 detached thread | 0.4 M | `LossesCounted`, `NeverBlocksRunner` |
| `prompt` | 8 part lists, 2 ids, 2 history items or 4 messages, all 215 summaries of up to 5 bytes | 4.0 M | `CheckDecides`, `WireIsInvisible`, `CutIsLongest` |
| `session` | 2 turns, 2 requests and 1 input each, 3 usages with counts up to 3 | 1.7 M | `SessionStaysUsable`, `TotalIsSum` |
| `questions` | 2 calls, 5 texts, 8 choice lists, every output limit | 94 k | `OutputsFit`, `ResultIsTheAnswer`, `OnlyApprovedRuns` |
| `panic_inputs`, `panic_cancel`, `lost_progress` | – | – | documentation that does not hold as written, section 5 |

The control plane has no run of its own: every runner step is checked to be one of its
steps (`ImplementsControl`), and its properties are proved for any client (section 4).
`AgentLoop`'s type invariant includes the control plane's; in the driver and the control
plane types are part of the inductive invariants that are proved.

Bounds, and why they are enough to meet the interesting cases:

- `MaxRevision` 2 in `requests` is the ceiling of the code, not only a bound: the
  saturated case, in which further updates share a revision, is part of the run.
- `MaxRequests` 2 or 3 is the number of requests after which the model calls no
  more tools: a request, a batch, a second request with another config, and the
  last answer. `MaxInputs` 2: inputs at boundary A, at F, at both, or never.
- `MaxCalls` 2 and `MaxInteractions` 4 let both calls of a batch ask for approval
  and ask a question, so one question can be over while the next is open.
- `Clock` 9 with base delay 1, cap 3 and three attempts lets a retry fit the
  deadline when planned and miss it when it is due, and a tie of turn and timeout. The
  timeout of 99 is beyond `MaxInstant` 50: `now + timeout` overflows.
- `MaxEvents` 7 is two tool calls of three events and a Finish, or any six deltas;
  `MaxDelta` 2 plus one lets a delta be too long, and a CR end one delta with empty
  ones before the LF of the next.
- `MaxProduced` 7 overfills both queues of the two calls.
- `MaxMessages` 4 is two exchanges with the same id, which with one id too many or too
  few meets each of the scan's errors; `MaxItems` 2 is a call with its result, or a
  summary with any other item. `session` puts longer histories through the same check.
- `Ceiling` 5 with a prefix of 1 leaves room for one character of four bytes: the cut
  falls into it, at its end, or steps back to 1 or 0; every text up to it is tried.
- `session`: the first turn can be interrupted in any way, the second has to live with
  what is left, after any sequence of compactions, undos and restarts in between.
  `MaxCount` 3 plays the part of `u64::MAX`: only sums that fit and sums that do not are
  told apart.
- `questions`: lengths up to 5 with limits 1 to 5 put each text, fixed message and
  encoding on both sides of its limit, and lists of choices on both sides of theirs.

No run uses symmetry. Deadlock is checked in all of them; the one-shot systems stutter
explicitly when their task is gone (`Terminated`, `DriverDone`, ...).

### Fairness

`FairSpec` assumes weak fairness of the runner (the runtime polls a woken task, and
each port call has a timeout, so it returns), of the second half of a winning
`mark_cancel` (straight-line code), of each waiter once parked, and of time. It
assumes nothing of the host: nobody need answer, update or cancel. Under it a loop
without deadline may wait for an answer for ever, which is why `CancelEndsLoop` and
`DeadlineEndsLoop` have the premises they have. `DriverFairSpec` assumes fairness of
the driver and of time, none of the provider. `StreamFairSpec` assumes it of the
runner, none of the reader or of detached threads; that a call returns is what the
other two show.

`MaxRequests` cuts only the model's appetite for tools, so it cannot make a liveness
property true: with a deadline or a cancel the loop ends at any request.

## 4. Proofs

All are for every value of the constants that satisfies the named assumptions: any sets of
configs, tools, threads, waiters, texts, call ids and part lists, and any bounds, so also
for runs of any length. The assumptions type the constants (`ControlAssumption`,
`LoopAssumption`, `AssemblerAssumption`, `PromptAssumption`, `MessagesAssumption`,
`SessionAssumption`, `QuestionAssumption`), and say what the options' own check
enforces: a retry policy has at least one attempt and a base delay that is positive and at
most the longest one (`DriverAssumption`); queues have room for one item, and there are
finitely many threads (`StreamAssumption`).

- **`LoopControlProofs`.** `ControlInv` adds to the types that there is at most one
  pending config and one slot, ties the state word to verdict and winner
  (`TokenImpliesDecision` too), and carries the control plane's four properties. They
  are inductive only together: that no reply is there when a slot is opened needs
  the numbering of slots, and the order of revisions needs that a taken revision is
  below `nextRevision`. Results: `OneWinner`, `SealAndRevisions`,
  `AnswersReachOwnSlot`, and the action property `VerdictIsFinal`.
- **`AgentLoopProofs`.** `LoopImplementsControl`: every action of the loop is an
  action of the control plane or leaves it unchanged; the only non-trivial step is
  that the revision committed at `Issue` is the current or the last taken one, which
  needs the invariant `RefineInv`. `LoopControlSafety` then carries `ControlInv`
  over. `EndInv` relates where the runner is in its ending to the state word, the
  verdict, the chosen outcome and the channel; from it follow `WinnerIsReported`,
  `OneReport` and, when host code does not panic on the runner's task,
  `LoopImplementsContract` (step simulation with the mapping above).
  `InteractionsAreNotLost` is inductive as it stands.
  `HistoryIsAppendOnly` needs only that the history is a sequence of items and that the counters
  named in items are numbers (`HistoryInv`).
  `NoRequestIsStale` rests on `PromptInv`: from the preparation to the issue the
  snapshot is the config, and once rendered the prompt is of the whole history and of
  that config; whatever is taken in between sends the runner back to the top.
- **`LoopRequestProofs`.** One invariant per question, on top of the ones above, since each
  needs different facts of the same steps. `LoopTypes` gives `LoopIsTyped`. `IssueInv`:
  issued requests are numbered without a gap and the revision in force is the last one's;
  from the issue to the end of the batch, config, index and published state stay those of
  the last request (`RequestsAreAccounted`, `BatchKeepsItsRequest`). `PathInv`: an ending
  that blames the round limit or a deadline was entered when the limit was reached or when
  something in the options let a deadline pass (`RoundsAreBounded`,
  `DeadlineIsConfigured`). `ReportInv` and `ObsInv`: after publication the runner's locals
  still are what the report says, or are gone; final states are published behind the seal,
  the runner leaves behind the token (`ObserversAreOrdered`). `ShownInv`: the newest
  interaction is shown exactly while the runner waits for it (`OpenSlotsAreShown`).
- **`LoopHistoryProofs`.** `HistoryBalanced` says nothing of the inside of a batch, where
  it does not hold; `BalanceInv` adds that the history is then a balanced one, the
  assistant item of the running request and the results of the calls before the current
  one (`OpenExchange`). Every way out of a batch settles one call or all that are left,
  which is why the three families of steps `SettlesOne`, `SettlesAll` and `Elsewhere` cover
  `Next`. `SteerInv` numbers the inputs in the history (`InputsAreReported`). `MarksInv`
  relates the observer's marks to what each request showed: a mark names a request not
  yet issued until the prompt that shows it goes out (`MarksAreRight`), which needs
  `PromptInv` for the inputs taken while a prompt was prepared.
- **`ModelDriverProofs`.** `DriverInv`: the effective deadline is the smaller of the
  two with its source; the attempts that may have been delivered are at most the
  current one, and none while a retry is planned; live tokens are the running
  attempt's; a returned deadline source means the deadline has passed; a finished call's
  path is `Cancelled` exactly when the token is; with a timeout beyond the clock no attempt
  was ever started (`OverflowInv`). Results:
  `RetryNeverDuplicates`, `StartsAreBounded`, `NoTokenLeaks`,
  `DeadlineIsBlamedRightly`, `NoLateStart`. `SpacingInv` carries the planned delay from
  the failure to the check before the next attempt (`RetriesWait`); that the delay is never
  below the base needs the bounds of the recursive function `exponential`.
  `AssemblerInv`: `TextInv` makes the flag kept between two deltas the last character
  received, and the text so far the canonical form of all that came, so that
  `CutsAreInvisible` and `ProgressIsAssembled`; `CallInv` ties started calls, their
  arguments and the slots of the response; `FinishInv` that `Finish` saw them complete
  (`ResponsesAreStreams`). The canonical form is stated without recursion (`IsCanonical`:
  which characters are kept, and what stands in their places), and the recursive
  `normalize_model_text` is proved to have it for every text.
- **`PromptCheckProofs`.** `CutInv`: while `summary_message` moves its cut back, what it
  passed holds no character boundary that would fit; a text's start is a boundary, so
  the loop stops at the latest there (`SummaryIsCutRight`). `CheckInv`: at each message of
  the scan, the pending and completed ids are those of the exchange that is open, and every
  exchange before it is closed (`Follows`); so the verdict is well-formedness, both ways
  (`CheckIsExact`). `WireInv` adds that what a default prompt shows was projected
  (`IssuedSurvivesTheWire`).
- **`ToolQuestionProofs`.** `QuestionInv`: an answer told Ok is admissible for its
  interaction and the only one; a waiting call has the newest interaction, open or answered
  but not both; past its policy a call has only an approval behind it, which was given. The
  results are right (`RecordedOutputsFit`, `AnswersDecideResults`) only because the
  interactions of different calls are kept apart by that. `GateInv` does the same for the
  calls the policy did not allow by itself (denied, failed, malformed or to be approved) and
  those that ran (`GatedToolsAreApproved`).
- **`HostProofs`.** `StreamInv`: between calls no inner queue is left, no thread holds a
  refused item of a call to come, and, while the host listens, everything offered is in one
  place; `Late` is what may still go missing, by where the call is in its return
  (`LossesAreCounted`). `UsageInv`: while a loop runs, its total, the sum over
  its delta and the sum over all responses it received agree; an ending leaves out at most
  the last response, from the delta or, on overflow, from both (`TotalsAreSums`; nothing is
  claimed of the report of a panicked loop). `UsableInv`: outside a batch the
  history is *paired* (behind each item stand the results of its calls, each once), inside
  it is so up to the assistant item, whose calls are the results behind it and the rest of
  the batch (`Halfway`). Pairing is what the request check asks for, what a cut between
  exchanges keeps on both sides, and what a restart does not touch
  (`SessionsStayUsable`).

Two devices replace what the provers cannot do. Induction over data: `SetInduction` takes
the *set* of numbers for which a fact holds instead of a predicate (from the library's
well-foundedness of `Nat`, `LeastNat`), which the provers can instantiate; recursive
functions are unfolded with it. Sums and ranks: both are cardinalities, of a set of pairs
(`Tokens`, `LossesIn`) or of the calls before a position (`CallsBefore`), and follow from
the theorems about finite sets.

Only model-checked: the liveness properties, `CancelEndsLoop`, `DeadlineEndsLoop`,
`WaitersReturn`, `DriverReturns` and `NeverBlocksRunner`, which need fairness and ENABLED
and which TLAPS does not handle. Only proved, not run: `RevisionsOrdered`,
`HistoryGrows`, `StartsInTime`, `VerdictStands`, which the proofs cover for every instance.

## 5. Where documentation and code differ

- `panic_inputs`. The report of a runner that panicked has an empty history, so
  inputs it had taken are in no report. `docs/contracts/cancellation.md` promises
  them "for every ending". `InputsReported` is the statement that holds.
- `panic_cancel`. `panic_report` ignores `CancelledPrior`: a cancel that returned
  true is reported as `Failed(Internal)`. `control.rs` calls the first winner "the
  authoritative outcome". `ReportHonoursCancel` is the statement that holds.
- `lost_progress`. Progress of a thread that outlives its tool call can vanish
  uncounted; `README.md` says lost progress is counted. `LossesCounted` is the
  statement that holds: exact for everything emitted from inside calls, and at most
  the detached items missing.

Observations without a run of their own:

- With no loop deadline, `turn_deadline` is 24 h from each call, so a prompt, policy or
  tool timeout of 24 h or more ends the loop as `Cancelled(Deadline)` although no deadline
  was configured (`DeadlineOutcomeIsConfigured` says exactly when this can happen;
  `endings` contains the case). The constant's comment and `cancellation.md` say that
  "per-port timeouts govern" without an artificial cap.
- `prompt.md` says that "the default provider always projects a legal message for any
  legal maximum `BoundedText`". A `BoundedText` may hold control characters, a system
  message may not: such a summary makes `prepare` fail with `InvalidHistory`, in this and
  every later turn. The second half of `CutIsLongest` is the statement that holds.
- `agent-loop.md` says that usage totals sum "each reported field independently" and that
  a field is `None` "only if no request reported it". `add` keeps all old totals when one
  field overflows, and the loop ends; a field only the last response reported is then
  `None`. The report of a panicked loop has `Usage::default()`, whatever was received.
  `TotalIsSum` says what holds in these two endings, no half sums after an overflow and
  nothing after a panic, and the exact sum over all responses in every other state.

## 6. Not modelled, and what is left

Not modelled:

- `ids.rs`, `model/model_ref.rs`, `error.rs`, the shape check of `model/replay.rs`, the
  wire form of `ModelError`: each is one pass over one string or JSON value. There is no
  state and no order of steps to explore; a table of inputs in a unit test is the better
  tool.
- `ToolSetBuilder`, `ExecutionConfig::new` and `validate_against_limits`: sequential code
  that runs once on the host's thread and freezes what it was given; configs enter the
  models as opaque values with a tool set. `Usage::total_tokens` and the wire forms of
  questions and answers read a value and change nothing.
- `examples/agent_loop.rs`: four demos of one schedule each; the host of `AgentLoop` takes
  every schedule.
- The provider gate and the scripts: compile-time and repository checks.
- The drain of `run_tool_port` against an emitter without bound (the one hazard without a
  property): whether it ends depends on the relative speed of two threads, about which
  the code makes no promise that could be stated as fairness.

Left to prove: the liveness properties' safety halves that can be stated without fairness
(for instance that a cancelled loop never issues another request), and that the abstract
driver call of `AgentLoop` is refined by `ModelDriver`.
