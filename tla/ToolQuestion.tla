------------------------------ MODULE ToolQuestion ------------------------------
(***************************************************************************)
(* What one tool call says: the policy's reason, the question a tool asks, *)
(* the answers hosts give and the output recorded (src/tools/input.rs,     *)
(* src/tools/policy.rs, src/interaction.rs, the result constructors of     *)
(* src/agent_loop/runner/tools.rs and LoopControl::answer).  The fields of *)
(* questions, decisions and answers are public: a tool, a policy or a host *)
(* may fill them with any BoundedText.  A text is its length in bytes, how *)
(* many bytes JSON escaping adds to it, and whether it has no control      *)
(* character but newline and tab.                                          *)
(***************************************************************************)
EXTENDS Naturals, Sequences

CONSTANTS
  Texts,          \* the texts tools, policies and hosts use
  Choices,        \* the lists of choices tools offer
  MaxAnswer,      \* 8_192: prompts and text answers
  MaxChoice,      \* 1_024: one choice
  MaxChoices,     \* 32
  MaxPolicyText,  \* MAX_TOOL_POLICY_TEXT_BYTES
  MaxText,        \* MAX_TEXT_BYTES
  TextFrame,      \* bytes of {"answer":""}
  ChoiceFrame,    \* bytes of {"choice_index":,"choice":""}
  FixedLength,    \* bytes of each fixed message
  MaxCalls,       \* bound: the calls of the batch
  MaxIndex        \* bound: the largest index a host sends

Fixed == {"tool denied", "tool failed", "tool output too large", "tool batch interrupted"}

ASSUME QuestionAssumption ==
  /\ \A t \in Texts : /\ t.length \in 0 .. MaxText /\ t.escapes \in 0 .. t.length
                      /\ t.clean \in BOOLEAN
  /\ Choices \subseteq Seq(Texts)
  /\ {MaxAnswer, MaxChoice, MaxChoices, MaxText, TextFrame, ChoiceFrame, MaxCalls, MaxIndex} \subseteq Nat
  /\ MaxPolicyText \in 0 .. MaxText
  /\ FixedLength \in [Fixed -> 0 .. MaxText]

-----------------------------------------------------------------------------
(* The values. *)

valid_text(t, max, allowEmpty) == (allowEmpty \/ t.length > 0) /\ t.length <= max /\ t.clean

NoOutput == [length |-> 0, escapes |-> 0, clean |-> TRUE]

Decisions ==
  {[decision |-> "Allow"], [decision |-> "Unavailable"]}
    \cup [decision : {"Deny", "RequireApproval"}, text : Texts]

Approval == [kind |-> "Approval"]
ToolInputs == [kind : {"Text", "SingleChoice"}, prompt : Texts, choices : Choices]
Answers ==
  [answer : {"AllowOnce", "Deny"}]
    \cup [answer : {"Text"}, text : Texts]
    \cup [answer : {"Choice"}, index : 0 .. MaxIndex]

\* ToolDecision::validate.
DecisionValid(d) ==
  d.decision \in {"Deny", "RequireApproval"} => valid_text(d.text, MaxPolicyText, FALSE)

\* ToolInputRequest::validate.
RequestValid(q) ==
  /\ valid_text(q.prompt, MaxAnswer, FALSE)
  /\ Len(q.choices) <= MaxChoices
  /\ \A i \in DOMAIN q.choices : valid_text(q.choices[i], MaxChoice, FALSE)
  /\ q.kind = "SingleChoice" => q.choices # <<>>

\* Mutant: an index one past the last choice is taken.
AnswerValid_past_end(a, k) ==
  CASE k.kind = "Approval"     -> a.answer \in {"AllowOnce", "Deny"}
    [] k.kind = "Text"         -> a.answer = "Text" /\ valid_text(a.text, MaxAnswer, FALSE)
    [] k.kind = "SingleChoice" -> a.answer = "Choice" /\ a.index <= Len(k.choices)

\* InteractionAnswer::validate and ToolInputAnswer::validate; indexes count from 0.
AnswerValid(a, k) ==
  CASE k.kind = "Approval"     -> a.answer \in {"AllowOnce", "Deny"}
    [] k.kind = "Text"         -> a.answer = "Text" /\ valid_text(a.text, MaxAnswer, FALSE)
    [] k.kind = "SingleChoice" -> a.answer = "Choice" /\ a.index < Len(k.choices)

Digits(n) == IF n < 10 THEN 1 ELSE 2

\* encode_result can take the answer apart.
Encodes(a, q) == a.answer = "Choice" => a.index + 1 \in DOMAIN q.choices

\* encode_result: canonical JSON, without control characters.
encode_result(a, q) ==
  LET t == IF a.answer = "Text" THEN a.text ELSE q.choices[a.index + 1]
  IN  [length  |-> t.length + t.escapes
                     + (IF a.answer = "Text" THEN TextFrame ELSE ChoiceFrame + Digits(a.index)),
       escapes |-> 0,
       clean   |-> TRUE]

-----------------------------------------------------------------------------
(* The batch. *)

VARIABLES
  limit,      \* LoopLimits::max_tool_output_bytes
  phase,      \* "Policy", "Execute", "Waiting", "Leaving", "Done", "Ended" or "Panicked"
  call,       \* the current call
  question,   \* {} or {what the runner waits for}
  slot,       \* {} or {InteractionSlot}
  reply,      \* {} or {answer}: the oneshot
  results,    \* ToolResultHistory of the calls settled
  asked,      \* history: call and kind of every interaction; its id is its place
  told,       \* history: the answers hosts were told Ok for
  gated,      \* history: the calls that the policy denied, failed, or wanted approved
  executed    \* history: the calls whose tool ran

questionVars == <<limit, phase, call, question, slot, reply, results, asked, told, gated, executed>>

QuestionInit ==
  /\ limit \in 1 .. MaxText
  /\ phase = "Policy" /\ call = 1
  /\ question = {} /\ slot = {} /\ reply = {}
  /\ results = <<>> /\ asked = <<>>
  /\ told = {} /\ gated = {} /\ executed = {}

static_output(m) ==
  IF FixedLength[m] <= limit THEN [NoOutput EXCEPT !.length = FixedLength[m]] ELSE NoOutput

Result(c, outcome, output) == [call |-> c, outcome |-> outcome, output |-> output]

\* The call has its result: the batch goes on.
Settle(outcome, output) ==
  /\ results' = Append(results, Result(call, outcome, output))
  /\ call' = call + 1
  /\ phase' = IF call < MaxCalls THEN "Policy" ELSE "Done"
  /\ question' = {} /\ reply' = {} /\ slot' = {}

Panic ==
  /\ phase' = "Panicked"
  /\ UNCHANGED <<call, question, slot, reply, results>>

\* ToolStep::End: this call and the ones behind it are settled as cancelled.
End ==
  /\ results' = results \o [i \in 1 .. MaxCalls - call + 1 |->
                              Result(call + i - 1, "Cancelled", static_output("tool batch interrupted"))]
  /\ phase' = "Ended"
  /\ question' = {} /\ reply' = {} /\ slot' = {}
  /\ UNCHANGED call

\* wait_interaction, up to the wait; a slot already open is an internal error.
Ask(k) ==
  IF slot # {}
    THEN End /\ UNCHANGED asked
    ELSE /\ asked' = Append(asked, [call |-> call, kind |-> k])
         /\ question' = {k}
         /\ slot' = {[id |-> Len(asked) + 1, expected |-> k]}
         /\ reply' = {}
         /\ phase' = "Waiting"
         /\ UNCHANGED <<call, results>>

\* Mutant: a denied call is run all the same.
denied_result_runs(reason) == phase' = "Execute" /\ UNCHANGED <<call, question, slot, reply, results>>

\* denied_result: a reason that fits, or the fixed message; the reason must make an output.
denied_result(reason) ==
  IF \E t \in reason : t.length <= limit
    THEN LET t == CHOOSE u \in reason : TRUE
         IN  IF valid_text(t, MaxText, TRUE) THEN Settle("Denied", t) ELSE Panic
    ELSE Settle("Denied", static_output("tool denied"))

\* decide_policy, and what run_tool_call does with the decision.
Decide(d) ==
  /\ phase = "Policy"
  /\ gated' = IF d.decision = "Allow" THEN gated ELSE gated \cup {call}
  /\ CASE ~DecisionValid(d)                -> End /\ UNCHANGED asked
       [] d.decision = "Unavailable"       -> denied_result({}) /\ UNCHANGED asked
       [] DecisionValid(d) /\ d.decision = "Deny" -> denied_result({d.text}) /\ UNCHANGED asked
       [] DecisionValid(d) /\ d.decision = "RequireApproval" -> Ask(Approval)
       [] d.decision = "Allow"             ->
            phase' = "Execute" /\ UNCHANGED <<call, question, slot, reply, results, asked>>
  /\ UNCHANGED <<limit, told, executed>>

\* completed_result.
completed_result(o) ==
  IF o.length <= limit THEN Settle("Success", o)
                       ELSE Settle("Failed", static_output("tool output too large"))

\* Mutant: an answer that does not fit is recorded without its text.
provided_input_result_empties(o) ==
  Settle("InputProvided", IF o.length <= limit THEN o ELSE NoOutput)

\* provided_input_result.
provided_input_result(o) ==
  IF o.length <= limit /\ valid_text(o, MaxText, TRUE)
    THEN Settle("InputProvided", o)
    ELSE Settle("Failed", static_output("tool output too large"))

\* The tool runs ...
Executes == phase = "Execute" /\ executed' = executed \cup {call} /\ UNCHANGED <<limit, told, gated>>

\* ... and completes: ToolOutput's field is private, so its text is valid ...
Completes(o) ==
  /\ valid_text(o, MaxText, TRUE)
  /\ Executes
  /\ completed_result(o)
  /\ UNCHANGED asked

\* ... or asks ...
Asks(q) ==
  /\ Executes
  /\ IF RequestValid(q) THEN Ask(q)
                        ELSE Settle("Failed", static_output("tool failed")) /\ UNCHANGED asked

\* ... or fails, times out or panics.
Fails ==
  /\ Executes
  /\ Settle("Failed", static_output("tool failed"))
  /\ UNCHANGED asked

\* Mutant: the interaction's id is not compared.
Answer_any_id(id, a) ==
  \E s \in slot :
    /\ AnswerValid(a, s.expected)
    /\ slot' = {} /\ reply' = {a}
    /\ told' = told \cup {[id |-> id, answer |-> a]}
    /\ UNCHANGED <<limit, phase, call, question, results, asked, gated, executed>>

\* LoopControl::answer, under the lock; an answer refused changes nothing.
Answer(id, a) ==
  \E s \in slot :
    /\ s.id = id
    /\ AnswerValid(a, s.expected)
    /\ slot' = {} /\ reply' = {a}
    /\ told' = told \cup {[id |-> id, answer |-> a]}
    /\ UNCHANGED <<limit, phase, call, question, results, asked, gated, executed>>

\* The answer comes through, and run_tool_call goes on with it.
Resolves ==
  /\ phase = "Waiting"
  /\ \E a \in reply, k \in question :
       IF k.kind = "Approval"
         THEN CASE a.answer = "AllowOnce" ->
                     /\ phase' = "Execute" /\ question' = {} /\ slot' = {} /\ reply' = {}
                     /\ UNCHANGED <<call, results>>
                [] a.answer = "Deny" -> denied_result({})
                [] OTHER -> End
         ELSE IF a.answer \notin {"Text", "Choice"} THEN End
              ELSE IF Encodes(a, k) THEN provided_input_result(encode_result(a, k)) ELSE Panic
  /\ UNCHANGED <<limit, asked, told, gated, executed>>

\* The cancellation or the deadline wins the wait; the slot is still open ...
WaitInterrupted ==
  /\ phase = "Waiting"
  /\ phase' = "Leaving"
  /\ UNCHANGED <<limit, call, question, slot, reply, results, asked, told, gated, executed>>

\* ... until it is taken, and with it an answer that came in between.
Leaves ==
  /\ phase = "Leaving"
  /\ End
  /\ UNCHANGED <<limit, asked, told, gated, executed>>

\* The cancellation or the loop's deadline ends a policy or tool call.
CallInterrupted ==
  /\ phase \in {"Policy", "Execute"}
  /\ End
  /\ executed' = IF phase = "Execute" THEN executed \cup {call} ELSE executed
  /\ UNCHANGED <<limit, asked, told, gated>>

QuestionDone == phase \in {"Done", "Ended", "Panicked"} /\ UNCHANGED questionVars

QuestionNext ==
  \/ \E d \in Decisions : Decide(d)
  \/ \E o \in Texts : Completes(o)
  \/ \E q \in ToolInputs : Asks(q)
  \/ Fails
  \/ \E id \in DOMAIN asked, a \in Answers : Answer(id, a)
  \/ Resolves
  \/ WaitInterrupted
  \/ Leaves
  \/ CallInterrupted
  \/ QuestionDone

QuestionSpec == QuestionInit /\ [][QuestionNext]_questionVars

-----------------------------------------------------------------------------
(* Properties. *)

\* Whatever tools, policies and hosts put into the public fields: no answer indexes past
\* the choices of the question it is encoded for, no reason fails to make an output (the
\* expects and the index of run_tool_call never panic), and what a result hands to the
\* model fits the loop's limit and is clean text.
OutputsFit ==
  /\ phase # "Panicked"
  /\ \A i \in DOMAIN results : results[i].output.length <= limit /\ results[i].output.clean

AnswersFor(c) == {t \in told : asked[t.id].call = c}

\* A result that provides input encodes an answer that some host was told Ok for, to the
\* question of that very call, admissible for it.
InputIsAnAnswer(r) ==
  r.outcome = "InputProvided" =>
    \E t \in AnswersFor(r.call) :
      /\ asked[t.id].kind # Approval
      /\ AnswerValid(t.answer, asked[t.id].kind)
      /\ r.output = encode_result(t.answer, asked[t.id].kind)

\* And an answer a host was told Ok for decides the result of its call, unless the batch
\* was interrupted or the encoded answer does not fit.
AnswerCounts(r) ==
  \A t \in AnswersFor(r.call) :
    r.outcome # "Cancelled" =>
      CASE t.answer.answer = "Deny" -> r.outcome = "Denied"
        [] t.answer.answer = "AllowOnce" -> r.outcome # "Denied"
        [] OTHER -> IF encode_result(t.answer, asked[t.id].kind).length <= limit
                      THEN r.outcome = "InputProvided" ELSE r.outcome = "Failed"

\* Ok from answer means what it says: no interaction has two answers, the one it has
\* decides its call's result, and no result comes from an answer nobody gave.
ResultIsTheAnswer ==
  /\ \A t, u \in told : t.id = u.id => t = u
  /\ \A i \in DOMAIN results : InputIsAnAnswer(results[i]) /\ AnswerCounts(results[i])

\* A tool runs only if its policy allowed the call, or wanted it approved and a host then
\* allowed that very call: not after a denial, an unavailable policy, a malformed decision,
\* a refusal by the host, or an approval given to another call or to another question.
OnlyApprovedRuns ==
  \A c \in executed \cap gated : \E t \in AnswersFor(c) : t.answer.answer = "AllowOnce"
=============================================================================
