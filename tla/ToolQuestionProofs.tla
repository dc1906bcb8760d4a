--------------------------- MODULE ToolQuestionProofs ---------------------------
(***************************************************************************)
(* What a batch of tool calls records and runs, for every set of texts and *)
(* choices, every limit and every number of calls: outputs fit, a result   *)
(* is the answer a host was told Ok for, and a tool runs only if the       *)
(* policy or a host allowed it.                                            *)
(***************************************************************************)
EXTENDS ToolQuestion, SequenceTheorems, TLAPS

Active == {"Policy", "Execute", "Waiting", "Leaving"}
Waits  == {"Waiting", "Leaving"}

Kinds   == {Approval} \cup ToolInputs
Asked   == [call : Nat, kind : Kinds]
Outputs == Texts \cup [length : Nat, escapes : Nat, clean : BOOLEAN]
Outcomes == {"Success", "Failed", "Denied", "Cancelled", "InputProvided"}
Results == [call : Nat, outcome : Outcomes, output : Outputs]

QuestionTypes ==
  /\ limit \in 1 .. MaxText
  /\ phase \in Active \cup {"Done", "Ended"}
  /\ call \in Nat /\ call > 0
  /\ asked \in Seq(Asked)
  /\ results \in Seq(Results)
  /\ told \in SUBSET [id : Nat, answer : Answers]

\* Every answer a host was told Ok for is admissible for its interaction, and the only one.
ToldInv ==
  /\ \A t \in told : t.id \in DOMAIN asked /\ AnswerValid(t.answer, asked[t.id].kind)
  /\ \A t, u \in told : t.id = u.id => t = u

\* A call that waits has the newest interaction, open or answered; no other has any.
WaitInv ==
  /\ phase \notin Waits => question = {} /\ slot = {} /\ reply = {}
  /\ phase \in Waits =>
       /\ Len(asked) > 0
       /\ asked[Len(asked)].call = call
       /\ question = {asked[Len(asked)].kind}
       /\ \/ /\ slot = {[id |-> Len(asked), expected |-> asked[Len(asked)].kind]}
             /\ reply = {}
             /\ \A t \in told : t.id # Len(asked)
          \/ /\ slot = {}
             /\ \E a \in Answers : reply = {a} /\ [id |-> Len(asked), answer |-> a] \in told

\* Interaction i was an approval, and it was given.
Allowed(i) == asked[i].kind = Approval /\ \E t \in told : t.id = i /\ t.answer.answer = "AllowOnce"

\* Interactions and results belong to calls in order; past its policy a call has only an
\* approval behind it, which was given.
CallInv ==
  phase \in Active =>
    /\ \A i \in DOMAIN results : results[i].call < call
    /\ \A i \in DOMAIN asked : asked[i].call <= call
    /\ phase = "Policy" => \A i \in DOMAIN asked : asked[i].call # call
    /\ phase = "Execute" => \A i \in DOMAIN asked : asked[i].call = call => Allowed(i)
    /\ phase \in Waits => \A i \in DOMAIN asked :
         asked[i].call = call /\ i # Len(asked) => Allowed(i) /\ asked[Len(asked)].kind # Approval

\* A result is right: it fits and is the answer.
Right(r) ==
  /\ r.output.length <= limit /\ r.output.clean
  /\ InputIsAnAnswer(r) /\ AnswerCounts(r)

ResultInv == \A i \in DOMAIN results : Right(results[i])

QuestionInv == QuestionTypes /\ ToldInv /\ WaitInv /\ CallInv /\ ResultInv

\* A batch starts with nothing asked, answered or recorded.
LEMMA QuestionInitInv == QuestionInit => QuestionInv
  <1> SUFFICES ASSUME QuestionInit PROVE QuestionInv
    OBVIOUS
  <1>1. QuestionTypes
    BY DEF QuestionInit, QuestionTypes, Active
  <1>2. ToldInv /\ WaitInv /\ CallInv /\ ResultInv
    BY DEF QuestionInit, ToldInv, WaitInv, Waits, CallInv, ResultInv
  <1> QED BY <1>1, <1>2 DEF QuestionInv

-----------------------------------------------------------------------------
(* Values. *)

\* The fixed messages fit or are left out.
LEMMA StaticFits ==
  ASSUME QuestionTypes, NEW m \in Fixed
  PROVE  /\ static_output(m) \in Outputs
         /\ static_output(m).length <= limit /\ static_output(m).clean
  <1>1. limit \in Nat /\ FixedLength[m] \in Nat /\ MaxText \in Nat
    BY QuestionAssumption DEF QuestionTypes
  <1>2. NoOutput \in [length : Nat, escapes : Nat, clean : BOOLEAN] /\ NoOutput.length = 0 /\ NoOutput.clean
    BY DEF NoOutput
  <1>3. CASE FixedLength[m] <= limit
    <2>1. static_output(m) = [length |-> FixedLength[m], escapes |-> 0, clean |-> TRUE]
      BY <1>3 DEF static_output, NoOutput
    <2> HIDE DEF static_output
    <2> QED BY <1>1, <1>3, <2>1 DEF Outputs
  <1>4. CASE ~(FixedLength[m] <= limit)
    <2>1. static_output(m) = NoOutput
      BY <1>4 DEF static_output
    <2> QED BY <1>1, <1>2, <2>1 DEF Outputs
  <1> QED BY <1>3, <1>4

\* The text of an interaction's kind.
LEMMA KindOf ==
  ASSUME NEW k \in Kinds
  PROVE  /\ k.kind \in {"Approval", "Text", "SingleChoice"}
         /\ k.kind = "Approval" <=> k = Approval
         /\ k # Approval => k \in ToolInputs
  BY DEF Kinds, Approval, ToolInputs

\* An admissible answer to a tool's question can be taken apart, and its encoding is clean.
LEMMA EncodingIsClean ==
  ASSUME NEW a \in Answers, NEW k \in Kinds, k # Approval, AnswerValid(a, k)
  PROVE  /\ a.answer \in {"Text", "Choice"}
         /\ Encodes(a, k)
         /\ encode_result(a, k) \in Outputs
         /\ encode_result(a, k).clean
  <1>1. k \in ToolInputs /\ k.kind \in {"Text", "SingleChoice"}
    BY KindOf
  <1>2. k.choices \in Seq(Texts)
    BY <1>1, QuestionAssumption DEF ToolInputs
  <1>3. CASE k.kind = "Text"
    <2>1. a.answer = "Text"
      BY <1>3 DEF AnswerValid
    <2>2. a.text \in Texts
      BY <2>1 DEF Answers
    <2>3. a.text.length \in Nat /\ a.text.escapes \in Nat /\ TextFrame \in Nat
      BY <2>2, QuestionAssumption
    <2>4. encode_result(a, k) = [length |-> a.text.length + a.text.escapes + TextFrame,
                                 escapes |-> 0, clean |-> TRUE]
      BY <2>1 DEF encode_result
    <2> QED BY <2>1, <2>3, <2>4 DEF Encodes, Outputs
  <1>4. CASE k.kind = "SingleChoice"
    <2>1. a.answer = "Choice" /\ a.index < Len(k.choices)
      BY <1>4 DEF AnswerValid
    <2>2. a.index \in Nat
      BY <2>1 DEF Answers
    <2>3. a.index + 1 \in DOMAIN k.choices
      BY <1>2, <2>1, <2>2
    <2> DEFINE t == k.choices[a.index + 1]
    <2>4. t \in Texts
      BY <1>2, <2>3, ElementOfSeq
    <2>5. t.length \in Nat /\ t.escapes \in Nat /\ ChoiceFrame \in Nat /\ Digits(a.index) \in Nat
      BY <2>4, QuestionAssumption DEF Digits
    <2>6. encode_result(a, k) = [length |-> t.length + t.escapes + (ChoiceFrame + Digits(a.index)),
                                 escapes |-> 0, clean |-> TRUE]
      BY <2>1 DEF encode_result
    <2> HIDE DEF t
    <2> QED BY <2>1, <2>3, <2>5, <2>6 DEF Encodes, Outputs
  <1> QED BY <1>1, <1>3, <1>4

-----------------------------------------------------------------------------
(* What a step can do. *)

\* A call gets a result that is right, and the batch goes on.
Settles ==
  /\ phase \in Active
  /\ \E outcome \in Outcomes, output \in Outputs :
       Settle(outcome, output) /\ Right(Result(call, outcome, output))
  /\ UNCHANGED <<limit, asked, told>>

\* The batch is interrupted.
Ends == phase \in Active /\ End /\ UNCHANGED <<limit, asked, told>>

\* A policy asks for approval, or a tool asks its question.
Opens(k) ==
  /\ \/ phase = "Policy" /\ k = Approval
     \/ phase = "Execute" /\ k # Approval
  /\ asked' = Append(asked, [call |-> call, kind |-> k])
  /\ question' = {k}
  /\ slot' = {[id |-> Len(asked) + 1, expected |-> k]}
  /\ reply' = {}
  /\ phase' = "Waiting"
  /\ UNCHANGED <<limit, call, results, told>>

\* The tool may run: nothing to ask, or the approval was given.
Starts ==
  /\ \/ phase = "Policy"
     \/ /\ phase = "Waiting" /\ question = {Approval}
        /\ \E a \in reply : a.answer = "AllowOnce"
  /\ phase' = "Execute"
  /\ question' = {} /\ slot' = {} /\ reply' = {}
  /\ UNCHANGED <<limit, call, results, asked, told>>

\* Nobody was asked about a call whose policy is being consulted.
LEMMA PolicyResult ==
  ASSUME QuestionInv, phase = "Policy", NEW outcome \in Outcomes, outcome # "InputProvided",
         NEW output, output.length <= limit, output.clean
  PROVE  Right(Result(call, outcome, output))
  <1> DEFINE r == Result(call, outcome, output)
  <1>1. r.call = call /\ r.outcome = outcome /\ r.output = output
    BY DEF Result
  <1>2. AnswersFor(call) = {}
    BY DEF QuestionInv, ToldInv, CallInv, Active, AnswersFor
  <1> HIDE DEF r
  <1>3. Right(r)
    BY <1>1, <1>2 DEF Right, InputIsAnAnswer, AnswerCounts
  <1> QED BY <1>3 DEF r

\* A tool that runs has at most an approval behind it, so its own result stands.
LEMMA ToolResult ==
  ASSUME QuestionInv, phase = "Execute", NEW outcome \in {"Success", "Failed"},
         NEW output, output.length <= limit, output.clean
  PROVE  Right(Result(call, outcome, output))
  <1> DEFINE r == Result(call, outcome, output)
  <1>1. r.call = call /\ r.outcome = outcome /\ r.output = output
    BY DEF Result
  <1>2. \A t \in AnswersFor(call) : t.answer.answer = "AllowOnce"
    BY DEF QuestionInv, ToldInv, CallInv, Active, AnswersFor, Allowed
  <1> HIDE DEF r
  <1>3. InputIsAnAnswer(r) /\ AnswerCounts(r)
    BY <1>1, <1>2 DEF InputIsAnAnswer, AnswerCounts
  <1>4. Right(r)
    BY <1>1, <1>3 DEF Right
  <1> QED BY <1>4 DEF r

\* The slot is free when a call may ask.
LEMMA AskOpens ==
  ASSUME QuestionInv, NEW k \in Kinds, Ask(k), UNCHANGED <<limit, told>>,
         \/ phase = "Policy" /\ k = Approval
         \/ phase = "Execute" /\ k # Approval
  PROVE  Opens(k)
  <1>1. slot = {}
    BY DEF QuestionInv, WaitInv, Waits
  <1> QED BY <1>1 DEF Ask, Opens

\* The policy decides.
LEMMA DecideMoves ==
  ASSUME QuestionInv, NEW d \in Decisions, Decide(d)
  PROVE  Settles \/ Ends \/ Opens(Approval) \/ Starts
  <1>0. /\ phase = "Policy" /\ UNCHANGED <<limit, told>> /\ phase \in Active
        /\ d.decision \in {"Allow", "Unavailable", "Deny", "RequireApproval"}
        /\ QuestionTypes /\ "Denied" \in Outcomes
    BY DEF Decide, Active, Decisions, QuestionInv, Outcomes
  <1>a. ASSUME Settle("Denied", static_output("tool denied")), UNCHANGED asked PROVE Settles
    <2>1. /\ static_output("tool denied") \in Outputs
          /\ static_output("tool denied").length <= limit /\ static_output("tool denied").clean
      BY <1>0, StaticFits DEF Fixed
    <2>2. Right(Result(call, "Denied", static_output("tool denied")))
      BY <1>0, <2>1, PolicyResult
    <2> QED BY <1>0, <1>a, <2>1, <2>2 DEF Settles
  <1>1. CASE ~DecisionValid(d)
    BY <1>0, <1>1 DEF Decide, Ends, DecisionValid
  <1>2. CASE DecisionValid(d) /\ d.decision = "Unavailable"
    <2>1. denied_result({}) /\ UNCHANGED asked
      BY <1>2 DEF Decide
    <2> QED BY <1>a, <2>1 DEF denied_result
  <1>3. CASE DecisionValid(d) /\ d.decision = "Deny"
    <2>1. denied_result({d.text}) /\ UNCHANGED asked
      BY <1>3 DEF Decide
    <2>2. d.text \in Texts
      BY <1>3 DEF Decisions
    <2>3. d.text.clean /\ d.text.length <= MaxText /\ valid_text(d.text, MaxText, TRUE)
      BY <1>3, <2>2, QuestionAssumption DEF DecisionValid, valid_text
    <2>4. CASE d.text.length <= limit
      <3>1. Settle("Denied", d.text)
        BY <2>1, <2>3, <2>4 DEF denied_result
      <3>2. Right(Result(call, "Denied", d.text))
        BY <1>0, <2>3, <2>4, PolicyResult
      <3> QED BY <1>0, <2>1, <2>2, <3>1, <3>2 DEF Settles, Outputs
    <2>5. CASE ~(d.text.length <= limit)
      BY <1>a, <2>1, <2>5 DEF denied_result
    <2> QED BY <2>4, <2>5
  <1>4. CASE DecisionValid(d) /\ d.decision = "RequireApproval"
    <2>1. Ask(Approval)
      BY <1>4 DEF Decide
    <2> QED BY <1>0, <2>1, AskOpens DEF Kinds
  <1>5. CASE DecisionValid(d) /\ d.decision = "Allow"
    <2>1. phase' = "Execute" /\ UNCHANGED <<call, question, slot, reply, results, asked>>
      BY <1>5 DEF Decide
    <2> QED BY <1>0, <2>1 DEF Starts, QuestionInv, WaitInv, Waits
  <1> QED BY <1>0, <1>1, <1>2, <1>3, <1>4, <1>5

\* The tool runs.
LEMMA ExecuteMoves ==
  ASSUME QuestionInv,
         (\E o \in Texts : Completes(o)) \/ (\E q \in ToolInputs : Asks(q)) \/ Fails
  PROVE  Settles \/ \E k \in Kinds : Opens(k)
  <1>0. /\ phase = "Execute" /\ UNCHANGED <<limit, told>> /\ phase \in Active
        /\ QuestionTypes /\ {"Success", "Failed"} \subseteq Outcomes
    BY DEF Completes, Asks, Fails, Executes, Active, QuestionInv, Outcomes
  <1>a. ASSUME NEW m \in Fixed, Settle("Failed", static_output(m)), UNCHANGED asked PROVE Settles
    <2>1. /\ static_output(m) \in Outputs
          /\ static_output(m).length <= limit /\ static_output(m).clean
      BY <1>0, StaticFits
    <2>2. Right(Result(call, "Failed", static_output(m)))
      BY <1>0, <2>1, ToolResult
    <2> QED BY <1>0, <1>a, <2>1, <2>2 DEF Settles
  <1>1. ASSUME NEW o \in Texts, Completes(o) PROVE Settles
    <2>1. completed_result(o) /\ o.clean /\ UNCHANGED asked
      BY <1>1 DEF Completes, valid_text
    <2>2. CASE o.length <= limit
      <3>1. Settle("Success", o)
        BY <2>1, <2>2 DEF completed_result
      <3>2. Right(Result(call, "Success", o))
        BY <1>0, <2>1, <2>2, ToolResult
      <3> QED BY <1>0, <2>1, <3>1, <3>2 DEF Settles, Outputs
    <2>3. CASE ~(o.length <= limit)
      BY <1>a, <2>1, <2>3 DEF completed_result, Fixed
    <2> QED BY <2>2, <2>3
  <1>2. ASSUME NEW q \in ToolInputs, Asks(q) PROVE Settles \/ \E k \in Kinds : Opens(k)
    <2>1. CASE RequestValid(q)
      <3>1. Ask(q) /\ q \in Kinds
        BY <1>2, <2>1 DEF Asks, Kinds
      <3>2. q # Approval
        <4>1. q.kind # "Approval" /\ Approval.kind = "Approval"
          BY DEF ToolInputs, Approval
        <4> QED BY <4>1
      <3> QED BY <1>0, <3>1, <3>2, AskOpens
    <2>2. CASE ~RequestValid(q)
      BY <1>2, <1>a, <2>2 DEF Asks, Fixed
    <2> QED BY <2>1, <2>2
  <1>3. CASE Fails
    BY <1>3, <1>a DEF Fails, Fixed
  <1> QED BY <1>1, <1>2, <1>3

\* What a waiting call knows when its answer has come.
LEMMA Answered ==
  ASSUME QuestionInv, phase = "Waiting", NEW a \in reply, NEW k \in question
  PROVE  /\ k = asked[Len(asked)].kind /\ k \in Kinds /\ Len(asked) \in DOMAIN asked
         /\ asked[Len(asked)].call = call
         /\ a \in Answers /\ [id |-> Len(asked), answer |-> a] \in told
         /\ AnswerValid(a, k)
         /\ \A t \in AnswersFor(call) :
              \/ t = [id |-> Len(asked), answer |-> a]
              \/ t.answer.answer = "AllowOnce" /\ k # Approval
  <1> DEFINE n == Len(asked)
             last == [id |-> n, answer |-> a]
  <1>1. /\ n \in Nat /\ n > 0 /\ asked[n].call = call /\ question = {asked[n].kind}
        /\ a \in Answers /\ last \in told
    BY DEF QuestionInv, WaitInv, Waits, QuestionTypes
  <1>2. n \in DOMAIN asked /\ asked[n] \in Asked
    <2>1. asked \in Seq(Asked)
      BY DEF QuestionInv, QuestionTypes
    <2> QED BY <1>1, <2>1, ElementOfSeq
  <1>3. k = asked[n].kind /\ k \in Kinds
    BY <1>1, <1>2 DEF Asked
  <1>4. last.id = n /\ last.answer = a
    OBVIOUS
  <1> HIDE DEF last, n
  <1>5. AnswerValid(a, k)
    BY <1>1, <1>3, <1>4 DEF QuestionInv, ToldInv
  <1>6. ASSUME NEW t \in AnswersFor(call)
        PROVE  t = last \/ (t.answer.answer = "AllowOnce" /\ k # Approval)
    <2>1. t \in told /\ t.id \in DOMAIN asked /\ asked[t.id].call = call
      BY DEF AnswersFor, QuestionInv, ToldInv
    <2>2. CASE t.id = n
      BY <1>1, <1>4, <2>1, <2>2 DEF QuestionInv, ToldInv
    <2>3. CASE t.id # n
      <3>1. Allowed(t.id) /\ asked[n].kind # Approval
        BY <2>1, <2>3 DEF QuestionInv, CallInv, Active, Waits, n
      <3>2. PICK u \in told : u.id = t.id /\ u.answer.answer = "AllowOnce"
        BY <3>1 DEF Allowed
      <3>3. u = t
        BY <2>1, <3>2 DEF QuestionInv, ToldInv
      <3> QED BY <1>3, <3>1, <3>2, <3>3
    <2> QED BY <2>2, <2>3
  <1> QED BY <1>1, <1>2, <1>3, <1>5, <1>6 DEF last, n

\* The result of a call whose question was answered.
LEMMA InputResult ==
  ASSUME QuestionInv, phase = "Waiting", NEW a \in reply, NEW k \in question, k # Approval,
         NEW outcome, NEW output,
         output.length <= limit, output.clean,
         IF encode_result(a, k).length <= limit
           THEN outcome = "InputProvided" /\ output = encode_result(a, k)
           ELSE outcome = "Failed"
  PROVE  Right(Result(call, outcome, output))
  <1> DEFINE r == Result(call, outcome, output)
             last == [id |-> Len(asked), answer |-> a]
  <1>1. r.call = call /\ r.outcome = outcome /\ r.output = output
    BY DEF Result
  <1>2. /\ k = asked[Len(asked)].kind /\ k \in Kinds
        /\ asked[Len(asked)].call = call
        /\ a \in Answers /\ last \in told /\ AnswerValid(a, k)
        /\ \A t \in AnswersFor(call) : t = last \/ t.answer.answer = "AllowOnce"
    BY Answered
  <1>3. a.answer \in {"Text", "Choice"}
    BY <1>2, EncodingIsClean
  <1>4. last.id = Len(asked) /\ last.answer = a
    OBVIOUS
  <1> HIDE DEF r, last
  <1>5. last \in AnswersFor(call)
    BY <1>2, <1>4 DEF AnswersFor
  <1>6. InputIsAnAnswer(r)
    <2> SUFFICES ASSUME r.outcome = "InputProvided"
                 PROVE  \E t \in AnswersFor(r.call) :
                          /\ asked[t.id].kind # Approval
                          /\ AnswerValid(t.answer, asked[t.id].kind)
                          /\ r.output = encode_result(t.answer, asked[t.id].kind)
      BY DEF InputIsAnAnswer
    <2>1. r.output = encode_result(a, k)
      BY <1>1
    <2> QED BY <1>1, <1>2, <1>4, <1>5, <2>1
  <1>7. AnswerCounts(r)
    <2> SUFFICES ASSUME NEW t \in AnswersFor(r.call)
                 PROVE  CASE t.answer.answer = "Deny" -> r.outcome = "Denied"
                          [] t.answer.answer = "AllowOnce" -> r.outcome # "Denied"
                          [] OTHER -> IF encode_result(t.answer, asked[t.id].kind).length <= limit
                                        THEN r.outcome = "InputProvided" ELSE r.outcome = "Failed"
      BY DEF AnswerCounts
    <2>1. CASE t = last
      <3>1. t.answer = a /\ asked[t.id].kind = k
        BY <1>2, <1>4, <2>1
      <3> QED BY <1>1, <1>3, <3>1
    <2>2. CASE t.answer.answer = "AllowOnce"
      BY <1>1, <2>2
    <2> QED BY <1>1, <1>2, <2>1, <2>2
  <1>8. Right(r)
    BY <1>1, <1>6, <1>7 DEF Right
  <1> QED BY <1>8 DEF r

\* An answer comes through.
LEMMA ResolveMoves == ASSUME QuestionInv, Resolves PROVE Settles \/ Ends \/ Starts
  <1>0. /\ phase = "Waiting" /\ UNCHANGED <<limit, asked, told>> /\ phase \in Active
        /\ QuestionTypes /\ {"Denied", "Failed", "InputProvided"} \subseteq Outcomes
    BY DEF Resolves, Active, QuestionInv, Outcomes
  <1> PICK a \in reply, k \in question :
        IF k.kind = "Approval"
          THEN CASE a.answer = "AllowOnce" ->
                      /\ phase' = "Execute" /\ question' = {} /\ slot' = {} /\ reply' = {}
                      /\ UNCHANGED <<call, results>>
                 [] a.answer = "Deny" -> denied_result({})
                 [] OTHER -> End
          ELSE IF a.answer \notin {"Text", "Choice"} THEN End
               ELSE IF Encodes(a, k) THEN provided_input_result(encode_result(a, k)) ELSE Panic
    BY DEF Resolves
  <1>1. /\ k \in Kinds /\ a \in Answers /\ AnswerValid(a, k)
        /\ question = {k}
    BY <1>0, Answered DEF QuestionInv, WaitInv, Waits
  <1>2. CASE k = Approval
    <2>1. k.kind = "Approval" /\ a.answer \in {"AllowOnce", "Deny"}
      BY <1>1, <1>2 DEF Approval, AnswerValid
    <2>2. CASE a.answer = "AllowOnce"
      BY <1>0, <1>1, <1>2, <2>1, <2>2 DEF Starts
    <2>3. CASE a.answer = "Deny"
      <3> DEFINE output == static_output("tool denied")
                 r == Result(call, "Denied", output)
      <3>1. Settle("Denied", output)
        BY <2>1, <2>3 DEF denied_result
      <3>2. output \in Outputs /\ output.length <= limit /\ output.clean
        BY <1>0, StaticFits DEF Fixed
      <3>3. r.call = call /\ r.outcome = "Denied" /\ r.output = output
        BY DEF Result
      <3> HIDE DEF output, r
      <3>4. \A t \in AnswersFor(call) : t.answer.answer = "Deny"
        <4> SUFFICES ASSUME NEW t \in AnswersFor(call) PROVE t.answer.answer = "Deny"
          OBVIOUS
        <4>1. t = [id |-> Len(asked), answer |-> a]
          BY <1>0, <1>2, Answered
        <4> QED BY <2>3, <4>1
      <3>5. Right(r)
        BY <3>2, <3>3, <3>4 DEF Right, InputIsAnAnswer, AnswerCounts
      <3> QED BY <1>0, <3>1, <3>2, <3>5 DEF Settles, r
    <2> QED BY <2>1, <2>2, <2>3
  <1>3. CASE k # Approval
    <2> DEFINE o == encode_result(a, k)
    <2>1. k.kind # "Approval" /\ a.answer \in {"Text", "Choice"} /\ Encodes(a, k) /\ o \in Outputs /\ o.clean
      BY <1>1, <1>3, EncodingIsClean, KindOf
    <2>2. provided_input_result(o)
      BY <2>1
    <2>3. CASE o.length <= limit
      <3>1. valid_text(o, MaxText, TRUE)
        <4>1. limit <= MaxText /\ limit \in Nat /\ MaxText \in Nat
          BY <1>0, QuestionAssumption DEF QuestionTypes
        <4>2. o.length \in Nat
          BY <2>1, QuestionAssumption DEF Outputs
        <4> HIDE DEF o
        <4> QED BY <2>1, <2>3, <4>1, <4>2 DEF valid_text
      <3>2. Settle("InputProvided", o)
        BY <2>2, <2>3, <3>1 DEF provided_input_result
      <3>3. Right(Result(call, "InputProvided", o))
        BY <1>0, <1>3, <2>1, <2>3, InputResult
      <3> QED BY <1>0, <2>1, <3>2, <3>3 DEF Settles
    <2>4. CASE ~(o.length <= limit)
      <3> DEFINE output == static_output("tool output too large")
      <3>1. Settle("Failed", output)
        BY <2>2, <2>4 DEF provided_input_result
      <3>2. output \in Outputs /\ output.length <= limit /\ output.clean
        BY <1>0, StaticFits DEF Fixed
      <3> HIDE DEF output
      <3>3. Right(Result(call, "Failed", output))
        BY <1>0, <1>3, <2>4, <3>2, InputResult
      <3> QED BY <1>0, <3>1, <3>2, <3>3 DEF Settles
    <2> QED BY <2>3, <2>4
  <1> QED BY <1>2, <1>3

\* Every step.
LEMMA QuestionMoves ==
  ASSUME QuestionInv, QuestionNext
  PROVE  \/ Settles \/ Ends \/ Starts
         \/ \E k \in Kinds : Opens(k)
         \/ \E id \in DOMAIN asked, a \in Answers : Answer(id, a)
         \/ WaitInterrupted
         \/ UNCHANGED questionVars
  <1>1. ASSUME NEW d \in Decisions, Decide(d)
        PROVE  Settles \/ Ends \/ Starts \/ \E k \in Kinds : Opens(k)
    BY <1>1, DecideMoves DEF Kinds
  <1>2. CASE Leaves \/ CallInterrupted
    BY <1>2 DEF Leaves, CallInterrupted, Ends, Active
  <1> QED BY <1>1, <1>2, ExecuteMoves, ResolveMoves DEF QuestionNext, QuestionDone

-----------------------------------------------------------------------------
(* The invariant is kept. *)

\* A result stays right while its call's answers and their interactions stay.
LEMMA RightKept ==
  ASSUME NEW r, Right(r), UNCHANGED limit,
         AnswersFor(r.call)' = AnswersFor(r.call),
         \A t \in AnswersFor(r.call) : asked'[t.id] = asked[t.id]
  PROVE  Right(r)'
  <1>1. InputIsAnAnswer(r)'
    BY DEF Right, InputIsAnAnswer
  <1>2. AnswerCounts(r)'
    BY DEF Right, AnswerCounts
  <1> QED BY <1>1, <1>2 DEF Right

\* Without a new answer, every call keeps its answers.
LEMMA AnswersKept ==
  ASSUME QuestionInv, UNCHANGED told, \A i \in DOMAIN asked : asked'[i] = asked[i], NEW c
  PROVE  /\ AnswersFor(c)' = AnswersFor(c)
         /\ \A t \in AnswersFor(c) : asked'[t.id] = asked[t.id]
  <1>1. \A t \in told : asked'[t.id] = asked[t.id]
    BY DEF QuestionInv, ToldInv
  <1> QED BY <1>1 DEF AnswersFor

\* The fields of a result.
LEMMA ResultFields ==
  ASSUME NEW c \in Nat, NEW outcome \in Outcomes, NEW output \in Outputs
  PROVE  LET r == Result(c, outcome, output)
         IN  r \in Results /\ r.call = c /\ r.outcome = outcome /\ r.output = output
  BY DEF Result, Results

\* A call settles.
LEMMA SettleKeeps == ASSUME QuestionInv, Settles PROVE QuestionInv'
  <1>1. PICK outcome \in Outcomes, output \in Outputs :
          Settle(outcome, output) /\ Right(Result(call, outcome, output))
    BY DEF Settles
  <1> DEFINE r == Result(call, outcome, output)
  <1>2. /\ results' = Append(results, r) /\ call' = call + 1 /\ phase' \in {"Policy", "Done"}
        /\ question' = {} /\ reply' = {} /\ slot' = {}
        /\ UNCHANGED <<limit, asked, told>> /\ phase \in Active
    BY <1>1 DEF Settle, Settles
  <1>3. /\ call \in Nat /\ call > 0 /\ results \in Seq(Results) /\ asked \in Seq(Asked)
    BY DEF QuestionInv, QuestionTypes
  <1>4. r \in Results /\ r.call = call
    BY <1>3 DEF Result, Results
  <1>5. Right(r)
    BY <1>1
  <1> HIDE DEF r
  <1>6. /\ results' \in Seq(Results) /\ DOMAIN results' = 1 .. Len(results) + 1 /\ Len(results) \in Nat
        /\ \A i \in 1 .. Len(results) : results'[i] = results[i]
        /\ results'[Len(results) + 1] = r
        /\ DOMAIN results = 1 .. Len(results)
    BY <1>2, <1>3, <1>4, AppendProperties
  <1>7. QuestionTypes'
    BY <1>2, <1>3, <1>6 DEF QuestionInv, QuestionTypes, Active
  <1>8. ToldInv'
    BY <1>2 DEF QuestionInv, ToldInv
  <1>9. WaitInv'
    BY <1>2 DEF WaitInv, Waits
  <1>10. CallInv'
    <2>1. \A i \in DOMAIN asked : asked[i].call \in Nat /\ asked[i].call <= call
      <3>1. \A i \in DOMAIN asked : asked[i] \in Asked
        BY <1>3, ElementOfSeq
      <3> QED BY <1>2, <3>1 DEF QuestionInv, CallInv, Asked
    <2>2. \A i \in DOMAIN results : results[i].call \in Nat /\ results[i].call < call
      <3>1. \A i \in DOMAIN results : results[i] \in Results
        BY <1>3, ElementOfSeq
      <3> QED BY <1>2, <3>1 DEF QuestionInv, CallInv, Results
    <2>3. \A i \in DOMAIN asked' : asked'[i].call <= call' /\ asked'[i].call # call'
      BY <1>2, <1>3, <2>1
    <2>4. \A i \in DOMAIN results' : results'[i].call < call'
      BY <1>2, <1>3, <1>4, <1>6, <2>2
    <2> QED BY <1>2, <2>3, <2>4 DEF CallInv, Waits
  <1>11. ResultInv'
    <2>1. \A i \in DOMAIN asked : asked'[i] = asked[i]
      BY <1>2
    <2>2. ASSUME NEW q, Right(q) PROVE Right(q)'
      BY <1>2, <2>1, <2>2, AnswersKept, RightKept
    <2>3. \A i \in DOMAIN results : Right(results[i])
      BY DEF QuestionInv, ResultInv
    <2>4. ASSUME NEW i \in DOMAIN results' PROVE Right(results[i])'
      <3>1. CASE i = Len(results) + 1
        BY <1>5, <1>6, <2>2, <3>1
      <3>2. CASE i # Len(results) + 1
        <4>1. i \in DOMAIN results /\ results'[i] = results[i]
          BY <1>6, <3>2
        <4> QED BY <2>2, <2>3, <4>1
      <3> QED BY <3>1, <3>2
    <2> QED BY <2>4 DEF ResultInv
  <1> QED BY <1>7, <1>8, <1>9, <1>10, <1>11 DEF QuestionInv

\* The batch is interrupted.
LEMMA EndKeeps == ASSUME QuestionInv, Ends PROVE QuestionInv'
  <1> DEFINE o == static_output("tool batch interrupted")
             n == MaxCalls - call + 1
             cut == [i \in 1 .. n |-> Result(call + i - 1, "Cancelled", o)]
  <1>1. /\ results' = results \o cut /\ phase' = "Ended"
        /\ question' = {} /\ reply' = {} /\ slot' = {}
        /\ UNCHANGED <<limit, asked, told, call>>
    BY DEF Ends, End
  <1>2. call \in Nat /\ call > 0 /\ results \in Seq(Results) /\ MaxCalls \in Nat
    BY QuestionAssumption DEF QuestionInv, QuestionTypes
  <1>3. /\ o \in Outputs
        /\ o.length <= limit
        /\ o.clean
    BY StaticFits DEF Fixed, QuestionInv
  <1> HIDE DEF o
  <1>4. \A i \in 1 .. n : /\ cut[i] \in Results /\ cut[i].outcome = "Cancelled"
                          /\ cut[i].output = o
    <2> SUFFICES ASSUME NEW i \in 1 .. n
                 PROVE  /\ cut[i] \in Results /\ cut[i].outcome = "Cancelled"
                        /\ cut[i].output = o
      OBVIOUS
    <2>1. cut[i] = Result(call + i - 1, "Cancelled", o)
      OBVIOUS
    <2>2. call + i - 1 \in Nat
      BY <1>2
    <2> HIDE DEF cut, n
    <2> QED BY <1>3, <2>1, <2>2, ResultFields DEF Outcomes
  <1>5. cut \in Seq(Results)
    <2>1. PICK m \in Nat : 1 .. n = 1 .. m
      <3>1. CASE n \in Nat
        BY <3>1
      <3>2. CASE n \notin Nat
        <4>1. 1 .. n = 1 .. 0
          BY <1>2, <3>2
        <4> QED BY <4>1
      <3> QED BY <3>1, <3>2
    <2>2. cut \in [1 .. n -> Results]
      BY <1>4
    <2> HIDE DEF cut, n
    <2>3. cut \in [1 .. m -> Results]
      BY <2>1, <2>2
    <2> QED BY <2>3
  <1>6. DOMAIN cut = 1 .. n
    OBVIOUS
  <1> HIDE DEF cut, n
  <1>7. /\ results' \in Seq(Results) /\ Len(results') = Len(results) + Len(cut)
        /\ \A i \in 1 .. Len(results) + Len(cut) :
             results'[i] = IF i <= Len(results) THEN results[i] ELSE cut[i - Len(results)]
    BY <1>1, <1>2, <1>5, ConcatProperties
  <1>8. QuestionTypes'
    BY <1>1, <1>2, <1>7 DEF QuestionInv, QuestionTypes
  <1>9. ToldInv' /\ WaitInv' /\ CallInv'
    BY <1>1 DEF QuestionInv, ToldInv, WaitInv, CallInv, Waits, Active
  <1>10. ResultInv'
    <2>1. ASSUME NEW q, Right(q) PROVE Right(q)'
      <3>1. \A i \in DOMAIN asked : asked'[i] = asked[i]
        BY <1>1
      <3> QED BY <1>1, <2>1, <3>1, AnswersKept, RightKept
    <2>2. ASSUME NEW i \in DOMAIN results' PROVE Right(results[i])'
      <3>1. i \in 1 .. Len(results) + Len(cut) /\ Len(results) \in Nat /\ Len(cut) \in Nat
        BY <1>2, <1>5, <1>7
      <3>2. CASE i <= Len(results)
        <4>1. i \in DOMAIN results /\ results'[i] = results[i]
          BY <1>2, <1>7, <3>1, <3>2
        <4>2. Right(results[i])
          BY <4>1 DEF QuestionInv, ResultInv
        <4> QED BY <2>1, <4>1, <4>2
      <3>3. CASE ~(i <= Len(results))
        <4> DEFINE q == cut[i - Len(results)]
        <4>1. i - Len(results) \in DOMAIN cut
          BY <1>5, <3>1, <3>3
        <4>2. results'[i] = q
          BY <1>7, <3>1, <3>3
        <4>3. q.outcome = "Cancelled" /\ q.output.length <= limit /\ q.output.clean
          BY <1>3, <1>4, <1>6, <4>1
        <4> HIDE DEF q
        <4>4. Right(q)
          BY <4>3 DEF Right, InputIsAnAnswer, AnswerCounts
        <4> QED BY <2>1, <4>2, <4>4
      <3> QED BY <3>2, <3>3
    <2> QED BY <2>2 DEF ResultInv
  <1> QED BY <1>8, <1>9, <1>10 DEF QuestionInv

\* An interaction opens.
LEMMA OpenKeeps == ASSUME QuestionInv, NEW k \in Kinds, Opens(k) PROVE QuestionInv'
  <1> DEFINE n == Len(asked)
             x == [call |-> call, kind |-> k]
  <1>1. /\ asked' = Append(asked, x) /\ question' = {k}
        /\ slot' = {[id |-> n + 1, expected |-> k]} /\ reply' = {} /\ phase' = "Waiting"
        /\ UNCHANGED <<limit, call, results, told>>
        /\ \/ phase = "Policy" /\ k = Approval
           \/ phase = "Execute" /\ k # Approval
        /\ phase \in Active
    BY DEF Opens, Active
  <1>2. /\ call \in Nat /\ call > 0 /\ asked \in Seq(Asked)
    BY DEF QuestionInv, QuestionTypes
  <1>3. x \in Asked /\ x.call = call /\ x.kind = k
    BY <1>2 DEF Asked
  <1> HIDE DEF x
  <1>4. /\ asked' \in Seq(Asked) /\ Len(asked') = n + 1 /\ n \in Nat
        /\ DOMAIN asked = 1 .. n /\ DOMAIN asked' = 1 .. n + 1
        /\ \A i \in 1 .. n : asked'[i] = asked[i]
        /\ asked'[n + 1] = x
    BY <1>1, <1>2, <1>3, AppendProperties
  <1> HIDE DEF n
  <1>5. QuestionTypes'
    BY <1>1, <1>4 DEF QuestionInv, QuestionTypes, Active
  <1>6. \A t \in told : t.id \in 1 .. n
    BY <1>4 DEF QuestionInv, ToldInv
  <1>7. ToldInv'
    <2>1. \A t \in told : t.id \in DOMAIN asked' /\ asked'[t.id] = asked[t.id]
      BY <1>4, <1>6
    <2> QED BY <1>1, <2>1 DEF QuestionInv, ToldInv
  <1>8. WaitInv'
    <2>1. \A t \in told' : t.id # n + 1
      BY <1>1, <1>4, <1>6
    <2> QED BY <1>1, <1>3, <1>4, <2>1 DEF WaitInv, Waits
  <1>9. CallInv'
    <2>1. \A i \in DOMAIN results' : results'[i].call < call'
      BY <1>1 DEF QuestionInv, CallInv
    <2>2. \A i \in DOMAIN asked' : asked'[i].call <= call'
      <3>1. \A i \in DOMAIN asked : asked[i].call <= call
        BY <1>1 DEF QuestionInv, CallInv
      <3> QED BY <1>1, <1>2, <1>3, <1>4, <3>1
    <2>3. ASSUME NEW i \in DOMAIN asked', asked'[i].call = call', i # Len(asked')
          PROVE  Allowed(i)' /\ (asked[Len(asked)].kind # Approval)'
      <3>1. i \in DOMAIN asked /\ asked'[i] = asked[i] /\ asked[i].call = call
        BY <1>1, <1>4, <2>3
      <3>2. phase = "Execute" /\ k # Approval
        BY <1>1, <3>1 DEF QuestionInv, CallInv, Active
      <3>3. Allowed(i)
        BY <1>1, <3>1, <3>2 DEF QuestionInv, CallInv
      <3>4. Allowed(i)'
        BY <1>1, <3>1, <3>3 DEF Allowed
      <3>5. asked'[Len(asked')].kind = k
        BY <1>3, <1>4
      <3> QED BY <3>2, <3>4, <3>5
    <2> QED BY <1>1, <2>1, <2>2, <2>3 DEF CallInv
  <1>10. ResultInv'
    <2>1. ASSUME NEW q, Right(q) PROVE Right(q)'
      BY <1>1, <1>4, <2>1, AnswersKept, RightKept
    <2> QED BY <1>1, <2>1 DEF QuestionInv, ResultInv
  <1> QED BY <1>5, <1>7, <1>8, <1>9, <1>10 DEF QuestionInv

\* Results stay right when limit, interactions and answers stay.
LEMMA ResultsStay ==
  ASSUME QuestionInv, UNCHANGED <<limit, asked, told, results>>
  PROVE  ResultInv' /\ ToldInv'
  <1>1. ASSUME NEW q, Right(q) PROVE Right(q)'
    <2>1. \A i \in DOMAIN asked : asked'[i] = asked[i]
      OBVIOUS
    <2> QED BY <1>1, <2>1, AnswersKept, RightKept
  <1> QED BY <1>1 DEF QuestionInv, ResultInv, ToldInv

\* A tool may run.
LEMMA StartKeeps == ASSUME QuestionInv, Starts PROVE QuestionInv'
  <1>1. /\ phase' = "Execute" /\ question' = {} /\ slot' = {} /\ reply' = {}
        /\ UNCHANGED <<limit, call, results, asked, told>> /\ phase \in Active
    BY DEF Starts, Active
  <1>2. QuestionTypes' /\ WaitInv'
    BY <1>1 DEF QuestionInv, QuestionTypes, WaitInv, Waits, Active
  <1>3. ToldInv' /\ ResultInv'
    BY <1>1, ResultsStay
  <1>4. CallInv'
    <2>1. /\ \A i \in DOMAIN results : results[i].call < call
          /\ \A i \in DOMAIN asked : asked[i].call <= call
      BY <1>1 DEF QuestionInv, CallInv
    <2>2. ASSUME NEW i \in DOMAIN asked, asked[i].call = call PROVE Allowed(i)
      <3>1. CASE phase = "Policy"
        BY <2>2, <3>1 DEF QuestionInv, CallInv, Active
      <3>2. CASE phase # "Policy"
        <4>1. PICK a \in reply : a.answer = "AllowOnce"
          BY <3>2 DEF Starts
        <4>2. phase = "Waiting" /\ question = {Approval}
          BY <3>2 DEF Starts
        <4>3. /\ asked[Len(asked)].kind = Approval
              /\ [id |-> Len(asked), answer |-> a] \in told
          BY <4>2, Answered
        <4>4. Allowed(Len(asked))
          BY <4>1, <4>3 DEF Allowed
        <4>5. i = Len(asked)
          BY <2>2, <4>2, <4>3 DEF QuestionInv, CallInv, Active, Waits
        <4> QED BY <4>4, <4>5
      <3> QED BY <3>1, <3>2
    <2>3. \A i \in DOMAIN asked' : asked'[i].call = call' => Allowed(i)'
      BY <1>1, <2>2 DEF Allowed
    <2> QED BY <1>1, <2>1, <2>3 DEF CallInv, Waits
  <1> QED BY <1>2, <1>3, <1>4 DEF QuestionInv

\* A host answers, before or after the wait was interrupted.
LEMMA AnswerKeeps ==
  ASSUME QuestionInv, NEW id \in DOMAIN asked, NEW a \in Answers, Answer(id, a)
  PROVE  QuestionInv'
  <1>1. PICK s \in slot :
          /\ s.id = id
          /\ AnswerValid(a, s.expected)
          /\ slot' = {} /\ reply' = {a}
          /\ told' = told \cup {[id |-> id, answer |-> a]}
          /\ UNCHANGED <<limit, phase, call, question, results, asked, gated, executed>>
    BY DEF Answer
  <1> DEFINE n == Len(asked)
             new == [id |-> id, answer |-> a]
  <1>2. phase \in Waits
    BY <1>1 DEF QuestionInv, WaitInv
  <1>3. /\ n > 0 /\ asked[n].call = call /\ question = {asked[n].kind}
        /\ s = [id |-> n, expected |-> asked[n].kind]
        /\ \A t \in told : t.id # n
    BY <1>1, <1>2 DEF QuestionInv, WaitInv
  <1>4. id = n /\ AnswerValid(a, asked[n].kind)
    BY <1>1, <1>3
  <1>5. new.id = n /\ new.answer = a /\ new = [id |-> n, answer |-> a] /\ told' = told \cup {new}
    BY <1>1, <1>4
  <1>6. id \in Nat /\ new \in [id : Nat, answer : Answers]
    BY DEF QuestionInv, QuestionTypes
  <1>a. DOMAIN asked = 1 .. n /\ n \in Nat
    BY DEF QuestionInv, QuestionTypes
  <1> HIDE DEF new
  <1>7. QuestionTypes'
    BY <1>1, <1>5, <1>6 DEF QuestionInv, QuestionTypes
  <1>8. ToldInv'
    BY <1>1, <1>3, <1>4, <1>5 DEF QuestionInv, ToldInv
  <1>9. WaitInv'
    BY <1>1, <1>2, <1>3, <1>5 DEF WaitInv
  <1>10. CallInv'
    <2>1. \A i : Allowed(i) => Allowed(i)'
      BY <1>1, <1>5 DEF Allowed
    <2> QED BY <1>1, <1>2, <2>1 DEF QuestionInv, CallInv, Waits, Active
  <1>11. ResultInv'
    <2> SUFFICES ASSUME NEW i \in DOMAIN results PROVE Right(results[i])'
      BY <1>1 DEF ResultInv
    <2>1. Right(results[i]) /\ results[i].call < call /\ results'[i] = results[i]
      BY <1>1, <1>2 DEF QuestionInv, ResultInv, CallInv, Active, Waits
    <2>2. results[i].call # call
      <3>1. results[i] \in Results
        BY ElementOfSeq DEF QuestionInv, QuestionTypes
      <3>2. results[i].call \in Nat /\ call \in Nat
        BY <3>1 DEF Results, QuestionInv, QuestionTypes
      <3> QED BY <2>1, <3>2
    <2>3. ASSUME NEW q, Right(q), q.call # call PROVE Right(q)'
      <3>1. AnswersFor(q.call)' = AnswersFor(q.call)
        BY <1>1, <1>3, <1>5, <2>3 DEF AnswersFor
      <3> QED BY <1>1, <2>3, <3>1, RightKept
    <2> QED BY <2>1, <2>2, <2>3
  <1> QED BY <1>7, <1>8, <1>9, <1>10, <1>11 DEF QuestionInv

\* Every step keeps the invariant.
LEMMA QuestionInvStep == QuestionInv /\ [QuestionNext]_questionVars => QuestionInv'
  <1> SUFFICES ASSUME QuestionInv, [QuestionNext]_questionVars PROVE QuestionInv'
    OBVIOUS
  <1>1. CASE WaitInterrupted
    <2>1. /\ phase = "Waiting" /\ phase' = "Leaving"
          /\ UNCHANGED <<limit, call, question, slot, reply, results, asked, told>>
      BY <1>1 DEF WaitInterrupted
    <2>2. QuestionTypes' /\ WaitInv'
      BY <2>1 DEF QuestionInv, QuestionTypes, WaitInv, Waits, Active
    <2>3. CallInv'
      <3>1. \A i : Allowed(i)' <=> Allowed(i)
        BY <2>1 DEF Allowed
      <3> QED BY <2>1, <3>1 DEF QuestionInv, CallInv, Waits, Active
    <2> QED BY <2>1, <2>2, <2>3, ResultsStay DEF QuestionInv
  <1>2. CASE UNCHANGED questionVars
    <2>1. QuestionTypes' /\ WaitInv'
      BY <1>2 DEF QuestionInv, QuestionTypes, WaitInv, questionVars
    <2>2. CallInv'
      BY <1>2 DEF QuestionInv, CallInv, Allowed, questionVars
    <2> QED BY <1>2, <2>1, <2>2, ResultsStay DEF QuestionInv, questionVars
  <1> QED BY <1>1, <1>2, QuestionMoves, SettleKeeps, EndKeeps, StartKeeps, OpenKeeps, AnswerKeeps

-----------------------------------------------------------------------------
(* Gated calls. *)

\* An approval was given for call c.
ApprovalGiven(c) == \E t \in AnswersFor(c) : t.answer.answer = "AllowOnce"

\* Gates and runs belong to calls in order: at its policy a call has neither, and a gated
\* call that may run was approved.
GateInv ==
  /\ gated \in SUBSET Nat /\ executed \in SUBSET Nat
  /\ phase \in Active => \A c \in gated \cup executed : c <= call
  /\ phase = "Policy" => call \notin gated \cup executed
  /\ phase = "Execute" /\ call \in gated => ApprovalGiven(call)
  /\ phase \in Waits /\ question = {Approval} => call \notin executed
  /\ OnlyApprovedRuns

\* At the start no call is gated or ran.
LEMMA GateInitInv == QuestionInit => GateInv
  BY DEF QuestionInit, GateInv, OnlyApprovedRuns, Waits, Active

\* An approval once given stays given.
LEMMA ApprovalStays ==
  ASSUME QuestionInv, QuestionNext, NEW c, ApprovalGiven(c)
  PROVE  ApprovalGiven(c)'
  <1>1. PICK t \in told : asked[t.id].call = c /\ t.answer.answer = "AllowOnce"
    BY DEF ApprovalGiven, AnswersFor
  <1>2. t.id \in DOMAIN asked
    BY <1>1 DEF QuestionInv, ToldInv
  <1>3. ASSUME NEW k \in Kinds, Opens(k) PROVE asked'[t.id] = asked[t.id] /\ told' = told
    <2> DEFINE x == [call |-> call, kind |-> k]
    <2>1. asked' = Append(asked, x) /\ told' = told
      BY <1>3 DEF Opens
    <2>2. asked \in Seq(Asked) /\ x \in Asked
      BY DEF QuestionInv, QuestionTypes, Asked
    <2> HIDE DEF x
    <2>3. \A i \in 1 .. Len(asked) : Append(asked, x)[i] = asked[i]
      BY <2>2, AppendProperties
    <2> QED BY <1>2, <2>1, <2>2, <2>3
  <1>4. asked'[t.id] = asked[t.id] /\ told \subseteq told'
    BY <1>3, QuestionMoves DEF Settles, Ends, Starts, Answer, WaitInterrupted, questionVars
  <1> QED BY <1>1, <1>4 DEF ApprovalGiven, AnswersFor

\* What a step adds belongs to the current call; a call both gated and run was approved.
LEMMA GateKept ==
  ASSUME QuestionInv, GateInv, QuestionNext,
         gated' \in SUBSET (gated \cup {call}), executed' \in SUBSET (executed \cup {call}),
         call \in gated' \cap executed' => ApprovalGiven(call),
         \/ Settles
         \/ Ends
         \/ \E k \in Kinds : Opens(k) /\ (k = Approval => call \notin executed')
         \/ Starts /\ (call \in gated' => ApprovalGiven(call))
  PROVE  GateInv'
  <1>1. /\ call \in Nat /\ phase \in Active
        /\ \A c \in gated \cup executed : c \in Nat /\ c <= call
    BY DEF QuestionInv, QuestionTypes, GateInv, Settles, Ends, Opens, Starts, Active
  <1>2. gated' \in SUBSET Nat /\ executed' \in SUBSET Nat /\ \A c \in gated' \cup executed' : c <= call
    BY <1>1
  <1>3. OnlyApprovedRuns'
    <2>1. ASSUME NEW c \in executed' \cap gated' PROVE ApprovalGiven(c)'
      <3>1. ApprovalGiven(c)
        BY DEF GateInv, OnlyApprovedRuns, ApprovalGiven
      <3> QED BY <3>1, ApprovalStays
    <2> QED BY <2>1 DEF OnlyApprovedRuns, ApprovalGiven
  <1>4. CASE Settles
    <2>1. call' = call + 1 /\ phase' \in {"Policy", "Done"}
      BY <1>4 DEF Settles, Settle
    <2>2. \A c \in gated' \cup executed' : c <= call' /\ c # call'
      BY <1>1, <1>2, <2>1
    <2> QED BY <1>2, <1>3, <2>1, <2>2 DEF GateInv, Waits
  <1>5. CASE Ends
    BY <1>2, <1>3, <1>5 DEF GateInv, Ends, End, Active, Waits
  <1>6. ASSUME NEW k \in Kinds, Opens(k), k = Approval => call \notin executed' PROVE GateInv'
    <2>1. call' = call /\ phase' = "Waiting" /\ question' = {k}
      BY <1>6 DEF Opens
    <2> QED BY <1>2, <1>3, <1>6, <2>1 DEF GateInv
  <1>7. CASE Starts /\ (call \in gated' => ApprovalGiven(call))
    <2>1. call' = call /\ phase' = "Execute"
      BY <1>7 DEF Starts
    <2>2. call' \in gated' => ApprovalGiven(call)'
      BY <1>7, <2>1, ApprovalStays DEF ApprovalGiven
    <2> QED BY <1>2, <1>3, <2>1, <2>2 DEF GateInv, Waits
  <1> QED BY <1>4, <1>5, <1>6, <1>7

\* Every step keeps gates and runs in order.
LEMMA GateInvStep ==
  QuestionInv /\ GateInv /\ [QuestionNext]_questionVars => GateInv'
  <1> SUFFICES ASSUME QuestionInv, GateInv, [QuestionNext]_questionVars PROVE GateInv'
    OBVIOUS
  <1>1. CASE UNCHANGED questionVars
    BY <1>1 DEF GateInv, questionVars, OnlyApprovedRuns, ApprovalGiven, AnswersFor
  <1> SUFFICES ASSUME QuestionNext PROVE GateInv'
    BY <1>1
  <1>2. ASSUME NEW d \in Decisions, Decide(d) PROVE GateInv'
    <2>1. /\ phase = "Policy" /\ executed' = executed /\ call \notin gated \cup executed
          /\ gated' = IF d.decision = "Allow" THEN gated ELSE gated \cup {call}
      BY <1>2 DEF Decide, GateInv
    <2>2. Starts => d.decision = "Allow"
      <3> SUFFICES ASSUME d.decision # "Allow" PROVE phase' # "Execute"
        BY DEF Starts
      <3>1. End \/ Ask(Approval) \/ \E reason : denied_result(reason)
        <4>1. d.decision \in {"Unavailable", "Deny", "RequireApproval"}
          BY DEF Decisions
        <4>2. CASE ~DecisionValid(d)
          BY <1>2, <4>2 DEF Decide, DecisionValid
        <4>3. CASE d.decision = "Unavailable"
          BY <1>2, <4>3 DEF Decide, DecisionValid
        <4>4. CASE DecisionValid(d) /\ d.decision = "Deny"
          BY <1>2, <4>4 DEF Decide
        <4>5. CASE DecisionValid(d) /\ d.decision = "RequireApproval"
          BY <1>2, <4>5 DEF Decide
        <4> QED BY <4>1, <4>2, <4>3, <4>4, <4>5
      <3>2. ASSUME NEW reason, denied_result(reason) PROVE phase' # "Execute"
        BY <3>2 DEF denied_result, Settle, Panic
      <3> QED BY <3>1, <3>2 DEF End, Ask
    <2>3. Starts => call \notin gated'
      BY <2>1, <2>2
    <2>4. Settles \/ Ends \/ Opens(Approval) \/ Starts
      BY <1>2, DecideMoves
    <2>5. Approval \in Kinds
      BY DEF Kinds
    <2> QED BY <2>1, <2>3, <2>4, <2>5, GateKept
  <1>3. CASE (\E o \in Texts : Completes(o)) \/ (\E q \in ToolInputs : Asks(q)) \/ Fails
    <2>1. phase = "Execute" /\ executed' = executed \cup {call} /\ gated' = gated
      BY <1>3 DEF Completes, Asks, Fails, Executes
    <2>2. call \in gated => ApprovalGiven(call)
      BY <2>1 DEF GateInv
    <2>3. Settles \/ \E k \in Kinds : Opens(k) /\ k # Approval
      BY <1>3, <2>1, ExecuteMoves DEF Opens
    <2> QED BY <2>1, <2>2, <2>3, GateKept
  <1>4. ASSUME NEW id \in DOMAIN asked, NEW a \in Answers, Answer(id, a) PROVE GateInv'
    <2>1. UNCHANGED <<phase, call, question, asked, gated, executed>>
      BY <1>4 DEF Answer
    <2>2. \A c : ApprovalGiven(c) => ApprovalGiven(c)'
      BY ApprovalStays
    <2> QED BY <2>1, <2>2 DEF GateInv, OnlyApprovedRuns, ApprovalGiven
  <1>5. CASE Resolves
    <2>1. phase = "Waiting" /\ UNCHANGED <<gated, executed>>
      BY <1>5 DEF Resolves
    <2>2. call \in gated \cap executed => ApprovalGiven(call)
      BY DEF GateInv, OnlyApprovedRuns, ApprovalGiven
    <2>3. Starts => ApprovalGiven(call)
      <3> SUFFICES ASSUME Starts PROVE ApprovalGiven(call)
        OBVIOUS
      <3>1. PICK a \in reply : a.answer = "AllowOnce"
        BY <2>1 DEF Starts
      <3>2. question = {Approval}
        BY <2>1 DEF Starts
      <3>3. asked[Len(asked)].call = call /\ [id |-> Len(asked), answer |-> a] \in told
        BY <2>1, <3>2, Answered
      <3> QED BY <3>1, <3>3 DEF ApprovalGiven, AnswersFor
    <2>4. Settles \/ Ends \/ Starts
      BY <1>5, ResolveMoves
    <2> QED BY <2>1, <2>2, <2>3, <2>4, GateKept
  <1>6. CASE WaitInterrupted
    <2>1. phase = "Waiting" /\ phase' = "Leaving"
          /\ UNCHANGED <<call, question, asked, told, gated, executed>>
      BY <1>6 DEF WaitInterrupted
    <2> QED BY <2>1 DEF GateInv, OnlyApprovedRuns, ApprovalGiven, AnswersFor, Active, Waits
  <1>7. CASE Leaves \/ CallInterrupted
    <2>1. Ends /\ gated' = gated
      BY <1>7 DEF Leaves, CallInterrupted, Ends, Active
    <2>2. executed' \in SUBSET (executed \cup {call})
      BY <1>7 DEF Leaves, CallInterrupted
    <2>3. call \in gated' \cap executed' => ApprovalGiven(call)
      BY <1>7, <2>1 DEF Leaves, CallInterrupted, GateInv, OnlyApprovedRuns, ApprovalGiven
    <2> QED BY <2>1, <2>2, <2>3, GateKept
  <1> QED BY <1>1, <1>2, <1>3, <1>4, <1>5, <1>6, <1>7 DEF QuestionNext, QuestionDone

-----------------------------------------------------------------------------
(* The theorems. *)

\* Every reachable state of a batch satisfies the two invariants.
LEMMA QuestionHolds == QuestionSpec => [](QuestionInv /\ GateInv)
  BY QuestionInitInv, QuestionInvStep, GateInitInv, GateInvStep, PTL DEF QuestionSpec

\* run_tool_call's expects and its index into the choices never panic, and what a result
\* hands to the model fits the loop's limit and is clean text, whatever the public fields
\* of decisions, questions and answers hold.
THEOREM RecordedOutputsFit == QuestionSpec => []OutputsFit
  <1>1. QuestionInv => OutputsFit
    BY DEF QuestionInv, QuestionTypes, Active, ResultInv, Right, OutputsFit
  <1> QED BY <1>1, QuestionHolds, PTL

\* LoopControl::answer tells one host Ok for each interaction at most, that answer decides
\* the result of its call unless the batch is interrupted, and provided_input_result records
\* no answer that nobody gave.
THEOREM AnswersDecideResults == QuestionSpec => []ResultIsTheAnswer
  <1>1. QuestionInv => ResultIsTheAnswer
    BY DEF QuestionInv, ToldInv, ResultInv, Right, ResultIsTheAnswer
  <1> QED BY <1>1, QuestionHolds, PTL

\* run_tool_call runs a tool only if its policy allowed the call, or a host allowed that very
\* call: never after a denial or a failed or malformed policy decision.
THEOREM GatedToolsAreApproved == QuestionSpec => []OnlyApprovedRuns
  <1>1. GateInv => OnlyApprovedRuns
    BY DEF GateInv
  <1> QED BY <1>1, QuestionHolds, PTL
=============================================================================
