--------------------------- MODULE PromptCheckProofs ---------------------------
(***************************************************************************)
(* A prompt for every ceiling, prefix, text, history and provider: the     *)
(* summary that it shows ends at a character boundary, as late as fits;    *)
(* the request check decides well-formedness exactly; and what is issued   *)
(* survives the wire.                                                      *)
(***************************************************************************)
EXTENDS PromptCheck, TLAPS

\* prepare stands at a summary.
AtSummary == next \in DOMAIN history /\ history[next].item = "Summary"

\* While the cut moves back, every boundary behind it is too far.
CutSoFar ==
  phase = "Cut" =>
    /\ AtSummary
    /\ end \in Nat /\ end <= history[next].text.length /\ Prefix + end <= Ceiling
    /\ \A b \in history[next].text.boundary : b > end => Prefix + b > Ceiling

\* The inductive invariant: CutIsLongest, with the loop's own and the types of the history.
CutInv ==
  /\ history \in Seq(UsedItems)
  /\ next \in Nat \ {0}
  /\ phase = "Build" => AtSummary /\ end \in Nat
  /\ CutSoFar
  /\ error = "InvalidHistory" => phase = "Failed" /\ next \in DOMAIN history
  /\ CutIsLongest

\* A summary's content is a text: a UTF-8 string starts and ends at a boundary.
LEMMA SummaryText ==
  ASSUME NEW h \in UsedItems, h.item = "Summary"
  PROVE  /\ h.text \in Contents
         /\ h.text.length \in 0 .. Ceiling
         /\ h.text.boundary \subseteq 0 .. h.text.length
         /\ 0 \in h.text.boundary /\ h.text.length \in h.text.boundary
         /\ h.text.control \subseteq h.text.boundary
  <1>1. h.text \in Contents
    BY DEF UsedItems
  <1> QED BY <1>1 DEF Contents

\* Nothing is cut at the start.
LEMMA CutInit == PromptInit => CutInv
  BY DEF PromptInit, CutInv, CutSoFar, CutIsLongest, ScanStart

\* Steps that leave the history, the position in it and the cut alone.
LEMMA CutElsewhere ==
  ASSUME CutInv, UNCHANGED history,
         phase' \notin {"Cut", "Build"},
         error' = "InvalidHistory" => error = "InvalidHistory" /\ UNCHANGED <<next, phase>>,
         next' \in Nat \ {0}
  PROVE  CutInv'
  BY DEF CutInv, CutSoFar, CutIsLongest, AtSummary

\* prepare comes to a summary.
LEMMA CutMeasure == CutInv /\ MeasureSummary => CutInv'
  <1> SUFFICES ASSUME CutInv, MeasureSummary PROVE CutInv'
    OBVIOUS
  <1> DEFINE t == history[next].text
  <1>1. AtSummary /\ history[next] \in UsedItems
    BY DEF CutInv, MeasureSummary, AtSummary
  <1>2. /\ t.length \in 0 .. Ceiling
        /\ t.boundary \subseteq 0 .. t.length
        /\ 0 \in t.boundary /\ t.length \in t.boundary
    BY <1>1, SummaryText DEF AtSummary
  <1>3. /\ UNCHANGED <<history, next, error>>
        /\ error # "InvalidHistory"
    BY DEF MeasureSummary, CutInv
  <1>4. CASE Prefix + t.length > Ceiling
    <2>1. end' = Ceiling - Prefix /\ phase' = "Cut"
      BY <1>4 DEF MeasureSummary
    <2>2. CutSoFar'
      BY <1>1, <1>2, <1>3, <1>4, <2>1, PromptAssumption DEF CutSoFar, AtSummary
    <2> QED BY <1>3, <2>1, <2>2 DEF CutInv, CutIsLongest
  <1>5. CASE ~(Prefix + t.length > Ceiling)
    <2>1. end' = t.length /\ phase' = "Build"
      BY <1>5 DEF MeasureSummary
    <2>2. CutIsLongest'
      BY <1>1, <1>2, <1>3, <1>5, <2>1, PromptAssumption DEF CutIsLongest, is_char_boundary
    <2> QED BY <1>1, <1>2, <1>3, <2>1, <2>2 DEF CutInv, CutSoFar, AtSummary
  <1> QED BY <1>4, <1>5

\* The cut moves back: what it passes was no boundary.
LEMMA CutStepBack == CutInv /\ StepBack => CutInv'
  <1> SUFFICES ASSUME CutInv, StepBack PROVE CutInv'
    OBVIOUS
  <1> DEFINE t == history[next].text
  <1>1. AtSummary /\ history[next] \in UsedItems
    BY DEF CutInv, CutSoFar, StepBack, AtSummary
  <1>2. /\ t.length \in 0 .. Ceiling
        /\ t.boundary \subseteq 0 .. t.length
        /\ 0 \in t.boundary
    BY <1>1, SummaryText DEF AtSummary
  <1>3. /\ UNCHANGED <<history, next, error>>
        /\ error # "InvalidHistory"
    BY DEF StepBack, CutInv
  <1>4. /\ end \in Nat /\ end <= t.length /\ Prefix + end <= Ceiling
        /\ \A b \in t.boundary : b > end => Prefix + b > Ceiling
    BY DEF CutInv, CutSoFar, StepBack
  <1>5. CASE end > 0 /\ ~is_char_boundary(end)
    <2>1. end' = end - 1 /\ phase' = "Cut"
      BY <1>5 DEF StepBack
    <2>2. \A b \in t.boundary : b > end - 1 => b > end
      BY <1>2, <1>4, <1>5 DEF is_char_boundary
    <2>3. CutSoFar'
      BY <1>1, <1>2, <1>3, <1>4, <1>5, <2>1, <2>2, PromptAssumption DEF CutSoFar, AtSummary
    <2> QED BY <1>3, <2>1, <2>3 DEF CutInv, CutIsLongest
  <1>6. CASE ~(end > 0 /\ ~is_char_boundary(end))
    <2>1. end' = end /\ phase' = "Build"
      BY <1>6 DEF StepBack
    <2>2. end \in t.boundary
      BY <1>2, <1>4, <1>6 DEF is_char_boundary
    <2>3. CutIsLongest'
      BY <1>1, <1>3, <1>4, <2>1, <2>2 DEF CutIsLongest, is_char_boundary
    <2> QED BY <1>1, <1>3, <1>4, <2>1, <2>3 DEF CutInv, CutSoFar, AtSummary
  <1> QED BY <1>5, <1>6

\* The cut text fits, so that only a control character can make it no message.
LEMMA CutBuild == CutInv /\ BuildSummary => CutInv'
  <1> SUFFICES ASSUME CutInv, BuildSummary PROVE CutInv'
    OBVIOUS
  <1> DEFINE t == history[next].text
             message == [role |-> "System", text |-> CutText]
  <1>1. AtSummary /\ history[next] \in UsedItems /\ end \in Nat
    BY DEF CutInv, BuildSummary, AtSummary
  <1>2. /\ t.boundary \subseteq Nat /\ t.control \subseteq t.boundary
    BY <1>1, SummaryText DEF AtSummary
  <1>3. Prefix + end <= Ceiling /\ is_char_boundary(end)
    BY DEF CutInv, CutIsLongest, BuildSummary
  <1>4. UNCHANGED history /\ error # "InvalidHistory"
    BY DEF CutInv, BuildSummary
  <1>5. CASE ValidMessage(message)
    <2>1. phase' = "Prepare" /\ next' = next + 1 /\ error' = error
      BY <1>3, <1>5 DEF BuildSummary
    <2> QED BY <1>4, <2>1, CutElsewhere DEF CutInv
  <1>6. CASE ~ValidMessage(message)
    <2>1. phase' = "Failed" /\ error' = "InvalidHistory" /\ next' = next
      BY <1>3, <1>6 DEF BuildSummary, Fail
    <2>2. CutText # "Clean"
      BY <1>6 DEF ValidMessage, valid_text
    <2>3. \E c \in t.control : c < end
      BY <1>1, <1>2, <1>3, <2>2, PromptAssumption DEF CutText
    <2>4. \E c \in t.control : Prefix + c < Ceiling
      BY <1>1, <1>2, <1>3, <2>3, PromptAssumption
    <2> QED BY <1>1, <1>4, <2>1, <2>4 DEF CutInv, CutSoFar, CutIsLongest, AtSummary
  <1> QED BY <1>5, <1>6

\* Every step keeps the cut right.
LEMMA CutNext == CutInv /\ [PromptNext]_promptVars => CutInv'
  <1> SUFFICES ASSUME CutInv, [PromptNext]_promptVars PROVE CutInv'
    OBVIOUS
  <1>0. next \in Nat \ {0}
    BY DEF CutInv
  <1>1. ASSUME NEW h \in UsedItems, HostAppends(h) PROVE CutInv'
    <2>1. history' \in Seq(UsedItems)
      BY <1>1 DEF HostAppends, CutInv
    <2> QED BY <1>1, <2>1 DEF HostAppends, CutInv, CutSoFar, CutIsLongest
  <1>2. ASSUME NEW m \in UsedMessages, CustomAppends(m) PROVE CutInv'
    BY <1>0, <1>2, CutElsewhere DEF CustomAppends
  <1>3. CASE CustomReturns
    BY <1>0, <1>3, CutElsewhere DEF CustomReturns, Fail, CutInv
  <1>4. CASE PrepareRefuses
    BY <1>0, <1>4, CutElsewhere DEF PrepareRefuses, Fail
  <1>5. CASE PrepareBegins
    BY <1>0, <1>5, CutElsewhere DEF PrepareBegins, CutInv
  <1>6. CASE ProjectItem
    <2>1. CASE Projects(history[next])
      BY <1>0, <1>6, <2>1, CutElsewhere DEF ProjectItem, CutInv
    <2>2. CASE ~Projects(history[next])
      BY <1>0, <1>6, <2>2 DEF ProjectItem, Fail, CutInv, CutSoFar, CutIsLongest
    <2> QED BY <2>1, <2>2
  <1>7. CASE MeasureSummary
    BY <1>7, CutMeasure
  <1>8. CASE StepBack
    BY <1>8, CutStepBack
  <1>9. CASE BuildSummary
    BY <1>9, CutBuild
  <1>10. CASE PrepareEnds
    BY <1>10, CutElsewhere DEF PrepareEnds, Fail, CutInv
  <1>11. CASE CheckMessage
    BY <1>0, <1>11, CutElsewhere DEF CheckMessage, Fail, CutInv
  <1>12. CASE CheckEnds
    BY <1>0, <1>12, CutElsewhere DEF CheckEnds, Fail, CutInv
  <1>13. CASE UNCHANGED promptVars
    BY <1>13 DEF promptVars, CutInv, CutSoFar, CutIsLongest, AtSummary, is_char_boundary
  <1> QED
    BY <1>1, <1>2, <1>3, <1>4, <1>5, <1>6, <1>7, <1>8, <1>9, <1>10, <1>11, <1>12, <1>13
    DEF PromptNext, PromptDone

\* Whatever the ceiling and the length of the prefix, every summary is cut at a character
\* boundary, as late as fits, and refused for a control character only (summary_message).
THEOREM SummaryIsCutRight == PromptSpec => []CutIsLongest
  <1>1. CutInv => CutIsLongest
    BY DEF CutInv
  <1> QED BY <1>1, CutInit, CutNext, PTL DEF PromptSpec

-----------------------------------------------------------------------------
(* The request check. *)

\* What a prompt can hold: another provider's messages, and the projections of items.
AllMessages ==
  UsedMessages
    \cup {AssistantMessage(h.parts, h.replay) : h \in [parts : PartLists, replay : BOOLEAN]}

\* Message h opens the exchange that ends before message n.
Opening(ms, h, n) ==
  /\ h \in 1 .. n - 1 /\ ms[h].role # "Tool"
  /\ \A k \in h + 1 .. n - 1 : ms[k].role = "Tool"

\* Behind message i stand the results of its calls, each once.
Closed(ms, i) ==
  /\ {ms[j].id : j \in RunAfter(ms, i)} = CallsAt(ms, i)
  /\ \A j, k \in RunAfter(ms, i) : ms[j].id = ms[k].id => j = k

\* The locals of validate_tool_exchange at message n, with the exchange h opened.
Follows(ms, h, n, s) ==
  /\ s.completed = {ms[j].id : j \in h + 1 .. n - 1}
  /\ \A j, k \in h + 1 .. n - 1 : ms[j].id = ms[k].id => j = k
  /\ s.pending = CallsAt(ms, h) \ s.completed
  /\ s.completed \subseteq CallsAt(ms, h)
  /\ \A i \in 1 .. h - 1 : ms[i].role # "Tool" => Closed(ms, i)

\* The check has passed the messages before n.
Passed(ms, n, s) ==
  /\ s.error = "None"
  /\ \A i \in 1 .. n - 1 : ValidMessage(ms[i])
  /\ n = 1 => s.pending = {} /\ s.completed = {}
  /\ n > 1 => ms[1].role # "Tool" /\ \E h \in 1 .. n - 1 : Opening(ms, h, n) /\ Follows(ms, h, n, s)

\* The inductive invariant of the check: what it has passed, beside its verdict.
CheckInv ==
  /\ system \in SystemTexts
  /\ messages \in Seq(AllMessages)
  /\ phase \in {"Host", "Prepare", "Cut", "Build", "Check", "Issued", "Failed"}
  /\ phase \in {"Host", "Prepare", "Cut", "Build"} => scan = ScanStart
  /\ phase = "Host" => next = 1
  /\ phase = "Check" =>
       /\ next \in 1 .. Len(messages) + 1 /\ messages # <<>>
       /\ scan = [pending |-> scan.pending, completed |-> scan.completed, error |-> "None"]
       /\ Passed(messages, next, scan)
  /\ error = "Request" => phase = "Failed"
  /\ CheckDecides

\* The results behind an opening message, once something else or the end follows.
LEMMA RunEnds ==
  ASSUME NEW ms \in Seq(AllMessages), NEW n \in 1 .. Len(ms) + 1, NEW h, Opening(ms, h, n),
         n \in DOMAIN ms => ms[n].role # "Tool"
  PROVE  RunAfter(ms, h) = h + 1 .. n - 1
  <1>1. DOMAIN ms = 1 .. Len(ms) /\ Len(ms) \in Nat /\ n \in Nat /\ h \in Nat /\ h > 0 /\ h < n
    BY DEF Opening
  <1>2. ASSUME NEW j \in RunAfter(ms, h) PROVE j \in h + 1 .. n - 1
    <2>1. j \in 1 .. Len(ms) /\ j > h /\ \A k \in DOMAIN ms : h < k /\ k <= j => ms[k].role = "Tool"
      BY <1>1 DEF RunAfter
    <2>2. ~(n <= j)
      BY <1>1, <2>1
    <2> QED BY <1>1, <2>1, <2>2
  <1>3. ASSUME NEW j \in h + 1 .. n - 1 PROVE j \in RunAfter(ms, h)
    <2>1. j \in DOMAIN ms /\ j > h
      BY <1>1
    <2>2. ASSUME NEW k \in DOMAIN ms, h < k, k <= j PROVE ms[k].role = "Tool"
      <3>1. k \in h + 1 .. n - 1
        BY <1>1, <2>2
      <3> QED BY <3>1 DEF Opening
    <2> QED BY <2>1, <2>2 DEF RunAfter
  <1> QED BY <1>2, <1>3

\* A result behind an exchange belongs to it.
LEMMA RunGoesOn ==
  ASSUME NEW ms \in Seq(AllMessages), NEW n \in DOMAIN ms, NEW h, Opening(ms, h, n),
         ms[n].role = "Tool"
  PROVE  h + 1 .. n \subseteq RunAfter(ms, h)
  <1>1. DOMAIN ms = 1 .. Len(ms) /\ Len(ms) \in Nat /\ n \in Nat /\ h \in Nat /\ h > 0 /\ h < n
    BY DEF Opening
  <1>2. ASSUME NEW j \in h + 1 .. n PROVE j \in RunAfter(ms, h)
    <2>1. j \in DOMAIN ms /\ j > h
      BY <1>1
    <2>2. ASSUME NEW k \in DOMAIN ms, h < k, k <= j PROVE ms[k].role = "Tool"
      <3>1. k = n \/ k \in h + 1 .. n - 1
        BY <1>1, <2>2
      <3> QED BY <3>1 DEF Opening
    <2> QED BY <2>1, <2>2 DEF RunAfter
  <1> QED BY <1>2

\* An exchange without a call left is closed when something else or the end follows.
LEMMA ExchangeCloses ==
  ASSUME NEW ms \in Seq(AllMessages), NEW n \in 1 .. Len(ms) + 1, NEW h, NEW s,
         Opening(ms, h, n), Follows(ms, h, n, s),
         n \in DOMAIN ms => ms[n].role # "Tool"
  PROVE  Closed(ms, h) <=> s.pending = {}
  <1>1. RunAfter(ms, h) = h + 1 .. n - 1
    BY RunEnds
  <1>2. {ms[j].id : j \in RunAfter(ms, h)} = s.completed
    BY <1>1 DEF Follows
  <1>3. \A j, k \in RunAfter(ms, h) : ms[j].id = ms[k].id => j = k
    BY <1>1 DEF Follows
  <1>4. s.completed = CallsAt(ms, h) <=> s.pending = {}
    BY DEF Follows
  <1> QED BY <1>2, <1>3, <1>4 DEF Closed

\* Every message before n that is no result is closed, except the opening one.
LEMMA AllBefore ==
  ASSUME NEW ms \in Seq(AllMessages), NEW n \in 1 .. Len(ms) + 1, NEW h, NEW s,
         Opening(ms, h, n), Follows(ms, h, n, s),
         n \in DOMAIN ms => ms[n].role # "Tool", s.pending = {}
  PROVE  \A i \in 1 .. n - 1 : ms[i].role # "Tool" => Closed(ms, i)
  <1> SUFFICES ASSUME NEW i \in 1 .. n - 1, ms[i].role # "Tool" PROVE Closed(ms, i)
    OBVIOUS
  <1>1. n \in Nat /\ h \in 1 .. n - 1
    BY DEF Opening
  <1>2. i \notin h + 1 .. n - 1
    BY DEF Opening
  <1>3. i = h \/ i \in 1 .. h - 1
    BY <1>1, <1>2
  <1> QED BY <1>3, ExchangeCloses DEF Follows

\* Well-formedness, message by message.
LEMMA WellFormedMeans ==
  ASSUME NEW ms, WellFormed(ms)
  PROVE  /\ \A i \in DOMAIN ms : ValidMessage(ms[i])
         /\ 1 \in DOMAIN ms => ms[1].role # "Tool"
         /\ \A i \in DOMAIN ms : ms[i].role # "Tool" => Closed(ms, i)
  BY DEF WellFormed, Closed

\* The check goes past a message that it accepts.
LEMMA CheckPasses ==
  ASSUME NEW ms \in Seq(AllMessages), NEW n \in DOMAIN ms, NEW s,
         s = [pending |-> s.pending, completed |-> s.completed, error |-> "None"],
         Passed(ms, n, s), ScanMessage(s, ms[n]).error = "None"
  PROVE  LET t == ScanMessage(s, ms[n])
         IN  /\ t = [pending |-> t.pending, completed |-> t.completed, error |-> "None"]
             /\ Passed(ms, n + 1, t)
  <1> DEFINE m == ms[n]
             t == ScanMessage(s, m)
  <1>0. n \in Nat /\ n > 0 /\ n \in 1 .. Len(ms) + 1 /\ DOMAIN ms = 1 .. Len(ms) /\ Len(ms) \in Nat
    OBVIOUS
  <1>1. CASE m.role = "Tool"
    <2> DEFINE c == m.id
    <2>1. /\ c \notin s.completed /\ c \in s.pending
          /\ t = [pending |-> s.pending \ {c}, completed |-> s.completed \cup {c}, error |-> "None"]
      BY <1>1 DEF ScanMessage, ScanTool
    <2>2. n > 1
      BY <1>0, <2>1 DEF Passed
    <2>3. PICK h \in 1 .. n - 1 : Opening(ms, h, n) /\ Follows(ms, h, n, s)
      BY <2>2 DEF Passed
    <2>4. ValidMessage(m)
      BY <1>1 DEF ValidMessage
    <2>5. Opening(ms, h, n + 1)
      BY <1>0, <1>1, <2>3 DEF Opening
    <2>6. h + 1 .. (n + 1) - 1 = (h + 1 .. n - 1) \cup {n}
      BY <1>0, <2>3
    <2>7. Follows(ms, h, n + 1, t)
      <3>1. t.completed = {ms[j].id : j \in h + 1 .. (n + 1) - 1}
        BY <2>1, <2>3, <2>6 DEF Follows
      <3>2. \A j, k \in h + 1 .. (n + 1) - 1 : ms[j].id = ms[k].id => j = k
        <4>1. \A j \in h + 1 .. n - 1 : ms[j].id # ms[n].id
          BY <2>1, <2>3 DEF Follows
        <4> QED BY <2>3, <2>6, <4>1 DEF Follows
      <3>3. t.pending = CallsAt(ms, h) \ t.completed /\ t.completed \subseteq CallsAt(ms, h)
        BY <2>1, <2>3 DEF Follows
      <3> QED BY <2>3, <3>1, <3>2, <3>3 DEF Follows
    <2>8. ms[1].role # "Tool" /\ \A i \in 1 .. n - 1 : ValidMessage(ms[i])
      BY <2>2 DEF Passed
    <2>9. \A i \in 1 .. (n + 1) - 1 : ValidMessage(ms[i])
      BY <1>0, <2>4, <2>8
    <2>10. h \in 1 .. (n + 1) - 1 /\ n + 1 > 1 /\ n + 1 # 1
      BY <1>0, <2>3
    <2>11. t.error = "None"
      BY <2>1
    <2> HIDE DEF t
    <2>12. Passed(ms, n + 1, t)
      BY <2>5, <2>7, <2>8, <2>9, <2>10, <2>11 DEF Passed
    <2> QED BY <2>1, <2>12 DEF t
  <1>2. CASE m.role # "Tool"
    <2>1. /\ s.pending = {} /\ ValidMessage(m)
          /\ t = [pending |-> CallsAt(ms, n), completed |-> {}, error |-> "None"]
      BY <1>2 DEF ScanMessage, ScanOther, CallsAt
    <2>2. Opening(ms, n, n + 1)
      BY <1>0, <1>2 DEF Opening
    <2>3. \A i \in 1 .. n - 1 : ms[i].role # "Tool" => Closed(ms, i)
      <3>1. CASE n = 1
        BY <1>0, <3>1
      <3>2. CASE n > 1
        <4>1. PICK h \in 1 .. n - 1 : Opening(ms, h, n) /\ Follows(ms, h, n, s)
          BY <3>2 DEF Passed
        <4> QED BY <1>0, <1>2, <2>1, <4>1, AllBefore
      <3> QED BY <1>0, <3>1, <3>2
    <2>4. n + 1 .. (n + 1) - 1 = {}
      BY <1>0
    <2> HIDE DEF t, m
    <2>5. Follows(ms, n, n + 1, t)
      BY <2>1, <2>3, <2>4 DEF Follows
    <2>6. ms[1].role # "Tool"
      BY <1>0, <1>2 DEF Passed, m
    <2>7. \A i \in 1 .. (n + 1) - 1 : ValidMessage(ms[i])
      BY <1>0, <2>1 DEF Passed, m
    <2>8. n \in 1 .. (n + 1) - 1 /\ n + 1 > 1 /\ n + 1 # 1
      BY <1>0
    <2>9. Passed(ms, n + 1, t)
      BY <2>1, <2>2, <2>5, <2>6, <2>7, <2>8 DEF Passed
    <2> QED BY <2>1, <2>9 DEF t, m
  <1> QED BY <1>1, <1>2

\* What the check turns away is not well-formed.
LEMMA CheckRejects ==
  ASSUME NEW ms \in Seq(AllMessages), NEW n \in DOMAIN ms, NEW s,
         s = [pending |-> s.pending, completed |-> s.completed, error |-> "None"],
         Passed(ms, n, s), ScanMessage(s, ms[n]).error # "None"
  PROVE  ~WellFormed(ms)
  <1> SUFFICES ASSUME WellFormed(ms) PROVE FALSE
    OBVIOUS
  <1>0. /\ n \in Nat /\ n > 0 /\ n \in 1 .. Len(ms) + 1 /\ DOMAIN ms = 1 .. Len(ms) /\ Len(ms) \in Nat
    OBVIOUS
  <1>1. /\ \A i \in DOMAIN ms : ValidMessage(ms[i])
        /\ 1 \in DOMAIN ms => ms[1].role # "Tool"
        /\ \A i \in DOMAIN ms : ms[i].role # "Tool" => Closed(ms, i)
    BY WellFormedMeans
  <1>2. CASE ms[n].role = "Tool"
    <2>1. n > 1
      BY <1>0, <1>1, <1>2
    <2>2. PICK h \in 1 .. n - 1 : Opening(ms, h, n) /\ Follows(ms, h, n, s)
      BY <2>1 DEF Passed
    <2>3. h + 1 .. n \subseteq RunAfter(ms, h)
      BY <1>2, <2>2, RunGoesOn
    <2>4. Closed(ms, h) /\ n \in RunAfter(ms, h)
      BY <1>0, <1>1, <2>2, <2>3 DEF Opening
    <2>5. ms[n].id \in CallsAt(ms, h)
      BY <2>4 DEF Closed
    <2>6. ms[n].id \notin s.completed
      <3> SUFFICES ASSUME NEW j \in h + 1 .. n - 1, ms[j].id = ms[n].id PROVE FALSE
        BY <2>2 DEF Follows
      <3>1. j \in RunAfter(ms, h) /\ j # n
        BY <1>0, <2>2, <2>3
      <3> QED BY <2>4, <3>1 DEF Closed
    <2>7. ms[n].id \in s.pending
      BY <2>2, <2>5, <2>6 DEF Follows
    <2> QED BY <1>2, <2>6, <2>7 DEF ScanMessage, ScanTool
  <1>3. CASE ms[n].role # "Tool"
    <2>1. ValidMessage(ms[n])
      BY <1>1
    <2>2. s.pending # {}
      BY <1>3, <2>1 DEF ScanMessage, ScanOther
    <2>3. n > 1
      BY <1>0, <2>2 DEF Passed
    <2>4. PICK h \in 1 .. n - 1 : Opening(ms, h, n) /\ Follows(ms, h, n, s)
      BY <2>3 DEF Passed
    <2>5. Closed(ms, h)
      BY <1>0, <1>1, <2>4 DEF Opening
    <2> QED BY <1>0, <1>3, <2>2, <2>4, <2>5, ExchangeCloses
  <1> QED BY <1>2, <1>3

\* At the end of the messages the check has seen whether all of them are well-formed.
LEMMA CheckConcludes ==
  ASSUME NEW ms \in Seq(AllMessages), NEW n, n = Len(ms) + 1, ms # <<>>, NEW s,
         s = [pending |-> s.pending, completed |-> s.completed, error |-> "None"],
         Passed(ms, n, s)
  PROVE  ScanEnd(s).error = "None" <=> WellFormed(ms)
  <1>0. n \in Nat /\ n > 1 /\ n \in 1 .. Len(ms) + 1 /\ DOMAIN ms = 1 .. n - 1 /\ n \notin DOMAIN ms
    OBVIOUS
  <1>1. ScanEnd(s).error = "None" <=> s.pending = {}
    BY DEF ScanEnd
  <1>2. PICK h \in 1 .. n - 1 : Opening(ms, h, n) /\ Follows(ms, h, n, s)
    BY <1>0 DEF Passed
  <1>3. ASSUME s.pending = {} PROVE WellFormed(ms)
    <2>1. \A i \in DOMAIN ms : ms[i].role # "Tool" => Closed(ms, i)
      BY <1>0, <1>2, <1>3, AllBefore
    <2>2. (\A i \in DOMAIN ms : ValidMessage(ms[i])) /\ ms[1].role # "Tool"
      BY <1>0 DEF Passed
    <2> QED BY <2>1, <2>2 DEF WellFormed, Closed
  <1>4. ASSUME WellFormed(ms) PROVE s.pending = {}
    <2>1. Closed(ms, h)
      BY <1>0, <1>2, <1>4, WellFormedMeans DEF Opening
    <2> QED BY <1>0, <1>2, <2>1, ExchangeCloses
  <1> QED BY <1>1, <1>3, <1>4

\* The projection of an item that is no summary is a message.
LEMMA ProjectionIsMessage ==
  ASSUME NEW h \in UsedItems, h.item # "Summary"
  PROVE  MessageOf(h) \in AllMessages
  <1>1. CASE h.item = "User"
    <2>1. h.text \in Texts
      BY <1>1 DEF UsedItems, BoundedTexts
    <2> QED BY <1>1, <2>1 DEF MessageOf, AllMessages, UsedMessages
  <1>2. CASE h.item = "Assistant"
    <2>1. h.parts \in PartLists /\ h.replay \in BOOLEAN
      BY <1>2 DEF UsedItems
    <2> DEFINE g == [parts |-> h.parts, replay |-> h.replay]
    <2>2. g \in [parts : PartLists, replay : BOOLEAN] /\ g.parts = h.parts /\ g.replay = h.replay
      BY <2>1
    <2>3. MessageOf(h) = AssistantMessage(g.parts, g.replay)
      BY <1>2, <2>2 DEF MessageOf
    <2> HIDE DEF g
    <2> QED BY <2>2, <2>3 DEF AllMessages
  <1>3. CASE h.item = "ToolResult"
    <2>1. h.id \in CallIds
      BY <1>3 DEF UsedItems
    <2> QED BY <1>3, <2>1 DEF MessageOf, AllMessages, UsedMessages
  <1>4. h.item \in {"User", "Assistant", "ToolResult"}
    BY DEF UsedItems
  <1> QED BY <1>1, <1>2, <1>3, <1>4

\* Nothing is checked at the start.
LEMMA CheckInit == PromptInit => CheckInv
  BY DEF PromptInit, CheckInv, CheckDecides

\* The check begins with nothing passed.
LEMMA CheckBegins ==
  ASSUME CheckInv, scan = ScanStart, UNCHANGED <<system, messages, scan>>, messages # <<>>,
         phase' = "Check", next' = 1, error' # "Request"
  PROVE  CheckInv'
  <1>1. Passed(messages, 1, scan) /\ scan = [pending |-> {}, completed |-> {}, error |-> "None"]
    BY DEF Passed, ScanStart
  <1>2. 1 \in 1 .. Len(messages) + 1
    BY DEF CheckInv
  <1> QED BY <1>1, <1>2 DEF CheckInv, CheckDecides

\* Steps before the check.
LEMMA CheckAhead ==
  ASSUME CheckInv, scan = ScanStart, UNCHANGED <<system, scan>>, messages' \in Seq(AllMessages),
         phase' \in {"Host", "Prepare", "Cut", "Build", "Failed"},
         error' # "Request", phase' = "Host" => next' = 1
  PROVE  CheckInv'
  BY DEF CheckInv, CheckDecides

\* Every step keeps the check's invariant.
LEMMA CheckNext == CheckInv /\ CutInv /\ [PromptNext]_promptVars => CheckInv'
  <1> SUFFICES ASSUME CheckInv, CutInv, [PromptNext]_promptVars PROVE CheckInv'
    OBVIOUS
  <1>0. messages \in Seq(AllMessages) /\ history \in Seq(UsedItems) /\ (error = "Request" => phase = "Failed")
    BY DEF CheckInv, CutInv
  <1>1. ASSUME NEW h \in UsedItems, HostAppends(h) PROVE CheckInv'
    BY <1>0, <1>1, CheckAhead DEF HostAppends, CheckInv
  <1>2. ASSUME NEW m \in UsedMessages, CustomAppends(m) PROVE CheckInv'
    <2>1. messages' \in Seq(AllMessages)
      BY <1>0, <1>2 DEF CustomAppends, AllMessages
    <2> QED BY <1>0, <1>2, <2>1, CheckAhead DEF CustomAppends, CheckInv
  <1>3. CASE CustomReturns
    <2>1. scan = ScanStart /\ next = 1 /\ UNCHANGED <<system, messages, scan, next>> /\ error # "Request"
      BY <1>3 DEF CustomReturns, CheckInv
    <2>2. CASE messages = <<>>
      BY <1>0, <1>3, <2>1, <2>2, CheckAhead DEF CustomReturns, Fail
    <2>3. CASE messages # <<>>
      BY <1>3, <2>1, <2>3, CheckBegins DEF CustomReturns
    <2> QED BY <2>2, <2>3
  <1>4. CASE PrepareRefuses
    BY <1>0, <1>4, CheckAhead DEF PrepareRefuses, Fail, CheckInv
  <1>5. CASE PrepareBegins
    <2>1. messages' \in Seq(AllMessages)
      <3>1. [role |-> "System", text |-> system] \in AllMessages
        <4>1. system \in Texts
          BY PromptAssumption DEF CheckInv, BoundedTexts
        <4> QED BY <4>1 DEF AllMessages, UsedMessages
      <3> QED BY <1>5, <3>1 DEF PrepareBegins
    <2> QED BY <1>0, <1>5, <2>1, CheckAhead DEF PrepareBegins, CheckInv
  <1>6. CASE ProjectItem
    <2>1. scan = ScanStart /\ UNCHANGED <<system, scan>> /\ phase' \in {"Prepare", "Failed"} /\ error' # "Request"
      BY <1>0, <1>6 DEF ProjectItem, CheckInv, Fail
    <2>2. messages' \in Seq(AllMessages)
      <3>1. history[next] \in UsedItems /\ history[next].item # "Summary"
        BY <1>0, <1>6 DEF ProjectItem, CutInv
      <3>2. MessageOf(history[next]) \in AllMessages
        BY <3>1, ProjectionIsMessage
      <3> QED BY <1>0, <1>6, <3>2 DEF ProjectItem
    <2> QED BY <2>1, <2>2, CheckAhead
  <1>7. CASE MeasureSummary
    BY <1>0, <1>7, CheckAhead DEF MeasureSummary, CheckInv
  <1>8. CASE StepBack
    BY <1>0, <1>8, CheckAhead DEF StepBack, CheckInv
  <1>9. CASE BuildSummary
    <2>1. scan = ScanStart /\ UNCHANGED <<system, scan>> /\ phase' \in {"Prepare", "Failed"} /\ error' # "Request"
      BY <1>0, <1>9 DEF BuildSummary, CheckInv, Fail
    <2>2. messages' \in Seq(AllMessages)
      <3>1. [role |-> "System", text |-> CutText] \in AllMessages
        BY DEF CutText, AllMessages, UsedMessages, Texts
      <3> QED BY <1>0, <1>9, <3>1 DEF BuildSummary
    <2> QED BY <2>1, <2>2, CheckAhead
  <1>10. CASE PrepareEnds
    <2>1. scan = ScanStart /\ next' = 1 /\ UNCHANGED <<system, messages, scan>> /\ error # "Request"
      BY <1>10 DEF PrepareEnds, CheckInv
    <2>2. CASE messages = <<>>
      BY <1>0, <1>10, <2>1, <2>2, CheckAhead DEF PrepareEnds, Fail
    <2>3. CASE messages # <<>>
      BY <1>10, <2>1, <2>3, CheckBegins DEF PrepareEnds
    <2> QED BY <2>2, <2>3
  <1>11. CASE CheckMessage
    <2>1. /\ phase = "Check" /\ UNCHANGED <<system, messages>> /\ messages # <<>>
          /\ next \in DOMAIN messages /\ next \in Nat
          /\ scan = [pending |-> scan.pending, completed |-> scan.completed, error |-> "None"]
          /\ Passed(messages, next, scan) /\ error # "Request"
          /\ scan' = ScanMessage(scan, messages[next])
      BY <1>0, <1>11 DEF CheckMessage, CheckInv
    <2>2. CASE scan'.error = "None"
      <3>1. next' = next + 1 /\ phase' = "Check" /\ error' = error
        BY <1>11, <2>1, <2>2 DEF CheckMessage
      <3>2. /\ scan' = [pending |-> scan'.pending, completed |-> scan'.completed, error |-> "None"]
            /\ Passed(messages, next + 1, scan')
        BY <1>0, <2>1, <2>2, CheckPasses
      <3>3. next' \in 1 .. Len(messages) + 1
        BY <1>0, <2>1, <3>1
      <3>4. Passed(messages, next, scan)'
        BY <2>1, <3>1, <3>2
      <3> QED BY <1>0, <2>1, <3>1, <3>2, <3>3, <3>4 DEF CheckInv, CheckDecides
    <2>3. CASE scan'.error # "None"
      <3>1. phase' = "Failed" /\ error' = "Request"
        BY <1>11, <2>1, <2>3 DEF CheckMessage, Fail
      <3>2. ~WellFormed(messages)
        BY <1>0, <2>1, <2>3, CheckRejects
      <3> QED BY <1>0, <2>1, <3>1, <3>2 DEF CheckInv, CheckDecides
    <2> QED BY <2>2, <2>3
  <1>12. CASE CheckEnds
    <2>1. /\ phase = "Check" /\ UNCHANGED <<system, messages>> /\ messages # <<>>
          /\ next = Len(messages) + 1
          /\ scan = [pending |-> scan.pending, completed |-> scan.completed, error |-> "None"]
          /\ Passed(messages, next, scan) /\ error # "Request"
          /\ scan' = ScanEnd(scan)
      BY <1>0, <1>12 DEF CheckEnds, CheckInv
    <2>2. scan'.error = "None" <=> WellFormed(messages)
      BY <1>0, <2>1, CheckConcludes
    <2>3. CASE scan'.error = "None"
      <3>1. phase' = "Issued" /\ error' = error
        BY <1>12, <2>3 DEF CheckEnds
      <3> QED BY <1>0, <2>1, <2>2, <2>3, <3>1 DEF CheckInv, CheckDecides
    <2>4. CASE scan'.error # "None"
      <3>1. phase' = "Failed" /\ error' = "Request"
        BY <1>12, <2>4 DEF CheckEnds, Fail
      <3> QED BY <1>0, <2>1, <2>2, <2>4, <3>1 DEF CheckInv, CheckDecides
    <2> QED BY <2>3, <2>4
  <1>13. CASE UNCHANGED promptVars
    BY <1>13 DEF promptVars, CheckInv, CheckDecides
  <1> QED
    BY <1>1, <1>2, <1>3, <1>4, <1>5, <1>6, <1>7, <1>8, <1>9, <1>10, <1>11, <1>12, <1>13
    DEF PromptNext, PromptDone

\* validate_tool_exchange lets through well-formed prompts and no others, however many
\* messages they have and whoever prepared them.
THEOREM CheckIsExact == PromptSpec => []CheckDecides
  <1>1. CheckInv => CheckDecides
    BY DEF CheckInv
  <1> QED BY <1>1, CutInit, CutNext, CheckInit, CheckNext, PTL DEF PromptSpec

-----------------------------------------------------------------------------
(* The wire. *)

\* Normalization keeps parts parts, and a part that is normal already as it is.
LEMMA PartIsNormal ==
  ASSUME NEW p \in Parts
  PROVE  LET q == [p EXCEPT !.text = normalize_model_text(@)]
         IN  /\ q \in Parts
             /\ q.text # "Raw"
             /\ p.text # "Raw" => q = p
             /\ ValidPart(p) => p.text # "Raw"
  <1> DEFINE q == [p EXCEPT !.text = normalize_model_text(@)]
  <1>1. p = [part |-> p.part, text |-> p.text, id |-> p.id, index |-> p.index] /\ p.text \in Texts
    BY DEF Parts, Texts
  <1>2. q = [part |-> p.part, text |-> normalize_model_text(p.text), id |-> p.id, index |-> p.index]
    BY <1>1
  <1>3. p.text # "Raw" => normalize_model_text(p.text) = p.text
    BY DEF normalize_model_text
  <1>4. normalize_model_text(p.text) # "Raw" /\ normalize_model_text(p.text) \in Texts
    BY <1>1 DEF normalize_model_text, Texts
  <1>5. p.part # "Text" => p.text = "Empty"
    BY DEF Parts
  <1>6. ValidPart(p) => p.text # "Raw"
    BY <1>5 DEF ValidPart, valid_text
  <1>7. q \in Parts
    <2>1. CASE p.part = "Text"
      BY <1>1, <1>2, <1>4, <2>1 DEF Parts
    <2>2. CASE p.part # "Text"
      BY <1>1, <1>2, <1>3, <1>5, <2>2
    <2> QED BY <2>1, <2>2
  <1>8. q.text # "Raw"
    BY <1>2, <1>4
  <1>9. p.text # "Raw" => q = p
    BY <1>1, <1>2, <1>3
  <1> QED BY <1>6, <1>7, <1>8, <1>9

\* normalize_parts, part by part.
LEMMA PartsAreNormal ==
  ASSUME NEW ps \in Seq(Parts)
  PROVE  /\ normalize_parts(ps) \in Seq(Parts)
         /\ DOMAIN normalize_parts(ps) = DOMAIN ps
         /\ \A i \in DOMAIN ps : normalize_parts(ps)[i].text # "Raw"
         /\ (\A i \in DOMAIN ps : ps[i].text # "Raw") => normalize_parts(ps) = ps
  <1> DEFINE qs == normalize_parts(ps)
             q(i) == [ps[i] EXCEPT !.text = normalize_model_text(@)]
  <1>1. qs = [i \in DOMAIN ps |-> q(i)]
    BY DEF normalize_parts
  <1>2. \A i \in DOMAIN ps : qs[i] = q(i)
    BY <1>1
  <1>3. \A i \in DOMAIN ps : q(i) \in Parts /\ q(i).text # "Raw" /\ (ps[i].text # "Raw" => q(i) = ps[i])
    BY PartIsNormal
  <1>4. DOMAIN ps = 1 .. Len(ps) /\ Len(ps) \in Nat /\ ps = [i \in DOMAIN ps |-> ps[i]]
    OBVIOUS
  <1>5. DOMAIN qs = DOMAIN ps
    BY <1>1
  <1> HIDE DEF q, qs
  <1>6. qs \in Seq(Parts)
    BY <1>1, <1>3, <1>4
  <1>7. (\A i \in DOMAIN ps : ps[i].text # "Raw") => qs = ps
    BY <1>1, <1>3, <1>4
  <1> QED BY <1>2, <1>3, <1>5, <1>6, <1>7 DEF qs

\* The parts of a valid assistant message are valid.
LEMMA ValidAssistant ==
  ASSUME NEW m, m.role = "Assistant", ValidMessage(m)
  PROVE  \A i \in DOMAIN m.parts : ValidPart(m.parts[i])
  <1>1. validate_tool_call_order(m.parts)
    BY DEF ValidMessage
  <1> QED BY <1>1, Zenon DEF validate_tool_call_order

\* A valid message comes back from the wire as it was.
LEMMA MessageSurvives ==
  ASSUME NEW m \in AllMessages, ValidMessage(m)
  PROVE  MessageReloads(m) /\ ReloadedMessage(m) = m
  <1>1. CASE m.role # "Assistant"
    BY <1>1 DEF MessageReloads, ReloadedMessage
  <1>2. CASE m.role = "Assistant"
    <2> DEFINE ps == m.parts
    <2>1. m = [role |-> "Assistant", parts |-> ps, replay |-> m.replay] /\ ps \in Seq(Parts)
      <3>1. CASE m \in UsedMessages
        BY <1>2, <3>1, MessagesAssumption DEF UsedMessages
      <3>2. ASSUME NEW h \in [parts : PartLists, replay : BOOLEAN], m = AssistantMessage(h.parts, h.replay)
            PROVE  m = [role |-> "Assistant", parts |-> ps, replay |-> m.replay] /\ ps \in Seq(Parts)
        <4>1. h.parts \in Seq(Parts)
          BY MessagesAssumption
        <4>2. m.parts = normalize_parts(h.parts) /\ m.replay = h.replay
          BY <3>2 DEF AssistantMessage
        <4>3. ps \in Seq(Parts)
          BY <4>1, <4>2, PartsAreNormal
        <4> QED BY <3>2, <4>2, <4>3 DEF AssistantMessage
      <3> QED BY <3>1, <3>2 DEF AllMessages
    <2>2. \A i \in DOMAIN ps : ps[i] \in Parts /\ ValidPart(ps[i])
      BY <1>2, <2>1, ValidAssistant
    <2>3. \A i \in DOMAIN ps : ps[i].text # "Raw"
      BY <2>2, PartIsNormal
    <2>4. normalize_parts(ps) = ps
      BY <2>1, <2>3, PartsAreNormal
    <2>5. AssistantMessage(m.parts, m.replay) = m
      BY <2>1, <2>4 DEF AssistantMessage
    <2>6. PartsReload(m.parts)
      BY <2>2, <2>4 DEF PartsReload
    <2> QED BY <1>2, <2>5, <2>6 DEF MessageReloads, ReloadedMessage
  <1> QED BY <1>1, <1>2

\* An assistant item was projected.
Sent(h) == h.item = "Assistant" => ValidMessage(AssistantMessage(h.parts, h.replay))

\* An item that was projected comes back with the same projection.
LEMMA ItemSurvives ==
  ASSUME NEW h \in UsedItems, h.item # "Summary", Sent(h)
  PROVE  ItemReloads(h) /\ MessageOf(Reloaded(h)) = MessageOf(h)
  <1>1. CASE h.item # "Assistant"
    BY <1>1 DEF ItemReloads, Reloaded
  <1>2. CASE h.item = "Assistant"
    <2> DEFINE ps == h.parts
               qs == normalize_parts(ps)
               m == AssistantMessage(ps, h.replay)
    <2>1. h = [item |-> "Assistant", parts |-> ps, replay |-> h.replay] /\ ps \in Seq(Parts)
      BY <1>2, MessagesAssumption DEF UsedItems
    <2>2. m.role = "Assistant" /\ m.parts = qs /\ ValidMessage(m)
      BY <1>2 DEF Sent, AssistantMessage
    <2>3. DOMAIN qs = DOMAIN ps /\ qs \in Seq(Parts) /\ normalize_parts(qs) = qs
      BY <2>1, PartsAreNormal
    <2>4. \A i \in DOMAIN ps : ValidPart(qs[i])
      BY <2>2, <2>3, ValidAssistant
    <2>5. ItemReloads(h)
      BY <2>4 DEF ItemReloads, PartsReload
    <2>6. Reloaded(h) = [item |-> "Assistant", parts |-> qs, replay |-> h.replay]
      BY <1>2, <2>1 DEF Reloaded
    <2>7. MessageOf(Reloaded(h)) = AssistantMessage(qs, h.replay)
      BY <2>6 DEF MessageOf
    <2>8. MessageOf(h) = AssistantMessage(ps, h.replay)
      BY <1>2 DEF MessageOf
    <2> QED BY <2>3, <2>5, <2>7, <2>8 DEF AssistantMessage
  <1> QED BY <1>1, <1>2

\* The default provider projects every item before the check begins; another one is given
\* no items here.
WireInv ==
  /\ provider = "Custom" => history = <<>>
  /\ phase \in {"Prepare", "Cut", "Build"} => \A i \in DOMAIN history : i < next => Sent(history[i])
  /\ phase \in {"Check", "Issued"} => \A i \in DOMAIN history : Sent(history[i])

\* No item is projected at the start.
LEMMA WireInit == PromptInit => WireInv
  BY DEF PromptInit, WireInv

\* Every step keeps account of the items that were projected.
LEMMA WireNext == WireInv /\ CheckInv /\ CutInv /\ [PromptNext]_promptVars => WireInv'
  <1> SUFFICES ASSUME WireInv, CheckInv, CutInv, [PromptNext]_promptVars PROVE WireInv'
    OBVIOUS
  <1>0. history \in Seq(UsedItems) /\ next \in Nat \ {0} /\ (phase = "Host" => next = 1)
        /\ DOMAIN history = 1 .. Len(history) /\ Len(history) \in Nat
    BY DEF CheckInv, CutInv
  <1>1. ASSUME NEW h \in UsedItems, HostAppends(h) PROVE WireInv'
    BY <1>1 DEF HostAppends, WireInv
  <1>2. ASSUME NEW m \in UsedMessages, CustomAppends(m) PROVE WireInv'
    BY <1>2 DEF CustomAppends, WireInv
  <1>3. CASE CustomReturns
    BY <1>3 DEF CustomReturns, Fail, WireInv
  <1>4. CASE PrepareRefuses
    BY <1>4 DEF PrepareRefuses, Fail, WireInv
  <1>5. CASE PrepareBegins
    BY <1>0, <1>5 DEF PrepareBegins, WireInv
  <1>6. CASE ProjectItem
    <2>1. CASE Projects(history[next])
      <3>1. next' = next + 1 /\ phase' = "Prepare" /\ UNCHANGED <<provider, history>>
        BY <1>6, <2>1 DEF ProjectItem
      <3>2. Sent(history[next])
        BY <2>1 DEF Projects, Sent, MessageOf
      <3>3. \A i \in DOMAIN history : i < next => Sent(history[i])
        BY <1>6 DEF ProjectItem, WireInv
      <3>4. \A i \in DOMAIN history : i < next + 1 => i < next \/ i = next
        BY <1>0
      <3> QED BY <3>1, <3>2, <3>3, <3>4 DEF WireInv
    <2>2. CASE ~Projects(history[next])
      BY <1>6, <2>2 DEF ProjectItem, Fail, WireInv
    <2> QED BY <2>1, <2>2
  <1>7. CASE MeasureSummary
    BY <1>7 DEF MeasureSummary, WireInv
  <1>8. CASE StepBack
    BY <1>8 DEF StepBack, WireInv
  <1>9. CASE BuildSummary
    <2>1. CASE phase' = "Prepare"
      <3>1. next' = next + 1 /\ UNCHANGED <<provider, history>>
        BY <1>9, <2>1 DEF BuildSummary, Fail
      <3>2. history[next].item = "Summary"
        BY <1>9 DEF BuildSummary, CutInv, AtSummary
      <3>3. Sent(history[next])
        BY <3>2 DEF Sent
      <3>4. \A i \in DOMAIN history : i < next => Sent(history[i])
        BY <1>9 DEF BuildSummary, WireInv
      <3>5. \A i \in DOMAIN history : i < next + 1 => i < next \/ i = next
        BY <1>0
      <3> QED BY <2>1, <3>1, <3>3, <3>4, <3>5 DEF WireInv
    <2>2. CASE phase' # "Prepare"
      BY <1>9, <2>2 DEF BuildSummary, Fail, WireInv
    <2> QED BY <2>1, <2>2
  <1>10. CASE PrepareEnds
    <2>1. \A i \in DOMAIN history : i < next
      BY <1>0, <1>10 DEF PrepareEnds
    <2> QED BY <1>10, <2>1 DEF PrepareEnds, Fail, WireInv
  <1>11. CASE CheckMessage
    BY <1>11 DEF CheckMessage, Fail, WireInv
  <1>12. CASE CheckEnds
    BY <1>12 DEF CheckEnds, Fail, WireInv
  <1>13. CASE UNCHANGED promptVars
    BY <1>13 DEF promptVars, WireInv
  <1> QED
    BY <1>1, <1>2, <1>3, <1>4, <1>5, <1>6, <1>7, <1>8, <1>9, <1>10, <1>11, <1>12, <1>13
    DEF PromptNext, PromptDone

\* Whatever was issued can be written out and read back, message by message and item by
\* item, and gives the same prompt again (the Serialize and Deserialize implementations).
THEOREM IssuedSurvivesTheWire == PromptSpec => []WireIsInvisible
  <1>1. WireInv /\ CheckInv /\ CutInv => WireIsInvisible
    <2> SUFFICES ASSUME WireInv, CheckInv, CutInv, phase = "Issued" PROVE WireIsInvisible
      BY DEF WireIsInvisible
    <2>1. ASSUME NEW i \in DOMAIN messages
          PROVE  MessageReloads(messages[i]) /\ ReloadedMessage(messages[i]) = messages[i]
      <3>1. messages[i] \in AllMessages
        BY DEF CheckInv
      <3>2. ValidMessage(messages[i])
        BY DEF CheckInv, CheckDecides, WellFormed
      <3> QED BY <3>1, <3>2, MessageSurvives
    <2>2. ASSUME NEW i \in DOMAIN history, history[i].item # "Summary"
          PROVE  ItemReloads(history[i]) /\ MessageOf(Reloaded(history[i])) = MessageOf(history[i])
      <3>1. history[i] \in UsedItems
        BY DEF CutInv
      <3>2. Sent(history[i])
        BY DEF WireInv
      <3> QED BY <2>2, <3>1, <3>2, ItemSurvives
    <2> QED BY <2>1, <2>2 DEF WireIsInvisible
  <1> QED BY <1>1, CutInit, CutNext, CheckInit, CheckNext, WireInit, WireNext, PTL DEF PromptSpec
=============================================================================
