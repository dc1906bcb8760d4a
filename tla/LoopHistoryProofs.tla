--------------------------- MODULE LoopHistoryProofs ---------------------------
(***************************************************************************)
(* What is in the history of a loop, for every host and every bound: tool  *)
(* exchanges are complete wherever a provider or a report can see them,    *)
(* every input that was handed over is there once and in order, and the    *)
(* host's marks name the request that first showed an input.               *)
(***************************************************************************)
EXTENDS InputBoundaries, LoopRequestProofs

-----------------------------------------------------------------------------
(* Sequences of items. *)

\* What follows a history leaves it in place and is found behind it.
LEMMA Behind ==
  ASSUME NEW h \in Seq(Items), NEW s \in Seq(Items)
  PROVE  /\ h \o s \in Seq(Items)
         /\ Len(h) \in Nat /\ Len(s) \in Nat /\ Len(h \o s) = Len(h) + Len(s)
         /\ DOMAIN h = 1 .. Len(h) /\ DOMAIN s = 1 .. Len(s)
         /\ DOMAIN (h \o s) = 1 .. Len(h) + Len(s)
         /\ \A i \in 1 .. Len(h) : (h \o s)[i] = h[i]
         /\ \A i \in 1 .. Len(s) : (h \o s)[Len(h) + i] = s[i]
         /\ \A i \in 1 .. Len(h) + Len(s) : i \in 1 .. Len(h) \/ i - Len(h) \in 1 .. Len(s)
  <1>1. /\ h \o s \in Seq(Items)
        /\ Len(h) \in Nat /\ Len(s) \in Nat /\ Len(h \o s) = Len(h) + Len(s)
        /\ DOMAIN h = 1 .. Len(h) /\ DOMAIN s = 1 .. Len(s)
        /\ DOMAIN (h \o s) = 1 .. Len(h) + Len(s)
    OBVIOUS
  <1>2. \A i \in 1 .. Len(h) : (h \o s)[i] = h[i]
    BY <1>1
  <1>3. \A i \in 1 .. Len(s) : (h \o s)[Len(h) + i] = s[i]
    BY <1>1
  <1>4. \A i \in 1 .. Len(h) + Len(s) : i \in 1 .. Len(h) \/ i - Len(h) \in 1 .. Len(s)
    BY <1>1
  <1> QED BY <1>1, <1>2, <1>3, <1>4

\* Items of the user: the prompt and the inputs.
FromUser(s) == \A i \in DOMAIN s : s[i].kind \in {"Prompt", "Steering"}

\* The results of the first calls of a request, in order.
ResultsFor(s, index) ==
  \A k \in DOMAIN s : s[k].kind = "ToolResult" /\ s[k].request = index /\ s[k].ref = k

\* A user's items do not come between a call and its result.
LEMMA UserKeepsBalance ==
  ASSUME NEW h \in Seq(Items), NEW s \in Seq(Items), Balanced(h), FromUser(s)
  PROVE  Balanced(h \o s)
  <1> DEFINE g == h \o s
             n == Len(h)
  <1>1. /\ n \in Nat /\ DOMAIN h = 1 .. n /\ DOMAIN h \subseteq DOMAIN g
        /\ \A i \in DOMAIN g : Len(s) \in Nat /\ i \in Nat
        /\ \A i \in 1 .. n : g[i] = h[i]
        /\ \A i \in DOMAIN g : i \in 1 .. n \/ g[i].kind \in {"Prompt", "Steering"}
    <2>1. \A i \in DOMAIN g : i \in 1 .. n \/ (i - n \in DOMAIN s /\ g[i] = s[i - n])
      <3> SUFFICES ASSUME NEW i \in DOMAIN g, i \notin 1 .. n
                   PROVE  i - n \in DOMAIN s /\ g[i] = s[i - n]
        OBVIOUS
      <3>1. i - n \in 1 .. Len(s) /\ i \in Nat /\ n \in Nat
        BY Behind
      <3>2. g[n + (i - n)] = s[i - n] /\ n + (i - n) = i
        BY <3>1, Behind
      <3> QED BY <3>1, <3>2, Behind
    <2>2. DOMAIN h \subseteq DOMAIN g /\ \A i \in DOMAIN g : i \in Nat
      BY Behind
    <2> QED BY <2>1, <2>2, Behind DEF FromUser
  <1> HIDE DEF g, n
  <1>2. ASSUME NEW i \in DOMAIN g, g[i].kind = "Assistant", NEW k \in 1 .. g[i].ref
        PROVE  /\ i + k \in DOMAIN g /\ g[i + k].kind = "ToolResult"
               /\ g[i + k].request = g[i].request /\ g[i + k].ref = k
    <2>1. i \in DOMAIN h /\ g[i] = h[i]
      BY <1>1, <1>2
    <2>2. /\ i + k \in DOMAIN h /\ h[i + k].kind = "ToolResult"
          /\ h[i + k].request = h[i].request /\ h[i + k].ref = k
      BY <1>2, <2>1 DEF Balanced
    <2> QED BY <1>1, <2>1, <2>2
  <1>3. ASSUME NEW j \in DOMAIN g, g[j].kind = "ToolResult"
        PROVE  /\ g[j].ref > 0 /\ j - g[j].ref \in DOMAIN g
               /\ g[j - g[j].ref].kind = "Assistant" /\ g[j].ref <= g[j - g[j].ref].ref
    <2>1. j \in DOMAIN h /\ g[j] = h[j]
      BY <1>1, <1>3
    <2>2. /\ h[j].ref > 0 /\ j - h[j].ref \in DOMAIN h
          /\ h[j - h[j].ref].kind = "Assistant" /\ h[j].ref <= h[j - h[j].ref].ref
      BY <1>3, <2>1 DEF Balanced
    <2> QED BY <1>1, <2>1, <2>2
  <1>4. Balanced(g)
    BY <1>2, <1>3 DEF Balanced
  <1> QED BY <1>4 DEF g

\* An assistant message followed by a result for each of its calls.
LEMMA ExchangeKeepsBalance ==
  ASSUME NEW h \in Seq(Items), NEW s \in Seq(Items), NEW index \in Nat, Balanced(h),
         ResultsFor(s, index)
  PROVE  Balanced(Append(h, AssistantItem(index, Len(s))) \o s)
  <1> DEFINE a == AssistantItem(index, Len(s))
             g == Append(h, a) \o s
             n == Len(h)
             m == Len(s)
  <1>0. m \in Nat /\ n \in Nat /\ DOMAIN h = 1 .. n /\ DOMAIN s = 1 .. m
    BY Behind
  <1>1. a \in Items /\ a.kind = "Assistant" /\ a.ref = m /\ a.request = index
    BY <1>0 DEF AssistantItem, Items
  <1>2. /\ Append(h, a) \in Seq(Items) /\ Len(Append(h, a)) = n + 1
        /\ \A i \in 1 .. n : Append(h, a)[i] = h[i]
        /\ Append(h, a)[n + 1] = a
    <2> HIDE DEF a
    <2> QED BY <1>1
  <1>3. /\ DOMAIN g = 1 .. n + 1 + m
        /\ \A i \in 1 .. n : g[i] = h[i]
        /\ g[n + 1] = a
        /\ \A k \in 1 .. m : g[n + 1 + k] = s[k]
    <2> DEFINE b == Append(h, a)
    <2> HIDE DEF b
    <2>1. b \in Seq(Items) /\ Len(b) = n + 1 /\ (\A i \in 1 .. n : b[i] = h[i]) /\ b[n + 1] = a
      BY <1>2 DEF b
    <2>2. /\ DOMAIN (b \o s) = 1 .. n + 1 + m
          /\ \A i \in 1 .. n + 1 : (b \o s)[i] = b[i]
          /\ \A k \in 1 .. m : (b \o s)[n + 1 + k] = s[k]
      <3>1. /\ DOMAIN (b \o s) = 1 .. Len(b) + Len(s)
            /\ \A i \in 1 .. Len(b) : (b \o s)[i] = b[i]
            /\ \A k \in 1 .. Len(s) : (b \o s)[Len(b) + k] = s[k]
        BY <2>1, Behind
      <3> HIDE DEF n
      <3> QED BY <2>1, <3>1
    <2>3. \A i \in 1 .. n : i \in 1 .. n + 1
      BY <1>0
    <2>4. n + 1 \in 1 .. n + 1
      BY <1>0
    <2> HIDE DEF m, n, a
    <2> QED BY <2>1, <2>2, <2>3, <2>4 DEF b
  <1>4. \A k \in 1 .. m : s[k].kind = "ToolResult" /\ s[k].request = index /\ s[k].ref = k
    BY <1>0 DEF ResultsFor
  <1> HIDE DEF g, n, m, a
  <1>5. \A i \in DOMAIN g : i \in 1 .. n \/ i = n + 1 \/ (\E k \in 1 .. m : i = n + 1 + k)
    <2> SUFFICES ASSUME NEW i \in 1 .. n + 1 + m, i \notin 1 .. n, i # n + 1
                 PROVE  i - n - 1 \in 1 .. m /\ i = n + 1 + (i - n - 1)
      BY <1>3
    <2> QED BY <1>0
  <1>6. ASSUME NEW i \in DOMAIN g, g[i].kind = "Assistant", NEW k \in 1 .. g[i].ref
        PROVE  /\ i + k \in DOMAIN g /\ g[i + k].kind = "ToolResult"
               /\ g[i + k].request = g[i].request /\ g[i + k].ref = k
    <2>1. CASE i \in 1 .. n
      <3>1. g[i] = h[i] /\ i \in DOMAIN h
        BY <1>0, <1>3, <2>1
      <3>2. /\ i + k \in 1 .. n /\ h[i + k].kind = "ToolResult"
            /\ h[i + k].request = h[i].request /\ h[i + k].ref = k
        BY <1>0, <1>6, <3>1 DEF Balanced
      <3>3. i + k \in 1 .. n + 1 + m
        BY <1>0, <3>2
      <3> QED BY <1>3, <3>1, <3>2, <3>3
    <2>2. CASE i = n + 1
      <3>1. k \in 1 .. m
        BY <1>1, <1>3, <1>6, <2>2
      <3>2. i + k = n + 1 + k /\ i + k \in 1 .. n + 1 + m
        BY <1>0, <2>2, <3>1
      <3> QED BY <1>1, <1>3, <1>4, <2>2, <3>1, <3>2
    <2>3. ASSUME NEW l \in 1 .. m, i = n + 1 + l PROVE FALSE
      BY <1>3, <1>4, <1>6, <2>3
    <2> QED BY <1>5, <2>1, <2>2, <2>3
  <1>7. ASSUME NEW j \in DOMAIN g, g[j].kind = "ToolResult"
        PROVE  /\ g[j].ref > 0 /\ j - g[j].ref \in DOMAIN g
               /\ g[j - g[j].ref].kind = "Assistant" /\ g[j].ref <= g[j - g[j].ref].ref
    <2>1. CASE j \in 1 .. n
      <3>1. g[j] = h[j] /\ j \in DOMAIN h
        BY <1>0, <1>3, <2>1
      <3>2. /\ h[j].ref > 0 /\ j - h[j].ref \in 1 .. n
            /\ h[j - h[j].ref].kind = "Assistant" /\ h[j].ref <= h[j - h[j].ref].ref
        BY <1>0, <1>7, <3>1 DEF Balanced
      <3>3. j - h[j].ref \in 1 .. n + 1 + m
        BY <1>0, <3>2
      <3> QED BY <1>3, <3>1, <3>2, <3>3
    <2>2. j # n + 1
      BY <1>1, <1>3, <1>7
    <2>3. ASSUME NEW l \in 1 .. m, j = n + 1 + l
          PROVE  /\ g[j].ref > 0 /\ j - g[j].ref \in DOMAIN g
                 /\ g[j - g[j].ref].kind = "Assistant" /\ g[j].ref <= g[j - g[j].ref].ref
      <3>1. g[j].ref = l
        BY <1>3, <1>4, <2>3
      <3>2. l > 0 /\ l <= m /\ j - l = n + 1 /\ n + 1 \in 1 .. n + 1 + m
        BY <1>0, <2>3
      <3> QED BY <1>1, <1>3, <3>1, <3>2
    <2> QED BY <1>5, <2>1, <2>2, <2>3
  <1>8. Balanced(g)
    BY <1>6, <1>7 DEF Balanced
  <1> QED BY <1>8 DEF g, a

-----------------------------------------------------------------------------
(* Tool exchanges. *)

\* The running batch: its assistant message, and behind it the results so far.
OpenExchange ==
  \E h \in Seq(Items), s \in Seq(Items) :
    /\ appended = Append(h, AssistantItem(requestIndex, Len(calls))) \o s
    /\ Balanced(h)
    /\ ResultsFor(s, requestIndex)
    /\ Len(s) = callIx - 1

\* Outside a batch the history is balanced; inside, all but the exchange that is open.
BalanceInv ==
  /\ pc \in InBatch =>
       /\ callIx <= Len(calls) + 1
       /\ pc # "Tools" => callIx <= Len(calls)
       /\ OpenExchange
  /\ pc \notin InBatch \cup {"Aborted"} /\ unwound # "Running" => Balanced(appended)

\* One more call of the running batch is settled.
SettlesOne ==
  /\ \E result \in ResultOutcomes : Settle(result)
  /\ pc \in InBatch \ {"Tools"}
  /\ UNCHANGED requestVars

\* The batch is interrupted and the rest of its calls are settled.
SettlesAll ==
  /\ \E p : EndBatch(p)
  /\ pc \in InBatch
  /\ pc = "Tools" => callIx <= Len(calls)
  /\ UNCHANGED requestVars

\* A step that leaves the history and the batch alone.
Elsewhere ==
  /\ UNCHANGED <<historyVars, batchVars, requestIndex>>
  /\ pc' \in InBatch => pc \in InBatch
  /\ pc = "Tools" /\ pc' \in InBatch \ {"Tools"} => callIx <= Len(calls)
  /\ pc \in InBatch /\ pc' \notin InBatch => pc' = "Aborted" \/ unwound' = "Running"
  /\ unwound = "Running" => unwound' = "Running"
  /\ pc = "Aborted" => pc' = "Aborted"

\* What a step can do to the history.
LEMMA HistoryMoves ==
  ASSUME EndInv, [Next]_vars
  PROVE  \/ StartRunner
         \/ \E k \in 0 .. MaxInputs : BoundaryA(k) \/ BoundaryF(k)
         \/ \E p \in {"Completed", "OutputLimit", "Refused", "ContentFiltered"} : ModelFinal(p)
         \/ \E cs \in ToolCallLists : ToolRoundLimit(cs) \/ BeginBatch(cs)
         \/ SettlesOne \/ SettlesAll \/ BatchDone
         \/ Elsewhere
  <1> USE DEF InBatch, Asking
  <1>1. CASE RequestStep
    <2>1. CASE StopAtTop \/ PromptReady \/ PromptEnds \/ BuildFails \/ Issue \/ ModelFails
      BY <2>1 DEF StopAtTop, PromptReady, PromptEnds, BuildFails, Issue, ModelFails, BreakWith, Goto,
                  endVars, requestVars, Elsewhere
    <2> QED BY <1>1, <2>1 DEF RequestStep
  <1>2. CASE ToolStep
    <2>a. ASSUME NEW there \in InBatch \ {"Tools"}, Proceed(there), UNCHANGED requestVars,
                 pc \in InBatch, pc = "Tools" => callIx <= Len(calls)
          PROVE  Elsewhere
      BY <2>a DEF Proceed, Goto, endVars, requestVars, Elsewhere
    <2>1. CASE BatchCancelled
      BY <2>1 DEF BatchCancelled, SettlesAll
    <2>2. CASE StartCall \/ PolicyAllows \/ ShowInteraction
      BY <2>2, <2>a DEF StartCall, PolicyAllows, ShowInteraction
    <2>3. CASE PolicyDenies \/ \E result \in {"Success", "Failed"} : ToolSettles(result)
      BY <2>3 DEF PolicyDenies, ToolSettles, ResultOutcomes, SettlesOne
    <2>4. CASE PolicyAsks \/ ToolAsks
      BY <2>4, <2>a DEF PolicyAsks, ToolAsks, wait_interaction, SettlesAll
    <2>5. CASE PolicyEnds \/ ToolEnds \/ WaitEnds
      BY <2>5 DEF PolicyEnds, ToolEnds, WaitEnds, SettlesAll
    <2>6. ASSUME NEW value \in Answers, ApprovalAnswered(value) \/ InputAnswered(value)
          PROVE  SettlesOne \/ SettlesAll \/ Elsewhere
      <3>1. /\ \/ Proceed("Port") \/ EndBatch("Internal")
               \/ \E result \in {"Denied", "InputProvided", "Failed"} : Settle(result)
            /\ UNCHANGED requestVars /\ pc \in {"AwaitApproval", "AwaitInput"}
        BY <2>6 DEF ApprovalAnswered, InputAnswered
      <3> QED BY <3>1, <2>a DEF ResultOutcomes, SettlesOne, SettlesAll
    <2> QED BY <1>2, <2>1, <2>2, <2>3, <2>4, <2>5, <2>6 DEF ToolStep
  <1>3. CASE EndStep
    BY <1>3
    DEF EndStep, ChooseOutcome, Seal, PublishFinishing, PublishFinished, Deliver, Notify, Release,
        Exit, Goto, endVars, requestVars, Elsewhere
  <1>4. CASE Faults
    BY <1>4
    DEF Faults, BoundaryPanics, PortPanics, TailPanics, TaskAborted, Awaits, Unwind, Goto, endVars,
        requestVars, Elsewhere
  <1>5. CASE HostStep
    BY <1>5, HostLeavesRunner DEF Elsewhere, historyVars, batchVars
  <1> QED BY <1>1, <1>2, <1>3, <1>4, <1>5, StepKinds

\* The results settle_calls makes up are those of the calls first .. last, in order.
LEMMA SettledInOrder ==
  ASSUME HistoryInv, NEW first \in Nat \ {0}, NEW last \in Nat, first <= last + 1,
         NEW result \in ResultOutcomes
  PROVE  /\ SettledCalls(first, last, result) \in Seq(Items)
         /\ Len(SettledCalls(first, last, result)) = last + 1 - first
         /\ \A k \in 1 .. last + 1 - first :
              LET item == SettledCalls(first, last, result)[k] IN
              /\ item.kind = "ToolResult" /\ item.request = requestIndex
              /\ item.ref = first + k - 1
  <1> DEFINE t == SettledCalls(first, last, result)
             count == last + 1 - first
  <1>1. count \in Nat
    OBVIOUS
  <1>2. t \in Seq(Items)
    BY SettledAreItems
  <1>3. DOMAIN t = 1 .. count
    BY DEF SettledCalls
  <1>4. Len(t) = count
    <2>1. DOMAIN t = 1 .. Len(t) /\ Len(t) \in Nat
      BY <1>2
    <2> HIDE DEF t, count
    <2> QED BY <1>1, <1>3, <2>1
  <1>5. ASSUME NEW k \in 1 .. count
        PROVE  t[k].kind = "ToolResult" /\ t[k].request = requestIndex /\ t[k].ref = first + k - 1
    <2>1. t[k] = ResultItem(requestIndex, first + k - 1, result)
      BY DEF SettledCalls
    <2> HIDE DEF t
    <2> QED BY <2>1 DEF ResultItem
  <1> QED BY <1>2, <1>4, <1>5

\* The results settled so far, and those made up for the rest, are one list of results.
LEMMA ResultsJoin ==
  ASSUME NEW s \in Seq(Items), NEW t \in Seq(Items), NEW index, ResultsFor(s, index),
         \A k \in 1 .. Len(t) :
           t[k].kind = "ToolResult" /\ t[k].request = index /\ t[k].ref = Len(s) + k
  PROVE  ResultsFor(s \o t, index)
  <1> SUFFICES ASSUME NEW i \in DOMAIN (s \o t)
               PROVE  /\ (s \o t)[i].kind = "ToolResult" /\ (s \o t)[i].request = index
                      /\ (s \o t)[i].ref = i
    BY DEF ResultsFor
  <1>1. i \in 1 .. Len(s) + Len(t) /\ Len(s) \in Nat /\ Len(t) \in Nat
    BY Behind
  <1>2. CASE i \in 1 .. Len(s)
    BY <1>2, Behind DEF ResultsFor
  <1>3. CASE i - Len(s) \in 1 .. Len(t)
    <2>1. (s \o t)[Len(s) + (i - Len(s))] = t[i - Len(s)]
      BY <1>3, Behind
    <2>2. Len(s) + (i - Len(s)) = i
      BY <1>1
    <2> QED BY <1>3, <2>1, <2>2
  <1> QED BY <1>1, <1>2, <1>3, Behind

\* A response with calls opens an exchange.
LEMMA BeginOpens ==
  ASSUME HistoryInv, HistoryInv', BalanceInv, EndInv, NEW cs \in ToolCallLists, BeginBatch(cs)
  PROVE  BalanceInv'
  <1>1. /\ appended' = Append(appended, AssistantItem(requestIndex', Len(calls')))
        /\ callIx' = 1 /\ pc' = "Tools" /\ Len(calls') \in Nat
        /\ Balanced(appended) /\ appended \in Seq(Items)
    BY DEF BeginBatch, Goto, requestVars, HistoryInv, BalanceInv, InBatch, Asking, EndInv, UnwoundInv
  <1>2. /\ appended' = Append(appended, AssistantItem(requestIndex', Len(calls'))) \o <<>>
        /\ <<>> \in Seq(Items) /\ Len(<<>>) = callIx' - 1 /\ ResultsFor(<<>>, requestIndex')
    <2>1. appended' \in Seq(Items)
      BY DEF HistoryInv
    <2>2. appended' \o <<>> = appended'
      BY <2>1
    <2>3. <<>> \in Seq(Items) /\ Len(<<>>) = 0 /\ DOMAIN <<>> = {}
      OBVIOUS
    <2> QED BY <1>1, <2>2, <2>3 DEF ResultsFor
  <1>3. OpenExchange'
    BY <1>1, <1>2 DEF OpenExchange
  <1> QED BY <1>1, <1>3 DEF BalanceInv, InBatch, Asking

\* A settled call's result joins the open exchange.
LEMMA SettleKeepsOpen ==
  ASSUME HistoryInv, BalanceInv, SettlesOne PROVE BalanceInv'
  <1> PICK result \in ResultOutcomes : Settle(result)
    BY DEF SettlesOne
  <1> DEFINE r == ResultItem(requestIndex, callIx, result)
             a == AssistantItem(requestIndex, Len(calls))
  <1>1. /\ appended' = Append(appended, r) /\ callIx' = callIx + 1 /\ pc' = "Tools"
        /\ UNCHANGED <<calls, requestIndex>>
    BY DEF SettlesOne, Settle, Goto, requestVars
  <1>2. callIx <= Len(calls) /\ callIx \in Nat \ {0} /\ Len(calls) \in Nat /\ requestIndex \in Nat
    BY DEF BalanceInv, SettlesOne, HistoryInv
  <1>3. r \in Items /\ r.kind = "ToolResult" /\ r.request = requestIndex /\ r.ref = callIx
    BY <1>2 DEF ResultItem, Items
  <1>4. a \in Items
    BY <1>2 DEF AssistantItem, Items
  <1>5. PICK h \in Seq(Items), s \in Seq(Items) :
          appended = Append(h, a) \o s /\ Balanced(h) /\ ResultsFor(s, requestIndex)
          /\ Len(s) = callIx - 1
    BY DEF BalanceInv, SettlesOne, OpenExchange
  <1> HIDE DEF r, a
  <1>6. /\ <<r>> \in Seq(Items) /\ Len(<<r>>) = 1 /\ <<r>>[1] = r
        /\ Append(h, a) \in Seq(Items)
    BY <1>3, <1>4
  <1>7. appended' = Append(h, a) \o (s \o <<r>>)
    <2>1. Append(appended, r) = appended \o <<r>>
      BY <1>3, AppendIsConcat DEF HistoryInv
    <2> QED BY <1>1, <1>5, <1>6, <2>1, ConcatAssociative
  <1>8. ResultsFor(s \o <<r>>, requestIndex)
    <2>1. \A k \in 1 .. Len(<<r>>) :
            /\ <<r>>[k].kind = "ToolResult" /\ <<r>>[k].request = requestIndex
            /\ <<r>>[k].ref = Len(s) + k
      BY <1>2, <1>3, <1>5, <1>6
    <2> QED BY <1>5, <1>6, <2>1, ResultsJoin
  <1>9. s \o <<r>> \in Seq(Items) /\ Len(s \o <<r>>) = callIx' - 1
    BY <1>1, <1>2, <1>5, <1>6
  <1>10. OpenExchange'
    BY <1>1, <1>5, <1>7, <1>8, <1>9 DEF OpenExchange, a
  <1> QED BY <1>1, <1>2, <1>10 DEF BalanceInv, InBatch, Asking

\* An interrupted batch closes its exchange.
LEMMA EndBatchCloses ==
  ASSUME HistoryInv, BalanceInv, SettlesAll PROVE BalanceInv'
  <1> DEFINE a == AssistantItem(requestIndex, Len(calls))
             t == SettledCalls(callIx, Len(calls), "Cancelled")
  <1>1. appended' = appended \o t /\ pc' = "Ending"
    BY DEF SettlesAll, EndBatch, BreakWith
  <1>2. callIx <= Len(calls) /\ callIx \in Nat \ {0} /\ Len(calls) \in Nat /\ requestIndex \in Nat
    BY DEF BalanceInv, SettlesAll, HistoryInv
  <1>3. a \in Items
    BY <1>2 DEF AssistantItem, Items
  <1>4. /\ t \in Seq(Items)
        /\ Len(t) = Len(calls) + 1 - callIx
        /\ \A k \in 1 .. Len(calls) + 1 - callIx :
             t[k].kind = "ToolResult" /\ t[k].request = requestIndex /\ t[k].ref = callIx + k - 1
    <2>1. "Cancelled" \in ResultOutcomes /\ callIx <= Len(calls) + 1
      BY <1>2 DEF ResultOutcomes
    <2> QED BY <1>2, <2>1, SettledInOrder
  <1>5. PICK h \in Seq(Items), s \in Seq(Items) :
          appended = Append(h, a) \o s /\ Balanced(h) /\ ResultsFor(s, requestIndex)
          /\ Len(s) = callIx - 1
    BY DEF BalanceInv, SettlesAll, OpenExchange
  <1> HIDE DEF t, a
  <1>6. appended' = Append(h, a) \o (s \o t)
    <2> DEFINE b == Append(h, a)
    <2>1. b \in Seq(Items)
      BY <1>3, <1>5
    <2> HIDE DEF b
    <2>2. (b \o s) \o t = b \o (s \o t)
      <3>1. b \in Seq(Items) /\ s \in Seq(Items) /\ t \in Seq(Items)
        BY <1>4, <1>5, <2>1
      <3> QED BY <3>1, ConcatAssociative
    <2>3. appended' = (b \o s) \o t
      BY <1>1, <1>5 DEF b
    <2> QED BY <2>2, <2>3 DEF b
  <1>7. ResultsFor(s \o t, requestIndex)
    <2>1. \A k \in 1 .. Len(t) :
            t[k].kind = "ToolResult" /\ t[k].request = requestIndex /\ t[k].ref = Len(s) + k
      BY <1>2, <1>4, <1>5
    <2> QED BY <1>4, <1>5, <2>1, ResultsJoin
  <1>8. s \o t \in Seq(Items) /\ Len(s \o t) = Len(calls)
    <2>1. s \o t \in Seq(Items) /\ Len(s \o t) = Len(s) + Len(t)
      BY <1>4, Behind
    <2> QED BY <1>2, <1>4, <1>5, <2>1
  <1>9. Balanced(appended')
    BY <1>2, <1>5, <1>6, <1>7, <1>8, ExchangeKeepsBalance DEF a
  <1> QED BY <1>1, <1>9 DEF BalanceInv, InBatch, Asking

\* So does a batch whose calls all have their results.
LEMMA DoneCloses ==
  ASSUME HistoryInv, BalanceInv, BatchDone PROVE BalanceInv'
  <1>1. pc = "Tools" /\ callIx > Len(calls) /\ appended' = appended /\ pc' = "Top"
    BY DEF BatchDone, Goto, historyVars
  <1>2. callIx = Len(calls) + 1 /\ Len(calls) \in Nat /\ requestIndex \in Nat
    BY <1>1 DEF BalanceInv, HistoryInv, InBatch
  <1>3. PICK h \in Seq(Items), s \in Seq(Items) :
          /\ appended = Append(h, AssistantItem(requestIndex, Len(calls))) \o s
          /\ Balanced(h) /\ ResultsFor(s, requestIndex)
          /\ Len(s) = callIx - 1
    BY <1>1 DEF BalanceInv, OpenExchange, InBatch
  <1>4. Len(s) = Len(calls)
    BY <1>2, <1>3
  <1>5. Balanced(appended)
    BY <1>2, <1>3, <1>4, ExchangeKeepsBalance
  <1> QED BY <1>1, <1>5 DEF BalanceInv, InBatch, Asking

\* Outside a batch, the user's items and whole exchanges keep the balance.
LEMMA OutsideKeepsBalance ==
  ASSUME HistoryInv, HistoryInv', BalanceInv, EndInv, pc \notin InBatch \cup InEnding,
         pc' \notin InBatch,
         \/ \E s \in Seq(Items) : FromUser(s) /\ appended' = appended \o s
         \/ \E s \in Seq(Items) :
              /\ ResultsFor(s, requestIndex)
              /\ appended' = Append(appended, AssistantItem(requestIndex, Len(s))) \o s
  PROVE  BalanceInv'
  <1>1. Balanced(appended) /\ appended \in Seq(Items) /\ requestIndex \in Nat
    BY DEF BalanceInv, EndInv, UnwoundInv, InEnding, HistoryInv
  <1>2. Balanced(appended')
    BY <1>1, UserKeepsBalance, ExchangeKeepsBalance
  <1> QED BY <1>2 DEF BalanceInv

\* BalanceInv is inductive.
LEMMA BalanceInvStep ==
  ASSUME HistoryInv, HistoryInv', BalanceInv, EndInv, [Next]_vars PROVE BalanceInv'
  <1>1. CASE StartRunner
    <2> DEFINE s == <<UserItem("Prompt", 0)>>
    <2>1. s \in Seq(Items) /\ FromUser(s)
      BY DEF UserItem, Items, FromUser
    <2>2. appended' = appended \o s
      BY <1>1 DEF StartRunner, UserItem, Items, HistoryInv
    <2>3. pc \notin InBatch \cup InEnding /\ pc' \notin InBatch
      BY <1>1 DEF StartRunner, Goto, InBatch, Asking, InEnding
    <2> QED BY <2>1, <2>2, <2>3, OutsideKeepsBalance
  <1>2. ASSUME NEW k \in 0 .. MaxInputs, BoundaryA(k) \/ BoundaryF(k) PROVE BalanceInv'
    <2>1. k \in Nat
      BY LoopAssumption
    <2>2. InputItems(k) \in Seq(Items) /\ FromUser(InputItems(k))
      BY <2>1, InputsAreItems DEF InputItems, UserItem, FromUser
    <2>3. appended' = appended \o InputItems(k)
      BY <1>2 DEF BoundaryA, BoundaryF, take_boundary
    <2>4. pc \notin InBatch \cup InEnding /\ pc' \notin InBatch
      BY <1>2 DEF BoundaryA, BoundaryF, Goto, InBatch, Asking, InEnding
    <2> QED BY <2>2, <2>3, <2>4, OutsideKeepsBalance
  <1>3. ASSUME NEW p \in {"Completed", "OutputLimit", "Refused", "ContentFiltered"}, ModelFinal(p)
        PROVE  BalanceInv'
    <2> DEFINE a == AssistantItem(requestIndex, 0)
    <2>1. a \in Items
      BY DEF AssistantItem, Items, HistoryInv
    <2>2. appended' = Append(appended, a)
      BY <1>3 DEF ModelFinal
    <2>3. Append(appended, a) = Append(appended, AssistantItem(requestIndex, Len(<<>>))) \o <<>>
      <3>1. Append(appended, a) \in Seq(Items)
        BY <2>1, AppendProperties DEF HistoryInv
      <3>2. Append(appended, a) \o <<>> = Append(appended, a)
        BY <3>1, ConcatEmptySeq
      <3> QED BY <3>2
    <2>4. <<>> \in Seq(Items) /\ ResultsFor(<<>>, requestIndex)
      BY DEF ResultsFor
    <2>5. pc \notin InBatch \cup InEnding /\ pc' \notin InBatch
      BY <1>3 DEF ModelFinal, BreakWith, InBatch, Asking, InEnding
    <2> QED BY <2>2, <2>3, <2>4, <2>5, OutsideKeepsBalance
  <1>4. ASSUME NEW cs \in ToolCallLists, ToolRoundLimit(cs) PROVE BalanceInv'
    <2> DEFINE s == SettledCalls(1, Len(cs), "Failed")
    <2>1. Len(cs) \in Nat
      BY CallsAreCounted
    <2>2. /\ s \in Seq(Items) /\ Len(s) = Len(cs)
          /\ \A k \in 1 .. Len(cs) :
               s[k].kind = "ToolResult" /\ s[k].request = requestIndex /\ s[k].ref = k
      <3>1. "Failed" \in ResultOutcomes /\ 1 \in Nat \ {0} /\ 1 <= Len(cs) + 1
        BY <2>1 DEF ResultOutcomes
      <3>2. /\ s \in Seq(Items) /\ Len(s) = Len(cs) + 1 - 1
            /\ \A k \in 1 .. Len(cs) + 1 - 1 :
                 s[k].kind = "ToolResult" /\ s[k].request = requestIndex /\ s[k].ref = 1 + k - 1
        BY <2>1, <3>1, SettledInOrder
      <3>3. Len(cs) + 1 - 1 = Len(cs) /\ \A k \in 1 .. Len(cs) : 1 + k - 1 = k
        BY <2>1
      <3> HIDE DEF s
      <3> QED BY <3>2, <3>3
    <2>3. appended' = Append(appended, AssistantItem(requestIndex, Len(cs))) \o s
      BY <1>4 DEF ToolRoundLimit
    <2>4. pc \notin InBatch \cup InEnding /\ pc' \notin InBatch
      BY <1>4 DEF ToolRoundLimit, BreakWith, InBatch, Asking, InEnding
    <2> HIDE DEF s
    <2>5. ResultsFor(s, requestIndex)
      <3>1. DOMAIN s = 1 .. Len(cs)
        BY <2>2, Behind
      <3> QED BY <2>2, <3>1 DEF ResultsFor
    <2> QED BY <2>2, <2>3, <2>4, <2>5, OutsideKeepsBalance
  <1>5. ASSUME NEW cs \in ToolCallLists, BeginBatch(cs) PROVE BalanceInv'
    BY <1>5, BeginOpens
  <1>6. CASE SettlesOne \/ SettlesAll \/ BatchDone
    BY <1>6, SettleKeepsOpen, EndBatchCloses, DoneCloses
  <1>7. CASE Elsewhere
    <2>1. UNCHANGED <<appended, requestIndex, calls, callIx>>
      BY <1>7 DEF Elsewhere, historyVars, batchVars
    <2>2. pc' \in InBatch => OpenExchange'
      BY <1>7, <2>1 DEF Elsewhere, BalanceInv, OpenExchange
    <2> QED BY <1>7, <2>1, <2>2 DEF Elsewhere, BalanceInv
  <1> QED BY <1>1, <1>2, <1>3, <1>4, <1>5, <1>6, <1>7, HistoryMoves

\* Wherever a provider or a report sees the history, every tool call in it has its result,
\* and every result its call: interrupted batches, exhausted rounds and panics included.
THEOREM HistoryIsBalanced == Spec => []HistoryBalanced
  <1>1. Init => BalanceInv
    BY DEF Init, BalanceInv, Balanced, InBatch, Asking
  <1>2. HistoryInv /\ HistoryInv' /\ BalanceInv /\ EndInv /\ [Next]_vars => BalanceInv'
    BY BalanceInvStep
  <1>3. BalanceInv /\ EndInv /\ ReportInv => HistoryBalanced
    <2> SUFFICES ASSUME BalanceInv, EndInv, ReportInv PROVE HistoryBalanced
      OBVIOUS
    <2>1. ASSUME pc \in {"Top", "Prepare", "BoundaryF", "Issue", "Model"} PROVE Balanced(appended)
      BY <2>1 DEF BalanceInv, EndInv, UnwoundInv, InBatch, Asking
    <2>2. ASSUME NEW r \in completion PROVE Balanced(r.appended)
      <3>1. CASE unwound = "Running"
        <4>1. r.appended = <<>>
          BY <2>2, <3>1 DEF ReportInv, EmptyReport
        <4>2. Balanced(<<>>)
          BY DEF Balanced
        <4> QED BY <4>1, <4>2
      <3>2. CASE unwound # "Running"
        <4>1. r.appended = appended
          BY <2>2, <3>2 DEF ReportInv, FullReport
        <4>2. Balanced(appended)
          BY <2>2, <3>2 DEF EndInv, ReportedAt, BalanceInv, InBatch, Asking
        <4> QED BY <4>1, <4>2
      <3> QED BY <3>1, <3>2
    <2> QED BY <2>1, <2>2 DEF HistoryBalanced
  <1> QED BY <1>1, <1>2, <1>3, HistoryTypes, EndingSafety, RequestsHold, PTL DEF Spec

-----------------------------------------------------------------------------
(* Inputs. *)

\* The inputs handed over are in the history, each once and in order.
SteerInv ==
  /\ \A i \in SteeringIn(appended) : appended[i].ref \in 1 .. taken
  /\ \A n \in 1 .. taken : \E i \in SteeringIn(appended) : appended[i].ref = n
  /\ \A i, j \in SteeringIn(appended) : i < j => appended[i].ref < appended[j].ref

\* A boundary takes k inputs, and nothing else in a history is a Steering item.
TakesInputs(k) ==
  /\ pc \in {"Top", "BoundaryF"}
  /\ appended' = appended \o InputItems(k)
  /\ taken' = taken + k
AppendsOther ==
  /\ \E s \in Seq(Items) : SteeringIn(s) = {} /\ appended' = appended \o s
  /\ taken' = taken

\* A step appends inputs just taken, or items that are no inputs.
LEMMA InputMoves ==
  ASSUME HistoryInv, EndInv, [Next]_vars
  PROVE  (\E k \in 0 .. MaxInputs : TakesInputs(k)) \/ AppendsOther
  <1>a. ASSUME NEW item \in Items, item.kind # "Steering", appended' = Append(appended, item),
               taken' = taken
        PROVE  AppendsOther
    <2>1. <<item>> \in Seq(Items) /\ SteeringIn(<<item>>) = {}
      BY <1>a DEF SteeringIn
    <2>2. Append(appended, item) = appended \o <<item>>
      BY AppendIsConcat DEF HistoryInv
    <2> QED BY <1>a, <2>1, <2>2 DEF AppendsOther
  <1>1. CASE StartRunner
    <2>1. UserItem("Prompt", 0) \in Items /\ UserItem("Prompt", 0).kind # "Steering"
      BY DEF UserItem, Items
    <2> QED BY <1>1, <1>a, <2>1 DEF StartRunner
  <1>2. ASSUME NEW k \in 0 .. MaxInputs, BoundaryA(k) \/ BoundaryF(k) PROVE TakesInputs(k)
    BY <1>2 DEF BoundaryA, BoundaryF, take_boundary, TakesInputs
  <1>3. CASE \E p \in {"Completed", "OutputLimit", "Refused", "ContentFiltered"} : ModelFinal(p)
    <2>1. /\ AssistantItem(requestIndex, 0) \in Items
          /\ AssistantItem(requestIndex, 0).kind # "Steering"
      BY DEF AssistantItem, Items, HistoryInv
    <2> QED BY <1>3, <1>a, <2>1 DEF ModelFinal
  <1>4. ASSUME NEW cs \in ToolCallLists, ToolRoundLimit(cs) \/ BeginBatch(cs) PROVE AppendsOther
    <2> DEFINE a == AssistantItem(requestIndex, Len(cs))
    <2>1. Len(cs) \in Nat
      BY CallsAreCounted
    <2>2. a \in Items /\ a.kind # "Steering"
      BY <2>1 DEF AssistantItem, Items, HistoryInv
    <2>3. CASE BeginBatch(cs)
      BY <1>a, <2>2, <2>3 DEF BeginBatch
    <2>4. CASE ToolRoundLimit(cs)
      <3> DEFINE t == SettledCalls(1, Len(cs), "Failed")
      <3>1. t \in Seq(Items) /\ \A i \in DOMAIN t : t[i].kind = "ToolResult"
        BY <2>1, SettledAreItems DEF ResultOutcomes, SettledCalls, ResultItem
      <3>2. appended' = Append(appended, a) \o t /\ taken' = taken
        BY <2>4 DEF ToolRoundLimit
      <3> HIDE DEF a, t
      <3>3. <<a>> \in Seq(Items) /\ Len(<<a>>) = 1 /\ <<a>>[1] = a
        BY <2>2
      <3>4. Append(appended, a) \o t = appended \o (<<a>> \o t)
        <4>1. Append(appended, a) = appended \o <<a>>
          BY <2>2, AppendIsConcat DEF HistoryInv
        <4> QED BY <3>1, <3>3, <4>1, ConcatAssociative DEF HistoryInv
      <3>5. <<a>> \o t \in Seq(Items) /\ \A i \in DOMAIN (<<a>> \o t) : (<<a>> \o t)[i].kind # "Steering"
        <4>1. ASSUME NEW i \in DOMAIN (<<a>> \o t) PROVE (<<a>> \o t)[i].kind # "Steering"
          <5>1. i \in 1 .. 1 \/ i - 1 \in 1 .. Len(t)
            BY <3>1, <3>3, Behind
          <5>2. CASE i \in 1 .. 1
            <6>1. (<<a>> \o t)[i] = a
              BY <3>1, <3>3, <5>2, Behind
            <6> QED BY <2>2, <6>1
          <5>3. CASE i - 1 \in 1 .. Len(t)
            <6>1. (<<a>> \o t)[1 + (i - 1)] = t[i - 1] /\ i - 1 \in DOMAIN t
              BY <3>1, <3>3, <5>3, Behind
            <6>2. i \in Nat
              BY <3>1, <3>3, Behind
            <6>3. 1 + (i - 1) = i
              BY <6>2
            <6> QED BY <3>1, <6>1, <6>3
          <5> QED BY <5>1, <5>2, <5>3
        <4> QED BY <3>1, <3>3, <4>1, Behind
      <3> QED BY <3>2, <3>4, <3>5 DEF AppendsOther, SteeringIn
    <2> QED BY <1>4, <2>3, <2>4
  <1>5. CASE SettlesOne
    <2> PICK result \in ResultOutcomes : Settle(result)
      BY <1>5 DEF SettlesOne
    <2>1. /\ ResultItem(requestIndex, callIx, result) \in Items
          /\ ResultItem(requestIndex, callIx, result).kind # "Steering"
      BY DEF ResultItem, Items, HistoryInv
    <2> QED BY <1>a, <2>1 DEF Settle
  <1>6. CASE SettlesAll
    <2> DEFINE t == SettledCalls(callIx, Len(calls), "Cancelled")
    <2>1. appended' = appended \o t /\ taken' = taken
      BY <1>6 DEF SettlesAll, EndBatch
    <2>2. t \in Seq(Items)
      BY SettledAreItems DEF HistoryInv, ResultOutcomes
    <2>3. \A i \in DOMAIN t : t[i].kind = "ToolResult"
      BY DEF SettledCalls, ResultItem
    <2> HIDE DEF t
    <2>4. SteeringIn(t) = {}
      BY <2>3 DEF SteeringIn
    <2> QED BY <2>1, <2>2, <2>4 DEF AppendsOther
  <1>7. CASE BatchDone \/ Elsewhere
    <2>1. appended' = appended /\ taken' = taken
      BY <1>7 DEF BatchDone, Elsewhere, historyVars
    <2>2. appended = appended \o <<>> /\ <<>> \in Seq(Items) /\ SteeringIn(<<>>) = {}
      BY ConcatEmptySeq DEF HistoryInv, SteeringIn
    <2> QED BY <2>1, <2>2 DEF AppendsOther
  <1> QED BY <1>1, <1>2, <1>3, <1>4, <1>5, <1>6, <1>7, HistoryMoves

\* Where the Steering items of a grown history are.
LEMMA SteeringBehind ==
  ASSUME NEW h \in Seq(Items), NEW s \in Seq(Items)
  PROVE  /\ \A i \in SteeringIn(h \o s) :
              \/ i \in SteeringIn(h) /\ (h \o s)[i] = h[i]
              \/ i - Len(h) \in SteeringIn(s) /\ i > Len(h) /\ (h \o s)[i] = s[i - Len(h)]
         /\ \A i \in SteeringIn(h) : i \in SteeringIn(h \o s) /\ (h \o s)[i] = h[i] /\ i <= Len(h)
         /\ \A i \in SteeringIn(s) : Len(h) + i \in SteeringIn(h \o s) /\ (h \o s)[Len(h) + i] = s[i]
  <1> DEFINE g == h \o s
  <1>1. /\ Len(h) \in Nat /\ Len(s) \in Nat /\ DOMAIN g = 1 .. Len(h) + Len(s)
        /\ DOMAIN h = 1 .. Len(h) /\ DOMAIN s = 1 .. Len(s)
        /\ \A i \in 1 .. Len(h) : g[i] = h[i]
        /\ \A i \in 1 .. Len(s) : g[Len(h) + i] = s[i]
        /\ \A i \in 1 .. Len(h) + Len(s) : i \in 1 .. Len(h) \/ i - Len(h) \in 1 .. Len(s)
    BY Behind
  <1> HIDE DEF g
  <1>2. ASSUME NEW i \in SteeringIn(g)
        PROVE  \/ i \in SteeringIn(h) /\ g[i] = h[i]
               \/ i - Len(h) \in SteeringIn(s) /\ i > Len(h) /\ g[i] = s[i - Len(h)]
    <2>1. i \in 1 .. Len(h) + Len(s) /\ g[i].kind = "Steering"
      BY <1>1 DEF SteeringIn
    <2>2. CASE i \in 1 .. Len(h)
      BY <1>1, <2>1, <2>2 DEF SteeringIn
    <2>3. CASE i - Len(h) \in 1 .. Len(s)
      <3>1. Len(h) + (i - Len(h)) = i /\ i > Len(h)
        BY <1>1, <2>1, <2>3
      <3>2. g[i] = s[i - Len(h)]
        BY <1>1, <2>3, <3>1
      <3> QED BY <1>1, <2>1, <2>3, <3>1, <3>2 DEF SteeringIn
    <2> QED BY <1>1, <2>1, <2>2, <2>3
  <1>3. ASSUME NEW i \in SteeringIn(h) PROVE i \in SteeringIn(g) /\ g[i] = h[i] /\ i <= Len(h)
    <2>1. i \in 1 .. Len(h) /\ h[i].kind = "Steering"
      BY <1>1 DEF SteeringIn
    <2>2. i \in 1 .. Len(h) + Len(s)
      BY <1>1, <2>1
    <2> QED BY <1>1, <2>1, <2>2 DEF SteeringIn
  <1>4. ASSUME NEW i \in SteeringIn(s)
        PROVE  Len(h) + i \in SteeringIn(g) /\ g[Len(h) + i] = s[i]
    <2>1. i \in 1 .. Len(s) /\ s[i].kind = "Steering"
      BY <1>1 DEF SteeringIn
    <2>2. Len(h) + i \in 1 .. Len(h) + Len(s)
      BY <1>1, <2>1
    <2> QED BY <1>1, <2>1, <2>2 DEF SteeringIn
  <1> QED BY <1>2, <1>3, <1>4 DEF g

\* The inputs of a boundary are numbered on from the ones taken before.
LEMMA InputsNumbered ==
  ASSUME HistoryInv, NEW k \in Nat
  PROVE  /\ InputItems(k) \in Seq(Items) /\ Len(InputItems(k)) = k
         /\ SteeringIn(InputItems(k)) = 1 .. k
         /\ \A i \in 1 .. k : InputItems(k)[i].ref = taken + i
  <1> DEFINE s == InputItems(k)
  <1>1. s \in Seq(Items)
    BY InputsAreItems
  <1>2. DOMAIN s = 1 .. k /\ \A i \in 1 .. k : s[i].kind = "Steering" /\ s[i].ref = taken + i
    BY DEF InputItems, UserItem
  <1> HIDE DEF s
  <1>3. Len(s) = k
    <2>1. DOMAIN s = 1 .. Len(s) /\ Len(s) \in Nat
      BY <1>1
    <2> QED BY <1>2, <2>1
  <1>4. SteeringIn(s) = 1 .. k
    BY <1>2 DEF SteeringIn
  <1> QED BY <1>1, <1>2, <1>3, <1>4 DEF s

\* SteerInv is inductive.
LEMMA SteerInvStep ==
  ASSUME HistoryInv, EndInv, SteerInv, [Next]_vars PROVE SteerInv'
  <1>0. appended \in Seq(Items) /\ taken \in Nat /\ Len(appended) \in Nat
    BY DEF HistoryInv
  <1>1. CASE AppendsOther
    <2> PICK s \in Seq(Items) : SteeringIn(s) = {} /\ appended' = appended \o s
      BY <1>1 DEF AppendsOther
    <2>1. taken' = taken
      BY <1>1 DEF AppendsOther
    <2>2. /\ SteeringIn(appended') = SteeringIn(appended)
          /\ \A i \in SteeringIn(appended) : appended'[i] = appended[i]
      <3>1. /\ \A i \in SteeringIn(appended \o s) :
                 i \in SteeringIn(appended) \/ i - Len(appended) \in SteeringIn(s)
            /\ \A i \in SteeringIn(appended) :
                 i \in SteeringIn(appended \o s) /\ (appended \o s)[i] = appended[i]
        BY <1>0, SteeringBehind
      <3>2. SteeringIn(appended \o s) = SteeringIn(appended)
        BY <3>1
      <3> QED BY <3>1, <3>2
    <2> QED BY <2>1, <2>2 DEF SteerInv
  <1>2. ASSUME NEW k \in 0 .. MaxInputs, TakesInputs(k) PROVE SteerInv'
    <2> DEFINE n == Len(appended)
               s == InputItems(k)
    <2>0. k \in Nat /\ n \in Nat /\ taken' = taken + k
      BY <1>0, <1>2, LoopAssumption DEF TakesInputs
    <2>1. s \in Seq(Items) /\ SteeringIn(s) = 1 .. k /\ \A i \in 1 .. k : s[i].ref = taken + i
      BY <2>0, InputsNumbered
    <2> HIDE DEF s
    <2>2. appended' = appended \o s
      BY <1>2 DEF TakesInputs, s
    <2>3. /\ \A i \in SteeringIn(appended') :
               \/ i \in SteeringIn(appended) /\ appended'[i] = appended[i]
               \/ i - n \in 1 .. k /\ i > n /\ appended'[i] = s[i - n]
          /\ \A i \in SteeringIn(appended) :
               i \in SteeringIn(appended') /\ appended'[i] = appended[i] /\ i <= n
          /\ \A i \in 1 .. k : n + i \in SteeringIn(appended') /\ appended'[n + i] = s[i]
      <3> DEFINE g == appended \o s
      <3>1. /\ \A i \in SteeringIn(g) :
                 \/ i \in SteeringIn(appended) /\ g[i] = appended[i]
                 \/ i - n \in SteeringIn(s) /\ i > n /\ g[i] = s[i - n]
            /\ \A i \in SteeringIn(appended) : i \in SteeringIn(g) /\ g[i] = appended[i] /\ i <= n
            /\ \A i \in SteeringIn(s) : n + i \in SteeringIn(g) /\ g[n + i] = s[i]
        BY <1>0, <2>1, SteeringBehind
      <3>2. g = appended'
        BY <2>2
      <3> HIDE DEF g, n
      <3> QED BY <2>1, <3>1, <3>2
    <2> HIDE DEF n
    <2>4. ASSUME NEW i \in SteeringIn(appended') PROVE appended'[i].ref \in 1 .. taken'
      <3>1. CASE i \in SteeringIn(appended) /\ appended'[i] = appended[i]
        <4>1. appended[i].ref \in 1 .. taken
          BY <3>1 DEF SteerInv
        <4> QED BY <1>0, <2>0, <3>1, <4>1
      <3>2. CASE i - n \in 1 .. k /\ appended'[i] = s[i - n]
        <4>1. appended'[i].ref = taken + (i - n)
          BY <2>1, <3>2
        <4> QED BY <1>0, <2>0, <3>2, <4>1
      <3> QED BY <2>3, <3>1, <3>2
    <2>5. ASSUME NEW m \in 1 .. taken' PROVE \E i \in SteeringIn(appended') : appended'[i].ref = m
      <3>1. CASE m \in 1 .. taken
        <4>1. PICK i \in SteeringIn(appended) : appended[i].ref = m
          BY <3>1 DEF SteerInv
        <4> QED BY <2>3, <4>1
      <3>2. CASE m - taken \in 1 .. k
        <4>1. n + (m - taken) \in SteeringIn(appended') /\ appended'[n + (m - taken)] = s[m - taken]
          BY <2>3, <3>2
        <4>2. s[m - taken].ref = taken + (m - taken) /\ taken + (m - taken) = m
          BY <1>0, <2>0, <2>1, <3>2
        <4> QED BY <4>1, <4>2
      <3>3. m \in 1 .. taken \/ m - taken \in 1 .. k
        BY <1>0, <2>0
      <3> QED BY <3>1, <3>2, <3>3
    <2>6. ASSUME NEW i \in SteeringIn(appended'), NEW j \in SteeringIn(appended'), i < j
          PROVE  appended'[i].ref < appended'[j].ref
      <3>0. i \in Nat /\ j \in Nat
        <4>1. appended' \in Seq(Items)
          BY <1>0, <2>1, <2>2, Behind
        <4> QED BY <4>1, Behind DEF SteeringIn
      <3>1. CASE i \in SteeringIn(appended) /\ j \in SteeringIn(appended)
        <4>1. appended[i].ref < appended[j].ref
          BY <2>6, <3>1 DEF SteerInv
        <4> QED BY <2>3, <3>1, <4>1
      <3>2. CASE i \in SteeringIn(appended) /\ j - n \in 1 .. k /\ appended'[j] = s[j - n]
        <4>1. appended'[i].ref \in 1 .. taken /\ appended'[j].ref = taken + (j - n)
          BY <2>1, <2>3, <3>2 DEF SteerInv
        <4> QED BY <1>0, <2>0, <3>2, <4>1
      <3>3. CASE i - n \in 1 .. k /\ i > n /\ appended'[i] = s[i - n]
        <4>1. j \notin SteeringIn(appended)
          BY <2>0, <2>3, <2>6, <3>0, <3>3
        <4>2. j - n \in 1 .. k /\ appended'[j] = s[j - n]
          BY <2>3, <4>1
        <4>3. appended'[i].ref = taken + (i - n) /\ appended'[j].ref = taken + (j - n)
          BY <2>1, <3>3, <4>2
        <4> QED BY <1>0, <2>0, <2>6, <3>0, <4>3
      <3> QED BY <2>3, <3>1, <3>2, <3>3
    <2> QED BY <2>4, <2>5, <2>6 DEF SteerInv
  <1> QED BY <1>1, <1>2, InputMoves

\* The inputs in the working history are those taken, in order.
LEMMA InputsHold == Spec => []SteerInv
  <1>1. Init => SteerInv
    <2> SUFFICES ASSUME Init PROVE SteerInv
      OBVIOUS
    <2>1. SteeringIn(appended) = {} /\ taken = 0
      BY DEF Init, SteeringIn
    <2> QED BY <2>1 DEF SteerInv
  <1>2. HistoryInv /\ EndInv /\ SteerInv /\ [Next]_vars => SteerInv'
    BY SteerInvStep
  <1> QED BY <1>1, <1>2, HistoryTypes, EndingSafety, PTL DEF Spec

\* Every input the host handed over is in the report, once and in order, however the loop
\* ends; only a runner that panicked loses them.
THEOREM InputsAreReported == Spec => []InputsReported
  <1>1. SteerInv /\ ReportInv => InputsReported
    <2> SUFFICES ASSUME SteerInv, ReportInv, NEW r \in completion, unwound # "Running"
                 PROVE  /\ {r.appended[i].ref : i \in SteeringIn(r.appended)} = 1 .. taken
                        /\ \A i, j \in SteeringIn(r.appended) :
                             i < j => r.appended[i].ref < r.appended[j].ref
      BY DEF InputsReported
    <2>1. r.appended = appended
      BY DEF ReportInv, FullReport
    <2> QED BY <2>1 DEF SteerInv
  <1> QED BY <1>1, InputsHold, RequestsHold, PTL

-----------------------------------------------------------------------------
(* The marks of a host that records for which request its inputs were taken. *)

\* What the host knows of the requests, and that a mark names the first one that shows it.
MarksInv ==
  /\ marks \in Seq(Nat) /\ Len(marks) = taken
  /\ shown \in Seq(Nat) /\ Len(shown) = Len(issued)
  /\ \A r \in DOMAIN shown : shown[r] <= Len(appended)
  /\ \A n \in DOMAIN marks : marks[n] <= Len(shown)
  /\ called = IF Len(issued) = 0 THEN {} ELSE {Len(issued) - 1}
  /\ prepared \in Nat /\ prepared <= requestIndex
  /\ \A r \in DOMAIN shown, n \in DOMAIN marks : n \in InputsIn(shown[r]) <=> marks[n] <= r - 1

\* The host's guess is the request that is being prepared.
LEMMA CandidateIsNext ==
  ASSUME MarksInv, IssueInv, LoopTypes, pc \in BeforeModel
  PROVE  CandidateIndex = Len(issued) /\ CandidateIndex \in Nat
  <1>1. Len(issued) \in Nat /\ requestIndex = Len(issued) /\ prepared \in Nat /\ prepared <= Len(issued)
    BY DEF LoopTypes, RequestTypes, IssueInv, RequestPinned, MarksInv
  <1>2. CASE Len(issued) = 0
    <2>1. called = {} /\ prepared = 0
      BY <1>1, <1>2 DEF MarksInv
    <2> QED BY <1>2, <2>1 DEF CandidateIndex
  <1>3. CASE Len(issued) # 0
    <2>1. called = {Len(issued) - 1}
      BY <1>3 DEF MarksInv
    <2>2. (CHOOSE c \in called : TRUE) = Len(issued) - 1
      BY <2>1
    <2>3. CASE prepared <= Len(issued) - 1
      BY <1>1, <2>1, <2>2, <2>3 DEF CandidateIndex
    <2>4. CASE ~(prepared <= Len(issued) - 1)
      BY <1>1, <2>1, <2>4 DEF CandidateIndex
    <2> QED BY <2>3, <2>4
  <1> QED BY <1>2, <1>3

\* The inputs in a prefix of a history.
InputsUpTo(h, m) == {h[i].ref : i \in {j \in SteeringIn(h) : j <= m}}

\* What is appended does not get into a prefix.
LEMMA PrefixKept ==
  ASSUME NEW h \in Seq(Items), NEW s \in Seq(Items), NEW m \in Nat, m <= Len(h)
  PROVE  InputsUpTo(h \o s, m) = InputsUpTo(h, m)
  <1> DEFINE g == h \o s
  <1>1. /\ \A i \in SteeringIn(g) :
             \/ i \in SteeringIn(h) /\ g[i] = h[i]
             \/ i > Len(h)
        /\ \A i \in SteeringIn(h) : i \in SteeringIn(g) /\ g[i] = h[i]
        /\ \A i \in SteeringIn(g) : i \in Nat
    <2>1. \A i \in SteeringIn(g) : i \in Nat
      <3>1. DOMAIN g = 1 .. Len(h) + Len(s) /\ Len(h) \in Nat /\ Len(s) \in Nat
        BY Behind
      <3> HIDE DEF g
      <3> QED BY <3>1 DEF SteeringIn
    <2> QED BY <2>1, SteeringBehind
  <1>2. Len(h) \in Nat
    BY Behind
  <1> HIDE DEF g
  <1>3. \A i \in SteeringIn(g) : i <= m => i \in SteeringIn(h) /\ g[i] = h[i]
    BY <1>1, <1>2
  <1>4. {j \in SteeringIn(g) : j <= m} = {j \in SteeringIn(h) : j <= m}
    BY <1>1, <1>3
  <1>5. InputsUpTo(g, m) = InputsUpTo(h, m)
    BY <1>1, <1>4 DEF InputsUpTo
  <1> QED BY <1>5 DEF g

\* The request that goes out shows every input taken so far, and all were marked for it
\* or before it.
LEMMA MarksIssue ==
  ASSUME MarksInv, SteerInv, IssueInv, LoopTypes, HistoryInv, NoStaleRequest, Issue, Observes
  PROVE  MarksInv'
  <1> DEFINE n == Len(shown)
             all == Len(appended)
  <1>1. /\ pc = "Issue" /\ pc' = "Model"
        /\ UNCHANGED <<appended, taken, requestIndex>>
    BY DEF Issue, Goto, historyVars
  <1>2. /\ prompt.length = all /\ all \in Nat /\ n \in Nat /\ taken \in Nat
        /\ Len(issued) = n /\ requestIndex = n /\ requestIndex \in Nat
        /\ appended \in Seq(Items) /\ shown \in Seq(Nat)
    BY <1>1 DEF NoStaleRequest, HistoryInv, MarksInv, IssueInv, RequestPinned, BeforeModel
  <1>3. Len(issued') = n + 1
    <2>1. issued \in Seq([index : Nat, revision : Revisions, config : Configs])
      BY DEF LoopTypes, RequestTypes
    <2>2. Len(issued') = Len(issued) + 1
      BY <2>1 DEF Issue
    <2> QED BY <1>2, <2>2
  <1>4. called' = {requestIndex} /\ prepared' = prepared /\ shown' = Append(shown, all)
    BY <1>1, <1>2 DEF Observes
  <1>5. marks' = marks
    <2>1. marks' = marks \o [i \in 1 .. taken' - taken |-> CandidateIndex]
      BY DEF Observes
    <2>2. [i \in 1 .. taken' - taken |-> CandidateIndex] = <<>>
      BY <1>1, <1>2
    <2> QED BY <2>1, <2>2, ConcatEmptySeq DEF MarksInv
  <1>6. /\ shown' \in Seq(Nat) /\ Len(shown') = n + 1 /\ DOMAIN shown' = 1 .. n + 1
        /\ \A r \in 1 .. n : shown'[r] = shown[r]
        /\ shown'[n + 1] = all /\ DOMAIN shown = 1 .. n
    BY <1>2, <1>4
  <1> HIDE DEF n, all
  <1>7. DOMAIN marks = 1 .. taken /\ \A m \in DOMAIN marks : marks[m] \in Nat /\ marks[m] <= n
    <2>1. marks \in Seq(Nat) /\ Len(marks) = taken
      BY DEF MarksInv
    <2> QED BY <2>1, ElementOfSeq DEF MarksInv, n
  <1>8. \A m \in 1 .. taken : m \in InputsIn(all)
    <2> SUFFICES ASSUME NEW m \in 1 .. taken PROVE m \in InputsIn(all)
      OBVIOUS
    <2>1. PICK i \in SteeringIn(appended) : appended[i].ref = m
      BY DEF SteerInv
    <2>2. i <= all
      BY <1>2 DEF SteeringIn, all
    <2> QED BY <2>1, <2>2 DEF InputsIn
  <1>9. \A r \in DOMAIN shown', m \in DOMAIN marks : m \in InputsIn(shown'[r]) <=> marks[m] <= r - 1
    <2> SUFFICES ASSUME NEW r \in 1 .. n + 1, NEW m \in DOMAIN marks
                 PROVE  m \in InputsIn(shown'[r]) <=> marks[m] <= r - 1
      BY <1>6
    <2>1. CASE r \in 1 .. n
      BY <1>6, <2>1 DEF MarksInv
    <2>2. CASE r = n + 1
      <3>1. marks[m] <= r - 1
        BY <1>2, <1>7, <2>2
      <3> QED BY <1>6, <1>7, <1>8, <2>2, <3>1
    <2> QED BY <1>2, <2>1, <2>2
  <1>10. \A r \in DOMAIN shown' : shown'[r] <= all
    <2> SUFFICES ASSUME NEW r \in 1 .. n + 1 PROVE shown'[r] <= all
      BY <1>6
    <2>1. CASE r \in 1 .. n
      BY <1>6, <2>1 DEF MarksInv, all
    <2>2. CASE r = n + 1
      BY <1>2, <1>6, <2>2
    <2> QED BY <1>2, <2>1, <2>2
  <1>11. \A m \in DOMAIN marks : marks[m] <= n + 1
    BY <1>2, <1>7
  <1>12. (\A r \in DOMAIN shown, m \in DOMAIN marks : m \in InputsIn(shown[r]) <=> marks[m] <= r - 1)'
    BY <1>1, <1>5, <1>9 DEF InputsIn, SteeringIn
  <1>13. called' = IF Len(issued') = 0 THEN {} ELSE {Len(issued') - 1}
    BY <1>2, <1>3, <1>4
  <1> QED BY <1>1, <1>3, <1>4, <1>5, <1>6, <1>10, <1>11, <1>12, <1>13 DEF MarksInv, all

\* Between two issues the host's view of the requests stands.
LEMMA RequestsStand ==
  ASSUME MarksInv, LoopTypes, HistoryInv, [Next]_vars, ~Issue, Observes
  PROVE  /\ UNCHANGED <<issued, shown, called>>
         /\ prepared' \in Nat /\ prepared' <= requestIndex'
  <1>1. UNCHANGED <<issued, shown, called>>
    <2>1. ~(pc = "Issue" /\ pc' = "Model")
      BY PlaceEffects
    <2> QED BY <2>1, RequestEffects
        DEF Observes, BoundaryA, BoundaryF, PromptReady, BatchDone, requestVars
  <1>2. requestIndex' = requestIndex \/ requestIndex' = requestIndex + 1
    BY RequestEffects DEF BoundaryA, BoundaryF, PromptReady, BatchDone, requestVars
  <1>3. requestIndex \in Nat /\ prepared \in Nat /\ prepared <= requestIndex
    BY DEF HistoryInv, MarksInv
  <1> QED BY <1>1, <1>2, <1>3 DEF Observes

\* Inputs that a boundary takes are marked for the next request, and no issued one shows them.
LEMMA MarksTaken ==
  ASSUME MarksInv, SteerInv, IssueInv, LoopTypes, HistoryInv, [Next]_vars, ~Issue, Observes,
         NEW k \in 0 .. MaxInputs, TakesInputs(k)
  PROVE  MarksInv'
  <1> DEFINE n == Len(shown)
             new == [i \in 1 .. k |-> CandidateIndex]
             s == InputItems(k)
  <1>1. /\ UNCHANGED <<issued, shown, called>>
        /\ prepared' \in Nat /\ prepared' <= requestIndex'
    BY RequestsStand
  <1>2. CandidateIndex = n /\ CandidateIndex \in Nat
    BY CandidateIsNext DEF TakesInputs, BeforeModel, MarksInv
  <1>3. /\ k \in Nat /\ taken \in Nat /\ taken' = taken + k
        /\ n \in Nat /\ DOMAIN shown = 1 .. n /\ \A r \in 1 .. n : shown[r] \in Nat
        /\ appended \in Seq(Items) /\ Len(appended) \in Nat /\ marks \in Seq(Nat)
        /\ Len(marks) = taken
    BY LoopAssumption, ElementOfSeq DEF TakesInputs, HistoryInv, MarksInv
  <1>4. s \in Seq(Items) /\ appended' = appended \o s
    BY <1>3, InputsAreItems DEF TakesInputs
  <1>5. marks' = marks \o new
    <2>1. taken' - taken = k
      BY <1>3
    <2> QED BY <2>1 DEF Observes
  <1>6. new \in Seq(Nat) /\ Len(new) = k /\ \A i \in 1 .. k : new[i] = n
    <2> HIDE DEF n
    <2> QED BY <1>2, <1>3
  <1> HIDE DEF new, n, s
  <1>7. /\ marks' \in Seq(Nat) /\ Len(marks') = taken' /\ DOMAIN marks' = 1 .. taken + k
        /\ \A m \in 1 .. taken : marks'[m] = marks[m]
        /\ \A m \in 1 .. taken + k : m \notin 1 .. taken => marks'[m] = n
    <2>1. /\ marks \o new \in Seq(Nat) /\ Len(marks \o new) = taken + k
          /\ \A i \in 1 .. taken + k : (marks \o new)[i] =
               IF i <= taken THEN marks[i] ELSE new[i - taken]
      BY <1>3, <1>6, ConcatProperties
    <2>2. \A m \in 1 .. taken : (marks \o new)[m] = marks[m]
      BY <1>3, <2>1
    <2>3. ASSUME NEW m \in 1 .. taken + k, m \notin 1 .. taken PROVE (marks \o new)[m] = n
      <3>1. ~(m <= taken) /\ m - taken \in 1 .. k
        BY <1>3, <2>3
      <3> QED BY <1>6, <2>1, <3>1
    <2> QED BY <1>3, <1>5, <2>1, <2>2, <2>3
  <1>8. ASSUME NEW r \in 1 .. n, NEW m \in 1 .. taken + k
        PROVE  m \in InputsUpTo(appended', shown[r]) <=> marks'[m] <= r - 1
    <2>1. InputsUpTo(appended', shown[r]) = InputsIn(shown[r])
      <3>1. shown[r] \in Nat /\ shown[r] <= Len(appended)
        BY <1>3 DEF MarksInv
      <3>2. InputsUpTo(appended \o s, shown[r]) = InputsUpTo(appended, shown[r])
        BY <1>3, <1>4, <3>1, PrefixKept
      <3> QED BY <1>4, <3>2 DEF InputsUpTo, InputsIn
    <2>2. CASE m \in 1 .. taken
      <3>1. m \in DOMAIN marks /\ r \in DOMAIN shown
        BY <1>3, <2>2
      <3> QED BY <1>7, <2>1, <2>2, <3>1 DEF MarksInv
    <2>3. CASE m \notin 1 .. taken
      <3>1. marks'[m] = n /\ ~(n <= r - 1)
        BY <1>3, <1>7, <2>3
      <3>2. m \notin InputsIn(shown[r])
        BY <2>3 DEF InputsIn, SteerInv
      <3> QED BY <2>1, <3>1, <3>2
    <2> QED BY <2>2, <2>3
  <1>9. (\A r \in DOMAIN shown, m \in DOMAIN marks : m \in InputsIn(shown[r]) <=> marks[m] <= r - 1)'
    BY <1>1, <1>3, <1>7, <1>8 DEF InputsIn, InputsUpTo
  <1>10. \A r \in DOMAIN shown' : shown'[r] <= Len(appended')
    <2> SUFFICES ASSUME NEW r \in 1 .. n PROVE shown[r] <= Len(appended')
      BY <1>1, <1>3
    <2>1. Len(appended') = Len(appended) + Len(s) /\ Len(s) \in Nat
      BY <1>3, <1>4, Behind
    <2>2. shown[r] \in Nat /\ shown[r] <= Len(appended)
      BY <1>3 DEF MarksInv
    <2> QED BY <1>3, <2>1, <2>2
  <1>11. \A m \in DOMAIN marks' : marks'[m] <= n
    <2> SUFFICES ASSUME NEW m \in 1 .. taken + k PROVE marks'[m] <= n
      BY <1>7
    <2>1. CASE m \in 1 .. taken
      <3>1. m \in DOMAIN marks
        BY <1>3, <2>1
      <3> QED BY <1>7, <2>1, <3>1 DEF MarksInv, n
    <2>2. CASE m \notin 1 .. taken
      BY <1>3, <1>7, <2>2
    <2> QED BY <2>1, <2>2
  <1>12. /\ shown' \in Seq(Nat) /\ Len(shown') = Len(issued')
         /\ called' = IF Len(issued') = 0 THEN {} ELSE {Len(issued') - 1}
    BY <1>1 DEF MarksInv
  <1> QED BY <1>1, <1>7, <1>9, <1>10, <1>11, <1>12 DEF MarksInv, n

\* Everything else leaves inputs and marks alone.
LEMMA MarksElsewhere ==
  ASSUME MarksInv, LoopTypes, HistoryInv, [Next]_vars, ~Issue, Observes, AppendsOther
  PROVE  MarksInv'
  <1>1. /\ UNCHANGED <<issued, shown, called>>
        /\ prepared' \in Nat /\ prepared' <= requestIndex'
    BY RequestsStand
  <1>2. taken' = taken /\ taken \in Nat /\ appended \in Seq(Items) /\ Len(appended) \in Nat
    BY DEF AppendsOther, HistoryInv
  <1>3. marks' = marks
    <2>1. marks' = marks \o [i \in 1 .. taken' - taken |-> CandidateIndex]
      BY DEF Observes
    <2>2. [i \in 1 .. taken' - taken |-> CandidateIndex] = <<>>
      BY <1>2
    <2> QED BY <2>1, <2>2, ConcatEmptySeq DEF MarksInv
  <1>4. PICK s \in Seq(Items) : appended' = appended \o s
    BY DEF AppendsOther
  <1>5. \A r \in DOMAIN shown : shown[r] \in Nat /\ shown[r] <= Len(appended)
    BY ElementOfSeq DEF MarksInv
  <1>6. \A r \in DOMAIN shown : shown[r] <= Len(appended')
    <2>1. Len(appended') = Len(appended) + Len(s) /\ Len(s) \in Nat
      BY <1>2, <1>4, Behind
    <2> QED BY <1>2, <1>5, <2>1
  <1>7. \A r \in DOMAIN shown : InputsUpTo(appended', shown[r]) = InputsIn(shown[r])
    <2> SUFFICES ASSUME NEW r \in DOMAIN shown
                 PROVE  InputsUpTo(appended', shown[r]) = InputsIn(shown[r])
      OBVIOUS
    <2>1. InputsUpTo(appended \o s, shown[r]) = InputsUpTo(appended, shown[r])
      BY <1>2, <1>4, <1>5, PrefixKept
    <2> QED BY <1>4, <2>1 DEF InputsUpTo, InputsIn
  <1>8. (\A r \in DOMAIN shown, m \in DOMAIN marks : m \in InputsIn(shown[r]) <=> marks[m] <= r - 1)'
    BY <1>1, <1>3, <1>7 DEF MarksInv, InputsIn, InputsUpTo
  <1> QED BY <1>1, <1>2, <1>3, <1>6, <1>8 DEF MarksInv

\* MarksInv is inductive, given what is known of the loop.
LEMMA MarksInvStep ==
  ASSUME MarksInv, SteerInv, IssueInv, LoopTypes, HistoryInv, EndInv, NoStaleRequest,
         [Next /\ Observes]_<<vars, boundaryVars>>
  PROVE  MarksInv'
  <1>1. CASE UNCHANGED <<vars, boundaryVars>>
    BY <1>1 DEF MarksInv, vars, runnerVars, requestVars, historyVars, boundaryVars, InputsIn, SteeringIn
  <1>2. CASE Next /\ Observes
    <2>1. CASE Issue
      BY <1>2, <2>1, MarksIssue
    <2>2. CASE ~Issue
      BY <1>2, <2>2, InputMoves, MarksTaken, MarksElsewhere
    <2> QED BY <2>1, <2>2
  <1> QED BY <1>1, <1>2

\* The observed loop is a loop.
LEMMA ObservedLoop == BoundariesSpec => Spec
  <1>1. BoundariesInit => Init
    BY DEF BoundariesInit
  <1>2. [Next /\ Observes]_<<vars, boundaryVars>> => [Next]_vars
    OBVIOUS
  <1> QED BY <1>1, <1>2, PTL DEF BoundariesSpec, Spec

\* A host that marks each input with the index it expects next, from its provider's and its
\* model's calls alone, marks it with the first request that shows it.
THEOREM MarksAreRight == BoundariesSpec => []MarksNameFirstRequest
  <1>1. BoundariesInit => MarksInv
    BY DEF BoundariesInit, Init, MarksInv
  <1>2. MarksInv /\ SteerInv /\ IssueInv /\ LoopTypes /\ HistoryInv /\ EndInv /\ NoStaleRequest
        /\ [Next /\ Observes]_<<vars, boundaryVars>> => MarksInv'
    BY MarksInvStep
  <1>3. MarksInv => MarksNameFirstRequest
    BY DEF MarksInv, MarksNameFirstRequest
  <1> QED BY <1>1, <1>2, <1>3, ObservedLoop, InputsHold, RequestsHold, LoopTypesHold, HistoryTypes,
             EndingSafety, NoRequestIsStale, PTL DEF BoundariesSpec
=============================================================================
