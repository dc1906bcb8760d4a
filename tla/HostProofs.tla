----------------------------- MODULE HostProofs -----------------------------
(***************************************************************************)
(* What a host gets from the loops it runs, for every value of the         *)
(* constants.  LossesCounted: nothing that goes through the two queues of  *)
(* the event stream is counted twice, and only what a thread sends late    *)
(* can go missing.  TotalIsSum: unless the loop panicked or overflowed,    *)
(* its usage is the sum of what its responses reported.                    *)
(* SessionStaysUsable: a history made of deltas never makes a loop fail.   *)
(* Sums over sequences are cardinalities of sets of pairs.                 *)
(***************************************************************************)
EXTENDS EventStream, Session, SequenceTheorems, FunctionTheorems, FiniteSetTheorems, TLAPS

PCs == PortPCs \cup {"Between", "Over"}

StreamTypes ==
  /\ pc \in PCs
  /\ port \in Nat /\ dropped \in Nat /\ inner \in Nat /\ counter \in Nat
  /\ closed \in BOOLEAN /\ listening \in BOOLEAN
  /\ queue \in Seq(Nat) /\ IsFiniteSet(LossesIn(queue))
  /\ missed \in [Detached -> SUBSET Nat]
  /\ produced \in Nat /\ aside \in Nat /\ received \in Nat /\ gaps \in Nat

\* Between calls there is no progress queue, and no thread waits to count for a call to come.
PortInv ==
  /\ pc \in {"Between", "Over"} => inner = 0 /\ counter = 0
  /\ \A t \in Detached : \A p \in missed[t] : p <= port
  /\ closed => ~listening

\* What is still in the hands of a call and came from a thread: refused and not counted; once
\* the call returned and its count was swapped, all that is counted; and once its queue was
\* found empty, all that is in it.
Late ==
  Uncounted + (IF pc \in {"Drain", "DrainSwap", "DrainEmit", "Close"} THEN counter ELSE 0)
            + (IF pc = "Close" THEN inner ELSE 0)

\* LossesCounted, with what may yet be lost set aside.
CountInv == listening => AccountedFor <= produced /\ produced + Late <= AccountedFor + aside

StreamInv == StreamTypes /\ PortInv /\ CountInv

\* What the public queue holds: its envelopes and the losses they count.
Queued == Len(queue) + Cardinality(LossesIn(queue))

-----------------------------------------------------------------------------
(* Sums over the public queue. *)

\* The pairs that stand for a number are as many as it says.
LEMMA PairsOfOne ==
  ASSUME NEW i, NEW x \in Nat
  PROVE  IsFiniteSet({i} \X (1 .. x)) /\ Cardinality({i} \X (1 .. x)) = x
  <1> DEFINE f == [k \in 1 .. x |-> <<i, k>>]
  <1>1. f \in Bijection(1 .. x, {i} \X (1 .. x))
    <2> DEFINE T == {i} \X (1 .. x)
    <2>1. f \in [1 .. x -> T]
      OBVIOUS
    <2>2. \A k, l \in 1 .. x : f[k] = f[l] => k = l
      OBVIOUS
    <2>3. \A p \in T : \E k \in 1 .. x : f[k] = p
      OBVIOUS
    <2> HIDE DEF f, T
    <2>4. f \in Bijection(1 .. x, T)
      BY <2>1, <2>2, <2>3 DEF Bijection, Injection, Surjection, IsInjective
    <2> QED BY <2>4 DEF T
  <1>2. ExistsBijection(1 .. x, {i} \X (1 .. x))
    BY <1>1 DEF ExistsBijection
  <1>3. IsFiniteSet(1 .. x) /\ Cardinality(1 .. x) = x
    BY FS_Interval
  <1> QED BY <1>2, <1>3, FS_Bijection

\* A pair is a loss of the queue.
LEMMA LossIs ==
  ASSUME NEW q, NEW p
  PROVE  p \in LossesIn(q) <=> \E i \in DOMAIN q : p \in {i} \X (1 .. q[i])
  BY DEF LossesIn

\* Disjoint finite sets add up.
LEMMA DisjointUnion ==
  ASSUME NEW S, NEW T, IsFiniteSet(S), IsFiniteSet(T), S \cap T = {}
  PROVE  IsFiniteSet(S \cup T) /\ Cardinality(S \cup T) = Cardinality(S) + Cardinality(T)
  <1>1. Cardinality(S) \in Nat /\ Cardinality(T) \in Nat
    BY FS_CardinalityType
  <1> QED BY <1>1, FS_Union, FS_EmptySet

\* An envelope is put in the queue.
LEMMA LossesAppend ==
  ASSUME NEW q \in Seq(Nat), NEW x \in Nat, IsFiniteSet(LossesIn(q))
  PROVE  /\ IsFiniteSet(LossesIn(Append(q, x)))
         /\ Cardinality(LossesIn(Append(q, x))) = Cardinality(LossesIn(q)) + x
  <1> DEFINE n == Len(q)
             new == {n + 1} \X (1 .. x)
             r == Append(q, x)
  <1>1. /\ DOMAIN q = 1 .. n /\ n \in Nat /\ DOMAIN r = 1 .. n + 1 /\ r[n + 1] = x
        /\ \A i \in 1 .. n : r[i] = q[i]
    OBVIOUS
  <1> HIDE DEF r, n
  <1>2. DOMAIN r = DOMAIN q \cup {n + 1} /\ n + 1 \notin DOMAIN q
    BY <1>1
  <1>3. LossesIn(r) = LossesIn(q) \cup new
    <2>1. ASSUME NEW p \in LossesIn(r) PROVE p \in LossesIn(q) \cup new
      <3>1. PICK i \in DOMAIN r : p \in {i} \X (1 .. r[i])
        BY <2>1, LossIs
      <3>2. CASE i \in DOMAIN q
        BY <1>1, <3>1, <3>2, LossIs
      <3>3. CASE i = n + 1
        BY <1>1, <3>1, <3>3
      <3> QED BY <1>2, <3>2, <3>3
    <2>2. ASSUME NEW p \in LossesIn(q) PROVE p \in LossesIn(r)
      BY <1>1, <1>2, <2>2, LossIs
    <2>3. ASSUME NEW p \in new PROVE p \in LossesIn(r)
      BY <1>1, <1>2, <2>3, LossIs
    <2> QED BY <2>1, <2>2, <2>3
  <1>4. LossesIn(q) \cap new = {}
    <2> SUFFICES ASSUME NEW p \in LossesIn(q), p \in new PROVE FALSE
      OBVIOUS
    <2>1. PICK i \in DOMAIN q : p \in {i} \X (1 .. q[i])
      BY LossIs
    <2> QED BY <1>2, <2>1
  <1>5. IsFiniteSet(new) /\ Cardinality(new) = x
    BY PairsOfOne
  <1> HIDE DEF new
  <1> QED BY <1>3, <1>4, <1>5, DisjointUnion DEF r

\* An envelope is taken out of the queue.
LEMMA LossesTail ==
  ASSUME NEW q \in Seq(Nat), q # <<>>, IsFiniteSet(LossesIn(q))
  PROVE  /\ IsFiniteSet(LossesIn(Tail(q)))
         /\ Cardinality(LossesIn(q)) = Head(q) + Cardinality(LossesIn(Tail(q)))
  <1> DEFINE n == Len(q)
             r == Tail(q)
             first == {1} \X (1 .. q[1])
             rest == {<<p[1] + 1, p[2]>> : p \in LossesIn(r)}
             f == [p \in LossesIn(r) |-> <<p[1] + 1, p[2]>>]
  <1>1. /\ DOMAIN q = 1 .. n /\ n \in Nat /\ n > 0 /\ DOMAIN r = 1 .. n - 1
        /\ \A i \in 1 .. n - 1 : r[i] = q[i + 1]
        /\ Head(q) = q[1] /\ q[1] \in Nat
    OBVIOUS
  <1> HIDE DEF r, n
  <1>2. ASSUME NEW p \in LossesIn(r)
        PROVE  p = <<p[1], p[2]>> /\ p[1] \in 1 .. n - 1 /\ p[2] \in 1 .. r[p[1]]
    <2>1. PICK i \in DOMAIN r : p \in {i} \X (1 .. r[i])
      BY LossIs
    <2> QED BY <1>1, <2>1
  <1>3. LossesIn(q) = first \cup rest
    <2>1. ASSUME NEW p \in LossesIn(q) PROVE p \in first \cup rest
      <3>1. PICK i \in DOMAIN q : p \in {i} \X (1 .. q[i])
        BY LossIs
      <3>2. CASE i = 1
        BY <3>1, <3>2
      <3>3. CASE i # 1
        <4>1. i - 1 \in DOMAIN r /\ r[i - 1] = q[i] /\ (i - 1) + 1 = i
          BY <1>1, <3>3
        <4>2. <<i - 1, p[2]>> \in {i - 1} \X (1 .. r[i - 1]) /\ p = <<i, p[2]>>
          BY <3>1, <4>1
        <4>3. <<i - 1, p[2]>> \in LossesIn(r)
          BY <4>1, <4>2, LossIs
        <4> QED BY <4>1, <4>2, <4>3
      <3> QED BY <3>2, <3>3
    <2>2. ASSUME NEW p \in first PROVE p \in LossesIn(q)
      <3>1. 1 \in DOMAIN q
        BY <1>1
      <3> QED BY <3>1, LossIs
    <2>3. ASSUME NEW p \in LossesIn(r) PROVE <<p[1] + 1, p[2]>> \in LossesIn(q)
      <3>1. p[1] \in 1 .. n - 1 /\ p[2] \in 1 .. r[p[1]]
        BY <1>2
      <3>2. p[1] + 1 \in DOMAIN q /\ q[p[1] + 1] = r[p[1]]
        BY <1>1, <3>1
      <3>3. <<p[1] + 1, p[2]>> \in {p[1] + 1} \X (1 .. q[p[1] + 1])
        BY <3>1, <3>2
      <3> QED BY <3>2, <3>3, LossIs
    <2> QED BY <2>1, <2>2, <2>3
  <1>4. first \cap rest = {}
    <2> SUFFICES ASSUME NEW p \in LossesIn(r), <<p[1] + 1, p[2]>> \in first PROVE FALSE
      OBVIOUS
    <2>1. p[1] \in 1 .. n - 1
      BY <1>2
    <2> QED BY <1>1, <2>1
  <1>5. f \in Bijection(LossesIn(r), rest)
    <2>1. f \in [LossesIn(r) -> rest]
      OBVIOUS
    <2>2. ASSUME NEW a \in LossesIn(r), NEW b \in LossesIn(r), f[a] = f[b] PROVE a = b
      <3>1. a[1] + 1 = b[1] + 1 /\ a[2] = b[2]
        BY <2>2
      <3>2. a = <<a[1], a[2]>> /\ b = <<b[1], b[2]>> /\ a[1] \in Nat /\ b[1] \in Nat
        BY <1>1, <1>2
      <3> QED BY <3>1, <3>2
    <2>3. \A t \in rest : \E p \in LossesIn(r) : f[p] = t
      OBVIOUS
    <2> HIDE DEF f, rest
    <2> QED BY <2>1, <2>2, <2>3 DEF Bijection, Injection, Surjection, IsInjective
  <1>6. IsFiniteSet(first) /\ Cardinality(first) = q[1]
    BY <1>1, PairsOfOne
  <1>7. IsFiniteSet(rest)
    BY <1>3, FS_Subset
  <1> HIDE DEF f, rest, first
  <1>8. ExistsBijection(rest, LossesIn(r))
    <2>1. ExistsBijection(LossesIn(r), rest)
      BY <1>5 DEF ExistsBijection
    <2> QED BY <2>1, Fun_ExistsBijSymmetric
  <1>9. IsFiniteSet(LossesIn(r)) /\ Cardinality(LossesIn(r)) = Cardinality(rest)
    BY <1>7, <1>8, FS_Bijection
  <1> QED BY <1>1, <1>3, <1>4, <1>6, <1>7, <1>9, DisjointUnion DEF r

\* An empty queue counts nothing.
LEMMA LossesEmpty == IsFiniteSet(LossesIn(<<>>)) /\ Cardinality(LossesIn(<<>>)) = 0
  <1>1. LossesIn(<<>>) = {}
    BY DEF LossesIn
  <1> QED BY <1>1, FS_EmptySet

\* The account as a sum of numbers.
AccountSum ==
  /\ Queued \in Nat /\ Uncounted \in Nat /\ InHand \in Nat
  /\ AccountedFor = received + gaps + dropped + counter + inner + InHand + Uncounted + Queued
  /\ AccountedFor \in Nat /\ Late \in Nat

\* The parts of the account are numbers.
LEMMA CountTypes == StreamTypes => AccountSum
  <1> SUFFICES ASSUME StreamTypes PROVE AccountSum
    OBVIOUS
  <1>1. {t \in Detached : InPort /\ port \in missed[t]} \in SUBSET Detached
    OBVIOUS
  <1>2. IsFiniteSet({t \in Detached : InPort /\ port \in missed[t]})
    BY <1>1, FS_Subset, StreamAssumption
  <1> DEFINE c == Cardinality(LossesIn(queue))
  <1>3. c \in Nat /\ Uncounted \in Nat
    BY <1>2, FS_CardinalityType DEF StreamTypes, Uncounted
  <1>4. Len(queue) \in Nat
    BY DEF StreamTypes
  <1>5. Queued = Len(queue) + c
    BY DEF Queued
  <1>6. InHand \in Nat
    BY DEF InHand
  <1>7. AccountedFor = received + gaps + Len(queue) + c + dropped + counter + inner + InHand + Uncounted
    BY DEF AccountedFor
  <1> HIDE DEF c
  <1>8. Late \in Nat
    BY <1>3 DEF Late, StreamTypes
  <1> QED BY <1>3, <1>4, <1>5, <1>6, <1>7, <1>8 DEF StreamTypes, AccountSum

\* The same after a step.
LEMMA CountTypesNext == StreamTypes' => AccountSum'
  BY CountTypes, PTL

\* The threads that have not counted, while the runner stays inside or outside of a call.
LEMMA UncountedStays ==
  ASSUME UNCHANGED <<missed, port>>, InPort' <=> InPort
  PROVE  Uncounted' = Uncounted
  BY DEF Uncounted

\* Outside of a call nobody counts for it.
LEMMA UncountedOutside == ASSUME ~InPort PROVE Uncounted = 0
  <1>1. {t \in Detached : InPort /\ port \in missed[t]} = {}
    OBVIOUS
  <1> QED BY <1>1, FS_EmptySet DEF Uncounted

\* The public queue keeps what it holds while nobody touches it.
LEMMA QueuedStays == ASSUME UNCHANGED queue PROVE Queued' = Queued
  BY DEF Queued

\* try_emit moves what the sink had dropped into an envelope, or drops one more.
LEMMA EmitCounts ==
  ASSUME StreamTypes, PortInv, try_emit
  PROVE  /\ queue' \in Seq(Nat) /\ IsFiniteSet(LossesIn(queue'))
         /\ dropped' \in Nat /\ closed' \in BOOLEAN
         /\ closed' => closed \/ ~listening
         /\ listening => Queued' + dropped' = Queued + dropped + 1
  <1>1. queue \in Seq(Nat) /\ dropped \in Nat /\ IsFiniteSet(LossesIn(queue)) /\ closed \in BOOLEAN
    BY DEF StreamTypes
  <1>2. CASE closed \/ ~listening
    BY <1>1, <1>2 DEF try_emit, PortInv
  <1>3. CASE ~(closed \/ ~listening)
    <2>1. CASE Len(queue) < Capacity
      <3>1. queue' = Append(queue, dropped) /\ dropped' = 0 /\ closed' = closed
        BY <1>3, <2>1 DEF try_emit
      <3>2. /\ IsFiniteSet(LossesIn(queue'))
            /\ Cardinality(LossesIn(queue')) = Cardinality(LossesIn(queue)) + dropped
        BY <1>1, <3>1, LossesAppend
      <3>3. queue' \in Seq(Nat) /\ Len(queue') = Len(queue) + 1 /\ Len(queue) \in Nat
        BY <1>1, <3>1
      <3> DEFINE c == Cardinality(LossesIn(queue))
                 d == Cardinality(LossesIn(queue'))
      <3>4. c \in Nat /\ d = c + dropped
        BY <1>1, <3>2, FS_CardinalityType
      <3>5. Queued = Len(queue) + c /\ Queued' = Len(queue') + d
        BY DEF Queued
      <3> HIDE DEF c, d
      <3>6. Queued' + dropped' = Queued + dropped + 1
        BY <1>1, <3>1, <3>3, <3>4, <3>5
      <3> QED BY <1>1, <1>3, <3>1, <3>2, <3>3, <3>6
    <2>2. CASE ~(Len(queue) < Capacity)
      <3>1. queue' = queue /\ dropped' = dropped + 1 /\ closed' = closed
        BY <1>3, <2>2 DEF try_emit
      <3>2. Queued' = Queued /\ Queued \in Nat
        BY <3>1, QueuedStays, CountTypes DEF AccountSum
      <3> QED BY <1>1, <1>3, <3>1, <3>2
    <2> QED BY <2>1, <2>2
  <1> QED BY <1>2, <1>3

-----------------------------------------------------------------------------
(* The steps. *)

\* Nothing has happened at the start.
LEMMA StreamInitInv == StreamInit => StreamInv
  <1> SUFFICES ASSUME StreamInit PROVE StreamInv
    OBVIOUS
  <1>1. StreamTypes
    <2>1. queue = <<>> /\ queue \in Seq(Nat)
      BY DEF StreamInit
    <2>2. IsFiniteSet(LossesIn(queue))
      BY <2>1, LossesEmpty
    <2>3. missed \in [Detached -> SUBSET Nat]
      BY DEF StreamInit
    <2> QED BY <2>1, <2>2, <2>3 DEF StreamInit, StreamTypes, PCs
  <1>2. PortInv
    BY DEF StreamInit, PortInv
  <1>3. Uncounted = 0
    BY UncountedOutside DEF StreamInit, InPort, PortPCs
  <1>4. Queued = 0
    BY LossesEmpty DEF StreamInit, Queued
  <1>5. AccountedFor = 0 /\ Late = 0
    BY <1>1, <1>3, <1>4, CountTypes DEF StreamInit, Late, InHand, AccountSum
  <1>6. CountInv
    BY <1>5 DEF StreamInit, CountInv
  <1> QED BY <1>1, <1>2, <1>6 DEF StreamInv

\* The runner's own events and its calls.
LEMMA PublishKeeps == ASSUME StreamInv, Publish PROVE StreamInv'
  <1>0. StreamTypes /\ PortInv /\ CountInv
    BY DEF StreamInv
  <1>1. /\ pc = "Between" /\ produced' = produced + 1 /\ try_emit
        /\ UNCHANGED <<pc, port, listening, inner, counter, missed, aside, received, gaps>>
    BY DEF Publish, seenVars
  <1>2. StreamTypes'
    BY <1>0, <1>1, EmitCounts DEF StreamTypes
  <1>3. PortInv'
    BY <1>0, <1>1, EmitCounts DEF PortInv
  <1>4. Uncounted' = Uncounted
    BY <1>1, UncountedStays DEF InPort
  <1>5. Late' = Late /\ InHand' = InHand
    BY <1>1, <1>4 DEF Late, InHand
  <1>6. AccountSum /\ AccountSum'
    BY <1>0, <1>2, CountTypes, CountTypesNext
  <1>7. CountInv'
    <2> SUFFICES ASSUME listening PROVE CountInv'
      BY <1>1 DEF CountInv
    <2>1. PICK d \in Nat, q \in Nat : dropped' = d /\ Queued' = q
      BY <1>2, <1>6 DEF StreamTypes, AccountSum
    <2>2. q + d = Queued + dropped + 1
      BY <1>0, <1>1, <2>1, EmitCounts
    <2>3. AccountedFor' = AccountedFor + 1
      BY <1>0, <1>1, <1>4, <1>5, <1>6, <2>1, <2>2 DEF AccountSum, StreamTypes
    <2> QED BY <1>0, <1>1, <1>5, <1>6, <2>3 DEF CountInv, AccountSum, StreamTypes
  <1> QED BY <1>2, <1>3, <1>7 DEF StreamInv

\* A progress item that was taken is emitted.
LEMMA ForwardKeeps == ASSUME StreamInv, ForwardProgress PROVE StreamInv'
  <1>0. StreamTypes /\ PortInv /\ CountInv
    BY DEF StreamInv
  <1>1. /\ \/ pc = "RunEmit" /\ pc' = "Run"
           \/ pc = "DrainEmit" /\ pc' = "Drain"
        /\ try_emit
        /\ UNCHANGED <<port, listening, inner, counter, missed, produced, aside, received, gaps>>
    BY DEF ForwardProgress, seenVars
  <1>2. StreamTypes'
    BY <1>0, <1>1, EmitCounts DEF StreamTypes, PCs, PortPCs
  <1>3. PortInv'
    BY <1>0, <1>1, EmitCounts DEF PortInv
  <1>4. Uncounted' = Uncounted
    BY <1>1, UncountedStays DEF InPort, PortPCs
  <1>5. Late' = Late /\ InHand' = 0 /\ InHand = 1
    BY <1>1, <1>4 DEF Late, InHand
  <1>6. AccountSum /\ AccountSum'
    BY <1>0, <1>2, CountTypes, CountTypesNext
  <1>7. CountInv'
    <2> SUFFICES ASSUME listening PROVE CountInv'
      BY <1>1 DEF CountInv
    <2>1. PICK d \in Nat, q \in Nat : dropped' = d /\ Queued' = q
      BY <1>2, <1>6 DEF StreamTypes, AccountSum
    <2>2. q + d = Queued + dropped + 1
      BY <1>0, <1>1, <2>1, EmitCounts
    <2>3. AccountedFor' = AccountedFor
      BY <1>0, <1>1, <1>4, <1>5, <1>6, <2>1, <2>2 DEF AccountSum, StreamTypes
    <2> QED BY <1>0, <1>1, <1>5, <1>6, <2>3 DEF CountInv, AccountSum, StreamTypes
  <1> QED BY <1>2, <1>3, <1>7 DEF StreamInv

\* A call begins: no thread waits to count for it.
LEMMA BeginKeeps == ASSUME StreamInv, BeginPort PROVE StreamInv'
  <1>0. StreamTypes /\ PortInv /\ CountInv
    BY DEF StreamInv
  <1>1. /\ pc = "Between" /\ pc' = "Run" /\ port' = port + 1 /\ inner' = 0 /\ counter' = 0
        /\ UNCHANGED <<dropped, closed, queue, listening, missed, produced, aside, received, gaps>>
    BY DEF BeginPort, seenVars
  <1>2. StreamTypes'
    BY <1>0, <1>1 DEF StreamTypes, PCs, PortPCs
  <1>3. PortInv'
    <2> SUFFICES ASSUME NEW t \in Detached, NEW p \in missed[t] PROVE p <= port + 1
      BY <1>0, <1>1 DEF PortInv
    <2>1. p \in Nat /\ p <= port /\ port \in Nat
      BY <1>0 DEF StreamTypes, PortInv
    <2> QED BY <2>1
  <1>4. Uncounted = 0
    BY <1>1, UncountedOutside DEF InPort, PortPCs
  <1>5. Uncounted' = 0
    <2>1. ASSUME NEW t \in Detached, port + 1 \in missed[t] PROVE FALSE
      <3>1. port + 1 <= port /\ port \in Nat
        BY <1>0, <2>1 DEF PortInv, StreamTypes
      <3> QED BY <3>1
    <2>2. {t \in Detached : pc' \in PortPCs /\ port' \in missed'[t]} = {}
      BY <1>1, <2>1
    <2> QED BY <2>2, FS_EmptySet DEF Uncounted, InPort
  <1>6. Late = 0 /\ Late' = 0 /\ InHand = 0 /\ InHand' = 0
    BY <1>0, <1>1, <1>4, <1>5 DEF Late, InHand, PortInv
  <1>7. Queued' = Queued /\ inner = 0 /\ counter = 0
    BY <1>0, <1>1, QueuedStays DEF PortInv
  <1>8. AccountSum /\ AccountSum'
    BY <1>0, <1>2, CountTypes, CountTypesNext
  <1>9. AccountedFor' = AccountedFor
    BY <1>0, <1>1, <1>4, <1>5, <1>6, <1>7, <1>8 DEF AccountSum, StreamTypes
  <1>10. CountInv'
    BY <1>0, <1>1, <1>6, <1>8, <1>9 DEF CountInv, AccountSum, StreamTypes
  <1> QED BY <1>2, <1>3, <1>10 DEF StreamInv

\* The call emits into its queue, or counts what the full queue refuses.
LEMMA PortEmitsKeeps == ASSUME StreamInv, PortEmits PROVE StreamInv'
  <1>0. StreamTypes /\ PortInv /\ CountInv
    BY DEF StreamInv
  <1>1. /\ pc = "Run" /\ produced' = produced + 1
        /\ \/ inner' = inner + 1 /\ counter' = counter
           \/ counter' = counter + 1 /\ inner' = inner
        /\ UNCHANGED <<pc, port, dropped, closed, queue, listening, missed, aside, received, gaps>>
    BY DEF PortEmits, seenVars
  <1>2. StreamTypes'
    BY <1>0, <1>1 DEF StreamTypes
  <1>3. PortInv'
    BY <1>0, <1>1 DEF PortInv
  <1>4. Uncounted' = Uncounted /\ Queued' = Queued
    BY <1>1, UncountedStays, QueuedStays DEF InPort
  <1>5. Late' = Late /\ InHand' = InHand
    BY <1>1, <1>4 DEF Late, InHand
  <1>6. AccountSum /\ AccountSum'
    BY <1>0, <1>2, CountTypes, CountTypesNext
  <1>7. AccountedFor' = AccountedFor + 1
    BY <1>0, <1>1, <1>4, <1>5, <1>6 DEF AccountSum, StreamTypes
  <1>8. CountInv'
    BY <1>0, <1>1, <1>5, <1>6, <1>7 DEF CountInv, AccountSum, StreamTypes
  <1> QED BY <1>2, <1>3, <1>8 DEF StreamInv

\* The runner moves an item or the count of a call along, or ends the call.  Only ClosePort
\* loses anything: what threads left in the queue and the count since the runner last looked.
LEMMA CallStepKeeps ==
  ASSUME StreamInv,
         TakeProgress \/ PortReturns \/ SwapDropped \/ DrainDone \/ ClosePort \/ EndLoop
  PROVE  StreamInv'
  <1>0. StreamTypes /\ PortInv /\ CountInv
    BY DEF StreamInv
  <1>1. UNCHANGED <<port, closed, queue, listening, missed, produced, aside, received, gaps>>
    BY DEF TakeProgress, PortReturns, SwapDropped, DrainDone, ClosePort, EndLoop, seenVars
  <1>2. Queued' = Queued
    BY <1>1, QueuedStays
  <1>3. CASE TakeProgress
    <2>1. /\ \/ pc = "Run" /\ pc' = "RunSwap"
             \/ pc = "Drain" /\ pc' = "DrainSwap"
          /\ inner > 0 /\ inner' = inner - 1 /\ UNCHANGED <<dropped, counter>>
      BY <1>3 DEF TakeProgress
    <2>2. StreamTypes' /\ PortInv'
      BY <1>0, <1>1, <2>1 DEF StreamTypes, PortInv, PCs, PortPCs
    <2>3. Uncounted' = Uncounted
      BY <1>1, <2>1, UncountedStays DEF InPort, PortPCs
    <2>4. AccountSum /\ AccountSum'
      BY <1>0, <2>2, CountTypes, CountTypesNext
    <2>5. InHand = 0 /\ InHand' = 1 /\ Late' = Late
      BY <2>1, <2>3 DEF InHand, Late
    <2>6. AccountedFor' = AccountedFor
      BY <1>0, <1>1, <1>2, <2>1, <2>3, <2>4, <2>5 DEF AccountSum, StreamTypes
    <2> QED BY <1>0, <1>1, <2>2, <2>5, <2>6 DEF CountInv, StreamInv
  <1>4. CASE PortReturns
    <2>1. pc = "Run" /\ pc' = "FinalSwap" /\ UNCHANGED <<dropped, inner, counter>>
      BY <1>4 DEF PortReturns
    <2>2. StreamTypes' /\ PortInv'
      BY <1>0, <1>1, <2>1 DEF StreamTypes, PortInv, PCs, PortPCs
    <2>3. Uncounted' = Uncounted
      BY <1>1, <2>1, UncountedStays DEF InPort, PortPCs
    <2>4. AccountSum /\ AccountSum'
      BY <1>0, <2>2, CountTypes, CountTypesNext
    <2>5. InHand' = InHand /\ Late' = Late
      BY <2>1, <2>3 DEF InHand, Late
    <2>6. AccountedFor' = AccountedFor
      BY <1>0, <1>1, <1>2, <2>1, <2>3, <2>4, <2>5 DEF AccountSum, StreamTypes
    <2> QED BY <1>0, <1>1, <2>2, <2>5, <2>6 DEF CountInv, StreamInv
  <1>5. CASE SwapDropped
    <2>1. /\ \/ pc = "RunSwap" /\ pc' = "RunEmit"
             \/ pc = "FinalSwap" /\ pc' = "Drain"
             \/ pc = "DrainSwap" /\ pc' = "DrainEmit"
          /\ dropped' = dropped + counter /\ counter' = 0 /\ inner' = inner
      BY <1>5 DEF SwapDropped, record_dropped
    <2>2. StreamTypes' /\ PortInv'
      BY <1>0, <1>1, <2>1 DEF StreamTypes, PortInv, PCs, PortPCs
    <2>3. Uncounted' = Uncounted
      BY <1>1, <2>1, UncountedStays DEF InPort, PortPCs
    <2>4. AccountSum /\ AccountSum'
      BY <1>0, <2>2, CountTypes, CountTypesNext
    <2>5. InHand' = InHand /\ Late' = Uncounted /\ Uncounted <= Late
      BY <1>0, <2>1, <2>3, <2>4 DEF InHand, Late, AccountSum, StreamTypes
    <2>6. AccountedFor' = AccountedFor
      BY <1>0, <1>1, <1>2, <2>1, <2>3, <2>4, <2>5 DEF AccountSum, StreamTypes
    <2>7. CountInv'
      BY <1>0, <1>1, <2>4, <2>5, <2>6 DEF CountInv, AccountSum, StreamTypes
    <2> QED BY <2>2, <2>7 DEF StreamInv
  <1>6. CASE DrainDone
    <2>1. pc = "Drain" /\ pc' = "Close" /\ inner = 0 /\ UNCHANGED <<dropped, inner, counter>>
      BY <1>6 DEF DrainDone
    <2>2. StreamTypes' /\ PortInv'
      BY <1>0, <1>1, <2>1 DEF StreamTypes, PortInv, PCs, PortPCs
    <2>3. Uncounted' = Uncounted
      BY <1>1, <2>1, UncountedStays DEF InPort, PortPCs
    <2>4. AccountSum /\ AccountSum'
      BY <1>0, <2>2, CountTypes, CountTypesNext
    <2>5. InHand' = InHand /\ Late' = Late
      BY <1>0, <2>1, <2>3 DEF InHand, Late, StreamTypes
    <2>6. AccountedFor' = AccountedFor
      BY <1>0, <1>1, <1>2, <2>1, <2>3, <2>4, <2>5 DEF AccountSum, StreamTypes
    <2> QED BY <1>0, <1>1, <2>2, <2>5, <2>6 DEF CountInv, StreamInv
  <1>7. CASE ClosePort
    <2>1. pc = "Close" /\ pc' = "Between" /\ inner' = 0 /\ counter' = 0 /\ dropped' = dropped
      BY <1>7 DEF ClosePort
    <2>2. StreamTypes' /\ PortInv'
      BY <1>0, <1>1, <2>1 DEF StreamTypes, PortInv, PCs, PortPCs
    <2>3. Uncounted' = 0
      <3>1. {t \in Detached : pc' \in PortPCs /\ port' \in missed'[t]} = {}
        BY <2>1 DEF PortPCs
      <3> QED BY <3>1, FS_EmptySet DEF Uncounted, InPort
    <2>4. AccountSum /\ AccountSum'
      BY <1>0, <2>2, CountTypes, CountTypesNext
    <2>5. InHand = 0 /\ InHand' = 0 /\ Late' = 0 /\ Late = Uncounted + counter + inner
      BY <2>1, <2>3 DEF InHand, Late
    <2>6. AccountedFor' = received + gaps + dropped + Queued
      BY <1>0, <1>1, <1>2, <2>1, <2>3, <2>4, <2>5 DEF AccountSum, StreamTypes
    <2>7. AccountedFor = received + gaps + dropped + Queued + Late
      BY <1>0, <2>4, <2>5 DEF AccountSum, StreamTypes
    <2>8. CountInv'
      BY <1>0, <1>1, <2>4, <2>5, <2>6, <2>7 DEF CountInv, AccountSum, StreamTypes
    <2> QED BY <2>2, <2>8 DEF StreamInv
  <1>8. CASE EndLoop
    <2>1. pc = "Between" /\ pc' = "Over" /\ UNCHANGED <<dropped, inner, counter>>
      BY <1>8 DEF EndLoop
    <2>2. StreamTypes' /\ PortInv'
      BY <1>0, <1>1, <2>1 DEF StreamTypes, PortInv, PCs, PortPCs
    <2>3. Uncounted' = Uncounted
      BY <1>1, <2>1, UncountedStays DEF InPort, PortPCs
    <2>4. AccountSum /\ AccountSum'
      BY <1>0, <2>2, CountTypes, CountTypesNext
    <2>5. InHand' = InHand /\ Late' = Late
      BY <2>1, <2>3 DEF InHand, Late
    <2>6. AccountedFor' = AccountedFor
      BY <1>0, <1>1, <1>2, <2>1, <2>3, <2>4, <2>5 DEF AccountSum, StreamTypes
    <2> QED BY <1>0, <1>1, <2>2, <2>5, <2>6 DEF CountInv, StreamInv
  <1> QED BY <1>3, <1>4, <1>5, <1>6, <1>7, <1>8

\* A thread's item is queued, or refused and remembered until the thread counts it.
LEMMA SendKeeps == ASSUME StreamInv, NEW t \in Detached, DetachedSend(t) PROVE StreamInv'
  <1>0. StreamTypes /\ PortInv /\ CountInv
    BY DEF StreamInv
  <1>1. /\ InPort /\ missed[t] = {} /\ produced' = produced + 1 /\ aside' = aside + 1
        /\ UNCHANGED <<pc, port, dropped, closed, queue, listening, counter, received, gaps>>
    BY DEF DetachedSend, seenVars
  <1>2. Queued' = Queued /\ InHand' = InHand
    BY <1>1, QueuedStays DEF InHand
  <1>3. pc \notin {"Between", "Over"}
    BY <1>1 DEF InPort, PortPCs
  <1>4. CASE inner' = inner + 1 /\ missed' = missed
    <2>1. StreamTypes' /\ PortInv'
      BY <1>0, <1>1, <1>3, <1>4 DEF StreamTypes, PortInv
    <2>2. Uncounted' = Uncounted
      BY <1>1, <1>4, UncountedStays DEF InPort
    <2>3. AccountSum /\ AccountSum'
      BY <1>0, <2>1, CountTypes, CountTypesNext
    <2>4. AccountedFor' = AccountedFor + 1
      BY <1>0, <1>1, <1>2, <1>4, <2>2, <2>3 DEF AccountSum, StreamTypes
    <2>5. Late' = Late \/ Late' = Late + 1
      BY <1>0, <1>1, <1>4, <2>2, <2>3 DEF Late, AccountSum, StreamTypes
    <2>6. CountInv'
      BY <1>0, <1>1, <2>3, <2>4, <2>5 DEF CountInv, AccountSum, StreamTypes
    <2> QED BY <2>1, <2>6 DEF StreamInv
  <1>5. CASE missed' = [missed EXCEPT ![t] = {port}] /\ inner' = inner
    <2>1. StreamTypes'
      BY <1>0, <1>1, <1>5 DEF StreamTypes
    <2>2. PortInv'
      <3> SUFFICES ASSUME NEW u \in Detached, NEW p \in missed'[u] PROVE p <= port
        BY <1>0, <1>1, <1>3 DEF PortInv
      <3>1. CASE u = t
        <4>1. p = port /\ port \in Nat
          BY <1>0, <1>5, <3>1 DEF StreamTypes
        <4> QED BY <4>1
      <3>2. CASE u # t
        BY <1>0, <1>5, <3>2 DEF StreamTypes, PortInv
      <3> QED BY <3>1, <3>2
    <2>3. Uncounted' = Uncounted + 1
      <3> DEFINE S == {u \in Detached : InPort /\ port \in missed[u]}
                 R == {u \in Detached : InPort' /\ port' \in missed'[u]}
      <3>1. R = S \cup {t} /\ t \notin S
        BY <1>0, <1>1, <1>5 DEF InPort, StreamTypes
      <3>2. IsFiniteSet(S)
        <4>1. S \in SUBSET Detached
          OBVIOUS
        <4> QED BY <4>1, FS_Subset, StreamAssumption
      <3>3. Uncounted = Cardinality(S) /\ Uncounted' = Cardinality(R)
        BY DEF Uncounted
      <3> HIDE DEF S, R
      <3> QED BY <3>1, <3>2, <3>3, FS_AddElement
    <2>4. AccountSum /\ AccountSum'
      BY <1>0, <2>1, CountTypes, CountTypesNext
    <2>5. AccountedFor' = AccountedFor + 1
      BY <1>0, <1>1, <1>2, <1>5, <2>3, <2>4 DEF AccountSum, StreamTypes
    <2>6. Late' = Late + 1
      BY <1>0, <1>1, <1>5, <2>3, <2>4 DEF Late, AccountSum, StreamTypes
    <2>7. CountInv'
      BY <1>0, <1>1, <2>4, <2>5, <2>6 DEF CountInv, AccountSum, StreamTypes
    <2> QED BY <2>1, <2>2, <2>7 DEF StreamInv
  <1> QED BY <1>4, <1>5 DEF DetachedSend

\* A thread counts the item it was refused: with the call that refused it, or, when that is over,
\* with nobody.
LEMMA CountKeeps == ASSUME StreamInv, NEW t \in Detached, DetachedCount(t) PROVE StreamInv'
  <1>0. StreamTypes /\ PortInv /\ CountInv
    BY DEF StreamInv
  <1>1. /\ missed' = [missed EXCEPT ![t] = {}]
        /\ counter' = IF InPort /\ port \in missed[t] THEN counter + 1 ELSE counter
        /\ UNCHANGED <<pc, port, dropped, closed, queue, listening, inner, produced, aside, received, gaps>>
    BY DEF DetachedCount, seenVars
  <1>2. Queued' = Queued /\ InHand' = InHand
    BY <1>1, QueuedStays DEF InHand
  <1>3. StreamTypes'
    BY <1>0, <1>1 DEF StreamTypes
  <1>4. PortInv'
    BY <1>0, <1>1 DEF StreamTypes, PortInv, InPort, PortPCs
  <1>5. AccountSum /\ AccountSum'
    BY <1>0, <1>3, CountTypes, CountTypesNext
  <1> DEFINE S == {u \in Detached : InPort /\ port \in missed[u]}
             R == {u \in Detached : InPort' /\ port' \in missed'[u]}
  <1>6. R = S \ {t}
    BY <1>0, <1>1 DEF InPort, StreamTypes
  <1>7. t \in S <=> InPort /\ port \in missed[t]
    OBVIOUS
  <1>8. IsFiniteSet(S)
    <2>1. S \in SUBSET Detached
      OBVIOUS
    <2> QED BY <2>1, FS_Subset, StreamAssumption
  <1>9. Uncounted = Cardinality(S) /\ Uncounted' = Cardinality(R)
    BY DEF Uncounted
  <1> HIDE DEF S, R
  <1>10. CASE t \in S
    <2>1. Uncounted' = Uncounted - 1
      BY <1>6, <1>8, <1>9, <1>10, FS_RemoveElement
    <2>2. counter' = counter + 1
      BY <1>1, <1>7, <1>10
    <2>3. AccountedFor' = AccountedFor
      BY <1>0, <1>1, <1>2, <1>5, <2>1, <2>2 DEF AccountSum, StreamTypes
    <2>4. Late' = Late \/ Late' = Late - 1
      BY <1>0, <1>1, <1>5, <2>1, <2>2 DEF Late, AccountSum, StreamTypes
    <2>5. PICK l \in Nat : Late' = l /\ l <= Late
      BY <1>5, <2>4 DEF AccountSum
    <2>6. AccountedFor \in Nat /\ Late \in Nat /\ produced \in Nat /\ aside \in Nat
      BY <1>0, <1>5 DEF AccountSum, StreamTypes
    <2>7. listening => AccountedFor <= produced /\ produced + l <= AccountedFor + aside
      BY <1>0, <2>5, <2>6 DEF CountInv
    <2>8. CountInv'
      BY <1>1, <2>3, <2>5, <2>7 DEF CountInv
    <2> QED BY <1>3, <1>4, <2>8 DEF StreamInv
  <1>11. CASE t \notin S
    <2>1. Uncounted' = Uncounted
      <3>1. R = S
        BY <1>6, <1>11
      <3> QED BY <1>9, <3>1
    <2>2. counter' = counter
      BY <1>1, <1>7, <1>11
    <2>3. AccountedFor' = AccountedFor
      BY <1>0, <1>1, <1>2, <1>5, <2>1, <2>2 DEF AccountSum, StreamTypes
    <2>4. Late' = Late
      BY <1>1, <2>1, <2>2 DEF Late
    <2>5. CountInv'
      BY <1>0, <1>1, <2>3, <2>4 DEF CountInv
    <2> QED BY <1>3, <1>4, <2>5 DEF StreamInv
  <1> QED BY <1>10, <1>11

\* The host takes an envelope, and with it the losses it counts; or drops the stream.
LEMMA HostKeeps == ASSUME StreamInv, Receive \/ DropStream PROVE StreamInv'
  <1>0. StreamTypes /\ PortInv /\ CountInv
    BY DEF StreamInv
  <1>1. UNCHANGED <<pc, port, dropped, closed, inner, counter, missed, produced, aside>>
    BY DEF Receive, DropStream
  <1>2. Uncounted' = Uncounted
    BY <1>1, UncountedStays DEF InPort
  <1>3. Late' = Late /\ InHand' = InHand
    BY <1>1, <1>2 DEF Late, InHand
  <1>4. CASE Receive
    <2>1. /\ queue # <<>> /\ received' = received + 1 /\ gaps' = gaps + Head(queue)
          /\ queue' = Tail(queue) /\ listening' = listening
      BY <1>4 DEF Receive
    <2>2. queue \in Seq(Nat) /\ IsFiniteSet(LossesIn(queue))
      BY <1>0 DEF StreamTypes
    <2>3. /\ Head(queue) \in Nat /\ Tail(queue) \in Seq(Nat) /\ Len(queue) \in Nat
          /\ Len(Tail(queue)) = Len(queue) - 1
      BY <2>1, <2>2
    <2>4. /\ IsFiniteSet(LossesIn(Tail(queue)))
          /\ Cardinality(LossesIn(queue)) = Head(queue) + Cardinality(LossesIn(Tail(queue)))
      BY <2>1, <2>2, LossesTail
    <2>5. StreamTypes'
      BY <1>0, <1>1, <2>1, <2>3, <2>4 DEF StreamTypes
    <2>6. PortInv'
      BY <1>0, <1>1, <2>1 DEF PortInv
    <2>7. AccountSum /\ AccountSum'
      BY <1>0, <2>5, CountTypes, CountTypesNext
    <2>8. Queued' = Queued - 1 - Head(queue)
      <3> DEFINE c == Cardinality(LossesIn(queue))
                 d == Cardinality(LossesIn(Tail(queue)))
      <3>1. Queued = Len(queue) + c /\ Queued' = Len(Tail(queue)) + d
        BY <2>1 DEF Queued
      <3>2. c = Head(queue) + d /\ c \in Nat /\ d \in Nat
        BY <2>2, <2>4, FS_CardinalityType
      <3> HIDE DEF c, d
      <3>3. PICK h \in Nat, n \in Nat : Head(queue) = h /\ Len(queue) = n /\ Len(Tail(queue)) = n - 1
        BY <2>3
      <3>4. Queued = n + c /\ Queued' = (n - 1) + d /\ c = h + d
        BY <3>1, <3>2, <3>3
      <3>5. Queued' = Queued - 1 - h
        BY <3>2, <3>4
      <3> QED BY <3>3, <3>5
    <2>9. AccountedFor' = AccountedFor
      <3>1. PICK h \in Nat : Head(queue) = h
        BY <2>3
      <3>2. gaps' = gaps + h /\ Queued' = Queued - 1 - h
        BY <2>1, <2>8, <3>1
      <3>3. AccountedFor' = (received + 1) + (gaps + h) + dropped + counter + inner + InHand
                              + Uncounted + (Queued - 1 - h)
        BY <1>1, <1>2, <1>3, <2>1, <2>7, <3>2 DEF AccountSum
      <3> QED BY <1>0, <2>7, <3>3 DEF AccountSum, StreamTypes
    <2>10. CountInv'
      BY <1>0, <1>1, <1>3, <2>1, <2>9 DEF CountInv
    <2> QED BY <2>5, <2>6, <2>10 DEF StreamInv
  <1>5. CASE DropStream
    <2>1. listening' = FALSE /\ queue' = <<>> /\ UNCHANGED <<received, gaps>>
      BY <1>5 DEF DropStream, seenVars
    <2>2. queue' \in Seq(Nat) /\ IsFiniteSet(LossesIn(queue'))
      BY <2>1, LossesEmpty
    <2>3. StreamTypes'
      BY <1>0, <1>1, <2>1, <2>2 DEF StreamTypes
    <2>4. PortInv' /\ CountInv'
      BY <1>0, <1>1, <2>1 DEF PortInv, CountInv
    <2> QED BY <2>3, <2>4 DEF StreamInv
  <1> QED BY <1>4, <1>5

\* Every step of the stream keeps the invariant.
LEMMA StreamStepKeeps == StreamInv /\ [StreamNext]_streamVars => StreamInv'
  <1> SUFFICES ASSUME StreamInv, [StreamNext]_streamVars PROVE StreamInv'
    OBVIOUS
  <1>1. ASSUME UNCHANGED streamVars PROVE StreamInv'
    <2>0. StreamTypes /\ PortInv /\ CountInv
      BY DEF StreamInv
    <2>1. UNCHANGED <<pc, port, dropped, closed, queue, listening, inner, counter, missed,
                      produced, aside, received, gaps>>
      BY <1>1 DEF streamVars, seenVars
    <2>2. StreamTypes'
      BY <2>0, <2>1 DEF StreamTypes
    <2>3. PortInv'
      BY <2>0, <2>1 DEF PortInv
    <2>4. Uncounted' = Uncounted /\ Queued' = Queued
      BY <2>1, UncountedStays, QueuedStays DEF InPort
    <2>5. Late' = Late /\ InHand' = InHand
      BY <2>1, <2>4 DEF Late, InHand
    <2>6. AccountSum /\ AccountSum'
      BY <2>0, <2>2, CountTypes, CountTypesNext
    <2>7. AccountedFor' = AccountedFor
      BY <2>0, <2>1, <2>4, <2>5, <2>6 DEF AccountSum, StreamTypes
    <2>8. CountInv'
      BY <2>0, <2>1, <2>5, <2>7 DEF CountInv
    <2> QED BY <2>2, <2>3, <2>8 DEF StreamInv
  <1>2. CASE RunnerStep
    BY <1>2, ForwardKeeps, CallStepKeeps DEF RunnerStep
  <1>3. CASE Publish \/ BeginPort \/ PortEmits
    BY <1>3, PublishKeeps, BeginKeeps, PortEmitsKeeps
  <1>4. ASSUME NEW t \in Detached, DetachedSend(t) \/ DetachedCount(t) PROVE StreamInv'
    BY <1>4, SendKeeps, CountKeeps
  <1>5. CASE Receive \/ DropStream
    BY <1>5, HostKeeps
  <1>6. CASE StreamOver
    BY <1>1, <1>6 DEF StreamOver
  <1> QED BY <1>1, <1>2, <1>3, <1>4, <1>5, <1>6 DEF StreamNext

\* Whatever the capacities, the calls, the threads and the host do: as long as the host listens,
\* every event and progress item is received, queued, in hand or counted, none of them twice, and
\* no more is missing than threads offered beside their call (try_emit, record_dropped and the
\* progress queues of run_model and run_tool_port).
THEOREM LossesAreCounted == StreamSpec => []LossesCounted
  <1>1. StreamInv => LossesCounted
    <2> SUFFICES ASSUME StreamInv, listening
                 PROVE  AccountedFor <= produced /\ produced <= AccountedFor + aside
      BY DEF LossesCounted
    <2>1. StreamTypes /\ AccountSum
      BY CountTypes DEF StreamInv
    <2>2. AccountedFor <= produced /\ produced + Late <= AccountedFor + aside
      BY DEF StreamInv, CountInv
    <2> QED BY <2>1, <2>2 DEF StreamTypes, AccountSum
  <1> QED BY <1>1, StreamInitInv, StreamStepKeeps, PTL DEF StreamSpec

-----------------------------------------------------------------------------
(* Usage totals. *)

\* The tokens of a history are finitely many.
LEMMA TokensFinite ==
  ASSUME NEW h, NEW n \in Nat, DOMAIN h = 1 .. n, NEW f
  PROVE  IsFiniteSet(Tokens(h, f)) /\ Cardinality(Tokens(h, f)) \in Nat
  <1>1. MaxCount \in Nat
    BY SessionAssumption
  <1>2. IsFiniteSet(1 .. n) /\ IsFiniteSet(1 .. MaxCount)
    BY <1>1, FS_Interval
  <1>3. IsFiniteSet((1 .. n) \X (1 .. MaxCount))
    BY <1>2, FS_Product
  <1>4. Tokens(h, f) \in SUBSET ((1 .. n) \X (1 .. MaxCount))
    BY DEF Tokens
  <1> QED BY <1>3, <1>4, FS_Subset, FS_CardinalityType

\* A history that grows by other items than responses reports the same.
LEMMA SumSame ==
  ASSUME NEW h, NEW g, NEW f, DOMAIN h \subseteq DOMAIN g, \A i \in DOMAIN h : g[i] = h[i],
         \A i \in DOMAIN g : i \notin DOMAIN h => g[i].item # "Assistant"
  PROVE  SumOf(g, f) = SumOf(h, f)
  <1>1. Tokens(g, f) = Tokens(h, f)
    <2>1. ASSUME NEW p \in Tokens(g, f) PROVE p \in Tokens(h, f)
      <3>1. p \in (DOMAIN g) \X (1 .. MaxCount) /\ p[1] \in DOMAIN g /\ g[p[1]].item = "Assistant"
        BY DEF Tokens
      <3>2. p[1] \in DOMAIN h /\ g[p[1]] = h[p[1]]
        BY <3>1
      <3>3. p \in (DOMAIN h) \X (1 .. MaxCount)
        BY <3>1, <3>2
      <3> QED BY <3>2, <3>3 DEF Tokens
    <2>2. ASSUME NEW p \in Tokens(h, f) PROVE p \in Tokens(g, f)
      <3>1. p \in (DOMAIN h) \X (1 .. MaxCount) /\ p[1] \in DOMAIN h
        BY DEF Tokens
      <3>2. p \in (DOMAIN g) \X (1 .. MaxCount) /\ g[p[1]] = h[p[1]]
        BY <3>1
      <3> QED BY <3>2 DEF Tokens
    <2> QED BY <2>1, <2>2
  <1>2. Reports(g, f) <=> Reports(h, f)
    BY DEF Reports
  <1> QED BY <1>1, <1>2 DEF SumOf

\* A response adds what it reports.
LEMMA SumMore ==
  ASSUME NEW S, NEW h \in Seq(S), NEW x, x.item = "Assistant", NEW f,
         x.usage[f] \in {{}} \cup {{n} : n \in 0 .. MaxCount}
  PROVE  /\ x.usage[f] = {} => SumOf(Append(h, x), f) = SumOf(h, f)
         /\ \A n \in x.usage[f] :
              /\ Cardinality(Tokens(Append(h, x), f)) = Cardinality(Tokens(h, f)) + n
              /\ SumOf(Append(h, x), f) = {Cardinality(Tokens(h, f)) + n}
  <1> DEFINE k == Len(h)
             g == Append(h, x)
  <1>1. /\ k \in Nat /\ DOMAIN h = 1 .. k /\ DOMAIN g = 1 .. k + 1 /\ g[k + 1] = x
        /\ \A i \in 1 .. k : g[i] = h[i]
    OBVIOUS
  <1> HIDE DEF k, g
  <1>2. DOMAIN g = DOMAIN h \cup {k + 1} /\ k + 1 \notin DOMAIN h
    BY <1>1
  <1>3. MaxCount \in Nat
    BY SessionAssumption
  <1>4. CASE x.usage[f] = {}
    <2>1. Tokens(g, f) = Tokens(h, f)
      <3>1. ASSUME NEW p \in Tokens(g, f) PROVE p \in Tokens(h, f)
        <4>1. /\ p \in (DOMAIN g) \X (1 .. MaxCount) /\ p[1] \in DOMAIN g /\ g[p[1]].item = "Assistant"
              /\ \E m \in g[p[1]].usage[f] : p[2] <= m
          BY DEF Tokens
        <4>2. p[1] # k + 1
          BY <1>1, <1>4, <4>1
        <4>3. p[1] \in DOMAIN h /\ g[p[1]] = h[p[1]]
          BY <1>1, <1>2, <4>1, <4>2
        <4>4. p \in (DOMAIN h) \X (1 .. MaxCount)
          BY <4>1, <4>3
        <4> QED BY <4>1, <4>3, <4>4 DEF Tokens
      <3>2. ASSUME NEW p \in Tokens(h, f) PROVE p \in Tokens(g, f)
        <4>1. p \in (DOMAIN h) \X (1 .. MaxCount) /\ p[1] \in DOMAIN h
          BY DEF Tokens
        <4>2. p \in (DOMAIN g) \X (1 .. MaxCount) /\ g[p[1]] = h[p[1]]
          BY <1>1, <1>2, <4>1
        <4> QED BY <4>2 DEF Tokens
      <3> QED BY <3>1, <3>2
    <2>2. Reports(g, f) <=> Reports(h, f)
      BY <1>1, <1>2, <1>4 DEF Reports
    <2>3. SumOf(g, f) = SumOf(h, f)
      BY <2>1, <2>2 DEF SumOf
    <2> QED BY <1>4, <2>3 DEF g
  <1>5. ASSUME NEW n \in 0 .. MaxCount, x.usage[f] = {n}
        PROVE  /\ Cardinality(Tokens(g, f)) = Cardinality(Tokens(h, f)) + n
               /\ SumOf(g, f) = {Cardinality(Tokens(h, f)) + n}
    <2> DEFINE new == {k + 1} \X (1 .. n)
    <2>1. Tokens(g, f) = Tokens(h, f) \cup new
      <3>1. ASSUME NEW p \in Tokens(g, f) PROVE p \in Tokens(h, f) \cup new
        <4>1. /\ p \in (DOMAIN g) \X (1 .. MaxCount) /\ p[1] \in DOMAIN g /\ g[p[1]].item = "Assistant"
              /\ \E m \in g[p[1]].usage[f] : p[2] <= m
          BY DEF Tokens
        <4>2. CASE p[1] = k + 1
          <5>1. p[2] <= n /\ p[2] \in 1 .. MaxCount /\ p = <<p[1], p[2]>>
            BY <1>1, <1>5, <4>1, <4>2
          <5> QED BY <1>3, <1>5, <4>2, <5>1
        <4>3. CASE p[1] # k + 1
          <5>1. p[1] \in DOMAIN h /\ g[p[1]] = h[p[1]]
            BY <1>1, <1>2, <4>1, <4>3
          <5>2. p \in (DOMAIN h) \X (1 .. MaxCount)
            BY <4>1, <5>1
          <5> QED BY <4>1, <5>1, <5>2 DEF Tokens
        <4> QED BY <4>2, <4>3
      <3>2. ASSUME NEW p \in Tokens(h, f) PROVE p \in Tokens(g, f)
        <4>1. p \in (DOMAIN h) \X (1 .. MaxCount) /\ p[1] \in DOMAIN h
          BY DEF Tokens
        <4>2. p \in (DOMAIN g) \X (1 .. MaxCount) /\ g[p[1]] = h[p[1]]
          BY <1>1, <1>2, <4>1
        <4> QED BY <4>2 DEF Tokens
      <3>3. ASSUME NEW p \in new PROVE p \in Tokens(g, f)
        <4>1. p[1] = k + 1 /\ p[2] \in 1 .. n /\ p = <<p[1], p[2]>>
          OBVIOUS
        <4>2. p[2] \in 1 .. MaxCount /\ p[2] <= n
          BY <1>3, <4>1
        <4>3. p \in (DOMAIN g) \X (1 .. MaxCount)
          BY <1>2, <4>1, <4>2
        <4> QED BY <1>1, <1>5, <4>1, <4>2, <4>3 DEF Tokens
      <3> QED BY <3>1, <3>2, <3>3
    <2>2. Tokens(h, f) \cap new = {}
      <3> SUFFICES ASSUME NEW p \in Tokens(h, f), p \in new PROVE FALSE
        OBVIOUS
      <3>1. p[1] \in DOMAIN h
        BY DEF Tokens
      <3> QED BY <1>2, <3>1
    <2>3. IsFiniteSet(new) /\ Cardinality(new) = n
      <3>1. n \in Nat
        BY <1>3
      <3> QED BY <3>1, PairsOfOne
    <2>4. IsFiniteSet(Tokens(h, f))
      BY <1>1, TokensFinite
    <2> HIDE DEF new
    <2>5. Cardinality(Tokens(g, f)) = Cardinality(Tokens(h, f)) + n
      BY <2>1, <2>2, <2>3, <2>4, DisjointUnion
    <2>6. Reports(g, f)
      <3>1. k + 1 \in DOMAIN g /\ g[k + 1].item = "Assistant" /\ g[k + 1].usage[f] # {}
        BY <1>1, <1>2, <1>5
      <3> QED BY <3>1 DEF Reports
    <2> QED BY <2>5, <2>6 DEF SumOf
  <1>6. CASE x.usage[f] # {}
    <2>1. x.usage[f] \in {{n} : n \in 0 .. MaxCount}
      BY <1>6
    <2>2. PICK n \in 0 .. MaxCount : x.usage[f] = {n}
      BY <2>1
    <2>3. /\ Cardinality(Tokens(g, f)) = Cardinality(Tokens(h, f)) + n
          /\ SumOf(g, f) = {Cardinality(Tokens(h, f)) + n}
      BY <1>5, <2>2
    <2> QED BY <2>2, <2>3 DEF g
  <1> QED BY <1>4, <1>6

\* Nothing reports nothing.
LEMMA SumEmpty == ASSUME NEW f PROVE SumOf(<<>>, f) = {}
  BY DEF SumOf, Reports

\* sum_field adds one response to the sum of those before.
LEMMA SumAdds ==
  ASSUME NEW S, NEW h \in Seq(S), NEW x, x.item = "Assistant", NEW f,
         x.usage[f] \in {{}} \cup {{n} : n \in 0 .. MaxCount}
  PROVE  SumOf(Append(h, x), f) = sum_field(SumOf(h, f), x.usage[f])
  <1> DEFINE r == x.usage[f]
             c == Cardinality(Tokens(h, f))
  <1>1. CASE r = {}
    <2>1. SumOf(Append(h, x), f) = SumOf(h, f)
      BY <1>1, SumMore
    <2> QED BY <1>1, <2>1 DEF sum_field
  <1>2. CASE r # {}
    <2>1. r \in {{n} : n \in 0 .. MaxCount}
      BY <1>2
    <2>2. PICK n \in 0 .. MaxCount : r = {n}
      BY <2>1
    <2>3. SumOf(Append(h, x), f) = {c + n}
      BY <2>2, SumMore
    <2>4. CASE Reports(h, f)
      <3>1. SumOf(h, f) = {c}
        BY <2>4 DEF SumOf
      <3> HIDE DEF c, r
      <3>2. sum_field({c}, {n}) = {c + n}
        BY DEF sum_field, Add
      <3> QED BY <2>2, <2>3, <3>1, <3>2 DEF r
    <2>5. CASE ~Reports(h, f)
      <3>1. SumOf(h, f) = {}
        BY <2>5 DEF SumOf
      <3>2. Tokens(h, f) = {}
        <4> SUFFICES ASSUME NEW p \in Tokens(h, f) PROVE FALSE
          OBVIOUS
        <4>1. p[1] \in DOMAIN h /\ h[p[1]].item = "Assistant" /\ h[p[1]].usage[f] # {}
          BY DEF Tokens
        <4> QED BY <2>5, <4>1 DEF Reports
      <3>3. c = 0
        BY <3>2, FS_EmptySet
      <3> HIDE DEF c, r
      <3>4. c + n = n
        BY <3>3
      <3>5. sum_field({}, {n}) = {n}
        BY DEF sum_field
      <3> QED BY <2>2, <2>3, <3>1, <3>4, <3>5 DEF r
    <2> QED BY <2>4, <2>5
  <1> QED BY <1>1, <1>2

\* What a loop can append.
BatchIds == UNION {{CallsOf(r.parts)[i].id : i \in DOMAIN CallsOf(r.parts)} : r \in Responses}
Items ==
  {UserHistory(t) : t \in InputTexts} \cup {Answered(r, u) : r \in Responses, u \in Usages}
    \cup {ToolResultHistory(c) : c \in BatchIds}

Counts == {Counted(u) : u \in Usages}

\* The delta, the calls to settle and the counts received are sequences; there is a call
\* to settle in a batch; between loops nothing is left of the last one.
UsageInv ==
  /\ appended \in Seq(Items) /\ batch \in Seq(BatchIds)
  /\ reported \in Seq(Counts)
  /\ phase = "Batch" => batch # <<>>
  /\ phase = "Host" => appended = <<>> /\ reported = <<>>
  /\ TotalIsSum

\* While a loop runs its total, its delta and what it received agree.
LEMMA RunningTotal ==
  ASSUME UsageInv, phase # "Reported"
  PROVE  \A f \in Fields : total[f] = SumOf(reported, f) /\ total[f] = SumOf(appended, f)
  BY DEF UsageInv, TotalIsSum

\* It is enough that they agree after a step, unless a response is left out.
LEMMA TotalAgrees ==
  ASSUME phase' = "Reported" => outcome' \notin {"InvalidModelResponse", "Overflow"},
         \A f \in Fields : /\ total'[f] = SumOf(reported', f)
                           /\ SumOf(appended', f) = SumOf(reported', f)
  PROVE  TotalIsSum'
  <1>1. ~(phase' = "Reported" /\ outcome' = "Overflow")
        /\ ~(phase' = "Reported" /\ outcome' = "InvalidModelResponse")
    OBVIOUS
  <1> QED BY <1>1 DEF TotalIsSum

\* Without its last response a sequence is what it was.
LEMMA EarlierOfAppend ==
  ASSUME NEW S, NEW h \in Seq(S), NEW x \in S
  PROVE  Earlier(Append(h, x)) = h
  <1>1. Append(h, x) \in Seq(S) /\ Len(Append(h, x)) = Len(h) + 1 /\ Len(h) \in Nat
    BY AppendProperties
  <1>2. SubSeq(Append(h, x), 1, Len(h)) = h
    <2>1. \A i \in 1 .. Len(h) : Append(h, x)[i] = h[i]
      BY AppendProperties
    <2> DEFINE g == SubSeq(Append(h, x), 1, Len(h))
    <2>2. Len(g) = Len(h) /\ \A i \in 1 .. Len(h) : g[i] = h[i]
      BY <1>1, <2>1
    <2>3. g \in Seq(S)
      BY <1>1
    <2> HIDE DEF g
    <2>4. g = h
      BY <2>2, <2>3
    <2> QED BY <2>4 DEF g
  <1>3. Len(h) + 1 - 1 = Len(h)
    BY <1>1
  <1> QED BY <1>1, <1>2, <1>3 DEF Earlier

\* A response with calls leaves a batch of them.
LEMMA BatchOf ==
  ASSUME NEW r \in Responses
  PROVE  LET calls == CallsOf(r.parts)
             ids   == [i \in DOMAIN calls |-> calls[i].id]
         IN  ids \in Seq(BatchIds) /\ (calls # <<>> => ids # <<>>)
  <1> DEFINE calls == CallsOf(r.parts)
             ids == [i \in DOMAIN calls |-> calls[i].id]
             c == Cardinality(CallPositions(r.parts))
  <1>1. r.parts \in Seq(Parts)
    BY MessagesAssumption DEF Responses
  <1>2. IsFiniteSet(CallPositions(r.parts))
    <2>1. DOMAIN r.parts = 1 .. Len(r.parts) /\ Len(r.parts) \in Nat
      BY <1>1
    <2>2. IsFiniteSet(DOMAIN r.parts)
      BY <2>1, FS_Interval
    <2>3. CallPositions(r.parts) \in SUBSET DOMAIN r.parts
      BY DEF CallPositions
    <2> QED BY <2>2, <2>3, FS_Subset
  <1>3. c \in Nat
    BY <1>2, FS_CardinalityType
  <1>4. DOMAIN calls = 1 .. c /\ calls = [n \in 1 .. c |-> calls[n]]
    BY DEF CallsOf
  <1>5. \A i \in DOMAIN calls : calls[i].id \in BatchIds
    BY DEF BatchIds
  <1> HIDE DEF calls, c
  <1>6. ids \in Seq(BatchIds)
    BY <1>3, <1>4, <1>5
  <1>7. calls # <<>> => ids # <<>>
    BY <1>3, <1>4
  <1> QED BY <1>6, <1>7 DEF calls

\* What one more response does to a total that is right: nothing is half added.
LEMMA TotalAdds ==
  ASSUME NEW S, NEW h \in Seq(S), NEW x, x.item = "Assistant", NEW u \in Usages, x.usage = u,
         \A f \in Fields : total[f] = SumOf(h, f)
  PROVE  /\ \A f \in Fields : sum_usage(total, u)[f] = SumOf(Append(h, x), f)
         /\ Overflows(total, u) => \E f \in Fields : Cardinality(Tokens(Append(h, x), f)) > MaxCount
  <1>1. \A f \in Fields : x.usage[f] \in {{}} \cup {{n} : n \in 0 .. MaxCount}
    BY SessionAssumption
  <1>2. ASSUME NEW f \in Fields PROVE sum_usage(total, u)[f] = SumOf(Append(h, x), f)
    <2>1. SumOf(Append(h, x), f) = sum_field(SumOf(h, f), x.usage[f])
      BY <1>1, SumAdds
    <2> QED BY <2>1 DEF sum_usage
  <1>3. ASSUME Overflows(total, u)
        PROVE  \E f \in Fields : Cardinality(Tokens(Append(h, x), f)) > MaxCount
    <2>1. PICK f \in Fields : \E n \in Add(total[f], u[f]) : n > MaxCount
      BY <1>3 DEF Overflows
    <2>2. PICK l \in total[f], n \in u[f] : l + n > MaxCount
      BY <2>1 DEF Add
    <2>3. l = Cardinality(Tokens(h, f))
      BY <2>2 DEF SumOf
    <2>4. Cardinality(Tokens(Append(h, x), f)) = Cardinality(Tokens(h, f)) + n
      BY <1>1, <2>2, SumMore
    <2> QED BY <2>2, <2>3, <2>4
  <1> QED BY <1>2, <1>3

\* Nothing is counted at the start.
LEMMA UsageInit == SessionInit => UsageInv
  <1> SUFFICES ASSUME SessionInit PROVE UsageInv
    OBVIOUS
  <1>1. /\ appended = <<>> /\ batch = <<>> /\ reported = <<>> /\ phase = "Host"
        /\ total = [f \in Fields |-> {}]
    BY DEF SessionInit, Unreported
  <1>2. TotalIsSum
    BY <1>1, SumEmpty DEF TotalIsSum
  <1> QED BY <1>1, <1>2 DEF UsageInv

\* The delta grows by other items than responses, or not at all.
LEMMA OtherItems ==
  ASSUME UsageInv, phase \in {"Boundary", "Model", "Batch"}, UNCHANGED <<total, reported>>,
         NEW more \in Seq(Items), \A i \in DOMAIN more : more[i].item # "Assistant",
         appended' = appended \o more,
         phase' = "Reported" => outcome' \notin {"InvalidModelResponse", "Overflow"}
  PROVE  appended' \in Seq(Items) /\ TotalIsSum'
  <1>1. /\ appended \in Seq(Items)
        /\ \A f \in Fields : total[f] = SumOf(reported, f) /\ total[f] = SumOf(appended, f)
    BY RunningTotal DEF UsageInv
  <1>2. ASSUME NEW f \in Fields PROVE SumOf(appended \o more, f) = SumOf(appended, f)
    <2> DEFINE g == appended \o more
    <2>1. /\ DOMAIN appended = 1 .. Len(appended) /\ DOMAIN g = 1 .. Len(appended) + Len(more)
          /\ Len(appended) \in Nat /\ Len(more) \in Nat /\ DOMAIN more = 1 .. Len(more)
          /\ \A i \in 1 .. Len(appended) : g[i] = appended[i]
          /\ \A i \in DOMAIN g : i > Len(appended) => g[i] = more[i - Len(appended)]
      BY <1>1
    <2> HIDE DEF g
    <2>2. DOMAIN appended \subseteq DOMAIN g
      BY <2>1
    <2>3. ASSUME NEW i \in DOMAIN g, i \notin DOMAIN appended PROVE g[i].item # "Assistant"
      <3>1. i > Len(appended) /\ i - Len(appended) \in DOMAIN more
        BY <2>1, <2>3
      <3> QED BY <2>1, <3>1
    <2>4. SumOf(g, f) = SumOf(appended, f)
      BY <2>1, <2>2, <2>3, SumSame
    <2> QED BY <2>4 DEF g
  <1>3. TotalIsSum'
    BY <1>1, <1>2, TotalAgrees
  <1> QED BY <1>1, <1>3

\* The delta grows by one item that is no response.
LEMMA OneOtherItem ==
  ASSUME UsageInv, phase \in {"Boundary", "Model", "Batch"}, UNCHANGED <<total, reported>>,
         NEW x \in Items, x.item # "Assistant", appended' = Append(appended, x), phase' # "Reported"
  PROVE  appended' \in Seq(Items) /\ TotalIsSum'
  <1> DEFINE more == <<x>>
  <1>1. appended \in Seq(Items)
    BY DEF UsageInv
  <1>2. more \in Seq(Items) /\ appended' = appended \o more
    BY <1>1
  <1>3. \A i \in DOMAIN more : more[i].item # "Assistant"
    OBVIOUS
  <1> HIDE DEF more
  <1> QED BY <1>2, <1>3, OtherItems

\* Steps of a loop that count nothing.
LEMMA LoopKeepsTotal ==
  ASSUME UsageInv,
         \/ \E t \in InputTexts : Start(t) \/ TakesInput(t)
         \/ Request \/ Stops \/ CallSettles \/ BatchEnds \/ LoopPanics
  PROVE  UsageInv'
  <1>0. /\ appended \in Seq(Items) /\ batch \in Seq(BatchIds)
        /\ reported \in Seq(Counts)
        /\ phase = "Batch" => batch # <<>>
        /\ phase = "Host" => appended = <<>> /\ reported = <<>>
    BY DEF UsageInv
  <1>1. \A t \in InputTexts : UserHistory(t) \in Items /\ UserHistory(t).item # "Assistant"
    BY DEF Items, UserHistory
  <1>2. ASSUME NEW t \in InputTexts, Start(t) PROVE UsageInv'
    <2>1. /\ phase = "Host" /\ phase' = "Boundary" /\ appended' = <<UserHistory(t)>>
          /\ UNCHANGED <<batch, total, reported>>
      BY <1>2 DEF Start, usageVars
    <2>2. \A f \in Fields : total[f] = {} /\ SumOf(reported, f) = {}
      BY <1>0, <2>1, SumEmpty, RunningTotal
    <2>3. ASSUME NEW f \in Fields PROVE SumOf(<<UserHistory(t)>>, f) = {}
      BY <1>1 DEF SumOf, Reports
    <2>4. TotalIsSum'
      BY <2>1, <2>2, <2>3, TotalAgrees
    <2>5. appended' \in Seq(Items)
      BY <1>1, <2>1
    <2> QED BY <1>0, <2>1, <2>4, <2>5 DEF UsageInv
  <1>3. ASSUME NEW t \in InputTexts, TakesInput(t) PROVE UsageInv'
    <2>1. /\ phase = "Boundary" /\ phase' = phase /\ appended' = Append(appended, UserHistory(t))
          /\ UNCHANGED <<batch, total, reported>>
      BY <1>3 DEF TakesInput, usageVars
    <2>2. appended' \in Seq(Items) /\ TotalIsSum'
      BY <1>1, <2>1, OneOtherItem
    <2> QED BY <1>0, <2>1, <2>2 DEF UsageInv
  <1>4. CASE Request \/ Stops
    <2>1. /\ phase \in {"Boundary", "Model"} /\ UNCHANGED <<appended, total, reported>>
          /\ \/ phase' = "Model" /\ UNCHANGED batch
             \/ phase' = "Reported" /\ outcome' \in {"Prompt", "Stopped"} /\ batch' = <<>>
      BY <1>4 DEF Request, Stops, Report, usageVars
    <2>2. TotalIsSum'
      BY <2>1, RunningTotal, TotalAgrees
    <2>3. CASE phase' = "Model" /\ UNCHANGED batch
      BY <1>0, <2>1, <2>2, <2>3 DEF UsageInv
    <2>4. CASE phase' = "Reported" /\ batch' = <<>>
      BY <1>0, <2>1, <2>2, <2>4 DEF UsageInv
    <2> QED BY <2>1, <2>3, <2>4
  <1>5. CASE CallSettles
    <2>1. /\ phase = "Batch" /\ appended' = Append(appended, ToolResultHistory(Head(batch)))
          /\ batch' = Tail(batch) /\ phase' = IF batch' = <<>> THEN "Boundary" ELSE "Batch"
          /\ UNCHANGED <<total, reported>>
      BY <1>5 DEF CallSettles, usageVars
    <2>2. Head(batch) \in BatchIds /\ batch' \in Seq(BatchIds)
      BY <1>0, <2>1
    <2>3. ToolResultHistory(Head(batch)) \in Items /\ ToolResultHistory(Head(batch)).item # "Assistant"
      BY <2>2 DEF Items, ToolResultHistory
    <2>4. appended' \in Seq(Items) /\ TotalIsSum'
      BY <2>1, <2>3, OneOtherItem
    <2> QED BY <1>0, <2>1, <2>2, <2>4 DEF UsageInv
  <1>6. CASE BatchEnds
    <2> DEFINE more == [i \in DOMAIN batch |-> ToolResultHistory(batch[i])]
    <2>1. /\ phase = "Batch" /\ appended' = appended \o more
          /\ phase' = "Reported" /\ outcome' = "Stopped" /\ batch' = <<>> /\ UNCHANGED <<total, reported>>
      BY <1>6 DEF BatchEnds, Report, usageVars
    <2>2. \A i \in DOMAIN batch : batch[i] \in BatchIds
      BY <1>0
    <2>3. \A i \in DOMAIN batch : ToolResultHistory(batch[i]) \in Items
      BY <2>2 DEF Items
    <2>4. more \in Seq(Items)
      BY <1>0, <2>3
    <2>5. \A i \in DOMAIN more : more[i].item # "Assistant"
      BY DEF ToolResultHistory
    <2> HIDE DEF more
    <2>6. appended' \in Seq(Items) /\ TotalIsSum'
      BY <2>1, <2>4, <2>5, OtherItems
    <2> QED BY <1>0, <2>1, <2>6 DEF UsageInv
  <1>7. CASE LoopPanics
    <2>1. /\ phase' = "Reported" /\ outcome' = "Internal" /\ appended' = <<>> /\ batch' = <<>>
          /\ UNCHANGED reported
      BY <1>7 DEF LoopPanics, Report
    <2>2. TotalIsSum'
      BY <2>1 DEF TotalIsSum
    <2> QED BY <1>0, <2>1, <2>2 DEF UsageInv
  <1> QED BY <1>2, <1>3, <1>4, <1>5, <1>6, <1>7

\* A response is counted and appended, counted and not appended, or neither.
LEMMA ResponseKeepsTotal ==
  ASSUME UsageInv, NEW u \in Usages,
         Overflow(u) \/ Unsupported(u) \/ \E r \in Responses : Responds(r, u)
  PROVE  UsageInv'
  <1>0. appended \in Seq(Items) /\ batch \in Seq(BatchIds) /\ reported \in Seq(Counts)
    BY DEF UsageInv
  <1>1. phase = "Model"
    BY DEF Overflow, Unsupported, Responds
  <1>2. \A f \in Fields : total[f] = SumOf(reported, f) /\ total[f] = SumOf(appended, f)
    BY <1>1, RunningTotal
  <1>3. Counted(u).item = "Assistant" /\ Counted(u).usage = u /\ Counted(u) \in Counts
    BY DEF Counted, Counts
  <1> DEFINE all == Append(reported, Counted(u))
  <1>4. all \in Seq(Counts) /\ Earlier(all) = reported
    BY <1>0, <1>3, EarlierOfAppend
  <1>5. /\ \A f \in Fields : sum_usage(total, u)[f] = SumOf(all, f)
        /\ Overflows(total, u) => \E f \in Fields : Cardinality(Tokens(all, f)) > MaxCount
    BY <1>0, <1>2, <1>3, TotalAdds
  <1>6. CASE Overflow(u)
    <2>1. /\ Overflows(total, u) /\ phase' = "Reported" /\ outcome' = "Overflow" /\ batch' = <<>>
          /\ reported' = all /\ UNCHANGED <<appended, total>>
      BY <1>6 DEF Overflow, Report
    <2> HIDE DEF all
    <2>2. \E f \in Fields : Cardinality(Tokens(all, f)) > MaxCount
      BY <1>5, <2>1
    <2>3. TotalIsSum'
      BY <1>2, <1>4, <2>1, <2>2 DEF TotalIsSum
    <2> QED BY <1>0, <1>4, <2>1, <2>3 DEF UsageInv
  <1>7. CASE Unsupported(u)
    <2>1. /\ total' = sum_usage(total, u) /\ phase' = "Reported" /\ outcome' = "InvalidModelResponse"
          /\ batch' = <<>> /\ reported' = all /\ UNCHANGED appended
      BY <1>7 DEF Unsupported, Report
    <2> HIDE DEF all
    <2>2. TotalIsSum'
      BY <1>2, <1>4, <1>5, <2>1 DEF TotalIsSum
    <2> QED BY <1>0, <1>4, <2>1, <2>2 DEF UsageInv
  <1>8. ASSUME NEW r \in Responses, Responds(r, u) PROVE UsageInv'
    <2> DEFINE calls == CallsOf(r.parts)
               ids == [i \in DOMAIN calls |-> calls[i].id]
    <2>1. /\ total' = sum_usage(total, u) /\ appended' = Append(appended, Answered(r, u))
          /\ reported' = all
          /\ \/ phase' = "Reported" /\ outcome' = "Final" /\ batch' = <<>>
             \/ phase' = "Batch" /\ batch' = ids /\ calls # <<>>
      BY <1>8 DEF Responds, Report
    <2>2. ids \in Seq(BatchIds) /\ (calls # <<>> => ids # <<>>)
      BY BatchOf
    <2> HIDE DEF calls, ids, all
    <2>3. Answered(r, u) \in Items /\ Answered(r, u).item = "Assistant" /\ Answered(r, u).usage = u
      BY DEF Items, Answered
    <2>4. \A f \in Fields : sum_usage(total, u)[f] = SumOf(Append(appended, Answered(r, u)), f)
      BY <1>0, <1>2, <2>3, TotalAdds
    <2>5. TotalIsSum'
      BY <1>5, <2>1, <2>4, TotalAgrees
    <2>6. appended' \in Seq(Items)
      BY <1>0, <2>1, <2>3
    <2>7. batch' \in Seq(BatchIds) /\ (phase' = "Batch" => batch' # <<>>)
      <3>1. CASE phase' = "Reported" /\ batch' = <<>>
        BY <3>1
      <3>2. CASE phase' = "Batch" /\ batch' = ids /\ calls # <<>>
        BY <2>2, <3>2
      <3> QED BY <2>1, <3>1, <3>2
    <2>8. phase' # "Host" /\ reported' \in Seq(Counts)
      BY <1>4, <2>1
    <2> QED BY <2>5, <2>6, <2>7, <2>8 DEF UsageInv
  <1> QED BY <1>6, <1>7, <1>8

\* The host folds or drops a report, or works on its own history.
LEMMA HostKeepsTotal ==
  ASSUME UsageInv,
         \/ Folds \/ Drops \/ Restarts
         \/ \E k \in DOMAIN base : Undoes(k) \/ \E t \in InputTexts : Compacts(k, t)
  PROVE  UsageInv'
  <1>1. CASE Folds \/ Drops
    <2>1. /\ appended' = <<>> /\ phase' = "Host" /\ total' = [f \in Fields |-> {}]
          /\ reported' = <<>> /\ UNCHANGED batch
      BY <1>1 DEF Folds, Drops, LetGo, Unreported
    <2>2. TotalIsSum'
      BY <2>1, SumEmpty, TotalAgrees
    <2> QED BY <2>1, <2>2 DEF UsageInv
  <1>2. CASE Restarts \/ \E k \in DOMAIN base : Undoes(k) \/ \E t \in InputTexts : Compacts(k, t)
    <2>1. UNCHANGED <<appended, phase, batch, outcome, total, reported>>
      BY <1>2 DEF Restarts, Undoes, Compacts, usageVars
    <2>2. TotalIsSum'
      BY <2>1 DEF UsageInv, TotalIsSum
    <2> QED BY <2>1, <2>2 DEF UsageInv
  <1> QED BY <1>1, <1>2

\* Every step keeps the account.
LEMMA UsageStep == UsageInv /\ [SessionNext]_sessionVars => UsageInv'
  <1> SUFFICES ASSUME UsageInv, [SessionNext]_sessionVars PROVE UsageInv'
    OBVIOUS
  <1>1. CASE UNCHANGED sessionVars
    <2>1. UNCHANGED <<appended, phase, batch, outcome, total, reported>>
      BY <1>1 DEF sessionVars
    <2>2. TotalIsSum'
      BY <2>1 DEF UsageInv, TotalIsSum
    <2> QED BY <2>1, <2>2 DEF UsageInv
  <1>2. CASE \/ \E t \in InputTexts : Start(t) \/ TakesInput(t)
             \/ Request \/ Stops \/ CallSettles \/ BatchEnds \/ LoopPanics
    BY <1>2, LoopKeepsTotal
  <1>3. ASSUME NEW u \in Usages, Overflow(u) \/ Unsupported(u) \/ \E r \in Responses : Responds(r, u)
        PROVE  UsageInv'
    BY <1>3, ResponseKeepsTotal
  <1>4. CASE \/ Folds \/ Drops \/ Restarts
             \/ \E k \in DOMAIN base : Undoes(k) \/ \E t \in InputTexts : Compacts(k, t)
    BY <1>4, HostKeepsTotal
  <1>5. CASE SessionDone
    BY <1>1, <1>5 DEF SessionDone
  <1> QED BY <1>1, <1>2, <1>3, <1>4, <1>5 DEF SessionNext

\* However a session goes: a running loop's total, and the usage of every report of a loop that
\* neither panicked nor overflowed, is field by field the sum of what all its responses reported,
\* and the delta adds up to it without a response that was not appended; an overflow ends a loop
\* only when a field does not fit, and no field is half added (UsageAccumulator::add, finish_loop).
THEOREM TotalsAreSums == SessionSpec => []TotalIsSum
  <1>1. UsageInv => TotalIsSum
    BY DEF UsageInv
  <1> QED BY <1>1, UsageInit, UsageStep, PTL DEF SessionSpec

-----------------------------------------------------------------------------
(* The history stays usable. *)

\* What a sound session puts into its history.
GoodItems ==
  {UserHistory("Clean")} \cup {SummaryHistory(t) : t \in {"Clean", "Empty"}}
    \cup {Answered(r, u) : r \in Responses, u \in Usages}
    \cup {ToolResultHistory(c) : c \in CallIds}

\* The calls of an item, and the results behind it.
Owes(x)   == IF x.item = "Assistant" THEN CallIdsOf(x.parts) ELSE {}
Run(h, i) == {j \in DOMAIN h : j > i /\ \A k \in DOMAIN h : i < k /\ k <= j => h[k].item = "ToolResult"}

\* Behind every item that is not a result stand the results of its calls, each once.
Answers(h, i) ==
  /\ {h[j].id : j \in Run(h, i)} = Owes(h[i])
  /\ \A j, k \in Run(h, i) : h[j].id = h[k].id => j = k

Paired(h) ==
  /\ h \in Seq(GoodItems)
  /\ 1 \in DOMAIN h => h[1].item # "ToolResult"
  /\ \A i \in DOMAIN h : h[i].item # "ToolResult" => Answers(h, i)

Replies(v) == [i \in DOMAIN v |-> ToolResultHistory(v[i])]

\* v names each member of C once.
Names(v, C) == {v[i] : i \in DOMAIN v} = C /\ \A i, j \in DOMAIN v : v[i] = v[j] => i = j

\* A normalized valid list of parts is read back as it is.
LEMMA GoodParts ==
  ASSUME NEW r \in Responses
  PROVE  /\ r.parts \in Seq(Parts) /\ normalize_parts(r.parts) = r.parts
         /\ ValidMessage([role |-> "Assistant", parts |-> r.parts, replay |-> r.replay])
         /\ validate_tool_call_order(r.parts) /\ PartsReload(r.parts)
  <1>1. /\ r.parts \in PartLists /\ normalize_parts(r.parts) = r.parts
        /\ ValidMessage(AssistantMessage(r.parts, r.replay))
    BY DEF Responses
  <1>2. ValidMessage([role |-> "Assistant", parts |-> r.parts, replay |-> r.replay])
    BY <1>1 DEF AssistantMessage
  <1>3. validate_tool_call_order(r.parts)
    BY <1>2 DEF ValidMessage
  <1>4. \A i \in DOMAIN r.parts : ValidPart(r.parts[i])
    BY <1>3, Zenon DEF validate_tool_call_order
  <1>5. PartsReload(r.parts)
    BY <1>1, <1>4 DEF PartsReload
  <1> QED BY <1>1, <1>2, <1>3, <1>5, MessagesAssumption

\* Good items project to valid messages and survive a restart.
LEMMA GoodItem ==
  ASSUME NEW x \in GoodItems
  PROVE  /\ Projects(x) /\ ItemReloads(x) /\ Reloaded(x) = x /\ ValidMessage(MessageOf(x))
         /\ MessageOf(x).role = "Tool" <=> x.item = "ToolResult"
         /\ x.item = "ToolResult" => MessageOf(x).id = x.id
         /\ (IF MessageOf(x).role = "Assistant" THEN CallIdsOf(MessageOf(x).parts) ELSE {}) = Owes(x)
  <1>1. CASE x = UserHistory("Clean")
    <2>1. x.item = "User" /\ MessageOf(x) = [role |-> "User", text |-> "Clean"]
      BY <1>1 DEF UserHistory, MessageOf
    <2> QED BY <2>1 DEF Projects, ItemReloads, Reloaded, ValidMessage, valid_text, Owes
  <1>2. CASE x \in {SummaryHistory(t) : t \in {"Clean", "Empty"}}
    <2>1. x.item = "Summary" /\ MessageOf(x) = [role |-> "System", text |-> "Clean"]
      BY <1>2 DEF SummaryHistory, MessageOf
    <2> QED BY <2>1 DEF Projects, ItemReloads, Reloaded, ValidMessage, valid_text, Owes
  <1>3. CASE x \in {ToolResultHistory(c) : c \in CallIds}
    <2>1. x.item = "ToolResult" /\ MessageOf(x) = [role |-> "Tool", id |-> x.id]
      BY <1>3 DEF ToolResultHistory, MessageOf
    <2> QED BY <2>1 DEF Projects, ItemReloads, Reloaded, ValidMessage, Owes
  <1>4. CASE x \in {Answered(r, u) : r \in Responses, u \in Usages}
    <2>1. PICK r \in Responses, u \in Usages : x = Answered(r, u)
      BY <1>4
    <2>2. x.item = "Assistant" /\ x.parts = r.parts /\ x.replay = r.replay
      BY <2>1 DEF Answered
    <2>3. /\ normalize_parts(r.parts) = r.parts /\ PartsReload(r.parts)
          /\ ValidMessage([role |-> "Assistant", parts |-> r.parts, replay |-> r.replay])
      BY GoodParts
    <2>4. MessageOf(x) = [role |-> "Assistant", parts |-> r.parts, replay |-> r.replay]
      BY <2>2, <2>3 DEF MessageOf, AssistantMessage
    <2>5. [x EXCEPT !.parts = normalize_parts(@)] = x
      BY <2>1, <2>3 DEF Answered
    <2>6. Reloaded(x) = x
      BY <2>2, <2>5 DEF Reloaded
    <2>7. ValidMessage(MessageOf(x))
      BY <2>3, <2>4
    <2>8. ItemReloads(x) /\ Projects(x)
      BY <2>2, <2>3, <2>7 DEF ItemReloads, Projects
    <2>9. MessageOf(x).role = "Assistant" /\ MessageOf(x).parts = r.parts
      BY <2>4
    <2>10. Owes(x) = CallIdsOf(r.parts)
      BY <2>2 DEF Owes
    <2> QED BY <2>2, <2>6, <2>7, <2>8, <2>9, <2>10
  <1> QED BY <1>1, <1>2, <1>3, <1>4 DEF GoodItems

\* What PromptCheck decides of a paired history.
LEMMA PairedIsAccepted ==
  ASSUME NEW h, Paired(h), h # <<>> PROVE Accepted(h)
  <1> DEFINE ms == Rendered(h)
  <1>1. h \in Seq(GoodItems) /\ DOMAIN ms = DOMAIN h /\ \A i \in DOMAIN h : h[i] \in GoodItems
    BY DEF Paired, Rendered
  <1>2. \A i \in DOMAIN h : ms[i] = MessageOf(h[i])
    BY DEF Rendered
  <1> HIDE DEF ms
  <1>3. \A i \in DOMAIN h :
          /\ Projects(h[i]) /\ ValidMessage(ms[i])
          /\ ms[i].role = "Tool" <=> h[i].item = "ToolResult"
          /\ h[i].item = "ToolResult" => ms[i].id = h[i].id
          /\ CallsAt(ms, i) = Owes(h[i])
    <2> SUFFICES ASSUME NEW i \in DOMAIN h
                 PROVE  /\ Projects(h[i]) /\ ValidMessage(ms[i])
                        /\ ms[i].role = "Tool" <=> h[i].item = "ToolResult"
                        /\ h[i].item = "ToolResult" => ms[i].id = h[i].id
                        /\ CallsAt(ms, i) = Owes(h[i])
      OBVIOUS
    <2>1. h[i] \in GoodItems /\ ms[i] = MessageOf(h[i])
      BY <1>1, <1>2
    <2> QED BY <2>1, GoodItem DEF CallsAt
  <1>4. ASSUME NEW i \in DOMAIN h PROVE RunAfter(ms, i) = Run(h, i)
    BY <1>1, <1>3 DEF RunAfter, Run
  <1>5. \A i \in DOMAIN h : \A j \in Run(h, i) : j \in DOMAIN h /\ h[j].item = "ToolResult"
    <2> SUFFICES ASSUME NEW i \in DOMAIN h, NEW j \in Run(h, i) PROVE j \in DOMAIN h /\ h[j].item = "ToolResult"
      OBVIOUS
    <2>1. j \in DOMAIN h /\ j > i /\ \A k \in DOMAIN h : i < k /\ k <= j => h[k].item = "ToolResult"
      BY DEF Run
    <2>2. i \in Nat /\ j \in Nat
      BY <1>1, <2>1
    <2>3. i < j /\ j <= j
      BY <2>1, <2>2
    <2> QED BY <2>1, <2>3
  <1>6. ASSUME NEW i \in DOMAIN ms, ms[i].role # "Tool"
        PROVE  /\ {ms[j].id : j \in RunAfter(ms, i)} = CallsAt(ms, i)
               /\ \A j, k \in RunAfter(ms, i) : ms[j].id = ms[k].id => j = k
    <2>1. i \in DOMAIN h /\ h[i].item # "ToolResult" /\ CallsAt(ms, i) = Owes(h[i]) /\ RunAfter(ms, i) = Run(h, i)
      BY <1>1, <1>3, <1>4, <1>6
    <2>2. Answers(h, i)
      BY <2>1 DEF Paired
    <2>3. \A j \in Run(h, i) : ms[j].id = h[j].id
      BY <1>3, <1>5, <2>1
    <2>4. {ms[j].id : j \in Run(h, i)} = {h[j].id : j \in Run(h, i)}
      BY <2>3
    <2> QED BY <2>1, <2>2, <2>3, <2>4 DEF Answers
  <1>7. 1 \in DOMAIN ms => ms[1].role # "Tool"
    BY <1>1, <1>3 DEF Paired
  <1>8. WellFormed(ms)
    BY <1>1, <1>3, <1>6, <1>7 DEF WellFormed
  <1> QED BY <1>3, <1>8 DEF Accepted, ms

\* One exchange more: an item that is not a result and the results of its calls.
LEMMA ExchangeIsPaired ==
  ASSUME NEW p, Paired(p), NEW a \in GoodItems, a.item # "ToolResult",
         NEW v \in Seq(CallIds), Names(v, Owes(a))
  PROVE  Paired(Append(p, a) \o Replies(v))
  <1> DEFINE s == Replies(v)
             q == Append(p, a)
             g == q \o s
             n == Len(p)
             m == Len(v)
  <1>1. p \in Seq(GoodItems) /\ n \in Nat /\ DOMAIN p = 1 .. n /\ m \in Nat /\ DOMAIN v = 1 .. m
    BY DEF Paired
  <1>2. /\ s \in Seq(GoodItems) /\ Len(s) = m
        /\ \A i \in 1 .. m : s[i].item = "ToolResult" /\ s[i].id = v[i]
    <2>1. \A i \in 1 .. m : ToolResultHistory(v[i]) \in GoodItems
      BY <1>1 DEF GoodItems
    <2>2. s = [i \in 1 .. m |-> ToolResultHistory(v[i])]
      BY <1>1 DEF Replies
    <2> HIDE DEF s
    <2>3. s \in Seq(GoodItems) /\ Len(s) = m
      BY <1>1, <2>1, <2>2
    <2>4. \A i \in 1 .. m : s[i].item = "ToolResult" /\ s[i].id = v[i]
      BY <2>2 DEF ToolResultHistory
    <2> QED BY <2>3, <2>4
  <1> HIDE DEF s, m
  <1>3. /\ q \in Seq(GoodItems) /\ Len(q) = n + 1
        /\ \A i \in 1 .. n : q[i] = p[i]
        /\ q[n + 1] = a
    BY <1>1
  <1> HIDE DEF q
  <1>4. /\ g \in Seq(GoodItems) /\ Len(g) = n + 1 + m /\ DOMAIN g = 1 .. n + 1 + m
        /\ \A i \in 1 .. n + 1 : g[i] = q[i]
        /\ \A i \in 1 .. m : g[n + 1 + i] = s[i]
    <2>1. /\ g \in Seq(GoodItems) /\ Len(g) = Len(q) + Len(s)
          /\ \A i \in 1 .. Len(q) + Len(s) : g[i] = IF i <= Len(q) THEN q[i] ELSE s[i - Len(q)]
      BY <1>2, <1>3, ConcatProperties
    <2> HIDE DEF g, n
    <2>2. DOMAIN g = 1 .. Len(g)
      BY <2>1
    <2>3. ASSUME NEW i \in 1 .. n + 1 PROVE g[i] = q[i]
      <3>1. i \in 1 .. Len(q) + Len(s) /\ i <= Len(q)
        BY <1>1, <1>2, <1>3
      <3> QED BY <2>1, <3>1
    <2>4. ASSUME NEW i \in 1 .. m PROVE g[n + 1 + i] = s[i]
      <3>1. /\ n + 1 + i \in 1 .. Len(q) + Len(s) /\ ~(n + 1 + i <= Len(q))
            /\ (n + 1 + i) - Len(q) = i
        BY <1>1, <1>2, <1>3
      <3> QED BY <2>1, <3>1
    <2> QED BY <1>2, <1>3, <2>1, <2>2, <2>3, <2>4
  <1> HIDE DEF g, n
  <1>5. \A i \in 1 .. n : g[i] = p[i]
    BY <1>1, <1>3, <1>4
  <1>6. n + 1 \in DOMAIN g /\ g[n + 1] = a
    BY <1>1, <1>3, <1>4
  <1>7. \A j \in DOMAIN g : j > n + 1 => j - (n + 1) \in 1 .. m /\ g[j].item = "ToolResult" /\ g[j].id = v[j - (n + 1)]
    <2> SUFFICES ASSUME NEW j \in DOMAIN g, j > n + 1
                 PROVE  j - (n + 1) \in 1 .. m /\ g[j].item = "ToolResult" /\ g[j].id = v[j - (n + 1)]
      OBVIOUS
    <2>1. j - (n + 1) \in 1 .. m /\ n + 1 + (j - (n + 1)) = j
      BY <1>1, <1>4
    <2>2. g[j] = s[j - (n + 1)]
      BY <1>4, <2>1
    <2> QED BY <1>2, <2>1, <2>2
  <1>8. ASSUME NEW i \in 1 .. n, g[i].item # "ToolResult" PROVE Answers(g, i)
    <2>1. Run(g, i) = Run(p, i)
      <3>1. ASSUME NEW j \in Run(g, i) PROVE j \in Run(p, i)
        <4>1. j \in DOMAIN g /\ j > i /\ \A k \in DOMAIN g : i < k /\ k <= j => g[k].item = "ToolResult"
          BY DEF Run
        <4>2. j \in 1 .. n
          <5> SUFFICES ASSUME j > n PROVE FALSE
            BY <1>1, <1>4, <4>1
          <5>1. i < n + 1 /\ n + 1 <= j
            BY <1>1, <1>4, <4>1
          <5> QED BY <1>6, <4>1, <5>1
        <4>3. ASSUME NEW k \in DOMAIN p, i < k, k <= j PROVE p[k].item = "ToolResult"
          <5>1. k \in DOMAIN g /\ g[k] = p[k]
            BY <1>1, <1>4, <1>5
          <5> QED BY <4>1, <4>3, <5>1
        <4> QED BY <1>1, <4>1, <4>2, <4>3 DEF Run
      <3>2. ASSUME NEW j \in Run(p, i) PROVE j \in Run(g, i)
        <4>1. j \in DOMAIN p /\ j > i /\ \A k \in DOMAIN p : i < k /\ k <= j => p[k].item = "ToolResult"
          BY DEF Run
        <4>2. j \in DOMAIN g
          BY <1>1, <1>4, <4>1
        <4>3. ASSUME NEW k \in DOMAIN g, i < k, k <= j PROVE g[k].item = "ToolResult"
          <5>1. k \in DOMAIN p /\ k \in 1 .. n
            BY <1>1, <1>4, <4>1, <4>3
          <5> QED BY <1>5, <4>1, <4>3, <5>1
        <4> QED BY <4>1, <4>2, <4>3 DEF Run
      <3> QED BY <3>1, <3>2
    <2>2. Answers(p, i) /\ g[i] = p[i]
      BY <1>1, <1>5, <1>8 DEF Paired
    <2>3. \A j \in Run(p, i) : g[j] = p[j]
      <3>1. \A j \in Run(p, i) : j \in 1 .. n
        BY <1>1 DEF Run
      <3> QED BY <1>5, <3>1
    <2> QED BY <2>1, <2>2, <2>3 DEF Answers
  <1>9. Answers(g, n + 1)
    <2>1. Run(g, n + 1) = {j \in DOMAIN g : j > n + 1}
      <3>1. ASSUME NEW j \in DOMAIN g, j > n + 1 PROVE j \in Run(g, n + 1)
        <4>1. \A k \in DOMAIN g : n + 1 < k => k > n + 1
          BY <1>1, <1>4
        <4> QED BY <1>7, <3>1, <4>1 DEF Run
      <3> QED BY <3>1 DEF Run
    <2>2. ASSUME NEW i \in DOMAIN v
          PROVE  n + 1 + i \in DOMAIN g /\ n + 1 + i > n + 1 /\ (n + 1 + i) - (n + 1) = i
      BY <1>1, <1>4
    <2>3. {g[j].id : j \in Run(g, n + 1)} = {v[i] : i \in DOMAIN v}
      <3>1. ASSUME NEW j \in Run(g, n + 1) PROVE g[j].id \in {v[i] : i \in DOMAIN v}
        BY <1>1, <1>7, <2>1
      <3>2. ASSUME NEW i \in DOMAIN v PROVE \E j \in Run(g, n + 1) : g[j].id = v[i]
        BY <1>7, <2>1, <2>2
      <3> QED BY <3>1, <3>2
    <2>4. ASSUME NEW j \in Run(g, n + 1), NEW k \in Run(g, n + 1), g[j].id = g[k].id PROVE j = k
      <3>1. /\ j \in DOMAIN g /\ k \in DOMAIN g /\ j - (n + 1) \in DOMAIN v /\ k - (n + 1) \in DOMAIN v
            /\ v[j - (n + 1)] = v[k - (n + 1)]
        BY <1>1, <1>7, <2>1, <2>4
      <3>2. j - (n + 1) = k - (n + 1)
        BY <3>1 DEF Names
      <3>3. j \in Nat /\ k \in Nat
        BY <1>4, <3>1
      <3> QED BY <1>1, <3>2, <3>3
    <2>5. {v[i] : i \in DOMAIN v} = Owes(a)
      BY DEF Names
    <2> QED BY <1>6, <2>3, <2>4, <2>5 DEF Answers
  <1>10. 1 \in DOMAIN g /\ g[1].item # "ToolResult"
    <2>1. CASE n = 0
      BY <1>1, <1>6, <2>1
    <2>2. CASE n # 0
      <3>1. 1 \in 1 .. n /\ 1 \in DOMAIN g
        BY <1>1, <1>4, <2>2
      <3> QED BY <1>1, <1>5, <3>1 DEF Paired
    <2> QED BY <2>1, <2>2
  <1>11. ASSUME NEW i \in DOMAIN g, g[i].item # "ToolResult" PROVE Answers(g, i)
    <2>1. i \in 1 .. n \/ i = n + 1
      BY <1>1, <1>4, <1>7, <1>11
    <2> QED BY <1>8, <1>9, <1>11, <2>1
  <1> QED BY <1>4, <1>10, <1>11 DEF Paired, g, q, s

\* A history cut where no result follows is paired up to the cut.
LEMMA CutKeepsFront ==
  ASSUME NEW h, Paired(h), NEW k \in DOMAIN h, CutsCleanly(h, k)
  PROVE  Paired(SubSeq(h, 1, k))
  <1> DEFINE g == SubSeq(h, 1, k)
  <1>1. h \in Seq(GoodItems) /\ Len(h) \in Nat /\ DOMAIN h = 1 .. Len(h) /\ k \in 1 .. Len(h)
    BY DEF Paired
  <1>2. g \in Seq(GoodItems) /\ DOMAIN g = 1 .. k /\ \A i \in 1 .. k : g[i] = h[i]
    <2>1. \A i \in 1 .. k : h[i] \in GoodItems
      BY <1>1
    <2>2. /\ g \in Seq(GoodItems)
          /\ Len(g) = IF 1 <= k THEN k - 1 + 1 ELSE 0
          /\ \A i \in 1 .. k - 1 + 1 : g[i] = h[1 + i - 1]
      BY <1>1, <2>1, SubSeqProperties
    <2> HIDE DEF g
    <2>3. Len(g) = k /\ DOMAIN g = 1 .. Len(g)
      BY <1>1, <2>2
    <2>4. ASSUME NEW i \in 1 .. k PROVE g[i] = h[i]
      <3>1. i \in 1 .. k - 1 + 1 /\ 1 + i - 1 = i
        BY <1>1
      <3> QED BY <2>2, <3>1
    <2> QED BY <2>2, <2>3, <2>4
  <1> HIDE DEF g
  <1>3. ASSUME NEW i \in DOMAIN g, g[i].item # "ToolResult" PROVE Answers(g, i)
    <2>1. i \in DOMAIN h /\ h[i] = g[i] /\ Answers(h, i)
      BY <1>1, <1>2, <1>3 DEF Paired
    <2>2. ASSUME NEW j \in Run(h, i) PROVE j \in Run(g, i)
      <3>1. j \in DOMAIN h /\ j > i /\ \A x \in DOMAIN h : i < x /\ x <= j => h[x].item = "ToolResult"
        BY DEF Run
      <3>2. j \in 1 .. k
        <4> SUFFICES ASSUME j > k PROVE FALSE
          BY <1>1, <3>1
        <4>1. k + 1 \in DOMAIN h /\ i < k + 1 /\ k + 1 <= j
          BY <1>1, <1>2, <3>1
        <4> QED BY <3>1, <4>1 DEF CutsCleanly
      <3>3. \A x \in DOMAIN g : x \in DOMAIN h /\ g[x] = h[x]
        BY <1>1, <1>2
      <3> QED BY <1>2, <3>1, <3>2, <3>3 DEF Run
    <2>3. ASSUME NEW j \in Run(g, i) PROVE j \in Run(h, i)
      <3>1. j \in DOMAIN g /\ j > i /\ \A x \in DOMAIN g : i < x /\ x <= j => g[x].item = "ToolResult"
        BY DEF Run
      <3>2. ASSUME NEW x \in DOMAIN h, i < x, x <= j PROVE h[x].item = "ToolResult"
        <4>1. x \in DOMAIN g
          BY <1>1, <1>2, <3>1, <3>2
        <4> QED BY <1>2, <3>1, <3>2, <4>1
      <3> QED BY <1>1, <1>2, <3>1, <3>2 DEF Run
    <2>4. Run(g, i) = Run(h, i)
      BY <2>2, <2>3
    <2>5. \A j \in Run(g, i) : g[j] = h[j]
      BY <1>2 DEF Run
    <2> QED BY <2>1, <2>4, <2>5 DEF Answers
  <1>4. 1 \in DOMAIN g => g[1].item # "ToolResult"
    BY <1>1, <1>2 DEF Paired
  <1> QED BY <1>2, <1>3, <1>4 DEF Paired, g

\* ... and with something else in the place of what is before the cut.
LEMMA CutKeepsBack ==
  ASSUME NEW h, Paired(h), NEW k \in DOMAIN h, CutsCleanly(h, k),
         NEW x \in GoodItems, x.item # "ToolResult", Owes(x) = {}
  PROVE  Paired(<<x>> \o SubSeq(h, k + 1, Len(h)))
  <1> DEFINE n == Len(h)
             t == SubSeq(h, k + 1, n)
             g == <<x>> \o t
             d == k - 1
  <1>1. h \in Seq(GoodItems) /\ n \in Nat /\ DOMAIN h = 1 .. n /\ k \in 1 .. n /\ d \in Nat
    BY DEF Paired
  <1>2. t \in Seq(GoodItems) /\ Len(t) = n - k /\ \A i \in 1 .. n - k : t[i] = h[k + i]
    <2>1. \A i \in k + 1 .. n : h[i] \in GoodItems
      BY <1>1
    <2>2. k + 1 \in Int /\ n \in Int
      BY <1>1
    <2>3. /\ t \in Seq(GoodItems)
          /\ Len(t) = IF k + 1 <= n THEN n - (k + 1) + 1 ELSE 0
          /\ \A i \in 1 .. n - (k + 1) + 1 : t[i] = h[k + 1 + i - 1]
      BY <2>1, <2>2, SubSeqProperties
    <2> HIDE DEF t, n
    <2>4. Len(t) = n - k
      BY <1>1, <2>3
    <2>5. ASSUME NEW i \in 1 .. n - k PROVE t[i] = h[k + i]
      <3>1. i \in 1 .. n - (k + 1) + 1 /\ k + 1 + i - 1 = k + i
        BY <1>1
      <3> QED BY <2>3, <3>1
    <2> QED BY <2>3, <2>4, <2>5
  <1> HIDE DEF t
  <1>3. /\ g \in Seq(GoodItems) /\ DOMAIN g = 1 .. n - d /\ g[1] = x
        /\ \A i \in 2 .. n - d : g[i] = h[i + d]
    <2>1. <<x>> \in Seq(GoodItems) /\ Len(<<x>>) = 1 /\ <<x>>[1] = x
      OBVIOUS
    <2>2. /\ g \in Seq(GoodItems) /\ Len(g) = 1 + (n - k)
          /\ \A i \in 1 .. 1 + (n - k) : g[i] = IF i <= 1 THEN <<x>>[i] ELSE t[i - 1]
      BY <1>2, <2>1, ConcatProperties
    <2> HIDE DEF g, n
    <2>3. DOMAIN g = 1 .. n - d
      <3>1. 1 + (n - k) = n - d
        BY <1>1
      <3>2. DOMAIN g = 1 .. Len(g)
        BY <2>2
      <3> QED BY <2>2, <3>1, <3>2
    <2>4. g[1] = x
      <3>1. 1 \in 1 .. 1 + (n - k) /\ 1 <= 1
        BY <1>1
      <3> QED BY <2>1, <2>2, <3>1
    <2>5. ASSUME NEW i \in 2 .. n - d PROVE g[i] = h[i + d]
      <3>1. i \in 1 .. 1 + (n - k) /\ ~(i <= 1) /\ i - 1 \in 1 .. n - k /\ k + (i - 1) = i + d
        BY <1>1
      <3>2. g[i] = t[i - 1]
        BY <2>2, <3>1
      <3> QED BY <1>2, <3>1, <3>2
    <2> QED BY <2>2, <2>3, <2>4, <2>5
  <1> HIDE DEF g, n, d
  <1>4. k = d + 1 /\ k + 1 = 2 + d
    BY <1>1 DEF d
  <1>5. Answers(g, 1)
    <2>1. Run(g, 1) = {}
      <3> SUFFICES ASSUME NEW j \in Run(g, 1) PROVE FALSE
        OBVIOUS
      <3>1. j \in DOMAIN g /\ j > 1 /\ \A y \in DOMAIN g : 1 < y /\ y <= j => g[y].item = "ToolResult"
        BY DEF Run
      <3>2. 2 \in DOMAIN g /\ 2 \in 2 .. n - d /\ 2 <= j /\ k + 1 \in DOMAIN h
        BY <1>1, <1>3, <1>4, <3>1
      <3>3. g[2].item = "ToolResult" /\ g[2] = h[k + 1]
        BY <1>3, <1>4, <3>1, <3>2
      <3> QED BY <3>2, <3>3 DEF CutsCleanly
    <2> QED BY <1>3, <2>1 DEF Answers
  <1>6. ASSUME NEW i \in 2 .. n - d, g[i].item # "ToolResult" PROVE Answers(g, i)
    <2>1. i + d \in DOMAIN h /\ g[i] = h[i + d] /\ Answers(h, i + d)
      <3>1. i + d \in DOMAIN h /\ g[i] = h[i + d]
        BY <1>1, <1>3
      <3> QED BY <1>6, <3>1 DEF Paired
    <2>2. ASSUME NEW j \in Run(g, i) PROVE j \in 2 .. n - d /\ j + d \in Run(h, i + d)
      <3>1. j \in DOMAIN g /\ j > i /\ \A y \in DOMAIN g : i < y /\ y <= j => g[y].item = "ToolResult"
        BY DEF Run
      <3>2. j \in 2 .. n - d /\ j + d \in DOMAIN h /\ j + d > i + d
        BY <1>1, <1>3, <3>1
      <3>3. ASSUME NEW y \in DOMAIN h, i + d < y, y <= j + d PROVE h[y].item = "ToolResult"
        <4>1. y - d \in 2 .. n - d /\ y - d \in DOMAIN g /\ i < y - d /\ y - d <= j /\ (y - d) + d = y
          BY <1>1, <1>3, <3>2, <3>3
        <4> QED BY <1>3, <3>1, <4>1
      <3> QED BY <3>2, <3>3 DEF Run
    <2>3. ASSUME NEW j \in Run(h, i + d) PROVE j - d \in Run(g, i) /\ (j - d) + d = j
      <3>1. j \in DOMAIN h /\ j > i + d /\ \A y \in DOMAIN h : i + d < y /\ y <= j => h[y].item = "ToolResult"
        BY DEF Run
      <3>2. j - d \in DOMAIN g /\ j - d > i /\ (j - d) + d = j
        BY <1>1, <1>3, <3>1
      <3>3. ASSUME NEW y \in DOMAIN g, i < y, y <= j - d PROVE g[y].item = "ToolResult"
        <4>1. y \in 2 .. n - d /\ y + d \in DOMAIN h /\ i + d < y + d /\ y + d <= j
          BY <1>1, <1>3, <3>1, <3>3
        <4> QED BY <1>3, <3>1, <4>1
      <3> QED BY <3>2, <3>3 DEF Run
    <2>4. \A j \in Run(g, i) : g[j] = h[j + d]
      BY <1>3, <2>2
    <2>5. {g[j].id : j \in Run(g, i)} = {h[j].id : j \in Run(h, i + d)}
      <3>1. ASSUME NEW j \in Run(g, i) PROVE g[j].id \in {h[y].id : y \in Run(h, i + d)}
        BY <2>2, <2>4
      <3>2. ASSUME NEW j \in Run(h, i + d) PROVE h[j].id \in {g[y].id : y \in Run(g, i)}
        <4>1. g[j - d] = h[j]
          BY <2>3, <2>4
        <4> QED BY <2>3, <4>1
      <3> QED BY <3>1, <3>2
    <2>6. ASSUME NEW j \in Run(g, i), NEW y \in Run(g, i), g[j].id = g[y].id PROVE j = y
      <3>1. j + d = y + d
        BY <2>1, <2>2, <2>4, <2>6 DEF Answers
      <3>2. j \in Nat /\ y \in Nat
        BY <1>1, <2>2
      <3> QED BY <1>1, <3>1, <3>2
    <2> QED BY <2>1, <2>5, <2>6 DEF Answers
  <1>7. ASSUME NEW i \in DOMAIN g, g[i].item # "ToolResult" PROVE Answers(g, i)
    <2>1. i = 1 \/ i \in 2 .. n - d
      BY <1>1, <1>3
    <2> QED BY <1>5, <1>6, <1>7, <2>1
  <1> QED BY <1>3, <1>7 DEF Paired, g, t, n

\* The calls of a list, ranked: every rank up to their number is taken, and by one call.
LEMMA Ranks ==
  ASSUME NEW ps \in Seq(Parts)
  PROVE  LET C == CallPositions(ps) IN
         /\ IsFiniteSet(C)
         /\ \A i \in C : CallsBefore(ps, i) \in 0 .. Cardinality(C) - 1
         /\ \A n \in 1 .. Cardinality(C) : \E i \in C : CallsBefore(ps, i) = n - 1
         /\ \A i, j \in C : CallsBefore(ps, i) = CallsBefore(ps, j) => i = j
  <1> DEFINE C == CallPositions(ps)
             c == Cardinality(C)
             B(i) == {j \in C : j < i}
             b(i) == Cardinality(B(i))
  <1>1. /\ IsFiniteSet(C) /\ C \subseteq Nat
    <2>1. DOMAIN ps = 1 .. Len(ps) /\ Len(ps) \in Nat
      OBVIOUS
    <2>2. IsFiniteSet(DOMAIN ps)
      BY <2>1, FS_Interval
    <2>3. C \in SUBSET DOMAIN ps
      BY DEF CallPositions
    <2> QED BY <2>1, <2>2, <2>3, FS_Subset
  <1>2. \A i : CallsBefore(ps, i) = b(i)
    BY DEF CallsBefore
  <1> HIDE DEF C
  <1>3. c \in Nat
    BY <1>1, FS_CardinalityType
  <1>4. ASSUME NEW i \in C PROVE IsFiniteSet(B(i)) /\ b(i) \in Nat
    <2>1. B(i) \in SUBSET C
      OBVIOUS
    <2>2. IsFiniteSet(B(i))
      BY <1>1, <2>1, FS_Subset
    <2> QED BY <2>2, FS_CardinalityType
  <1>5. ASSUME NEW i \in C PROVE b(i) < c
    <2>1. B(i) \in SUBSET C /\ i \in C \ B(i)
      BY <1>1
    <2>2. b(i) <= c /\ (c = b(i) => C = B(i))
      BY <1>1, <2>1, FS_Subset
    <2>3. c # b(i)
      BY <2>1, <2>2
    <2>4. b(i) \in Nat
      BY <1>4
    <2> HIDE DEF b, c
    <2> QED BY <1>3, <2>2, <2>3, <2>4
  <1>6. ASSUME NEW i \in C, NEW j \in C, i < j PROVE b(i) < b(j)
    <2>0. i \in Nat /\ j \in Nat /\ \A k \in C : k \in Nat
      BY <1>1
    <2>1. B(i) \in SUBSET B(j) /\ i \in B(j) \ B(i)
      <3>1. \A k \in C : k < i => k < j
        BY <1>6, <2>0
      <3>2. ~(i < i)
        BY <2>0
      <3> QED BY <1>6, <3>1, <3>2
    <2>2. IsFiniteSet(B(j))
      BY <1>4
    <2> HIDE DEF B
    <2>3. b(i) <= b(j) /\ (b(j) = b(i) => B(j) = B(i))
      BY <2>1, <2>2, FS_Subset
    <2>4. b(j) # b(i)
      BY <2>1, <2>3
    <2>5. b(i) \in Nat /\ b(j) \in Nat
      BY <1>4
    <2> HIDE DEF b
    <2> QED BY <2>3, <2>4, <2>5
  <1> HIDE DEF B, b, c
  <1>7. ASSUME NEW i \in C, NEW j \in C, b(i) = b(j) PROVE i = j
    <2>1. i \in Nat /\ j \in Nat /\ b(i) \in Nat
      BY <1>1, <1>4
    <2>2. i < j \/ j < i \/ i = j
      BY <2>1
    <2> QED BY <1>6, <1>7, <2>1, <2>2
  <1> DEFINE f == [i \in C |-> b(i) + 1]
  <1>8. f \in Injection(C, 1 .. c)
    <2>1. \A i \in C : b(i) + 1 \in 1 .. c
      BY <1>3, <1>4, <1>5
    <2>2. \A i, j \in C : b(i) + 1 = b(j) + 1 => i = j
      <3> SUFFICES ASSUME NEW i \in C, NEW j \in C, b(i) + 1 = b(j) + 1 PROVE i = j
        OBVIOUS
      <3>1. b(i) \in Nat /\ b(j) \in Nat
        BY <1>4
      <3>2. b(i) = b(j)
        BY <3>1
      <3> QED BY <1>7, <3>2
    <2> QED BY <2>1, <2>2 DEF Injection, IsInjective
  <1>9. IsFiniteSet(1 .. c) /\ Cardinality(1 .. c) = c
    <2>1. IsFiniteSet(1 .. c) /\ Cardinality(1 .. c) = IF 1 > c THEN 0 ELSE c - 1 + 1
      BY <1>3, FS_Interval
    <2> QED BY <1>3, <2>1
  <1>10. f \in Surjection(C, 1 .. c)
    <2>1. Cardinality(C) = Cardinality(1 .. c)
      BY <1>9 DEF c
    <2> HIDE DEF f
    <2> QED BY <1>8, <1>9, <2>1, FS_Injection
  <1>11. ASSUME NEW n \in 1 .. c PROVE \E i \in C : b(i) = n - 1
    <2>1. PICK i \in C : f[i] = n
      BY <1>10 DEF Surjection
    <2>2. b(i) + 1 = n /\ b(i) \in Nat
      BY <1>4, <2>1
    <2>3. b(i) = n - 1
      BY <2>2
    <2> QED BY <2>3
  <1>12. \A i \in C : b(i) \in 0 .. c - 1
    BY <1>3, <1>4, <1>5
  <1> QED BY <1>1, <1>2, <1>7, <1>11, <1>12 DEF C, c

\* The calls a response leaves to settle are its calls, each once.
LEMMA BatchNames ==
  ASSUME NEW r \in Responses
  PROVE  LET calls == CallsOf(r.parts)
             ids   == [i \in DOMAIN calls |-> calls[i].id]
         IN  /\ ids \in Seq(CallIds)
             /\ Names(ids, CallIdsOf(r.parts))
             /\ calls = <<>> => CallIdsOf(r.parts) = {}
  <1> DEFINE ps == r.parts
             C == CallPositions(ps)
             c == Cardinality(C)
             rank(i) == CallsBefore(ps, i)
             at(n) == CHOOSE i \in C : rank(i) = n - 1
             calls == CallsOf(ps)
             ids == [i \in DOMAIN calls |-> calls[i].id]
  <1>1. ps \in Seq(Parts) /\ validate_tool_call_order(ps)
    BY GoodParts
  <1>2. \A i, j \in C : j < i => ps[j].id # ps[i].id
    BY <1>1 DEF validate_tool_call_order
  <1>3. \A i \in C : ps[i].id \in CallIds /\ i \in Nat
    <2>1. ASSUME NEW i \in C PROVE ps[i].id \in CallIds /\ i \in Nat
      <3>1. i \in DOMAIN ps /\ ps[i].part = "ToolCall"
        BY DEF CallPositions
      <3>2. ps[i] \in Parts /\ i \in Nat
        BY <1>1, <3>1
      <3> QED BY <3>1, <3>2 DEF Parts
    <2> QED BY <2>1
  <1>4. /\ IsFiniteSet(C)
        /\ \A i \in C : rank(i) \in 0 .. c - 1
        /\ \A n \in 1 .. c : \E i \in C : rank(i) = n - 1
        /\ \A i, j \in C : rank(i) = rank(j) => i = j
    BY <1>1, Ranks
  <1>5. c \in Nat
    BY <1>4, FS_CardinalityType
  <1>6. CallIdsOf(ps) = {ps[i].id : i \in C}
    BY DEF CallIdsOf
  <1>7. calls = [n \in 1 .. c |-> ps[at(n)]]
    BY DEF CallsOf
  <1> HIDE DEF calls, C, c, rank, ps
  <1>8. \A n \in 1 .. c : at(n) \in C /\ rank(at(n)) = n - 1
    BY <1>4
  <1> HIDE DEF at
  <1>9. ids = [n \in 1 .. c |-> ps[at(n)].id]
    BY <1>7
  <1> HIDE DEF ids
  <1>10. ids \in Seq(CallIds)
    <2>1. \A n \in 1 .. c : ps[at(n)].id \in CallIds
      BY <1>3, <1>8
    <2> QED BY <1>5, <1>9, <2>1
  <1>11. ASSUME NEW i \in C PROVE ps[i].id \in {ids[n] : n \in DOMAIN ids}
    <2>1. rank(i) \in Nat /\ rank(i) + 1 \in 1 .. c /\ (rank(i) + 1) - 1 = rank(i)
      BY <1>4, <1>5
    <2>2. at(rank(i) + 1) = i
      BY <1>4, <1>8, <2>1
    <2>3. ids[rank(i) + 1] = ps[i].id /\ rank(i) + 1 \in DOMAIN ids
      BY <1>9, <2>1, <2>2
    <2> QED BY <2>3
  <1>12. {ids[n] : n \in DOMAIN ids} = {ps[i].id : i \in C}
    <2>1. \A n \in DOMAIN ids : ids[n] \in {ps[i].id : i \in C}
      BY <1>8, <1>9
    <2> QED BY <1>11, <2>1
  <1>13. ASSUME NEW n \in DOMAIN ids, NEW m \in DOMAIN ids, ids[n] = ids[m] PROVE n = m
    <2>1. n \in 1 .. c /\ m \in 1 .. c /\ ps[at(n)].id = ps[at(m)].id
      BY <1>9, <1>13
    <2>2. at(n) \in C /\ at(m) \in C /\ at(n) \in Nat /\ at(m) \in Nat
      BY <1>3, <1>8, <2>1
    <2>3. at(n) < at(m) \/ at(m) < at(n) \/ at(n) = at(m)
      BY <2>2
    <2>4. at(n) = at(m)
      BY <1>2, <2>1, <2>2, <2>3
    <2>5. n - 1 = m - 1
      BY <1>8, <2>1, <2>4
    <2> QED BY <1>5, <2>1, <2>5
  <1>14. Names(ids, CallIdsOf(ps))
    BY <1>6, <1>12, <1>13 DEF Names
  <1>15. ASSUME calls = <<>> PROVE CallIdsOf(ps) = {}
    <2>1. DOMAIN calls = 1 .. c
      BY <1>7
    <2>2. 1 .. c = {}
      BY <1>15, <2>1
    <2>3. DOMAIN ids = {}
      BY <1>9, <2>2
    <2> QED BY <1>6, <1>12, <2>3
  <1> QED BY <1>10, <1>14, <1>15 DEF ids, calls, ps

-----------------------------------------------------------------------------
(* In the middle of a batch. *)

\* A paired history, an item with calls, the results of some of them; w names the rest.
Halfway(h, w) ==
  /\ w \in Seq(CallIds)
  /\ \E p \in Seq(GoodItems), a \in GoodItems, v \in Seq(CallIds) :
       /\ Paired(p) /\ a.item # "ToolResult"
       /\ h = Append(p, a) \o Replies(v)
       /\ Names(v \o w, Owes(a))

LEMMA AppendBehind ==
  ASSUME NEW S, NEW s \in Seq(S), NEW t \in Seq(S), NEW x \in S
  PROVE  s \o Append(t, x) = Append(s \o t, x)
  <1>1. <<x>> \in Seq(S) /\ s \o t \in Seq(S)
    BY ConcatProperties
  <1>2. Append(t, x) = t \o <<x>>
    BY AppendIsConcat
  <1>3. Append(s \o t, x) = (s \o t) \o <<x>>
    BY <1>1, AppendIsConcat
  <1>4. (s \o t) \o <<x>> = s \o (t \o <<x>>)
    BY <1>1, ConcatAssociative
  <1> QED BY <1>2, <1>3, <1>4

LEMMA RepliesAre ==
  ASSUME NEW v \in Seq(CallIds)
  PROVE  /\ Replies(v) \in Seq(GoodItems) /\ Len(Replies(v)) = Len(v)
         /\ \A i \in 1 .. Len(v) : Replies(v)[i] = ToolResultHistory(v[i])
  <1>1. DOMAIN v = 1 .. Len(v) /\ Len(v) \in Nat /\ \A i \in 1 .. Len(v) : v[i] \in CallIds
    OBVIOUS
  <1>2. \A i \in 1 .. Len(v) : ToolResultHistory(v[i]) \in GoodItems
    BY <1>1 DEF GoodItems
  <1>3. Replies(v) = [i \in 1 .. Len(v) |-> ToolResultHistory(v[i])]
    BY <1>1 DEF Replies
  <1> HIDE DEF Replies
  <1> QED BY <1>1, <1>2, <1>3

LEMMA RepliesConcat ==
  ASSUME NEW v \in Seq(CallIds), NEW w \in Seq(CallIds)
  PROVE  Replies(v \o w) = Replies(v) \o Replies(w)
  <1> DEFINE z == v \o w
             l == Replies(z)
             r == Replies(v) \o Replies(w)
             n == Len(v)
             m == Len(w)
  <1>1. /\ z \in Seq(CallIds) /\ Len(z) = n + m
        /\ \A i \in 1 .. n + m : z[i] = IF i <= n THEN v[i] ELSE w[i - n]
    BY ConcatProperties
  <1>2. /\ Replies(v) \in Seq(GoodItems) /\ Len(Replies(v)) = n
        /\ \A i \in 1 .. n : Replies(v)[i] = ToolResultHistory(v[i])
        /\ Replies(w) \in Seq(GoodItems) /\ Len(Replies(w)) = m
        /\ \A i \in 1 .. m : Replies(w)[i] = ToolResultHistory(w[i])
    BY RepliesAre
  <1> HIDE DEF z
  <1>3. /\ l \in Seq(GoodItems) /\ Len(l) = n + m
        /\ \A i \in 1 .. n + m : l[i] = ToolResultHistory(z[i])
    BY <1>1, RepliesAre
  <1>4. /\ r \in Seq(GoodItems) /\ Len(r) = n + m
        /\ \A i \in 1 .. n + m : r[i] = IF i <= n THEN Replies(v)[i] ELSE Replies(w)[i - n]
    <2> DEFINE x == Replies(v)
               y == Replies(w)
    <2>1. x \in Seq(GoodItems) /\ y \in Seq(GoodItems) /\ Len(x) = n /\ Len(y) = m
      BY <1>2
    <2> HIDE DEF x, y
    <2>2. /\ x \o y \in Seq(GoodItems) /\ Len(x \o y) = Len(x) + Len(y)
          /\ \A i \in 1 .. Len(x) + Len(y) : (x \o y)[i] = IF i <= Len(x) THEN x[i] ELSE y[i - Len(x)]
      BY <2>1, ConcatProperties
    <2> HIDE DEF n, m
    <2>3. /\ x \o y \in Seq(GoodItems) /\ Len(x \o y) = n + m
          /\ \A i \in 1 .. n + m : (x \o y)[i] = IF i <= n THEN x[i] ELSE y[i - n]
      BY <2>1, <2>2
    <2> QED BY <2>3 DEF x, y
  <1>5. n \in Nat /\ m \in Nat
    OBVIOUS
  <1> HIDE DEF l, r, n, m
  <1>6. ASSUME NEW i \in 1 .. n + m PROVE l[i] = r[i]
    <2>1. CASE i <= n
      <3>1. i \in 1 .. n
        BY <1>5, <2>1
      <3> QED BY <1>1, <1>2, <1>3, <1>4, <2>1, <3>1
    <2>2. CASE ~(i <= n)
      <3>1. i - n \in 1 .. m
        BY <1>5, <2>2
      <3> QED BY <1>1, <1>2, <1>3, <1>4, <2>2, <3>1
    <2> QED BY <2>1, <2>2
  <1>7. l = r
    BY <1>3, <1>4, <1>6, SeqEqual
  <1> QED BY <1>7 DEF l, r, z

\* With the results of the rest it is paired ...
LEMMA HalfwayEnds ==
  ASSUME NEW h, NEW w, Halfway(h, w) PROVE Paired(h \o Replies(w)) /\ (w = <<>> => Paired(h))
  <1>1. PICK p \in Seq(GoodItems), a \in GoodItems, v \in Seq(CallIds) :
          /\ Paired(p) /\ a.item # "ToolResult"
          /\ h = Append(p, a) \o Replies(v)
          /\ Names(v \o w, Owes(a))
    BY DEF Halfway
  <1>2. w \in Seq(CallIds)
    BY DEF Halfway
  <1>3. v \o w \in Seq(CallIds)
    BY <1>2, ConcatProperties
  <1>4. Paired(Append(p, a) \o Replies(v \o w))
    BY <1>1, <1>3, ExchangeIsPaired
  <1>5. Append(p, a) \in Seq(GoodItems)
    BY AppendProperties
  <1>9. Replies(v) \in Seq(GoodItems) /\ Replies(w) \in Seq(GoodItems)
    BY <1>2, RepliesAre
  <1>6. h \o Replies(w) = Append(p, a) \o (Replies(v) \o Replies(w))
    BY <1>1, <1>5, <1>9, ConcatAssociative
  <1>7. Paired(h \o Replies(w))
    BY <1>2, <1>4, <1>6, RepliesConcat
  <1>8. ASSUME w = <<>> PROVE Paired(h)
    <2>1. v \o w = v
      BY <1>8, ConcatEmptySeq
    <2> QED BY <1>1, <1>4, <2>1
  <1> QED BY <1>7, <1>8

\* ... and one result more leaves it halfway.
LEMMA HalfwayGoesOn ==
  ASSUME NEW h, NEW w, Halfway(h, w), w # <<>>
  PROVE  Halfway(Append(h, ToolResultHistory(Head(w))), Tail(w))
  <1>1. PICK p \in Seq(GoodItems), a \in GoodItems, v \in Seq(CallIds) :
          /\ Paired(p) /\ a.item # "ToolResult"
          /\ h = Append(p, a) \o Replies(v)
          /\ Names(v \o w, Owes(a))
    BY DEF Halfway
  <1>2. w \in Seq(CallIds) /\ Head(w) \in CallIds /\ Tail(w) \in Seq(CallIds)
    BY HeadTailProperties DEF Halfway
  <1> DEFINE b == Head(w)
             v2 == Append(v, b)
  <1>3. v2 \in Seq(CallIds) /\ <<b>> \in Seq(CallIds) /\ v2 = v \o <<b>>
    BY <1>2, AppendProperties, AppendIsConcat
  <1>4. v2 \o Tail(w) = v \o w
    <2>1. <<b>> \o Tail(w) = w
      BY <1>2
    <2>2. (v \o <<b>>) \o Tail(w) = v \o (<<b>> \o Tail(w))
      BY <1>2, <1>3, ConcatAssociative
    <2> QED BY <1>3, <2>1, <2>2
  <1>5. Append(p, a) \in Seq(GoodItems) /\ Replies(v) \in Seq(GoodItems) /\ ToolResultHistory(b) \in GoodItems
    <2>1. Append(p, a) \in Seq(GoodItems)
      BY AppendProperties
    <2>2. Replies(v) \in Seq(GoodItems)
      BY RepliesAre
    <2>3. ToolResultHistory(b) \in GoodItems
      BY <1>2 DEF GoodItems
    <2> QED BY <2>1, <2>2, <2>3
  <1>6. Replies(v2) = Append(Replies(v), ToolResultHistory(b))
    <2>1. Replies(v2) = Replies(v) \o Replies(<<b>>)
      BY <1>3, RepliesConcat
    <2>2. Replies(<<b>>) = <<ToolResultHistory(b)>>
      BY DEF Replies
    <2>3. Append(Replies(v), ToolResultHistory(b)) = Replies(v) \o <<ToolResultHistory(b)>>
      BY <1>5, AppendIsConcat
    <2> QED BY <2>1, <2>2, <2>3
  <1> HIDE DEF b, v2
  <1>7. Append(h, ToolResultHistory(b)) = Append(p, a) \o Replies(v2)
    <2> DEFINE q == Append(p, a)
               s == Replies(v)
               x == ToolResultHistory(b)
    <2>1. q \in Seq(GoodItems) /\ s \in Seq(GoodItems) /\ x \in GoodItems
      BY <1>5
    <2>2. h = q \o s /\ Replies(v2) = Append(s, x)
      BY <1>1, <1>6
    <2> HIDE DEF q, s, x
    <2>3. q \o Append(s, x) = Append(q \o s, x)
      BY <2>1, AppendBehind
    <2>4. Append(h, x) = q \o Replies(v2)
      BY <2>2, <2>3
    <2> QED BY <2>4 DEF q, x
  <1>8. Names(v2 \o Tail(w), Owes(a))
    BY <1>1, <1>4
  <1>9. Halfway(Append(h, ToolResultHistory(b)), Tail(w))
    BY <1>1, <1>2, <1>3, <1>7, <1>8 DEF Halfway
  <1> QED BY <1>9 DEF b

\* An item without calls is an exchange of its own.
LEMMA SimpleItem ==
  ASSUME NEW p, Paired(p), NEW a \in GoodItems, a.item # "ToolResult", Owes(a) = {}
  PROVE  Paired(Append(p, a))
  <1> DEFINE v == <<>>
  <1>1. v \in Seq(CallIds) /\ Names(v, Owes(a))
    BY DEF Names
  <1>2. Paired(Append(p, a) \o Replies(v))
    BY <1>1, ExchangeIsPaired
  <1>3. Replies(v) = <<>>
    BY DEF Replies
  <1>4. Append(p, a) \in Seq(GoodItems)
    BY AppendProperties DEF Paired
  <1> QED BY <1>2, <1>3, <1>4, ConcatEmptySeq

\* A response opens an exchange, and closes it at once when it calls nothing.
LEMMA ResponseOpens ==
  ASSUME NEW p, Paired(p), NEW r \in Responses, NEW u \in Usages
  PROVE  LET calls == CallsOf(r.parts)
             ids   == [i \in DOMAIN calls |-> calls[i].id]
             h     == Append(p, Answered(r, u))
         IN  Halfway(h, ids) /\ (calls = <<>> => Paired(h))
  <1> DEFINE calls == CallsOf(r.parts)
             ids == [i \in DOMAIN calls |-> calls[i].id]
             a == Answered(r, u)
             h == Append(p, a)
             v == <<>>
  <1>1. a \in GoodItems /\ a.item # "ToolResult" /\ Owes(a) = CallIdsOf(r.parts)
    BY DEF GoodItems, Answered, Owes
  <1>2. ids \in Seq(CallIds) /\ Names(ids, Owes(a)) /\ (calls = <<>> => Owes(a) = {})
    BY <1>1, BatchNames
  <1> HIDE DEF a, ids, calls
  <1>3. p \in Seq(GoodItems) /\ v \in Seq(CallIds) /\ v \o ids = ids /\ Replies(v) = <<>>
    BY <1>2, ConcatEmptySeq DEF Paired, Replies
  <1>4. h = h \o Replies(v)
    BY <1>1, <1>3, AppendProperties, ConcatEmptySeq
  <1>5. Names(v \o ids, Owes(a))
    BY <1>2, <1>3
  <1>6. Halfway(h, ids)
    BY <1>1, <1>2, <1>3, <1>4, <1>5 DEF Halfway
  <1>7. calls = <<>> => Paired(h)
    BY <1>1, <1>2, SimpleItem
  <1> QED BY <1>6, <1>7 DEF a, ids, calls

-----------------------------------------------------------------------------
(* The session. *)

\* As long as it was sound, a session's history is paired: the host's own, and with the delta of the
\* loop, but for the rest of the batch.  And there is something to ask for.
HistoryGood ==
  /\ outcome # "Prompt"
  /\ Paired(base) /\ appended \in Seq(GoodItems)
  /\ phase # "Batch" => Paired(base \o appended)
  /\ phase = "Batch" => Halfway(base \o appended, batch)
  /\ phase \in {"Boundary", "Model", "Batch"} => appended # <<>>

UsableInv == sound => HistoryGood

\* The delta grows by one item.
LEMMA DeltaGrows ==
  ASSUME HistoryGood, NEW x \in GoodItems
  PROVE  /\ base \in Seq(GoodItems) /\ base \o appended \in Seq(GoodItems)
         /\ Append(appended, x) \in Seq(GoodItems) /\ Append(appended, x) # <<>>
         /\ base \o Append(appended, x) = Append(base \o appended, x)
  <1>1. base \in Seq(GoodItems) /\ appended \in Seq(GoodItems)
    BY DEF HistoryGood, Paired
  <1>2. base \o appended \in Seq(GoodItems)
    BY <1>1, ConcatProperties
  <1>3. Append(appended, x) \in Seq(GoodItems) /\ Append(appended, x) # <<>>
    BY <1>1, AppendProperties
  <1>4. base \o Append(appended, x) = Append(base \o appended, x)
    BY <1>1, AppendBehind
  <1> QED BY <1>1, <1>2, <1>3, <1>4

\* Inputs.
LEMMA InputKeepsUsable ==
  ASSUME UsageInv, UsableInv, NEW t \in InputTexts, Start(t) \/ TakesInput(t)
  PROVE  UsableInv'
  <1> SUFFICES ASSUME sound' PROVE HistoryGood'
    BY DEF UsableInv
  <1> DEFINE x == UserHistory("Clean")
  <1>1. sound /\ t = "Clean"
    BY DEF Start, TakesInput
  <1>2. HistoryGood
    BY <1>1 DEF UsableInv
  <1>3. x \in GoodItems /\ x.item # "ToolResult" /\ Owes(x) = {}
    BY DEF GoodItems, UserHistory, Owes
  <1>4. appended' = Append(appended, x) /\ phase' = "Boundary" /\ UNCHANGED <<base, outcome>> /\ phase # "Batch"
    <2>1. CASE Start(t)
      <3>1. appended = <<>>
        BY <2>1 DEF UsageInv, Start
      <3> QED BY <1>1, <2>1, <3>1 DEF Start
    <2>2. CASE TakesInput(t)
      BY <1>1, <2>2 DEF TakesInput
    <2> QED BY <2>1, <2>2
  <1> HIDE DEF x
  <1>5. Paired(base \o appended)
    BY <1>2, <1>4 DEF HistoryGood
  <1>6. Paired(base \o Append(appended, x))
    BY <1>2, <1>3, <1>5, DeltaGrows, SimpleItem
  <1>7. Append(appended, x) \in Seq(GoodItems) /\ Append(appended, x) # <<>>
    BY <1>2, <1>3, DeltaGrows
  <1> QED BY <1>2, <1>4, <1>6, <1>7 DEF HistoryGood

\* A request is accepted: there is no other way to end as Prompt.
LEMMA RequestKeepsUsable ==
  ASSUME UsageInv, UsableInv, Request \/ Stops \/ LoopPanics
  PROVE  UsableInv'
  <1> SUFFICES ASSUME sound' PROVE HistoryGood'
    BY DEF UsableInv
  <1>1. sound
    BY DEF Request, Stops, LoopPanics
  <1>2. HistoryGood
    BY <1>1 DEF UsableInv
  <1>3. CASE Request
    <2>1. phase = "Boundary" /\ UNCHANGED <<base, appended>>
      BY <1>3 DEF Request
    <2>2. Paired(base \o appended) /\ appended # <<>> /\ base \in Seq(GoodItems) /\ appended \in Seq(GoodItems)
      BY <1>2, <2>1 DEF HistoryGood, Paired
    <2>3. base \o appended # <<>>
      BY <2>2, ConcatEqualIffEmpty
    <2>4. Accepted(base \o appended)
      BY <2>2, <2>3, PairedIsAccepted
    <2>5. phase' = "Model" /\ UNCHANGED outcome
      BY <1>3, <2>4 DEF Request
    <2> QED BY <1>2, <2>1, <2>2, <2>5 DEF HistoryGood
  <1>4. CASE Stops
    <2>1. phase # "Batch" /\ phase' = "Reported" /\ outcome' = "Stopped" /\ UNCHANGED <<base, appended>>
      BY <1>4 DEF Stops, Report
    <2> QED BY <1>2, <2>1 DEF HistoryGood
  <1>5. CASE LoopPanics
    <2>1. phase' = "Reported" /\ outcome' = "Internal" /\ appended' = <<>> /\ UNCHANGED base
      BY <1>5 DEF LoopPanics, Report
    <2>2. base \o <<>> = base
      BY <1>2, ConcatEmptySeq DEF HistoryGood, Paired
    <2>3. <<>> \in Seq(GoodItems)
      OBVIOUS
    <2> QED BY <1>2, <2>1, <2>2, <2>3 DEF HistoryGood
  <1> QED BY <1>3, <1>4, <1>5

\* A response opens an exchange, or is not appended.
LEMMA ResponseKeepsUsable ==
  ASSUME UsageInv, UsableInv, NEW u \in Usages,
         Overflow(u) \/ Unsupported(u) \/ \E r \in Responses : Responds(r, u)
  PROVE  UsableInv'
  <1> SUFFICES ASSUME sound' PROVE HistoryGood'
    BY DEF UsableInv
  <1>1. sound /\ phase = "Model" /\ UNCHANGED base
    BY DEF Overflow, Unsupported, Responds
  <1>2. HistoryGood
    BY <1>1 DEF UsableInv
  <1>3. Paired(base \o appended)
    BY <1>1, <1>2 DEF HistoryGood
  <1>4. CASE Overflow(u) \/ Unsupported(u)
    <2>1. /\ phase' = "Reported" /\ outcome' \in {"Overflow", "InvalidModelResponse"}
          /\ UNCHANGED <<base, appended>>
      BY <1>4 DEF Overflow, Unsupported, Report
    <2> QED BY <1>2, <1>3, <2>1 DEF HistoryGood
  <1>5. ASSUME NEW r \in Responses, Responds(r, u) PROVE HistoryGood'
    <2> DEFINE calls == CallsOf(r.parts)
               ids == [i \in DOMAIN calls |-> calls[i].id]
               x == Answered(r, u)
               h == Append(base \o appended, x)
    <2>1. /\ appended' = Append(appended, x)
          /\ \/ calls = <<>> /\ phase' = "Reported" /\ outcome' = "Final"
             \/ phase' = "Batch" /\ batch' = ids /\ UNCHANGED outcome
      BY <1>5 DEF Responds, Report
    <2>2. Halfway(h, ids) /\ (calls = <<>> => Paired(h))
      BY <1>3, ResponseOpens
    <2>3. x \in GoodItems
      BY DEF GoodItems
    <2> HIDE DEF x, ids, calls
    <2>4. base \o Append(appended, x) = h /\ Append(appended, x) \in Seq(GoodItems) /\ Append(appended, x) # <<>>
      BY <1>2, <2>3, DeltaGrows
    <2>5. base' \o appended' = h /\ appended' \in Seq(GoodItems) /\ appended' # <<>>
      BY <1>1, <2>1, <2>4
    <2> HIDE DEF h
    <2>6. outcome' # "Prompt" /\ Paired(base)'
      BY <1>1, <1>2, <2>1 DEF HistoryGood
    <2>7. CASE calls = <<>> /\ phase' = "Reported"
      BY <2>2, <2>5, <2>6, <2>7 DEF HistoryGood
    <2>8. CASE phase' = "Batch" /\ batch' = ids
      <3>1. Halfway(base \o appended, batch)'
        BY <2>2, <2>5, <2>8
      <3> QED BY <2>5, <2>6, <2>8, <3>1 DEF HistoryGood
    <2> QED BY <2>1, <2>7, <2>8
  <1> QED BY <1>4, <1>5

\* The calls are settled one by one, or together when the loop ends.
LEMMA BatchKeepsUsable ==
  ASSUME UsageInv, UsableInv, CallSettles \/ BatchEnds
  PROVE  UsableInv'
  <1> SUFFICES ASSUME sound' PROVE HistoryGood'
    BY DEF UsableInv
  <1>1. sound /\ phase = "Batch" /\ UNCHANGED base
    BY DEF CallSettles, BatchEnds
  <1>2. HistoryGood
    BY <1>1 DEF UsableInv
  <1>3. /\ Halfway(base \o appended, batch) /\ batch # <<>> /\ batch \in Seq(CallIds)
        /\ base \in Seq(GoodItems) /\ appended \in Seq(GoodItems) /\ appended # <<>>
    BY <1>1, <1>2 DEF HistoryGood, Halfway, UsageInv, Paired
  <1>4. CASE CallSettles
    <2> DEFINE x == ToolResultHistory(Head(batch))
    <2>1. /\ appended' = Append(appended, x) /\ batch' = Tail(batch) /\ UNCHANGED outcome
          /\ phase' = IF batch' = <<>> THEN "Boundary" ELSE "Batch"
      BY <1>4 DEF CallSettles
    <2>2. Head(batch) \in CallIds
      BY <1>3, HeadTailProperties
    <2>3. x \in GoodItems
      BY <2>2 DEF GoodItems
    <2>4. Halfway(Append(base \o appended, x), Tail(batch))
      BY <1>3, HalfwayGoesOn
    <2> HIDE DEF x
    <2>5. /\ base \o Append(appended, x) = Append(base \o appended, x)
          /\ Append(appended, x) \in Seq(GoodItems) /\ Append(appended, x) # <<>>
      BY <1>2, <2>3, DeltaGrows
    <2>6. Halfway(base \o appended, batch)'
      BY <1>1, <2>1, <2>4, <2>5
    <2>7. batch' = <<>> => Paired(base \o appended)'
      BY <2>6, HalfwayEnds
    <2> QED BY <1>1, <1>2, <2>1, <2>5, <2>6, <2>7 DEF HistoryGood
  <1>5. CASE BatchEnds
    <2>1. appended' = appended \o Replies(batch) /\ phase' = "Reported" /\ outcome' = "Stopped"
      BY <1>5 DEF BatchEnds, Report, Replies
    <2>2. Paired((base \o appended) \o Replies(batch)) /\ Replies(batch) \in Seq(GoodItems)
      BY <1>3, HalfwayEnds, RepliesAre
    <2>3. (base \o appended) \o Replies(batch) = base \o (appended \o Replies(batch))
      BY <1>3, <2>2, ConcatAssociative
    <2>4. appended \o Replies(batch) \in Seq(GoodItems)
      BY <1>3, <2>2, ConcatProperties
    <2>5. Paired(base \o appended)' /\ (appended \in Seq(GoodItems))'
      BY <1>1, <2>1, <2>2, <2>3, <2>4
    <2> QED BY <1>1, <1>2, <2>1, <2>5 DEF HistoryGood
  <1> QED BY <1>4, <1>5

\* The host folds, drops, compacts, undoes or restarts.
LEMMA HostKeepsUsable ==
  ASSUME UsageInv, UsableInv,
         \/ Folds \/ Drops \/ Restarts
         \/ \E k \in DOMAIN base : Undoes(k) \/ \E t \in InputTexts : Compacts(k, t)
  PROVE  UsableInv'
  <1> SUFFICES ASSUME sound' PROVE HistoryGood'
    BY DEF UsableInv
  <1>1. sound
    BY DEF Folds, Drops, Restarts, Undoes, Compacts
  <1>2. HistoryGood
    BY <1>1 DEF UsableInv
  <1>3. <<>> \in Seq(GoodItems)
    OBVIOUS
  <1>4. ASSUME Paired(base'), appended' = <<>>, phase' = "Host", UNCHANGED outcome PROVE HistoryGood'
    <2>1. base' \o <<>> = base'
      BY <1>4, ConcatEmptySeq DEF Paired
    <2>2. Paired(base \o appended)'
      BY <1>4, <2>1
    <2>3. (appended \in Seq(GoodItems))'
      BY <1>3, <1>4
    <2> QED BY <1>2, <1>4, <2>2, <2>3 DEF HistoryGood
  <1>5. CASE Folds \/ Drops
    <2>1. /\ appended' = <<>> /\ phase' = "Host" /\ UNCHANGED outcome /\ phase = "Reported"
          /\ base' = base \o appended \/ base' = base
      BY <1>5 DEF Folds, Drops, LetGo
    <2>2. Paired(base')
      BY <1>2, <2>1 DEF HistoryGood
    <2> QED BY <1>4, <2>1, <2>2
  <1>6. ASSUME phase = "Host", UNCHANGED <<appended, phase, outcome>>, Paired(base') PROVE HistoryGood'
    BY <1>4, <1>6 DEF UsageInv
  <1>7. CASE Restarts
    <2>1. /\ phase = "Host" /\ UNCHANGED <<appended, phase, outcome>>
          /\ base' = [i \in DOMAIN base |-> Reloaded(base[i])]
      BY <1>7 DEF Restarts
    <2>2. base \in Seq(GoodItems) /\ Paired(base)
      BY <1>2 DEF HistoryGood, Paired
    <2>3. \A i \in DOMAIN base : Reloaded(base[i]) = base[i]
      <3>1. \A i \in DOMAIN base : base[i] \in GoodItems
        BY <2>2
      <3> QED BY <3>1, GoodItem
    <2>4. base' = [i \in DOMAIN base |-> base[i]]
      BY <2>1, <2>3
    <2>5. base' = base
      BY <2>2, <2>4
    <2> QED BY <1>6, <2>1, <2>2, <2>5
  <1>8. ASSUME NEW k \in DOMAIN base, Undoes(k) PROVE HistoryGood'
    <2>1. /\ phase = "Host" /\ UNCHANGED <<appended, phase, outcome>>
          /\ base' = SubSeq(base, 1, k) /\ CutsCleanly(base, k)
      BY <1>8 DEF Undoes
    <2>2. Paired(base')
      BY <1>2, <2>1, CutKeepsFront DEF HistoryGood
    <2> QED BY <1>6, <2>1, <2>2
  <1>9. ASSUME NEW k \in DOMAIN base, NEW t \in InputTexts, Compacts(k, t) PROVE HistoryGood'
    <2> DEFINE x == SummaryHistory(t)
    <2>1. /\ phase = "Host" /\ UNCHANGED <<appended, phase, outcome>>
          /\ base' = <<x>> \o SubSeq(base, k + 1, Len(base)) /\ CutsCleanly(base, k) /\ t # "Raw"
      BY <1>9 DEF Compacts
    <2>2. t \in {"Clean", "Empty"}
      BY <2>1, SessionAssumption DEF BoundedTexts, Texts
    <2>3. x \in GoodItems /\ x.item # "ToolResult" /\ Owes(x) = {}
      BY <2>2 DEF GoodItems, SummaryHistory, Owes
    <2> HIDE DEF x
    <2>4. Paired(base')
      BY <1>2, <2>1, <2>3, CutKeepsBack DEF HistoryGood
    <2> QED BY <1>6, <2>1, <2>4
  <1> QED BY <1>5, <1>7, <1>8, <1>9

LEMMA UsableStep == UsageInv /\ UsableInv /\ [SessionNext]_sessionVars => UsableInv'
  <1> SUFFICES ASSUME UsageInv, UsableInv, [SessionNext]_sessionVars PROVE UsableInv'
    OBVIOUS
  <1>1. CASE UNCHANGED sessionVars
    <2>1. UNCHANGED <<base, appended, phase, batch, outcome, sound>>
      BY <1>1 DEF sessionVars
    <2> QED BY <2>1 DEF UsableInv, HistoryGood
  <1>2. ASSUME NEW t \in InputTexts, Start(t) \/ TakesInput(t) PROVE UsableInv'
    BY <1>2, InputKeepsUsable
  <1>3. CASE Request \/ Stops \/ LoopPanics
    BY <1>3, RequestKeepsUsable
  <1>4. ASSUME NEW u \in Usages, Overflow(u) \/ Unsupported(u) \/ \E r \in Responses : Responds(r, u)
        PROVE  UsableInv'
    BY <1>4, ResponseKeepsUsable
  <1>5. CASE CallSettles \/ BatchEnds
    BY <1>5, BatchKeepsUsable
  <1>6. CASE \/ Folds \/ Drops \/ Restarts
             \/ \E k \in DOMAIN base : Undoes(k) \/ \E t \in InputTexts : Compacts(k, t)
    BY <1>6, HostKeepsUsable
  <1>7. CASE SessionDone
    BY <1>1, <1>7 DEF SessionDone
  <1> QED BY <1>1, <1>2, <1>3, <1>4, <1>5, <1>6, <1>7 DEF SessionNext

LEMMA UsableInit == SessionInit => UsableInv
  <1> SUFFICES ASSUME SessionInit PROVE HistoryGood
    BY DEF UsableInv
  <1>1. base = <<>> /\ appended = <<>> /\ phase = "Host" /\ outcome = "None"
    BY DEF SessionInit
  <1>2. <<>> \in Seq(GoodItems) /\ Paired(<<>>)
    BY DEF Paired
  <1>3. base \o appended = <<>>
    BY <1>1, <1>2, ConcatEmptySeq
  <1> QED BY <1>1, <1>2, <1>3 DEF HistoryGood

\* However the loops of a session ended (in the middle of a batch, out of rounds, panicked) and
\* whatever the host did between them, as long as every text was clean and the history was cut
\* between exchanges only, no loop fails as Prompt (validate_tool_exchange) and the history
\* can be read back after a restart.
THEOREM SessionsStayUsable == SessionSpec => []SessionStaysUsable
  <1>1. UsableInv => SessionStaysUsable
    <2> SUFFICES ASSUME UsableInv, sound
                 PROVE  outcome # "Prompt" /\ \A i \in DOMAIN base : ItemReloads(base[i])
      BY DEF SessionStaysUsable
    <2>1. outcome # "Prompt" /\ base \in Seq(GoodItems)
      BY DEF UsableInv, HistoryGood, Paired
    <2>2. \A i \in DOMAIN base : base[i] \in GoodItems
      BY <2>1
    <2> QED BY <2>1, <2>2, GoodItem
  <1> QED BY <1>1, UsageInit, UsageStep, UsableInit, UsableStep, PTL DEF SessionSpec
=============================================================================
