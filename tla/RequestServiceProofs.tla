------------------------ MODULE RequestServiceProofs ------------------------
(* The safety properties of RequestService for any number of requests, permits
   and queries.

   ServiceInv is inductive.  The semaphore is the heart of it: whoever gives a
   permit up either raises the counter or hands the permit to the first waiter,
   and the waiters are the queued coroutines, each of them once (QueueInv), so
   that the number of holders and the counter always move together
   (ReleaseStep).  What the coroutines do besides is a move of one coroutine
   (MoveStep, LeaveStep), what the worker threads do is a step of one thread
   (WorkStep).                                                              *)
EXTENDS RequestService, FiniteSetTheorems, SequenceTheorems, TLAPS

Results == {"none", "safe", "verified", "error", "cancelled"}

-----------------------------------------------------------------------------
(* The waiters' queue *)

\* RemoveAt takes one element out and keeps the order of the others
\* (the deque's remove in asyncio.Semaphore.acquire).
LEMMA RemoveAtProperties ==
    ASSUME NEW S, NEW s \in Seq(S), NEW i \in 1..Len(s)
    PROVE  /\ RemoveAt(s, i) \in Seq(S)
           /\ Len(RemoveAt(s, i)) = Len(s) - 1
           /\ \A j \in 1..(Len(s) - 1) :
                 RemoveAt(s, i)[j] = IF j < i THEN s[j] ELSE s[j + 1]
<1>1. /\ SubSeq(s, 1, i - 1) \in Seq(S)
      /\ Len(SubSeq(s, 1, i - 1)) = i - 1
      /\ \A j \in 1..(i - 1) : SubSeq(s, 1, i - 1)[j] = s[j]
  <2>1. \A j \in 1..(i - 1) : s[j] \in S
    BY ElementOfSeq
  <2> QED
    BY <2>1, SubSeqProperties
<1>2. /\ SubSeq(s, i + 1, Len(s)) \in Seq(S)
      /\ Len(SubSeq(s, i + 1, Len(s))) = Len(s) - i
      /\ \A j \in 1..(Len(s) - i) : SubSeq(s, i + 1, Len(s))[j] = s[i + j]
  <2>1. \A j \in (i + 1)..Len(s) : s[j] \in S
    BY ElementOfSeq
  <2> QED
    BY <2>1, SubSeqProperties
<1> DEFINE a == SubSeq(s, 1, i - 1)
           b == SubSeq(s, i + 1, Len(s))
<1>3. /\ a \o b \in Seq(S)
      /\ Len(a \o b) = Len(a) + Len(b)
      /\ \A j \in 1..(Len(a) + Len(b)) :
            (a \o b)[j] = IF j <= Len(a) THEN a[j] ELSE b[j - Len(a)]
  BY <1>1, <1>2, ConcatProperties
<1>4. RemoveAt(s, i) = a \o b
  BY DEF RemoveAt
<1> HIDE DEF a, b
<1>5. Len(a) = i - 1 /\ Len(b) = Len(s) - i /\ Len(s) \in Nat
  BY <1>1, <1>2 DEF a, b
<1>6. ASSUME NEW j \in 1..(Len(s) - 1)
      PROVE  (a \o b)[j] = IF j < i THEN s[j] ELSE s[j + 1]
  <2>1. j \in 1..(Len(a) + Len(b))
    BY <1>5
  <2>2. CASE j < i
    BY <2>1, <2>2, <1>1, <1>3, <1>5 DEF a
  <2>3. CASE ~(j < i)
    <3>1. j - Len(a) \in 1..(Len(s) - i) /\ i + (j - Len(a)) = j + 1
      BY <2>3, <1>5
    <3>2. b[j - Len(a)] = s[j + 1]
      BY <3>1, <1>2 DEF b
    <3> QED
      BY <2>1, <2>3, <3>2, <1>3, <1>5
  <2> QED
    BY <2>2, <2>3
<1> QED
  BY <1>3, <1>4, <1>5, <1>6

-----------------------------------------------------------------------------
(* The permits *)

\* The holders of permits are finitely many.
LEMMA HoldersFinite ==
    IsFiniteSet(Holders) /\ Cardinality(Holders) \in Nat
<1>1. Holders \in SUBSET Requests
  BY DEF Holders
<1> QED
  BY <1>1, ServiceAssumption, FS_Subset, FS_CardinalityType

\* Semaphore.release, by a coroutine or by a done callback: one holder r gives its
\* permit up, and either the counter or the set of holders gets it.
LEMMA ReleaseStep ==
    ASSUME ServiceInv, NEW r \in Requests, NEW newPc \in [Requests -> Pcs],
           Release(newPc), r \in Holders,
           {q \in Requests : newPc[q] \in Stages \cup {"granted"} \/ q \in owed'}
              = Holders \ {r},
           \A q \in Requests : newPc[q] = "queued" <=> pc[q] = "queued"
    PROVE  /\ pc' \in [Requests -> Pcs]
           /\ permits' \in 0..Permits
           /\ queue' \in Seq(Requests)
           /\ PermitsConserved' /\ QueueInv'
           /\ \A q \in Requests : \/ pc'[q] = newPc[q]
                                  \/ pc[q] = "queued" /\ pc'[q] = "granted"
<1> USE ServiceAssumption
<1>1. /\ queue \in Seq(Requests) /\ permits \in 0..Permits
      /\ permits + Cardinality(Holders) = Permits
  BY DEF ServiceInv, TypeOK, PermitsConserved
<1>2. /\ \A i, j \in 1..Len(queue) : queue[i] = queue[j] => i = j
      /\ \A q \in Requests : pc[q] = "queued" <=> \E i \in 1..Len(queue) : queue[i] = q
  BY DEF ServiceInv, QueueInv
<1>3. /\ Cardinality(Holders \ {r}) = Cardinality(Holders) - 1
      /\ IsFiniteSet(Holders \ {r}) /\ Cardinality(Holders \ {r}) \in Nat
  BY HoldersFinite, FS_RemoveElement, FS_CardinalityType
<1>4. CASE queue = <<>>
  <2>1. pc' = newPc /\ permits' = permits + 1 /\ queue' = queue
    BY <1>4 DEF Release
  <2>2. Holders' = Holders \ {r}
    BY <2>1 DEF Holders
  <2>3. PermitsConserved' /\ permits' \in 0..Permits
    BY <2>1, <2>2, <1>1, <1>3, HoldersFinite DEF PermitsConserved
  <2>4. QueueInv'
    BY <2>1, <1>2 DEF QueueInv
  <2> QED
    BY <2>1, <2>3, <2>4, <1>1
<1>5. CASE queue # <<>>
  <2> DEFINE h == Head(queue)
  <2>1. /\ pc' = [newPc EXCEPT ![h] = "granted"]
        /\ queue' = Tail(queue) /\ permits' = permits
    BY <1>5 DEF Release
  <2>2. /\ h \in Requests /\ h = queue[1] /\ Len(queue) \in Nat \ {0}
        /\ Tail(queue) \in Seq(Requests) /\ Len(Tail(queue)) = Len(queue) - 1
        /\ \A i \in 1..(Len(queue) - 1) : Tail(queue)[i] = queue[i + 1]
    BY <1>1, <1>5, HeadTailProperties, EmptySeq
  <2> HIDE DEF h
  <2>3. pc[h] = "queued" /\ newPc[h] = "queued"
    BY <1>2, <2>2
  <2>4. /\ pc' \in [Requests -> Pcs]
        /\ \A q \in Requests : pc'[q] = IF q = h THEN "granted" ELSE newPc[q]
    BY <2>1, <2>2 DEF Pcs
  <2>5. h \notin Holders
    BY <2>2, <2>3 DEF ServiceInv, OwedInv, Holders, Stages
  <2>6. Holders' = (Holders \ {r}) \cup {h}
    BY <2>2, <2>4 DEF Holders
  <2>7. Cardinality(Holders') = Cardinality(Holders)
    <3>1. Cardinality((Holders \ {r}) \cup {h}) = Cardinality(Holders \ {r}) + 1
      BY <2>5, <1>3, FS_AddElement
    <3> QED
      BY <2>6, <3>1, <1>3, HoldersFinite
  <2>8. PermitsConserved' /\ permits' \in 0..Permits
    BY <2>1, <2>7, <1>1 DEF PermitsConserved
  <2>9. QueueInv'
    <3>1. ASSUME NEW i \in 1..Len(queue'), NEW j \in 1..Len(queue'), queue'[i] = queue'[j]
          PROVE  i = j
      BY <3>1, <2>1, <2>2, <1>2
    <3>2. ASSUME NEW q \in Requests
          PROVE  pc'[q] = "queued" <=> \E i \in 1..Len(queue') : queue'[i] = q
      <4>1. (\E i \in 1..Len(queue') : queue'[i] = q)
               <=> \E i \in 2..Len(queue) : queue[i] = q
        <5>1. ASSUME NEW i \in 1..Len(queue'), queue'[i] = q
              PROVE  i + 1 \in 2..Len(queue) /\ queue[i + 1] = q
          BY <5>1, <2>1, <2>2
        <5>2. ASSUME NEW i \in 2..Len(queue), queue[i] = q
              PROVE  i - 1 \in 1..Len(queue') /\ queue'[i - 1] = q
          BY <5>2, <2>1, <2>2
        <5> QED
          BY <5>1, <5>2
      <4>2. CASE q = h
        <5>1. ~ \E i \in 2..Len(queue) : queue[i] = q
          BY <4>2, <2>2, <1>2
        <5> QED
          BY <4>1, <4>2, <5>1, <2>4
      <4>3. CASE q # h
        <5>1. pc[q] = "queued" <=> \E i \in 2..Len(queue) : queue[i] = q
          BY <4>3, <2>2, <1>2
        <5> QED
          BY <4>1, <4>3, <5>1, <2>4
      <4> QED
        BY <4>2, <4>3
    <3> QED
      BY <3>1, <3>2 DEF QueueInv
  <2> QED
    BY <2>1, <2>2, <2>3, <2>4, <2>8, <2>9
<1> QED
  BY <1>4, <1>5

-----------------------------------------------------------------------------
(* The coroutines *)

\* A coroutine without a pending worker leaves the limiter's context, for good or
\* to serialize its answer.
LEMMA GiveUpStep ==
    ASSUME ServiceInv, NEW r \in Requests, NEW l \in {"publish", "done"},
           pc[r] \in Stages \cup {"granted"}, task[r] # "pending",
           Release(At(r, l)), result' \in [Requests -> Results], UNCHANGED owed,
           UNCHANGED <<taskVars, threadVars, phase, interrupted, server>>
    PROVE  ServiceInv'
<1> USE DEF taskVars, threadVars, ServiceInv
<1>1. TypeOK
  OBVIOUS
<1>2. At(r, l) \in [Requests -> Pcs] /\ At(r, l)[r] = l
  BY <1>1 DEF TypeOK, At, Pcs
<1>3. \A q \in Requests : q # r => At(r, l)[q] = pc[q]
  BY <1>1 DEF TypeOK, At
<1>4. r \in Holders /\ r \notin owed
  BY DEF Holders, OwedInv, Stages
<1>5. {q \in Requests : At(r, l)[q] \in Stages \cup {"granted"} \/ q \in owed'}
         = Holders \ {r}
  BY <1>2, <1>3, <1>4 DEF Holders, Stages
<1>6. \A q \in Requests : At(r, l)[q] = "queued" <=> pc[q] = "queued"
  BY <1>2, <1>3 DEF Stages
<1>7. /\ pc' \in [Requests -> Pcs]
      /\ permits' \in 0..Permits
      /\ queue' \in Seq(Requests)
      /\ PermitsConserved' /\ QueueInv'
      /\ \A q \in Requests : \/ pc'[q] = At(r, l)[q]
                             \/ pc[q] = "queued" /\ pc'[q] = "granted"
  BY <1>2, <1>4, <1>5, <1>6, ReleaseStep
<1>8. \A q \in Requests : \/ q = r /\ pc'[q] = l
                          \/ q # r /\ pc'[q] = pc[q]
                          \/ q # r /\ pc[q] = "queued" /\ pc'[q] = "granted"
  BY <1>2, <1>3, <1>7 DEF Stages
<1>9. TypeOK'
  BY <1>1, <1>7 DEF TypeOK, Results
<1>10. OwedInv'
  BY <1>1, <1>4, <1>8 DEF OwedInv, TypeOK
<1>11. TaskInv'
  BY <1>8 DEF TaskInv
<1>12. DatabaseInv' /\ InterruptIsOwn'
  BY DEF DatabaseInv, InterruptIsOwn
<1>13. DrainInv'
  BY <1>8 DEF DrainInv, Stages
<1> QED
  BY <1>7, <1>9, <1>10, <1>11, <1>12, <1>13

\* A coroutine that leaves the limiter with no worker behind it gives its permit back.
LEMMA LeaveStep ==
    ASSUME ServiceInv, NEW r \in Requests, NEW res \in Results,
           pc[r] \in Stages \cup {"granted"}, task[r] # "pending", Leave(r, res),
           UNCHANGED <<taskVars, threadVars, phase, interrupted, server>>
    PROVE  ServiceInv'
<1>1. result' \in [Requests -> Results]
  BY DEF Leave, ServiceInv, TypeOK, Results
<1> QED
  BY <1>1, GiveUpStep DEF Leave

\* A coroutine goes on to another stage inside the context.
LEMMA MoveStep ==
    ASSUME ServiceInv, NEW r \in Requests, NEW l \in Stages \ {"database"},
           pc[r] \in Stages \cup {"granted"}, task[r] # "pending",
           l = "planner" => pc[r] = "granted",
           pc' = At(r, l), UNCHANGED <<result, permits, queue, owed>>,
           UNCHANGED <<taskVars, threadVars, phase, interrupted, server>>
    PROVE  ServiceInv'
<1> USE DEF taskVars, threadVars, ServiceInv
<1>1. TypeOK
  OBVIOUS
<1>2. /\ pc' \in [Requests -> Pcs]
      /\ \A q \in Requests : pc'[q] = IF q = r THEN l ELSE pc[q]
  BY <1>1 DEF TypeOK, At, Pcs
<1>3. TypeOK'
  BY <1>1, <1>2 DEF TypeOK
<1>4. r \notin owed
  BY DEF OwedInv, Stages
<1>5. Holders' = Holders
  BY <1>2, <1>4 DEF Holders
<1>6. PermitsConserved'
  BY <1>5 DEF PermitsConserved
<1>7. QueueInv'
  BY <1>2 DEF QueueInv, Stages
<1>8. OwedInv'
  BY <1>1, <1>2, <1>4 DEF OwedInv, TypeOK
<1>9. TaskInv'
  BY <1>2 DEF TaskInv, Stages
<1>10. DatabaseInv' /\ InterruptIsOwn'
  BY DEF DatabaseInv, InterruptIsOwn
<1>11. DrainInv'
  BY <1>2 DEF DrainInv, Stages
<1> QED
  BY <1>3, <1>6, <1>7, <1>8, <1>9, <1>10, <1>11

\* A stage of the coroutine itself begins, before the cutoff.
LEMMA BeginStep ==
    ASSUME ServiceInv, NEW r \in Requests, NEW l \in Stages \ {"database", "planner"},
           pc[r] \in Stages, task[r] # "pending", Begin(r, l),
           UNCHANGED <<taskVars, threadVars, phase, interrupted, server>>
    PROVE  ServiceInv'
<1>1. CASE Leave(r, "safe")
  BY <1>1, LeaveStep DEF Results
<1>2. CASE pc' = At(r, l) /\ UNCHANGED <<result, permits, queue, owed>>
  BY <1>2, MoveStep
<1> QED
  BY <1>1, <1>2 DEF Begin

\* No coroutine but the one in the database stage has a pending worker.
LEMMA NoPendingWorker ==
    ASSUME ServiceInv, NEW r \in Requests, pc[r] \in (Stages \ {"database"}) \cup {"granted"}
    PROVE  task[r] # "pending"
BY DEF ServiceInv, TaskInv, OwedInv, Stages

\* A request takes a free permit, waits in the queue or is turned away.
LEMMA ArriveStep ==
    ASSUME ServiceInv, NEW r \in Requests, Arrive(r) PROVE ServiceInv'
<1> USE DEF taskVars, threadVars, ServiceInv
<1>1. TypeOK
  OBVIOUS
<1>2. /\ pc[r] = "new" /\ server = "serving"
      /\ UNCHANGED <<owed, taskVars, threadVars, phase, interrupted, server>>
  BY DEF Arrive
<1>3. r \notin owed /\ r \notin Holders
  BY <1>2 DEF OwedInv, Holders, Stages
<1>4. DatabaseInv' /\ InterruptIsOwn'
  BY <1>2 DEF DatabaseInv, InterruptIsOwn
<1>5. CASE pc' = At(r, "done") /\ UNCHANGED <<permits, queue>>
           /\ \E res \in {"error", "safe"} : result' = [result EXCEPT ![r] = res]
  <2>1. \A q \in Requests : pc'[q] = IF q = r THEN "done" ELSE pc[q]
    BY <1>1, <1>5 DEF TypeOK, At
  <2>2. TypeOK'
    BY <1>1, <1>2, <1>5 DEF TypeOK, At, Pcs
  <2>3. Holders' = Holders
    BY <1>2, <1>3, <2>1 DEF Holders, Stages
  <2>4. PermitsConserved' /\ QueueInv' /\ OwedInv'
    BY <1>1, <1>2, <1>3, <1>5, <2>1, <2>3 DEF PermitsConserved, QueueInv, OwedInv, TypeOK
  <2>5. TaskInv' /\ DrainInv'
    BY <1>2, <2>1 DEF TaskInv, DrainInv
  <2> QED
    BY <1>4, <2>2, <2>4, <2>5
<1>6. CASE pc' = At(r, "queued") /\ queue' = Append(queue, r) /\ UNCHANGED <<permits, result>>
  <2>1. \A q \in Requests : pc'[q] = IF q = r THEN "queued" ELSE pc[q]
    BY <1>1, <1>6 DEF TypeOK, At
  <2>2. TypeOK'
    BY <1>1, <1>2, <1>6, AppendProperties DEF TypeOK, At, Pcs
  <2>3. Holders' = Holders
    BY <1>2, <1>3, <2>1 DEF Holders, Stages
  <2>4. PermitsConserved' /\ OwedInv'
    BY <1>1, <1>2, <1>3, <1>6, <2>1, <2>3 DEF PermitsConserved, OwedInv, TypeOK
  <2>5. TaskInv' /\ DrainInv'
    BY <1>2, <2>1 DEF TaskInv, DrainInv
  <2>6. QueueInv'
    <3>1. /\ Len(queue') = Len(queue) + 1 /\ Len(queue) \in Nat
          /\ \A i \in 1..Len(queue) : queue'[i] = queue[i]
          /\ queue'[Len(queue) + 1] = r
      BY <1>1, <1>6, AppendProperties, LenProperties DEF TypeOK
    <3>2. \A i \in 1..Len(queue) : queue[i] # r
      BY <1>2 DEF QueueInv
    <3>3. ASSUME NEW i \in 1..Len(queue'), NEW j \in 1..Len(queue'), queue'[i] = queue'[j]
          PROVE  i = j
      BY <3>1, <3>2, <3>3 DEF QueueInv
    <3>4. ASSUME NEW q \in Requests
          PROVE  pc'[q] = "queued" <=> \E i \in 1..Len(queue') : queue'[i] = q
      <4>1. CASE q = r
        <5>1. Len(queue) + 1 \in 1..Len(queue')
          BY <3>1
        <5> QED
          BY <4>1, <5>1, <3>1, <2>1
      <4>2. CASE q # r
        BY <4>2, <3>1, <2>1 DEF QueueInv
      <4> QED
        BY <4>1, <4>2
    <3> QED
      BY <3>3, <3>4 DEF QueueInv
  <2> QED
    BY <1>4, <2>2, <2>4, <2>5, <2>6
<1>7. CASE ~Locked /\ pc' = At(r, "planner") /\ permits' = permits - 1 /\ UNCHANGED <<queue, result>>
  <2>1. \A q \in Requests : pc'[q] = IF q = r THEN "planner" ELSE pc[q]
    BY <1>1, <1>7 DEF TypeOK, At
  <2>2. permits' \in 0..Permits /\ permits \in Nat
    BY <1>1, <1>7, ServiceAssumption DEF TypeOK, Locked
  <2>3. TypeOK'
    BY <1>1, <1>2, <1>7, <2>2 DEF TypeOK, At, Pcs, Stages
  <2>4. Holders' = Holders \cup {r}
    BY <1>2, <1>3, <2>1 DEF Holders, Stages
  <2>5. Cardinality(Holders') = Cardinality(Holders) + 1
    <3>1. Cardinality(Holders \cup {r}) = Cardinality(Holders) + 1
      BY <1>3, HoldersFinite, FS_AddElement
    <3> QED
      BY <2>4, <3>1
  <2>6. PermitsConserved'
    BY <1>7, <2>2, <2>5, HoldersFinite, ServiceAssumption DEF PermitsConserved
  <2>7. QueueInv' /\ OwedInv'
    BY <1>1, <1>2, <1>3, <1>7, <2>1 DEF QueueInv, OwedInv, TypeOK
  <2>8. TaskInv' /\ DrainInv'
    BY <1>2, <2>1 DEF TaskInv, DrainInv
  <2> QED
    BY <1>4, <2>3, <2>6, <2>7, <2>8
<1> QED
  BY <1>5, <1>6, <1>7 DEF Arrive

\* A waiter is taken out of the queue, wherever it stands in it.
LEMMA AbandonQueueStep ==
    ASSUME ServiceInv, NEW r \in Requests, NEW res \in Results, AbandonQueue(r, res)
    PROVE  ServiceInv'
<1> USE DEF taskVars, threadVars, ServiceInv
<1>1. TypeOK
  OBVIOUS
<1>2. /\ pc[r] = "queued" /\ pc' = At(r, "done") /\ result' = [result EXCEPT ![r] = res]
      /\ UNCHANGED <<permits, owed, taskVars, threadVars, phase, interrupted, server>>
  BY DEF AbandonQueue
<1>3. PICK k \in 1..Len(queue) : queue[k] = r /\ queue' = RemoveAt(queue, k)
  BY DEF AbandonQueue
<1>4. /\ queue' \in Seq(Requests) /\ Len(queue) \in Nat /\ Len(queue') = Len(queue) - 1
      /\ \A j \in 1..(Len(queue) - 1) : queue'[j] = IF j < k THEN queue[j] ELSE queue[j + 1]
  BY <1>1, <1>3, RemoveAtProperties, LenProperties, ZenonT(60) DEF TypeOK
<1>5. \A q \in Requests : pc'[q] = IF q = r THEN "done" ELSE pc[q]
  BY <1>1, <1>2 DEF TypeOK, At
<1>6. TypeOK'
  BY <1>1, <1>2, <1>4 DEF TypeOK, At, Pcs, Results
<1>7. r \notin owed
  BY <1>2 DEF OwedInv
<1>8. Holders' = Holders
  BY <1>2, <1>5, <1>7 DEF Holders, Stages
<1>9. PermitsConserved' /\ OwedInv'
  BY <1>1, <1>2, <1>5, <1>7, <1>8 DEF PermitsConserved, OwedInv, TypeOK
<1>10. TaskInv' /\ DrainInv'
  BY <1>2, <1>5 DEF TaskInv, DrainInv
<1>11. DatabaseInv' /\ InterruptIsOwn'
  BY <1>2 DEF DatabaseInv, InterruptIsOwn
<1>12. QueueInv'
  <2>1. ASSUME NEW i \in 1..Len(queue'), NEW j \in 1..Len(queue'), queue'[i] = queue'[j]
        PROVE  i = j
    <3>1. \A a \in 1..Len(queue') :
             (IF a < k THEN a ELSE a + 1) \in 1..Len(queue)
      BY <1>4
    <3> QED
      BY <2>1, <3>1, <1>4, SMTT(30) DEF QueueInv
  <2>2. ASSUME NEW q \in Requests
        PROVE  pc'[q] = "queued" <=> \E i \in 1..Len(queue') : queue'[i] = q
    <3>1. CASE q = r
      <4>1. ASSUME NEW i \in 1..Len(queue'), queue'[i] = r PROVE FALSE
        <5>1. CASE i < k
          BY <5>1, <4>1, <1>3, <1>4 DEF QueueInv
        <5>2. CASE ~(i < k)
          <6>1. i + 1 \in 1..Len(queue) /\ queue[i + 1] = r /\ i + 1 # k
            BY <5>2, <4>1, <1>4
          <6> QED
            BY <6>1, <1>3 DEF QueueInv
        <5> QED
          BY <5>1, <5>2
      <4> QED
        BY <3>1, <4>1, <1>5
    <3>2. CASE q # r
      <4>1. ASSUME NEW i \in 1..Len(queue), queue[i] = q
            PROVE  \E j \in 1..Len(queue') : queue'[j] = q
        <5>1. CASE i < k
          BY <5>1, <4>1, <1>4
        <5>2. CASE i > k
          <6>1. i - 1 \in 1..Len(queue') /\ ~(i - 1 < k) /\ (i - 1) + 1 = i
            BY <5>2, <1>4
          <6> QED
            BY <6>1, <4>1, <1>4
        <5> QED
          BY <5>1, <5>2, <4>1, <3>2, <1>3
      <4>2. ASSUME NEW j \in 1..Len(queue'), queue'[j] = q
            PROVE  \E i \in 1..Len(queue) : queue[i] = q
        <5>1. CASE j < k
          BY <5>1, <4>2, <1>4
        <5>2. CASE ~(j < k)
          <6>1. j + 1 \in 1..Len(queue) /\ queue[j + 1] = q
            BY <5>2, <4>2, <1>4
          <6> QED
            BY <6>1
        <5> QED
          BY <5>1, <5>2
      <4> QED
        BY <3>2, <4>1, <4>2, <1>5 DEF QueueInv
    <3> QED
      BY <3>1, <3>2
  <2> QED
    BY <2>1, <2>2 DEF QueueInv
<1> QED
  BY <1>6, <1>9, <1>10, <1>11, <1>12

\* A waiter resumes with its permit.
LEMMA EnterStep ==
    ASSUME ServiceInv, NEW r \in Requests, Enter(r) PROVE ServiceInv'
<1>1. /\ pc[r] = "granted" /\ task[r] # "pending"
      /\ UNCHANGED <<taskVars, threadVars, phase, interrupted, server>>
  BY NoPendingWorker DEF Enter
<1>2. CASE pc' = At(r, "planner") /\ UNCHANGED <<result, permits, queue, owed>>
  BY <1>1, <1>2, MoveStep DEF Stages
<1>3. CASE Leave(r, "safe")
  BY <1>1, <1>3, LeaveStep DEF Results
<1> QED
  BY <1>2, <1>3 DEF Enter

\* The worker starts: registered, pending, with a thread that wants the lock.
LEMMA PlannerReturnsStep ==
    ASSUME ServiceInv, NEW r \in Requests, PlannerReturns(r) PROVE ServiceInv'
<1> USE DEF taskVars, threadVars, ServiceInv
<1>1. TypeOK
  OBVIOUS
<1>2. /\ pc[r] = "planner" /\ task[r] = "none" /\ task[r] # "pending"
      /\ UNCHANGED <<queries, outcome, dbLock, active, phase, interrupted, server>>
  BY DEF PlannerReturns, TaskInv
<1>3. CASE Leave(r, "safe") /\ UNCHANGED <<taskVars, thread>>
  BY <1>2, <1>3, LeaveStep DEF Results, Stages
<1>4. CASE /\ pc' = At(r, "database") /\ task' = [task EXCEPT ![r] = "pending"]
           /\ workers' = workers \cup {r} /\ thread' = [thread EXCEPT ![r] = "lock"]
           /\ UNCHANGED <<result, permits, queue, owed>>
  <2>1. \A q \in Requests : /\ pc'[q] = IF q = r THEN "database" ELSE pc[q]
                            /\ task'[q] = IF q = r THEN "pending" ELSE task[q]
                            /\ thread'[q] = IF q = r THEN "lock" ELSE thread[q]
    BY <1>1, <1>4 DEF TypeOK, At
  <2>2. TypeOK'
    BY <1>1, <1>2, <1>4 DEF TypeOK, At, Pcs, Stages
  <2>3. r \notin owed
    BY <1>2 DEF OwedInv
  <2>4. Holders' = Holders
    BY <1>2, <1>4, <2>1, <2>3 DEF Holders, Stages
  <2>5. PermitsConserved' /\ QueueInv' /\ OwedInv'
    BY <1>1, <1>2, <1>4, <2>1, <2>3, <2>4 DEF PermitsConserved, QueueInv, OwedInv, TypeOK
  <2>6. TaskInv'
    BY <1>2, <1>4, <2>1 DEF TaskInv
  <2>7. DrainInv' /\ InterruptIsOwn'
    BY <1>2, <1>4, <2>1 DEF DrainInv, InterruptIsOwn
  <2>8. thread[r] = "none"
    BY <1>2 DEF TaskInv
  <2>9. DatabaseInv'
    BY <1>2, <2>1, <2>8 DEF DatabaseInv
  <2> QED
    BY <2>2, <2>5, <2>6, <2>7, <2>9
<1> QED
  BY <1>3, <1>4 DEF PlannerReturns

\* The request leaves its worker behind, with its permit; an interrupt goes to the
\* active query, which is then the worker's own.
LEMMA LeaveDatabaseStep ==
    ASSUME ServiceInv, NEW r \in Requests, NEW res \in Results, pc[r] = "database",
           pc' = At(r, "done"), result' = [result EXCEPT ![r] = res],
           interrupted' = interrupted \/ interrupted' = (interrupted \/ Interrupts(r)),
           owed' = owed \cup {r}, interrupted' \in BOOLEAN,
           UNCHANGED <<permits, queue, taskVars, threadVars, phase, server>>
    PROVE  ServiceInv'
<1> USE DEF taskVars, threadVars, ServiceInv
<1>1. TypeOK
  OBVIOUS
<1>2. \A q \in Requests : pc'[q] = IF q = r THEN "done" ELSE pc[q]
  BY <1>1 DEF TypeOK, At
<1>3. TypeOK'
  BY <1>1 DEF TypeOK, At, Pcs, Results
<1>4. Holders' = Holders
  BY <1>2 DEF Holders, Stages
<1>5. PermitsConserved' /\ QueueInv'
  BY <1>2, <1>4 DEF PermitsConserved, QueueInv
<1>6. OwedInv'
  BY <1>1, <1>2 DEF OwedInv, TaskInv, TypeOK
<1>7. TaskInv' /\ DatabaseInv'
  BY <1>2 DEF TaskInv, DatabaseInv
<1>8. DrainInv'
  BY <1>2 DEF DrainInv
<1>9. InterruptIsOwn'
  <2> SUFFICES ASSUME NEW q \in Requests, thread'[q] = "query", interrupted'
               PROVE  q \in owed'
    BY DEF InterruptIsOwn
  <2>1. CASE interrupted
    BY <2>1 DEF InterruptIsOwn
  <2>2. CASE Interrupts(r)
    <3>1. active = r /\ active = q
      BY <2>2 DEF Interrupts, DatabaseInv
    <3> QED
      BY <3>1
  <2>3. interrupted \in BOOLEAN
    BY <1>1 DEF TypeOK
  <2> QED
    BY <2>1, <2>2, <2>3
<1> QED
  BY <1>3, <1>5, <1>6, <1>7, <1>8, <1>9

\* The worker's task is done and the coroutine goes on with its outcome.
LEMMA DatabaseReturnsStep ==
    ASSUME ServiceInv, NEW r \in Requests, DatabaseReturns(r) PROVE ServiceInv'
<1>1. /\ pc[r] = "database" /\ task[r] = "done" /\ task[r] # "pending" /\ interrupted \in BOOLEAN
      /\ UNCHANGED <<taskVars, threadVars, phase, interrupted, server>>
  BY DEF DatabaseReturns, ServiceInv, TypeOK
<1>2. CASE Begin(r, "wording")
  BY <1>1, <1>2, BeginStep DEF Stages
<1>3. CASE Leave(r, "safe")
  BY <1>1, <1>3, LeaveStep DEF Results, Stages
<1>4. CASE /\ pc' = At(r, "done") /\ result' = [result EXCEPT ![r] = "safe"]
           /\ owed' = owed \cup {r} /\ UNCHANGED <<permits, queue>>
  BY <1>1, <1>4, LeaveDatabaseStep DEF Results
<1> QED
  BY <1>2, <1>3, <1>4 DEF DatabaseReturns

\* The answer is verified, and the context left, or refused.
LEMMA VerifyStep ==
    ASSUME ServiceInv, NEW r \in Requests, pc[r] \in Stages, task[r] # "pending", Verify(r),
           UNCHANGED <<taskVars, threadVars, phase, interrupted, server>>
    PROVE  ServiceInv'
<1>1. CASE Leave(r, "safe")
  BY <1>1, LeaveStep DEF Results
<1>2. CASE Release(At(r, "publish")) /\ UNCHANGED <<result, owed>>
  <2>1. result' \in [Requests -> Results]
    BY <1>2 DEF ServiceInv, TypeOK, Results
  <2> QED
    BY <1>2, <2>1, GiveUpStep
<1> QED
  BY <1>1, <1>2 DEF Verify

\* The wording calls are stages of the coroutine; no worker runs.
LEMMA WordingStep ==
    ASSUME ServiceInv, NEW r \in Requests, WordingReturns(r) \/ BackoffEnds(r) \/ SecondReturns(r)
    PROVE  ServiceInv'
<1>1. /\ pc[r] \in Stages \ {"database", "planner"}
      /\ UNCHANGED <<taskVars, threadVars, phase, interrupted, server>>
  BY DEF WordingReturns, BackoffEnds, SecondReturns, Stages
<1>2. task[r] # "pending"
  BY <1>1, NoPendingWorker
<1>3. CASE Verify(r)
  BY <1>1, <1>2, <1>3, VerifyStep
<1>4. CASE \E l \in {"repair", "retry", "backoff"} : Begin(r, l)
  BY <1>1, <1>2, <1>4, BeginStep DEF Stages
<1>5. CASE Leave(r, "safe")
  BY <1>1, <1>2, <1>5, LeaveStep DEF Results
<1> QED
  BY <1>3, <1>4, <1>5 DEF WordingReturns, BackoffEnds, SecondReturns

\* The result is published, or beyond the outer deadline the prebuilt body.
LEMMA PublishStep ==
    ASSUME ServiceInv, NEW r \in Requests, Publish(r) PROVE ServiceInv'
<1> USE DEF taskVars, threadVars, ServiceInv, Publish
<1>1. TypeOK
  OBVIOUS
<1>2. \A q \in Requests : pc'[q] = IF q = r THEN "done" ELSE pc[q]
  BY <1>1 DEF TypeOK, At
<1>3. TypeOK'
  BY <1>1 DEF TypeOK, At, Pcs
<1>4. Holders' = Holders
  BY <1>2 DEF Holders, Stages
<1>5. PermitsConserved' /\ QueueInv'
  BY <1>2, <1>4 DEF PermitsConserved, QueueInv
<1>6. OwedInv'
  BY <1>1, <1>2 DEF OwedInv, TypeOK
<1>7. TaskInv' /\ DatabaseInv'
  BY <1>2 DEF TaskInv, DatabaseInv
<1>8. DrainInv' /\ InterruptIsOwn'
  BY <1>2 DEF DrainInv, InterruptIsOwn
<1> QED
  BY <1>3, <1>5, <1>6, <1>7, <1>8

\* A timeout or a cancellation at any await.
LEMMA AbortStep ==
    ASSUME ServiceInv, NEW r \in Requests, NEW res \in Results, Abort(r, res)
    PROVE  ServiceInv'
<1>1. CASE AbandonQueue(r, res)
  BY <1>1, AbandonQueueStep
<1>2. CASE AbandonGrant(r, res) \/ LeaveStage(r, res)
  <2>1. /\ pc[r] \in (Stages \ {"database"}) \cup {"granted"} /\ Leave(r, res)
        /\ UNCHANGED <<taskVars, threadVars, phase, interrupted, server>>
    BY <1>2 DEF AbandonGrant, LeaveStage
  <2> QED
    BY <2>1, NoPendingWorker, LeaveStep
<1>3. CASE LeaveDatabase(r, res)
  <2>1. interrupted' \in BOOLEAN
    BY <1>3 DEF LeaveDatabase, Interrupts
  <2> QED
    BY <1>3, <2>1, LeaveDatabaseStep DEF LeaveDatabase
<1> QED
  BY <1>1, <1>2, <1>3 DEF Abort

-----------------------------------------------------------------------------
(* The worker threads, their ends, and the server *)

\* What a thread step leaves alone, and what of the invariant this settles.
LEMMA ThreadFrame ==
    ASSUME ServiceInv, TypeOK', UNCHANGED <<loopVars, taskVars, phase, server>>,
           \A q \in Requests : thread'[q] = "none" <=> thread[q] = "none",
           \A q \in Requests : thread[q] = "ended" => thread'[q] = "ended"
    PROVE  PermitsConserved' /\ QueueInv' /\ OwedInv' /\ TaskInv' /\ DrainInv'
<1> USE DEF loopVars, taskVars, ServiceInv
<1>1. Holders' = Holders
  BY DEF Holders
<1>2. PermitsConserved' /\ QueueInv' /\ OwedInv' /\ DrainInv'
  BY <1>1 DEF PermitsConserved, QueueInv, OwedInv, DrainInv
<1>3. TaskInv'
  BY DEF TaskInv, TypeOK
<1> QED
  BY <1>2, <1>3

\* The steps of a worker thread.
LEMMA WorkStep ==
    ASSUME ServiceInv, NEW r \in Requests, Work(r) PROVE ServiceInv'
<1> USE ServiceAssumption DEF loopVars, taskVars, ServiceInv
<1>1. TypeOK
  OBVIOUS
<1>2. PICK l \in {"check", "gap", "query", "clear", "unlock", "ended"} :
         thread' = [thread EXCEPT ![r] = l]
  BY DEF Work, LockDatabase, RequireWork, StartQuery, EndQuery, ClearActive,
         UnlockDatabase, Goto, Ends
<1>3. \A q \in Requests : thread'[q] = IF q = r THEN l ELSE thread[q]
  BY <1>1, <1>2 DEF TypeOK
<1>4. thread[r] \notin {"none", "ended"} /\ UNCHANGED <<loopVars, taskVars, phase, server>>
  BY DEF Work, LockDatabase, RequireWork, StartQuery, EndQuery, ClearActive,
         UnlockDatabase
<1>5. CASE LockDatabase(r)
  <2>1. thread[r] = "lock" /\ dbLock = None /\ dbLock' = r /\ active' = r /\ l = "check"
        /\ UNCHANGED <<queries, outcome, interrupted>>
    BY <1>1, <1>3, <1>5 DEF LockDatabase, Goto, TypeOK
  <2>2. TypeOK'
    BY <1>1, <1>2, <1>4, <2>1 DEF TypeOK
  <2>3. \A q \in Requests : thread[q] \notin {"check", "gap", "query", "clear", "unlock"}
    BY <2>1 DEF DatabaseInv
  <2>4. DatabaseInv'
    BY <1>3, <2>1, <2>3 DEF DatabaseInv
  <2>5. InterruptIsOwn'
    BY <1>3, <2>1, <2>3 DEF InterruptIsOwn
  <2> QED
    BY <1>3, <1>4, <2>2, <2>4, <2>5, ThreadFrame
<1>6. CASE RequireWork(r) \/ EndQuery(r)
  <2>1. /\ thread[r] \in {"check", "query"} /\ l \in {"check", "gap", "clear"}
        /\ l = "gap" => queries[r] < MaxQueries
        /\ UNCHANGED <<queries, dbLock, active, interrupted>>
    BY <1>1, <1>3, <1>6 DEF RequireWork, EndQuery, Goto, Ends, TypeOK
  <2>2. outcome' \in [Requests -> {"none", "prepared", "timeout", "error"}]
    BY <1>1, <1>6 DEF RequireWork, EndQuery, Ends, TypeOK
  <2>3. TypeOK'
    BY <1>1, <1>2, <1>4, <2>1, <2>2 DEF TypeOK
  <2>4. DatabaseInv'
    BY <1>3, <2>1 DEF DatabaseInv
  <2>5. InterruptIsOwn'
    BY <1>3, <1>4, <2>1 DEF InterruptIsOwn
  <2> QED
    BY <1>3, <1>4, <2>3, <2>4, <2>5, ThreadFrame
<1>7. CASE StartQuery(r)
  <2>1. /\ thread[r] = "gap" /\ l = "query" /\ queries' = [queries EXCEPT ![r] = @ + 1]
        /\ interrupted' = FALSE /\ UNCHANGED <<outcome, dbLock, active>>
    BY <1>1, <1>3, <1>7 DEF StartQuery, Goto, TypeOK
  <2>2. queries[r] < MaxQueries
    BY <2>1 DEF DatabaseInv
  <2>3. queries' \in [Requests -> 0..MaxQueries]
        /\ \A q \in Requests : q # r => queries'[q] = queries[q]
    BY <1>1, <2>1, <2>2 DEF TypeOK
  <2>4. TypeOK'
    BY <1>1, <1>2, <1>4, <2>1, <2>3 DEF TypeOK
  <2>5. DatabaseInv'
    BY <1>3, <2>1, <2>3 DEF DatabaseInv
  <2>6. InterruptIsOwn'
    BY <2>1 DEF InterruptIsOwn
  <2> QED
    BY <1>3, <1>4, <2>4, <2>5, <2>6, ThreadFrame
<1>8. CASE ClearActive(r)
  <2>1. /\ thread[r] = "clear" /\ l = "unlock" /\ active' = IF active = r THEN None ELSE active
        /\ UNCHANGED <<queries, outcome, dbLock, interrupted>>
    BY <1>1, <1>3, <1>8 DEF ClearActive, Goto, TypeOK
  <2>2. active = r /\ active' = None
    BY <2>1 DEF DatabaseInv
  <2>3. TypeOK'
    BY <1>1, <1>2, <1>4, <2>1, <2>2 DEF TypeOK
  <2>4. DatabaseInv'
    BY <1>3, <2>1, <2>2 DEF DatabaseInv
  <2>5. InterruptIsOwn'
    BY <1>3, <1>4, <2>1 DEF InterruptIsOwn
  <2> QED
    BY <1>3, <1>4, <2>3, <2>4, <2>5, ThreadFrame
<1>9. CASE UnlockDatabase(r)
  <2>1. /\ thread[r] = "unlock" /\ l = "ended" /\ dbLock' = None
        /\ UNCHANGED <<queries, outcome, active, interrupted>>
    BY <1>1, <1>3, <1>9 DEF UnlockDatabase, Goto, TypeOK
  <2>2. dbLock = r /\ active # r
    BY <2>1 DEF DatabaseInv
  <2>3. TypeOK'
    BY <1>1, <1>2, <1>4, <2>1 DEF TypeOK
  <2>4. DatabaseInv'
    BY <1>3, <2>1, <2>2 DEF DatabaseInv
  <2>5. InterruptIsOwn'
    BY <1>3, <1>4, <2>1 DEF InterruptIsOwn
  <2> QED
    BY <1>3, <1>4, <2>3, <2>4, <2>5, ThreadFrame
<1> QED
  BY <1>5, <1>6, <1>7, <1>8, <1>9 DEF Work

\* A task that completes is discarded from _database_workers.
LEMMA CompleteTaskStep ==
    ASSUME ServiceInv, NEW r \in Requests, CompleteTask(r) PROVE ServiceInv'
<1> USE DEF loopVars, threadVars, ServiceInv, CompleteTask
<1>1. TypeOK
  OBVIOUS
<1>2. \A q \in Requests : task'[q] = IF q = r THEN "done" ELSE task[q]
  BY <1>1 DEF TypeOK
<1>3. TypeOK'
  BY <1>1 DEF TypeOK
<1>4. Holders' = Holders
  BY DEF Holders
<1>5. PermitsConserved' /\ QueueInv' /\ DatabaseInv' /\ InterruptIsOwn'
  BY <1>4 DEF PermitsConserved, QueueInv, DatabaseInv, InterruptIsOwn
<1>6. OwedInv'
  BY <1>1, <1>2 DEF OwedInv, TypeOK
<1>7. TaskInv'
  BY <1>2 DEF TaskInv
<1>8. DrainInv'
  BY DEF DrainInv
<1> QED
  BY <1>3, <1>5, <1>6, <1>7, <1>8

\* The done callback gives back the permit of a request that is gone, once.
LEMMA ReleaseRetainedStep ==
    ASSUME ServiceInv, NEW r \in Requests, ReleaseRetained(r) PROVE ServiceInv'
<1> USE DEF taskVars, threadVars, ServiceInv
<1>1. TypeOK
  OBVIOUS
<1>2. /\ r \in owed /\ task[r] = "done" /\ owed' = owed \ {r} /\ Release(pc)
      /\ UNCHANGED <<result, taskVars, threadVars, phase, interrupted, server>>
  BY DEF ReleaseRetained
<1>3. pc[r] = "done" /\ r \in Holders
  BY <1>2 DEF OwedInv, Holders
<1>4. {q \in Requests : pc[q] \in Stages \cup {"granted"} \/ q \in owed'} = Holders \ {r}
  BY <1>2, <1>3 DEF Holders, Stages
<1>5. pc \in [Requests -> Pcs]
  BY <1>1 DEF TypeOK
<1>6. /\ pc' \in [Requests -> Pcs]
      /\ permits' \in 0..Permits
      /\ queue' \in Seq(Requests)
      /\ PermitsConserved' /\ QueueInv'
      /\ \A q \in Requests : \/ pc'[q] = pc[q]
                             \/ pc[q] = "queued" /\ pc'[q] = "granted"
  BY <1>2, <1>3, <1>4, <1>5, ReleaseStep
<1>7. TypeOK'
  BY <1>1, <1>2, <1>6 DEF TypeOK
<1>8. OwedInv'
  BY <1>1, <1>2, <1>6 DEF OwedInv, TypeOK
<1>9. TaskInv'
  BY <1>2, <1>6 DEF TaskInv
<1>10. DatabaseInv' /\ DrainInv'
  BY <1>2, <1>6 DEF DatabaseInv, DrainInv
<1>11. InterruptIsOwn'
  BY <1>2 DEF InterruptIsOwn, TaskInv
<1> QED
  BY <1>6, <1>7, <1>8, <1>9, <1>10, <1>11

\* A deadline of one request passes.
LEMMA AdvanceStep ==
    ASSUME ServiceInv, NEW r \in Requests, Advance(r) PROVE ServiceInv'
<1> USE DEF loopVars, taskVars, threadVars, ServiceInv, Advance
<1>1. TypeOK'
  BY DEF TypeOK
<1>2. Holders' = Holders
  BY DEF Holders
<1>3. PermitsConserved' /\ QueueInv' /\ OwedInv' /\ TaskInv'
  BY <1>2 DEF PermitsConserved, QueueInv, OwedInv, TaskInv
<1>4. DatabaseInv' /\ DrainInv' /\ InterruptIsOwn'
  BY DEF DatabaseInv, DrainInv, InterruptIsOwn
<1> QED
  BY <1>1, <1>3, <1>4

\* aclose returns when no worker is registered; the session closes after it.
LEMMA ShutdownStep ==
    ASSUME ServiceInv, BeginShutdown \/ Close PROVE ServiceInv'
<1> USE DEF loopVars, taskVars, threadVars, ServiceInv, BeginShutdown, Close
<1>1. TypeOK'
  BY DEF TypeOK
<1>2. Holders' = Holders
  BY DEF Holders
<1>3. PermitsConserved' /\ QueueInv' /\ OwedInv' /\ TaskInv'
  BY <1>2 DEF PermitsConserved, QueueInv, OwedInv, TaskInv
<1>4. DatabaseInv' /\ DrainInv' /\ InterruptIsOwn'
  BY DEF DatabaseInv, DrainInv, InterruptIsOwn
<1> QED
  BY <1>1, <1>3, <1>4

-----------------------------------------------------------------------------
(* The theorems *)

\* Before the first request all permits are free.
LEMMA ServiceStart == Init => ServiceInv
<1> SUFFICES ASSUME Init PROVE ServiceInv
  OBVIOUS
<1> USE ServiceAssumption DEF Init
<1>1. TypeOK
  <2>1. permits \in 0..Permits /\ queries \in [Requests -> 0..MaxQueries]
    OBVIOUS
  <2>2. queue \in Seq(Requests)
    BY EmptySeq
  <2> QED
    BY <2>1, <2>2 DEF TypeOK, Pcs
<1>2. Holders = {}
  BY DEF Holders, Stages
<1>3. PermitsConserved
  BY <1>2, FS_EmptySet DEF PermitsConserved
<1>4. QueueInv /\ OwedInv
  BY DEF QueueInv, OwedInv
<1>5. TaskInv /\ DatabaseInv
  BY DEF TaskInv, DatabaseInv
<1>6. DrainInv /\ InterruptIsOwn
  BY DEF DrainInv, InterruptIsOwn
<1> QED
  BY <1>1, <1>3, <1>4, <1>5, <1>6 DEF ServiceInv

\* Every step of the service keeps the invariant.
LEMMA ServiceStep == ServiceInv /\ [Next]_vars => ServiceInv'
<1> SUFFICES ASSUME ServiceInv, [Next]_vars PROVE ServiceInv'
  OBVIOUS
<1>1. CASE UNCHANGED vars
  <2> USE <1>1 DEF vars, loopVars, taskVars, threadVars
  <2>1. TypeOK'
    BY DEF TypeOK, ServiceInv
  <2>2. Holders' = Holders
    BY DEF Holders
  <2>3. PermitsConserved' /\ QueueInv' /\ OwedInv' /\ TaskInv'
    BY <2>2 DEF ServiceInv, PermitsConserved, QueueInv, OwedInv, TaskInv
  <2>4. DatabaseInv' /\ DrainInv' /\ InterruptIsOwn'
    BY DEF ServiceInv, DatabaseInv, DrainInv, InterruptIsOwn
  <2> QED
    BY <2>1, <2>3, <2>4 DEF ServiceInv
<1>2. ASSUME NEW r \in Requests, Loop(r) PROVE ServiceInv'
  <2>1. CASE Timeout(r) \/ Cancel(r)
    BY <2>1, AbortStep DEF Timeout, Cancel, Results
  <2> QED
    BY <1>2, <2>1, ArriveStep, EnterStep, PlannerReturnsStep, DatabaseReturnsStep,
       WordingStep, PublishStep, CompleteTaskStep, ReleaseRetainedStep DEF Loop
<1> QED
  BY <1>1, <1>2, WorkStep, AdvanceStep, ShutdownStep DEF Next

\* The invariant behind the properties of the request service.
THEOREM Service == Spec => []ServiceInv
BY ServiceStart, ServiceStep, PTL DEF Spec

\* The state of coroutines, tasks, threads and semaphore keeps its types; in
\* particular the counter stays between 0 and max_in_flight.
THEOREM ServiceTypes == Spec => []TypeOK
<1>1. ServiceInv => TypeOK
  BY DEF ServiceInv
<1> QED
  BY <1>1, Service, PTL

\* RequestLimiter neither loses nor duplicates a permit, whichever of timeout,
\* cancellation, worker end and done callback comes first.
THEOREM PermitsAreConserved == Spec => []PermitsConserved
<1>1. ServiceInv => PermitsConserved
  BY DEF ServiceInv
<1> QED
  BY <1>1, Service, PTL

\* The database workers, those left behind by their requests included, never
\* outnumber the permits.
THEOREM WorkersAreBounded == Spec => []WorkersBounded
<1>1. ServiceInv => WorkersBounded
  <2> SUFFICES ASSUME ServiceInv PROVE WorkersBounded
    OBVIOUS
  <2> DEFINE W == {r \in Requests : Live(r)}
  <2>1. W \in SUBSET Holders
    BY DEF Live, Holders, ServiceInv, TypeOK, TaskInv, Stages
  <2>2. Cardinality(W) <= Cardinality(Holders) /\ Cardinality(W) \in Nat
    BY <2>1, HoldersFinite, FS_Subset, FS_CardinalityType
  <2>3. permits \in 0..Permits /\ permits + Cardinality(Holders) = Permits
    BY DEF ServiceInv, TypeOK, PermitsConserved
  <2> HIDE DEF W
  <2>4. Cardinality(W) <= Permits
    BY <2>2, <2>3, HoldersFinite, ServiceAssumption
  <2> QED
    BY <2>4 DEF W, WorkersBounded
<1> QED
  BY <1>1, Service, PTL

\* AnswerService.interrupt never reaches the query of another request.
THEOREM InterruptsAreOwn == Spec => []InterruptIsOwn
<1>1. ServiceInv => InterruptIsOwn
  BY DEF ServiceInv
<1> QED
  BY <1>1, Service, PTL

\* The lifespan closes the artifact session only behind the last worker thread.
THEOREM SessionIsSafe == Spec => []SessionOutlivesWorkers
<1>1. ServiceInv => SessionOutlivesWorkers
  BY DEF ServiceInv, SessionOutlivesWorkers, DrainInv, TaskInv, TypeOK, Live
<1> QED
  BY <1>1, Service, PTL

\* _within_deadline: no step of the service starts a provider or database call of
\* a request whose work cutoff has passed.
THEOREM CutoffIsKept == Spec => NoCallAfterCutoff
<1>1. ServiceInv /\ [Next]_vars => StartsInTime
  <2> SUFFICES ASSUME ServiceInv, Next, NEW r \in Requests,
                      pc'[r] \in Stages, pc'[r] # pc[r]
               PROVE  phase[r] = "work"
    BY DEF StartsInTime, vars, loopVars
  <2>1. pc \in [Requests -> Pcs]
    BY DEF ServiceInv, TypeOK
  <2>2. ASSUME NEW q \in Requests, NEW l, pc' = At(q, l), l \notin Stages PROVE FALSE
    BY <2>1, <2>2 DEF At
  <2>3. ASSUME NEW newPc \in [Requests -> Pcs], Release(newPc),
               newPc[r] \in Stages => newPc[r] = pc[r]
        PROVE  FALSE
    <3>1. pc' = newPc \/ pc' = [newPc EXCEPT ![Head(queue)] = "granted"]
      BY <2>3 DEF Release
    <3> QED
      BY <2>3, <3>1 DEF Stages
  <2>4. ASSUME NEW q \in Requests, NEW l \in {"publish", "done"}, Release(At(q, l)) PROVE FALSE
    <3>1. At(q, l) \in [Requests -> Pcs] /\ (At(q, l)[r] \in Stages => At(q, l)[r] = pc[r])
      BY <2>1 DEF At, Pcs, Stages
    <3> QED
      BY <2>3, <2>4, <3>1
  <2>5. ASSUME NEW q \in Requests, NEW res, Leave(q, res) PROVE FALSE
    BY <2>4, <2>5 DEF Leave
  <2>6. ASSUME NEW q \in Requests, NEW l, ~Late(q), pc' = At(q, l) PROVE phase[r] = "work"
    BY <2>1, <2>6 DEF At, Late
  <2>7. ASSUME NEW q \in Requests, NEW l, Begin(q, l) PROVE phase[r] = "work"
    BY <2>5, <2>6, <2>7 DEF Begin
  <2>8. ASSUME NEW q \in Requests, NEW res, Abort(q, res) PROVE FALSE
    BY <2>2, <2>5, <2>8 DEF Abort, AbandonQueue, AbandonGrant, LeaveDatabase, LeaveStage, Stages
  <2>9. ASSUME NEW q \in Requests, Verify(q) PROVE FALSE
    BY <2>4, <2>5, <2>9 DEF Verify
  <2>10. ASSUME NEW q \in Requests, Loop(q) PROVE phase[r] = "work"
    <3>1. CASE Arrive(q)
      BY <3>1, <2>2, <2>6 DEF Arrive, Stages
    <3>2. CASE Enter(q) \/ PlannerReturns(q)
      BY <3>2, <2>5, <2>6 DEF Enter, PlannerReturns
    <3>3. CASE DatabaseReturns(q)
      BY <3>3, <2>2, <2>5, <2>7 DEF DatabaseReturns, Stages
    <3>4. CASE WordingReturns(q) \/ BackoffEnds(q) \/ SecondReturns(q)
      BY <3>4, <2>5, <2>7, <2>9 DEF WordingReturns, BackoffEnds, SecondReturns
    <3>5. CASE Publish(q)
      BY <3>5, <2>2 DEF Publish, Stages
    <3>6. CASE Timeout(q) \/ Cancel(q)
      BY <3>6, <2>8 DEF Timeout, Cancel
    <3>7. CASE CompleteTask(q)
      BY <3>7 DEF CompleteTask, loopVars
    <3>8. CASE ReleaseRetained(q)
      BY <3>8, <2>1, <2>3 DEF ReleaseRetained
    <3> QED
      BY <2>10, <3>1, <3>2, <3>3, <3>4, <3>5, <3>6, <3>7, <3>8 DEF Loop
  <2>11. ASSUME NEW q \in Requests, Work(q) \/ Advance(q) PROVE FALSE
    BY <2>11 DEF Work, Advance, LockDatabase, RequireWork, StartQuery, EndQuery, ClearActive,
                 UnlockDatabase, loopVars
  <2>12. CASE BeginShutdown \/ Close
    BY <2>12 DEF BeginShutdown, Close, loopVars
  <2> QED
    BY <2>10, <2>11, <2>12 DEF Next
<1> QED
  BY <1>1, Service, PTL DEF Spec, NoCallAfterCutoff

=============================================================================
