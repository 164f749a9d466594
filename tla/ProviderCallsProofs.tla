------------------------ MODULE ProviderCallsProofs ------------------------
(* The safety properties of ProviderCalls for any time budget: a stage makes at
   most two calls, repair and retry never follow each other, the attempt summary
   of the planner is never refused, and no call starts late or inside a rate
   limit window.

   CallsInv is inductive.  It ties the await to the calls made so far (FirstInv,
   RepairOrRetry), the failures counted to both (AttemptInv), and the window to
   the one await that waits for it (WindowInv).  Every step is a failure
   (FailStep) or a second call (SecondStep), except for the two that go on to
   the next stage.                                                          *)
EXTENDS ProviderCalls, TLAPS

\* Time taken by an await.
LEMMA ElapseTypes ==
    ASSUME TypeOK, NEW d \in 0..left, Elapse(d)
    PROVE  /\ left' \in 0..Budget /\ reset' \in 0..Budget
           /\ left' = left - d /\ (reset <= d => reset' = 0)
BY CallsAssumption DEF TypeOK, Elapse

\* Count adds one failure while planning, and none later.
LEMMA CountTypes ==
    ASSUME TypeOK, NEW kind \in Kinds, Count(kind)
    PROVE  /\ attempts' \in [Kinds -> Nat]
           /\ Failures' = Failures + (IF stage = "plan" THEN 1 ELSE 0)
<1>1. attempts \in [Kinds -> Nat] /\ Kinds = {"parse", "semantic", "transport"}
  BY DEF TypeOK, Kinds
<1>2. attempts["parse"] \in Nat /\ attempts["semantic"] \in Nat /\ attempts["transport"] \in Nat
  BY <1>1
<1>3. CASE stage = "plan"
  <2>1. attempts' = [attempts EXCEPT ![kind] = attempts[kind] + 1]
    BY <1>3 DEF Count
  <2>2. attempts' \in [Kinds -> Nat]
    BY <1>1, <2>1
  <2>3. CASE kind = "parse"
    BY <1>1, <1>2, <1>3, <2>1, <2>3 DEF Failures
  <2>4. CASE kind = "semantic"
    BY <1>1, <1>2, <1>3, <2>1, <2>4 DEF Failures
  <2>5. CASE kind = "transport"
    BY <1>1, <1>2, <1>3, <2>1, <2>5 DEF Failures
  <2> QED
    BY <1>1, <2>2, <2>3, <2>4, <2>5
<1>4. CASE stage # "plan"
  <2>1. attempts' = attempts
    BY <1>4 DEF Count
  <2> QED
    BY <1>1, <1>2, <1>4, <2>1 DEF Failures
<1> QED
  BY <1>3, <1>4

\* The failures of a call are counted.
LEMMA FailuresNat == ASSUME TypeOK PROVE Failures \in Nat
BY DEF TypeOK, Failures, Kinds

\* Every error ends the provider's work.
LEMMA FailStep ==
    ASSUME CallsInv, Fail, left' \in 0..Budget, reset' \in 0..Budget,
           attempts' \in [Kinds -> Nat], Failures' <= 2
    PROVE  CallsInv'
<1> USE DEF CallsInv, Fail
<1>1. TypeOK'
  BY DEF TypeOK
<1>2. RepairOrRetry' /\ CallsInTime' /\ FirstInv'
  BY DEF RepairOrRetry, CallsInTime, FirstInv, Calling
<1>3. StageInv' /\ WindowInv' /\ AttemptInv'
  BY DEF StageInv, WindowInv, AttemptInv
<1> QED
  BY <1>1, <1>2, <1>3

\* The second call of a stage, or no time for it.
LEMMA SecondStep ==
    ASSUME CallsInv, NEW kind \in {"repair", "retry"}, pc \in {"call", "backoff"}, Second(kind),
           left' \in 0..Budget, reset' = 0, attempts' \in [Kinds -> Nat],
           Failures' = IF stage = "plan" THEN 1 ELSE Failures
    PROVE  CallsInv'
<1> USE DEF CallsInv
<1>0. Failures \in Nat /\ (stage # "plan" => Failures <= 2) /\ 0 \in 0..Budget
  BY FailuresNat, CallsAssumption DEF AttemptInv, TypeOK
<1>1. CASE ~(left' > 0)
  <2>1. Fail
    BY <1>1 DEF Second
  <2> QED
    BY <1>0, <2>1, FailStep
<1>2. CASE left' > 0
  <2>1. stage \in {"plan", "word"}
    BY DEF StageInv, TypeOK
  <2>2. /\ pc' = kind /\ stage' = stage /\ verdict' = verdict
        /\ calls' = [calls EXCEPT ![stage] = @ + 1]
        /\ second' = [second EXCEPT ![stage] = kind]
    BY <1>2 DEF Second
  <2>3. calls[stage] = 1
    BY DEF FirstInv
  <2>4. /\ calls' \in [{"plan", "word"} -> 0..2] /\ calls'[stage] = 2
        /\ \A s \in {"plan", "word"} : s # stage => calls'[s] = calls[s]
    BY <2>1, <2>2, <2>3 DEF TypeOK
  <2>5. /\ second' \in [{"plan", "word"} -> {"none", "repair", "retry"}] /\ second'[stage] = kind
        /\ \A s \in {"plan", "word"} : s # stage => second'[s] = second[s]
    BY <2>1, <2>2 DEF TypeOK
  <2>6. TypeOK'
    BY <1>0, <2>2, <2>4, <2>5 DEF TypeOK
  <2>7. RepairOrRetry' /\ CallsInTime' /\ FirstInv'
    BY <1>2, <2>2, <2>4, <2>5 DEF RepairOrRetry, CallsInTime, FirstInv, Calling
  <2>8. StageInv' /\ WindowInv'
    BY <2>1, <2>2, <2>4, <2>5 DEF StageInv, WindowInv
  <2>9. AttemptInv'
    BY <1>0, <2>1, <2>2 DEF AttemptInv
  <2> QED
    BY <2>6, <2>7, <2>8, <2>9
<1> QED
  BY <1>1, <1>2

\* What every step of an open call or wait may rely on.
LEMMA OpenCall ==
    ASSUME CallsInv, Calling \/ pc = "backoff"
    PROVE  /\ stage \in {"plan", "word"}
           /\ Failures \in Nat /\ Failures + (IF stage = "plan" THEN 1 ELSE 0) <= 2
           /\ stage = "plan" /\ pc = "call" => Failures = 0
           /\ stage = "plan" /\ pc # "call" => Failures = 1
           /\ Calling => reset = 0
<1>1. stage \in {"plan", "word"}
  BY DEF CallsInv, StageInv, TypeOK, Calling
<1>2. Failures \in Nat
  BY FailuresNat DEF CallsInv
<1> QED
  BY <1>1, <1>2 DEF CallsInv, AttemptInv, WindowInv, Calling

\* An answer is accepted before the cutoff and counts no attempt.
LEMMA AnsweredStep == ASSUME CallsInv, Answered PROVE CallsInv'
<1>1. Calling /\ attempts' = attempts
  BY DEF Answered
<1>2. PICK d \in 0..left : Elapse(d)
  BY DEF Answered
<1>3. /\ left' \in 0..Budget /\ reset' \in 0..Budget /\ reset' = 0 /\ left \in Nat
      /\ attempts' \in [Kinds -> Nat] /\ Failures' = Failures
  <2>1. reset = 0
    BY <1>1, OpenCall
  <2> QED
    BY <1>1, <1>2, <2>1, ElapseTypes, CallsAssumption DEF CallsInv, TypeOK, Failures
<1>4. stage \in {"plan", "word"} /\ Failures \in Nat /\ Failures <= 2
      /\ (stage = "plan" => Failures <= 1)
  BY <1>1, OpenCall
<1>5. CASE Fail
  BY <1>3, <1>4, <1>5, FailStep
<1>6. CASE /\ stage' = IF stage = "plan" THEN "database" ELSE "end"
           /\ pc' = "none" /\ verdict' = IF stage = "plan" THEN verdict ELSE "answered"
           /\ UNCHANGED <<calls, second>>
  <2>1. TypeOK'
    BY <1>3, <1>4, <1>6 DEF CallsInv, TypeOK
  <2>2. RepairOrRetry' /\ CallsInTime' /\ FirstInv' /\ WindowInv'
    BY <1>3, <1>6 DEF RepairOrRetry, CallsInTime, FirstInv, WindowInv, Calling
  <2>3. StageInv' /\ AttemptInv'
    BY <1>3, <1>4, <1>6 DEF CallsInv, StageInv, AttemptInv
  <2> QED
    BY <2>1, <2>2, <2>3 DEF CallsInv
<1> QED
  BY <1>5, <1>6 DEF Answered

\* A counted failure, followed by a second call or by the end.
LEMMA CountedStep ==
    ASSUME CallsInv, Calling \/ pc = "backoff", left' \in 0..Budget, reset' \in 0..Budget,
           NEW kind \in Kinds, Count(kind),
           \/ Fail
           \/ pc = "call" /\ reset' = 0 /\ (Second("repair") \/ Second("retry"))
    PROVE  CallsInv'
<1>1. /\ attempts' \in [Kinds -> Nat]
      /\ Failures' = Failures + (IF stage = "plan" THEN 1 ELSE 0)
  BY CountTypes DEF CallsInv
<1>2. Failures \in Nat /\ Failures' <= 2
      /\ (pc = "call" => Failures' = IF stage = "plan" THEN 1 ELSE Failures)
  BY <1>1, OpenCall
<1> QED
  BY <1>1, <1>2, FailStep, SecondStep

\* A call that fails is repeated or repaired once, or ends the stage.
LEMMA FailingCallStep ==
    ASSUME CallsInv,
           OutputInvalid \/ SemanticInvalid \/ TransportFails \/ ProviderFails \/ CallTimesOut
    PROVE  CallsInv'
<1>1. Calling /\ left \in Nat
  BY CallsAssumption DEF OutputInvalid, SemanticInvalid, TransportFails, ProviderFails, CallTimesOut,
                         CallsInv, TypeOK
<1>2. PICK d \in 0..left : Elapse(d)
  BY <1>1 DEF OutputInvalid, SemanticInvalid, TransportFails, ProviderFails, CallTimesOut
<1>3. /\ left' \in 0..Budget /\ reset' \in 0..Budget /\ reset' = 0
  <2>1. reset = 0
    BY <1>1, OpenCall
  <2> QED
    BY <1>2, <2>1, ElapseTypes DEF CallsInv
<1>4. PICK kind \in Kinds : Count(kind)
  BY DEF OutputInvalid, SemanticInvalid, TransportFails, ProviderFails, CallTimesOut, Kinds
<1>5. Fail \/ (pc = "call" /\ (Second("repair") \/ Second("retry")))
  BY DEF OutputInvalid, SemanticInvalid, TransportFails, ProviderFails, CallTimesOut
<1> QED
  BY <1>1, <1>3, <1>4, <1>5, CountedStep

\* A rate limit: the wait begins only when the window resets in time.
LEMMA RateLimitedStep == ASSUME CallsInv, RateLimited PROVE CallsInv'
<1>1. Calling /\ Count("transport")
  BY DEF RateLimited
<1>2. PICK d \in 0..left, delay \in (0..Budget) \cup {None} :
         /\ left' = left - d
         /\ reset' = IF delay = None THEN 0 ELSE delay
         /\ IF pc = "call" /\ Fits(delay)
            THEN pc' = "backoff" /\ UNCHANGED <<stage, calls, second, verdict>>
            ELSE Fail
  BY DEF RateLimited
<1>3. left' \in 0..Budget /\ reset' \in 0..Budget
  BY <1>2, CallsAssumption DEF CallsInv, TypeOK
<1>4. CASE Fail
  BY <1>1, <1>3, <1>4, CountedStep DEF Kinds
<1>5. CASE pc = "call" /\ pc' = "backoff" /\ UNCHANGED <<stage, calls, second, verdict>>
  <2>1. /\ attempts' \in [Kinds -> Nat]
        /\ Failures' = Failures + (IF stage = "plan" THEN 1 ELSE 0)
    BY <1>1, CountTypes DEF CallsInv, Kinds
  <2>2. /\ stage \in {"plan", "word"} /\ Failures \in Nat
        /\ stage = "plan" => Failures = 0
    BY <1>1, <1>5, OpenCall
  <2>3. TypeOK'
    BY <1>3, <1>5, <2>1 DEF CallsInv, TypeOK
  <2>4. RepairOrRetry' /\ CallsInTime' /\ FirstInv' /\ WindowInv'
    BY <1>5 DEF CallsInv, RepairOrRetry, CallsInTime, FirstInv, WindowInv, Calling
  <2>5. StageInv' /\ AttemptInv'
    BY <1>5, <2>1, <2>2 DEF CallsInv, StageInv, AttemptInv
  <2> QED
    BY <2>3, <2>4, <2>5 DEF CallsInv
<1> QED
  BY <1>2, <1>4, <1>5

\* The wait covers the window, so that the retry is sent behind its reset.
LEMMA BackoffEndsStep == ASSUME CallsInv, BackoffEnds PROVE CallsInv'
<1>1. pc = "backoff" /\ Second("retry") /\ attempts' = attempts
  BY DEF BackoffEnds
<1>2. PICK d \in reset..left : Elapse(d)
  BY DEF BackoffEnds
<1>3. d \in 0..left /\ reset <= d
  BY <1>2 DEF CallsInv, TypeOK
<1>4. left' \in 0..Budget /\ reset' = 0
  BY <1>2, <1>3, ElapseTypes DEF CallsInv
<1>5. /\ attempts' \in [Kinds -> Nat]
      /\ Failures' = IF stage = "plan" THEN 1 ELSE Failures
  <2>1. Failures' = Failures
    BY <1>1 DEF Failures
  <2> QED
    BY <1>1, <2>1, OpenCall DEF CallsInv, TypeOK
<1> QED
  BY <1>1, <1>4, <1>5, SecondStep

\* A cutoff during the back-off counts as a second failure.
LEMMA BackoffTimesOutStep == ASSUME CallsInv, BackoffTimesOut PROVE CallsInv'
<1>1. pc = "backoff" /\ Elapse(left) /\ Count("transport") /\ Fail /\ left \in 0..left
  BY CallsAssumption DEF BackoffTimesOut, CallsInv, TypeOK
<1>2. left' \in 0..Budget /\ reset' \in 0..Budget
  BY <1>1, ElapseTypes DEF CallsInv
<1> QED
  BY <1>1, <1>2, CountedStep DEF Kinds

\* The first wording call starts with the time that is left.
LEMMA DatabaseReturnsStep == ASSUME CallsInv, DatabaseReturns PROVE CallsInv'
<1>1. stage = "database" /\ pc = "none" /\ reset = 0 /\ attempts' = attempts
  BY DEF DatabaseReturns, CallsInv, StageInv, WindowInv
<1>2. PICK d \in 0..left : Elapse(d)
  BY DEF DatabaseReturns
<1>3. left' \in 0..Budget /\ reset' \in 0..Budget /\ reset' = 0
  BY <1>1, <1>2, ElapseTypes DEF CallsInv
<1>4. attempts' \in [Kinds -> Nat] /\ Failures' = Failures /\ Failures \in Nat /\ Failures <= 1
  BY <1>1, FailuresNat DEF CallsInv, TypeOK, Failures, AttemptInv
<1>5. CASE Fail
  BY <1>3, <1>4, <1>5, FailStep
<1>6. CASE /\ left' > 0 /\ stage' = "word" /\ pc' = "call"
           /\ calls' = [calls EXCEPT !["word"] = @ + 1] /\ UNCHANGED <<second, verdict>>
  <2>1. /\ calls["word"] = 0 /\ second["word"] = "none"
    BY <1>1 DEF CallsInv, StageInv
  <2>2. calls' \in [{"plan", "word"} -> 0..2] /\ calls'["word"] = 1
    BY <1>6, <2>1 DEF CallsInv, TypeOK
  <2>3. TypeOK'
    BY <1>3, <1>4, <1>6, <2>2 DEF CallsInv, TypeOK
  <2>4. RepairOrRetry' /\ CallsInTime' /\ FirstInv' /\ WindowInv'
    BY <1>3, <1>6, <2>1, <2>2 DEF RepairOrRetry, CallsInTime, FirstInv, WindowInv, Calling
  <2>5. StageInv' /\ AttemptInv'
    BY <1>4, <1>6 DEF StageInv, AttemptInv
  <2> QED
    BY <2>3, <2>4, <2>5 DEF CallsInv
<1> QED
  BY <1>5, <1>6 DEF DatabaseReturns

-----------------------------------------------------------------------------
(* The theorems *)

\* Before the first call nothing is spent.
LEMMA CallsStart == Init => CallsInv
<1> SUFFICES ASSUME Init PROVE CallsInv
  OBVIOUS
<1> USE CallsAssumption DEF Init
<1>1. TypeOK
  <2>1. left \in 0..Budget /\ reset \in 0..Budget /\ left > 0
    OBVIOUS
  <2>2. calls \in [{"plan", "word"} -> 0..2] /\ attempts \in [Kinds -> Nat]
    OBVIOUS
  <2> QED
    BY <2>1, <2>2 DEF TypeOK
<1>2. Failures = 0
  BY DEF Failures, Kinds
<1>3. RepairOrRetry /\ CallsInTime /\ FirstInv
  BY DEF RepairOrRetry, CallsInTime, FirstInv, Calling
<1>4. StageInv /\ WindowInv /\ AttemptInv
  BY <1>2 DEF StageInv, WindowInv, AttemptInv
<1> QED
  BY <1>1, <1>3, <1>4 DEF CallsInv

\* Every step of the client keeps the invariant.
LEMMA CallsStep == CallsInv /\ [Next]_vars => CallsInv'
<1> SUFFICES ASSUME CallsInv, [Next]_vars PROVE CallsInv'
  OBVIOUS
<1>1. CASE UNCHANGED vars
  BY <1>1 DEF vars, CallsInv, TypeOK, RepairOrRetry, CallsInTime, Calling, StageInv, FirstInv,
              WindowInv, AttemptInv, Failures
<1> QED
  BY <1>1, AnsweredStep, FailingCallStep, RateLimitedStep, BackoffEndsStep, BackoffTimesOutStep,
     DatabaseReturnsStep DEF Next

\* The invariant behind the properties of the provider calls.
THEOREM Calls == Spec => []CallsInv
BY CallsStart, CallsStep, PTL DEF Spec

\* No stage makes more than two calls, and the clock never runs below zero.
THEOREM CallTypes == Spec => []TypeOK
<1>1. CallsInv => TypeOK
  BY DEF CallsInv
<1> QED
  BY <1>1, Calls, PTL

\* PlannerService.plan and the orchestrator's wording calls: an open repair or
\* retry is the second call of its stage, and the other of the two was not made.
THEOREM RepairExcludesRetry == Spec => []RepairOrRetry
<1>1. CallsInv => RepairOrRetry
  BY DEF CallsInv
<1> QED
  BY <1>1, Calls, PTL

\* PlannerAttemptSummary's validation holds on every way out of plan.
THEOREM SummaryIsAccepted == Spec => []SummaryFits
<1>1. CallsInv => SummaryFits
  <2> SUFFICES ASSUME CallsInv PROVE SummaryFits
    OBVIOUS
  <2>1. Failures \in Nat /\ stage \in {"plan", "database", "word", "end"}
    BY FailuresNat DEF CallsInv, TypeOK
  <2> QED
    BY <2>1 DEF CallsInv, AttemptInv, SummaryFits
<1> QED
  BY <1>1, Calls, PTL

\* No call starts behind the work cutoff, and no retry inside the provider's rate
\* limit window.
THEOREM CallsAreInTime == Spec => []CallsInTime
<1>1. CallsInv => CallsInTime
  BY DEF CallsInv
<1> QED
  BY <1>1, Calls, PTL
=============================================================================
