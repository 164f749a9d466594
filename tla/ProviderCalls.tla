--------------------------- MODULE ProviderCalls ---------------------------
(* The provider calls of one request: PlannerService.plan (planner/service.py),
   the wording calls of service/orchestrator.py and what planner/hcx_client.py
   makes of an answer.  Planning and wording follow one policy under one shared
   deadline: a first call, and at most one second call, either the repair of an
   unparsable answer or the retry of a failed transport.  A step runs from one
   await to the next and takes some of the time that is left.               *)
EXTENDS Integers

CONSTANTS Budget,  \* units of work time the request starts with
          None     \* a rate limit answer without a reset time

ASSUME CallsAssumption == Budget \in Nat \ {0} /\ None \notin Nat

VARIABLES
    stage,     \* "plan", "database", "word", or "end"
    pc,        \* the await: "call", "repair", "retry", "backoff", or "none"
    left,      \* remaining_work_seconds
    calls,     \* stage -> provider calls started
    second,    \* stage -> what its second call was for
    attempts,  \* the failures counted for PlannerAttemptSummary
    reset,     \* time until the provider's rate limit window resets
    verdict    \* how the request's provider work ended

vars == <<stage, pc, left, calls, second, attempts, reset, verdict>>

Kinds == {"parse", "semantic", "transport"}

Init ==
    /\ stage = "plan" /\ pc = "call"
    /\ left \in 1..Budget
    /\ calls = [s \in {"plan", "word"} |-> IF s = "plan" THEN 1 ELSE 0]
    /\ second = [s \in {"plan", "word"} |-> "none"]
    /\ attempts = [k \in Kinds |-> 0]
    /\ reset = 0
    /\ verdict = "none"

Calling == pc \in {"call", "repair", "retry"}

\* Time taken by an await; the provider's window resets meanwhile.
Elapse(d) ==
    /\ d \in 0..left
    /\ left' = left - d
    /\ reset' = IF reset > d THEN reset - d ELSE 0

\* Only planning counts its failures.
Count(kind) == attempts' = IF stage = "plan" THEN [attempts EXCEPT ![kind] = @ + 1]
                           ELSE attempts

\* Every error ends in the safe answer; the category only reaches the log.
Fail == stage' = "end" /\ pc' = "none" /\ verdict' = "safe" /\ UNCHANGED <<calls, second>>

\* The one second call of a stage, if there is time for it.
Second(kind) ==
    IF left' > 0
    THEN /\ pc' = kind
         /\ calls' = [calls EXCEPT ![stage] = @ + 1]
         /\ second' = [second EXCEPT ![stage] = kind]
         /\ UNCHANGED <<stage, verdict>>
    ELSE Fail

-----------------------------------------------------------------------------
\* A planned query goes to the database stage, a verified wording is the answer;
\* neither is accepted after the cutoff (answer_with_plan, verify_wording).
Answered ==
    /\ Calling /\ \E d \in 0..left : Elapse(d)
    /\ IF left' = 0 THEN Fail
       ELSE /\ stage' = IF stage = "plan" THEN "database" ELSE "end"
            /\ pc' = "none"
            /\ verdict' = IF stage = "plan" THEN verdict ELSE "answered"
            /\ UNCHANGED <<calls, second>>
    /\ UNCHANGED attempts

\* Mutant: an unparsable answer to a retry is repaired too.
OutputInvalidRepaired ==
    /\ Calling /\ \E d \in 0..left : Elapse(d)
    /\ Count("parse")
    /\ IF pc \in {"call", "retry"} THEN Second("repair") ELSE Fail

\* PlannerOutputError, ProviderWordingError.
OutputInvalid ==
    /\ Calling /\ \E d \in 0..left : Elapse(d)
    /\ Count("parse")
    /\ IF pc = "call" THEN Second("repair") ELSE Fail

\* PlannerSemanticError, ClaimVerificationError: never asked again.
SemanticInvalid ==
    /\ Calling /\ \E d \in 0..left : Elapse(d)
    /\ Count("semantic") /\ Fail

\* Mutant: a repair that fails in transport is retried.
TransportRetried ==
    /\ Calling /\ \E d \in 0..left : Elapse(d)
    /\ Count("transport")
    /\ IF pc \in {"call", "repair"} THEN Second("retry") ELSE Fail

\* HcxTransportError, or HcxHttpError with a status from 500.
TransportFails ==
    /\ Calling /\ \E d \in 0..left : Elapse(d)
    /\ Count("transport")
    /\ IF pc = "call" THEN Second("retry") ELSE Fail

\* HcxRateLimitError: worth waiting for only if the window resets in time.
Fits(delay) == delay # None /\ delay < left'

RateLimited ==
    /\ Calling
    /\ \E d \in 0..left, delay \in (0..Budget) \cup {None} :
          /\ d \in 0..left /\ left' = left - d
          /\ reset' = IF delay = None THEN 0 ELSE delay
          /\ IF pc = "call" /\ Fits(delay)
             THEN pc' = "backoff" /\ UNCHANGED <<stage, calls, second, verdict>>
             ELSE Fail
    /\ Count("transport")

\* Any other HcxClientError: HTTP below 500, malformed, empty or too large.
ProviderFails ==
    /\ Calling /\ \E d \in 0..left : Elapse(d)
    /\ Count("transport") /\ Fail

\* wait_for's timer: nothing came before the cutoff.
CallTimesOut ==
    /\ Calling /\ Elapse(left)
    /\ Count("transport") /\ Fail

\* Mutant: the sleep may end before the window has reset.
BackoffEarly ==
    /\ pc = "backoff" /\ \E d \in 0..left : Elapse(d)
    /\ Second("retry") /\ UNCHANGED attempts

\* The sleep takes at least the delay.
BackoffEnds ==
    /\ pc = "backoff"
    /\ \E d \in reset..left : Elapse(d)
    /\ Second("retry")
    /\ UNCHANGED attempts

\* Mutant: a backoff that does not fit is tried again.
BackoffRepeats ==
    /\ pc = "backoff" /\ Elapse(left) /\ Count("transport")
    /\ UNCHANGED <<stage, pc, calls, second, verdict>>

\* ... or the cutoff comes first, which planning counts as a second failure.
BackoffTimesOut ==
    /\ pc = "backoff" /\ Elapse(left)
    /\ Count("transport") /\ Fail

\* prepare_plan, and the first wording call unless the cutoff has passed.
DatabaseReturns ==
    /\ stage = "database"
    /\ \E d \in 0..left : Elapse(d)
    /\ IF left' > 0
       THEN /\ stage' = "word" /\ pc' = "call"
            /\ calls' = [calls EXCEPT !["word"] = @ + 1]
            /\ UNCHANGED <<second, verdict>>
       ELSE Fail
    /\ UNCHANGED attempts

Next == \/ Answered \/ OutputInvalid \/ SemanticInvalid \/ TransportFails
        \/ RateLimited \/ ProviderFails \/ CallTimesOut
        \/ BackoffEnds \/ BackoffTimesOut \/ DatabaseReturns

Spec == Init /\ [][Next]_vars

-----------------------------------------------------------------------------
(* Properties *)

\* The types of the stage, the clock and the counters.
TypeOK ==
    /\ stage \in {"plan", "database", "word", "end"}
    /\ pc \in {"call", "repair", "retry", "backoff", "none"}
    /\ left \in 0..Budget /\ reset \in 0..Budget
    /\ calls \in [{"plan", "word"} -> 0..2]
    /\ second \in [{"plan", "word"} -> {"none", "repair", "retry"}]
    /\ attempts \in [Kinds -> Nat]
    /\ verdict \in {"none", "answered", "safe"}

\* "transport retry and repair can [never] both occur": a repair that is open was
\* preceded by one call and by no retry, whatever went wrong before it.
RepairOrRetry ==
    /\ pc = "repair" => calls[stage] = 2 /\ second[stage] = "repair"
    /\ pc = "retry"  => calls[stage] = 2 /\ second[stage] = "retry"

Failures == attempts["parse"] + attempts["semantic"] + attempts["transport"]

\* PlannerAttemptSummary is built from the counters on every way out of plan, and
\* refuses more than two failures of a kind: a failure is counted once for each
\* call, and once more only for a backoff that ended a single call.
SummaryFits == Failures <= 2 /\ (Failures = 2 => calls["plan"] = 2 \/ stage = "end")

\* A retry after a rate limit is sent when the window has reset, and every call
\* has time left to be answered in.
CallsInTime == Calling => left > 0 /\ (pc = "retry" => reset = 0)

-----------------------------------------------------------------------------
(* The inductive invariant behind the safety properties *)

\* A call is open in the stages plan and word only.
StageInv ==
    /\ pc = "none" <=> stage \in {"database", "end"}
    /\ stage \in {"plan", "database"} => calls["word"] = 0 /\ second["word"] = "none"

\* The first call and the wait after it are a stage's only call so far.
FirstInv == pc \in {"call", "backoff"} => calls[stage] = 1 /\ second[stage] = "none"

\* Only a wait knows of a window that has not reset, and it starts in time.
WindowInv == stage # "end" /\ pc # "backoff" => reset = 0

\* What planning has counted when a call, a wait or a later stage is reached.
AttemptInv ==
    /\ stage = "plan" => Failures = IF pc = "call" THEN 0 ELSE 1
    /\ stage \in {"database", "word"} => Failures <= 1
    /\ stage = "end" => Failures <= 2

\* All of the above: preserved by every step.
CallsInv == /\ TypeOK /\ RepairOrRetry /\ CallsInTime
            /\ StageInv /\ FirstInv /\ WindowInv /\ AttemptInv
=============================================================================
