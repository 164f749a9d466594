--------------------------- MODULE RequestService ---------------------------
(* One evaluation server: the admission of service/limits.py, the pipeline of
   service/orchestrator.py, the database worker of service/answer_service.py, the
   route of api/routes/answer.py and the shutdown of api/dependencies.py.

   Two kinds of steps interleave.  Those of the event loop run from one await to
   the next: a request arrives, is admitted, passes planner, database and wording,
   and may be timed out or cancelled at each await.  Those of the worker threads
   started by asyncio.to_thread run prepare_plan, one at a time under
   _request_lock, and outlive the request that asyncio.shield keeps them from.  *)
EXTENDS Integers, FiniteSets, Sequences, SequencesExt

CONSTANTS Requests,   \* requests, each made at most once; also their deadlines
          None,       \* no request
          Permits,    \* RequestLimiter's max_in_flight
          MaxQueries  \* bound: queries of one prepare_plan

ASSUME ServiceAssumption ==
    /\ None \notin Requests /\ IsFiniteSet(Requests)
    /\ Permits \in Nat \ {0} /\ MaxQueries \in Nat

VARIABLES
    pc,        \* request -> the await its coroutine is at
    phase,     \* request -> before its work cutoff, before its outer deadline, after
    result,    \* request -> what was answered
    permits,   \* the semaphore's value
    queue,     \* requests waiting for a permit, first come first served
    owed,      \* requests that left their permit to their worker's done callback
    task,      \* request -> the asyncio task around its worker
    workers,   \* _database_workers
    thread,    \* request -> where its worker thread is in prepare_plan
    queries,   \* request -> queries its worker has started
    outcome,   \* request -> how its worker ended
    dbLock,    \* the request whose worker holds _request_lock
    active,    \* _active_deadline
    interrupted,  \* the connection was asked to abort its query
    server     \* "serving", "draining" (lifespan exit) or "closed"

loopVars   == <<pc, result, permits, queue, owed>>
taskVars   == <<task, workers>>
threadVars == <<thread, queries, outcome, dbLock, active>>
vars == <<loopVars, taskVars, threadVars, phase, interrupted, server>>

\* A coroutine that has its permit and has not left the limiter's context.
Stages == {"planner", "database", "wording", "repair", "backoff", "retry"}

Late(r) == phase[r] # "work"

\* A worker thread inside prepare_plan.
Live(r) == thread[r] \notin {"none", "ended"}

Holders == {r \in Requests : pc[r] \in Stages \cup {"granted"} \/ r \in owed}

Init ==
    /\ pc = [r \in Requests |-> "new"]
    /\ phase = [r \in Requests |-> "work"]
    /\ result = [r \in Requests |-> "none"]
    /\ permits = Permits /\ queue = <<>> /\ owed = {}
    /\ task = [r \in Requests |-> "none"] /\ workers = {}
    /\ thread = [r \in Requests |-> "none"]
    /\ queries = [r \in Requests |-> 0]
    /\ outcome = [r \in Requests |-> "none"]
    /\ dbLock = None /\ active = None
    /\ interrupted = FALSE
    /\ server = "serving"

-----------------------------------------------------------------------------
(* asyncio.Semaphore *)

\* release: the permit goes to the first waiter, which resumes later, or back.
Release(newPc) ==
    IF queue # <<>>
    THEN /\ pc' = [newPc EXCEPT ![Head(queue)] = "granted"]
         /\ queue' = Tail(queue)
         /\ UNCHANGED permits
    ELSE pc' = newPc /\ permits' = permits + 1 /\ UNCHANGED queue

\* locked: no permit, or somebody is before us.
Locked == permits = 0 \/ queue # <<>> \/ \E r \in Requests : pc[r] = "granted"

At(r, l) == [pc EXCEPT ![r] = l]

\* The coroutine leaves the limiter's context with no worker behind it.
Leave(r, res) ==
    /\ Release(At(r, "done"))
    /\ result' = [result EXCEPT ![r] = res]
    /\ UNCHANGED owed

-----------------------------------------------------------------------------
(* Admission *)

\* The middleware issues the deadline and the route prebuilds the safe answer,
\* which fails only beyond the outer deadline; then acquire.
Arrive(r) ==
    /\ pc[r] = "new" /\ server = "serving"
    /\ \/ /\ phase[r] = "over"
          /\ pc' = At(r, "done")
          /\ result' = [result EXCEPT ![r] = "error"]
          /\ UNCHANGED <<permits, queue>>
       \/ /\ phase[r] = "reserve"
          /\ pc' = At(r, "done")
          /\ result' = [result EXCEPT ![r] = "safe"]
          /\ UNCHANGED <<permits, queue>>
       \/ /\ ~Late(r) /\ Locked
          /\ pc' = At(r, "queued") /\ queue' = Append(queue, r)
          /\ UNCHANGED <<permits, result>>
       \/ /\ ~Late(r) /\ ~Locked
          /\ pc' = At(r, "planner") /\ permits' = permits - 1
          /\ UNCHANGED <<queue, result>>
    /\ UNCHANGED <<owed, taskVars, threadVars, phase, interrupted, server>>

\* A waiter leaves the queue: wait_for timed out, or the request was cancelled.
AbandonQueue(r, res) ==
    /\ pc[r] = "queued"
    /\ pc' = At(r, "done")
    /\ \E i \in 1..Len(queue) : queue[i] = r /\ queue' = RemoveAt(queue, i)
    /\ result' = [result EXCEPT ![r] = res]
    /\ UNCHANGED <<permits, owed, taskVars, threadVars, phase, interrupted, server>>

\* Mutant: a waiter cancelled after it was granted the permit keeps it.
AbandonGrantKeeps(r, res) ==
    /\ pc[r] = "granted" /\ pc' = At(r, "done")
    /\ result' = [result EXCEPT ![r] = res]
    /\ UNCHANGED <<permits, queue, owed, taskVars, threadVars, phase, interrupted, server>>

\* ... after the permit was handed to it: acquire passes it on.
AbandonGrant(r, res) ==
    /\ pc[r] = "granted"
    /\ Leave(r, res)
    /\ UNCHANGED <<taskVars, threadVars, phase, interrupted, server>>

\* The waiter resumes with its permit.  The planner stage begins with a check of
\* the work cutoff (_within_deadline), like every stage below.
Enter(r) ==
    /\ pc[r] = "granted"
    /\ \/ /\ ~Late(r) /\ pc' = At(r, "planner")
          /\ UNCHANGED <<result, permits, queue, owed>>
       \/ Late(r) /\ Leave(r, "safe")
    /\ UNCHANGED <<taskVars, threadVars, phase, interrupted, server>>

-----------------------------------------------------------------------------
(* EvaluationOrchestrator._answer_within_deadline *)

\* Mutant: a stage begins without a look at the clock.
BeginUnchecked(r, stage) ==
    pc' = At(r, stage) /\ UNCHANGED <<result, permits, queue, owed>>

\* _within_deadline: a stage begins only before the cutoff.
Begin(r, stage) ==
    \/ /\ ~Late(r) /\ pc' = At(r, stage)
       /\ UNCHANGED <<result, permits, queue, owed>>
    \/ Late(r) /\ Leave(r, "safe")

\* The planner answers, and the worker is started; or fails.
PlannerReturns(r) ==
    /\ pc[r] = "planner"
    /\ \/ /\ ~Late(r) /\ pc' = At(r, "database")
          /\ task' = [task EXCEPT ![r] = "pending"]
          /\ workers' = workers \cup {r}
          /\ thread' = [thread EXCEPT ![r] = "lock"]
          /\ UNCHANGED <<result, permits, queue, owed>>
       \/ Leave(r, "safe") /\ UNCHANGED <<taskVars, thread>>
    /\ UNCHANGED <<queries, outcome, dbLock, active, phase, interrupted, server>>

\* Mutant: interrupt does not ask whose query is running.
InterruptAnyQuery(r) == task[r] # "done"

\* AnswerService.interrupt, called unless the worker's task is done.
\* _active_deadline_lock makes the comparison and the interrupt one step.
Interrupts(r) == task[r] # "done" /\ active = r

\* Mutant: the context gives its permit back although its worker still runs.
LeaveDatabaseReleasing(r, res) ==
    /\ pc[r] = "database"
    /\ Leave(r, res)
    /\ interrupted' = (interrupted \/ Interrupts(r))
    /\ UNCHANGED <<taskVars, threadVars, phase, server>>

\* Timeout or cancellation while the worker runs: interrupt, and
\* retain_permit_until_done.
LeaveDatabase(r, res) ==
    /\ pc[r] = "database"
    /\ pc' = At(r, "done")
    /\ result' = [result EXCEPT ![r] = res]
    /\ interrupted' = (interrupted \/ Interrupts(r))
    /\ owed' = owed \cup {r}
    /\ UNCHANGED <<permits, queue, taskVars, threadVars, phase, server>>

\* The worker's task is done: its answer, _DatabaseFailure, or its own
\* TimeoutError, which wait_for cannot tell from the one it raises itself.
DatabaseReturns(r) ==
    /\ pc[r] = "database" /\ task[r] = "done"
    /\ \/ outcome[r] = "prepared" /\ Begin(r, "wording")
       \/ outcome[r] = "error" /\ Leave(r, "safe")
       \/ /\ outcome[r] = "timeout"
          /\ pc' = At(r, "done")
          /\ result' = [result EXCEPT ![r] = "safe"]
          /\ owed' = owed \cup {r}
          /\ UNCHANGED <<permits, queue>>
    /\ UNCHANGED <<taskVars, threadVars, phase, interrupted, server>>

\* verify_wording refuses after the cutoff; a verified answer leaves the limiter
\* and is serialized by the route.
Verify(r) ==
    \/ ~Late(r) /\ Release(At(r, "publish")) /\ UNCHANGED <<result, owed>>
    \/ Leave(r, "safe")

\* The first wording call: answered; refused by the parser, which is repaired;
\* a provider failure, which is retried at once, after a delay, or not at all.
WordingReturns(r) ==
    /\ pc[r] = "wording"
    /\ \/ Verify(r)
       \/ Begin(r, "repair")
       \/ Begin(r, "retry")
       \/ Begin(r, "backoff")
       \/ Leave(r, "safe")
    /\ UNCHANGED <<taskVars, threadVars, phase, interrupted, server>>

BackoffEnds(r) ==
    /\ pc[r] = "backoff"
    /\ Begin(r, "retry")
    /\ UNCHANGED <<taskVars, threadVars, phase, interrupted, server>>

\* The second call, repair or retry, is the last.
SecondReturns(r) ==
    /\ pc[r] \in {"repair", "retry"}
    /\ Verify(r)
    /\ UNCHANGED <<taskVars, threadVars, phase, interrupted, server>>

\* publish_result, or beyond the outer deadline the prebuilt body with status 500.
Publish(r) ==
    /\ pc[r] = "publish"
    /\ pc' = At(r, "done")
    /\ result' = [result EXCEPT ![r] = IF phase[r] = "over" THEN "error" ELSE "verified"]
    /\ UNCHANGED <<permits, queue, owed, taskVars, threadVars, phase, interrupted, server>>

\* Mutant: provider calls are awaited without wait_for.
LeaveStageCancelled(r, res) ==
    /\ pc[r] \in Stages \ {"database"} /\ res = "cancelled"
    /\ Leave(r, res)
    /\ UNCHANGED <<taskVars, threadVars, phase, interrupted, server>>

\* Any other await is given up without a trace.
LeaveStage(r, res) ==
    /\ pc[r] \in Stages \ {"database"}
    /\ Leave(r, res)
    /\ UNCHANGED <<taskVars, threadVars, phase, interrupted, server>>

Abort(r, res) == \/ AbandonQueue(r, res) \/ AbandonGrant(r, res)
                 \/ LeaveDatabase(r, res) \/ LeaveStage(r, res)

\* wait_for's timer, and cancellation of the request's task from outside.
Timeout(r) == Late(r) /\ Abort(r, "safe")
Cancel(r)  == Abort(r, "cancelled")

-----------------------------------------------------------------------------
(* AnswerService.prepare_plan, in the worker thread *)

Goto(r, l) == thread' = [thread EXCEPT ![r] = l]

Ends(r, how) == Goto(r, "clear") /\ outcome' = [outcome EXCEPT ![r] = how]

\* with _request_lock, _active_deadline = deadline
LockDatabase(r) ==
    /\ thread[r] = "lock" /\ dbLock = None
    /\ dbLock' = r /\ active' = r
    /\ Goto(r, "check")
    /\ UNCHANGED <<loopVars, taskVars, queries, outcome, phase, interrupted, server>>

\* _require_work between two parts of _answer_plan, and the part itself up to its
\* first query: it may end the answer (a clarification needs no query) or raise.
RequireWork(r) ==
    /\ thread[r] = "check"
    /\ \/ Late(r) /\ Ends(r, "timeout")
       \/ ~Late(r) /\ Ends(r, "prepared")
       \/ ~Late(r) /\ Ends(r, "error")
       \/ ~Late(r) /\ queries[r] < MaxQueries /\ Goto(r, "gap") /\ UNCHANGED outcome
    /\ UNCHANGED <<loopVars, taskVars, queries, dbLock, active, phase, interrupted, server>>

\* DuckDB forgets an interrupt that came while no query was running.
StartQuery(r) ==
    /\ thread[r] = "gap"
    /\ Goto(r, "query")
    /\ queries' = [queries EXCEPT ![r] = @ + 1]
    /\ interrupted' = FALSE
    /\ UNCHANGED <<loopVars, taskVars, outcome, dbLock, active, phase, server>>

\* The rows are fetched, and another query of the same part or the next check
\* follows; or the query raises, because it was interrupted or otherwise.
EndQuery(r) ==
    /\ thread[r] = "query"
    /\ \/ Goto(r, "check") /\ UNCHANGED outcome
       \/ queries[r] < MaxQueries /\ Goto(r, "gap") /\ UNCHANGED outcome
       \/ Ends(r, "error")
    /\ UNCHANGED <<loopVars, taskVars, queries, dbLock, active, phase, interrupted, server>>

\* The finally of prepare_plan, and then the end of the with block.
ClearActive(r) ==
    /\ thread[r] = "clear"
    /\ active' = IF active = r THEN None ELSE active
    /\ Goto(r, "unlock")
    /\ UNCHANGED <<loopVars, taskVars, queries, outcome, dbLock, phase, interrupted, server>>

UnlockDatabase(r) ==
    /\ thread[r] = "unlock"
    /\ dbLock' = None
    /\ Goto(r, "ended")
    /\ UNCHANGED <<loopVars, taskVars, queries, outcome, active, phase, interrupted, server>>

-----------------------------------------------------------------------------
(* The worker's end, seen by the event loop *)

\* Mutant: the discard callback is not registered.
CompleteTaskRegistered(r) ==
    /\ task[r] = "pending" /\ thread[r] = "ended"
    /\ task' = [task EXCEPT ![r] = "done"]
    /\ UNCHANGED <<loopVars, workers, threadVars, phase, interrupted, server>>

\* The task completes; its first callback discards it from _database_workers.
CompleteTask(r) ==
    /\ task[r] = "pending" /\ thread[r] = "ended"
    /\ task' = [task EXCEPT ![r] = "done"]
    /\ workers' = workers \ {r}
    /\ UNCHANGED <<loopVars, threadVars, phase, interrupted, server>>

\* Mutant: the callback releases once per call, not once.
ReleaseAgain(r) ==
    /\ r \in owed /\ task[r] = "done"
    /\ Release(pc)
    /\ UNCHANGED <<result, owed, taskVars, threadVars, phase, interrupted, server>>

\* Mutant: the callback is run for a worker that ended well only.
ReleaseOnSuccess(r) ==
    /\ r \in owed /\ task[r] = "done" /\ outcome[r] = "prepared"
    /\ owed' = owed \ {r}
    /\ Release(pc)
    /\ UNCHANGED <<result, taskVars, threadVars, phase, interrupted, server>>

\* The callback of retain_permit_until_done.
ReleaseRetained(r) ==
    /\ r \in owed /\ task[r] = "done"
    /\ owed' = owed \ {r}
    /\ Release(pc)
    /\ UNCHANGED <<result, taskVars, threadVars, phase, interrupted, server>>

-----------------------------------------------------------------------------
(* Time and shutdown *)

\* Only the route looks at the outer deadline, so it passes only there.
Advance(r) ==
    /\ \/ /\ phase[r] = "work" /\ (pc[r] # "done" \/ Live(r))
          /\ phase' = [phase EXCEPT ![r] = "reserve"]
       \/ /\ phase[r] = "reserve" /\ pc[r] \in {"new", "publish"}
          /\ phase' = [phase EXCEPT ![r] = "over"]
    /\ UNCHANGED <<loopVars, taskVars, threadVars, interrupted, server>>

\* The server takes no more requests and leaves the lifespan once those it has
\* are answered or cancelled.
BeginShutdown ==
    /\ server = "serving"
    /\ \A r \in Requests : pc[r] \in {"new", "done"}
    /\ server' = "draining"
    /\ UNCHANGED <<loopVars, taskVars, threadVars, phase, interrupted>>

\* Mutant: the session is closed without the drain.
CloseUndrained ==
    /\ server = "draining" /\ server' = "closed"
    /\ UNCHANGED <<loopVars, taskVars, threadVars, phase, interrupted>>

\* aclose returns when no worker is registered; the session closes after it.
Close ==
    /\ server = "draining" /\ workers = {}
    /\ server' = "closed"
    /\ UNCHANGED <<loopVars, taskVars, threadVars, phase, interrupted>>

Loop(r) == \/ Arrive(r) \/ Enter(r) \/ PlannerReturns(r) \/ DatabaseReturns(r)
           \/ WordingReturns(r) \/ BackoffEnds(r) \/ SecondReturns(r) \/ Publish(r)
           \/ Timeout(r) \/ Cancel(r) \/ CompleteTask(r) \/ ReleaseRetained(r)

Work(r) == \/ LockDatabase(r) \/ RequireWork(r) \/ StartQuery(r) \/ EndQuery(r)
           \/ ClearActive(r) \/ UnlockDatabase(r)

Next == (\E r \in Requests : Loop(r) \/ Work(r) \/ Advance(r)) \/ BeginShutdown \/ Close

\* The event loop runs what is ready, threads run, time passes and queries end.
\* Nothing is assumed of clients, of the planner and of the wording provider.
Fairness ==
    /\ \A r \in Requests :
          /\ WF_vars(Timeout(r)) /\ WF_vars(Publish(r)) /\ WF_vars(Enter(r))
          /\ WF_vars(CompleteTask(r)) /\ WF_vars(ReleaseRetained(r))
          /\ WF_vars(Advance(r) /\ pc[r] # "new")
          /\ WF_vars(Work(r))
    /\ WF_vars(Close)

Spec == Init /\ [][Next]_vars /\ Fairness

-----------------------------------------------------------------------------
(* Properties *)

Pcs == {"new", "queued", "granted", "publish", "done"} \cup Stages

\* The types of the coroutines', the tasks' and the threads' state.
TypeOK ==
    /\ pc \in [Requests -> Pcs]
    /\ phase \in [Requests -> {"work", "reserve", "over"}]
    /\ result \in [Requests -> {"none", "safe", "verified", "error", "cancelled"}]
    /\ permits \in 0..Permits /\ queue \in Seq(Requests) /\ owed \subseteq Requests
    /\ task \in [Requests -> {"none", "pending", "done"}] /\ workers \subseteq Requests
    /\ thread \in [Requests -> {"none", "lock", "check", "gap", "query", "clear",
                                "unlock", "ended"}]
    /\ queries \in [Requests -> 0..MaxQueries]
    /\ outcome \in [Requests -> {"none", "prepared", "timeout", "error"}]
    /\ dbLock \in Requests \cup {None} /\ active \in Requests \cup {None}
    /\ interrupted \in BOOLEAN /\ server \in {"serving", "draining", "closed"}

\* No permit is lost or given twice, whichever way requests and their workers
\* leave: finally releases it, or the done callback does, never both or neither.
PermitsConserved == permits + Cardinality(Holders) = Permits

\* A worker that its request has left behind still counts against the limit:
\* there are never more database workers than permits.
WorkersBounded == Cardinality({r \in Requests : Live(r)}) <= Permits

\* A timeout or cancellation never aborts the query of another request: a query
\* that is asked to stop belongs to a request that has left it behind.
InterruptIsOwn ==
    \A r \in Requests : thread[r] = "query" /\ interrupted => r \in owed

\* The artifact session is closed only when no worker thread is in it.
SessionOutlivesWorkers ==
    server = "closed" => \A r \in Requests : ~Live(r)

\* Planner, database and wording calls, the second wording call included, start
\* only before the work cutoff: what is left is the time to serialize an answer.
StartsInTime ==
    \A r \in Requests : pc'[r] \in Stages /\ pc'[r] # pc[r] => phase[r] = "work"
NoCallAfterCutoff == [][StartsInTime]_vars

\* Every admitted or waiting request is answered, whatever the provider does.
RequestEnds == \A r \in Requests : (pc[r] # "new") ~> (pc[r] = "done")

\* Every permit comes back, that of a request left behind by its client too.
PermitReturns == \A r \in Requests : (r \in Holders) ~> (r \notin Holders)

\* A shutdown gets through its drain.
DrainCompletes == server = "draining" ~> server = "closed"
-----------------------------------------------------------------------------
(* The inductive invariant behind the safety properties *)

\* The semaphore's waiters are the queued coroutines, each of them once.
QueueInv ==
    /\ \A i, j \in 1..Len(queue) : queue[i] = queue[j] => i = j
    /\ \A r \in Requests : pc[r] = "queued" <=> \E i \in 1..Len(queue) : queue[i] = r

\* A permit is left to a worker by a coroutine that is gone and had started one.
OwedInv == \A r \in owed : pc[r] = "done" /\ task[r] # "none"

\* The task around a worker: registered as long as it is pending, not done before
\* its thread has ended, and paid for by a permit until it is.
TaskInv ==
    \A r \in Requests :
        /\ pc[r] \in {"new", "queued", "granted", "planner"} => task[r] = "none"
        /\ pc[r] = "database" => task[r] # "none"
        /\ task[r] = "none" <=> thread[r] = "none"
        /\ task[r] = "done" => thread[r] = "ended"
        /\ task[r] = "pending" <=> r \in workers
        /\ task[r] = "pending" => pc[r] = "database" \/ r \in owed

\* The thread inside _request_lock holds it, and its deadline is the active one
\* until the finally of prepare_plan.
DatabaseInv ==
    \A r \in Requests :
        /\ dbLock = r <=> thread[r] \in {"check", "gap", "query", "clear", "unlock"}
        /\ active = r <=> thread[r] \in {"check", "gap", "query", "clear"}
        /\ thread[r] = "gap" => queries[r] < MaxQueries

\* Nothing is admitted once the lifespan ends, and nothing runs once it has.
DrainInv ==
    /\ server # "serving" => \A r \in Requests : pc[r] \in {"new", "done"}
    /\ server = "closed" => workers = {}

\* All of the above: preserved by every step.
ServiceInv == /\ TypeOK /\ PermitsConserved /\ QueueInv /\ OwedInv /\ TaskInv
              /\ DatabaseInv /\ DrainInv /\ InterruptIsOwn
=============================================================================
