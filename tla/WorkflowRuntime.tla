-------------------------- MODULE WorkflowRuntime --------------------------
(***************************************************************************)
(* The life of a planner run: the service that enqueues, executes, retries *)
(* and cancels runs (services/workflow_runtime_service.py), the two tables *)
(* it keeps (workflow runs and jobs), the trip table it fills, and the RQ  *)
(* queue and workers behind it (messaging/redis_queue.py).                 *)
(*                                                                         *)
(* Every repository call is one transaction and so one step here.  What a  *)
(* process read in one step it carries in a local copy and writes back in  *)
(* a later one, as the code does: save() overwrites the whole row.         *)
(*                                                                         *)
(* This is the wiring of bootstrap.py: Postgres repositories, the RQ queue *)
(* and the coordinator runtime.  Of a row only the columns control depends *)
(* on are kept; times, errors, current_step, the request and the context   *)
(* are not.                                                                *)
(***************************************************************************)
EXTENDS Integers, FiniteSets

CONSTANTS Runs,        \* the run ids ever allocated (a run has its own job and trip)
          Workers,     \* the RQ worker processes
          MaxRetries,  \* settings.workflow_runtime.max_retries
          MaxEvents,   \* bound: progress events the coordinator reports in one attempt
          MaxFaults,   \* bound: process deaths and failed infrastructure calls
          MaxCancels   \* bound: cancellations requested in total

ASSUME RunsAndWorkers == Runs # {} /\ Runs \cap Workers = {}
ASSUME Bounds == /\ MaxRetries \in Nat
                 /\ MaxEvents \in Nat
                 /\ MaxFaults \in Nat
                 /\ MaxCancels \in Nat

VARIABLES runs,     \* workflow_run_repository: run id -> row
          jobs,     \* job_repository: the job of a run -> row
          trips,    \* trip_repository: the runs whose trip record is stored
          queue,    \* RQ messages waiting for a worker
          submit,   \* the API request that creates a run
          cancel,   \* the API request that cancels a run
          work,     \* run_async_job in each worker
          thread,   \* _execute_run, in a worker's pool thread or in a sync request
          faults,   \* faults so far
          attempts, \* history: how often a worker began to execute a run
          heeded    \* history: runs cancelled while their first message waited

vars == <<runs, jobs, trips, queue, submit, cancel, work, thread, faults,
          attempts, heeded>>

-----------------------------------------------------------------------------
(* Rows and local copies. *)

WorkflowRunStatus == {"PENDING", "QUEUED", "RUNNING", "SUCCEEDED", "FAILED",
                      "CANCELLED", "DEAD_LETTERED"}
Terminal == {"SUCCEEDED", "FAILED", "CANCELLED", "DEAD_LETTERED"}

\* A row that is not in its table yet.
Absent == "ABSENT"
\* queue_job_id is the number of the attempt it was enqueued for, or none yet.
NoQueueId == -1
Attempt == 0 .. MaxRetries + 1
QueueId == Attempt \cup {NoQueueId}

RunRow == [status: WorkflowRunStatus \cup {Absent}, cancelled: BOOLEAN, qid: QueueId]
JobRow == [status: WorkflowRunStatus \cup {Absent}, cancelled: BOOLEAN, qid: QueueId,
           retries: Attempt]
Message == [run: Runs, attempt: Attempt]

NoRun == [status |-> Absent, cancelled |-> FALSE, qid |-> NoQueueId]
NoJob == [status |-> Absent, cancelled |-> FALSE, qid |-> NoQueueId, retries |-> 0]

\* _build_run and the PlannerJob literal of enqueue_async and rerun_run.
BuildRun(status) == [NoRun EXCEPT !.status = status]
BuildJob == [NoJob EXCEPT !.status = "QUEUED"]

\* What cancel_run and cancel_job do to the row they read.
Flagged(row) ==
    [row EXCEPT !.cancelled = TRUE,
                !.status = IF @ \in {"QUEUED", "PENDING"} THEN "CANCELLED" ELSE @]

Procs == Workers \cup Runs     \* a run id also names the sync request of that run
NoThread == [pc |-> "none", run |-> NoRun, latest |-> NoRun, events |-> 0]
Begun == [NoThread EXCEPT !.pc = "get_run"]
Executing == {"get_run", "progress", "save_progress", "save_trip", "save_success"}
Returned == {"ok", "raised"}

\* A request keeps its local copies until it has answered.
Answered == [pc |-> "done", run |-> NoRun]
NoCancel == [pc |-> "idle", by |-> "run", run |-> NoRun, job |-> NoJob]
Cancelled == [NoCancel EXCEPT !.pc = "done"]

\* An idle worker has no message; which run its record names then is immaterial.
IdleWorker == [pc |-> "idle", msg |-> [run |-> CHOOSE r \in Runs : TRUE, attempt |-> 0],
               run |-> NoRun, job |-> NoJob, timedOut |-> FALSE]

RunOf(p) == IF p \in Workers THEN work[p].msg.run ELSE p

-----------------------------------------------------------------------------
Init ==
    /\ runs = [r \in Runs |-> NoRun]
    /\ jobs = [r \in Runs |-> NoJob]
    /\ trips = {}
    /\ queue = {}
    /\ submit = [r \in Runs |-> [pc |-> "new", run |-> NoRun]]
    /\ cancel = [r \in Runs |-> NoCancel]
    /\ work = [w \in Workers |-> IdleWorker]
    /\ thread = [p \in Procs |-> NoThread]
    /\ faults = 0
    /\ attempts = [r \in Runs |-> 0]
    /\ heeded = {}

history == <<attempts, heeded>>

-----------------------------------------------------------------------------
(* Creating a run.  No caller repeats an idempotency key (create_trip      *)
(* passes none, CreateTripAsyncUseCase a fresh uuid4), so the lookup that  *)
(* opens execute_sync and enqueue_async finds nothing and is left out.     *)

\* enqueue_async, and rerun_job which calls it: build the run, first save.
SubmitAsync(r) ==
    /\ submit[r].pc = "new"
    /\ runs' = [runs EXCEPT ![r] = BuildRun("QUEUED")]
    /\ submit' = [submit EXCEPT ![r] = [pc |-> "enqueue", run |-> BuildRun("QUEUED")]]
    /\ UNCHANGED <<jobs, trips, queue, cancel, work, thread, faults, history>>

\* rerun_run: as enqueue_async, for a run that copies the request of another.
RerunRun(r, original) ==
    /\ runs[original].status # Absent
    /\ SubmitAsync(r)

\* workflow_queue.enqueue: from here on a worker may take the message.
SubmitEnqueue(r) ==
    /\ submit[r].pc = "enqueue"
    /\ queue' = queue \cup {[run |-> r, attempt |-> BuildJob.retries]}
    /\ submit' = [submit EXCEPT ![r] =
                    [pc |-> "save_job", run |-> [submit[r].run EXCEPT !.qid = BuildJob.retries]]]
    /\ UNCHANGED <<runs, jobs, trips, cancel, work, thread, faults, history>>

SubmitSaveJob(r) ==
    /\ submit[r].pc = "save_job"
    /\ jobs' = [jobs EXCEPT ![r] = [BuildJob EXCEPT !.qid = submit[r].run.qid]]
    /\ submit' = [submit EXCEPT ![r].pc = "save_run"]
    /\ UNCHANGED <<runs, trips, queue, cancel, work, thread, faults, history>>

\* The second save of the run, to record queue_job_id.
SubmitSaveRun(r) ==
    /\ submit[r].pc = "save_run"
    /\ runs' = [runs EXCEPT ![r] = submit[r].run]
    /\ submit' = [submit EXCEPT ![r] = Answered]
    /\ UNCHANGED <<jobs, trips, queue, cancel, work, thread, faults, history>>

\* execute_sync: save the PENDING run, then _execute_run in the same request.
SubmitSync(r) ==
    /\ submit[r].pc = "new"
    /\ runs' = [runs EXCEPT ![r] = BuildRun("PENDING")]
    /\ submit' = [submit EXCEPT ![r] = [pc |-> "executing", run |-> BuildRun("PENDING")]]
    /\ thread' = [thread EXCEPT ![r] = Begun]
    /\ UNCHANGED <<jobs, trips, queue, cancel, work, faults, history>>

\* _execute_run returned or raised: the request answers, nothing is written.
SyncReturns(r) ==
    /\ submit[r].pc = "executing"
    /\ thread[r].pc \in Returned
    /\ submit' = [submit EXCEPT ![r] = Answered]
    /\ thread' = [thread EXCEPT ![r] = NoThread]
    /\ UNCHANGED <<runs, jobs, trips, queue, cancel, work, faults, history>>

\* A repository or the queue raises, or the server dies, inside enqueue_async.
SubmitAborts(r) ==
    /\ submit[r].pc \in {"enqueue", "save_job", "save_run"}
    /\ faults < MaxFaults
    /\ faults' = faults + 1
    /\ submit' = [submit EXCEPT ![r] = Answered]
    /\ UNCHANGED <<runs, jobs, trips, queue, cancel, work, thread, history>>

-----------------------------------------------------------------------------
(* Cancelling a run.  cancel_run handles the run row, then the job row;    *)
(* cancel_job the other way round.  Both read a row in one transaction and *)
(* save their flagged copy in another, then ask RQ to stop the job.        *)

CancelsSoFar == Cardinality({r \in Runs : cancel[r].pc # "idle"})

CancelRun(r) ==
    /\ cancel[r].pc = "idle" /\ CancelsSoFar < MaxCancels
    /\ runs[r].status # Absent
    /\ cancel' = [cancel EXCEPT ![r] = [NoCancel EXCEPT !.pc = "save_run",
                                                        !.run = Flagged(runs[r])]]
    /\ UNCHANGED <<runs, jobs, trips, queue, submit, work, thread, faults, history>>

CancelJob(r) ==
    /\ cancel[r].pc = "idle" /\ CancelsSoFar < MaxCancels
    /\ jobs[r].status # Absent
    /\ cancel' = [cancel EXCEPT ![r] = [NoCancel EXCEPT !.pc = "save_job", !.by = "job",
                                                        !.job = Flagged(jobs[r])]]
    /\ UNCHANGED <<runs, jobs, trips, queue, submit, work, thread, faults, history>>

CancelSaveRun(r) ==
    /\ cancel[r].pc = "save_run"
    /\ runs' = [runs EXCEPT ![r] = cancel[r].run]
    /\ cancel' = [cancel EXCEPT ![r].pc = IF cancel[r].by = "run" THEN "get_job" ELSE "stop"]
    /\ UNCHANGED <<jobs, trips, queue, submit, work, thread, faults, history>>

CancelGetJob(r) ==
    /\ cancel[r].pc = "get_job"
    /\ cancel' = IF jobs[r].status = Absent
                 THEN [cancel EXCEPT ![r] = Cancelled]
                 ELSE [cancel EXCEPT ![r] = [@ EXCEPT !.pc = "save_job", !.job = Flagged(jobs[r])]]
    /\ UNCHANGED <<runs, jobs, trips, queue, submit, work, thread, faults, history>>

\* heeded remembers a job row flagged before any worker took the first message.
CancelSaveJob(r) ==
    /\ cancel[r].pc = "save_job"
    /\ jobs' = [jobs EXCEPT ![r] = cancel[r].job]
    /\ cancel' = [cancel EXCEPT ![r].pc = IF cancel[r].by = "run" THEN "stop" ELSE "get_run"]
    /\ heeded' = IF [run |-> r, attempt |-> 0] \in queue THEN heeded \cup {r} ELSE heeded
    /\ UNCHANGED <<runs, trips, queue, submit, work, thread, faults, attempts>>

CancelGetRun(r) ==
    /\ cancel[r].pc = "get_run"
    /\ cancel' = [cancel EXCEPT ![r] = [@ EXCEPT !.pc = "save_run", !.run = Flagged(runs[r])]]
    /\ UNCHANGED <<runs, jobs, trips, queue, submit, work, thread, faults, history>>

\* request_cancel: RQ kills the process that executes the job with this id, if
\* one does; no message is taken off the queue, and no row is written.  A lost
\* command is swallowed.
CancelStop(r) ==
    LET qid == IF cancel[r].by = "run" THEN cancel[r].job.qid ELSE cancel[r].run.qid
        stopped == {w \in Workers : work[w].pc # "idle"
                                    /\ work[w].msg = [run |-> r, attempt |-> qid]}
    IN  /\ cancel[r].pc = "stop"
        /\ cancel' = [cancel EXCEPT ![r] = Cancelled]
        /\ \E killed \in {{}, stopped} :
              /\ work' = [w \in Workers |-> IF w \in killed THEN IdleWorker ELSE work[w]]
              /\ thread' = [p \in Procs |-> IF p \in killed THEN NoThread ELSE thread[p]]
        /\ UNCHANGED <<runs, jobs, trips, queue, submit, faults, history>>

CancelAborts(r) ==
    /\ cancel[r].pc \notin {"idle", "done"}
    /\ faults < MaxFaults
    /\ faults' = faults + 1
    /\ cancel' = [cancel EXCEPT ![r] = Cancelled]
    /\ UNCHANGED <<runs, jobs, trips, queue, submit, work, thread, history>>

-----------------------------------------------------------------------------
(* run_async_job, in an RQ worker.  RQ delivers a message once: it is gone *)
(* from the queue when the job begins, and a dead job is not requeued.     *)

At(w, pc) == work[w].pc = pc
Goto(w, pc) == work' = [work EXCEPT ![w].pc = pc]
Carry(w, pc, run, job) ==      \* go on with these local copies
    work' = [work EXCEPT ![w] = [@ EXCEPT !.pc = pc, !.run = run, !.job = job]]
Retire(w) == work' = [work EXCEPT ![w] = IdleWorker]

Take(w) ==
    /\ At(w, "idle")
    /\ \E m \in queue :
          /\ queue' = queue \ {m}
          /\ work' = [work EXCEPT ![w] = [IdleWorker EXCEPT !.pc = "get_job", !.msg = m]]
    /\ UNCHANGED <<runs, jobs, trips, submit, cancel, thread, faults, history>>

GetJob(w) ==
    /\ At(w, "get_job")
    /\ Carry(w, "get_run", work[w].run, jobs[RunOf(w)])
    /\ UNCHANGED <<runs, jobs, trips, queue, submit, cancel, thread, faults, history>>

\* Mutant: only the flag of the run row is looked at.
GetRun_IgnoresJobFlag(w) ==
    LET run == runs[RunOf(w)]
        status == IF run.cancelled THEN "CANCELLED" ELSE "RUNNING"
    IN  /\ At(w, "get_run")
        /\ IF Absent \in {run.status, work[w].job.status} THEN Retire(w)
           ELSE Carry(w, IF run.cancelled THEN "cancel_run" ELSE "start_job",
                      [run EXCEPT !.status = status], [work[w].job EXCEPT !.status = status])
        /\ UNCHANGED <<runs, jobs, trips, queue, submit, cancel, thread, faults, history>>

\* A missing row raises; a flag on either row cancels; otherwise both copies
\* become RUNNING.
GetRun(w) ==
    LET run == runs[RunOf(w)]
        job == work[w].job
    IN  /\ At(w, "get_run")
        /\ \/ /\ Absent \in {run.status, job.status}
              /\ Retire(w)
           \/ /\ Absent \notin {run.status, job.status}
              /\ run.cancelled \/ job.cancelled
              /\ Carry(w, "cancel_run", [run EXCEPT !.status = "CANCELLED"],
                       [job EXCEPT !.status = "CANCELLED"])
           \/ /\ Absent \notin {run.status, job.status}
              /\ ~run.cancelled /\ ~job.cancelled
              /\ Carry(w, "start_job", [run EXCEPT !.status = "RUNNING"],
                       [job EXCEPT !.status = "RUNNING"])
        /\ UNCHANGED <<runs, jobs, trips, queue, submit, cancel, thread, faults, history>>

\* The saves of run_async_job, _handle_async_failure and _mark_cancelled, each
\* of which writes the worker's whole copy and goes on to the next statement.
SavesJob == [start_job |-> "start_run", done_job |-> "idle",
             retry_job |-> "retry_run", requeued_job |-> "requeued_run",
             dead_job |-> "dead_run", cancel_job |-> "idle"]
\* Mutants: _handle_async_failure goes on after a dead letter, as if its return
\* were missing; it saves the retry and does not enqueue it.
SavesRun_NoReturn == [retry_run |-> "enqueue", requeued_run |-> "idle",
                      dead_run |-> "enqueue", cancel_run |-> "cancel_job"]
SavesRun_NoEnqueue == [retry_run |-> "idle", requeued_run |-> "idle",
                       dead_run |-> "idle", cancel_run |-> "cancel_job"]
SavesRun == [retry_run |-> "enqueue", requeued_run |-> "idle",
             dead_run |-> "idle", cancel_run |-> "cancel_job"]

WorkerSavesJob(w) ==
    /\ work[w].pc \in DOMAIN SavesJob
    /\ jobs' = [jobs EXCEPT ![RunOf(w)] = work[w].job]
    /\ LET next == SavesJob[work[w].pc]
       IN  IF next = "idle" THEN Retire(w) ELSE Goto(w, next)
    /\ UNCHANGED <<runs, trips, queue, submit, cancel, thread, faults, history>>

WorkerSavesRun(w) ==
    /\ work[w].pc \in DOMAIN SavesRun
    /\ runs' = [runs EXCEPT ![RunOf(w)] = work[w].run]
    /\ LET next == SavesRun[work[w].pc]
       IN  IF next = "idle" THEN Retire(w) ELSE Goto(w, next)
    /\ UNCHANGED <<jobs, trips, queue, submit, cancel, thread, faults, history>>

\* Save the RUNNING run, then _execute_run_with_timeout starts the pool thread.
StartExecution(w) ==
    /\ At(w, "start_run")
    /\ runs' = [runs EXCEPT ![RunOf(w)] = work[w].run]
    /\ Goto(w, "wait")
    /\ thread' = [thread EXCEPT ![w] = Begun]
    /\ attempts' = [attempts EXCEPT ![RunOf(w)] = @ + 1]
    /\ UNCHANGED <<jobs, trips, queue, submit, cancel, faults, heeded>>

\* The deadline passes (RQ's alarm, or future.result): only the waiting side
\* learns of it.  The thread runs on and the executor's exit waits for it.
TimesOut(w) ==
    /\ At(w, "wait") /\ thread[w].pc \in Executing
    /\ ~work[w].timedOut
    /\ work' = [work EXCEPT ![w].timedOut = TRUE]
    /\ UNCHANGED <<runs, jobs, trips, queue, submit, cancel, thread, faults, history>>

JoinSucceeded(w) ==
    /\ At(w, "wait") /\ thread[w].pc = "ok"
    /\ ~work[w].timedOut
    /\ Goto(w, "get_done")
    /\ thread' = [thread EXCEPT ![w] = NoThread]
    /\ UNCHANGED <<runs, jobs, trips, queue, submit, cancel, faults, history>>

\* Success: the job row is read again (and the run, for its trip id only).
GetCompletedJob(w) ==
    /\ At(w, "get_done")
    /\ Carry(w, "done_job", work[w].run, [jobs[RunOf(w)] EXCEPT !.status = "SUCCEEDED"])
    /\ UNCHANGED <<runs, jobs, trips, queue, submit, cancel, thread, faults, history>>

\* Mutants: the failure handler with another test, another count or another
\* moment (joined(w)) than the code's.
FailsWith(w, joined, tried, again) ==
    LET status == IF again THEN "QUEUED" ELSE "DEAD_LETTERED"
    IN  /\ At(w, "wait") /\ joined
        /\ work[w].timedOut \/ thread[w].pc = "raised"
        /\ Carry(w, IF again THEN "retry_job" ELSE "dead_job",
                 [work[w].run EXCEPT !.status = status],
                 [work[w].job EXCEPT !.status = status, !.retries = tried])
        /\ UNCHANGED <<runs, jobs, trips, queue, submit, cancel, faults, history>>
JoinFailed_OneMore(w) ==
    /\ FailsWith(w, thread[w].pc \in Returned, work[w].job.retries + 1,
                 work[w].job.retries <= MaxRetries)
    /\ thread' = [thread EXCEPT ![w] = NoThread]
JoinFailed_OneLess(w) ==
    /\ FailsWith(w, thread[w].pc \in Returned, work[w].job.retries + 1,
                 work[w].job.retries + 1 < MaxRetries)
    /\ thread' = [thread EXCEPT ![w] = NoThread]
\* A thread that returned after the deadline is overlooked.
JoinFailed_OnlyRaised(w) ==
    /\ FailsWith(w, thread[w].pc = "raised", work[w].job.retries + 1,
                 work[w].job.retries < MaxRetries)
    /\ thread' = [thread EXCEPT ![w] = NoThread]
\* The thread is abandoned at the deadline instead of joined.
JoinFailed_NotJoined(w) ==
    /\ FailsWith(w, TRUE, work[w].job.retries + 1, work[w].job.retries < MaxRetries)
    /\ UNCHANGED thread

\* _handle_async_failure, up to its first save, on the copies read at the start.
JoinFailed(w) ==
    LET tried == work[w].job.retries + 1
        again == tried <= MaxRetries /\ ~work[w].run.cancelled
        status == IF again THEN "QUEUED" ELSE "DEAD_LETTERED"
    IN  /\ At(w, "wait") /\ thread[w].pc \in Returned
        /\ work[w].timedOut \/ thread[w].pc = "raised"
        /\ Carry(w, IF again THEN "retry_job" ELSE "dead_job",
                 [work[w].run EXCEPT !.status = status],
                 [work[w].job EXCEPT !.status = status, !.retries = tried])
        /\ thread' = [thread EXCEPT ![w] = NoThread]
        /\ UNCHANGED <<runs, jobs, trips, queue, submit, cancel, faults, history>>

\* The retry is enqueued before its queue_job_id is saved.
RetryEnqueue(w) ==
    LET attempt == work[w].job.retries
    IN  /\ At(w, "enqueue")
        /\ queue' = queue \cup {[run |-> RunOf(w), attempt |-> attempt]}
        /\ Carry(w, "requeued_job", [work[w].run EXCEPT !.qid = attempt],
                 [work[w].job EXCEPT !.qid = attempt])
        /\ UNCHANGED <<runs, jobs, trips, submit, cancel, thread, faults, history>>

\* The work horse dies, or a repository or queue call outside the pool thread
\* raises: RQ files the job as failed and the rows stay as they are.
WorkerDies(w) ==
    /\ ~At(w, "idle")
    /\ faults < MaxFaults
    /\ faults' = faults + 1
    /\ Retire(w)
    /\ thread' = [thread EXCEPT ![w] = NoThread]
    /\ UNCHANGED <<runs, jobs, trips, queue, submit, cancel, history>>

-----------------------------------------------------------------------------
(* _execute_run and _execute_run_with_coordinator. *)

ThreadAt(p, pc) == thread[p].pc = pc
ThreadGoto(p, pc) == thread' = [thread EXCEPT ![p].pc = pc]

\* Mutant: a terminal run is answered without looking for its trip.
ExecuteRun_NoTripCheck(p) ==
    /\ ThreadAt(p, "get_run")
    /\ thread' = [thread EXCEPT ![p] =
                    IF runs[RunOf(p)].status \in Terminal THEN [@ EXCEPT !.pc = "ok"]
                    ELSE [@ EXCEPT !.pc = "progress", !.run = runs[RunOf(p)]]]
    /\ UNCHANGED <<runs, jobs, trips, queue, submit, cancel, work, faults, history>>

\* A terminal run is answered from its trip, which raises if there is none;
\* otherwise this copy of the row is the one saved as SUCCEEDED in the end.
ExecuteRun(p) ==
    /\ ThreadAt(p, "get_run")
    /\ thread' = [thread EXCEPT ![p] =
                    IF runs[RunOf(p)].status \in Terminal
                    THEN [@ EXCEPT !.pc = IF RunOf(p) \in trips THEN "ok" ELSE "raised"]
                    ELSE [@ EXCEPT !.pc = "progress", !.run = runs[RunOf(p)]]]
    /\ UNCHANGED <<runs, jobs, trips, queue, submit, cancel, work, faults, history>>

\* _persist_progress reads the latest row and saves it with its progress columns
\* changed: of the columns kept here it writes back what it read.
ProgressReads(p) ==
    /\ ThreadAt(p, "progress") /\ thread[p].events < MaxEvents
    /\ thread' = [thread EXCEPT ![p] = [@ EXCEPT !.pc = "save_progress", !.latest = runs[RunOf(p)],
                                                    !.events = thread[p].events + 1]]
    /\ UNCHANGED <<runs, jobs, trips, queue, submit, cancel, work, faults, history>>

ProgressSaves(p) ==
    /\ ThreadAt(p, "save_progress")
    /\ runs' = [runs EXCEPT ![RunOf(p)] = thread[p].latest]
    /\ thread' = [thread EXCEPT ![p] = [@ EXCEPT !.pc = "progress", !.latest = NoRun]]
    /\ UNCHANGED <<jobs, trips, queue, submit, cancel, work, faults, history>>

\* The coordinator reaches a terminal decision.
BootstrapReturns(p) ==
    /\ ThreadAt(p, "progress")
    /\ ThreadGoto(p, "save_trip")
    /\ UNCHANGED <<runs, jobs, trips, queue, submit, cancel, work, faults, history>>

SaveTrip(p) ==
    /\ ThreadAt(p, "save_trip")
    /\ trips' = trips \cup {RunOf(p)}
    /\ ThreadGoto(p, "save_success")
    /\ UNCHANGED <<runs, jobs, queue, submit, cancel, work, faults, history>>

\* The last save writes the copy ExecuteRun read, flags of that time included.
SaveSuccess(p) ==
    /\ ThreadAt(p, "save_success")
    /\ runs' = [runs EXCEPT ![RunOf(p)] = [thread[p].run EXCEPT !.status = "SUCCEEDED"]]
    /\ ThreadGoto(p, "ok")
    /\ UNCHANGED <<jobs, trips, queue, submit, cancel, work, faults, history>>

\* An agent, a provider, a repository or the trip mapper raises in the attempt.
Raises(p) ==
    /\ thread[p].pc \in Executing
    /\ ThreadGoto(p, "raised")
    /\ UNCHANGED <<runs, jobs, trips, queue, submit, cancel, work, faults, history>>

-----------------------------------------------------------------------------
SubmitSteps(r) == SubmitEnqueue(r) \/ SubmitSaveJob(r) \/ SubmitSaveRun(r) \/ SyncReturns(r)

CancelSteps(r) == \/ CancelSaveRun(r) \/ CancelGetJob(r) \/ CancelSaveJob(r)
                  \/ CancelGetRun(r) \/ CancelStop(r)

WorkerSteps(w) == \/ Take(w) \/ GetJob(w) \/ GetRun(w) \/ StartExecution(w)
                  \/ JoinSucceeded(w) \/ JoinFailed(w) \/ GetCompletedJob(w)
                  \/ RetryEnqueue(w) \/ WorkerSavesJob(w) \/ WorkerSavesRun(w)

ThreadSteps(p) == \/ ExecuteRun(p) \/ ProgressReads(p) \/ ProgressSaves(p)
                  \/ BootstrapReturns(p) \/ SaveTrip(p) \/ SaveSuccess(p)

Next ==
    \/ \E r \in Runs : \/ SubmitAsync(r) \/ SubmitSync(r)
                       \/ \E original \in Runs : RerunRun(r, original)
                       \/ SubmitSteps(r) \/ SubmitAborts(r)
                       \/ CancelRun(r) \/ CancelJob(r) \/ CancelSteps(r) \/ CancelAborts(r)
    \/ \E w \in Workers : WorkerSteps(w) \/ TimesOut(w) \/ WorkerDies(w)
    \/ \E p \in Procs : ThreadSteps(p) \/ Raises(p)

Spec == Init /\ [][Next]_vars

\* A request that began, a live worker and the code it runs go on: RQ workers
\* poll for ever and every call an agent makes has its own timeout.  Nobody has
\* to submit, cancel or die, and no attempt has to fail.
Fairness ==
    /\ \A r \in Runs : WF_vars(SubmitSteps(r)) /\ WF_vars(CancelSteps(r))
    /\ \A w \in Workers : WF_vars(WorkerSteps(w))
    /\ \A p \in Procs : WF_vars(ThreadSteps(p))

FairSpec == Spec /\ Fairness
-----------------------------------------------------------------------------
(* Properties. *)

\* Every row, copy and message stays within its type.
TypeOK ==
    /\ runs \in [Runs -> RunRow]
    /\ jobs \in [Runs -> JobRow]
    /\ trips \subseteq Runs
    /\ queue \subseteq Message
    /\ submit \in [Runs -> [pc: {"new", "enqueue", "save_job", "save_run", "executing", "done"},
                            run: RunRow]]
    /\ cancel \in [Runs -> [pc: {"idle", "save_run", "get_job", "save_job", "get_run",
                                 "stop", "done"},
                            by: {"run", "job"}, run: RunRow, job: JobRow]]
    /\ work \in [Workers -> [pc: {"idle", "get_job", "get_run", "start_run", "wait",
                                  "get_done", "enqueue"}
                                 \cup DOMAIN SavesJob \cup DOMAIN SavesRun,
                             msg: Message, run: RunRow, job: JobRow, timedOut: BOOLEAN]]
    /\ thread \in [Procs -> [pc: {"none"} \cup Executing \cup Returned,
                             run: RunRow, latest: RunRow, events: 0 .. MaxEvents]]
    /\ faults \in 0 .. MaxFaults
    /\ attempts \in [Runs -> Nat]
    /\ heeded \subseteq Runs

\* One run is never executed twice at the same time, whatever times out, dies
\* or is retried: two executions would interleave their saves of the trip and
\* of the run.  _execute_run_with_timeout must join its thread for this.
SingleExecution ==
    \A p, q \in Procs :
        (thread[p].pc \in Executing /\ thread[q].pc \in Executing /\ RunOf(p) = RunOf(q))
        => p = q

\* Whoever sees SUCCEEDED on a run or on a job finds the trip record: the GET
\* that follows the last poll never answers 404.
TripBeforeSuccess ==
    \A r \in Runs : "SUCCEEDED" \in {runs[r].status, jobs[r].status} => r \in trips

\* A worker may still execute r: a message waits, or its delivery is in hand.
InHand == {"get_job", "get_run", "start_job", "start_run", "wait"}
MayStillExecute(r) ==
    \/ \E m \in queue : m.run = r
    \/ \E w \in Workers : work[w].pc \in InHand /\ work[w].msg.run = r

\* A job that succeeded or was dead-lettered is not executed again (a job that
\* was cancelled may still have its message, which the worker then drops).
SettledJobsAreOver ==
    \A r \in Runs : jobs[r].status \in {"SUCCEEDED", "DEAD_LETTERED"} => ~MayStillExecute(r)

\* A cancellation saved on the job row while the first message waits is final:
\* no worker ever executes the run, even if enqueue_async, whose last save may
\* come after it, wipes the flag off the run row.
EarlyCancelIsHonoured == \A r \in heeded : attempts[r] = 0

\* Dead letter means that the retry budget is spent: the run was executed
\* 1 + MaxRetries times and no stale row or cancellation got it there earlier.
DeadLetterAfterRetries ==
    \A r \in Runs : jobs[r].status = "DEAD_LETTERED" =>
        jobs[r].retries = MaxRetries + 1 /\ attempts[r] >= MaxRetries + 1

\* No run is executed more often than once and MaxRetries times again.  With
\* one worker, whose saves after a requeue precede the next attempt; with two
\* workers those saves may undo the count (see the README).
RetryBudget == \A r \in Runs : attempts[r] <= MaxRetries + 1

\* A job row that is settled stays settled and its retry count never falls: no
\* late save of the request that enqueued it or of an earlier attempt undoes it.
SettledJobsStaySettled ==
    [][\A r \in Runs : /\ jobs[r].status \in Terminal => jobs'[r].status = jobs[r].status
                       /\ jobs[r].retries <= jobs'[r].retries]_jobs

\* A run that a worker began to execute ends with its job settled for good.
ExecutedJobsFinish ==
    [](\A r \in Runs : attempts[r] > 0 => <>[](jobs[r].status \in Terminal))

\* However retries, timeouts and cancellations fall, execution ends: no stale
\* retry count keeps a run going for ever.
RetriesStop == <>[](queue = {} /\ \A w \in Workers : work[w].pc = "idle")

\* A job cancelled before its first message was taken stays CANCELLED in the
\* end: the worker that drops the message does not leave it RUNNING.
EarlyCancelSettles == \A r \in Runs : r \in heeded ~> [](jobs[r].status = "CANCELLED")

-----------------------------------------------------------------------------
(* What a document says and the code does not keep (see README). *)

\* docs/layered-architecture.md:225-226: FastAPI enqueues a workflow job, the
\* worker starts the coordinator runtime.
EnqueuedRunStarts ==
    \A r \in Runs : (\E m \in queue : m.run = r) ~> (attempts[r] > 0)
=============================================================================
