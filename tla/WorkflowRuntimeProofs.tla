----------------------- MODULE WorkflowRuntimeProofs -----------------------
(***************************************************************************)
(* Proofs about WorkflowRuntime for any runs, workers and bounds.  The     *)
(* argument rests on a token: a run that may still be executed is held by  *)
(* exactly one of its unanswered submit request, one message, and one      *)
(* worker that has not yet requeued it.  From it follow the exclusion of   *)
(* executions, that no settled job is executed again, and that an early    *)
(* cancellation is final.  Of one worker it follows further that retries   *)
(* are counted, and that a settled job row stays.  Each invariant has a    *)
(* lemma that a step keeps it, and a theorem that ends in the property     *)
(* the runs check.                                                         *)
(***************************************************************************)
EXTENDS WorkflowRuntime, FiniteSetTheorems, TLAPS

-----------------------------------------------------------------------------
(* The types, without the bound on the retry count. *)

AnyId == Nat \cup {NoQueueId}
AnyRun == [status: WorkflowRunStatus \cup {Absent}, cancelled: BOOLEAN, qid: AnyId]
AnyJob == [status: WorkflowRunStatus \cup {Absent}, cancelled: BOOLEAN, qid: AnyId,
           retries: Nat]
AnyMessage == [run: Runs, attempt: Nat]
SubmitPc == {"new", "enqueue", "save_job", "save_run", "executing", "done"}
CancelPc == {"idle", "save_run", "get_job", "save_job", "get_run", "stop", "done"}
WorkPc == {"idle", "get_job", "get_run", "start_job", "start_run", "wait", "get_done",
           "done_job", "retry_job", "retry_run", "enqueue", "requeued_job",
           "requeued_run", "dead_job", "dead_run", "cancel_run", "cancel_job"}

SubmitRec == [pc: SubmitPc, run: AnyRun]
CancelRec == [pc: CancelPc, by: {"run", "job"}, run: AnyRun, job: AnyJob]
WorkRec == [pc: WorkPc, msg: AnyMessage, run: AnyRun, job: AnyJob, timedOut: BOOLEAN]
ThreadRec == [pc: {"none"} \cup Executing \cup Returned, run: AnyRun, latest: AnyRun,
              events: 0 .. MaxEvents]

Types ==
    /\ runs \in [Runs -> AnyRun]
    /\ jobs \in [Runs -> AnyJob]
    /\ trips \subseteq Runs
    /\ queue \subseteq AnyMessage
    /\ submit \in [Runs -> SubmitRec]
    /\ cancel \in [Runs -> CancelRec]
    /\ work \in [Workers -> WorkRec]
    /\ thread \in [Procs -> ThreadRec]
    /\ faults \in 0 .. MaxFaults
    /\ attempts \in [Runs -> Nat]
    /\ heeded \subseteq Runs

-----------------------------------------------------------------------------
(* The token. *)

\* A worker that requeued its run has passed the token on.
Holds(w) == work[w].pc \notin {"idle", "requeued_job", "requeued_run"}

OneToken ==
    /\ \A m, n \in queue : m.run = n.run => m = n
    /\ \A v, w \in Workers : Holds(v) /\ Holds(w) /\ RunOf(v) = RunOf(w) => v = w
    /\ \A m \in queue, w \in Workers : Holds(w) => m.run # RunOf(w)
    /\ \A r \in Runs : submit[r].pc \in {"new", "enqueue", "executing"} =>
          /\ \A m \in queue : m.run # r
          /\ \A w \in Workers : work[w].pc # "idle" => RunOf(w) # r

\* A thread belongs to a worker that waits for it or to a sync request.
Owned ==
    /\ \A w \in Workers : thread[w].pc # "none" => work[w].pc = "wait"
    /\ \A r \in Runs : thread[r].pc # "none" => submit[r].pc = "executing"

-----------------------------------------------------------------------------
(* Settled jobs and the retry count. *)

Settled(job) == job.status \in {"SUCCEEDED", "DEAD_LETTERED"}

\* Where a worker may still execute its run or hand it to the next attempt.
LiveAt == {"get_job", "get_run", "start_job", "start_run", "wait", "get_done",
           "retry_job", "retry_run", "enqueue"}
Alive(r) ==
    \/ submit[r].pc \in {"new", "enqueue"}
    \/ \E m \in queue : m.run = r
    \/ \E w \in Workers : work[w].pc \in LiveAt /\ RunOf(w) = r

\* What a job row or a copy of one may say of a run executed n times: the count
\* is spent exactly in a dead letter, and never exceeds the executions.
Sound(job, n) ==
    /\ job.retries <= n
    /\ job.retries <= MaxRetries + 1
    /\ job.retries = MaxRetries + 1 <=> job.status = "DEAD_LETTERED"
    /\ job.qid <= MaxRetries

\* While a run may be executed neither its job row nor the copy a cancellation
\* is about to save is settled.
JobsOpen == \A r \in Runs : Alive(r) => ~Settled(jobs[r]) /\ ~Settled(cancel[r].job)

JobsSound ==
    \A r \in Runs : Sound(jobs[r], attempts[r]) /\ Sound(cancel[r].job, attempts[r])

RunsSound ==
    \A r \in Runs : /\ runs[r].qid <= MaxRetries /\ submit[r].run.qid <= MaxRetries
                    /\ cancel[r].run.qid <= MaxRetries

MessagesSound == \A m \in queue : m.attempt <= MaxRetries

ThreadsSound ==
    \A p \in Procs : thread[p].run.qid <= MaxRetries /\ thread[p].latest.qid <= MaxRetries

\* A worker that waits has counted an execution its copy has not.
WorkerSound(w) ==
    /\ Sound(work[w].job, attempts[RunOf(w)])
    /\ work[w].run.qid <= MaxRetries
    /\ work[w].msg.attempt <= MaxRetries
    /\ work[w].pc \in (LiveAt \ {"get_job"}) \cup {"requeued_job"} => ~Settled(work[w].job)
    /\ work[w].pc \in {"start_job", "start_run", "wait"} => ~work[w].run.cancelled
    /\ work[w].pc = "wait" => work[w].job.retries < attempts[RunOf(w)]

WorkersSound == \A w \in Workers : WorkerSound(w)

SettledInv ==
    /\ JobsOpen
    /\ JobsSound
    /\ RunsSound
    /\ MessagesSound
    /\ ThreadsSound
    /\ WorkersSound

-----------------------------------------------------------------------------
(* Success and the trip record. *)

\* Whoever says that a run succeeded: a row, a copy that may become a row, or an
\* execution that is about to report it.
RowReports(r) ==
    "SUCCEEDED" \in {runs[r].status, jobs[r].status, submit[r].run.status,
                     cancel[r].run.status, cancel[r].job.status}
WorkerReports(w) ==
    "SUCCEEDED" \in {work[w].run.status, work[w].job.status} \/ work[w].pc = "get_done"
ThreadReports(p) ==
    /\ thread[p].pc # "none"
    /\ \/ "SUCCEEDED" \in {thread[p].run.status, thread[p].latest.status}
       \/ thread[p].pc \in {"save_success", "ok"}

TripInv ==
    /\ \A r \in Runs : RowReports(r) => r \in trips
    /\ \A w \in Workers : WorkerReports(w) => RunOf(w) \in trips
    /\ \A p \in Procs : ThreadReports(p) => RunOf(p) \in trips

-----------------------------------------------------------------------------
(* Early cancellation. *)

\* The stages after an execution has begun.
Started == {"wait", "get_done", "done_job", "retry_job", "retry_run", "enqueue",
            "requeued_job", "requeued_run", "dead_job", "dead_run"}

FirstMessage(r) == [run |-> r, attempt |-> 0]
Unsaved(r) == submit[r].pc \in {"new", "enqueue", "save_job"}

\* Until the request saves the job row nobody executes the run.
UnsavedInv ==
    \A r \in Runs : Unsaved(r) =>
        jobs[r].status = Absent /\ attempts[r] = 0 /\ cancel[r].pc # "save_job"

\* While the first message waits nobody has executed the run.
WaitingInv == \A r \in Runs : FirstMessage(r) \in queue => attempts[r] = 0

\* A run whose early cancellation is recorded stays flagged and unexecuted.
HeededInv ==
    /\ \A r \in Runs : cancel[r].pc = "save_job" => cancel[r].job.cancelled
    /\ \A r \in heeded : attempts[r] = 0 /\ jobs[r].cancelled /\ ~Unsaved(r)

\* A worker drops a run without a job row, and one whose cancellation is recorded.
WorkerEarly(w) ==
    /\ work[w].pc \in Started => attempts[RunOf(w)] > 0
    /\ work[w].pc \in {"retry_job", "retry_run", "enqueue"} => work[w].job.retries > 0
    /\ Unsaved(RunOf(w)) => \/ work[w].pc \in {"idle", "get_job"}
                            \/ work[w].pc = "get_run" /\ work[w].job.status = Absent
    /\ RunOf(w) \in heeded /\ work[w].pc \notin {"idle", "get_job"} =>
          work[w].pc \in {"get_run", "cancel_run", "cancel_job"} /\ work[w].job.cancelled

WorkersEarly == \A w \in Workers : WorkerEarly(w)

EarlyInv == UnsavedInv /\ WaitingInv /\ HeededInv /\ WorkersEarly

-----------------------------------------------------------------------------
(* What the tables of saves mean, and the types. *)

\* Which saves of the job row there are and what follows each (WorkerSavesJob).
LEMMA SavesJobTable ==
    /\ DOMAIN SavesJob = {"start_job", "done_job", "retry_job", "requeued_job",
                          "dead_job", "cancel_job"}
    /\ SavesJob["start_job"] = "start_run" /\ SavesJob["done_job"] = "idle"
    /\ SavesJob["retry_job"] = "retry_run" /\ SavesJob["requeued_job"] = "requeued_run"
    /\ SavesJob["dead_job"] = "dead_run" /\ SavesJob["cancel_job"] = "idle"
BY DEF SavesJob

\* The same for the saves of the run row (WorkerSavesRun).
LEMMA SavesRunTable ==
    /\ DOMAIN SavesRun = {"retry_run", "requeued_run", "dead_run", "cancel_run"}
    /\ SavesRun["retry_run"] = "enqueue" /\ SavesRun["requeued_run"] = "idle"
    /\ SavesRun["dead_run"] = "idle" /\ SavesRun["cancel_run"] = "cancel_job"
BY DEF SavesRun

\* The literal rows and records.
LEMMA LiteralTypes ==
    /\ NoRun \in AnyRun /\ NoJob \in AnyJob
    /\ BuildRun("QUEUED") \in AnyRun /\ BuildRun("PENDING") \in AnyRun
    /\ BuildJob \in AnyJob /\ BuildJob.retries = 0
    /\ Answered \in SubmitRec
    /\ NoCancel \in CancelRec /\ Cancelled \in CancelRec
    /\ IdleWorker \in WorkRec
    /\ NoThread \in ThreadRec /\ Begun \in ThreadRec
<1>1. NoRun \in AnyRun /\ NoJob \in AnyJob
    BY DEF AnyRun, AnyJob, AnyId, NoRun, NoJob, Absent, NoQueueId
<1>2. BuildRun("QUEUED") \in AnyRun /\ BuildRun("PENDING") \in AnyRun
    BY DEF BuildRun, NoRun, AnyRun, AnyId, NoQueueId, WorkflowRunStatus
<1>3. BuildJob \in AnyJob /\ BuildJob.retries = 0
    BY DEF BuildJob, NoJob, AnyJob, AnyId, NoQueueId, WorkflowRunStatus
<1>4. Answered \in SubmitRec
    BY <1>1 DEF Answered, SubmitRec, SubmitPc
<1>5. NoCancel \in CancelRec /\ Cancelled \in CancelRec
    BY <1>1 DEF NoCancel, Cancelled, CancelRec, CancelPc
<1>6. IdleWorker \in WorkRec
    BY <1>1, RunsAndWorkers DEF IdleWorker, WorkRec, WorkPc, AnyMessage
<1>7. NoThread \in ThreadRec /\ Begun \in ThreadRec
    BY <1>1, Bounds DEF NoThread, Begun, ThreadRec, Executing
<1> QED
    BY <1>1, <1>2, <1>3, <1>4, <1>5, <1>6, <1>7

\* Changing a column keeps a row a row.
LEMMA RowTypes ==
    /\ \A row \in AnyRun : /\ row.status \in WorkflowRunStatus \cup {Absent}
                           /\ row.cancelled \in BOOLEAN /\ row.qid \in AnyId
                           /\ Flagged(row) \in AnyRun
    /\ \A row \in AnyJob : /\ row.status \in WorkflowRunStatus \cup {Absent}
                           /\ row.cancelled \in BOOLEAN /\ row.qid \in AnyId
                           /\ row.retries \in Nat /\ Flagged(row) \in AnyJob
    /\ \A row \in AnyRun, st \in WorkflowRunStatus : [row EXCEPT !.status = st] \in AnyRun
    /\ \A row \in AnyJob, st \in WorkflowRunStatus : [row EXCEPT !.status = st] \in AnyJob
    /\ \A row \in AnyJob, st \in WorkflowRunStatus, n \in Nat :
          [row EXCEPT !.status = st, !.retries = n] \in AnyJob
    /\ \A row \in AnyRun, n \in AnyId : [row EXCEPT !.qid = n] \in AnyRun
    /\ \A row \in AnyJob, n \in AnyId : [row EXCEPT !.qid = n] \in AnyJob
BY DEF Flagged, AnyRun, AnyJob, WorkflowRunStatus

\* The run an execution or a worker is about is a run.
LEMMA RunOfTypes ==
    ASSUME Types
    PROVE  /\ \A p \in Procs : RunOf(p) \in Runs
           /\ \A w \in Workers : RunOf(w) = work[w].msg.run
           /\ \A r \in Runs : RunOf(r) = r
           /\ Runs \subseteq Procs /\ Workers \subseteq Procs
BY RunsAndWorkers DEF Types, Procs, RunOf, AnyMessage, WorkRec

\* A worker that moves on with other copies keeps its type.
LEMMA CarryTypes ==
    ASSUME Types, NEW w \in Workers, NEW pc \in WorkPc, NEW run \in AnyRun,
           NEW job \in AnyJob, Carry(w, pc, run, job)
    PROVE  work' \in [Workers -> WorkRec]
BY DEF Types, Carry, WorkRec

\* So does one that moves on with the copies it has,
LEMMA GotoTypes ==
    ASSUME Types, NEW w \in Workers, NEW pc \in WorkPc, Goto(w, pc)
    PROVE  work' \in [Workers -> WorkRec]
BY DEF Types, Goto, WorkRec

\* and one that goes idle.
LEMMA RetireTypes ==
    ASSUME Types, NEW w \in Workers, Retire(w)
    PROVE  work' \in [Workers -> WorkRec]
BY LiteralTypes DEF Types, Retire

\* Every step keeps every row, copy and message within the types above.
LEMMA TypesStep == Types /\ [Next]_vars => Types'
<1> SUFFICES ASSUME Types, [Next]_vars PROVE Types'
    OBVIOUS
<1> USE Bounds, RunsAndWorkers, LiteralTypes, RunOfTypes DEF Types
<1>1. ASSUME NEW r \in Runs, SubmitAsync(r) PROVE Types'
  <2>1. runs' \in [Runs -> AnyRun]
      BY <1>1 DEF SubmitAsync
  <2>2. submit' \in [Runs -> SubmitRec]
      BY <1>1 DEF SubmitAsync, SubmitRec, SubmitPc
  <2> QED
      BY <1>1, <2>1, <2>2 DEF SubmitAsync, history
<1>2. ASSUME NEW r \in Runs, SubmitEnqueue(r) PROVE Types'
  <2>1. queue' \subseteq AnyMessage
      BY <1>2 DEF SubmitEnqueue, AnyMessage
  <2>2. submit' \in [Runs -> SubmitRec]
      BY <1>2, RowTypes DEF SubmitEnqueue, SubmitRec, SubmitPc, AnyId
  <2> QED
      BY <1>2, <2>1, <2>2 DEF SubmitEnqueue, history
<1>3. ASSUME NEW r \in Runs, SubmitSaveJob(r) PROVE Types'
  <2>1. jobs' \in [Runs -> AnyJob]
      BY <1>3, RowTypes DEF SubmitSaveJob, SubmitRec
  <2>2. submit' \in [Runs -> SubmitRec]
      BY <1>3 DEF SubmitSaveJob, SubmitRec, SubmitPc
  <2> QED
      BY <1>3, <2>1, <2>2 DEF SubmitSaveJob, history
<1>4. ASSUME NEW r \in Runs, SubmitSaveRun(r) PROVE Types'
  <2>1. runs' \in [Runs -> AnyRun]
      BY <1>4 DEF SubmitSaveRun, SubmitRec
  <2>2. submit' \in [Runs -> SubmitRec]
      BY <1>4 DEF SubmitSaveRun
  <2> QED
      BY <1>4, <2>1, <2>2 DEF SubmitSaveRun, history
<1>5. ASSUME NEW r \in Runs, SubmitSync(r) PROVE Types'
  <2>1. runs' \in [Runs -> AnyRun]
      BY <1>5 DEF SubmitSync
  <2>2. submit' \in [Runs -> SubmitRec]
      BY <1>5 DEF SubmitSync, SubmitRec, SubmitPc
  <2>3. thread' \in [Procs -> ThreadRec]
      BY <1>5 DEF SubmitSync
  <2> QED
      BY <1>5, <2>1, <2>2, <2>3 DEF SubmitSync, history
<1>6. ASSUME NEW r \in Runs, SyncReturns(r) PROVE Types'
  <2>1. submit' \in [Runs -> SubmitRec]
      BY <1>6 DEF SyncReturns
  <2>2. thread' \in [Procs -> ThreadRec]
      BY <1>6 DEF SyncReturns
  <2> QED
      BY <1>6, <2>1, <2>2 DEF SyncReturns, history
<1>7. ASSUME NEW r \in Runs, SubmitAborts(r) PROVE Types'
  <2>1. submit' \in [Runs -> SubmitRec]
      BY <1>7 DEF SubmitAborts
  <2>2. faults' \in 0 .. MaxFaults
      BY <1>7 DEF SubmitAborts
  <2> QED
      BY <1>7, <2>1, <2>2 DEF SubmitAborts, history
<1>8. ASSUME NEW r \in Runs, CancelRun(r) PROVE Types'
  <2>1. cancel' \in [Runs -> CancelRec]
      BY <1>8, RowTypes DEF CancelRun, CancelRec, CancelPc, NoCancel
  <2> QED
      BY <1>8, <2>1 DEF CancelRun, history
<1>9. ASSUME NEW r \in Runs, CancelJob(r) PROVE Types'
  <2>1. cancel' \in [Runs -> CancelRec]
      BY <1>9, RowTypes DEF CancelJob, CancelRec, CancelPc, NoCancel
  <2> QED
      BY <1>9, <2>1 DEF CancelJob, history
<1>10. ASSUME NEW r \in Runs, CancelSaveRun(r) PROVE Types'
  <2>1. runs' \in [Runs -> AnyRun]
      BY <1>10 DEF CancelSaveRun, CancelRec
  <2>2. cancel' \in [Runs -> CancelRec]
      BY <1>10 DEF CancelSaveRun, CancelRec, CancelPc
  <2> QED
      BY <1>10, <2>1, <2>2 DEF CancelSaveRun, history
<1>11. ASSUME NEW r \in Runs, CancelGetJob(r) PROVE Types'
  <2>1. cancel' \in [Runs -> CancelRec]
      BY <1>11, RowTypes DEF CancelGetJob, CancelRec, CancelPc
  <2> QED
      BY <1>11, <2>1 DEF CancelGetJob, history
<1>12. ASSUME NEW r \in Runs, CancelSaveJob(r) PROVE Types'
  <2>1. jobs' \in [Runs -> AnyJob]
      BY <1>12 DEF CancelSaveJob, CancelRec
  <2>2. cancel' \in [Runs -> CancelRec]
      BY <1>12 DEF CancelSaveJob, CancelRec, CancelPc
  <2>3. heeded' \subseteq Runs
      BY <1>12 DEF CancelSaveJob
  <2> QED
      BY <1>12, <2>1, <2>2, <2>3 DEF CancelSaveJob, history
<1>13. ASSUME NEW r \in Runs, CancelGetRun(r) PROVE Types'
  <2>1. cancel' \in [Runs -> CancelRec]
      BY <1>13, RowTypes DEF CancelGetRun, CancelRec, CancelPc
  <2> QED
      BY <1>13, <2>1 DEF CancelGetRun, history
<1>14. ASSUME NEW r \in Runs, CancelStop(r) PROVE Types'
  <2>1. cancel' \in [Runs -> CancelRec]
      BY <1>14 DEF CancelStop
  <2>2. work' \in [Workers -> WorkRec]
      BY <1>14 DEF CancelStop
  <2>3. thread' \in [Procs -> ThreadRec]
      BY <1>14 DEF CancelStop
  <2> QED
      BY <1>14, <2>1, <2>2, <2>3 DEF CancelStop, history
<1>15. ASSUME NEW r \in Runs, CancelAborts(r) PROVE Types'
  <2>1. cancel' \in [Runs -> CancelRec]
      BY <1>15 DEF CancelAborts
  <2>2. faults' \in 0 .. MaxFaults
      BY <1>15 DEF CancelAborts
  <2> QED
      BY <1>15, <2>1, <2>2 DEF CancelAborts, history
<1>16. ASSUME NEW w \in Workers, Take(w) PROVE Types'
  <2>1. PICK m \in queue : /\ queue' = queue \ {m}
                            /\ work' = [work EXCEPT ![w] = [IdleWorker EXCEPT !.pc = "get_job", !.msg = m]]
      BY <1>16 DEF Take
  <2>2. [IdleWorker EXCEPT !.pc = "get_job", !.msg = m] \in WorkRec
      BY DEF WorkRec, WorkPc
  <2> QED
      BY <2>1, <2>2, <1>16 DEF Take, history
<1>17. ASSUME NEW w \in Workers, GetJob(w) PROVE Types'
  <2>1. work' \in [Workers -> WorkRec]
      BY <1>17, CarryTypes DEF GetJob, WorkRec, WorkPc
  <2> QED
      BY <1>17, <2>1 DEF GetJob, history
<1>18. ASSUME NEW w \in Workers, GetRun(w) PROVE Types'
  <2> DEFINE run == runs[RunOf(w)]
             job == work[w].job
  <2>1. /\ run \in AnyRun /\ job \in AnyJob
        /\ \A st \in WorkflowRunStatus : /\ [run EXCEPT !.status = st] \in AnyRun
                                         /\ [job EXCEPT !.status = st] \in AnyJob
      BY RowTypes DEF WorkRec
  <2>2. {"CANCELLED", "RUNNING"} \subseteq WorkflowRunStatus /\ {"cancel_run", "start_job"} \subseteq WorkPc
      BY DEF WorkflowRunStatus, WorkPc
  <2>3. work' \in [Workers -> WorkRec]
      BY <2>1, <2>2, <1>18, CarryTypes, RetireTypes DEF GetRun
  <2> QED
      BY <2>3, <1>18 DEF GetRun, history
<1>19. ASSUME NEW w \in Workers, WorkerSavesJob(w) PROVE Types'
  <2>1. jobs' \in [Runs -> AnyJob]
      BY <1>19 DEF WorkerSavesJob, WorkRec
  <2>2. work' \in [Workers -> WorkRec]
      BY <1>19, SavesJobTable, GotoTypes, RetireTypes DEF WorkerSavesJob, WorkPc
  <2> QED
      BY <1>19, <2>1, <2>2 DEF WorkerSavesJob, history
<1>20. ASSUME NEW w \in Workers, WorkerSavesRun(w) PROVE Types'
  <2>1. runs' \in [Runs -> AnyRun]
      BY <1>20 DEF WorkerSavesRun, WorkRec
  <2>2. work' \in [Workers -> WorkRec]
      BY <1>20, SavesRunTable, GotoTypes, RetireTypes DEF WorkerSavesRun, WorkPc
  <2> QED
      BY <1>20, <2>1, <2>2 DEF WorkerSavesRun, history
<1>21. ASSUME NEW w \in Workers, StartExecution(w) PROVE Types'
  <2>1. runs' \in [Runs -> AnyRun]
      BY <1>21 DEF StartExecution, WorkRec
  <2>2. work' \in [Workers -> WorkRec]
      BY <1>21, GotoTypes DEF StartExecution, WorkPc
  <2>3. thread' \in [Procs -> ThreadRec]
      BY <1>21 DEF StartExecution
  <2>4. attempts' \in [Runs -> Nat]
      BY <1>21 DEF StartExecution
  <2> QED
      BY <1>21, <2>1, <2>2, <2>3, <2>4 DEF StartExecution, history
<1>22. ASSUME NEW w \in Workers, TimesOut(w) PROVE Types'
  <2>1. work' \in [Workers -> WorkRec]
      BY <1>22 DEF TimesOut, WorkRec
  <2> QED
      BY <1>22, <2>1 DEF TimesOut, history
<1>23. ASSUME NEW w \in Workers, JoinSucceeded(w) PROVE Types'
  <2>1. work' \in [Workers -> WorkRec]
      BY <1>23, GotoTypes DEF JoinSucceeded, WorkPc
  <2>2. thread' \in [Procs -> ThreadRec]
      BY <1>23 DEF JoinSucceeded
  <2> QED
      BY <1>23, <2>1, <2>2 DEF JoinSucceeded, history
<1>24. ASSUME NEW w \in Workers, GetCompletedJob(w) PROVE Types'
  <2>1. work[w].run \in AnyRun /\ [jobs[RunOf(w)] EXCEPT !.status = "SUCCEEDED"] \in AnyJob
      BY RowTypes DEF WorkRec, WorkflowRunStatus
  <2>2. "done_job" \in WorkPc
      BY DEF WorkPc
  <2>3. work' \in [Workers -> WorkRec]
      BY <2>1, <2>2, <1>24, CarryTypes DEF GetCompletedJob
  <2> QED
      BY <2>3, <1>24 DEF GetCompletedJob, history
<1>25. ASSUME NEW w \in Workers, JoinFailed(w) PROVE Types'
  <2>0. work[w].run \in AnyRun /\ work[w].job \in AnyJob
      BY DEF WorkRec
  <2>1. ASSUME NEW st \in {"QUEUED", "DEAD_LETTERED"}
        PROVE  /\ [work[w].run EXCEPT !.status = st] \in AnyRun
               /\ [work[w].job EXCEPT !.status = st, !.retries = work[w].job.retries + 1] \in AnyJob
    <3>1. st \in WorkflowRunStatus /\ work[w].job.retries + 1 \in Nat
        BY <2>0 DEF AnyJob, WorkflowRunStatus
    <3> QED
        BY <2>0, <3>1, RowTypes
  <2>2. {"retry_job", "dead_job"} \subseteq WorkPc
      BY DEF WorkPc
  <2>3. work' \in [Workers -> WorkRec]
      BY <2>1, <2>2, <1>25, CarryTypes DEF JoinFailed
  <2>4. thread' \in [Procs -> ThreadRec]
      BY <1>25 DEF JoinFailed
  <2> QED
      BY <2>3, <2>4, <1>25 DEF JoinFailed, history
<1>26. ASSUME NEW w \in Workers, RetryEnqueue(w) PROVE Types'
  <2>1. work[w].job \in AnyJob /\ work[w].run \in AnyRun /\ work[w].job.retries \in Nat
      BY RowTypes DEF WorkRec
  <2>2. [run |-> RunOf(w), attempt |-> work[w].job.retries] \in AnyMessage
      BY <2>1 DEF AnyMessage
  <2>3. queue' \subseteq AnyMessage
      BY <2>2, <1>26 DEF RetryEnqueue
  <2>4. work' \in [Workers -> WorkRec]
      BY <2>1, <1>26, CarryTypes, RowTypes DEF RetryEnqueue, WorkPc, AnyId
  <2> QED
      BY <2>3, <2>4, <1>26 DEF RetryEnqueue, history
<1>27. ASSUME NEW w \in Workers, WorkerDies(w) PROVE Types'
  <2>1. work' \in [Workers -> WorkRec]
      BY <1>27, RetireTypes DEF WorkerDies
  <2>2. thread' \in [Procs -> ThreadRec]
      BY <1>27 DEF WorkerDies
  <2>3. faults' \in 0 .. MaxFaults
      BY <1>27 DEF WorkerDies
  <2> QED
      BY <1>27, <2>1, <2>2, <2>3 DEF WorkerDies, history
<1>28. ASSUME NEW p \in Procs, ExecuteRun(p) PROVE Types'
  <2>1. thread' \in [Procs -> ThreadRec]
      BY <1>28 DEF ExecuteRun, ThreadRec, Executing, Returned
  <2> QED
      BY <1>28, <2>1 DEF ExecuteRun, history
<1>29. ASSUME NEW p \in Procs, ProgressReads(p) PROVE Types'
  <2>1. thread[p].events + 1 \in 0 .. MaxEvents /\ thread[p] \in ThreadRec
      BY <1>29 DEF ProgressReads, ThreadRec
  <2>2. [thread[p] EXCEPT !.pc = "save_progress", !.latest = runs[RunOf(p)],
                          !.events = thread[p].events + 1] \in ThreadRec
      BY <2>1 DEF ThreadRec, Executing
  <2>3. thread' \in [Procs -> ThreadRec]
      BY <2>2, <1>29 DEF ProgressReads
  <2> QED
      BY <2>3, <1>29 DEF ProgressReads, history
<1>30. ASSUME NEW p \in Procs, ProgressSaves(p) PROVE Types'
  <2>1. runs' \in [Runs -> AnyRun]
      BY <1>30 DEF ProgressSaves, ThreadRec
  <2>2. thread' \in [Procs -> ThreadRec]
      BY <1>30 DEF ProgressSaves, ThreadRec, Executing
  <2> QED
      BY <1>30, <2>1, <2>2 DEF ProgressSaves, history
<1>31. ASSUME NEW p \in Procs, BootstrapReturns(p) PROVE Types'
  <2>1. thread' \in [Procs -> ThreadRec]
      BY <1>31 DEF BootstrapReturns, ThreadRec, Executing, ThreadGoto
  <2> QED
      BY <1>31, <2>1 DEF BootstrapReturns, history
<1>32. ASSUME NEW p \in Procs, SaveTrip(p) PROVE Types'
  <2>1. trips' \subseteq Runs
      BY <1>32 DEF SaveTrip
  <2>2. thread' \in [Procs -> ThreadRec]
      BY <1>32 DEF SaveTrip, ThreadRec, Executing, ThreadGoto
  <2> QED
      BY <1>32, <2>1, <2>2 DEF SaveTrip, history
<1>33. ASSUME NEW p \in Procs, SaveSuccess(p) PROVE Types'
  <2>1. thread[p].run \in AnyRun /\ "SUCCEEDED" \in WorkflowRunStatus
      BY <1>33 DEF SaveSuccess, ThreadRec, WorkflowRunStatus
  <2>2. runs' \in [Runs -> AnyRun]
      BY <1>33, <2>1, RowTypes DEF SaveSuccess
  <2>3. thread' \in [Procs -> ThreadRec]
      BY <1>33 DEF SaveSuccess, ThreadRec, Returned, ThreadGoto
  <2> QED
      BY <1>33, <2>1, <2>2, <2>3 DEF SaveSuccess, history
<1>34. ASSUME NEW p \in Procs, Raises(p) PROVE Types'
  <2>1. thread' \in [Procs -> ThreadRec]
      BY <1>34 DEF Raises, ThreadRec, Returned, ThreadGoto
  <2> QED
      BY <1>34, <2>1 DEF Raises, history
<1>35. ASSUME NEW r \in Runs, NEW original \in Runs, RerunRun(r, original) PROVE Types'
    BY <1>1, <1>35 DEF RerunRun
<1>36. CASE UNCHANGED vars
    BY <1>36 DEF vars, history
<1> QED
    BY <1>1, <1>2, <1>3, <1>4, <1>5, <1>6, <1>7, <1>8, <1>9, <1>10, <1>11, <1>12, <1>13, <1>14, <1>15, <1>16, <1>17, <1>18, <1>19, <1>20, <1>21, <1>22, <1>23, <1>24, <1>25, <1>26, <1>27, <1>28, <1>29, <1>30, <1>31, <1>32, <1>33, <1>34, <1>35, <1>36
    DEF Next, SubmitSteps, CancelSteps, WorkerSteps, ThreadSteps

\* Every row, copy and message has its type, always (retry counts unbounded yet).
THEOREM TypesInvariant == Spec => []Types
<1>1. Init => Types
    BY Bounds, LiteralTypes DEF Init, Types, SubmitRec, SubmitPc
<1>2. QED
    BY <1>1, TypesStep, PTL DEF Spec
-----------------------------------------------------------------------------
(* One token per run, and no two executions. *)

\* What the three ways a worker moves on do to the workers' records.
LEMMA CarryEffect ==
    ASSUME Types, NEW w \in Workers, NEW pc, NEW run, NEW job, Carry(w, pc, run, job)
    PROVE  /\ \A v \in Workers : v # w => work'[v] = work[v]
           /\ work'[w].pc = pc /\ work'[w].run = run /\ work'[w].job = job
           /\ work'[w].msg = work[w].msg /\ work'[w].timedOut = work[w].timedOut
BY DEF Types, Carry, WorkRec

\* Goto changes the stage of one worker,
LEMMA GotoEffect ==
    ASSUME Types, NEW w \in Workers, NEW pc, Goto(w, pc)
    PROVE  /\ \A v \in Workers : v # w => work'[v] = work[v]
           /\ work'[w].pc = pc /\ work'[w].run = work[w].run /\ work'[w].job = work[w].job
           /\ work'[w].msg = work[w].msg /\ work'[w].timedOut = work[w].timedOut
BY DEF Types, Goto, WorkRec

\* and Retire empties its record.
LEMMA RetireEffect ==
    ASSUME Types, NEW w \in Workers, Retire(w)
    PROVE  /\ \A v \in Workers : v # w => work'[v] = work[v]
           /\ work'[w] = IdleWorker /\ work'[w].pc = "idle"
           /\ work'[w].run = NoRun /\ work'[w].job = NoJob
BY DEF Types, Retire, IdleWorker

\* A step that makes no new token: none of the three holders gains a run.
Unborn(r) == submit[r].pc \in {"new", "enqueue", "executing"}
Kept ==
    /\ \A r \in Runs : Unborn(r)' => Unborn(r)
    /\ queue' \subseteq queue
    /\ \A w \in Workers : work'[w].pc # "idle" =>
          work[w].pc # "idle" /\ work'[w].msg = work[w].msg /\ (Holds(w)' => Holds(w))

\* Such a step preserves the token invariant, whatever else it does.
LEMMA KeptToken ==
    ASSUME Types, Types', OneToken, Kept
    PROVE  OneToken'
<1> USE RunOfTypes, RunsAndWorkers
<1>1. \A w \in Workers : RunOf(w)' = work'[w].msg.run
    BY DEF RunOf
<1>2. \A w \in Workers : Holds(w)' => Holds(w) /\ RunOf(w)' = RunOf(w)
    BY <1>1 DEF Kept, Holds
<1>3. \A w \in Workers : work'[w].pc # "idle" => work[w].pc # "idle" /\ RunOf(w)' = RunOf(w)
    BY <1>1 DEF Kept
<1>4. \A m, n \in queue' : m.run = n.run => m = n
    BY DEF Kept, OneToken
<1>5. \A v, w \in Workers : Holds(v)' /\ Holds(w)' /\ RunOf(v)' = RunOf(w)' => v = w
    BY <1>2 DEF OneToken
<1>6. \A m \in queue', w \in Workers : Holds(w)' => m.run # RunOf(w)'
    BY <1>2 DEF Kept, OneToken
<1>7. \A r \in Runs : Unborn(r)' => /\ \A m \in queue' : m.run # r
                                    /\ \A w \in Workers : work'[w].pc # "idle" => RunOf(w)' # r
    BY <1>3 DEF Kept, OneToken, Unborn
<1> QED
    BY <1>4, <1>5, <1>6, <1>7 DEF OneToken, Unborn

\* Enqueueing, taking and requeueing hand the token on; nothing else makes one.
LEMMA OneTokenStep == Types /\ Types' /\ OneToken /\ [Next]_vars => OneToken'
<1> SUFFICES ASSUME Types, Types', OneToken, [Next]_vars PROVE OneToken'
    OBVIOUS
<1> USE RunOfTypes, RunsAndWorkers
<1>1. ASSUME NEW r \in Runs, SubmitAsync(r) PROVE OneToken'
  <2>1. Kept
      BY <1>1 DEF Kept, SubmitAsync, Unborn, Holds, Types
  <2> QED
      BY <2>1, KeptToken
<1>2. ASSUME NEW r \in Runs, SubmitEnqueue(r) PROVE OneToken'
  <2>1. queue' = queue \cup {FirstMessage(r)} /\ Unborn(r) /\ ~Unborn(r)'
      BY <1>2, LiteralTypes DEF SubmitEnqueue, FirstMessage, Unborn, Types
  <2>2. \A q \in Runs : Unborn(q)' => Unborn(q) /\ q # r
      BY <1>2, <2>1 DEF SubmitEnqueue, Unborn, Types
  <2>3. \A w \in Workers : RunOf(w)' = RunOf(w) /\ (Holds(w)' <=> Holds(w)) /\ work'[w].pc = work[w].pc
      BY <1>2 DEF SubmitEnqueue, Holds, RunOf
  <2>4. \A m \in queue : m.run # r
      BY <2>1 DEF OneToken, Unborn
  <2>5. \A w \in Workers : Holds(w) => RunOf(w) # r
      BY <2>1 DEF OneToken, Unborn, Holds
  <2> QED
      BY <2>1, <2>2, <2>3, <2>4, <2>5 DEF OneToken, Unborn, FirstMessage
<1>3. ASSUME NEW r \in Runs, SubmitSaveJob(r) PROVE OneToken'
  <2>1. Kept
      BY <1>3 DEF Kept, SubmitSaveJob, Unborn, Holds, Types, SubmitRec
  <2> QED
      BY <2>1, KeptToken
<1>4. ASSUME NEW r \in Runs, SubmitSaveRun(r) PROVE OneToken'
  <2>1. Kept
      BY <1>4 DEF Kept, SubmitSaveRun, Unborn, Holds, Types, Answered
  <2> QED
      BY <2>1, KeptToken
<1>5. ASSUME NEW r \in Runs, SubmitSync(r) PROVE OneToken'
  <2>1. Kept
      BY <1>5 DEF Kept, SubmitSync, Unborn, Holds, Types
  <2> QED
      BY <2>1, KeptToken
<1>6. ASSUME NEW r \in Runs, SyncReturns(r) PROVE OneToken'
  <2>1. Kept
      BY <1>6 DEF Kept, SyncReturns, Unborn, Holds, Types, Answered
  <2> QED
      BY <2>1, KeptToken
<1>7. ASSUME NEW r \in Runs, SubmitAborts(r) PROVE OneToken'
  <2>1. Kept
      BY <1>7 DEF Kept, SubmitAborts, Unborn, Holds, Types, Answered
  <2> QED
      BY <2>1, KeptToken
<1>8. ASSUME NEW r \in Runs, CancelRun(r) PROVE OneToken'
  <2>1. Kept
      BY <1>8 DEF Kept, CancelRun, Unborn, Holds
  <2> QED
      BY <2>1, KeptToken
<1>9. ASSUME NEW r \in Runs, CancelJob(r) PROVE OneToken'
  <2>1. Kept
      BY <1>9 DEF Kept, CancelJob, Unborn, Holds
  <2> QED
      BY <2>1, KeptToken
<1>10. ASSUME NEW r \in Runs, CancelSaveRun(r) PROVE OneToken'
  <2>1. Kept
      BY <1>10 DEF Kept, CancelSaveRun, Unborn, Holds
  <2> QED
      BY <2>1, KeptToken
<1>11. ASSUME NEW r \in Runs, CancelGetJob(r) PROVE OneToken'
  <2>1. Kept
      BY <1>11 DEF Kept, CancelGetJob, Unborn, Holds
  <2> QED
      BY <2>1, KeptToken
<1>12. ASSUME NEW r \in Runs, CancelSaveJob(r) PROVE OneToken'
  <2>1. Kept
      BY <1>12 DEF Kept, CancelSaveJob, Unborn, Holds
  <2> QED
      BY <2>1, KeptToken
<1>13. ASSUME NEW r \in Runs, CancelGetRun(r) PROVE OneToken'
  <2>1. Kept
      BY <1>13 DEF Kept, CancelGetRun, Unborn, Holds
  <2> QED
      BY <2>1, KeptToken
<1>14. ASSUME NEW r \in Runs, CancelStop(r) PROVE OneToken'
  <2>1. Kept
      BY <1>14 DEF Kept, CancelStop, Unborn, Holds, IdleWorker
  <2> QED
      BY <2>1, KeptToken
<1>15. ASSUME NEW r \in Runs, CancelAborts(r) PROVE OneToken'
  <2>1. Kept
      BY <1>15 DEF Kept, CancelAborts, Unborn, Holds
  <2> QED
      BY <2>1, KeptToken
<1>16. ASSUME NEW w \in Workers, Take(w) PROVE OneToken'
  <2>1. PICK m \in queue :
            /\ queue' = queue \ {m}
            /\ work' = [work EXCEPT ![w] = [IdleWorker EXCEPT !.pc = "get_job", !.msg = m]]
      BY <1>16 DEF Take
  <2>2. /\ work'[w].pc = "get_job" /\ work'[w].msg = m
        /\ \A v \in Workers : v # w => work'[v] = work[v]
      BY <2>1 DEF Types, WorkRec, IdleWorker
  <2>3. /\ RunOf(w)' = m.run /\ ~Holds(w)
        /\ \A v \in Workers : v # w => RunOf(v)' = RunOf(v) /\ (Holds(v)' <=> Holds(v))
      BY <1>16, <2>2 DEF RunOf, Holds, Take, At
  <2>4. \A n \in queue' : n \in queue /\ n.run # m.run
      BY <2>1 DEF OneToken
  <2>5. \A r \in Runs : Unborn(r)' => Unborn(r) /\ r # m.run
      BY <1>16 DEF Take, Unborn, OneToken
  <2>6. \A v \in Workers : Holds(v) => RunOf(v) # m.run
      BY DEF OneToken
  <2>7. \A v, x \in Workers : Holds(v)' /\ Holds(x)' /\ RunOf(v)' = RunOf(x)' => v = x
      BY <2>3, <2>6 DEF OneToken
  <2>8. \A n \in queue', v \in Workers : Holds(v)' => n.run # RunOf(v)'
      BY <2>3, <2>4 DEF OneToken
  <2>9. \A r \in Runs : Unborn(r)' => /\ \A n \in queue' : n.run # r
                                      /\ \A v \in Workers : work'[v].pc # "idle" => RunOf(v)' # r
      BY <2>2, <2>3, <2>4, <2>5 DEF OneToken, Unborn
  <2> QED
      BY <2>4, <2>7, <2>8, <2>9 DEF OneToken, Unborn
<1>17. ASSUME NEW w \in Workers, GetJob(w) PROVE OneToken'
  <2>1. Kept
      BY <1>17, CarryEffect DEF Kept, GetJob, Unborn, Holds, At
  <2> QED
      BY <2>1, KeptToken
<1>18. ASSUME NEW w \in Workers, GetRun(w) PROVE OneToken'
  <2>1. Kept
      BY <1>18, CarryEffect, RetireEffect DEF Kept, GetRun, Unborn, Holds, At
  <2> QED
      BY <2>1, KeptToken
<1>19. ASSUME NEW w \in Workers, WorkerSavesJob(w) PROVE OneToken'
  <2>1. Kept
      BY <1>19, GotoEffect, RetireEffect, SavesJobTable DEF Kept, WorkerSavesJob, Unborn, Holds
  <2> QED
      BY <2>1, KeptToken
<1>20. ASSUME NEW w \in Workers, WorkerSavesRun(w) PROVE OneToken'
  <2>1. Kept
      BY <1>20, GotoEffect, RetireEffect, SavesRunTable DEF Kept, WorkerSavesRun, Unborn, Holds
  <2> QED
      BY <2>1, KeptToken
<1>21. ASSUME NEW w \in Workers, StartExecution(w) PROVE OneToken'
  <2>1. Kept
      BY <1>21, GotoEffect DEF Kept, StartExecution, Unborn, Holds, At
  <2> QED
      BY <2>1, KeptToken
<1>22. ASSUME NEW w \in Workers, TimesOut(w) PROVE OneToken'
  <2>1. Kept
      BY <1>22 DEF Kept, TimesOut, Unborn, Holds, Types, WorkRec
  <2> QED
      BY <2>1, KeptToken
<1>23. ASSUME NEW w \in Workers, JoinSucceeded(w) PROVE OneToken'
  <2>1. Kept
      BY <1>23, GotoEffect DEF Kept, JoinSucceeded, Unborn, Holds, At
  <2> QED
      BY <2>1, KeptToken
<1>24. ASSUME NEW w \in Workers, GetCompletedJob(w) PROVE OneToken'
  <2>1. Kept
      BY <1>24, CarryEffect DEF Kept, GetCompletedJob, Unborn, Holds, At
  <2> QED
      BY <2>1, KeptToken
<1>25. ASSUME NEW w \in Workers, JoinFailed(w) PROVE OneToken'
  <2>1. Kept
      BY <1>25, CarryEffect DEF Kept, JoinFailed, Unborn, Holds, At
  <2> QED
      BY <2>1, KeptToken
<1>26. ASSUME NEW w \in Workers, RetryEnqueue(w) PROVE OneToken'
  <2> DEFINE m == [run |-> RunOf(w), attempt |-> work[w].job.retries]
  <2>1. queue' = queue \cup {m} /\ Holds(w) /\ ~Unborn(RunOf(w))
      BY <1>26 DEF RetryEnqueue, At, Holds, OneToken, Unborn
  <2>2. /\ work'[w].pc = "requeued_job" /\ work'[w].msg = work[w].msg
        /\ \A v \in Workers : v # w => work'[v] = work[v]
      BY <1>26, CarryEffect DEF RetryEnqueue
  <2>3. /\ ~Holds(w)' /\ RunOf(w)' = RunOf(w)
        /\ \A v \in Workers : v # w => RunOf(v)' = RunOf(v) /\ (Holds(v)' <=> Holds(v))
      BY <2>2 DEF RunOf, Holds
  <2>4. \A n \in queue : n.run # m.run
      BY <2>1 DEF OneToken
  <2>5. \A v \in Workers : Holds(v) /\ v # w => RunOf(v) # m.run
      BY <2>1 DEF OneToken
  <2>6. \A r \in Runs : Unborn(r)' <=> Unborn(r)
      BY <1>26 DEF RetryEnqueue, Unborn
  <2>7. \A r \in Runs : Unborn(r)' => /\ \A n \in queue' : n.run # r
                                      /\ \A v \in Workers : work'[v].pc # "idle" => RunOf(v)' # r
      BY <2>1, <2>2, <2>3, <2>6 DEF OneToken, Unborn, Holds
  <2>8. \A n, k \in queue' : n.run = k.run => n = k
      BY <2>1, <2>4 DEF OneToken
  <2>9. \A n \in queue', v \in Workers : Holds(v)' => n.run # RunOf(v)'
      BY <2>1, <2>3, <2>5 DEF OneToken
  <2>10. \A v, x \in Workers : Holds(v)' /\ Holds(x)' /\ RunOf(v)' = RunOf(x)' => v = x
      BY <2>3 DEF OneToken
  <2> QED
      BY <2>7, <2>8, <2>9, <2>10 DEF OneToken, Unborn
<1>27. ASSUME NEW w \in Workers, WorkerDies(w) PROVE OneToken'
  <2>1. Kept
      BY <1>27, RetireEffect DEF Kept, WorkerDies, Unborn, Holds
  <2> QED
      BY <2>1, KeptToken
<1>28. ASSUME NEW p \in Procs, ExecuteRun(p) PROVE OneToken'
  <2>1. Kept
      BY <1>28 DEF Kept, ExecuteRun, Unborn, Holds
  <2> QED
      BY <2>1, KeptToken
<1>29. ASSUME NEW p \in Procs, ProgressReads(p) PROVE OneToken'
  <2>1. Kept
      BY <1>29 DEF Kept, ProgressReads, Unborn, Holds
  <2> QED
      BY <2>1, KeptToken
<1>30. ASSUME NEW p \in Procs, ProgressSaves(p) PROVE OneToken'
  <2>1. Kept
      BY <1>30 DEF Kept, ProgressSaves, Unborn, Holds
  <2> QED
      BY <2>1, KeptToken
<1>31. ASSUME NEW p \in Procs, BootstrapReturns(p) PROVE OneToken'
  <2>1. Kept
      BY <1>31 DEF Kept, BootstrapReturns, Unborn, Holds
  <2> QED
      BY <2>1, KeptToken
<1>32. ASSUME NEW p \in Procs, SaveTrip(p) PROVE OneToken'
  <2>1. Kept
      BY <1>32 DEF Kept, SaveTrip, Unborn, Holds
  <2> QED
      BY <2>1, KeptToken
<1>33. ASSUME NEW p \in Procs, SaveSuccess(p) PROVE OneToken'
  <2>1. Kept
      BY <1>33 DEF Kept, SaveSuccess, Unborn, Holds
  <2> QED
      BY <2>1, KeptToken
<1>34. ASSUME NEW p \in Procs, Raises(p) PROVE OneToken'
  <2>1. Kept
      BY <1>34 DEF Kept, Raises, Unborn, Holds
  <2> QED
      BY <2>1, KeptToken
<1>35. ASSUME NEW r \in Runs, NEW original \in Runs, RerunRun(r, original) PROVE OneToken'
    BY <1>1, <1>35 DEF RerunRun
<1>36. CASE UNCHANGED vars
    BY <1>36 DEF vars, OneToken, Holds, RunOf
<1> QED
    BY <1>1, <1>2, <1>3, <1>4, <1>5, <1>6, <1>7, <1>8, <1>9, <1>10, <1>11, <1>12, <1>13, <1>14, <1>15, <1>16, <1>17, <1>18, <1>19, <1>20, <1>21, <1>22, <1>23, <1>24, <1>25, <1>26, <1>27, <1>28, <1>29, <1>30, <1>31, <1>32, <1>33, <1>34, <1>35, <1>36
    DEF Next, SubmitSteps, CancelSteps, WorkerSteps, ThreadSteps
-----------------------------------------------------------------------------
(* Threads and their owners.  With one token per run this gives the        *)
(* exclusion of executions.                                                *)

\* A thread is started by the step that begins to wait for it, and the step
\* that stops waiting (also a kill or a death) ends it.
LEMMA OwnedStep == Types /\ Types' /\ Owned /\ [Next]_vars => Owned'
<1> SUFFICES ASSUME Types, Types', Owned, [Next]_vars PROVE Owned'
    OBVIOUS
<1> USE RunOfTypes, RunsAndWorkers
<1>1. ASSUME NEW r \in Runs, SubmitAsync(r) PROVE Owned'
    BY <1>1 DEF Owned, SubmitAsync, Types
<1>2. ASSUME NEW r \in Runs, SubmitEnqueue(r) PROVE Owned'
    BY <1>2 DEF Owned, SubmitEnqueue, Types
<1>3. ASSUME NEW r \in Runs, SubmitSaveJob(r) PROVE Owned'
    BY <1>3 DEF Owned, SubmitSaveJob, Types, SubmitRec
<1>4. ASSUME NEW r \in Runs, SubmitSaveRun(r) PROVE Owned'
    BY <1>4 DEF Owned, SubmitSaveRun, Types, Answered
<1>5. ASSUME NEW r \in Runs, SubmitSync(r) PROVE Owned'
    BY <1>5 DEF Owned, SubmitSync, Types
<1>6. ASSUME NEW r \in Runs, SyncReturns(r) PROVE Owned'
    BY <1>6 DEF Owned, SyncReturns, Types, NoThread
<1>7. ASSUME NEW r \in Runs, SubmitAborts(r) PROVE Owned'
    BY <1>7 DEF Owned, SubmitAborts, Types, Answered
<1>8. ASSUME NEW r \in Runs, CancelRun(r) PROVE Owned'
    BY <1>8 DEF Owned, CancelRun
<1>9. ASSUME NEW r \in Runs, CancelJob(r) PROVE Owned'
    BY <1>9 DEF Owned, CancelJob
<1>10. ASSUME NEW r \in Runs, CancelSaveRun(r) PROVE Owned'
    BY <1>10 DEF Owned, CancelSaveRun
<1>11. ASSUME NEW r \in Runs, CancelGetJob(r) PROVE Owned'
    BY <1>11 DEF Owned, CancelGetJob
<1>12. ASSUME NEW r \in Runs, CancelSaveJob(r) PROVE Owned'
    BY <1>12 DEF Owned, CancelSaveJob
<1>13. ASSUME NEW r \in Runs, CancelGetRun(r) PROVE Owned'
    BY <1>13 DEF Owned, CancelGetRun
<1>14. ASSUME NEW r \in Runs, CancelStop(r) PROVE Owned'
    BY <1>14 DEF Owned, CancelStop, Types, NoThread, IdleWorker
<1>15. ASSUME NEW r \in Runs, CancelAborts(r) PROVE Owned'
    BY <1>15 DEF Owned, CancelAborts
<1>16. ASSUME NEW w \in Workers, Take(w) PROVE Owned'
    BY <1>16 DEF Owned, Take, Types, At
<1>17. ASSUME NEW w \in Workers, GetJob(w) PROVE Owned'
    BY <1>17, CarryEffect DEF Owned, GetJob, At
<1>18. ASSUME NEW w \in Workers, GetRun(w) PROVE Owned'
    BY <1>18, CarryEffect, RetireEffect DEF Owned, GetRun, At
<1>19. ASSUME NEW w \in Workers, WorkerSavesJob(w) PROVE Owned'
    BY <1>19, GotoEffect, RetireEffect, SavesJobTable DEF Owned, WorkerSavesJob
<1>20. ASSUME NEW w \in Workers, WorkerSavesRun(w) PROVE Owned'
    BY <1>20, GotoEffect, RetireEffect, SavesRunTable DEF Owned, WorkerSavesRun
<1>21. ASSUME NEW w \in Workers, StartExecution(w) PROVE Owned'
    BY <1>21, GotoEffect DEF Owned, StartExecution, Types, At
<1>22. ASSUME NEW w \in Workers, TimesOut(w) PROVE Owned'
    BY <1>22 DEF Owned, TimesOut, Types, WorkRec, At
<1>23. ASSUME NEW w \in Workers, JoinSucceeded(w) PROVE Owned'
    BY <1>23, GotoEffect DEF Owned, JoinSucceeded, Types, NoThread, At
<1>24. ASSUME NEW w \in Workers, GetCompletedJob(w) PROVE Owned'
    BY <1>24, CarryEffect DEF Owned, GetCompletedJob, At
<1>25. ASSUME NEW w \in Workers, JoinFailed(w) PROVE Owned'
    BY <1>25, CarryEffect DEF Owned, JoinFailed, Types, NoThread, At
<1>26. ASSUME NEW w \in Workers, RetryEnqueue(w) PROVE Owned'
    BY <1>26, CarryEffect DEF Owned, RetryEnqueue, At
<1>27. ASSUME NEW w \in Workers, WorkerDies(w) PROVE Owned'
    BY <1>27, RetireEffect DEF Owned, WorkerDies, Types, NoThread, At
<1>28. ASSUME NEW p \in Procs, ExecuteRun(p) PROVE Owned'
    BY <1>28 DEF Owned, ExecuteRun, ThreadAt, ThreadGoto, Executing, Types, ThreadRec
<1>29. ASSUME NEW p \in Procs, ProgressReads(p) PROVE Owned'
    BY <1>29 DEF Owned, ProgressReads, ThreadAt, ThreadGoto, Executing, Types, ThreadRec
<1>30. ASSUME NEW p \in Procs, ProgressSaves(p) PROVE Owned'
    BY <1>30 DEF Owned, ProgressSaves, ThreadAt, ThreadGoto, Executing, Types, ThreadRec
<1>31. ASSUME NEW p \in Procs, BootstrapReturns(p) PROVE Owned'
    BY <1>31 DEF Owned, BootstrapReturns, ThreadAt, ThreadGoto, Executing, Types, ThreadRec
<1>32. ASSUME NEW p \in Procs, SaveTrip(p) PROVE Owned'
    BY <1>32 DEF Owned, SaveTrip, ThreadAt, ThreadGoto, Executing, Types, ThreadRec
<1>33. ASSUME NEW p \in Procs, SaveSuccess(p) PROVE Owned'
    BY <1>33 DEF Owned, SaveSuccess, ThreadAt, ThreadGoto, Executing, Types, ThreadRec
<1>34. ASSUME NEW p \in Procs, Raises(p) PROVE Owned'
    BY <1>34 DEF Owned, Raises, ThreadAt, ThreadGoto, Executing, Types, ThreadRec
<1>35. ASSUME NEW r \in Runs, NEW original \in Runs, RerunRun(r, original) PROVE Owned'
    BY <1>1, <1>35 DEF RerunRun
<1>36. CASE UNCHANGED vars
    BY <1>36 DEF vars, Owned
<1> QED
    BY <1>1, <1>2, <1>3, <1>4, <1>5, <1>6, <1>7, <1>8, <1>9, <1>10, <1>11, <1>12, <1>13, <1>14, <1>15, <1>16, <1>17, <1>18, <1>19, <1>20, <1>21, <1>22, <1>23, <1>24, <1>25, <1>26, <1>27, <1>28, <1>29, <1>30, <1>31, <1>32, <1>33, <1>34, <1>35, <1>36
    DEF Next, SubmitSteps, CancelSteps, WorkerSteps, ThreadSteps

\* Nothing has begun: the invariants hold at first.
LEMMA TokenInit == Init => OneToken /\ Owned
BY RunsAndWorkers DEF Init, OneToken, Owned, Holds, IdleWorker, NoThread, Procs

\* One token per run and threads with owners, always.
THEOREM TokenInvariant == Spec => [](OneToken /\ Owned)
<1>1. Init => OneToken /\ Owned
    BY TokenInit
<1>2. Types /\ Types' /\ (OneToken /\ Owned) /\ [Next]_vars => (OneToken /\ Owned)'
    BY OneTokenStep, OwnedStep
<1> QED
    BY <1>1, <1>2, TypesInvariant, PTL DEF Spec

\* A run is never executed twice at the same time, by any workers and sync
\* requests, whatever times out, is killed, dies or is retried.
THEOREM SingleExecutionHolds == Spec => []SingleExecution
<1>1. ASSUME Types, OneToken, Owned PROVE SingleExecution
  <2> SUFFICES ASSUME NEW p \in Procs, NEW q \in Procs, RunOf(p) = RunOf(q),
                      thread[p].pc \in Executing, thread[q].pc \in Executing
               PROVE  p = q
      BY DEF SingleExecution
  <2> USE <1>1, RunsAndWorkers, RunOfTypes
  <2>1. thread[p].pc # "none" /\ thread[q].pc # "none"
      BY DEF Executing
  <2>2. CASE p \in Workers /\ q \in Workers
    <3>1. Holds(p) /\ Holds(q)
        BY <2>1, <2>2 DEF Owned, Holds
    <3> QED
        BY <2>2, <3>1 DEF OneToken
  <2>3. CASE p \in Runs /\ q \in Runs
      BY <2>3
  <2>4. ASSUME NEW w \in Workers, NEW r \in Runs, RunOf(w) = r,
               thread[w].pc # "none", thread[r].pc # "none"
        PROVE  FALSE
    <3>1. submit[r].pc = "executing" /\ work[w].pc # "idle"
        BY <2>4 DEF Owned
    <3> QED
        BY <2>4, <3>1 DEF OneToken
  <2>5. CASE p \in Workers /\ q \in Runs
      BY <2>1, <2>4, <2>5
  <2>6. CASE p \in Runs /\ q \in Workers
      BY <2>1, <2>4, <2>6
  <2> QED
      BY <2>2, <2>3, <2>5, <2>6 DEF Procs
<1> QED
    BY <1>1, TypesInvariant, TokenInvariant, PTL
-----------------------------------------------------------------------------
(* Settled jobs, and the retry budget. *)

\* No step gives a run back that can no longer be executed.
LEMMA AliveShrinks ==
    ASSUME Types, Types', [Next]_vars
    PROVE  \A r \in Runs : Alive(r)' => Alive(r)
<1> USE RunOfTypes, RunsAndWorkers
<1> DEFINE Shrinks == \A r \in Runs : Alive(r)' => Alive(r)
<1>1. ASSUME NEW r \in Runs, SubmitAsync(r) PROVE Shrinks
    BY <1>1 DEF Alive, LiveAt, RunOf, SubmitAsync, Types
<1>2. ASSUME NEW r \in Runs, SubmitEnqueue(r) PROVE Shrinks
    BY <1>2 DEF Alive, LiveAt, RunOf, SubmitEnqueue, Types
<1>3. ASSUME NEW r \in Runs, SubmitSaveJob(r) PROVE Shrinks
    BY <1>3 DEF Alive, LiveAt, RunOf, SubmitSaveJob, Types, SubmitRec
<1>4. ASSUME NEW r \in Runs, SubmitSaveRun(r) PROVE Shrinks
    BY <1>4 DEF Alive, LiveAt, RunOf, SubmitSaveRun, Types, Answered
<1>5. ASSUME NEW r \in Runs, SubmitSync(r) PROVE Shrinks
    BY <1>5 DEF Alive, LiveAt, RunOf, SubmitSync, Types
<1>6. ASSUME NEW r \in Runs, SyncReturns(r) PROVE Shrinks
    BY <1>6 DEF Alive, LiveAt, RunOf, SyncReturns, Types, Answered
<1>7. ASSUME NEW r \in Runs, SubmitAborts(r) PROVE Shrinks
    BY <1>7 DEF Alive, LiveAt, RunOf, SubmitAborts, Types, Answered
<1>8. ASSUME NEW r \in Runs, CancelRun(r) PROVE Shrinks
    BY <1>8 DEF Alive, LiveAt, RunOf, CancelRun
<1>9. ASSUME NEW r \in Runs, CancelJob(r) PROVE Shrinks
    BY <1>9 DEF Alive, LiveAt, RunOf, CancelJob
<1>10. ASSUME NEW r \in Runs, CancelSaveRun(r) PROVE Shrinks
    BY <1>10 DEF Alive, LiveAt, RunOf, CancelSaveRun
<1>11. ASSUME NEW r \in Runs, CancelGetJob(r) PROVE Shrinks
    BY <1>11 DEF Alive, LiveAt, RunOf, CancelGetJob
<1>12. ASSUME NEW r \in Runs, CancelSaveJob(r) PROVE Shrinks
    BY <1>12 DEF Alive, LiveAt, RunOf, CancelSaveJob
<1>13. ASSUME NEW r \in Runs, CancelGetRun(r) PROVE Shrinks
    BY <1>13 DEF Alive, LiveAt, RunOf, CancelGetRun
<1>14. ASSUME NEW r \in Runs, CancelStop(r) PROVE Shrinks
    BY <1>14 DEF Alive, LiveAt, RunOf, CancelStop, IdleWorker, Types
<1>15. ASSUME NEW r \in Runs, CancelAborts(r) PROVE Shrinks
    BY <1>15 DEF Alive, LiveAt, RunOf, CancelAborts
<1>16. ASSUME NEW w \in Workers, Take(w) PROVE Shrinks
    BY <1>16 DEF Alive, LiveAt, RunOf, Take, IdleWorker, Types, WorkRec, At
<1>17. ASSUME NEW w \in Workers, GetJob(w) PROVE Shrinks
    BY <1>17, CarryEffect DEF Alive, LiveAt, RunOf, GetJob, At
<1>18. ASSUME NEW w \in Workers, GetRun(w) PROVE Shrinks
    BY <1>18, CarryEffect, RetireEffect DEF Alive, LiveAt, RunOf, GetRun, At
<1>19. ASSUME NEW w \in Workers, WorkerSavesJob(w) PROVE Shrinks
    BY <1>19, GotoEffect, RetireEffect, SavesJobTable DEF Alive, LiveAt, RunOf, WorkerSavesJob, At
<1>20. ASSUME NEW w \in Workers, WorkerSavesRun(w) PROVE Shrinks
    BY <1>20, GotoEffect, RetireEffect, SavesRunTable DEF Alive, LiveAt, RunOf, WorkerSavesRun, At
<1>21. ASSUME NEW w \in Workers, StartExecution(w) PROVE Shrinks
    BY <1>21, GotoEffect DEF Alive, LiveAt, RunOf, StartExecution, At
<1>22. ASSUME NEW w \in Workers, TimesOut(w) PROVE Shrinks
    BY <1>22 DEF Alive, LiveAt, RunOf, TimesOut, Types, WorkRec
<1>23. ASSUME NEW w \in Workers, JoinSucceeded(w) PROVE Shrinks
    BY <1>23, GotoEffect DEF Alive, LiveAt, RunOf, JoinSucceeded, At
<1>24. ASSUME NEW w \in Workers, GetCompletedJob(w) PROVE Shrinks
    BY <1>24, CarryEffect DEF Alive, LiveAt, RunOf, GetCompletedJob, At
<1>25. ASSUME NEW w \in Workers, JoinFailed(w) PROVE Shrinks
    BY <1>25, CarryEffect DEF Alive, LiveAt, RunOf, JoinFailed, At
<1>26. ASSUME NEW w \in Workers, RetryEnqueue(w) PROVE Shrinks
    BY <1>26, CarryEffect DEF Alive, LiveAt, RunOf, RetryEnqueue, At
<1>27. ASSUME NEW w \in Workers, WorkerDies(w) PROVE Shrinks
    BY <1>27, RetireEffect DEF Alive, LiveAt, RunOf, WorkerDies, At
<1>28. ASSUME NEW p \in Procs, ExecuteRun(p) PROVE Shrinks
    BY <1>28 DEF Alive, LiveAt, RunOf, ExecuteRun
<1>29. ASSUME NEW p \in Procs, ProgressReads(p) PROVE Shrinks
    BY <1>29 DEF Alive, LiveAt, RunOf, ProgressReads
<1>30. ASSUME NEW p \in Procs, ProgressSaves(p) PROVE Shrinks
    BY <1>30 DEF Alive, LiveAt, RunOf, ProgressSaves
<1>31. ASSUME NEW p \in Procs, BootstrapReturns(p) PROVE Shrinks
    BY <1>31 DEF Alive, LiveAt, RunOf, BootstrapReturns
<1>32. ASSUME NEW p \in Procs, SaveTrip(p) PROVE Shrinks
    BY <1>32 DEF Alive, LiveAt, RunOf, SaveTrip
<1>33. ASSUME NEW p \in Procs, SaveSuccess(p) PROVE Shrinks
    BY <1>33 DEF Alive, LiveAt, RunOf, SaveSuccess
<1>34. ASSUME NEW p \in Procs, Raises(p) PROVE Shrinks
    BY <1>34 DEF Alive, LiveAt, RunOf, Raises
<1>35. ASSUME NEW r \in Runs, NEW original \in Runs, RerunRun(r, original) PROVE Shrinks
    BY <1>1, <1>35 DEF RerunRun
<1>36. CASE UNCHANGED vars
    BY <1>36 DEF vars, Alive, RunOf
<1> QED
    BY <1>1, <1>2, <1>3, <1>4, <1>5, <1>6, <1>7, <1>8, <1>9, <1>10, <1>11, <1>12, <1>13, <1>14, <1>15, <1>16, <1>17, <1>18, <1>19, <1>20, <1>21, <1>22, <1>23, <1>24, <1>25, <1>26, <1>27, <1>28, <1>29, <1>30, <1>31, <1>32, <1>33, <1>34, <1>35, <1>36
    DEF Next, SubmitSteps, CancelSteps, WorkerSteps, ThreadSteps

\* Changing a row soundly.
LEMMA SoundRows ==
    /\ \A n \in Nat : Sound(NoJob, n) /\ ~Settled(NoJob)
    /\ \A n \in Nat, q \in AnyId : q <= MaxRetries =>
          Sound([BuildJob EXCEPT !.qid = q], n) /\ ~Settled([BuildJob EXCEPT !.qid = q])
    /\ \A job \in AnyJob, n \in Nat : Sound(job, n) => Sound(job, n + 1)
    /\ \A job \in AnyJob, n \in Nat : Sound(job, n) => Sound(Flagged(job), n)
    /\ \A job \in AnyJob : Settled(Flagged(job)) <=> Settled(job)
    /\ \A job \in AnyJob, n \in Nat, st \in {"RUNNING", "CANCELLED", "SUCCEEDED"} :
          Sound(job, n) /\ ~Settled(job) => Sound([job EXCEPT !.status = st], n)
    /\ NoRun.qid <= MaxRetries /\ BuildRun("QUEUED").qid <= MaxRetries
    /\ BuildRun("PENDING").qid <= MaxRetries
    /\ \A row \in AnyRun : Flagged(row).qid = row.qid
<1> USE Bounds
<1>1. \A n \in Nat : Sound(NoJob, n) /\ ~Settled(NoJob)
    BY DEF NoJob, Sound, Settled, Absent, NoQueueId
<1>2. \A n \in Nat, q \in AnyId : q <= MaxRetries =>
          Sound([BuildJob EXCEPT !.qid = q], n) /\ ~Settled([BuildJob EXCEPT !.qid = q])
    BY DEF BuildJob, NoJob, Sound, Settled
<1>3. \A job \in AnyJob, n \in Nat : Sound(job, n) => Sound(job, n + 1)
    BY DEF Sound, AnyJob
<1>4. \A job \in AnyJob : /\ Flagged(job).retries = job.retries /\ Flagged(job).qid = job.qid
                          /\ \/ Flagged(job).status = job.status
                             \/ job.status \in {"QUEUED", "PENDING"}
                                /\ Flagged(job).status = "CANCELLED"
    BY DEF Flagged, AnyJob
<1>5. \A job \in AnyJob, n \in Nat : Sound(job, n) => Sound(Flagged(job), n)
    BY <1>4 DEF Sound
<1>6. \A job \in AnyJob : Settled(Flagged(job)) <=> Settled(job)
    BY <1>4 DEF Settled
<1>7. \A job \in AnyJob, n \in Nat, st \in {"RUNNING", "CANCELLED", "SUCCEEDED"} :
          Sound(job, n) /\ ~Settled(job) => Sound([job EXCEPT !.status = st], n)
    BY DEF Sound, Settled, AnyJob
<1>8. /\ NoRun.qid <= MaxRetries /\ BuildRun("QUEUED").qid <= MaxRetries
      /\ BuildRun("PENDING").qid <= MaxRetries
    BY DEF NoRun, BuildRun, NoQueueId
<1>9. \A row \in AnyRun : Flagged(row).qid = row.qid
    BY DEF Flagged, AnyRun
<1> QED
    BY <1>1, <1>2, <1>3, <1>5, <1>6, <1>7, <1>8, <1>9

\* While a run may be executed no one settles its job: a worker that does holds
\* the token, and a cancellation saves a copy read while the row was open.
LEMMA JobsOpenStep ==
    ASSUME Types, Types', OneToken, SettledInv, [Next]_vars
    PROVE  JobsOpen'
<1> USE RunOfTypes, RunsAndWorkers, AliveShrinks DEF JobsOpen
<1>0. ASSUME UNCHANGED <<jobs, cancel>> PROVE JobsOpen'
    BY <1>0 DEF SettledInv, Settled
<1>1. ASSUME NEW r \in Runs, SubmitSaveJob(r) PROVE JobsOpen'
  <2>1. jobs'[r].status = "QUEUED" /\ \A q \in Runs : q # r => jobs'[q] = jobs[q]
      BY <1>1 DEF SubmitSaveJob, Types, BuildJob, NoJob
  <2> QED
      BY <1>1, <2>1 DEF SubmitSaveJob, SettledInv, Settled
<1>2. ASSUME NEW r \in Runs, CancelRun(r) \/ CancelStop(r) \/ CancelAborts(r) PROVE JobsOpen'
  <2>1. cancel'[r].job = NoJob /\ \A q \in Runs : q # r => cancel'[q] = cancel[q]
    <3>1. CASE CancelRun(r)
        BY <3>1 DEF CancelRun, NoCancel, Types
    <3>2. CASE CancelStop(r)
        BY <3>2 DEF CancelStop, Cancelled, NoCancel, Types
    <3>3. CASE CancelAborts(r)
        BY <3>3 DEF CancelAborts, Cancelled, NoCancel, Types
    <3> QED
        BY <1>2, <3>1, <3>2, <3>3
  <2> QED
      BY <1>2, <2>1, SoundRows, Bounds DEF CancelRun, CancelStop, CancelAborts, SettledInv, Settled
<1>3. ASSUME NEW r \in Runs, CancelJob(r) \/ CancelGetJob(r) PROVE JobsOpen'
  <2>1. /\ cancel'[r].job \in {NoJob, Flagged(jobs[r])}
        /\ \A q \in Runs : q # r => cancel'[q] = cancel[q]
    <3>1. CASE CancelJob(r)
        BY <3>1 DEF CancelJob, NoCancel, Types
    <3>2. CASE CancelGetJob(r)
        BY <3>2 DEF CancelGetJob, Cancelled, NoCancel, Types, CancelRec
    <3> QED
        BY <1>3, <3>1, <3>2
  <2> QED
      BY <1>3, <2>1, SoundRows, Bounds DEF CancelJob, CancelGetJob, SettledInv, Settled, Types
<1>4. ASSUME NEW r \in Runs, CancelSaveRun(r) \/ CancelGetRun(r) PROVE JobsOpen'
  <2>1. \A q \in Runs : cancel'[q].job = cancel[q].job
    <3>1. CASE CancelSaveRun(r)
        BY <3>1 DEF CancelSaveRun, Types, CancelRec
    <3>2. CASE CancelGetRun(r)
        BY <3>2 DEF CancelGetRun, Types, CancelRec
    <3> QED
        BY <1>4, <3>1, <3>2
  <2> QED
      BY <1>4, <2>1 DEF CancelSaveRun, CancelGetRun, SettledInv, Settled
<1>5. ASSUME NEW r \in Runs, CancelSaveJob(r) PROVE JobsOpen'
  <2>1. \A q \in Runs : /\ cancel'[q].job = cancel[q].job
                        /\ jobs'[q] = IF q = r THEN cancel[r].job ELSE jobs[q]
      BY <1>5 DEF CancelSaveJob, Types, CancelRec
  <2> QED
      BY <2>1 DEF SettledInv, Settled
<1>6. ASSUME NEW w \in Workers, WorkerSavesJob(w) PROVE JobsOpen'
  <2>1. \A r \in Runs : jobs'[r] = IF r = RunOf(w) THEN work[w].job ELSE jobs[r]
      BY <1>6 DEF WorkerSavesJob, Types
  <2>2. CASE Settled(work[w].job)
    <3>1. work[w].pc \in {"done_job", "dead_job", "cancel_job"}
        BY <1>6, <2>2, SavesJobTable DEF SettledInv, WorkersSound, WorkerSound, LiveAt, WorkerSavesJob
    <3>2. Holds(w)
        BY <3>1 DEF Holds
    <3>3. ~Alive(RunOf(w))
        BY <3>1, <3>2 DEF Alive, OneToken, LiveAt, Holds
    <3> QED
        BY <1>6, <2>1, <3>3 DEF WorkerSavesJob, SettledInv, Settled
  <2>3. CASE ~Settled(work[w].job)
      BY <1>6, <2>1, <2>3 DEF WorkerSavesJob, SettledInv, Settled
  <2> QED
      BY <2>2, <2>3
<1>7. ASSUME NEW r \in Runs,
             \/ SubmitAsync(r) \/ SubmitEnqueue(r) \/ SubmitSaveRun(r) \/ SubmitSync(r)
             \/ SyncReturns(r) \/ SubmitAborts(r)
      PROVE  UNCHANGED <<jobs, cancel>>
    BY <1>7 DEF SubmitAsync, SubmitEnqueue, SubmitSaveRun, SubmitSync, SyncReturns, SubmitAborts
<1>8. ASSUME NEW w \in Workers,
             \/ Take(w) \/ GetJob(w) \/ GetRun(w) \/ WorkerSavesRun(w) \/ StartExecution(w)
             \/ TimesOut(w) \/ JoinSucceeded(w) \/ GetCompletedJob(w) \/ JoinFailed(w)
             \/ RetryEnqueue(w) \/ WorkerDies(w)
      PROVE  UNCHANGED <<jobs, cancel>>
    BY <1>8 DEF Take, GetJob, GetRun, WorkerSavesRun, StartExecution, TimesOut, JoinSucceeded,
                GetCompletedJob, JoinFailed, RetryEnqueue, WorkerDies
<1>9. ASSUME NEW p \in Procs, ThreadSteps(p) \/ Raises(p) PROVE UNCHANGED <<jobs, cancel>>
    BY <1>9 DEF ThreadSteps, ExecuteRun, ProgressReads, ProgressSaves, BootstrapReturns, SaveTrip,
                SaveSuccess, Raises
<1>10. CASE UNCHANGED vars
    BY <1>0, <1>10 DEF vars
<1> QED
    BY <1>0, <1>1, <1>2, <1>3, <1>4, <1>5, <1>6, <1>7, <1>8, <1>9, <1>10
    DEF Next, SubmitSteps, CancelSteps, WorkerSteps, RerunRun

\* A row is saved as it was read, or changed soundly by a worker that
\* knows it open; an execution that begins only adds to the count.
LEMMA JobsSoundStep ==
    ASSUME Types, Types', SettledInv, [Next]_vars
    PROVE  JobsSound'
<1> USE RunOfTypes, RunsAndWorkers DEF JobsSound
<1>0. ASSUME UNCHANGED <<jobs, cancel, attempts>> PROVE JobsSound'
    BY <1>0 DEF SettledInv, Sound
<1>1. ASSUME NEW r \in Runs, SubmitSaveJob(r) PROVE JobsSound'
  <2>1. /\ submit[r].run.qid \in AnyId /\ submit[r].run.qid <= MaxRetries
        /\ jobs'[r] = [BuildJob EXCEPT !.qid = submit[r].run.qid]
        /\ \A q \in Runs : q # r => jobs'[q] = jobs[q]
      BY <1>1, RowTypes DEF SubmitSaveJob, Types, SubmitRec, SettledInv, RunsSound
  <2>2. \A n \in Nat : Sound(jobs'[r], n)
      BY <2>1, SoundRows
  <2> QED
      BY <1>1, <2>1, <2>2 DEF SubmitSaveJob, SettledInv, Types, history
<1>2. ASSUME NEW r \in Runs, CancelRun(r) \/ CancelStop(r) \/ CancelAborts(r) PROVE JobsSound'
  <2>1. cancel'[r].job = NoJob /\ \A q \in Runs : q # r => cancel'[q] = cancel[q]
    <3>1. CASE CancelRun(r)
        BY <3>1 DEF CancelRun, NoCancel, Types
    <3>2. CASE CancelStop(r)
        BY <3>2 DEF CancelStop, Cancelled, NoCancel, Types
    <3>3. CASE CancelAborts(r)
        BY <3>3 DEF CancelAborts, Cancelled, NoCancel, Types
    <3> QED
        BY <1>2, <3>1, <3>2, <3>3
  <2>2. Sound(cancel'[r].job, attempts[r])
      BY <2>1, SoundRows DEF Types
  <2> QED
      BY <1>2, <2>1, <2>2 DEF CancelRun, CancelStop, CancelAborts, SettledInv, history
<1>3. ASSUME NEW r \in Runs, CancelJob(r) \/ CancelGetJob(r) PROVE JobsSound'
  <2>1. /\ cancel'[r].job \in {NoJob, Flagged(jobs[r])}
        /\ \A q \in Runs : q # r => cancel'[q] = cancel[q]
    <3>1. CASE CancelJob(r)
        BY <3>1 DEF CancelJob, NoCancel, Types
    <3>2. CASE CancelGetJob(r)
        BY <3>2 DEF CancelGetJob, Cancelled, NoCancel, Types, CancelRec
    <3> QED
        BY <1>3, <3>1, <3>2
  <2>2. jobs[r] \in AnyJob /\ attempts[r] \in Nat /\ Sound(jobs[r], attempts[r])
      BY DEF Types, SettledInv
  <2>3. Sound(NoJob, attempts[r]) /\ Sound(Flagged(jobs[r]), attempts[r])
      BY <2>2, SoundRows
  <2>4. Sound(cancel'[r].job, attempts[r])
      BY <2>1, <2>3
  <2> QED
      BY <1>3, <2>1, <2>4 DEF CancelJob, CancelGetJob, SettledInv, history
<1>4. ASSUME NEW r \in Runs, CancelSaveRun(r) \/ CancelGetRun(r) PROVE JobsSound'
  <2>1. \A q \in Runs : cancel'[q].job = cancel[q].job
    <3>1. CASE CancelSaveRun(r)
        BY <3>1 DEF CancelSaveRun, Types, CancelRec
    <3>2. CASE CancelGetRun(r)
        BY <3>2 DEF CancelGetRun, Types, CancelRec
    <3> QED
        BY <1>4, <3>1, <3>2
  <2> QED
      BY <1>4, <2>1 DEF CancelSaveRun, CancelGetRun, SettledInv, history
<1>5. ASSUME NEW r \in Runs, CancelSaveJob(r) PROVE JobsSound'
  <2>1. \A q \in Runs : /\ cancel'[q].job = cancel[q].job
                        /\ jobs'[q] = IF q = r THEN cancel[r].job ELSE jobs[q]
      BY <1>5 DEF CancelSaveJob, Types, CancelRec
  <2> QED
      BY <1>5, <2>1 DEF CancelSaveJob, SettledInv
<1>6. ASSUME NEW w \in Workers, WorkerSavesJob(w) PROVE JobsSound'
  <2>1. \A r \in Runs : jobs'[r] = IF r = RunOf(w) THEN work[w].job ELSE jobs[r]
      BY <1>6 DEF WorkerSavesJob, Types
  <2> QED
      BY <1>6, <2>1 DEF WorkerSavesJob, SettledInv, WorkersSound, WorkerSound, history
<1>7. ASSUME NEW w \in Workers, StartExecution(w) PROVE JobsSound'
  <2>1. \A r \in Runs : attempts[r] \in Nat /\ attempts'[r] \in {attempts[r], attempts[r] + 1}
      BY <1>7 DEF StartExecution, Types
  <2> QED
      BY <1>7, <2>1, SoundRows DEF StartExecution, SettledInv, Types, CancelRec
<1>8. ASSUME NEW r \in Runs,
             \/ SubmitAsync(r) \/ SubmitEnqueue(r) \/ SubmitSaveRun(r) \/ SubmitSync(r)
             \/ SyncReturns(r) \/ SubmitAborts(r)
      PROVE  UNCHANGED <<jobs, cancel, attempts>>
    BY <1>8 DEF SubmitAsync, SubmitEnqueue, SubmitSaveRun, SubmitSync, SyncReturns, SubmitAborts,
                history
<1>9. ASSUME NEW w \in Workers,
             \/ Take(w) \/ GetJob(w) \/ GetRun(w) \/ WorkerSavesRun(w) \/ TimesOut(w)
             \/ JoinSucceeded(w) \/ GetCompletedJob(w) \/ JoinFailed(w) \/ RetryEnqueue(w)
             \/ WorkerDies(w)
      PROVE  UNCHANGED <<jobs, cancel, attempts>>
    BY <1>9 DEF Take, GetJob, GetRun, WorkerSavesRun, TimesOut, JoinSucceeded, GetCompletedJob,
                JoinFailed, RetryEnqueue, WorkerDies, history
<1>10. ASSUME NEW p \in Procs, ThreadSteps(p) \/ Raises(p)
       PROVE  UNCHANGED <<jobs, cancel, attempts>>
    BY <1>10 DEF ThreadSteps, ExecuteRun, ProgressReads, ProgressSaves, BootstrapReturns, SaveTrip,
                 SaveSuccess, Raises, history
<1>11. CASE UNCHANGED vars
    BY <1>0, <1>11 DEF vars
<1> QED
    BY <1>0, <1>1, <1>2, <1>3, <1>4, <1>5, <1>6, <1>7, <1>8, <1>9, <1>10, <1>11
    DEF Next, SubmitSteps, CancelSteps, WorkerSteps, RerunRun

\* A message carries a count that is not spent, and so does every queue_job_id:
\* a job is requeued only while it is open.
LEMMA MessagesSoundStep ==
    ASSUME Types, Types', SettledInv, [Next]_vars
    PROVE  MessagesSound'
<1> USE RunOfTypes, RunsAndWorkers, Bounds DEF MessagesSound
<1>0. ASSUME queue' \subseteq queue PROVE MessagesSound'
    BY <1>0 DEF SettledInv
<1>1. ASSUME NEW r \in Runs, SubmitEnqueue(r) PROVE MessagesSound'
    BY <1>1, LiteralTypes DEF SubmitEnqueue, SettledInv
<1>2. ASSUME NEW w \in Workers, RetryEnqueue(w) PROVE MessagesSound'
  <2>1. work[w].job.retries <= MaxRetries
    <3>1. ~Settled(work[w].job) /\ Sound(work[w].job, attempts[RunOf(w)])
        BY <1>2 DEF RetryEnqueue, At, SettledInv, WorkersSound, WorkerSound, LiveAt
    <3>2. work[w].job.retries \in Nat
        BY RowTypes DEF Types, WorkRec
    <3> QED
        BY <3>1, <3>2 DEF Sound, Settled
  <2> QED
      BY <1>2, <2>1 DEF RetryEnqueue, SettledInv
<1>3. ASSUME NEW r \in Runs,
             \/ SubmitAsync(r) \/ SubmitSaveJob(r) \/ SubmitSaveRun(r) \/ SubmitSync(r)
             \/ SyncReturns(r) \/ SubmitAborts(r) \/ CancelRun(r) \/ CancelJob(r)
             \/ CancelSteps(r) \/ CancelAborts(r)
      PROVE  queue' \subseteq queue
    BY <1>3 DEF SubmitAsync, SubmitSaveJob, SubmitSaveRun, SubmitSync, SyncReturns, SubmitAborts,
                CancelRun, CancelJob, CancelSteps, CancelSaveRun, CancelGetJob, CancelSaveJob,
                CancelGetRun, CancelStop, CancelAborts
<1>4. ASSUME NEW w \in Workers,
             \/ Take(w) \/ GetJob(w) \/ GetRun(w) \/ WorkerSavesJob(w) \/ WorkerSavesRun(w)
             \/ StartExecution(w) \/ TimesOut(w) \/ JoinSucceeded(w) \/ GetCompletedJob(w)
             \/ JoinFailed(w) \/ WorkerDies(w)
      PROVE  queue' \subseteq queue
    BY <1>4 DEF Take, GetJob, GetRun, WorkerSavesJob, WorkerSavesRun, StartExecution, TimesOut,
                JoinSucceeded, GetCompletedJob, JoinFailed, WorkerDies
<1>5. ASSUME NEW p \in Procs, ThreadSteps(p) \/ Raises(p) PROVE queue' \subseteq queue
    BY <1>5 DEF ThreadSteps, ExecuteRun, ProgressReads, ProgressSaves, BootstrapReturns, SaveTrip,
                SaveSuccess, Raises
<1>6. CASE UNCHANGED vars
    BY <1>0, <1>6 DEF vars
<1> QED
    BY <1>0, <1>1, <1>2, <1>3, <1>4, <1>5, <1>6
    DEF Next, SubmitSteps, WorkerSteps, RerunRun

\* Moving an execution on, or saving the run a cancellation read, keeps the copies.
LEMMA ThreadGotoEffect ==
    ASSUME Types, NEW p \in Procs, NEW pc, ThreadGoto(p, pc)
    PROVE  \A q \in Procs : /\ thread'[q].run = thread[q].run
                            /\ thread'[q].latest = thread[q].latest
                            /\ thread'[q].pc = IF q = p THEN pc ELSE thread[q].pc
BY DEF Types, ThreadGoto, ThreadRec

\* Saving the run of a cancellation overwrites one row and keeps its copies.
LEMMA CancelSaveRunEffect ==
    ASSUME Types, NEW r \in Runs, CancelSaveRun(r)
    PROVE  /\ \A q \in Runs : cancel'[q].run = cancel[q].run /\ cancel'[q].job = cancel[q].job
           /\ \A q \in Runs : runs'[q] = IF q = r THEN cancel[r].run ELSE runs[q]
BY DEF Types, CancelSaveRun, CancelRec

\* Every queue_job_id that is written was read from a row or is the count of a
\* job that is open.
LEMMA RunsSoundStep ==
    ASSUME Types, Types', SettledInv, [Next]_vars
    PROVE  RunsSound'
<1> USE RunOfTypes, RunsAndWorkers, Bounds, SoundRows DEF RunsSound, SettledInv
<1>0. ASSUME UNCHANGED <<runs, submit, cancel>> PROVE RunsSound'
    BY <1>0
<1>1. ASSUME NEW r \in Runs, NEW st \in {"QUEUED", "PENDING"}, NEW pc,
             runs' = [runs EXCEPT ![r] = BuildRun(st)], UNCHANGED cancel,
             submit' = [submit EXCEPT ![r] = [pc |-> pc, run |-> BuildRun(st)]]
      PROVE  RunsSound'
    BY <1>1 DEF Types
<1>2. ASSUME NEW r \in Runs, SubmitAsync(r) \/ SubmitSync(r) PROVE RunsSound'
    BY <1>1, <1>2 DEF SubmitAsync, SubmitSync
<1>3. ASSUME NEW r \in Runs, SubmitEnqueue(r) PROVE RunsSound'
  <2>1. [submit[r].run EXCEPT !.qid = 0].qid = 0
      BY DEF Types, SubmitRec, AnyRun
  <2> QED
      BY <1>3, <2>1, LiteralTypes DEF SubmitEnqueue, Types
<1>4. ASSUME NEW r \in Runs, SubmitSaveJob(r) PROVE RunsSound'
    BY <1>4 DEF SubmitSaveJob, Types, SubmitRec
<1>5. ASSUME NEW r \in Runs, SubmitSaveRun(r) PROVE RunsSound'
    BY <1>5 DEF SubmitSaveRun, Types, Answered
<1>6. ASSUME NEW r \in Runs, SyncReturns(r) \/ SubmitAborts(r) PROVE RunsSound'
  <2>1. submit'[r].run = NoRun /\ \A q \in Runs : q # r => submit'[q] = submit[q]
    <3>1. CASE SyncReturns(r)
        BY <3>1 DEF SyncReturns, Types, Answered
    <3>2. CASE SubmitAborts(r)
        BY <3>2 DEF SubmitAborts, Types, Answered
    <3> QED
        BY <1>6, <3>1, <3>2
  <2> QED
      BY <1>6, <2>1 DEF SyncReturns, SubmitAborts
<1>7. ASSUME NEW r \in Runs, CancelRun(r) PROVE RunsSound'
    BY <1>7 DEF CancelRun, Types, NoCancel
<1>8. ASSUME NEW r \in Runs, CancelJob(r) PROVE RunsSound'
    BY <1>8 DEF CancelJob, Types, NoCancel
<1>9. ASSUME NEW r \in Runs, CancelSaveRun(r) PROVE RunsSound'
  <2>1. /\ \A q \in Runs : cancel'[q].run = cancel[q].run
        /\ \A q \in Runs : runs'[q] = IF q = r THEN cancel[r].run ELSE runs[q]
      BY <1>9, CancelSaveRunEffect
  <2> QED
      BY <1>9, <2>1 DEF CancelSaveRun
<1>10. ASSUME NEW r \in Runs, CancelGetJob(r) PROVE RunsSound'
    BY <1>10 DEF CancelGetJob, Types, CancelRec, Cancelled, NoCancel
<1>11. ASSUME NEW r \in Runs, CancelSaveJob(r) PROVE RunsSound'
    BY <1>11 DEF CancelSaveJob, Types, CancelRec
<1>12. ASSUME NEW r \in Runs, CancelGetRun(r) PROVE RunsSound'
    BY <1>12 DEF CancelGetRun, Types, CancelRec
<1>13. ASSUME NEW r \in Runs, CancelStop(r) PROVE RunsSound'
    BY <1>13 DEF CancelStop, Types, Cancelled, NoCancel
<1>14. ASSUME NEW r \in Runs, CancelAborts(r) PROVE RunsSound'
    BY <1>14 DEF CancelAborts, Types, Cancelled, NoCancel
<1>15. ASSUME NEW w \in Workers, WorkerSavesRun(w) \/ StartExecution(w) PROVE RunsSound'
  <2>1. runs' = [runs EXCEPT ![RunOf(w)] = work[w].run] /\ UNCHANGED <<submit, cancel>>
      BY <1>15 DEF WorkerSavesRun, StartExecution
  <2> QED
      BY <2>1 DEF Types, WorkersSound, WorkerSound
<1>16. ASSUME NEW p \in Procs, ProgressSaves(p) PROVE RunsSound'
    BY <1>16 DEF ProgressSaves, Types, ThreadsSound
<1>17. ASSUME NEW p \in Procs, SaveSuccess(p) PROVE RunsSound'
  <2>1. [thread[p].run EXCEPT !.status = "SUCCEEDED"].qid = thread[p].run.qid
      BY DEF Types, ThreadRec, AnyRun
  <2> QED
      BY <1>17, <2>1 DEF SaveSuccess, Types, ThreadsSound
<1>18. ASSUME NEW w \in Workers,
              \/ Take(w) \/ GetJob(w) \/ GetRun(w) \/ WorkerSavesJob(w) \/ TimesOut(w)
              \/ JoinSucceeded(w) \/ GetCompletedJob(w) \/ JoinFailed(w) \/ RetryEnqueue(w)
              \/ WorkerDies(w)
       PROVE  UNCHANGED <<runs, submit, cancel>>
    BY <1>18 DEF Take, GetJob, GetRun, WorkerSavesJob, TimesOut, JoinSucceeded, GetCompletedJob,
                 JoinFailed, RetryEnqueue, WorkerDies
<1>19. ASSUME NEW p \in Procs,
              ExecuteRun(p) \/ ProgressReads(p) \/ BootstrapReturns(p) \/ SaveTrip(p) \/ Raises(p)
       PROVE  UNCHANGED <<runs, submit, cancel>>
    BY <1>19 DEF ExecuteRun, ProgressReads, BootstrapReturns, SaveTrip, Raises
<1>20. CASE UNCHANGED vars
    BY <1>0, <1>20 DEF vars
<1> QED
    BY <1>0, <1>2, <1>3, <1>4, <1>5, <1>6, <1>7, <1>8, <1>9, <1>10, <1>11, <1>12, <1>13, <1>14,
       <1>15, <1>16, <1>17, <1>18, <1>19, <1>20
    DEF Next, SubmitSteps, CancelSteps, WorkerSteps, ThreadSteps, RerunRun

\* The copies of the run row that an execution carries.
LEMMA ThreadsSoundStep ==
    ASSUME Types, Types', SettledInv, [Next]_vars
    PROVE  ThreadsSound'
<1> USE RunOfTypes, RunsAndWorkers, Bounds, SoundRows DEF ThreadsSound, SettledInv
<1>0. ASSUME UNCHANGED thread PROVE ThreadsSound'
    BY <1>0
<1>1. ASSUME NEW killed,
             thread' = [p \in Procs |-> IF p \in killed THEN NoThread ELSE thread[p]]
      PROVE  ThreadsSound'
    BY <1>1 DEF NoThread
<1>2. ASSUME NEW p \in Procs, thread' = [thread EXCEPT ![p] = NoThread] PROVE ThreadsSound'
    BY <1>2 DEF NoThread, Types
<1>3. ASSUME NEW p \in Procs, thread' = [thread EXCEPT ![p] = Begun] PROVE ThreadsSound'
    BY <1>3 DEF Begun, NoThread, Types
<1>4. ASSUME NEW p \in Procs, NEW pc, ThreadGoto(p, pc) PROVE ThreadsSound'
    BY <1>4, ThreadGotoEffect
<1>5. ASSUME NEW p \in Procs, ExecuteRun(p) PROVE ThreadsSound'
  <2>1. /\ \A q \in Procs : q # p => thread'[q] = thread[q]
        /\ thread'[p].latest = thread[p].latest
        /\ thread'[p].run \in {thread[p].run, runs[RunOf(p)]}
      BY <1>5 DEF ExecuteRun, Types, ThreadRec
  <2> QED
      BY <2>1 DEF RunsSound
<1>6. ASSUME NEW p \in Procs, ProgressReads(p) PROVE ThreadsSound'
  <2>1. /\ \A q \in Procs : q # p => thread'[q] = thread[q]
        /\ thread'[p].run = thread[p].run
        /\ thread'[p].latest \in {thread[p].latest, runs[RunOf(p)]}
      BY <1>6 DEF ProgressReads, Types, ThreadRec
  <2> QED
      BY <2>1 DEF RunsSound
<1>7. ASSUME NEW p \in Procs, ProgressSaves(p) PROVE ThreadsSound'
    BY <1>7 DEF ProgressSaves, Types, ThreadRec
<1>8. ASSUME NEW r \in Runs,
             \/ SubmitAsync(r) \/ SubmitEnqueue(r) \/ SubmitSaveJob(r) \/ SubmitSaveRun(r)
             \/ SubmitAborts(r) \/ CancelRun(r) \/ CancelJob(r) \/ CancelSaveRun(r)
             \/ CancelGetJob(r) \/ CancelSaveJob(r) \/ CancelGetRun(r) \/ CancelAborts(r)
      PROVE  UNCHANGED thread
    BY <1>8 DEF SubmitAsync, SubmitEnqueue, SubmitSaveJob, SubmitSaveRun, SubmitAborts, CancelRun,
                CancelJob, CancelSaveRun, CancelGetJob, CancelSaveJob, CancelGetRun, CancelAborts
<1>9. ASSUME NEW w \in Workers,
             \/ Take(w) \/ GetJob(w) \/ GetRun(w) \/ WorkerSavesJob(w) \/ WorkerSavesRun(w)
             \/ TimesOut(w) \/ GetCompletedJob(w) \/ RetryEnqueue(w)
      PROVE  UNCHANGED thread
    BY <1>9 DEF Take, GetJob, GetRun, WorkerSavesJob, WorkerSavesRun, TimesOut, GetCompletedJob,
                RetryEnqueue
<1>10. ASSUME NEW r \in Runs, SubmitSync(r) PROVE ThreadsSound'
    BY <1>3, <1>10 DEF SubmitSync
<1>11. ASSUME NEW r \in Runs, SyncReturns(r) PROVE ThreadsSound'
    BY <1>2, <1>11 DEF SyncReturns
<1>12. ASSUME NEW r \in Runs, CancelStop(r) PROVE ThreadsSound'
    BY <1>1, <1>12 DEF CancelStop
<1>13. ASSUME NEW w \in Workers, StartExecution(w) PROVE ThreadsSound'
    BY <1>3, <1>13 DEF StartExecution
<1>14. ASSUME NEW w \in Workers, JoinSucceeded(w) \/ JoinFailed(w) \/ WorkerDies(w)
       PROVE  ThreadsSound'
    BY <1>2, <1>14 DEF JoinSucceeded, JoinFailed, WorkerDies
<1>15. ASSUME NEW p \in Procs, BootstrapReturns(p) \/ SaveTrip(p) \/ SaveSuccess(p) \/ Raises(p)
       PROVE  ThreadsSound'
    BY <1>4, <1>15 DEF BootstrapReturns, SaveTrip, SaveSuccess, Raises
<1>16. CASE UNCHANGED vars
    BY <1>0, <1>16 DEF vars
<1> QED
    BY <1>0, <1>5, <1>6, <1>7, <1>8, <1>9, <1>10, <1>11, <1>12, <1>13, <1>14, <1>15, <1>16
    DEF Next, SubmitSteps, CancelSteps, WorkerSteps, ThreadSteps, RerunRun

\* A worker that does nothing stays sound, also when another execution begins.
LEMMA IdleSound ==
    ASSUME Types, Types', NEW v \in Workers, WorkerSound(v), work'[v] = work[v],
           \A r \in Runs : attempts'[r] \in {attempts[r], attempts[r] + 1}
    PROVE  WorkerSound(v)'
<1> USE RunOfTypes, RunsAndWorkers
<1>1. RunOf(v)' = RunOf(v) /\ RunOf(v) \in Runs
    BY DEF RunOf
<1>2. work[v].job \in AnyJob /\ work[v].job.retries \in Nat /\ attempts[RunOf(v)] \in Nat
    BY RowTypes DEF Types, WorkRec
<1>3. Sound(work[v].job, attempts'[RunOf(v)])
    BY <1>1, <1>2, SoundRows DEF WorkerSound
<1> QED
    BY <1>1, <1>2, <1>3 DEF WorkerSound

\* A worker that went idle is sound: it has nothing in hand.
LEMMA RetiredSound ==
    ASSUME Types, Types', NEW w \in Workers, work'[w] = IdleWorker
    PROVE  WorkerSound(w)'
<1> USE RunOfTypes, RunsAndWorkers, Bounds, SoundRows
<1>1. /\ work'[w].pc = "idle" /\ work'[w].run = NoRun /\ work'[w].job = NoJob
      /\ work'[w].msg.attempt = 0
    BY DEF IdleWorker
<1>2. attempts'[RunOf(w)'] \in Nat
    BY DEF Types, RunOf, WorkRec, AnyMessage
<1> QED
    BY <1>1, <1>2 DEF WorkerSound, LiveAt

\* A worker reads sound rows and changes them soundly; the count it adds on
\* failure is that of the execution it waited for.
LEMMA WorkersSoundStep ==
    ASSUME Types, Types', SettledInv, [Next]_vars
    PROVE  WorkersSound'
<1> USE RunOfTypes, RunsAndWorkers, Bounds DEF WorkersSound
<1>a. \A v \in Workers : WorkerSound(v)
    BY DEF SettledInv
<1>b. \A r \in Runs : attempts[r] \in Nat /\ jobs[r] \in AnyJob /\ runs[r] \in AnyRun
                      /\ Sound(jobs[r], attempts[r]) /\ runs[r].qid <= MaxRetries
    BY DEF Types, SettledInv, JobsSound, RunsSound
<1>c. \A v \in Workers : /\ work[v].job \in AnyJob /\ work[v].run \in AnyRun
                         /\ work[v].job.retries \in Nat
    BY RowTypes DEF Types, WorkRec
<1>0. ASSUME UNCHANGED <<work, attempts>> PROVE WorkersSound'
    BY <1>0, <1>a, IdleSound
<1>1. ASSUME NEW w \in Workers, Take(w) PROVE WorkersSound'
  <2>1. PICK m \in queue : work' = [work EXCEPT ![w] = [IdleWorker EXCEPT !.pc = "get_job", !.msg = m]]
      BY <1>1 DEF Take
  <2>2. /\ work'[w].pc = "get_job" /\ work'[w].msg = m /\ work'[w].run = NoRun
        /\ work'[w].job = NoJob /\ \A v \in Workers : v # w => work'[v] = work[v]
      BY <2>1 DEF Types, WorkRec, IdleWorker
  <2>3. UNCHANGED attempts /\ m.attempt <= MaxRetries
      BY <1>1 DEF Take, history, SettledInv, MessagesSound
  <2>4. RunOf(w)' \in Runs
      BY <2>2 DEF RunOf, Types, WorkRec, AnyMessage
  <2>5. WorkerSound(w)'
      BY <2>2, <2>3, <2>4, <1>b, SoundRows DEF WorkerSound
  <2> QED
      BY <2>2, <2>3, <2>5, <1>a, IdleSound
<1>2. ASSUME NEW w \in Workers, NEW pc, NEW run \in AnyRun, NEW job \in AnyJob,
             Carry(w, pc, run, job), UNCHANGED attempts,
             run.qid <= MaxRetries, Sound(job, attempts[RunOf(w)]),
             pc \in (LiveAt \ {"get_job"}) \cup {"requeued_job"} => ~Settled(job),
             pc \in {"start_job", "start_run", "wait"} => ~run.cancelled,
             pc = "wait" => job.retries < attempts[RunOf(w)]
      PROVE  WorkersSound'
  <2>1. /\ \A v \in Workers : v # w => work'[v] = work[v]
        /\ work'[w].pc = pc /\ work'[w].run = run /\ work'[w].job = job
        /\ work'[w].msg = work[w].msg
      BY <1>2, CarryEffect
  <2>2. RunOf(w)' = RunOf(w)
      BY <2>1 DEF RunOf
  <2>3. WorkerSound(w)'
      BY <1>2, <1>a, <2>1, <2>2 DEF WorkerSound
  <2> QED
      BY <1>2, <1>a, <2>1, <2>3, IdleSound
<1>3. ASSUME NEW w \in Workers, Retire(w), UNCHANGED attempts PROVE WorkersSound'
    BY <1>3, <1>a, RetireEffect, RetiredSound, IdleSound
<1>4. ASSUME NEW w \in Workers, NEW pc, Goto(w, pc),
             \A r \in Runs : attempts'[r] \in {attempts[r], attempts[r] + 1},
             pc \in (LiveAt \ {"get_job"}) \cup {"requeued_job"} => ~Settled(work[w].job),
             pc \in {"start_job", "start_run", "wait"} => ~work[w].run.cancelled,
             pc = "wait" => work[w].job.retries < attempts'[RunOf(w)]
      PROVE  WorkersSound'
  <2>1. /\ \A v \in Workers : v # w => work'[v] = work[v]
        /\ work'[w].pc = pc /\ work'[w].run = work[w].run /\ work'[w].job = work[w].job
        /\ work'[w].msg = work[w].msg
      BY <1>4, GotoEffect
  <2>2. RunOf(w)' = RunOf(w) /\ Sound(work[w].job, attempts'[RunOf(w)])
      BY <1>4, <1>a, <1>b, <1>c, <2>1, SoundRows DEF RunOf, WorkerSound
  <2>3. WorkerSound(w)'
      BY <1>4, <1>a, <2>1, <2>2 DEF WorkerSound
  <2> QED
      BY <1>4, <1>a, <2>1, <2>3, IdleSound
<1>5. ASSUME NEW w \in Workers, GetJob(w) PROVE WorkersSound'
  <2>1. ~Settled(jobs[RunOf(w)])
      BY <1>5 DEF GetJob, At, SettledInv, JobsOpen, Alive, LiveAt
  <2> QED
      BY <1>2, <1>5, <1>a, <1>b, <1>c, <2>1 DEF GetJob, history, WorkerSound
<1>6. ASSUME NEW w \in Workers, GetRun(w) PROVE WorkersSound'
  <2> DEFINE run == runs[RunOf(w)]
             job == work[w].job
  <2>1. ~Settled(job) /\ Sound(job, attempts[RunOf(w)])
      BY <1>6, <1>a DEF GetRun, At, WorkerSound, LiveAt
  <2>2. \A st \in {"RUNNING", "CANCELLED"} :
           /\ [run EXCEPT !.status = st] \in AnyRun
           /\ [job EXCEPT !.status = st] \in AnyJob
           /\ [run EXCEPT !.status = st].qid <= MaxRetries
           /\ [run EXCEPT !.status = st].cancelled = run.cancelled
           /\ Sound([job EXCEPT !.status = st], attempts[RunOf(w)])
           /\ ~Settled([job EXCEPT !.status = st])
    <3>1. \A st \in {"RUNNING", "CANCELLED"} :
             [run EXCEPT !.status = st].qid = run.qid /\ [job EXCEPT !.status = st].status = st
             /\ [run EXCEPT !.status = st].cancelled = run.cancelled
        BY <1>b, <1>c DEF AnyRun, AnyJob
    <3>2. \A st \in {"RUNNING", "CANCELLED"} : Sound([job EXCEPT !.status = st], attempts[RunOf(w)])
        BY <2>1, <1>b, <1>c, SoundRows
    <3> QED
        BY <1>b, <1>c, <3>1, <3>2, RowTypes DEF WorkflowRunStatus, Settled
  <2>3. UNCHANGED attempts
      BY <1>6 DEF GetRun, history
  <2>4. CASE Retire(w)
      BY <1>3, <2>3, <2>4
  <2>5. CASE Carry(w, "cancel_run", [run EXCEPT !.status = "CANCELLED"],
                   [job EXCEPT !.status = "CANCELLED"])
    <3>1. "CANCELLED" \in {"RUNNING", "CANCELLED"}
          /\ "cancel_run" \notin LiveAt \cup {"requeued_job", "start_job", "start_run", "wait"}
        BY DEF LiveAt
    <3> HIDE DEF run, job
    <3> QED
        BY <1>2, <2>2, <2>3, <2>5, <3>1
  <2>6. CASE ~run.cancelled /\ Carry(w, "start_job", [run EXCEPT !.status = "RUNNING"],
                                     [job EXCEPT !.status = "RUNNING"])
      BY <1>2, <2>2, <2>3, <2>6 DEF LiveAt
  <2> QED
      BY <1>6, <2>4, <2>5, <2>6 DEF GetRun
<1>7. ASSUME NEW w \in Workers, WorkerSavesJob(w) PROVE WorkersSound'
  <2>1. UNCHANGED attempts
      BY <1>7 DEF WorkerSavesJob, history
  <2>2. CASE Retire(w)
      BY <1>3, <2>1, <2>2
  <2>3. CASE Goto(w, SavesJob[work[w].pc])
    <3>1. /\ SavesJob[work[w].pc] \in {"start_run", "retry_run", "requeued_run", "dead_run", "idle"}
          /\ SavesJob[work[w].pc] = "start_run" => work[w].pc = "start_job"
          /\ SavesJob[work[w].pc] = "retry_run" => work[w].pc = "retry_job"
        BY <1>7, SavesJobTable DEF WorkerSavesJob
    <3>2. /\ SavesJob[work[w].pc] \in (LiveAt \ {"get_job"}) \cup {"requeued_job"} => ~Settled(work[w].job)
          /\ SavesJob[work[w].pc] \in {"start_job", "start_run", "wait"} => ~work[w].run.cancelled
          /\ SavesJob[work[w].pc] # "wait"
        BY <3>1, <1>a DEF WorkerSound, LiveAt
    <3> QED
        BY <1>4, <2>1, <2>3, <3>2, <1>b
  <2> QED
      BY <1>7, <2>2, <2>3 DEF WorkerSavesJob
<1>8. ASSUME NEW w \in Workers, WorkerSavesRun(w) PROVE WorkersSound'
  <2>1. UNCHANGED attempts
      BY <1>8 DEF WorkerSavesRun, history
  <2>2. CASE Retire(w)
      BY <1>3, <2>1, <2>2
  <2>3. CASE Goto(w, SavesRun[work[w].pc])
    <3>1. /\ SavesRun[work[w].pc] \in {"enqueue", "cancel_job", "idle"}
          /\ SavesRun[work[w].pc] = "enqueue" => work[w].pc = "retry_run"
        BY <1>8, SavesRunTable DEF WorkerSavesRun
    <3>2. /\ SavesRun[work[w].pc] \in (LiveAt \ {"get_job"}) \cup {"requeued_job"} => ~Settled(work[w].job)
          /\ SavesRun[work[w].pc] \notin {"start_job", "start_run", "wait"}
        BY <3>1, <1>a DEF WorkerSound, LiveAt
    <3> QED
        BY <1>4, <2>1, <2>3, <3>2, <1>b
  <2> QED
      BY <1>8, <2>2, <2>3 DEF WorkerSavesRun
<1>9. ASSUME NEW w \in Workers, StartExecution(w) PROVE WorkersSound'
  <2>1. /\ \A r \in Runs : attempts'[r] \in {attempts[r], attempts[r] + 1}
        /\ attempts'[RunOf(w)] = attempts[RunOf(w)] + 1
      BY <1>9 DEF StartExecution, Types
  <2>2. /\ ~Settled(work[w].job) /\ ~work[w].run.cancelled
        /\ work[w].job.retries <= attempts[RunOf(w)]
      BY <1>9, <1>a DEF StartExecution, At, WorkerSound, LiveAt, Sound
  <2>3. work[w].job.retries < attempts'[RunOf(w)]
      BY <2>1, <2>2, <1>b, <1>c
  <2> QED
      BY <1>4, <1>9, <2>1, <2>2, <2>3 DEF StartExecution
<1>10. ASSUME NEW w \in Workers, TimesOut(w) PROVE WorkersSound'
  <2>1. /\ \A v \in Workers : v # w => work'[v] = work[v]
        /\ work'[w].pc = work[w].pc /\ work'[w].run = work[w].run
        /\ work'[w].job = work[w].job /\ work'[w].msg = work[w].msg
      BY <1>10 DEF TimesOut, Types, WorkRec
  <2>2. RunOf(w)' = RunOf(w) /\ UNCHANGED attempts
      BY <1>10, <2>1 DEF RunOf, TimesOut, history
  <2>3. WorkerSound(w)'
      BY <1>a, <2>1, <2>2 DEF WorkerSound
  <2> QED
      BY <1>a, <2>1, <2>2, <2>3, IdleSound
<1>11. ASSUME NEW w \in Workers, JoinSucceeded(w) PROVE WorkersSound'
  <2>1. ~Settled(work[w].job)
      BY <1>11, <1>a DEF JoinSucceeded, At, WorkerSound, LiveAt
  <2> QED
      BY <1>4, <1>11, <2>1, <1>b DEF JoinSucceeded, history
<1>12. ASSUME NEW w \in Workers, GetCompletedJob(w) PROVE WorkersSound'
  <2> DEFINE job == [jobs[RunOf(w)] EXCEPT !.status = "SUCCEEDED"]
  <2>1. ~Settled(jobs[RunOf(w)])
      BY <1>12 DEF GetCompletedJob, At, SettledInv, JobsOpen, Alive, LiveAt
  <2>2. Sound(job, attempts[RunOf(w)]) /\ job \in AnyJob
      BY <2>1, <1>b, SoundRows, RowTypes DEF WorkflowRunStatus
  <2> QED
      BY <1>2, <1>12, <2>2, <1>a, <1>c DEF GetCompletedJob, history, WorkerSound, LiveAt
<1>13. ASSUME NEW w \in Workers, JoinFailed(w) PROVE WorkersSound'
  <2> DEFINE tried == work[w].job.retries + 1
             again == tried <= MaxRetries /\ ~work[w].run.cancelled
             status == IF again THEN "QUEUED" ELSE "DEAD_LETTERED"
             run == [work[w].run EXCEPT !.status = status]
             job == [work[w].job EXCEPT !.status = status, !.retries = tried]
  <2>1. /\ ~Settled(work[w].job) /\ ~work[w].run.cancelled
        /\ Sound(work[w].job, attempts[RunOf(w)]) /\ work[w].run.qid <= MaxRetries
        /\ work[w].job.retries < attempts[RunOf(w)]
      BY <1>13, <1>a DEF JoinFailed, At, WorkerSound, LiveAt
  <2>2. /\ run \in AnyRun /\ job \in AnyJob /\ run.qid = work[w].run.qid
        /\ job.status = status /\ job.retries = tried /\ job.qid = work[w].job.qid
    <3>1. status \in WorkflowRunStatus /\ tried \in Nat
        BY <1>c DEF WorkflowRunStatus
    <3>2. run \in AnyRun /\ job \in AnyJob
        BY <1>c, <3>1, RowTypes
    <3>3. /\ run.qid = work[w].run.qid /\ job.status = status /\ job.retries = tried
          /\ job.qid = work[w].job.qid
        BY <1>c DEF AnyRun, AnyJob
    <3> QED
        BY <3>2, <3>3
  <2>3. work[w].job.retries <= MaxRetries
      BY <2>1, <1>c DEF Sound, Settled
  <2>4. Sound(job, attempts[RunOf(w)])
      BY <2>1, <2>2, <2>3, <1>b, <1>c DEF Sound
  <2>5. again => ~Settled(job)
      BY <2>2 DEF Settled
  <2>6. Carry(w, IF again THEN "retry_job" ELSE "dead_job", run, job) /\ UNCHANGED attempts
      BY <1>13 DEF JoinFailed, history
  <2>7. run.qid <= MaxRetries
      BY <2>1, <2>2
  <2> HIDE DEF again, run, job
  <2>8. CASE again
    <3>1. Carry(w, "retry_job", run, job)
        BY <2>6, <2>8
    <3> QED
        BY <1>2, <2>2, <2>4, <2>5, <2>6, <2>7, <2>8, <3>1
  <2>9. CASE ~again
    <3>1. Carry(w, "dead_job", run, job)
        BY <2>6, <2>9
    <3> QED
        BY <1>2, <2>2, <2>4, <2>6, <2>7, <3>1 DEF LiveAt
  <2> QED
      BY <2>8, <2>9
<1>14. ASSUME NEW w \in Workers, RetryEnqueue(w) PROVE WorkersSound'
  <2> DEFINE attempt == work[w].job.retries
             run == [work[w].run EXCEPT !.qid = attempt]
             job == [work[w].job EXCEPT !.qid = attempt]
  <2>1. ~Settled(work[w].job) /\ Sound(work[w].job, attempts[RunOf(w)])
      BY <1>14, <1>a DEF RetryEnqueue, At, WorkerSound, LiveAt
  <2>2. attempt <= MaxRetries
      BY <2>1, <1>c DEF Sound, Settled
  <2>3. /\ run \in AnyRun /\ run.qid = attempt /\ job \in AnyJob /\ job.qid = attempt
        /\ job.status = work[w].job.status /\ job.retries = work[w].job.retries
      BY <1>c, RowTypes DEF AnyRun, AnyJob, AnyId
  <2>4. Sound(job, attempts[RunOf(w)]) /\ ~Settled(job)
      BY <2>1, <2>2, <2>3 DEF Sound, Settled
  <2>5. Carry(w, "requeued_job", run, job) /\ UNCHANGED attempts
      BY <1>14 DEF RetryEnqueue, history
  <2>6. run.qid <= MaxRetries
      BY <2>2, <2>3
  <2> HIDE DEF run, job
  <2> QED
      BY <1>2, <2>3, <2>4, <2>5, <2>6
<1>15. ASSUME NEW w \in Workers, WorkerDies(w) PROVE WorkersSound'
    BY <1>3, <1>15 DEF WorkerDies, history
<1>16. ASSUME NEW r \in Runs, CancelStop(r) PROVE WorkersSound'
  <2>1. UNCHANGED attempts /\ \A v \in Workers : work'[v] \in {work[v], IdleWorker}
      BY <1>16 DEF CancelStop, history
  <2> QED
      BY <2>1, <1>a, RetiredSound, IdleSound
<1>17. ASSUME NEW r \in Runs,
              \/ SubmitAsync(r) \/ SubmitEnqueue(r) \/ SubmitSaveJob(r) \/ SubmitSaveRun(r)
              \/ SubmitSync(r) \/ SyncReturns(r) \/ SubmitAborts(r) \/ CancelRun(r)
              \/ CancelJob(r) \/ CancelSaveRun(r) \/ CancelGetJob(r) \/ CancelSaveJob(r)
              \/ CancelGetRun(r) \/ CancelAborts(r)
       PROVE  UNCHANGED <<work, attempts>>
    BY <1>17 DEF SubmitAsync, SubmitEnqueue, SubmitSaveJob, SubmitSaveRun, SubmitSync, SyncReturns,
                 SubmitAborts, CancelRun, CancelJob, CancelSaveRun, CancelGetJob, CancelSaveJob,
                 CancelGetRun, CancelAborts, history
<1>18. ASSUME NEW p \in Procs, ThreadSteps(p) \/ Raises(p) PROVE UNCHANGED <<work, attempts>>
    BY <1>18 DEF ThreadSteps, ExecuteRun, ProgressReads, ProgressSaves, BootstrapReturns, SaveTrip,
                 SaveSuccess, Raises, history
<1>19. CASE UNCHANGED vars
    BY <1>0, <1>19 DEF vars
<1> HIDE DEF WorkersSound
<1>20. ASSUME NEW w \in Workers, WorkerSteps(w) \/ TimesOut(w) \/ WorkerDies(w) PROVE WorkersSound'
    BY <1>1, <1>5, <1>6, <1>7, <1>8, <1>9, <1>10, <1>11, <1>12, <1>13, <1>14, <1>15, <1>20
    DEF WorkerSteps
<1>21. ASSUME NEW r \in Runs,
              \/ SubmitAsync(r) \/ SubmitSync(r) \/ SubmitSteps(r) \/ SubmitAborts(r)
              \/ CancelRun(r) \/ CancelJob(r) \/ CancelSteps(r) \/ CancelAborts(r)
              \/ \E original \in Runs : RerunRun(r, original)
       PROVE  WorkersSound'
    BY <1>0, <1>16, <1>17, <1>21 DEF SubmitSteps, CancelSteps, RerunRun
<1>22. ASSUME NEW p \in Procs, ThreadSteps(p) \/ Raises(p) PROVE WorkersSound'
    BY <1>0, <1>18, <1>22
<1>23. CASE Next
    BY <1>20, <1>21, <1>22, <1>23 DEF Next
<1> QED
    BY <1>19, <1>23

\* At first nothing is settled.
LEMMA SettledInit == Init => SettledInv
<1> SUFFICES ASSUME Init PROVE SettledInv
    OBVIOUS
<1> USE Bounds, RunsAndWorkers, SoundRows
<1>1. JobsOpen /\ JobsSound /\ RunsSound
    BY DEF Init, JobsOpen, JobsSound, RunsSound, NoCancel
<1>2. MessagesSound /\ ThreadsSound
    BY DEF Init, MessagesSound, ThreadsSound, NoThread
<1>3. WorkersSound
  <2> SUFFICES ASSUME NEW w \in Workers PROVE WorkerSound(w)
      BY DEF WorkersSound
  <2>1. /\ work[w].pc = "idle" /\ work[w].run = NoRun /\ work[w].job = NoJob
        /\ work[w].msg.attempt = 0 /\ work[w].msg.run \in Runs
      BY DEF Init, IdleWorker
  <2>2. attempts[RunOf(w)] = 0
      BY <2>1 DEF Init, RunOf
  <2> QED
      BY <2>1, <2>2 DEF WorkerSound, LiveAt
<1> QED
    BY <1>1, <1>2, <1>3 DEF SettledInv

\* The counts are kept and a settled job is never open, always.
THEOREM SettledInvariant == Spec => []SettledInv
<1>1. Types /\ Types' /\ OneToken /\ SettledInv /\ [Next]_vars => SettledInv'
    BY JobsOpenStep, JobsSoundStep, RunsSoundStep, MessagesSoundStep, ThreadsSoundStep,
       WorkersSoundStep
    DEF SettledInv
<1> QED
    BY <1>1, SettledInit, TypesInvariant, TokenInvariant, PTL DEF Spec

\* A job that succeeded or was dead-lettered is never executed again: no message
\* of its run waits and no worker has one in hand.
THEOREM SettledJobsAreOverHolds == Spec => []SettledJobsAreOver
<1>1. Types /\ SettledInv => SettledJobsAreOver
    BY RunOfTypes DEF SettledInv, JobsOpen, SettledJobsAreOver, MayStillExecute, InHand, Alive, LiveAt,
                      Settled
<1> QED
    BY <1>1, TypesInvariant, SettledInvariant, PTL

\* A dead letter is reached exactly when the budget of retries is spent, after
\* at least that many executions.
THEOREM DeadLetterAfterRetriesHolds == Spec => []DeadLetterAfterRetries
<1>1. ASSUME Types, SettledInv PROVE DeadLetterAfterRetries
  <2>1. \A r \in Runs : Sound(jobs[r], attempts[r]) /\ attempts[r] \in Nat
      BY <1>1 DEF SettledInv, JobsSound, Types
  <2> QED
      BY <2>1, Bounds DEF DeadLetterAfterRetries, Sound
<1> QED
    BY <1>1, TypesInvariant, SettledInvariant, PTL

\* Every row, copy and message stays within its type, retry counts included.
THEOREM TypeOKHolds == Spec => []TypeOK
<1>1. ASSUME Types, SettledInv PROVE TypeOK
  <2> USE <1>1, Bounds
  <2>1. \A row \in AnyRun : row.qid <= MaxRetries => row \in RunRow
      BY DEF AnyRun, AnyId, RunRow, QueueId, Attempt
  <2>2. \A job \in AnyJob, n \in Nat : Sound(job, n) => job \in JobRow
      BY DEF AnyJob, AnyId, JobRow, QueueId, Attempt, Sound
  <2>3. runs \in [Runs -> RunRow]
      BY <2>1 DEF Types, SettledInv, RunsSound
  <2>4. jobs \in [Runs -> JobRow]
      BY <2>2 DEF Types, SettledInv, JobsSound
  <2>5. queue \subseteq Message
      BY DEF Types, SettledInv, MessagesSound, AnyMessage, Message, Attempt
  <2>6. submit \in [Runs -> [pc: SubmitPc, run: RunRow]]
      BY <2>1 DEF Types, SettledInv, RunsSound, SubmitRec
  <2>7. cancel \in [Runs -> [pc: CancelPc, by: {"run", "job"}, run: RunRow, job: JobRow]]
    <3>1. \A r \in Runs : cancel[r] \in CancelRec /\ cancel[r].run \in RunRow /\ cancel[r].job \in JobRow
        BY <2>1, <2>2 DEF Types, SettledInv, RunsSound, JobsSound, CancelRec
    <3> QED
        BY <3>1 DEF Types, CancelRec
  <2>8. work \in [Workers -> [pc: WorkPc, msg: Message, run: RunRow, job: JobRow,
                              timedOut: BOOLEAN]]
    <3>1. \A w \in Workers : work[w] \in WorkRec /\ RunOf(w) \in Runs /\ WorkerSound(w)
        BY RunOfTypes DEF Types, SettledInv, WorkersSound
    <3>2. \A w \in Workers : work[w].run \in RunRow
        BY <3>1, <2>1 DEF WorkRec, WorkerSound
    <3>3. \A w \in Workers : work[w].job \in JobRow
        BY <3>1, <2>2 DEF WorkRec, WorkerSound, Types
    <3>4. \A w \in Workers : work[w].msg \in Message
        BY <3>1 DEF WorkRec, WorkerSound, AnyMessage, Message, Attempt
    <3> QED
        BY <3>1, <3>2, <3>3, <3>4 DEF WorkRec, Types
  <2>9. thread \in [Procs -> [pc: {"none"} \cup Executing \cup Returned, run: RunRow,
                              latest: RunRow, events: 0 .. MaxEvents]]
    <3>1. \A p \in Procs : thread[p] \in ThreadRec /\ thread[p].run \in RunRow
                           /\ thread[p].latest \in RunRow
        BY <2>1 DEF Types, SettledInv, ThreadsSound, ThreadRec
    <3> QED
        BY <3>1 DEF ThreadRec, Types
  <2>10. WorkPc = {"idle", "get_job", "get_run", "start_run", "wait", "get_done", "enqueue"}
                  \cup DOMAIN SavesJob \cup DOMAIN SavesRun
      BY SavesJobTable, SavesRunTable DEF WorkPc
  <2> QED
      BY <2>3, <2>4, <2>5, <2>6, <2>7, <2>8, <2>9, <2>10 DEF TypeOK, Types, SubmitPc, CancelPc
<1> QED
    BY <1>1, TypesInvariant, SettledInvariant, PTL

-----------------------------------------------------------------------------
(* Success and the trip record: the proof. *)

\* No literal row reports success, and a flag or another number makes none do so.
LEMMA NewRowsReport ==
    /\ NoRun.status # "SUCCEEDED" /\ NoJob.status # "SUCCEEDED"
    /\ BuildRun("QUEUED").status # "SUCCEEDED" /\ BuildRun("PENDING").status # "SUCCEEDED"
    /\ \A q : [BuildJob EXCEPT !.qid = q].status # "SUCCEEDED"
    /\ \A row \in AnyRun : Flagged(row).status = "SUCCEEDED" => row.status = "SUCCEEDED"
    /\ \A job \in AnyJob : Flagged(job).status = "SUCCEEDED" => job.status = "SUCCEEDED"
    /\ \A st : \A row \in AnyRun : [row EXCEPT !.status = st].status = st
    /\ \A q : \A row \in AnyRun : [row EXCEPT !.qid = q].status = row.status
    /\ \A st : \A job \in AnyJob : [job EXCEPT !.status = st].status = st
    /\ \A q : \A job \in AnyJob : [job EXCEPT !.qid = q].status = job.status
    /\ \A st, n : \A job \in AnyJob : [job EXCEPT !.status = st, !.retries = n].status = st
BY DEF NoRun, NoJob, Absent, BuildRun, BuildJob, Flagged, AnyRun, AnyJob

\* Success is copied from row to row; it is first said after the trip is saved.
LEMMA TripStep == Types /\ Types' /\ Owned /\ TripInv /\ [Next]_vars => TripInv'
<1> SUFFICES ASSUME Types, Types', Owned, TripInv, [Next]_vars PROVE TripInv'
    OBVIOUS
<1> USE RunOfTypes, RunsAndWorkers, NewRowsReport
<1>a. /\ \A r \in Runs : runs[r] \in AnyRun /\ jobs[r] \in AnyJob
      /\ \A w \in Workers : work[w].run \in AnyRun /\ work[w].job \in AnyJob
      /\ \A p \in Procs : thread[p].run \in AnyRun /\ thread[p].latest \in AnyRun
    BY DEF Types, WorkRec, ThreadRec
<1>1. ASSUME NEW r \in Runs, SubmitAsync(r) PROVE TripInv'
  <2>1. \A q \in Runs : RowReports(q)' => q \in trips'
      BY <1>1 DEF RowReports, TripInv, Types, SubmitAsync, SubmitRec
  <2>2. \A v \in Workers : WorkerReports(v)' => RunOf(v)' \in trips'
      BY <1>1 DEF WorkerReports, RunOf, TripInv, Types, SubmitAsync, SubmitRec
  <2>3. \A q \in Procs : ThreadReports(q)' => RunOf(q)' \in trips'
      BY <1>1 DEF ThreadReports, RunOf, TripInv, Types, SubmitAsync, SubmitRec
  <2> QED
      BY <2>1, <2>2, <2>3 DEF TripInv
<1>2. ASSUME NEW r \in Runs, SubmitEnqueue(r) PROVE TripInv'
  <2>1. \A q \in Runs : RowReports(q)' => q \in trips'
      BY <1>2 DEF RowReports, TripInv, Types, SubmitEnqueue, SubmitRec
  <2>2. \A v \in Workers : WorkerReports(v)' => RunOf(v)' \in trips'
      BY <1>2 DEF WorkerReports, RunOf, TripInv, Types, SubmitEnqueue, SubmitRec
  <2>3. \A q \in Procs : ThreadReports(q)' => RunOf(q)' \in trips'
      BY <1>2 DEF ThreadReports, RunOf, TripInv, Types, SubmitEnqueue, SubmitRec
  <2> QED
      BY <2>1, <2>2, <2>3 DEF TripInv
<1>3. ASSUME NEW r \in Runs, SubmitSaveJob(r) PROVE TripInv'
  <2>1. \A q \in Runs : RowReports(q)' => q \in trips'
      BY <1>3 DEF RowReports, TripInv, Types, SubmitSaveJob, SubmitRec
  <2>2. \A v \in Workers : WorkerReports(v)' => RunOf(v)' \in trips'
      BY <1>3 DEF WorkerReports, RunOf, TripInv, Types, SubmitSaveJob, SubmitRec
  <2>3. \A q \in Procs : ThreadReports(q)' => RunOf(q)' \in trips'
      BY <1>3 DEF ThreadReports, RunOf, TripInv, Types, SubmitSaveJob, SubmitRec
  <2> QED
      BY <2>1, <2>2, <2>3 DEF TripInv
<1>4. ASSUME NEW r \in Runs, SubmitSaveRun(r) PROVE TripInv'
  <2>1. \A q \in Runs : RowReports(q)' => q \in trips'
      BY <1>4 DEF RowReports, TripInv, Types, SubmitSaveRun, Answered, SubmitRec
  <2>2. \A v \in Workers : WorkerReports(v)' => RunOf(v)' \in trips'
      BY <1>4 DEF WorkerReports, RunOf, TripInv, Types, SubmitSaveRun, Answered, SubmitRec
  <2>3. \A q \in Procs : ThreadReports(q)' => RunOf(q)' \in trips'
      BY <1>4 DEF ThreadReports, RunOf, TripInv, Types, SubmitSaveRun, Answered, SubmitRec
  <2> QED
      BY <2>1, <2>2, <2>3 DEF TripInv
<1>5. ASSUME NEW r \in Runs, SubmitSync(r) PROVE TripInv'
  <2>1. \A q \in Runs : RowReports(q)' => q \in trips'
      BY <1>5 DEF RowReports, TripInv, Types, SubmitSync, SubmitRec, Begun, NoThread
  <2>2. \A v \in Workers : WorkerReports(v)' => RunOf(v)' \in trips'
      BY <1>5 DEF WorkerReports, RunOf, TripInv, Types, SubmitSync, SubmitRec, Begun, NoThread
  <2>3. \A q \in Procs : ThreadReports(q)' => RunOf(q)' \in trips'
      BY <1>5 DEF ThreadReports, RunOf, TripInv, Types, SubmitSync, SubmitRec, Begun, NoThread
  <2> QED
      BY <2>1, <2>2, <2>3 DEF TripInv
<1>6. ASSUME NEW r \in Runs, SyncReturns(r) PROVE TripInv'
  <2>1. \A q \in Runs : RowReports(q)' => q \in trips'
      BY <1>6 DEF RowReports, TripInv, Types, SyncReturns, Answered, SubmitRec, NoThread
  <2>2. \A v \in Workers : WorkerReports(v)' => RunOf(v)' \in trips'
      BY <1>6 DEF WorkerReports, RunOf, TripInv, Types, SyncReturns, Answered, SubmitRec, NoThread
  <2>3. \A q \in Procs : ThreadReports(q)' => RunOf(q)' \in trips'
      BY <1>6 DEF ThreadReports, RunOf, TripInv, Types, SyncReturns, Answered, SubmitRec, NoThread
  <2> QED
      BY <2>1, <2>2, <2>3 DEF TripInv
<1>7. ASSUME NEW r \in Runs, SubmitAborts(r) PROVE TripInv'
  <2>1. \A q \in Runs : RowReports(q)' => q \in trips'
      BY <1>7 DEF RowReports, TripInv, Types, SubmitAborts, Answered, SubmitRec
  <2>2. \A v \in Workers : WorkerReports(v)' => RunOf(v)' \in trips'
      BY <1>7 DEF WorkerReports, RunOf, TripInv, Types, SubmitAborts, Answered, SubmitRec
  <2>3. \A q \in Procs : ThreadReports(q)' => RunOf(q)' \in trips'
      BY <1>7 DEF ThreadReports, RunOf, TripInv, Types, SubmitAborts, Answered, SubmitRec
  <2> QED
      BY <2>1, <2>2, <2>3 DEF TripInv
<1>8. ASSUME NEW r \in Runs, CancelRun(r) PROVE TripInv'
  <2>1. \A q \in Runs : RowReports(q)' => q \in trips'
      BY <1>8 DEF RowReports, TripInv, Types, CancelRun, CancelRec, Cancelled, NoCancel
  <2>2. \A v \in Workers : WorkerReports(v)' => RunOf(v)' \in trips'
      BY <1>8 DEF WorkerReports, RunOf, TripInv, Types, CancelRun, CancelRec, Cancelled, NoCancel
  <2>3. \A q \in Procs : ThreadReports(q)' => RunOf(q)' \in trips'
      BY <1>8 DEF ThreadReports, RunOf, TripInv, Types, CancelRun, CancelRec, Cancelled, NoCancel
  <2> QED
      BY <2>1, <2>2, <2>3 DEF TripInv
<1>9. ASSUME NEW r \in Runs, CancelJob(r) PROVE TripInv'
  <2>1. \A q \in Runs : RowReports(q)' => q \in trips'
      BY <1>9 DEF RowReports, TripInv, Types, CancelJob, CancelRec, Cancelled, NoCancel
  <2>2. \A v \in Workers : WorkerReports(v)' => RunOf(v)' \in trips'
      BY <1>9 DEF WorkerReports, RunOf, TripInv, Types, CancelJob, CancelRec, Cancelled, NoCancel
  <2>3. \A q \in Procs : ThreadReports(q)' => RunOf(q)' \in trips'
      BY <1>9 DEF ThreadReports, RunOf, TripInv, Types, CancelJob, CancelRec, Cancelled, NoCancel
  <2> QED
      BY <2>1, <2>2, <2>3 DEF TripInv
<1>10. ASSUME NEW r \in Runs, CancelSaveRun(r) PROVE TripInv'
  <2>1. \A q \in Runs : RowReports(q)' => q \in trips'
      BY <1>10, CancelSaveRunEffect DEF RowReports, TripInv, Types, CancelSaveRun, CancelRec, Cancelled, NoCancel
  <2>2. \A v \in Workers : WorkerReports(v)' => RunOf(v)' \in trips'
      BY <1>10, CancelSaveRunEffect DEF WorkerReports, RunOf, TripInv, Types, CancelSaveRun, CancelRec, Cancelled, NoCancel
  <2>3. \A q \in Procs : ThreadReports(q)' => RunOf(q)' \in trips'
      BY <1>10, CancelSaveRunEffect DEF ThreadReports, RunOf, TripInv, Types, CancelSaveRun, CancelRec, Cancelled, NoCancel
  <2> QED
      BY <2>1, <2>2, <2>3 DEF TripInv
<1>11. ASSUME NEW r \in Runs, CancelGetJob(r) PROVE TripInv'
  <2>1. \A q \in Runs : RowReports(q)' => q \in trips'
      BY <1>11 DEF RowReports, TripInv, Types, CancelGetJob, CancelRec, Cancelled, NoCancel
  <2>2. \A v \in Workers : WorkerReports(v)' => RunOf(v)' \in trips'
      BY <1>11 DEF WorkerReports, RunOf, TripInv, Types, CancelGetJob, CancelRec, Cancelled, NoCancel
  <2>3. \A q \in Procs : ThreadReports(q)' => RunOf(q)' \in trips'
      BY <1>11 DEF ThreadReports, RunOf, TripInv, Types, CancelGetJob, CancelRec, Cancelled, NoCancel
  <2> QED
      BY <2>1, <2>2, <2>3 DEF TripInv
<1>12. ASSUME NEW r \in Runs, CancelSaveJob(r) PROVE TripInv'
  <2>1. \A q \in Runs : RowReports(q)' => q \in trips'
      BY <1>12 DEF RowReports, TripInv, Types, CancelSaveJob, CancelRec, Cancelled, NoCancel
  <2>2. \A v \in Workers : WorkerReports(v)' => RunOf(v)' \in trips'
      BY <1>12 DEF WorkerReports, RunOf, TripInv, Types, CancelSaveJob, CancelRec, Cancelled, NoCancel
  <2>3. \A q \in Procs : ThreadReports(q)' => RunOf(q)' \in trips'
      BY <1>12 DEF ThreadReports, RunOf, TripInv, Types, CancelSaveJob, CancelRec, Cancelled, NoCancel
  <2> QED
      BY <2>1, <2>2, <2>3 DEF TripInv
<1>13. ASSUME NEW r \in Runs, CancelGetRun(r) PROVE TripInv'
  <2>1. \A q \in Runs : RowReports(q)' => q \in trips'
      BY <1>13 DEF RowReports, TripInv, Types, CancelGetRun, CancelRec, Cancelled, NoCancel
  <2>2. \A v \in Workers : WorkerReports(v)' => RunOf(v)' \in trips'
      BY <1>13 DEF WorkerReports, RunOf, TripInv, Types, CancelGetRun, CancelRec, Cancelled, NoCancel
  <2>3. \A q \in Procs : ThreadReports(q)' => RunOf(q)' \in trips'
      BY <1>13 DEF ThreadReports, RunOf, TripInv, Types, CancelGetRun, CancelRec, Cancelled, NoCancel
  <2> QED
      BY <2>1, <2>2, <2>3 DEF TripInv
<1>14. ASSUME NEW r \in Runs, CancelStop(r) PROVE TripInv'
  <2>1. \A q \in Runs : RowReports(q)' => q \in trips'
      BY <1>14 DEF RowReports, TripInv, Types, CancelStop, CancelRec, Cancelled, NoCancel, IdleWorker, WorkRec, NoThread
  <2>2. \A v \in Workers : WorkerReports(v)' => RunOf(v)' \in trips'
      BY <1>14 DEF WorkerReports, RunOf, TripInv, Types, CancelStop, CancelRec, Cancelled, NoCancel, IdleWorker, WorkRec, NoThread
  <2>3. \A q \in Procs : ThreadReports(q)' => RunOf(q)' \in trips'
      BY <1>14 DEF ThreadReports, RunOf, TripInv, Types, CancelStop, CancelRec, Cancelled, NoCancel, IdleWorker, WorkRec, NoThread
  <2> QED
      BY <2>1, <2>2, <2>3 DEF TripInv
<1>15. ASSUME NEW r \in Runs, CancelAborts(r) PROVE TripInv'
  <2>1. \A q \in Runs : RowReports(q)' => q \in trips'
      BY <1>15 DEF RowReports, TripInv, Types, CancelAborts, CancelRec, Cancelled, NoCancel
  <2>2. \A v \in Workers : WorkerReports(v)' => RunOf(v)' \in trips'
      BY <1>15 DEF WorkerReports, RunOf, TripInv, Types, CancelAborts, CancelRec, Cancelled, NoCancel
  <2>3. \A q \in Procs : ThreadReports(q)' => RunOf(q)' \in trips'
      BY <1>15 DEF ThreadReports, RunOf, TripInv, Types, CancelAborts, CancelRec, Cancelled, NoCancel
  <2> QED
      BY <2>1, <2>2, <2>3 DEF TripInv
<1>16. ASSUME NEW w \in Workers, Take(w) PROVE TripInv'
  <2>1. \A q \in Runs : RowReports(q)' => q \in trips'
      BY <1>16 DEF RowReports, TripInv, Types, Take, IdleWorker, WorkRec
  <2>2. \A v \in Workers : WorkerReports(v)' => RunOf(v)' \in trips'
      BY <1>16 DEF WorkerReports, RunOf, TripInv, Types, Take, IdleWorker, WorkRec
  <2>3. \A q \in Procs : ThreadReports(q)' => RunOf(q)' \in trips'
    <3>1. /\ UNCHANGED <<thread, trips>> /\ thread[w].pc = "none"
          /\ \A v \in Workers : v # w => work'[v] = work[v]
        BY <1>16 DEF Take, Types, At, Owned
    <3> QED
        BY <3>1 DEF ThreadReports, RunOf, TripInv
  <2> QED
      BY <2>1, <2>2, <2>3 DEF TripInv
<1>17. ASSUME NEW w \in Workers, GetJob(w) PROVE TripInv'
  <2>1. \A q \in Runs : RowReports(q)' => q \in trips'
      BY <1>17, CarryEffect DEF RowReports, TripInv, Types, GetJob, At, WorkRec
  <2>2. \A v \in Workers : WorkerReports(v)' => RunOf(v)' \in trips'
    <3>1. /\ \A v \in Workers : v # w => work'[v] = work[v]
          /\ work'[w].msg = work[w].msg /\ work'[w].pc # "get_done"
          /\ work'[w].run.status = "SUCCEEDED" => work[w].run.status = "SUCCEEDED"
          /\ work'[w].job.status = "SUCCEEDED" => jobs[RunOf(w)].status = "SUCCEEDED"
        BY <1>17, <1>a, CarryEffect DEF GetJob
    <3> QED
        BY <1>17, <3>1 DEF WorkerReports, RunOf, TripInv, RowReports, GetJob
  <2>3. \A q \in Procs : ThreadReports(q)' => RunOf(q)' \in trips'
      BY <1>17, CarryEffect DEF ThreadReports, RunOf, TripInv, Types, GetJob, At, WorkRec
  <2> QED
      BY <2>1, <2>2, <2>3 DEF TripInv
<1>18. ASSUME NEW w \in Workers, GetRun(w) PROVE TripInv'
  <2>1. \A q \in Runs : RowReports(q)' => q \in trips'
      BY <1>18, CarryEffect, RetireEffect DEF RowReports, TripInv, Types, GetRun, At, WorkRec
  <2>2. \A v \in Workers : WorkerReports(v)' => RunOf(v)' \in trips'
    <3>1. /\ \A v \in Workers : v # w => work'[v] = work[v]
          /\ work'[w].pc # "get_done"
          /\ work'[w].run.status # "SUCCEEDED" /\ work'[w].job.status # "SUCCEEDED"
      <4>1. CASE Retire(w)
          BY <4>1, RetireEffect
      <4>2. ASSUME NEW pc \in {"cancel_run", "start_job"}, NEW st \in {"CANCELLED", "RUNNING"},
                   Carry(w, pc, [runs[RunOf(w)] EXCEPT !.status = st], [work[w].job EXCEPT !.status = st])
            PROVE  /\ \A v \in Workers : v # w => work'[v] = work[v]
                   /\ work'[w].pc # "get_done"
                   /\ work'[w].run.status # "SUCCEEDED" /\ work'[w].job.status # "SUCCEEDED"
        <5>1. /\ \A v \in Workers : v # w => work'[v] = work[v]
              /\ work'[w].pc = pc /\ work'[w].run = [runs[RunOf(w)] EXCEPT !.status = st]
              /\ work'[w].job = [work[w].job EXCEPT !.status = st]
            BY <4>2, CarryEffect
        <5>2. work'[w].run.status = st /\ work'[w].job.status = st
            BY <5>1, <1>a
        <5> QED
            BY <4>2, <5>1, <5>2
      <4> QED
          BY <1>18, <4>1, <4>2 DEF GetRun
    <3> QED
        BY <1>18, <3>1 DEF WorkerReports, RunOf, TripInv, GetRun
  <2>3. \A q \in Procs : ThreadReports(q)' => RunOf(q)' \in trips'
    <3>1. /\ UNCHANGED <<thread, trips>> /\ thread[w].pc = "none"
          /\ \A v \in Workers : v # w => work'[v] = work[v]
        BY <1>18, CarryEffect, RetireEffect DEF GetRun, At, Owned
    <3> QED
        BY <3>1 DEF ThreadReports, RunOf, TripInv
  <2> QED
      BY <2>1, <2>2, <2>3 DEF TripInv
<1>19. ASSUME NEW w \in Workers, WorkerSavesJob(w) PROVE TripInv'
  <2>1. \A q \in Runs : RowReports(q)' => q \in trips'
    <3>1. /\ \A r \in Runs : jobs'[r] = IF r = RunOf(w) THEN work[w].job ELSE jobs[r]
          /\ UNCHANGED <<runs, submit, cancel, trips>>
        BY <1>19 DEF WorkerSavesJob, Types
    <3> QED
        BY <3>1 DEF TripInv, RowReports, WorkerReports
  <2>2. \A v \in Workers : WorkerReports(v)' => RunOf(v)' \in trips'
      BY <1>19, GotoEffect, RetireEffect, SavesJobTable DEF WorkerReports, RunOf, TripInv, Types, WorkerSavesJob, At, WorkRec
  <2>3. \A q \in Procs : ThreadReports(q)' => RunOf(q)' \in trips'
    <3>1. /\ UNCHANGED <<thread, trips>> /\ thread[w].pc = "none"
          /\ \A v \in Workers : v # w => work'[v] = work[v]
        BY <1>19, GotoEffect, RetireEffect, SavesJobTable DEF WorkerSavesJob, At, Owned
    <3> QED
        BY <3>1 DEF ThreadReports, RunOf, TripInv
  <2> QED
      BY <2>1, <2>2, <2>3 DEF TripInv
<1>20. ASSUME NEW w \in Workers, WorkerSavesRun(w) PROVE TripInv'
  <2>1. \A q \in Runs : RowReports(q)' => q \in trips'
    <3>1. /\ \A r \in Runs : runs'[r] = IF r = RunOf(w) THEN work[w].run ELSE runs[r]
          /\ UNCHANGED <<jobs, submit, cancel, trips>>
        BY <1>20 DEF WorkerSavesRun, Types
    <3> QED
        BY <3>1 DEF TripInv, RowReports, WorkerReports
  <2>2. \A v \in Workers : WorkerReports(v)' => RunOf(v)' \in trips'
      BY <1>20, GotoEffect, RetireEffect, SavesRunTable DEF WorkerReports, RunOf, TripInv, Types, WorkerSavesRun, At, WorkRec
  <2>3. \A q \in Procs : ThreadReports(q)' => RunOf(q)' \in trips'
    <3>1. /\ UNCHANGED <<thread, trips>> /\ thread[w].pc = "none"
          /\ \A v \in Workers : v # w => work'[v] = work[v]
        BY <1>20, GotoEffect, RetireEffect, SavesRunTable DEF WorkerSavesRun, At, Owned
    <3> QED
        BY <3>1 DEF ThreadReports, RunOf, TripInv
  <2> QED
      BY <2>1, <2>2, <2>3 DEF TripInv
<1>21. ASSUME NEW w \in Workers, StartExecution(w) PROVE TripInv'
  <2>1. \A q \in Runs : RowReports(q)' => q \in trips'
    <3>1. /\ \A r \in Runs : runs'[r] = IF r = RunOf(w) THEN work[w].run ELSE runs[r]
          /\ UNCHANGED <<jobs, submit, cancel, trips>>
        BY <1>21 DEF StartExecution, Types
    <3> QED
        BY <3>1 DEF TripInv, RowReports, WorkerReports
  <2>2. \A v \in Workers : WorkerReports(v)' => RunOf(v)' \in trips'
      BY <1>21, GotoEffect DEF WorkerReports, RunOf, TripInv, Types, StartExecution, At, WorkRec, Begun, NoThread
  <2>3. \A q \in Procs : ThreadReports(q)' => RunOf(q)' \in trips'
      BY <1>21, GotoEffect DEF ThreadReports, RunOf, TripInv, Types, StartExecution, At, WorkRec, Begun, NoThread
  <2> QED
      BY <2>1, <2>2, <2>3 DEF TripInv
<1>22. ASSUME NEW w \in Workers, TimesOut(w) PROVE TripInv'
  <2>1. \A q \in Runs : RowReports(q)' => q \in trips'
      BY <1>22 DEF RowReports, TripInv, Types, TimesOut, WorkRec
  <2>2. \A v \in Workers : WorkerReports(v)' => RunOf(v)' \in trips'
      BY <1>22 DEF WorkerReports, RunOf, TripInv, Types, TimesOut, WorkRec
  <2>3. \A q \in Procs : ThreadReports(q)' => RunOf(q)' \in trips'
      BY <1>22 DEF ThreadReports, RunOf, TripInv, Types, TimesOut, WorkRec
  <2> QED
      BY <2>1, <2>2, <2>3 DEF TripInv
<1>23. ASSUME NEW w \in Workers, JoinSucceeded(w) PROVE TripInv'
  <2>1. \A q \in Runs : RowReports(q)' => q \in trips'
      BY <1>23, GotoEffect DEF RowReports, TripInv, Types, JoinSucceeded, At, WorkRec, NoThread
  <2>2. \A v \in Workers : WorkerReports(v)' => RunOf(v)' \in trips'
    <3>1. RunOf(w) \in trips
        BY <1>23 DEF JoinSucceeded, TripInv, ThreadReports
    <3>2. /\ \A v \in Workers : v # w => work'[v] = work[v]
          /\ work'[w].msg = work[w].msg
        BY <1>23, GotoEffect DEF JoinSucceeded
    <3> QED
        BY <1>23, <3>1, <3>2 DEF WorkerReports, RunOf, TripInv, JoinSucceeded
  <2>3. \A q \in Procs : ThreadReports(q)' => RunOf(q)' \in trips'
      BY <1>23, GotoEffect DEF ThreadReports, RunOf, TripInv, Types, JoinSucceeded, At, WorkRec, NoThread
  <2> QED
      BY <2>1, <2>2, <2>3 DEF TripInv
<1>24. ASSUME NEW w \in Workers, GetCompletedJob(w) PROVE TripInv'
  <2>1. \A q \in Runs : RowReports(q)' => q \in trips'
      BY <1>24, CarryEffect DEF RowReports, TripInv, Types, GetCompletedJob, At, WorkRec
  <2>2. \A v \in Workers : WorkerReports(v)' => RunOf(v)' \in trips'
      BY <1>24, CarryEffect DEF WorkerReports, RunOf, TripInv, Types, GetCompletedJob, At, WorkRec
  <2>3. \A q \in Procs : ThreadReports(q)' => RunOf(q)' \in trips'
      BY <1>24, CarryEffect DEF ThreadReports, RunOf, TripInv, Types, GetCompletedJob, At, WorkRec
  <2> QED
      BY <2>1, <2>2, <2>3 DEF TripInv
<1>25. ASSUME NEW w \in Workers, JoinFailed(w) PROVE TripInv'
  <2>1. \A q \in Runs : RowReports(q)' => q \in trips'
      BY <1>25, CarryEffect DEF RowReports, TripInv, Types, JoinFailed, At, WorkRec, NoThread
  <2>2. \A v \in Workers : WorkerReports(v)' => RunOf(v)' \in trips'
    <3>1. PICK again \in BOOLEAN, st \in {"QUEUED", "DEAD_LETTERED"} :
             Carry(w, IF again THEN "retry_job" ELSE "dead_job", [work[w].run EXCEPT !.status = st],
                   [work[w].job EXCEPT !.status = st, !.retries = work[w].job.retries + 1])
        BY <1>25 DEF JoinFailed
    <3>2. /\ \A v \in Workers : v # w => work'[v] = work[v]
          /\ work'[w].pc # "get_done"
          /\ work'[w].run.status # "SUCCEEDED" /\ work'[w].job.status # "SUCCEEDED"
      <4>1. /\ \A v \in Workers : v # w => work'[v] = work[v]
            /\ work'[w].pc = IF again THEN "retry_job" ELSE "dead_job"
            /\ work'[w].run = [work[w].run EXCEPT !.status = st]
            /\ work'[w].job = [work[w].job EXCEPT !.status = st, !.retries = work[w].job.retries + 1]
          BY <3>1, CarryEffect
      <4>2. work'[w].run.status = st /\ work'[w].job.status = st
          BY <4>1, <1>a
      <4> QED
          BY <4>1, <4>2
    <3> QED
        BY <1>25, <3>2 DEF WorkerReports, RunOf, TripInv, JoinFailed
  <2>3. \A q \in Procs : ThreadReports(q)' => RunOf(q)' \in trips'
      BY <1>25, CarryEffect DEF ThreadReports, RunOf, TripInv, Types, JoinFailed, At, WorkRec, NoThread
  <2> QED
      BY <2>1, <2>2, <2>3 DEF TripInv
<1>26. ASSUME NEW w \in Workers, RetryEnqueue(w) PROVE TripInv'
  <2>1. \A q \in Runs : RowReports(q)' => q \in trips'
      BY <1>26, CarryEffect DEF RowReports, TripInv, Types, RetryEnqueue, At, WorkRec
  <2>2. \A v \in Workers : WorkerReports(v)' => RunOf(v)' \in trips'
    <3>1. Carry(w, "requeued_job", [work[w].run EXCEPT !.qid = work[w].job.retries],
                [work[w].job EXCEPT !.qid = work[w].job.retries])
        BY <1>26 DEF RetryEnqueue
    <3>2. /\ \A v \in Workers : v # w => work'[v] = work[v]
          /\ work'[w].pc # "get_done" /\ work'[w].msg = work[w].msg
          /\ work'[w].run.status = work[w].run.status /\ work'[w].job.status = work[w].job.status
      <4>1. /\ \A v \in Workers : v # w => work'[v] = work[v]
            /\ work'[w].pc = "requeued_job" /\ work'[w].msg = work[w].msg
            /\ work'[w].run = [work[w].run EXCEPT !.qid = work[w].job.retries]
            /\ work'[w].job = [work[w].job EXCEPT !.qid = work[w].job.retries]
          BY <3>1, CarryEffect
      <4>2. work'[w].run.status = work[w].run.status /\ work'[w].job.status = work[w].job.status
          BY <4>1, <1>a
      <4> QED
          BY <4>1, <4>2
    <3> QED
        BY <1>26, <3>2 DEF WorkerReports, RunOf, TripInv, RetryEnqueue
  <2>3. \A q \in Procs : ThreadReports(q)' => RunOf(q)' \in trips'
      BY <1>26, CarryEffect DEF ThreadReports, RunOf, TripInv, Types, RetryEnqueue, At, WorkRec
  <2> QED
      BY <2>1, <2>2, <2>3 DEF TripInv
<1>27. ASSUME NEW w \in Workers, WorkerDies(w) PROVE TripInv'
  <2>1. \A q \in Runs : RowReports(q)' => q \in trips'
      BY <1>27, RetireEffect DEF RowReports, TripInv, Types, WorkerDies, At, WorkRec, NoThread
  <2>2. \A v \in Workers : WorkerReports(v)' => RunOf(v)' \in trips'
      BY <1>27, RetireEffect DEF WorkerReports, RunOf, TripInv, Types, WorkerDies, At, WorkRec, NoThread
  <2>3. \A q \in Procs : ThreadReports(q)' => RunOf(q)' \in trips'
      BY <1>27, RetireEffect DEF ThreadReports, RunOf, TripInv, Types, WorkerDies, At, WorkRec, NoThread
  <2> QED
      BY <2>1, <2>2, <2>3 DEF TripInv
<1>28. ASSUME NEW p \in Procs, ExecuteRun(p) PROVE TripInv'
  <2>1. \A q \in Runs : RowReports(q)' => q \in trips'
      BY <1>28 DEF RowReports, TripInv, Types, ExecuteRun, ThreadAt, ThreadRec
  <2>2. \A v \in Workers : WorkerReports(v)' => RunOf(v)' \in trips'
      BY <1>28 DEF WorkerReports, RunOf, TripInv, Types, ExecuteRun, ThreadAt, ThreadRec
  <2>3. \A q \in Procs : ThreadReports(q)' => RunOf(q)' \in trips'
    <3>1. \A q \in Procs : q # p => thread'[q] = thread[q]
        BY <1>28 DEF ExecuteRun, Types
    <3>2. CASE runs[RunOf(p)].status \in Terminal
      <4>1. /\ thread'[p].run = thread[p].run /\ thread'[p].latest = thread[p].latest
            /\ thread'[p].pc = IF RunOf(p) \in trips THEN "ok" ELSE "raised"
          BY <1>28, <3>2 DEF ExecuteRun, Types, ThreadRec
      <4> QED
          BY <1>28, <3>1, <4>1 DEF ThreadReports, RunOf, TripInv, ExecuteRun, ThreadAt
    <3>3. CASE runs[RunOf(p)].status \notin Terminal
      <4>1. /\ thread'[p].run = runs[RunOf(p)] /\ thread'[p].latest = thread[p].latest
            /\ thread'[p].pc = "progress"
          BY <1>28, <3>3 DEF ExecuteRun, Types, ThreadRec
      <4> QED
          BY <1>28, <3>1, <3>3, <4>1 DEF ThreadReports, RunOf, TripInv, ExecuteRun, ThreadAt, Terminal
    <3> QED
        BY <3>2, <3>3
  <2> QED
      BY <2>1, <2>2, <2>3 DEF TripInv
<1>29. ASSUME NEW p \in Procs, ProgressReads(p) PROVE TripInv'
  <2>1. \A q \in Runs : RowReports(q)' => q \in trips'
      BY <1>29 DEF RowReports, TripInv, Types, ProgressReads, ThreadAt, ThreadRec
  <2>2. \A v \in Workers : WorkerReports(v)' => RunOf(v)' \in trips'
      BY <1>29 DEF WorkerReports, RunOf, TripInv, Types, ProgressReads, ThreadAt, ThreadRec
  <2>3. \A q \in Procs : ThreadReports(q)' => RunOf(q)' \in trips'
    <3>1. /\ \A q \in Procs : q # p => thread'[q] = thread[q]
          /\ thread'[p].run = thread[p].run /\ thread'[p].latest = runs[RunOf(p)]
          /\ thread'[p].pc = "save_progress" /\ thread[p].pc = "progress"
        BY <1>29 DEF ProgressReads, ThreadAt, Types, ThreadRec
    <3> QED
        BY <1>29, <3>1 DEF ThreadReports, RowReports, RunOf, TripInv, ProgressReads
  <2> QED
      BY <2>1, <2>2, <2>3 DEF TripInv
<1>30. ASSUME NEW p \in Procs, ProgressSaves(p) PROVE TripInv'
  <2>1. \A q \in Runs : RowReports(q)' => q \in trips'
    <3>1. /\ \A r \in Runs : runs'[r] = IF r = RunOf(p) THEN thread[p].latest ELSE runs[r]
          /\ UNCHANGED <<jobs, submit, cancel, trips>> /\ thread[p].pc # "none"
        BY <1>30 DEF ProgressSaves, ThreadAt, Types
    <3> QED
        BY <3>1 DEF TripInv, RowReports, ThreadReports
  <2>2. \A v \in Workers : WorkerReports(v)' => RunOf(v)' \in trips'
      BY <1>30 DEF WorkerReports, RunOf, TripInv, Types, ProgressSaves, ThreadAt, ThreadRec
  <2>3. \A q \in Procs : ThreadReports(q)' => RunOf(q)' \in trips'
      BY <1>30 DEF ThreadReports, RunOf, TripInv, Types, ProgressSaves, ThreadAt, ThreadRec
  <2> QED
      BY <2>1, <2>2, <2>3 DEF TripInv
<1>31. ASSUME NEW p \in Procs, BootstrapReturns(p) PROVE TripInv'
  <2>1. \A q \in Runs : RowReports(q)' => q \in trips'
      BY <1>31, ThreadGotoEffect DEF RowReports, TripInv, Types, BootstrapReturns, ThreadAt, ThreadRec
  <2>2. \A v \in Workers : WorkerReports(v)' => RunOf(v)' \in trips'
      BY <1>31, ThreadGotoEffect DEF WorkerReports, RunOf, TripInv, Types, BootstrapReturns, ThreadAt, ThreadRec
  <2>3. \A q \in Procs : ThreadReports(q)' => RunOf(q)' \in trips'
    <3>1. UNCHANGED <<work, trips>> /\ thread[p].pc = "progress" /\ ThreadGoto(p, "save_trip")
        BY <1>31 DEF BootstrapReturns, ThreadAt
    <3> QED
        BY <3>1, ThreadGotoEffect DEF ThreadReports, RunOf, TripInv
  <2> QED
      BY <2>1, <2>2, <2>3 DEF TripInv
<1>32. ASSUME NEW p \in Procs, SaveTrip(p) PROVE TripInv'
  <2>1. \A q \in Runs : RowReports(q)' => q \in trips'
      BY <1>32, ThreadGotoEffect DEF RowReports, TripInv, Types, SaveTrip, ThreadAt, ThreadRec
  <2>2. \A v \in Workers : WorkerReports(v)' => RunOf(v)' \in trips'
      BY <1>32, ThreadGotoEffect DEF WorkerReports, RunOf, TripInv, Types, SaveTrip, ThreadAt, ThreadRec
  <2>3. \A q \in Procs : ThreadReports(q)' => RunOf(q)' \in trips'
      BY <1>32, ThreadGotoEffect DEF ThreadReports, RunOf, TripInv, Types, SaveTrip, ThreadAt, ThreadRec
  <2> QED
      BY <2>1, <2>2, <2>3 DEF TripInv
<1>33. ASSUME NEW p \in Procs, SaveSuccess(p) PROVE TripInv'
  <2>1. \A q \in Runs : RowReports(q)' => q \in trips'
    <3>1. /\ \A r \in Runs : r # RunOf(p) => runs'[r] = runs[r]
          /\ UNCHANGED <<jobs, submit, cancel, trips>> /\ thread[p].pc = "save_success"
        BY <1>33 DEF SaveSuccess, ThreadAt, Types
    <3>2. RunOf(p) \in trips
        BY <3>1 DEF TripInv, ThreadReports
    <3> QED
        BY <3>1, <3>2 DEF TripInv, RowReports
  <2>2. \A v \in Workers : WorkerReports(v)' => RunOf(v)' \in trips'
      BY <1>33, ThreadGotoEffect DEF WorkerReports, RunOf, TripInv, Types, SaveSuccess, ThreadAt, ThreadRec
  <2>3. \A q \in Procs : ThreadReports(q)' => RunOf(q)' \in trips'
    <3>1. UNCHANGED <<work, trips>> /\ thread[p].pc = "save_success" /\ ThreadGoto(p, "ok")
        BY <1>33 DEF SaveSuccess, ThreadAt
    <3> QED
        BY <3>1, ThreadGotoEffect DEF ThreadReports, RunOf, TripInv
  <2> QED
      BY <2>1, <2>2, <2>3 DEF TripInv
<1>34. ASSUME NEW p \in Procs, Raises(p) PROVE TripInv'
  <2>1. \A q \in Runs : RowReports(q)' => q \in trips'
      BY <1>34, ThreadGotoEffect DEF RowReports, TripInv, Types, Raises, ThreadAt, ThreadRec
  <2>2. \A v \in Workers : WorkerReports(v)' => RunOf(v)' \in trips'
      BY <1>34, ThreadGotoEffect DEF WorkerReports, RunOf, TripInv, Types, Raises, ThreadAt, ThreadRec
  <2>3. \A q \in Procs : ThreadReports(q)' => RunOf(q)' \in trips'
    <3>1. UNCHANGED <<work, trips>> /\ thread[p].pc # "none" /\ ThreadGoto(p, "raised")
        BY <1>34 DEF Raises, Executing
    <3> QED
        BY <3>1, ThreadGotoEffect DEF ThreadReports, RunOf, TripInv
  <2> QED
      BY <2>1, <2>2, <2>3 DEF TripInv
<1>35. ASSUME NEW r \in Runs, NEW original \in Runs, RerunRun(r, original) PROVE TripInv'
    BY <1>1, <1>35 DEF RerunRun
<1>36. CASE UNCHANGED vars
    BY <1>36 DEF vars, TripInv, RowReports, WorkerReports, ThreadReports, RunOf
<1> QED
    BY <1>1, <1>2, <1>3, <1>4, <1>5, <1>6, <1>7, <1>8, <1>9, <1>10, <1>11, <1>12, <1>13, <1>14, <1>15, <1>16, <1>17, <1>18, <1>19, <1>20, <1>21, <1>22, <1>23, <1>24, <1>25, <1>26, <1>27, <1>28, <1>29, <1>30, <1>31, <1>32, <1>33, <1>34, <1>35, <1>36
    DEF Next, SubmitSteps, CancelSteps, WorkerSteps, ThreadSteps

\* At first nobody says that a run succeeded.
LEMMA TripInit == Init => TripInv
BY RunsAndWorkers, NewRowsReport
DEF Init, TripInv, RowReports, WorkerReports, ThreadReports, NoCancel, IdleWorker, NoThread

\* Whoever sees success finds the trip record, whatever is retried, cancelled,
\* timed out or killed.
THEOREM TripBeforeSuccessHolds == Spec => []TripBeforeSuccess
<1>1. TripInv => TripBeforeSuccess
    BY DEF TripInv, TripBeforeSuccess, RowReports
<1> QED
    BY <1>1, TripInit, TripStep, TypesInvariant, TokenInvariant, PTL DEF Spec

-----------------------------------------------------------------------------
(* Early cancellation: the proof. *)

\* Requests only move on, and only three steps touch the history.
LEMMA EarlyFrame ==
    ASSUME Types, [Next]_vars
    PROVE  /\ \A r \in Runs : Unsaved(r)' => Unsaved(r)
           /\ UNCHANGED attempts \/ \E w \in Workers : StartExecution(w)
           /\ UNCHANGED heeded \/ \E r \in Runs : CancelSaveJob(r)
<1>1. ASSUME NEW r \in Runs,
             \/ SubmitAsync(r) \/ SubmitEnqueue(r) \/ SubmitSaveJob(r) \/ SubmitSaveRun(r)
             \/ SubmitSync(r) \/ SyncReturns(r) \/ SubmitAborts(r)
      PROVE  UNCHANGED history /\ \A q \in Runs : Unsaved(q)' => Unsaved(q)
  <2>1. UNCHANGED history /\ \A q \in Runs : q # r => submit'[q] = submit[q]
      BY <1>1 DEF SubmitAsync, SubmitEnqueue, SubmitSaveJob, SubmitSaveRun, SubmitSync,
                  SyncReturns, SubmitAborts, Types
  <2>2. Unsaved(r)' => Unsaved(r)
    <3>1. CASE SubmitAsync(r) \/ SubmitEnqueue(r) \/ SubmitSync(r)
        BY <3>1 DEF SubmitAsync, SubmitEnqueue, SubmitSync, Unsaved
    <3>2. CASE SubmitSaveJob(r)
        BY <3>2 DEF SubmitSaveJob, Unsaved
    <3>3. CASE SubmitSaveRun(r) \/ SyncReturns(r) \/ SubmitAborts(r)
        BY <3>3 DEF SubmitSaveRun, SyncReturns, SubmitAborts, Unsaved, Answered, Types
    <3> QED
        BY <1>1, <3>1, <3>2, <3>3
  <2> QED
      BY <2>1, <2>2 DEF Unsaved
<1>2. ASSUME NEW r \in Runs,
             \/ CancelRun(r) \/ CancelJob(r) \/ CancelSaveRun(r) \/ CancelGetJob(r)
             \/ CancelGetRun(r) \/ CancelStop(r) \/ CancelAborts(r)
      PROVE  UNCHANGED <<submit, history>>
    BY <1>2 DEF CancelRun, CancelJob, CancelSaveRun, CancelGetJob, CancelGetRun, CancelStop,
                CancelAborts
<1>3. ASSUME NEW r \in Runs, CancelSaveJob(r) PROVE UNCHANGED <<submit, attempts>>
    BY <1>3 DEF CancelSaveJob
<1>4. ASSUME NEW w \in Workers,
             \/ Take(w) \/ GetJob(w) \/ GetRun(w) \/ WorkerSavesJob(w) \/ WorkerSavesRun(w)
             \/ TimesOut(w) \/ JoinSucceeded(w) \/ GetCompletedJob(w) \/ JoinFailed(w)
             \/ RetryEnqueue(w) \/ WorkerDies(w)
      PROVE  UNCHANGED <<submit, history>>
    BY <1>4 DEF Take, GetJob, GetRun, WorkerSavesJob, WorkerSavesRun, TimesOut, JoinSucceeded,
                GetCompletedJob, JoinFailed, RetryEnqueue, WorkerDies
<1>5. ASSUME NEW w \in Workers, StartExecution(w) PROVE UNCHANGED <<submit, heeded>>
    BY <1>5 DEF StartExecution
<1>6. ASSUME NEW p \in Procs, ThreadSteps(p) \/ Raises(p) PROVE UNCHANGED <<submit, history>>
    BY <1>6 DEF ThreadSteps, ExecuteRun, ProgressReads, ProgressSaves, BootstrapReturns, SaveTrip,
                SaveSuccess, Raises
<1>7. CASE UNCHANGED vars
    BY <1>7 DEF vars, history, Unsaved
<1>8. CASE \E r \in Runs : \/ SubmitAsync(r) \/ SubmitSync(r)
                           \/ \E original \in Runs : RerunRun(r, original)
                           \/ SubmitSteps(r) \/ SubmitAborts(r)
                           \/ CancelRun(r) \/ CancelJob(r) \/ CancelSteps(r) \/ CancelAborts(r)
    BY <1>1, <1>2, <1>3, <1>8 DEF SubmitSteps, CancelSteps, RerunRun, history, Unsaved
<1>9. CASE \E w \in Workers : WorkerSteps(w) \/ TimesOut(w) \/ WorkerDies(w)
    BY <1>4, <1>5, <1>9 DEF WorkerSteps, history, Unsaved
<1>10. CASE \E p \in Procs : ThreadSteps(p) \/ Raises(p)
    BY <1>6, <1>10 DEF history, Unsaved
<1> QED
    BY <1>7, <1>8, <1>9, <1>10 DEF Next

\* The job row appears with the step that ends Unsaved; before it no worker gets
\* past its missing row and no cancellation finds one.
LEMMA UnsavedStep ==
    ASSUME Types, Types', EarlyInv, [Next]_vars
    PROVE  UnsavedInv'
<1> USE RunOfTypes, RunsAndWorkers, EarlyFrame DEF UnsavedInv, EarlyInv
<1>0. ASSUME UNCHANGED <<jobs, cancel, attempts>> PROVE UnsavedInv'
    BY <1>0
<1>1. ASSUME NEW r \in Runs, SubmitSaveJob(r) PROVE UnsavedInv'
  <2>1. ~Unsaved(r)' /\ UNCHANGED <<cancel, attempts>>
        /\ \A q \in Runs : q # r => jobs'[q] = jobs[q]
      BY <1>1 DEF SubmitSaveJob, Unsaved, Types, SubmitRec, history
  <2> QED
      BY <2>1
<1>2. ASSUME NEW r \in Runs, CancelRun(r) \/ CancelStop(r) \/ CancelAborts(r) PROVE UnsavedInv'
  <2>1. UNCHANGED <<jobs, attempts>> /\ \A q \in Runs : q # r => cancel'[q] = cancel[q]
      BY <1>2 DEF CancelRun, CancelStop, CancelAborts, Types, history
  <2>2. cancel'[r].pc # "save_job"
    <3>1. CASE CancelRun(r)
        BY <3>1 DEF CancelRun, NoCancel, Types
    <3>2. CASE CancelStop(r)
        BY <3>2 DEF CancelStop, NoCancel, Cancelled, Types
    <3>3. CASE CancelAborts(r)
        BY <3>3 DEF CancelAborts, NoCancel, Cancelled, Types
    <3> QED
        BY <1>2, <3>1, <3>2, <3>3
  <2> QED
      BY <2>1, <2>2
<1>3. ASSUME NEW r \in Runs, CancelJob(r) \/ CancelGetJob(r) PROVE UnsavedInv'
  <2>1. /\ UNCHANGED <<jobs, attempts>> /\ \A q \in Runs : q # r => cancel'[q] = cancel[q]
        /\ jobs[r].status # Absent \/ cancel'[r].pc # "save_job"
    <3>1. CASE CancelJob(r)
        BY <3>1 DEF CancelJob, Types, history
    <3>2. CASE CancelGetJob(r)
        BY <3>2 DEF CancelGetJob, NoCancel, Cancelled, Types, history
    <3> QED
        BY <1>3, <3>1, <3>2
  <2> QED
      BY <2>1
<1>4. ASSUME NEW r \in Runs, CancelSaveRun(r) \/ CancelGetRun(r) PROVE UnsavedInv'
  <2>1. /\ UNCHANGED <<jobs, attempts>>
        /\ \A q \in Runs : cancel'[q].pc = "save_job" => cancel[q].pc = "save_job"
    <3>1. CASE CancelSaveRun(r)
        BY <3>1 DEF CancelSaveRun, Types, CancelRec, history
    <3>2. CASE CancelGetRun(r)
        BY <3>2 DEF CancelGetRun, Types, CancelRec, history
    <3> QED
        BY <1>4, <3>1, <3>2
  <2> QED
      BY <2>1
<1>5. ASSUME NEW r \in Runs, CancelSaveJob(r) PROVE UnsavedInv'
  <2>1. /\ ~Unsaved(r) /\ UNCHANGED attempts
        /\ \A q \in Runs : q # r => jobs'[q] = jobs[q] /\ cancel'[q] = cancel[q]
      BY <1>5 DEF CancelSaveJob, Types, CancelRec
  <2> QED
      BY <2>1
<1>6. ASSUME NEW w \in Workers, WorkerSavesJob(w) PROVE UnsavedInv'
  <2>1. ~Unsaved(RunOf(w))
      BY <1>6, SavesJobTable DEF WorkerSavesJob, WorkersEarly, WorkerEarly
  <2>2. UNCHANGED <<cancel, attempts>> /\ \A q \in Runs : q # RunOf(w) => jobs'[q] = jobs[q]
      BY <1>6 DEF WorkerSavesJob, Types, history
  <2> QED
      BY <2>1, <2>2
<1>7. ASSUME NEW w \in Workers, StartExecution(w) PROVE UnsavedInv'
  <2>1. ~Unsaved(RunOf(w))
      BY <1>7 DEF StartExecution, At, WorkersEarly, WorkerEarly
  <2>2. UNCHANGED <<cancel, jobs>> /\ \A q \in Runs : q # RunOf(w) => attempts'[q] = attempts[q]
      BY <1>7 DEF StartExecution, Types
  <2> QED
      BY <2>1, <2>2
<1>8. ASSUME NEW r \in Runs,
             \/ SubmitAsync(r) \/ SubmitEnqueue(r) \/ SubmitSaveRun(r) \/ SubmitSync(r)
             \/ SyncReturns(r) \/ SubmitAborts(r)
      PROVE  UNCHANGED <<jobs, cancel, attempts>>
    BY <1>8 DEF SubmitAsync, SubmitEnqueue, SubmitSaveRun, SubmitSync, SyncReturns, SubmitAborts,
                history
<1>9. ASSUME NEW w \in Workers,
             \/ Take(w) \/ GetJob(w) \/ GetRun(w) \/ WorkerSavesRun(w) \/ TimesOut(w)
             \/ JoinSucceeded(w) \/ GetCompletedJob(w) \/ JoinFailed(w) \/ RetryEnqueue(w)
             \/ WorkerDies(w)
      PROVE  UNCHANGED <<jobs, cancel, attempts>>
    BY <1>9 DEF Take, GetJob, GetRun, WorkerSavesRun, TimesOut, JoinSucceeded, GetCompletedJob,
                JoinFailed, RetryEnqueue, WorkerDies, history
<1>10. ASSUME NEW p \in Procs, ThreadSteps(p) \/ Raises(p)
       PROVE  UNCHANGED <<jobs, cancel, attempts>>
    BY <1>10 DEF ThreadSteps, ExecuteRun, ProgressReads, ProgressSaves, BootstrapReturns, SaveTrip,
                 SaveSuccess, Raises, history
<1>11. CASE UNCHANGED vars
    BY <1>0, <1>11 DEF vars
<1>12. CASE \E r \in Runs : \/ SubmitAsync(r) \/ SubmitSync(r)
                            \/ \E original \in Runs : RerunRun(r, original)
                            \/ SubmitSteps(r) \/ SubmitAborts(r)
                            \/ CancelRun(r) \/ CancelJob(r) \/ CancelSteps(r) \/ CancelAborts(r)
    BY <1>0, <1>1, <1>2, <1>3, <1>4, <1>5, <1>8, <1>12 DEF SubmitSteps, CancelSteps, RerunRun
<1>13. CASE \E w \in Workers : WorkerSteps(w) \/ TimesOut(w) \/ WorkerDies(w)
    BY <1>0, <1>6, <1>7, <1>9, <1>13 DEF WorkerSteps
<1> QED
    BY <1>0, <1>10, <1>11, <1>12, <1>13 DEF Next

\* The first message is enqueued before any execution; an execution has taken it.
LEMMA WaitingStep ==
    ASSUME Types, Types', OneToken, EarlyInv, [Next]_vars
    PROVE  WaitingInv'
<1> USE RunOfTypes, RunsAndWorkers, EarlyFrame DEF WaitingInv, EarlyInv
<1>0. ASSUME queue' \subseteq queue, UNCHANGED attempts PROVE WaitingInv'
    BY <1>0 DEF FirstMessage
<1>1. ASSUME NEW r \in Runs, SubmitEnqueue(r) PROVE WaitingInv'
  <2>1. /\ UNCHANGED attempts /\ Unsaved(r) /\ queue' = queue \cup {FirstMessage(r)}
      BY <1>1, LiteralTypes DEF SubmitEnqueue, FirstMessage, Unsaved, history
  <2> QED
      BY <2>1 DEF UnsavedInv, FirstMessage
<1>2. ASSUME NEW w \in Workers, RetryEnqueue(w) PROVE WaitingInv'
  <2>1. work[w].job.retries > 0 /\ work[w].job.retries \in Nat
      BY <1>2, RowTypes DEF RetryEnqueue, At, WorkersEarly, WorkerEarly, Types, WorkRec
  <2>2. /\ UNCHANGED attempts
        /\ queue' = queue \cup {[run |-> RunOf(w), attempt |-> work[w].job.retries]}
      BY <1>2 DEF RetryEnqueue, history
  <2>3. \A r \in Runs : FirstMessage(r) \in queue' => FirstMessage(r) \in queue
      BY <2>1, <2>2 DEF FirstMessage
  <2> QED
      BY <2>2, <2>3
<1>3. ASSUME NEW w \in Workers, StartExecution(w) PROVE WaitingInv'
  <2>1. /\ UNCHANGED queue /\ \A q \in Runs : q # RunOf(w) => attempts'[q] = attempts[q]
      BY <1>3 DEF StartExecution, Types
  <2>2. FirstMessage(RunOf(w)) \notin queue
      BY <1>3 DEF StartExecution, At, OneToken, Holds, FirstMessage
  <2> QED
      BY <2>1, <2>2 DEF FirstMessage
<1>4. ASSUME NEW r \in Runs,
             \/ SubmitAsync(r) \/ SubmitSaveJob(r) \/ SubmitSaveRun(r) \/ SubmitSync(r)
             \/ SyncReturns(r) \/ SubmitAborts(r) \/ CancelRun(r) \/ CancelJob(r)
             \/ CancelSteps(r) \/ CancelAborts(r)
      PROVE  queue' \subseteq queue /\ UNCHANGED attempts
    BY <1>4 DEF SubmitAsync, SubmitSaveJob, SubmitSaveRun, SubmitSync, SyncReturns, SubmitAborts,
                CancelRun, CancelJob, CancelSteps, CancelSaveRun, CancelGetJob, CancelSaveJob,
                CancelGetRun, CancelStop, CancelAborts, history
<1>5. ASSUME NEW w \in Workers,
             \/ Take(w) \/ GetJob(w) \/ GetRun(w) \/ WorkerSavesJob(w) \/ WorkerSavesRun(w)
             \/ TimesOut(w) \/ JoinSucceeded(w) \/ GetCompletedJob(w) \/ JoinFailed(w)
             \/ WorkerDies(w)
      PROVE  queue' \subseteq queue /\ UNCHANGED attempts
    BY <1>5 DEF Take, GetJob, GetRun, WorkerSavesJob, WorkerSavesRun, TimesOut, JoinSucceeded,
                GetCompletedJob, JoinFailed, WorkerDies, history
<1>6. ASSUME NEW p \in Procs, ThreadSteps(p) \/ Raises(p)
      PROVE  queue' \subseteq queue /\ UNCHANGED attempts
    BY <1>6 DEF ThreadSteps, ExecuteRun, ProgressReads, ProgressSaves, BootstrapReturns, SaveTrip,
                SaveSuccess, Raises, history
<1>7. CASE UNCHANGED vars
    BY <1>0, <1>7 DEF vars
<1>8. CASE \E r \in Runs : \/ SubmitAsync(r) \/ SubmitSync(r)
                           \/ \E original \in Runs : RerunRun(r, original)
                           \/ SubmitSteps(r) \/ SubmitAborts(r)
                           \/ CancelRun(r) \/ CancelJob(r) \/ CancelSteps(r) \/ CancelAborts(r)
    BY <1>0, <1>1, <1>4, <1>8 DEF SubmitSteps, RerunRun
<1>9. CASE \E w \in Workers : WorkerSteps(w) \/ TimesOut(w) \/ WorkerDies(w)
    BY <1>0, <1>2, <1>3, <1>5, <1>9 DEF WorkerSteps
<1> QED
    BY <1>0, <1>6, <1>7, <1>8, <1>9 DEF Next

\* A recorded cancellation is never unrecorded: later saves of the job row keep
\* its flag, and only a worker that drops the run has it in hand.
LEMMA HeededStep ==
    ASSUME Types, Types', OneToken, EarlyInv, [Next]_vars
    PROVE  HeededInv'
<1> USE RunOfTypes, RunsAndWorkers, EarlyFrame DEF HeededInv, EarlyInv
<1>a. \A r \in Runs : Unsaved(r)' => Unsaved(r)
    OBVIOUS
<1>b. \A r \in Runs : jobs[r] \in AnyJob
    BY DEF Types
<1>0. ASSUME UNCHANGED <<jobs, cancel, attempts, heeded>> PROVE HeededInv'
    BY <1>0, <1>a DEF Types
<1>1. ASSUME NEW r \in Runs, SubmitSaveJob(r) PROVE HeededInv'
  <2>1. /\ r \notin heeded /\ UNCHANGED <<cancel, attempts, heeded>>
        /\ \A q \in Runs : q # r => jobs'[q] = jobs[q]
      BY <1>1 DEF SubmitSaveJob, Unsaved, Types, history
  <2> QED
      BY <1>a, <2>1 DEF Types
<1>2. ASSUME NEW r \in Runs, CancelRun(r) \/ CancelStop(r) \/ CancelAborts(r) PROVE HeededInv'
  <2>1. UNCHANGED <<jobs, attempts, heeded>> /\ \A q \in Runs : q # r => cancel'[q] = cancel[q]
      BY <1>2 DEF CancelRun, CancelStop, CancelAborts, Types, history
  <2>2. cancel'[r].pc # "save_job"
    <3>1. CASE CancelRun(r)
        BY <3>1 DEF CancelRun, NoCancel, Types
    <3>2. CASE CancelStop(r)
        BY <3>2 DEF CancelStop, NoCancel, Cancelled, Types
    <3>3. CASE CancelAborts(r)
        BY <3>3 DEF CancelAborts, NoCancel, Cancelled, Types
    <3> QED
        BY <1>2, <3>1, <3>2, <3>3
  <2> QED
      BY <1>a, <2>1, <2>2 DEF Types
<1>3. ASSUME NEW r \in Runs, CancelJob(r) \/ CancelGetJob(r) PROVE HeededInv'
  <2>1. Flagged(jobs[r]).cancelled
      BY <1>b DEF Flagged, AnyJob
  <2>2. /\ UNCHANGED <<jobs, attempts, heeded>> /\ \A q \in Runs : q # r => cancel'[q] = cancel[q]
        /\ cancel'[r].pc # "save_job" \/ cancel'[r].job = Flagged(jobs[r])
    <3>1. CASE CancelJob(r)
        BY <3>1 DEF CancelJob, NoCancel, Types, history
    <3>2. CASE CancelGetJob(r)
        BY <3>2 DEF CancelGetJob, NoCancel, Cancelled, Types, CancelRec, history
    <3> QED
        BY <1>3, <3>1, <3>2
  <2> QED
      BY <1>a, <2>1, <2>2 DEF Types
<1>4. ASSUME NEW r \in Runs, CancelSaveRun(r) \/ CancelGetRun(r) PROVE HeededInv'
  <2>1. /\ UNCHANGED <<jobs, attempts, heeded>> /\ \A q \in Runs : cancel'[q].job = cancel[q].job
        /\ \A q \in Runs : cancel'[q].pc = "save_job" => cancel[q].pc = "save_job"
    <3>1. CASE CancelSaveRun(r)
        BY <3>1 DEF CancelSaveRun, Types, CancelRec, history
    <3>2. CASE CancelGetRun(r)
        BY <3>2 DEF CancelGetRun, Types, CancelRec, history
    <3> QED
        BY <1>4, <3>1, <3>2
  <2> QED
      BY <1>a, <2>1 DEF Types
<1>5. ASSUME NEW r \in Runs, CancelSaveJob(r) PROVE HeededInv'
  <2>1. /\ UNCHANGED attempts /\ ~Unsaved(r) /\ cancel[r].job.cancelled /\ jobs'[r] = cancel[r].job
        /\ \A q \in Runs : q # r => jobs'[q] = jobs[q] /\ cancel'[q] = cancel[q]
        /\ cancel'[r].pc # "save_job"
      BY <1>5 DEF CancelSaveJob, Types, CancelRec, UnsavedInv
  <2>2. \A q \in heeded' : q \in heeded \/ (q = r /\ FirstMessage(r) \in queue)
      BY <1>5 DEF CancelSaveJob, FirstMessage
  <2>3. \A q \in heeded' : attempts[q] = 0 /\ ~Unsaved(q) /\ jobs'[q].cancelled
      BY <2>1, <2>2 DEF WaitingInv, Types
  <2> QED
      BY <1>a, <2>1, <2>3 DEF Types
<1>6. ASSUME NEW w \in Workers, WorkerSavesJob(w) PROVE HeededInv'
  <2>1. RunOf(w) \in heeded => work[w].job.cancelled
      BY <1>6, SavesJobTable DEF WorkerSavesJob, WorkersEarly, WorkerEarly
  <2>2. /\ UNCHANGED <<cancel, attempts, heeded>> /\ jobs'[RunOf(w)] = work[w].job
        /\ \A q \in Runs : q # RunOf(w) => jobs'[q] = jobs[q]
      BY <1>6 DEF WorkerSavesJob, Types, history
  <2> QED
      BY <1>a, <2>1, <2>2 DEF Types
<1>7. ASSUME NEW w \in Workers, StartExecution(w) PROVE HeededInv'
  <2>1. RunOf(w) \notin heeded
      BY <1>7 DEF StartExecution, At, WorkersEarly, WorkerEarly
  <2>2. /\ UNCHANGED <<cancel, jobs, heeded>>
        /\ \A q \in Runs : q # RunOf(w) => attempts'[q] = attempts[q]
      BY <1>7 DEF StartExecution, Types
  <2> QED
      BY <1>a, <2>1, <2>2 DEF Types
<1>8. ASSUME NEW r \in Runs,
             \/ SubmitAsync(r) \/ SubmitEnqueue(r) \/ SubmitSaveRun(r) \/ SubmitSync(r)
             \/ SyncReturns(r) \/ SubmitAborts(r)
      PROVE  UNCHANGED <<jobs, cancel, attempts, heeded>>
    BY <1>8 DEF SubmitAsync, SubmitEnqueue, SubmitSaveRun, SubmitSync, SyncReturns, SubmitAborts,
                history
<1>9. ASSUME NEW w \in Workers,
             \/ Take(w) \/ GetJob(w) \/ GetRun(w) \/ WorkerSavesRun(w) \/ TimesOut(w)
             \/ JoinSucceeded(w) \/ GetCompletedJob(w) \/ JoinFailed(w) \/ RetryEnqueue(w)
             \/ WorkerDies(w)
      PROVE  UNCHANGED <<jobs, cancel, attempts, heeded>>
    BY <1>9 DEF Take, GetJob, GetRun, WorkerSavesRun, TimesOut, JoinSucceeded, GetCompletedJob,
                JoinFailed, RetryEnqueue, WorkerDies, history
<1>10. ASSUME NEW p \in Procs, ThreadSteps(p) \/ Raises(p)
       PROVE  UNCHANGED <<jobs, cancel, attempts, heeded>>
    BY <1>10 DEF ThreadSteps, ExecuteRun, ProgressReads, ProgressSaves, BootstrapReturns, SaveTrip,
                 SaveSuccess, Raises, history
<1>11. CASE UNCHANGED vars
    BY <1>0, <1>11 DEF vars
<1>12. CASE \E r \in Runs : \/ SubmitAsync(r) \/ SubmitSync(r)
                            \/ \E original \in Runs : RerunRun(r, original)
                            \/ SubmitSteps(r) \/ SubmitAborts(r)
                            \/ CancelRun(r) \/ CancelJob(r) \/ CancelSteps(r) \/ CancelAborts(r)
    BY <1>0, <1>1, <1>2, <1>3, <1>4, <1>5, <1>8, <1>12 DEF SubmitSteps, CancelSteps, RerunRun
<1>13. CASE \E w \in Workers : WorkerSteps(w) \/ TimesOut(w) \/ WorkerDies(w)
    BY <1>0, <1>6, <1>7, <1>9, <1>13 DEF WorkerSteps
<1>14. CASE \E p \in Procs : ThreadSteps(p) \/ Raises(p)
    BY <1>0, <1>10, <1>14
<1> HIDE DEF HeededInv
<1> QED
    BY <1>11, <1>12, <1>13, <1>14 DEF Next

\* A worker that does nothing stays early, unless its run is just recorded.
LEMMA StillEarly ==
    ASSUME Types, Types', [Next]_vars, NEW v \in Workers, WorkerEarly(v), work'[v] = work[v],
           \A r \in Runs : attempts'[r] \in {attempts[r], attempts[r] + 1},
           RunOf(v) \in heeded' => RunOf(v) \in heeded
    PROVE  WorkerEarly(v)'
<1>1. RunOf(v)' = RunOf(v) /\ RunOf(v) \in Runs
    BY RunOfTypes DEF RunOf
<1>2. attempts[RunOf(v)] \in Nat
    BY <1>1 DEF Types
<1>3. Unsaved(RunOf(v))' => Unsaved(RunOf(v))
    BY <1>1, EarlyFrame
<1> QED
    BY <1>1, <1>2, <1>3 DEF WorkerEarly

\* A worker that moves on: what its new stage and copies must satisfy.
LEMMA MovedEarly ==
    ASSUME Types, Types', [Next]_vars, UNCHANGED heeded, WorkersEarly, NEW w \in Workers,
           \A v \in Workers : v # w => work'[v] = work[v],
           work'[w].msg = work[w].msg,
           \A r \in Runs : attempts'[r] \in {attempts[r], attempts[r] + 1},
           work'[w].pc \in Started => attempts'[RunOf(w)] > 0,
           work'[w].pc \in {"retry_job", "retry_run", "enqueue"} => work'[w].job.retries > 0,
           Unsaved(RunOf(w)) => work'[w].pc = "get_run" /\ work'[w].job.status = Absent,
           RunOf(w) \in heeded => work'[w].pc \in {"get_run", "cancel_run", "cancel_job"}
                                  /\ work'[w].job.cancelled
    PROVE  WorkersEarly'
<1>1. RunOf(w)' = RunOf(w) /\ RunOf(w) \in Runs
    BY RunOfTypes DEF RunOf
<1>2. Unsaved(RunOf(w))' => Unsaved(RunOf(w))
    BY <1>1, EarlyFrame
<1>3. WorkerEarly(w)'
    BY <1>1, <1>2 DEF WorkerEarly
<1>4. \A v \in Workers : v # w => WorkerEarly(v)'
    BY StillEarly DEF WorkersEarly
<1> QED
    BY <1>3, <1>4 DEF WorkersEarly

\* A worker that retires, or is killed, has nothing in hand.
LEMMA RetiredEarly ==
    ASSUME Types, Types', [Next]_vars, UNCHANGED history, WorkersEarly,
           \A v \in Workers : work'[v] \in {work[v], IdleWorker}
    PROVE  WorkersEarly'
<1>1. ASSUME NEW v \in Workers, work'[v] = IdleWorker PROVE WorkerEarly(v)'
    BY <1>1 DEF WorkerEarly, IdleWorker, Started
<1>2. ASSUME NEW v \in Workers, work'[v] = work[v] PROVE WorkerEarly(v)'
    BY <1>2, StillEarly DEF WorkersEarly, history
<1> QED
    BY <1>1, <1>2 DEF WorkersEarly

\* A worker meets an unsaved job row, or a recorded flag, in GetJob and GetRun, and
\* goes no further than to drop the run.
LEMMA WorkersEarlyStep ==
    ASSUME Types, Types', OneToken, EarlyInv, [Next]_vars
    PROVE  WorkersEarly'
<1> USE RunOfTypes, RunsAndWorkers
<1>a. WorkersEarly /\ UnsavedInv /\ HeededInv /\ WaitingInv
    BY DEF EarlyInv
<1>b. \A r \in Runs : attempts[r] \in Nat /\ jobs[r] \in AnyJob /\ runs[r] \in AnyRun
    BY DEF Types
<1>c. \A w \in Workers : /\ WorkerEarly(w) /\ work[w].job \in AnyJob /\ work[w].run \in AnyRun
                         /\ work[w].job.retries \in Nat
    BY <1>a, RowTypes DEF Types, WorkRec, WorkersEarly
<1>0. ASSUME UNCHANGED work, UNCHANGED history PROVE WorkersEarly'
    BY <1>0, <1>a, RetiredEarly
<1>1. ASSUME NEW w \in Workers, Take(w) PROVE WorkersEarly'
  <2>1. PICK m \in queue : work' = [work EXCEPT ![w] = [IdleWorker EXCEPT !.pc = "get_job", !.msg = m]]
      BY <1>1 DEF Take
  <2>2. work'[w].pc = "get_job" /\ \A v \in Workers : v # w => work'[v] = work[v]
      BY <2>1 DEF Types, IdleWorker
  <2>3. UNCHANGED <<attempts, heeded>>
      BY <1>1 DEF Take, history
  <2>4. WorkerEarly(w)'
      BY <2>2 DEF WorkerEarly, Started
  <2>5. \A v \in Workers : v # w => WorkerEarly(v)'
      BY <1>c, <2>2, <2>3, StillEarly
  <2> QED
      BY <2>4, <2>5 DEF WorkersEarly
<1>2. ASSUME NEW w \in Workers, GetJob(w) PROVE WorkersEarly'
  <2>1. /\ Carry(w, "get_run", work[w].run, jobs[RunOf(w)]) /\ UNCHANGED <<attempts, heeded>>
      BY <1>2 DEF GetJob, history
  <2>2. /\ \A v \in Workers : v # w => work'[v] = work[v]
        /\ work'[w].msg = work[w].msg /\ work'[w].pc = "get_run" /\ work'[w].job = jobs[RunOf(w)]
      BY <2>1, CarryEffect
  <2> QED
      BY <1>a, <2>1, <2>2, MovedEarly DEF Started, UnsavedInv, HeededInv
<1>3. ASSUME NEW w \in Workers, GetRun(w) PROVE WorkersEarly'
  <2>1. UNCHANGED history /\ work[w].pc = "get_run"
      BY <1>3 DEF GetRun, At
  <2>2. CASE Retire(w)
      BY <1>a, <2>1, <2>2, RetireEffect, RetiredEarly
  <2>3. CASE Absent \notin {runs[RunOf(w)].status, work[w].job.status} /\ ~Retire(w)
    <3>1. ~Unsaved(RunOf(w)) /\ (RunOf(w) \in heeded => work[w].job.cancelled)
        BY <1>c, <2>1, <2>3 DEF WorkerEarly
    <3>2. PICK pc \in {"cancel_run", "start_job"}, st \in {"CANCELLED", "RUNNING"} :
              /\ Carry(w, pc, [runs[RunOf(w)] EXCEPT !.status = st],
                       [work[w].job EXCEPT !.status = st])
              /\ work[w].job.cancelled => pc = "cancel_run"
        BY <1>3, <2>3 DEF GetRun
    <3>3. /\ \A v \in Workers : v # w => work'[v] = work[v]
          /\ work'[w].msg = work[w].msg /\ work'[w].pc = pc
          /\ work'[w].job = [work[w].job EXCEPT !.status = st]
        BY <3>2, CarryEffect
    <3>4. work'[w].job.cancelled = work[w].job.cancelled
        BY <3>3, <1>c DEF AnyJob
    <3> QED
        BY <1>a, <2>1, <3>1, <3>2, <3>3, <3>4, MovedEarly DEF Started, history
  <2> QED
      BY <1>3, <2>2, <2>3 DEF GetRun
<1>4. ASSUME NEW w \in Workers, WorkerSavesJob(w) PROVE WorkersEarly'
  <2>1. UNCHANGED history /\ work[w].pc \in DOMAIN SavesJob
      BY <1>4 DEF WorkerSavesJob
  <2>2. CASE Retire(w)
      BY <1>a, <2>1, <2>2, RetireEffect, RetiredEarly
  <2>3. CASE Goto(w, SavesJob[work[w].pc]) /\ SavesJob[work[w].pc] # "idle"
    <3>1. /\ \A v \in Workers : v # w => work'[v] = work[v]
          /\ work'[w].msg = work[w].msg /\ work'[w].job = work[w].job
          /\ work'[w].pc = SavesJob[work[w].pc]
        BY <2>3, GotoEffect
    <3>2. /\ work'[w].pc \in {"start_run", "retry_run", "requeued_run", "dead_run"}
          /\ work'[w].pc \in Started => work[w].pc \in Started
          /\ work'[w].pc = "retry_run" => work[w].pc = "retry_job"
          /\ work[w].pc \notin {"idle", "get_job", "get_run", "cancel_run", "cancel_job"}
        BY <2>1, <2>3, <3>1, SavesJobTable DEF Started
    <3>3. /\ work'[w].pc \in Started => attempts[RunOf(w)] > 0
          /\ work'[w].pc = "retry_run" => work'[w].job.retries > 0
          /\ ~Unsaved(RunOf(w)) /\ RunOf(w) \notin heeded
        BY <1>c, <3>1, <3>2 DEF WorkerEarly
    <3> QED
        BY <1>a, <2>1, <3>1, <3>2, <3>3, MovedEarly DEF history
  <2> QED
      BY <1>4, <2>2, <2>3 DEF WorkerSavesJob
<1>5. ASSUME NEW w \in Workers, WorkerSavesRun(w) PROVE WorkersEarly'
  <2>1. UNCHANGED history /\ work[w].pc \in DOMAIN SavesRun
      BY <1>5 DEF WorkerSavesRun
  <2>2. CASE Retire(w)
      BY <1>a, <2>1, <2>2, RetireEffect, RetiredEarly
  <2>3. CASE Goto(w, SavesRun[work[w].pc]) /\ SavesRun[work[w].pc] # "idle"
    <3>1. /\ \A v \in Workers : v # w => work'[v] = work[v]
          /\ work'[w].msg = work[w].msg /\ work'[w].job = work[w].job
          /\ work'[w].pc = SavesRun[work[w].pc]
        BY <2>3, GotoEffect
    <3>2. \/ work[w].pc = "retry_run" /\ work'[w].pc = "enqueue"
          \/ work[w].pc = "cancel_run" /\ work'[w].pc = "cancel_job"
        BY <2>1, <2>3, <3>1, SavesRunTable
    <3>3. /\ work'[w].pc \in Started => attempts[RunOf(w)] > 0
          /\ work'[w].pc = "enqueue" => work'[w].job.retries > 0
          /\ ~Unsaved(RunOf(w))
          /\ RunOf(w) \in heeded => work'[w].pc = "cancel_job" /\ work'[w].job.cancelled
        BY <1>c, <3>1, <3>2 DEF WorkerEarly, Started
    <3> QED
        BY <1>a, <2>1, <3>1, <3>2, <3>3, MovedEarly DEF history
  <2> QED
      BY <1>5, <2>2, <2>3 DEF WorkerSavesRun
<1>6. ASSUME NEW w \in Workers, StartExecution(w) PROVE WorkersEarly'
  <2>1. /\ UNCHANGED heeded /\ attempts'[RunOf(w)] > 0
        /\ \A r \in Runs : attempts'[r] \in {attempts[r], attempts[r] + 1}
      BY <1>6, <1>b DEF StartExecution, Types
  <2>2. /\ \A v \in Workers : v # w => work'[v] = work[v]
        /\ work'[w].msg = work[w].msg /\ work'[w].pc = "wait"
      BY <1>6, GotoEffect DEF StartExecution
  <2>3. ~Unsaved(RunOf(w)) /\ RunOf(w) \notin heeded
      BY <1>6, <1>c DEF StartExecution, At, WorkerEarly
  <2> QED
      BY <1>a, <2>1, <2>2, <2>3, MovedEarly
<1>7. ASSUME NEW w \in Workers, UNCHANGED history, work[w].pc \in Started,
             \A v \in Workers : v # w => work'[v] = work[v], work'[w].msg = work[w].msg,
             work'[w].pc \in {"retry_job", "retry_run", "enqueue"} => work'[w].job.retries > 0
      PROVE  WorkersEarly'
  <2>1. attempts[RunOf(w)] > 0 /\ ~Unsaved(RunOf(w)) /\ RunOf(w) \notin heeded
      BY <1>7, <1>c DEF WorkerEarly, Started
  <2> QED
      BY <1>7, <1>a, <2>1, MovedEarly DEF history
<1>8. ASSUME NEW w \in Workers, TimesOut(w) PROVE WorkersEarly'
  <2>1. /\ \A v \in Workers : v # w => work'[v] = work[v]
        /\ work'[w].msg = work[w].msg /\ work'[w].pc = "wait" /\ work[w].pc = "wait"
      BY <1>8 DEF TimesOut, At, Types, WorkRec
  <2> QED
      BY <1>7, <1>8, <2>1 DEF TimesOut, Started
<1>9. ASSUME NEW w \in Workers, JoinSucceeded(w) PROVE WorkersEarly'
  <2>1. /\ \A v \in Workers : v # w => work'[v] = work[v]
        /\ work'[w].msg = work[w].msg /\ work'[w].pc = "get_done" /\ work[w].pc = "wait"
      BY <1>9, GotoEffect DEF JoinSucceeded, At
  <2> QED
      BY <1>7, <1>9, <2>1 DEF JoinSucceeded, Started
<1>10. ASSUME NEW w \in Workers, GetCompletedJob(w) PROVE WorkersEarly'
  <2>1. /\ \A v \in Workers : v # w => work'[v] = work[v]
        /\ work'[w].msg = work[w].msg /\ work'[w].pc = "done_job" /\ work[w].pc = "get_done"
      BY <1>10, CarryEffect DEF GetCompletedJob, At
  <2> QED
      BY <1>7, <1>10, <2>1 DEF GetCompletedJob, Started
<1>11. ASSUME NEW w \in Workers, JoinFailed(w) PROVE WorkersEarly'
  <2>1. PICK pc \in {"retry_job", "dead_job"}, st \in {"QUEUED", "DEAD_LETTERED"} :
            Carry(w, pc, [work[w].run EXCEPT !.status = st],
                  [work[w].job EXCEPT !.status = st, !.retries = work[w].job.retries + 1])
      BY <1>11 DEF JoinFailed
  <2>2. /\ \A v \in Workers : v # w => work'[v] = work[v]
        /\ work'[w].msg = work[w].msg /\ work'[w].pc = pc
        /\ work'[w].job = [work[w].job EXCEPT !.status = st, !.retries = work[w].job.retries + 1]
      BY <2>1, CarryEffect
  <2>3. work'[w].job.retries > 0
      BY <2>2, <1>c DEF AnyJob
  <2> QED
      BY <1>7, <1>11, <2>2, <2>3 DEF JoinFailed, At, Started
<1>12. ASSUME NEW w \in Workers, RetryEnqueue(w) PROVE WorkersEarly'
  <2>1. /\ \A v \in Workers : v # w => work'[v] = work[v]
        /\ work'[w].msg = work[w].msg /\ work'[w].pc = "requeued_job"
      BY <1>12, CarryEffect DEF RetryEnqueue
  <2> QED
      BY <1>7, <1>12, <2>1 DEF RetryEnqueue, At, Started
<1>13. ASSUME NEW w \in Workers, WorkerDies(w) PROVE WorkersEarly'
    BY <1>13, <1>a, RetireEffect, RetiredEarly DEF WorkerDies
<1>14. ASSUME NEW r \in Runs, CancelStop(r) PROVE WorkersEarly'
  <2>1. UNCHANGED history /\ \A v \in Workers : work'[v] \in {work[v], IdleWorker}
      BY <1>14 DEF CancelStop
  <2> QED
      BY <1>a, <2>1, RetiredEarly
<1>15. ASSUME NEW r \in Runs, CancelSaveJob(r) PROVE WorkersEarly'
  <2>1. UNCHANGED <<work, attempts>>
      BY <1>15 DEF CancelSaveJob
  <2>2. CASE UNCHANGED heeded
      BY <1>0, <2>1, <2>2 DEF history
  <2>3. CASE heeded' = heeded \cup {r} /\ FirstMessage(r) \in queue
    <3>1. attempts[r] = 0
        BY <1>a, <2>3 DEF WaitingInv
    <3>2. \A v \in Workers : RunOf(v) = r => work[v].pc \notin Started /\ ~Holds(v)
        BY <1>c, <2>3, <3>1 DEF WorkerEarly, OneToken, FirstMessage
    <3>3. \A v \in Workers : RunOf(v) = r => work[v].pc = "idle"
        BY <3>2 DEF Holds, Started
    <3>4. ASSUME NEW v \in Workers, RunOf(v) = r PROVE WorkerEarly(v)'
        BY <2>1, <3>3, <3>4 DEF WorkerEarly, Started
    <3>5. ASSUME NEW v \in Workers, RunOf(v) # r PROVE WorkerEarly(v)'
        BY <1>c, <2>1, <2>3, <3>5, StillEarly
    <3> QED
        BY <3>4, <3>5 DEF WorkersEarly
  <2> QED
      BY <1>15, <2>2, <2>3 DEF CancelSaveJob, FirstMessage
<1>16. ASSUME NEW r \in Runs,
              \/ SubmitAsync(r) \/ SubmitEnqueue(r) \/ SubmitSaveJob(r) \/ SubmitSaveRun(r)
              \/ SubmitSync(r) \/ SyncReturns(r) \/ SubmitAborts(r) \/ CancelRun(r)
              \/ CancelJob(r) \/ CancelSaveRun(r) \/ CancelGetJob(r) \/ CancelGetRun(r)
              \/ CancelAborts(r)
       PROVE  WorkersEarly'
  <2>1. UNCHANGED work /\ UNCHANGED history
      BY <1>16 DEF SubmitAsync, SubmitEnqueue, SubmitSaveJob, SubmitSaveRun, SubmitSync, SyncReturns,
                 SubmitAborts, CancelRun, CancelJob, CancelSaveRun, CancelGetJob, CancelGetRun,
                 CancelAborts
  <2> QED
      BY <1>0, <2>1
<1>17. ASSUME NEW p \in Procs, ThreadSteps(p) \/ Raises(p) PROVE WorkersEarly'
  <2>1. UNCHANGED work /\ UNCHANGED history
      BY <1>17 DEF ThreadSteps, ExecuteRun, ProgressReads, ProgressSaves, BootstrapReturns, SaveTrip,
                 SaveSuccess, Raises
  <2> QED
      BY <1>0, <2>1
<1>18. CASE UNCHANGED vars
    BY <1>0, <1>18 DEF vars, history
<1>19. CASE \E r \in Runs : \/ SubmitAsync(r) \/ SubmitSync(r)
                            \/ \E original \in Runs : RerunRun(r, original)
                            \/ SubmitSteps(r) \/ SubmitAborts(r)
                            \/ CancelRun(r) \/ CancelJob(r) \/ CancelSteps(r) \/ CancelAborts(r)
    BY <1>14, <1>15, <1>16, <1>19 DEF SubmitSteps, CancelSteps, RerunRun
<1>20. CASE \E w \in Workers : WorkerSteps(w) \/ TimesOut(w) \/ WorkerDies(w)
    BY <1>1, <1>2, <1>3, <1>4, <1>5, <1>6, <1>8, <1>9, <1>10, <1>11, <1>12, <1>13, <1>20
    DEF WorkerSteps
<1> QED
    BY <1>17, <1>18, <1>19, <1>20 DEF Next

\* At first every request is unsaved and no worker has anything in hand.
LEMMA EarlyInit == Init => EarlyInv
BY RunsAndWorkers
DEF Init, EarlyInv, UnsavedInv, WaitingInv, HeededInv, WorkersEarly, WorkerEarly, NoJob, NoCancel,
    IdleWorker, Started

\* An early cancellation stays recorded, always.
THEOREM EarlyInvariant == Spec => []EarlyInv
<1>1. Types /\ Types' /\ OneToken /\ EarlyInv /\ [Next]_vars => EarlyInv'
    BY UnsavedStep, WaitingStep, HeededStep, WorkersEarlyStep DEF EarlyInv
<1> QED
    BY <1>1, EarlyInit, TypesInvariant, TokenInvariant, PTL DEF Spec

\* A run cancelled while its first message waits is never executed by a worker,
\* even though the request that enqueued it may still overwrite the run row.
THEOREM EarlyCancelIsHonouredHolds == Spec => []EarlyCancelIsHonoured
<1>1. EarlyInv => EarlyCancelIsHonoured
    BY DEF EarlyInv, HeededInv, EarlyCancelIsHonoured
<1> QED
    BY <1>1, EarlyInvariant, PTL
-----------------------------------------------------------------------------
(* One worker: the budget of retries.                                      *)

\* A job row or copy that lets the run be executed again counts its n executions.
Counted(job, n) == job.cancelled \/ n <= job.retries

\* The next execution of the run will start from what the job row says.
Between(r) ==
    \/ \E m \in queue : m.run = r
    \/ \E w \in Workers : RunOf(w) = r /\ work[w].pc \in {"get_job", "retry_run", "enqueue"}

\* The worker's own copy counts them; while it waits, one is not counted yet.
CopyCounts(w) ==
    /\ work[w].pc = "get_run" => Counted(work[w].job, attempts[RunOf(w)])
    /\ work[w].pc \in {"start_job", "start_run", "retry_job", "retry_run", "enqueue",
                       "requeued_job"} => attempts[RunOf(w)] <= work[w].job.retries
    /\ work[w].pc = "wait" => attempts[RunOf(w)] <= work[w].job.retries + 1

BudgetInv ==
    /\ RetryBudget
    /\ \A r \in Runs : Between(r) => Counted(jobs[r], attempts[r])
    /\ \A w \in Workers : CopyCounts(w)

\* A step that neither writes a job row nor moves a run on, as far as job rows go.
Quiet(w) ==
    /\ UNCHANGED <<jobs, attempts, queue>>
    /\ \/ work'[w].pc = "idle"
       \/ /\ work'[w].pc = work[w].pc /\ work'[w].msg = work[w].msg
          /\ work'[w].job = work[w].job

\* The steps that are not quiet.
LEMMA LoneFrame ==
    ASSUME Types, NEW w \in Workers, Workers = {w}, [Next]_vars
    PROVE  \/ Quiet(w)
           \/ \E r \in Runs : SubmitEnqueue(r) \/ SubmitSaveJob(r) \/ CancelSaveJob(r)
           \/ Take(w) \/ GetJob(w) \/ GetRun(w) \/ WorkerSavesJob(w) \/ WorkerSavesRun(w)
           \/ StartExecution(w) \/ JoinSucceeded(w) \/ JoinFailed(w) \/ GetCompletedJob(w)
           \/ RetryEnqueue(w)
<1>1. ASSUME NEW r \in Runs,
             \/ SubmitAsync(r) \/ SubmitSaveRun(r) \/ SubmitSync(r) \/ SyncReturns(r)
             \/ SubmitAborts(r) \/ CancelRun(r) \/ CancelJob(r) \/ CancelSaveRun(r)
             \/ CancelGetJob(r) \/ CancelGetRun(r) \/ CancelAborts(r)
      PROVE  Quiet(w)
    BY <1>1 DEF SubmitAsync, SubmitSaveRun, SubmitSync, SyncReturns, SubmitAborts, CancelRun,
                CancelJob, CancelSaveRun, CancelGetJob, CancelGetRun, CancelAborts, Quiet, history
<1>2. ASSUME NEW r \in Runs, CancelStop(r) PROVE Quiet(w)
  <2>1. UNCHANGED <<jobs, queue, attempts>> /\ work'[w] \in {work[w], IdleWorker}
      BY <1>2 DEF CancelStop, history
  <2> QED
      BY <2>1 DEF Quiet, IdleWorker
<1>3. ASSUME TimesOut(w) PROVE Quiet(w)
    BY <1>3 DEF TimesOut, Quiet, Types, WorkRec, history
<1>4. ASSUME WorkerDies(w) PROVE Quiet(w)
    BY <1>4, RetireEffect DEF WorkerDies, Quiet, history
<1>5. ASSUME NEW p \in Procs, ThreadSteps(p) \/ Raises(p) PROVE Quiet(w)
    BY <1>5 DEF ThreadSteps, ExecuteRun, ProgressReads, ProgressSaves, BootstrapReturns, SaveTrip,
                SaveSuccess, Raises, Quiet, history
<1>6. CASE UNCHANGED vars
    BY <1>6 DEF vars, Quiet
<1>7. CASE \E r \in Runs : \/ SubmitAsync(r) \/ SubmitSync(r)
                           \/ \E original \in Runs : RerunRun(r, original)
                           \/ SubmitSteps(r) \/ SubmitAborts(r)
                           \/ CancelRun(r) \/ CancelJob(r) \/ CancelSteps(r) \/ CancelAborts(r)
    BY <1>1, <1>2, <1>7 DEF SubmitSteps, CancelSteps, RerunRun
<1>8. CASE \E v \in Workers : WorkerSteps(v) \/ TimesOut(v) \/ WorkerDies(v)
    BY <1>3, <1>4, <1>8 DEF WorkerSteps
<1> QED
    BY <1>5, <1>6, <1>7, <1>8 DEF Next

\* With one worker every execution is counted before the next one starts.
LEMMA BudgetStep ==
    ASSUME Types, Types', OneToken, SettledInv, EarlyInv, BudgetInv, [Next]_vars,
           NEW w \in Workers, Workers = {w}
    PROVE  BudgetInv'
<1> USE RunOfTypes, Bounds
<1>r. PICK r0 \in Runs : r0 = RunOf(w)
    OBVIOUS
<1>a. /\ r0 \in Runs /\ r0 = work[w].msg.run /\ RunOf(w)' = work'[w].msg.run
      /\ work[w] \in WorkRec /\ work[w].job \in AnyJob /\ work[w].job.retries \in Nat
      /\ work[w].job.cancelled \in BOOLEAN
    BY <1>r, RowTypes DEF RunOf, Types, WorkRec
<1>b. \A r \in Runs : /\ attempts[r] \in Nat /\ jobs[r] \in AnyJob /\ jobs[r].retries \in Nat
                      /\ attempts[r] <= MaxRetries + 1
                      /\ Between(r) => Counted(jobs[r], attempts[r])
    BY RowTypes DEF Types, BudgetInv, RetryBudget
<1>c. CopyCounts(w) /\ WorkerSound(w) /\ WorkerEarly(w)
    BY DEF BudgetInv, SettledInv, WorkersSound, EarlyInv, WorkersEarly
<1>d. Holds(w) => \A m \in queue : m.run # r0
    BY <1>a, <1>r DEF OneToken
\* It is enough to follow the one worker.
<1>e. ASSUME UNCHANGED attempts,
             \A r \in Runs : Between(r)' => Counted(jobs'[r], attempts[r]),
             CopyCounts(w)'
      PROVE  BudgetInv'
    BY <1>b, <1>e DEF BudgetInv, RetryBudget
<1>f. \A r \in Runs : Between(r)' <=> \/ \E m \in queue' : m.run = r
                                      \/ /\ work'[w].msg.run = r
                                         /\ work'[w].pc \in {"get_job", "retry_run", "enqueue"}
    BY <1>a DEF Between
<1>g. \A r \in Runs : Between(r) <=> \/ \E m \in queue : m.run = r
                                     \/ /\ r0 = r
                                        /\ work[w].pc \in {"get_job", "retry_run", "enqueue"}
    BY <1>r DEF Between
<1>1. CASE Quiet(w)
  <2>1. CopyCounts(w)' BY <1>r, <1>1, <1>a, <1>c DEF Quiet, CopyCounts
  <2>2. \A r \in Runs : Between(r)' => Between(r) BY <1>1, <1>a, <1>f, <1>g DEF Quiet
  <2> QED BY <1>1, <1>b, <1>e, <2>1, <2>2 DEF Quiet
<1>2. CASE \E r \in Runs : SubmitEnqueue(r)
  <2>1. PICK r \in Runs : SubmitEnqueue(r) BY <1>2
  <2>2. /\ UNCHANGED <<jobs, attempts, work>>
        /\ \A m \in queue' : m \in queue \/ m.run = r
    BY <2>1 DEF SubmitEnqueue, history
  <2>3. attempts[r] = 0 BY <2>1 DEF SubmitEnqueue, EarlyInv, UnsavedInv, Unsaved
  <2>4. CopyCounts(w)' BY <1>r, <1>a, <1>c, <2>2 DEF CopyCounts
  <2>5. \A q \in Runs : Between(q)' => Between(q) \/ q = r BY <1>a, <1>f, <1>g, <2>2
  <2> QED BY <1>b, <1>e, <2>2, <2>3, <2>4, <2>5 DEF Counted
<1>3. CASE \E r \in Runs : SubmitSaveJob(r)
  <2>1. PICK r \in Runs : SubmitSaveJob(r) BY <1>3
  <2>2. /\ UNCHANGED <<attempts, work, queue>>
        /\ \A q \in Runs : q # r => jobs'[q] = jobs[q]
    BY <2>1 DEF SubmitSaveJob, history, Types
  <2>3. attempts[r] = 0 /\ jobs'[r].retries \in Nat
    BY <2>1, RowTypes DEF SubmitSaveJob, EarlyInv, UnsavedInv, Unsaved, Types
  <2>4. CopyCounts(w)' BY <1>r, <1>a, <1>c, <2>2 DEF CopyCounts
  <2>5. \A q \in Runs : Between(q)' => Between(q) BY <1>a, <1>f, <1>g, <2>2
  <2> QED BY <1>b, <1>e, <2>2, <2>3, <2>4, <2>5 DEF Counted
<1>4. CASE \E r \in Runs : CancelSaveJob(r)
  <2>1. PICK r \in Runs : CancelSaveJob(r) BY <1>4
  <2>2. /\ UNCHANGED <<attempts, work, queue>> /\ jobs'[r] = cancel[r].job
        /\ \A q \in Runs : q # r => jobs'[q] = jobs[q]
    BY <2>1 DEF CancelSaveJob, Types
  <2>3. jobs'[r].cancelled BY <2>1, <2>2 DEF CancelSaveJob, EarlyInv, HeededInv
  <2>4. CopyCounts(w)' BY <1>r, <1>a, <1>c, <2>2 DEF CopyCounts
  <2>5. \A q \in Runs : Between(q)' => Between(q) BY <1>a, <1>f, <1>g, <2>2
  <2> QED BY <1>b, <1>e, <2>2, <2>3, <2>4, <2>5 DEF Counted
<1>5. CASE Take(w)
  <2>1. PICK m \in queue : /\ queue' = queue \ {m}
                           /\ work' = [work EXCEPT ![w] = [IdleWorker EXCEPT !.pc = "get_job", !.msg = m]]
    BY <1>5 DEF Take
  <2>2. work'[w].pc = "get_job" /\ work'[w].msg = m BY <2>1 DEF Types, IdleWorker
  <2>3. UNCHANGED <<jobs, attempts>> BY <1>5 DEF Take, history
  <2>4. CopyCounts(w)' BY <2>2 DEF CopyCounts
  <2>5. \A r \in Runs : Between(r)' => Between(r) BY <1>f, <1>g, <2>1, <2>2
  <2> QED BY <1>b, <1>e, <2>3, <2>4, <2>5
<1>6. CASE GetJob(w)
  <2>1. work[w].pc = "get_job" /\ UNCHANGED <<jobs, attempts, queue>>
    BY <1>6 DEF GetJob, At, history
  <2>2. work'[w].pc = "get_run" /\ work'[w].job = jobs[r0] /\ work'[w].msg = work[w].msg
    BY <1>r, <1>6, CarryEffect DEF GetJob
  <2>3. CopyCounts(w)' BY <1>a, <1>b, <1>g, <2>1, <2>2 DEF CopyCounts
  <2>4. \A r \in Runs : Between(r)' => Between(r) BY <1>a, <1>f, <1>g, <2>1, <2>2
  <2> QED BY <1>b, <1>e, <2>1, <2>3, <2>4
<1>7. CASE GetRun(w)
  <2>1. work[w].pc = "get_run" /\ UNCHANGED <<jobs, attempts, queue>>
    BY <1>7 DEF GetRun, At, history
  <2>2. \/ work'[w].pc \in {"idle", "cancel_run"}
        \/ /\ work'[w].pc = "start_job" /\ work'[w].msg = work[w].msg
           /\ ~work[w].job.cancelled
           /\ work'[w].job = [work[w].job EXCEPT !.status = "RUNNING"]
    BY <1>7, RetireEffect, CarryEffect DEF GetRun
  <2>3. work'[w].pc = "start_job" => work'[w].job.retries = work[w].job.retries
    BY <1>a, <2>2 DEF AnyJob
  <2>4. CopyCounts(w)' BY <1>r, <1>a, <1>c, <2>1, <2>2, <2>3 DEF CopyCounts, Counted
  <2>5. \A r \in Runs : Between(r)' => Between(r) BY <1>f, <1>g, <2>1, <2>2
  <2> QED BY <1>b, <1>e, <2>1, <2>4, <2>5
<1>8. CASE WorkerSavesJob(w)
  <2>1. /\ work[w].pc \in DOMAIN SavesJob /\ UNCHANGED <<attempts, queue>>
        /\ jobs'[r0] = work[w].job /\ \A r \in Runs : r # r0 => jobs'[r] = jobs[r]
    BY <1>r, <1>8, <1>a DEF WorkerSavesJob, history, Types
  <2>2. \/ work'[w].pc = "idle"
        \/ /\ work'[w].pc = SavesJob[work[w].pc] /\ work'[w].msg = work[w].msg
           /\ work'[w].job = work[w].job
    BY <1>8, RetireEffect, GotoEffect DEF WorkerSavesJob
  <2>3. CopyCounts(w)' BY <1>r, <1>a, <1>c, <2>1, <2>2, SavesJobTable DEF CopyCounts
  <2>4. \A r \in Runs : Between(r)' => Between(r) \/ r = r0 BY <1>a, <1>f, <1>g, <2>1, <2>2
  <2>5. Between(r0)' => work[w].pc \in {"retry_job", "requeued_job"}
    <3>1. work'[w].pc \notin {"get_job", "enqueue"}
          /\ (work'[w].pc = "retry_run" => work[w].pc = "retry_job")
      BY <2>1, <2>2, SavesJobTable
    <3>2. (\E m \in queue' : m.run = r0) => ~Holds(w) BY <1>d, <2>1
    <3>3. ~Holds(w) => work[w].pc = "requeued_job" BY <2>1, SavesJobTable DEF Holds
    <3> QED BY <1>a, <1>f, <3>1, <3>2, <3>3
  <2>6. Between(r0)' => Counted(jobs'[r0], attempts[r0])
    BY <1>r, <1>c, <2>1, <2>5 DEF CopyCounts, Counted
  <2>7. ASSUME NEW r \in Runs, Between(r)' PROVE Counted(jobs'[r], attempts[r])
    <3>1. CASE r = r0 BY <2>6, <2>7, <3>1
    <3>2. CASE r # r0
      <4>1. jobs'[r] = jobs[r] /\ Between(r) BY <2>1, <2>4, <2>7, <3>2
      <4> QED BY <1>b, <4>1
    <3> QED BY <3>1, <3>2
  <2> QED BY <1>e, <2>1, <2>3, <2>7
<1>9. CASE WorkerSavesRun(w)
  <2>1. work[w].pc \in DOMAIN SavesRun /\ UNCHANGED <<jobs, attempts, queue>>
    BY <1>9 DEF WorkerSavesRun, history
  <2>2. \/ work'[w].pc = "idle"
        \/ /\ work'[w].pc = SavesRun[work[w].pc] /\ work'[w].msg = work[w].msg
           /\ work'[w].job = work[w].job
    BY <1>9, RetireEffect, GotoEffect DEF WorkerSavesRun
  <2>3. CopyCounts(w)' BY <1>r, <1>a, <1>c, <2>1, <2>2, SavesRunTable DEF CopyCounts
  <2>4. \A r \in Runs : Between(r)' => Between(r)
    BY <1>a, <1>f, <1>g, <2>1, <2>2, SavesRunTable
  <2> QED BY <1>b, <1>e, <2>1, <2>3, <2>4
<1>10. CASE StartExecution(w)
  <2>1. /\ work[w].pc = "start_run" /\ UNCHANGED <<jobs, queue>>
        /\ attempts'[r0] = attempts[r0] + 1 /\ \A r \in Runs : r # r0 => attempts'[r] = attempts[r]
    BY <1>r, <1>10, <1>a DEF StartExecution, At, Types
  <2>2. work'[w].pc = "wait" /\ work'[w].msg = work[w].msg /\ work'[w].job = work[w].job
    BY <1>10, GotoEffect DEF StartExecution
  <2>3. attempts[r0] <= work[w].job.retries BY <1>r, <1>c, <2>1 DEF CopyCounts
  <2>4. work[w].job.retries <= MaxRetries
    BY <1>a, <1>c, <2>1 DEF WorkerSound, Sound, Settled, LiveAt
  <2>5. CopyCounts(w)'
    <3>1. RunOf(w)' = r0 BY <1>a, <2>2
    <3>2. attempts'[r0] <= work[w].job.retries + 1 BY <1>a, <1>b, <2>1, <2>3
    <3> QED BY <2>2, <3>1, <3>2 DEF CopyCounts
  <2>6. \A r \in Runs : Between(r)' => Between(r) /\ r # r0
    BY <1>a, <1>d, <1>f, <1>g, <2>1, <2>2 DEF Holds
  <2>7. \A r \in Runs : Between(r)' => Counted(jobs'[r], attempts'[r])
    BY <1>b, <2>1, <2>6
  <2>8. \A r \in Runs : attempts'[r] <= MaxRetries + 1
    BY <1>a, <1>b, <2>1, <2>3, <2>4
  <2> QED BY <2>5, <2>7, <2>8 DEF BudgetInv, RetryBudget
<1>11. CASE JoinSucceeded(w) \/ GetCompletedJob(w)
  <2>1. /\ work'[w].pc \in {"get_done", "done_job"} /\ work'[w].msg = work[w].msg
        /\ UNCHANGED <<jobs, attempts, queue>>
    BY <1>11, GotoEffect, CarryEffect DEF JoinSucceeded, GetCompletedJob, history
  <2>2. CopyCounts(w)' BY <2>1 DEF CopyCounts
  <2>3. \A r \in Runs : Between(r)' => Between(r) BY <1>f, <1>g, <2>1
  <2> QED BY <1>b, <1>e, <2>1, <2>2, <2>3
<1>12. CASE JoinFailed(w)
  <2>1. PICK pc \in {"retry_job", "dead_job"}, st \in {"QUEUED", "DEAD_LETTERED"} :
            Carry(w, pc, [work[w].run EXCEPT !.status = st],
                  [work[w].job EXCEPT !.status = st, !.retries = work[w].job.retries + 1])
    BY <1>12 DEF JoinFailed
  <2>2. /\ work'[w].pc = pc /\ work'[w].msg = work[w].msg
        /\ work'[w].job = [work[w].job EXCEPT !.status = st, !.retries = work[w].job.retries + 1]
    BY <2>1, CarryEffect
  <2>3. work'[w].job.retries = work[w].job.retries + 1 BY <1>a, <2>2 DEF AnyJob
  <2>4. work[w].pc = "wait" /\ UNCHANGED <<jobs, attempts, queue>>
    BY <1>12 DEF JoinFailed, At, history
  <2>5. CopyCounts(w)' BY <1>r, <1>a, <1>c, <2>2, <2>3, <2>4 DEF CopyCounts
  <2>6. \A r \in Runs : Between(r)' => Between(r) BY <1>f, <1>g, <2>2, <2>4
  <2> QED BY <1>b, <1>e, <2>4, <2>5, <2>6
<1>13. CASE RetryEnqueue(w)
  <2>1. /\ work[w].pc = "enqueue" /\ UNCHANGED <<jobs, attempts>>
        /\ \A m \in queue' : m \in queue \/ m.run = r0
    BY <1>r, <1>13 DEF RetryEnqueue, At, history
  <2>2. /\ work'[w].pc = "requeued_job" /\ work'[w].msg = work[w].msg
        /\ work'[w].job = [work[w].job EXCEPT !.qid = work[w].job.retries]
    BY <1>13, CarryEffect DEF RetryEnqueue
  <2>3. work'[w].job.retries = work[w].job.retries BY <1>a, <2>2 DEF AnyJob
  <2>4. CopyCounts(w)' BY <1>r, <1>a, <1>c, <2>1, <2>2, <2>3 DEF CopyCounts
  <2>5. \A r \in Runs : Between(r)' => Between(r) BY <1>f, <1>g, <2>1, <2>2
  <2> QED BY <1>b, <1>e, <2>1, <2>4, <2>5
<1> QED
    BY <1>1, <1>2, <1>3, <1>4, <1>5, <1>6, <1>7, <1>8, <1>9, <1>10, <1>11, <1>12, <1>13, LoneFrame

LEMMA BudgetInit == Init => BudgetInv
BY Bounds, RunsAndWorkers
DEF Init, BudgetInv, RetryBudget, Between, CopyCounts, Counted, NoJob, IdleWorker

\* RetryBudget for one worker, and any runs, retries, failures, deaths and cancellations: no
\* run is executed more than 1 + MaxRetries times.
THEOREM RetryBudgetHolds == (\E w : Workers = {w}) => (Spec => []RetryBudget)
<1> SUFFICES ASSUME NEW w, Workers = {w} PROVE Spec => []RetryBudget
    OBVIOUS
<1>1. Types /\ Types' /\ OneToken /\ SettledInv /\ EarlyInv /\ BudgetInv /\ [Next]_vars => BudgetInv'
    BY BudgetStep
<1>2. BudgetInv => RetryBudget
    BY DEF BudgetInv
<1> QED
    BY <1>1, <1>2, BudgetInit, TypesInvariant, TokenInvariant, SettledInvariant, EarlyInvariant, PTL
    DEF Spec
-----------------------------------------------------------------------------
(* One worker and no cancellation: settled job rows.                       *)

\* The run may still be executed, or its worker still writes its job row.
ToCome(r) ==
    \/ Unsaved(r)
    \/ \E m \in queue : m.run = r
    \/ \E w \in Workers : RunOf(w) = r /\ work[w].pc \notin {"idle", "requeued_run", "dead_run"}

\* The copy that the worker will save counts no less than the row.
CopyAhead(w) ==
    /\ work[w].pc \notin {"idle", "get_job", "requeued_run", "dead_run"} =>
          jobs[RunOf(w)].retries <= work[w].job.retries
    /\ work[w].pc = "start_job" => work[w].job.status = "RUNNING"
    /\ work[w].pc \in {"retry_job", "retry_run", "enqueue", "requeued_job"} =>
          work[w].job.status = "QUEUED"

NoneCancelled == \A r \in Runs : cancel[r].pc = "idle"

UndoneInv ==
    /\ NoneCancelled
    /\ \A r \in Runs : ToCome(r) => jobs[r].status \notin Terminal
    /\ \A w \in Workers : CopyAhead(w)

LEMMA NoneCancelledStep ==
    ASSUME Types, MaxCancels = 0, NoneCancelled, [Next]_vars
    PROVE  UNCHANGED cancel
<1>1. CancelsSoFar = 0
  <2>1. {r \in Runs : cancel[r].pc # "idle"} = {} BY DEF NoneCancelled
  <2> QED BY <2>1, FS_EmptySet DEF CancelsSoFar
<1>2. ASSUME NEW r \in Runs, CancelRun(r) \/ CancelJob(r) \/ CancelSteps(r) \/ CancelAborts(r)
      PROVE  FALSE
  <2>1. cancel[r].pc = "idle" BY DEF NoneCancelled
  <2>2. ~CancelRun(r) /\ ~CancelJob(r) BY <1>1 DEF CancelRun, CancelJob
  <2> QED BY <1>2, <2>1, <2>2 DEF CancelSteps, CancelSaveRun, CancelGetJob, CancelSaveJob,
                                  CancelGetRun, CancelStop, CancelAborts
<1>3. ASSUME NEW r \in Runs,
             \/ SubmitAsync(r) \/ SubmitSync(r) \/ SubmitSteps(r) \/ SubmitAborts(r)
             \/ \E original \in Runs : RerunRun(r, original)
      PROVE  UNCHANGED cancel
    BY <1>3 DEF SubmitAsync, SubmitSync, SubmitSteps, SubmitEnqueue, SubmitSaveJob, SubmitSaveRun,
                SyncReturns, SubmitAborts, RerunRun
<1>4. ASSUME NEW w \in Workers, WorkerSteps(w) \/ TimesOut(w) \/ WorkerDies(w)
      PROVE  UNCHANGED cancel
    BY <1>4 DEF WorkerSteps, Take, GetJob, GetRun, WorkerSavesJob, WorkerSavesRun, StartExecution,
                TimesOut, JoinSucceeded, GetCompletedJob, JoinFailed, RetryEnqueue, WorkerDies
<1>5. ASSUME NEW p \in Procs, ThreadSteps(p) \/ Raises(p) PROVE UNCHANGED cancel
    BY <1>5 DEF ThreadSteps, ExecuteRun, ProgressReads, ProgressSaves, BootstrapReturns, SaveTrip,
                SaveSuccess, Raises
<1> QED
    BY <1>2, <1>3, <1>4, <1>5 DEF Next, vars

\* What a worker writes into a job row that is not settled.
LEMMA SavesAhead ==
    ASSUME Types, OneToken, EarlyInv, UndoneInv, NEW w \in Workers, WorkerSavesJob(w)
    PROVE  /\ jobs[RunOf(w)].status \notin Terminal
           /\ jobs[RunOf(w)].retries <= work[w].job.retries
           /\ jobs'[RunOf(w)] = work[w].job
           /\ \A r \in Runs : r # RunOf(w) => jobs'[r] = jobs[r]
<1>1. work[w].pc \in {"start_job", "done_job", "retry_job", "requeued_job", "dead_job",
                      "cancel_job"}
    BY SavesJobTable DEF WorkerSavesJob
<1>2. RunOf(w) \in Runs
    BY RunOfTypes, RunsAndWorkers DEF Procs
<1>3. ToCome(RunOf(w))
    BY <1>1 DEF ToCome
<1> QED
    BY <1>1, <1>2, <1>3 DEF UndoneInv, CopyAhead, WorkerSavesJob, Types

\* No step undoes a settled job row, or lets the row and the copy of the worker part.
LEMMA UndoneStep ==
    ASSUME Types, Types', OneToken, EarlyInv, UndoneInv, MaxCancels = 0, [Next]_vars,
           NEW w \in Workers, Workers = {w}
    PROVE  UndoneInv'
<1> USE RunOfTypes, Bounds
<1>r. PICK r0 \in Runs : r0 = RunOf(w)
    OBVIOUS
<1>a. /\ r0 = work[w].msg.run /\ RunOf(w)' = work'[w].msg.run
      /\ work[w].job \in AnyJob /\ work[w].job.retries \in Nat
    BY <1>r, RowTypes DEF RunOf, Types, WorkRec
<1>b. \A r \in Runs : /\ jobs[r] \in AnyJob /\ jobs[r].retries \in Nat
                      /\ ToCome(r) => jobs[r].status \notin Terminal
    BY RowTypes DEF Types, UndoneInv
<1>c. CopyAhead(w) /\ WorkerEarly(w)
    BY DEF UndoneInv, EarlyInv, WorkersEarly
<1>d. Holds(w) => \A m \in queue : m.run # r0
    BY <1>r, <1>a DEF OneToken
<1>e. UNCHANGED cancel /\ NoneCancelled'
    BY NoneCancelledStep DEF UndoneInv, NoneCancelled
<1>f. ASSUME \A r \in Runs : ToCome(r)' => jobs'[r].status \notin Terminal, CopyAhead(w)'
      PROVE  UndoneInv'
    BY <1>e, <1>f DEF UndoneInv
<1>g. \A r \in Runs : Unsaved(r)' => Unsaved(r)
    BY EarlyFrame
<1>h. \A r \in Runs : ToCome(r)' <=>
          \/ Unsaved(r)'
          \/ \E m \in queue' : m.run = r
          \/ /\ work'[w].msg.run = r
             /\ work'[w].pc \notin {"idle", "requeued_run", "dead_run"}
    BY <1>a DEF ToCome
<1>i. \A r \in Runs : ToCome(r) <=>
          \/ Unsaved(r)
          \/ \E m \in queue : m.run = r
          \/ r0 = r /\ work[w].pc \notin {"idle", "requeued_run", "dead_run"}
    BY <1>r DEF ToCome
<1>1. CASE Quiet(w)
  <2>1. CopyAhead(w)' BY <1>1, <1>r, <1>a, <1>c DEF Quiet, CopyAhead
  <2>2. \A r \in Runs : ToCome(r)' => ToCome(r) BY <1>1, <1>a, <1>g, <1>h, <1>i DEF Quiet
  <2> QED BY <1>1, <1>b, <1>f, <2>1, <2>2 DEF Quiet
<1>2. CASE \E r \in Runs : SubmitEnqueue(r)
  <2>1. PICK r \in Runs : SubmitEnqueue(r) BY <1>2
  <2>2. /\ UNCHANGED <<jobs, work>> /\ Unsaved(r)
        /\ \A m \in queue' : m \in queue \/ m.run = r
    BY <2>1 DEF SubmitEnqueue, Unsaved
  <2>3. CopyAhead(w)' BY <1>r, <1>a, <1>c, <2>2 DEF CopyAhead
  <2>4. \A q \in Runs : ToCome(q)' => ToCome(q) BY <1>a, <1>g, <1>h, <1>i, <2>2
  <2> QED BY <1>b, <1>f, <2>2, <2>3, <2>4
<1>3. CASE \E r \in Runs : SubmitSaveJob(r)
  <2>1. PICK r \in Runs : SubmitSaveJob(r) BY <1>3
  <2>2. /\ UNCHANGED <<work, queue>> /\ jobs'[r] = [BuildJob EXCEPT !.qid = submit[r].run.qid]
        /\ \A q \in Runs : q # r => jobs'[q] = jobs[q]
    BY <2>1 DEF SubmitSaveJob, Types
  <2>3. jobs'[r].status = "QUEUED" /\ jobs'[r].retries = 0
    BY <2>2 DEF BuildJob, NoJob
  <2>4. CopyAhead(w)'
    <3>1. work'[w] = work[w] /\ RunOf(w)' = r0 BY <1>a, <2>2
    <3>2. jobs'[r0] = jobs[r0] \/ jobs'[r0].retries = 0 BY <2>2, <2>3
    <3>3. jobs[r0].retries <= work[w].job.retries => jobs'[r0].retries <= work[w].job.retries
      BY <1>a, <3>2
    <3> QED BY <1>r, <1>c, <3>1, <3>3 DEF CopyAhead
  <2>5. \A q \in Runs : ToCome(q)' => ToCome(q) BY <1>a, <1>g, <1>h, <1>i, <2>2
  <2>6. "QUEUED" \notin Terminal BY DEF Terminal
  <2> QED BY <1>b, <1>f, <2>2, <2>3, <2>4, <2>5, <2>6
<1>4. CASE \E r \in Runs : CancelSaveJob(r)
    BY <1>4 DEF CancelSaveJob, UndoneInv, NoneCancelled
<1>5. CASE Take(w)
  <2>1. PICK m \in queue : /\ queue' = queue \ {m}
                           /\ work' = [work EXCEPT ![w] = [IdleWorker EXCEPT !.pc = "get_job", !.msg = m]]
    BY <1>5 DEF Take
  <2>2. work'[w].pc = "get_job" /\ work'[w].msg = m BY <2>1 DEF Types, IdleWorker
  <2>3. UNCHANGED jobs BY <1>5 DEF Take
  <2>4. CopyAhead(w)' BY <2>2 DEF CopyAhead
  <2>5. \A r \in Runs : ToCome(r)' => ToCome(r) BY <1>g, <1>h, <1>i, <2>1, <2>2
  <2> QED BY <1>b, <1>f, <2>3, <2>4, <2>5
<1>6. CASE GetJob(w)
  <2>1. work[w].pc = "get_job" /\ UNCHANGED <<jobs, queue>> BY <1>6 DEF GetJob, At
  <2>2. work'[w].pc = "get_run" /\ work'[w].job = jobs[r0] /\ work'[w].msg = work[w].msg
    BY <1>6, <1>r, CarryEffect DEF GetJob
  <2>3. CopyAhead(w)' BY <1>a, <1>b, <2>1, <2>2 DEF CopyAhead
  <2>4. \A r \in Runs : ToCome(r)' => ToCome(r) BY <1>a, <1>g, <1>h, <1>i, <2>1, <2>2
  <2> QED BY <1>b, <1>f, <2>1, <2>3, <2>4
<1>7. CASE GetRun(w)
  <2>1. work[w].pc = "get_run" /\ UNCHANGED <<jobs, queue>> BY <1>7 DEF GetRun, At
  <2>2. \/ work'[w].pc = "idle"
        \/ /\ work'[w].msg = work[w].msg
           /\ \/ /\ work'[w].pc = "cancel_run"
                 /\ work'[w].job = [work[w].job EXCEPT !.status = "CANCELLED"]
              \/ /\ work'[w].pc = "start_job"
                 /\ work'[w].job = [work[w].job EXCEPT !.status = "RUNNING"]
    BY <1>7, RetireEffect, CarryEffect DEF GetRun
  <2>3. work'[w].pc # "idle" => work'[w].job.retries = work[w].job.retries
    BY <1>a, <2>2 DEF AnyJob
  <2>4. work'[w].pc = "start_job" => work'[w].job.status = "RUNNING"
    BY <1>a, <2>2 DEF AnyJob
  <2>5. CopyAhead(w)' BY <1>r, <1>a, <1>c, <2>1, <2>2, <2>3, <2>4 DEF CopyAhead
  <2>6. \A r \in Runs : ToCome(r)' => ToCome(r) BY <1>a, <1>g, <1>h, <1>i, <2>1, <2>2
  <2> QED BY <1>b, <1>f, <2>1, <2>5, <2>6
<1>8. CASE WorkerSavesJob(w)
  <2>1. /\ work[w].pc \in DOMAIN SavesJob /\ UNCHANGED queue
        /\ jobs'[r0] = work[w].job /\ \A r \in Runs : r # r0 => jobs'[r] = jobs[r]
    BY <1>8, <1>r, SavesAhead DEF WorkerSavesJob
  <2>2. \/ work'[w].pc = "idle" /\ SavesJob[work[w].pc] = "idle"
        \/ /\ work'[w].pc = SavesJob[work[w].pc] /\ work'[w].msg = work[w].msg
           /\ work'[w].job = work[w].job
    BY <1>8, RetireEffect, GotoEffect DEF WorkerSavesJob
  <2>3. CopyAhead(w)'
    <3>1. work'[w].pc # "idle" => RunOf(w)' = r0 BY <1>a, <2>1, <2>2
    <3> QED BY <1>r, <1>a, <1>c, <2>1, <2>2, <3>1, SavesJobTable DEF CopyAhead
  <2>4. \A r \in Runs : r # r0 => (ToCome(r)' => ToCome(r))
    BY <1>a, <1>g, <1>h, <1>i, <2>1, <2>2
  <2>5. CASE work[w].pc \in {"start_job", "retry_job", "requeued_job"}
    <3>1. jobs'[r0].status \notin Terminal BY <1>c, <2>1, <2>5 DEF CopyAhead, Terminal
    <3> QED BY <1>b, <1>f, <2>1, <2>3, <2>4, <3>1
  <2>6. CASE work[w].pc \in {"done_job", "dead_job", "cancel_job"}
    <3>1. \A m \in queue : m.run # r0 BY <1>d, <2>6 DEF Holds
    <3>2. ~Unsaved(r0) BY <1>r, <1>c, <2>6 DEF WorkerEarly
    <3>3. work'[w].pc \in {"idle", "dead_run"} BY <2>2, <2>6, SavesJobTable
    <3>4. ~ToCome(r0)' BY <1>g, <1>h, <2>1, <3>1, <3>2, <3>3
    <3> QED BY <1>b, <1>f, <2>1, <2>3, <2>4, <3>4
  <2> QED BY <2>1, <2>5, <2>6, SavesJobTable
<1>9. CASE WorkerSavesRun(w)
  <2>1. work[w].pc \in DOMAIN SavesRun /\ UNCHANGED <<jobs, queue>> BY <1>9 DEF WorkerSavesRun
  <2>2. \/ work'[w].pc = "idle"
        \/ /\ work'[w].pc = SavesRun[work[w].pc] /\ work'[w].msg = work[w].msg
           /\ work'[w].job = work[w].job
    BY <1>9, RetireEffect, GotoEffect DEF WorkerSavesRun
  <2>3. work'[w].pc = "idle" \/ /\ work[w].pc = "retry_run" /\ work'[w].pc = "enqueue"
                             \/ /\ work[w].pc = "cancel_run" /\ work'[w].pc = "cancel_job"
    BY <2>1, <2>2, SavesRunTable
  <2>4. CopyAhead(w)' BY <1>r, <1>a, <1>c, <2>1, <2>2, <2>3 DEF CopyAhead
  <2>5. \A r \in Runs : ToCome(r)' => ToCome(r) BY <1>a, <1>g, <1>h, <1>i, <2>1, <2>2, <2>3
  <2> QED BY <1>b, <1>f, <2>1, <2>4, <2>5
<1>10. CASE StartExecution(w) \/ JoinSucceeded(w)
  <2>1. /\ UNCHANGED <<jobs, queue>> /\ work[w].pc \in {"start_run", "wait"}
        /\ work'[w].pc \in {"wait", "get_done"}
        /\ work'[w].msg = work[w].msg /\ work'[w].job = work[w].job
    BY <1>10, GotoEffect DEF StartExecution, JoinSucceeded, At
  <2>2. CopyAhead(w)' BY <1>r, <1>a, <1>c, <2>1 DEF CopyAhead
  <2>3. \A r \in Runs : ToCome(r)' => ToCome(r) BY <1>a, <1>g, <1>h, <1>i, <2>1
  <2> QED BY <1>b, <1>f, <2>1, <2>2, <2>3
<1>11. CASE GetCompletedJob(w)
  <2>1. /\ UNCHANGED <<jobs, queue>> /\ work[w].pc = "get_done" /\ work'[w].pc = "done_job"
        /\ work'[w].msg = work[w].msg /\ work'[w].job = [jobs[r0] EXCEPT !.status = "SUCCEEDED"]
    BY <1>11, <1>r, CarryEffect DEF GetCompletedJob, At
  <2>2. work'[w].job.retries = jobs[r0].retries BY <1>b, <2>1 DEF AnyJob
  <2>3. CopyAhead(w)' BY <1>a, <1>b, <2>1, <2>2 DEF CopyAhead
  <2>4. \A r \in Runs : ToCome(r)' => ToCome(r) BY <1>a, <1>g, <1>h, <1>i, <2>1
  <2> QED BY <1>b, <1>f, <2>1, <2>3, <2>4
<1>12. CASE JoinFailed(w)
  <2>1. PICK pc \in {"retry_job", "dead_job"}, st \in {"QUEUED", "DEAD_LETTERED"} :
            /\ Carry(w, pc, [work[w].run EXCEPT !.status = st],
                     [work[w].job EXCEPT !.status = st, !.retries = work[w].job.retries + 1])
            /\ pc = "retry_job" => st = "QUEUED"
    BY <1>12 DEF JoinFailed
  <2>2. /\ work'[w].pc = pc /\ work'[w].msg = work[w].msg
        /\ work'[w].job = [work[w].job EXCEPT !.status = st, !.retries = work[w].job.retries + 1]
    BY <2>1, CarryEffect
  <2>3. work'[w].job.retries = work[w].job.retries + 1 /\ work'[w].job.status = st
    BY <1>a, <2>2 DEF AnyJob
  <2>4. work[w].pc = "wait" /\ UNCHANGED <<jobs, queue>> BY <1>12 DEF JoinFailed, At
  <2>5. CopyAhead(w)' BY <1>r, <1>a, <1>b, <1>c, <2>1, <2>2, <2>3, <2>4 DEF CopyAhead
  <2>6. \A r \in Runs : ToCome(r)' => ToCome(r) BY <1>a, <1>g, <1>h, <1>i, <2>2, <2>4
  <2> QED BY <1>b, <1>f, <2>4, <2>5, <2>6
<1>13. CASE RetryEnqueue(w)
  <2>1. /\ work[w].pc = "enqueue" /\ UNCHANGED jobs
        /\ \A m \in queue' : m \in queue \/ m.run = r0
    BY <1>13, <1>r DEF RetryEnqueue, At
  <2>2. /\ work'[w].pc = "requeued_job" /\ work'[w].msg = work[w].msg
        /\ work'[w].job = [work[w].job EXCEPT !.qid = work[w].job.retries]
    BY <1>13, CarryEffect DEF RetryEnqueue
  <2>3. work'[w].job.retries = work[w].job.retries /\ work'[w].job.status = work[w].job.status
    BY <1>a, <2>2 DEF AnyJob
  <2>4. CopyAhead(w)' BY <1>r, <1>a, <1>c, <2>1, <2>2, <2>3 DEF CopyAhead
  <2>5. \A r \in Runs : ToCome(r)' => ToCome(r) BY <1>a, <1>g, <1>h, <1>i, <2>1, <2>2
  <2> QED BY <1>b, <1>f, <2>1, <2>4, <2>5
<1> QED
    BY <1>1, <1>2, <1>3, <1>4, <1>5, <1>6, <1>7, <1>8, <1>9, <1>10, <1>11, <1>12, <1>13, LoneFrame

LEMMA UndoneInit == Init => UndoneInv
BY RunsAndWorkers
DEF Init, UndoneInv, NoneCancelled, ToCome, CopyAhead, NoJob, NoCancel, IdleWorker, Absent, Terminal

\* Only the saves of the request, of a cancellation and of the worker write job rows.
LEMMA JobWriters ==
    ASSUME Types, NEW w \in Workers, Workers = {w}, [Next]_vars
    PROVE  \/ UNCHANGED jobs \/ WorkerSavesJob(w)
           \/ \E r \in Runs : SubmitSaveJob(r) \/ CancelSaveJob(r)
BY LoneFrame DEF Quiet, SubmitEnqueue, Take, GetJob, GetRun, WorkerSavesRun, StartExecution,
                 JoinSucceeded, JoinFailed, GetCompletedJob, RetryEnqueue

\* SettledJobsStaySettled for one worker that may fail and die but no cancellation: a job row
\* that is settled keeps its status, and no retry count falls.
THEOREM SettledJobsStaySettledHolds ==
    (\E w : Workers = {w}) /\ MaxCancels = 0 => (Spec => SettledJobsStaySettled)
<1> SUFFICES ASSUME NEW w, Workers = {w}, MaxCancels = 0 PROVE Spec => SettledJobsStaySettled
    OBVIOUS
<1> DEFINE Stay == \A r \in Runs : /\ jobs[r].status \in Terminal => jobs'[r].status = jobs[r].status
                                   /\ jobs[r].retries <= jobs'[r].retries
<1>1. Types /\ Types' /\ OneToken /\ EarlyInv /\ UndoneInv /\ [Next]_vars => UndoneInv'
    BY UndoneStep
<1>2. ASSUME Types, OneToken, SettledInv, EarlyInv, UndoneInv, [Next]_vars PROVE [Stay]_jobs
  <2>1. \A r \in Runs : jobs[r].retries \in Nat /\ attempts[r] \in Nat
      BY <1>2, RowTypes DEF Types
  <2>2. CASE WorkerSavesJob(w)
      BY <1>2, <2>1, <2>2, SavesAhead
  <2>3. ASSUME NEW r \in Runs, SubmitSaveJob(r) PROVE Stay
    <3>1. jobs[r].status = Absent /\ attempts[r] = 0
        BY <1>2, <2>3 DEF SubmitSaveJob, EarlyInv, UnsavedInv, Unsaved
    <3>2. jobs[r].retries = 0
        BY <1>2, <2>1, <3>1 DEF SettledInv, JobsSound, Sound
    <3>3. /\ jobs'[r] = [BuildJob EXCEPT !.qid = submit[r].run.qid]
          /\ \A q \in Runs : q # r => jobs'[q] = jobs[q]
        BY <1>2, <2>3 DEF SubmitSaveJob, Types
    <3>4. jobs'[r].retries = 0
        BY <3>3 DEF BuildJob, NoJob
    <3>5. Absent \notin Terminal
        BY DEF Absent, Terminal
    <3>6. jobs[r].status \notin Terminal
        BY <3>1, <3>5
    <3>7. jobs[r].retries <= jobs'[r].retries
        BY <3>2, <3>4
    <3>8. \A q \in Runs : q # r => jobs'[q] = jobs[q] /\ jobs[q].retries <= jobs'[q].retries
        BY <2>1, <3>3
    <3> QED
        BY <3>6, <3>7, <3>8
  <2>4. ASSUME NEW r \in Runs, CancelSaveJob(r) PROVE FALSE
      BY <1>2, <2>4 DEF CancelSaveJob, UndoneInv, NoneCancelled
  <2> QED
      BY <1>2, <2>2, <2>3, <2>4, JobWriters
<1> HIDE DEF Stay
<1>3. Spec => [][Stay]_jobs
    BY <1>1, <1>2, UndoneInit, TypesInvariant, TokenInvariant, SettledInvariant, EarlyInvariant, PTL
    DEF Spec
<1> QED
    BY <1>3 DEF Stay, SettledJobsStaySettled
=============================================================================
