# AI Travel Planner: specifications and proofs

This directory holds the TLA+ specifications of the travel planner in `src/`, the TLC
configurations that check them on small instances, and the proofs that the TLA+ proof system
checks for every instance. Paths below are relative to `src/`; `be/` stands for `backend/src/`,
`tp/` for `backend/src/agents/travel_planner/` and `fe/` for `frontend/src/`.

## 1. The system

A user asks the web frontend for a trip plan. The HTTP API counts and validates the request and
hands it to the workflow runtime service, which executes it at once or puts it on a Redis queue
for a worker. Either way one *planning attempt* runs: a coordinator assigns tasks to specialist
agents, which ask tools and a language model, until the plan is done, the user must be asked, or
the iterations are used up. The attempt's context becomes the trip record. Pages poll the run;
operators cancel, rerun and approve.

| part | keeps | operations | talks to |
|---|---|---|---|
| workflow runtime service `be/services/workflow_runtime_service.py` | nothing between calls; copies of rows within a call | `execute_sync`, `enqueue_async`, `run_async_job`, `cancel_run`, `cancel_job`, `rerun_run`, `rerun_job` | repositories (one transaction per call), queue, coordinator runtime (in a pool thread, with progress callbacks) or graph runtime |
| queue and worker `be/messaging/redis_queue.py`, `be/workers/workflow_worker.py` | messages and running jobs in Redis (RQ) | `enqueue`, `request_cancel`, `execute_planner_run` | the service, in a work-horse process per message |
| repositories `be/persistence/postgres/*` | run, job, step, trip, audit, user tables | `get`, `save`, lists | everyone |
| coordinator agent and runtime `tp/multi_agent/` | the ledger: task board, artifacts, iteration count, messages | decide, assign, revise, batch, merge | specialists (same thread, or deep copies in a pool), progress callback |
| specialists `tp/nodes.py` | the deliverables in `PlannerContext` | `run` of ten agents, each with a fallback | tool executor |
| tool executor, registry and providers `tp/tooling/`, `be/providers/` | tool budget and audit log in the context | `execute`, `is_available`, `json_request` | HTTP services |
| governance `tp/governance.py` | flags in the context | `evaluate_governance` | coordinator |
| graph runtime `tp/graph.py` | checkpointed step index (the mode without a coordinator) | step loop of `_execute_run` | specialists, run and step rows |
| operator review `be/services/operator_review_service.py` | approvals inside the trip record | approve, reject | trip repository, audit |
| clarification copilot `be/services/clarification_copilot_service.py`, `be/domain/trips/policies.py` | nothing: it is sent all answers | `next_turn` | clarification page |
| middleware, limiter, registration `be/main.py`, `be/core/security.py`, `be/services/auth_service.py` | counters in Redis, users | `log_requests`, `check`, `register` | every request |
| pages `fe/app/new-trip`, `fe/app/clarification`, `fe/app/review` | page state and browser storage | handlers, effects, timers | HTTP API |
| observability, readiness, evaluation, background runner, other pages | see section 7 | | |

**What is hard here.** The service reads a row in one transaction and writes its copy back,
whole, in a later one, while the API, workers and a pool thread do the same (stale copies, lost
updates). A message is on the queue before the rows that describe it are complete (ordering). A
timeout cannot stop the thread it gave up on (overlap with the retry). A cancellation kills the
process that would have written the end (crash). Inside an attempt, three judges may send the
itinerary back, which makes everything built on it stale, and a batch of specialists works on
copies that are merged by hand while their tools fail in every way. Nothing orders or aborts
what a page asks, so that answers come late, twice or never. `PROJECT.json` lists 39 such
hazards with their lines and the properties that would catch them.

**What makes each part correct.**

- *Runtime*: a run is never executed twice at once; a settled job is over; retries are spent
  exactly; an early cancellation is honoured; whoever reads SUCCEEDED finds the trip; execution
  ends.
- *Step rows*: a finished run shows every step, a retry neither repeats nor skips one, and no
  attempt rewrites what an earlier one left.
- *Coordinator*: reports belong to the draft that stands; board and context agree; revisions are
  bounded; the iteration limit never cuts an attempt short; governance has the last word.
- *Tools*: an outage alone ends no attempt; a fallback hides no good answer; the account of the
  main context is exact; threads left behind change nothing and end.
- *Review*: a record tells one decision, which has an audit event and is undone only by a retry.
- *Clarification*: enough was asked when planning starts, and every answer counts.
- *Pages*: the newest run is followed, to its end.
- *Front door*: the limit holds, and the first account is the admin.

## 2. Modules

| module | models | its shape |
|---|---|---|
| `WorkflowRuntime` (`MCWorkflowRuntime`) | service, queue, workers; run, job and trip rows | one action per repository or queue call; `submit`, `cancel`, `work`, `thread` hold each process's place and local copies |
| `RunLedger` | one attempt after another of one run: step rows, trace, checkpoint, in both modes | one action per progress event, step or save |
| `TaskBoard`, `Specialists` | the ten tasks and their dependencies; what each agent may report | operators |
| `Coordinator` | one planning attempt | one action per graph node; a batch is one step per specialist and one merge |
| `PlanPipeline` | the promise of an attempt | abstract specification; `Coordinator` implements it |
| `ToolUse` | agents, stages, tools, providers, batch threads | one action per tool call of a thread |
| `TripReview` | trip records between runs and operators, the review page | one action per load, commit, event or reply |
| `Clarification` | the dialogue: `next_turn` and the page | one action per handler, render and reply |
| `RunPage` | a page that starts, follows and leaves runs | one action per press, tick, server step and answer |
| `FrontDoor` | middleware, limiter, registration | one action per Redis or database call |
| `*Proofs` | theorems | section 5 |

The modules meet at named places. `WorkflowRuntime` sees an attempt as an execution that reports
progress and then returns or raises; `RunLedger` opens the reports up, `Coordinator` the
decisions, `ToolUse` (over the same `TaskBoard`) what raises. `TripReview` looks into
`WorkflowRuntime`'s `SaveTrip`, `RunPage` sees its statuses. `PROJECT.json` maps every definition
to its lines.

### WorkflowRuntime

A row keeps the columns control depends on: status, `cancellation_requested`, `queue_job_id` and,
for jobs, `retry_count`. `queue_job_id` is `run_id:retry_count`, so the number of the attempt
stands for it. A save writes the whole local copy: that is how stale flags and counts come back.

- `SubmitAsync`, `SubmitEnqueue`, `SubmitSaveJob`, `SubmitSaveRun` are the four external calls of
  `enqueue_async` in its order; `rerun_job` calls it and `rerun_run` repeats it. `SubmitSync`
  and `SyncReturns` are `execute_sync`. `SubmitAborts` is an exception or a server crash between
  them.
- `CancelRun .. CancelStop` are `cancel_run` and `cancel_job`, which do the same two
  read-modify-writes in opposite order and then ask RQ to stop the work horse.
- `Take .. WorkerSavesRun` are `run_async_job` with `_handle_async_failure` and
  `_mark_cancelled`; `SavesJob` and `SavesRun` say which statement follows each save.
- `StartExecution`, `TimesOut`, `JoinSucceeded`, `JoinFailed` are `_execute_run_with_timeout`:
  the deadline only marks the waiting side, leaving the `with` block waits for the thread.
- `ExecuteRun .. Raises` are `_execute_run`, `_execute_run_with_coordinator` and
  `_persist_progress`, in the pool thread or the sync request.

Abstractions: a save is one step, although the Postgres repository selects and then updates
under READ COMMITTED (`TripReview` splits it where two saves really meet); the idempotency lookup
is left out, as no caller repeats a key; step rows are in `RunLedger`; every run has a fresh id,
job and trip.

### RunLedger

One run, one worker, any retries: what several workers and the job row do is `WorkflowRuntime`'s.
`row` is the run row, `copy` what `run_async_job` read and the failure handler saves again,
`rows` the step rows. Two other writers save whole copies of the run row at any time: the submission,
once more after the message is out (`LateSave`), and cancellations, each of which reads
(`CancelReads`) and saves (`CancelSaves`) apart, beside as many others as `Cancellers` has. The
worker's own read and the save that follows it at once are one step: a cancellation that saves
between the two is undone, as one that has read and not saved yet is not seen. In graph mode `OpenStep`, `CloseStep`, `Advance`, `FailStep` and
`LoopCancelled` are an iteration of the loop, which closes the step's row and saves the run in
two transactions; `context` is the trace, by which the walk through the graph is told. In
coordinator mode `Decide .. BatchCompletes` are the progress events, with an itinerary sent back
after budget, review or governance (`Follows`), and `Returned`, `Synthetic`
are `_persist_synthetic_steps`. A batch's agents join the trace when it is merged, in the order in
which they returned (`merging`). `ExecuteStep` is all that a step of the graph leaves here; the
contracts, events and summaries it also writes are read by nobody in control. `Raise` and `Die`
fall anywhere.

### Coordinator

The ledger is split into `board`, `artifacts`, `governance` and `iterations`. A report keeps its
confidence, its verdict (grounded, within budget, approved), whether issues are listed, and the
number of the itinerary draft it was made of. `Decision` is `CoordinatorAgent.run` with its order
of tests; `Assign` and `Stop` are the coordinator node (with
`clear_dependent_artifacts_for_itinerary_revision` as `Cleared` and `Withdrawn`); `Clarify`,
`Deliver`, `Govern` are specialist nodes; `WorkInBatch` and `MergeBatch` the parallel batch;
`Raise` any exception or the batch's timeout; `ItineraryFallback` the agent's broken fallback
call. An attempt is given any set of open questions and a key or none; every answer a model or a
fallback can give is possible.

Abstractions: text, prompts, links, message log, route trace. A zero confidence counts as "no
report" in `evaluate_governance`, and the model keeps that. Governance is evaluated twice (gate
and adapter), and the second time sees the review the gate has changed; so does `Govern`.
LangGraph's recursion limit, `max(50, 4 * max_iterations)`, is never reached: an iteration takes
two nodes.

### ToolUse

A context is the main one or a batch member's deep copy, and `at` says where its agent is:
`Program` lists the agents' stages, `Asks` whether a stage calls its tool, `Outcomes` what the
call ends in (permission first, then what the provider and the tool's own model may do),
`Catches` what the stage survives. `Fails` is an exception that leaves the agent. In a batch the
threads run side by side; `BatchFails` and `BatchTimesOut` raise and leave them running. A stage is
one call of the executor, which sends all queries of a search; of the itinerary's enrichment the
first call already raises, as the agent may not search.

### TripReview

Nothing locks a trip. A save loads the row and writes the columns that changed since: `Written`
says what two overlapping saves make of it. `RunStep` are the attempts of run 1 and its reruns,
each with its own trip; `Decide .. Reply` a decision from the press to the reply, `PageStep` the
page's selection and its fetches, which may be answered out of order.

### Clarification, RunPage, FrontDoor

`Clarification` keeps the three copies of the dialogue apart: page state, storage, and what each
call was sent. `NextTurn` takes the answers into the request as `_apply_answers` does and picks
the next question in the order of `_select_next_question`. `Taken` says what its loop over the
answers comes to: every key and preference answered is there, and of several occasions the last
one counts. `Bounds` asks for five questions or more, as the code does; with fewer,
`ReadyMeansPlannable` would be false. The third disjunct of the page's `needsBootstrap`, a reply
to another request than the one in the storage, is left out: a reply sets both in one batch, and a
reload takes both from one save.

`RunPage` keeps a set of requests under way with the answer the server gave, which is delivered at
any later time; `Live` and `Pressed` are the conditions under which timer and buttons act. `Leave`,
`StartOver` (submitTrip, "Back to New Trip") and `Reset` (resetForm) end the following of a run
without ending what is under way; the latter two clear the storage. What `clearPlannerState` clears
is in the frontend's `lib`, which the repository lacks, so `Reset` may keep the stored run or not.
The server (`Moves`) takes a run from any status to another that some handler or late save gives
it. `FrontDoor` has a clock, since a
bucket is named after the minute and Redis forgets it at a deadline.

## 3. Runs

| run | bounds | shows | states |
|---|---|---|---|
| `safety` | 1 run, 2 workers, 1 retry, 1 progress event, 1 fault, 1 cancel | the six safety invariants of `WorkflowRuntime` | |
| `one_worker` | 2 runs (the second may be a rerun), 1 worker, 1 retry | `RetryBudget`, `SettledJobsStaySettled`, `ExecutedJobsFinish` with the one worker of docker-compose, without cancellations | |
| `termination` | 1 run, 1 worker, 2 retries, 1 event, 1 cancel | `EarlyCancelSettles` | |
| `termination_two_workers` | 1 run, 2 workers, 2 retries | `RetriesStop` although counts may be undone | |
| `lost_job` | the smallest that shows it | section 6 | |
| `coordinator_attempt` | 3 revisions (the schema's most), 23 iterations (the least that suffice for them) | `TypeOK`, six properties of an attempt and `ImplementsPipeline` with its liveness | 247 thousand |
| `tool_use` | no keys, the model's only, all; 1 revision | account, causes, reports, threads, `ThreadsEnd` | 272 thousand |
| `run_ledger` | 1 retry, 1 revision, 1 fault, a batch of two, a late save, 1 cancellation under way at a time | step rows, trace and checkpoint | 2.7 million |
| `trip_review` | 2 operators, 2 runs, 2 decisions, 1 fault | the record, its audit, the page, and what undoes a decision | 4.7 million |
| `clarification` | 5 questions (the code's `max_questions`), 6 answers, 3 calls under way, 2 faults | when the dialogue ends and what it has by then | 0.9 million |
| `run_page` | 2 runs, 2 requests under way, 1 lost | which run is followed, and `Settles` | 1.5 million |
| `front_door` | 3 requests of a client, 2 emails, a limit of 2, minutes of 3 ticks, 1 failure | `LimitHolds`, `FirstOwns` | 3.6 million |

*Why these bounds are enough.* Runs share nothing but workers and the id of a rerun's original,
so one run meets every interleaving of its own rows; two are needed only for a rerun and to make
a worker busy elsewhere. Two workers are the least that overlap; one retry the least that has a
first and a last failure and, in `run_ledger`, rows of an earlier attempt; there a cancellation may
follow another, and two that overlap are left to the proofs, which know no bound. The coordinator's bounds are the program's own limits; its confidences are one
governance does not flag (80) and the fallbacks' 25, which it does: they are only ever compared
with 0 and 45. Key sets differ only in whether the model and the search answer: the three chosen have
neither, one and both, and a missing provider makes a gathering stage skip as a failed one does.
Roles of a batch are alike to the step rows, so two show every order. Two
operators and two overlapping requests are the least that cross; a third answers to nobody
new. Six answers are one more than the questions, so that one is given twice. Three requests are
one more than the limit. What a second fault, cancel or operator of the same kind adds is covered,
where a theorem exists, by the proofs, which know no bound.

Deadlock is not checked: every system here comes to rest, with all requests answered, all
messages consumed, an attempt ended.

## 4. Fairness

- `WorkflowRuntime`: weak fairness of the steps of a request in progress, of a worker (RQ workers
  poll for ever) and of an executing thread (every provider call has a timeout, and RQ kills a
  work horse some time after the job timeout, which is a worker's death). No fairness of
  submissions, cancellations, faults, timeouts or failures.
- `Coordinator`: weak fairness of its steps, for the same reason, and none of `Raise`.
- `ToolUse`: weak fairness of each thread's steps (a request has a timeout) and of the driver;
  none of the batch's timeout.
- `RunPage`: requests are answered and delivered (each slot is free infinitely often, which is weak
  fairness of `Answer` and `Deliver` for requests of at most six steps), and the timer ticks while
  the page shows a run that has not ended. None of the user, of losses, or of the server: a run may
  stay queued or running for ever, as section 6 says runs do. So `Settles` speaks of runs that
  have ended for good.
- The others are checked for safety only.

`FinishedOrWaiting` needs `MaxIterations >= 8 + 5 * MaxRevisions`: eight iterations for a first
pass and its stop, five for each revision. By default that is 13 of 20. The schema's
`max_revision_rounds` of 3 needs 23, and with the default limit an attempt could then end with
tasks open; no code sets it above 1. The run takes 3 and 23, where the bound is tight.

## 5. What is proved

`WorkflowRuntimeProofs` proves, for all sets of runs and workers and all bounds, from the
assumptions `RunsAndWorkers` and `Bounds` alone:

- `TypesInvariant`, a type invariant without the retry bounds; everything rests on it.
- `SingleExecutionHolds`. The argument is one of tokens: of the submission that has not enqueued
  yet, the messages of a run and the workers that hold one of them there is at most one
  (`OneToken`), and a thread executes only for its owner while that waits (`Owned`). `OneToken`
  survives a requeue because the worker that enqueues lets go of the token with the same step.
- `SettledJobsAreOverHolds`, `DeadLetterAfterRetriesHolds`, `TypeOKHolds` from `SettledInv`:
  while a token is alive neither the job row nor any copy that may be saved over it is settled;
  every row, copy and message carries a count the attempts made account for. It is needed
  because the properties speak of rows, and what threatens them are the copies still to be saved.
- `TripBeforeSuccessHolds` from `TripInv`: a copy that says SUCCEEDED exists only after the trip.
- `EarlyCancelIsHonouredHolds` from `EarlyInv`: once the job row is flagged while the first
  message waits, whoever saves the job row next saves a flagged or cancelled one.
- `RetryBudgetHolds`, for one worker and any runs, retries, failures, deaths and cancellations.
  `BudgetInv` says that the retry count that the next execution starts from (in the row while the
  message waits, then in the worker's copy) accounts for all executions made, or the job is
  flagged, which ends it. With one worker nobody takes the message before the saves that follow a
  requeue; with two the property is false (section 6).
- `SettledJobsStaySettledHolds`, for one worker, no cancellation, and any runs, retries, failures
  and deaths. `UndoneInv` says that no settled row has a save still to come, and that what a
  worker holds counts no less than the row. With a cancellation the property is false, as it and
  the worker save copies of the job row over each other; the run has none either.

`CoordinatorProofs` proves, for all confidences and all limits on revisions and iterations, from
`Rounds` and the assumption on `Confidences` alone, that `IInv` is inductive (`Invariant`). None
of the properties is inductive as it stands, because a revision relates them: `Supported` (a task
begun keeps its dependencies complete) and `BoardMatchesContext` say that a report of a draft can
stand only while the itinerary is complete, so a new draft meets none; `DraftCount` ties the
drafts to `revision_count`, which lags one behind; `OfThisDraft` extends `CurrentDeliverables` to
the results a batch still holds back; `Assignment` and `Waiting` say who is at work. The lemma
behind it all is `DoOverCases`: the coordinator assigns an itinerary that was judged exactly when
a revision is due. From `IInv` follow `TypeOKHolds`, `BoardMatchesContextHolds`,
`CurrentDeliverablesHolds`, `DraftsBoundedHolds`, and the action property `InputsInHandHolds`:
what is completed was at work, so `Supported` and `BoardMatchesContext` put its inputs in the
context.

Its second part assumes `Enough`, `MaxIterations >= 8 + 5 * MaxRevisions`, and proves how
an attempt ends. Its invariant `EndInv` charges every iteration to something that was begun:
`Charged` bounds the iterations by `Turns`, the tasks begun in this round (the batch counts once,
which is what `Together` and `Whole` are for), plus five for each revision. A revision takes at
most four turns back and pays with five, so the coordinator never meets its limit
(`NeverExhausted`) and stops only when the user must be asked (`AskedFirst`) or nothing is left to
assign; as whoever is at work was assigned (`NoneLost`), then every task is done. `Governed`
keeps what governance said until the end. From `EndInv` follow `FinishedOrWaitingHolds`,
`CompletedIsGovernedHolds`, and `ImplementsPipelineSafely`, `Spec => Pipeline!Spec`: every step
of the attempt is a step of the pipeline or none, under the mapping of `Coordinator`'s `Pipeline`.

`RunLedgerProofs` proves all six properties of the step rows for any retries, revisions and faults,
any batch and any number of cancellations under way, in both modes. Five of them are about what
later attempts find, and what they find is the copy that somebody saved last: the worker, its
failure handler, a cancellation, or the submission. So `Inv` says of the row and of every copy that
may still be saved that it is sound (`CopiesSound`, with lemmas `CopiesNext`, `SoundStays` and
`CopiesStep` for what each step leaves): its context is a walk through the graph, its current step
follows that walk, and every agent of the context has a row that says "succeeded". Who restarts from
any of them neither repeats nor skips a step (`Resumable`, `Walks`). `Coverage` survives because
such a row keeps its status (lemma `CoveredStays`); the numbers are the positions (`InOrder`);
`OpenRow` and `CancelledLast` say which rows may still change. `AgentsDone` is needed for the
coordinator's mode: a row with an agent's name is a synthetic one, and done, so that
`_persist_synthetic_steps` may skip the names it finds. `OneWalk` excepts the run whose submission saves
late when a retry has begun: a cancellation may have put the finished walk of the attempt before
into the row with a flag that keeps it from being begun again, and that save takes the flag back.

`ClarificationProofs` proves `ReadyMeansPlannable` and `AnswersCount` for any number of answers,
calls under way, failures and reloads. Page, storage and calls disagree about everything but one
fact: each is what was given with the trip with a beginning of the answers taken in
(`Consistent`), because taking answers in twice changes nothing (lemma `TakenTwice`). So a reply
depends on its transcript alone; as long as none is repeated, each answer is to the question its
predecessors leave (`Asked`), and the questions that reach the preferences are all among the first
five (lemma `FiveSettle`). `UpToDate` says that without failures and late replies the page shows
the reply to all answers or waits for it.

`ToolUseProofs` proves, for any configurations of keys and any number of revisions, four
properties. `RaisesExplained` rests on `DraftHasModel`: the only stage that asks
for a tool its agent may not use is the second of the itinerary, and an agent is there only with
the model's key (lemma `Stages`); `CauseExplained` holds of every thread, also of those in
batches that have failed. `ReportsComplete` rests on `Progress`, which says what stands in the
context when an agent is due; revisions clear exactly what comes due again. `MainAccountExact` is
proved for every log with room for nine calls and four for each revision: the agents on the main
context serve at most one call at each of their stages, which bounds what is served by the agent
that is due and the revisions made (`FewServed`). The code keeps 100 entries and allows three
revisions. `OrphansLeaveNoTrace` is an action property: once raised, no action of the main context
is enabled, and a copy's steps are the copy's own.

`TripReviewProofs` proves, for any operators, runs, decisions and failures, `RecordAgrees`,
`DecisionsAudited`, `DecisionStands` and `ScreenExplained`. The lemma `CommitEffect` says what a
commit may do to a row; `CopiesDecided` that a copy on its way has been decided by its operator;
`Fresh` that a run in its first attempt meets no record, which is why only a later attempt can
undo a decision. `ScreenExplained` is inductive with the types.

`RunPageProofs` proves `FollowsNewest` for any number of runs, requests under way and losses. As
long as no run is asked for beside another request and nothing is lost, who asks for a run asks
alone (`AsksAlone`), so that nothing comes between the creation of the run and the page's
following it, and every other request under way is about the newest run (`AboutNewest`). Only a
form that was reset or left since empties the storage, and an answer that comes after that can at
most take the page back to the newest run.

`FrontDoorProofs` proves the types, `FirstOwns` and `LimitHolds` for any number of clients,
requests and emails, any limit and any clock. Until somebody has committed, everyone who has
counted found the table empty (`EmptyMeansFirst`), and two who found it empty were both at it
(`FirstsOverlap`). A bucket's key cannot expire before its minute is over (`KeysOutliveMinutes`),
so that until then its count is ahead of what was let through (`Ahead`), and what was counted
first and still waits for its expiry has its room (`OnePending`).

**Only model-checked**: every liveness property and fairness (`ExecutedJobsFinish`,
`EarlyCancelSettles`, `RetriesStop`, `ThreadsEnd`, `Settles`, the fairness part of
`ImplementsPipeline`), which is out of the prover's reach. Every invariant and every action
property of every passing run is stated by a theorem.

## 6. Where the code and its documents disagree, and what else was found

`lost_job` is a run TLC refutes: the message is enqueued before the job row is saved, and a fast
worker finds no job and drops the run, although `docs/layered-architecture.md:226` says that the
worker starts it (`EnqueuedRunStarts`).

The properties' conditions name further facts of the code that a maintainer should know.

- *Late saves.* `enqueue_async` saves the run once more after enqueueing it and may overwrite a
  finished run with QUEUED, its job being SUCCEEDED, or a cancelled one whose CANCELLED step row
  then stays (`overwritten` in `CancelledRowsAgree`; two cancellations that overlap may put a run
  back to RUNNING likewise). Saved while a retry is at work it puts the run of a graph-mode attempt
  back to its first step and may take back the flag of a cancellation, so that a finished walk is
  begun again (`late` in `OneWalk`). With two workers the saves after a requeue
  (`workflow_runtime_service.py:634-635`) may undo the next attempt's retry count, so
  `RetryBudget` and `SettledJobsStaySettled` hold of one worker only; `RetriesStop` shows that
  execution still ends.
- *Cancellation.* Cancelling a RUNNING run kills its worker, and nobody writes a terminal status:
  the row stays RUNNING (`Die` in `RunLedger`), though `docs/operations/runbooks.md:28` suggests it for
  stuck runs. The failure handler and the graph loop save an older copy and may wipe the flag.
- *Wrong calls.* Without an OpenAI key the itinerary agent calls `_fallback_plan` without its
  last argument (`nodes.py:416`, `:424`); with a Tavily key its enrichment calls `web_search`,
  which it is not permitted, and the ToolAuthorizationError is not caught. Both end the attempt;
  `RaisesExplained` names them. `test_runtime_progresses_trip_with_custom_coordinator`
  (`backend/tests/test_multi_agent_coordination.py:74`) gives the runtime no key and expects a plan with
  itinerary and review (lines 81-85), which the first of the two prevents.
- *Batches.* What the batch's specialists spent and logged stays in their copies; a progress save
  that fails inside the batch's `try` is reported as a failed specialist. Its specialists have
  no open row in the ledger, as no event announces them.
- *Governance* completes a trip whose review did not approve but listed no issue, once the
  revision is used up; `CompletedIsGoverned` speaks of issues.
- *Decisions* are undone by a retry of the trip's own run, which stores the trip again. Saves
  that overlap may mix the columns of two decisions.
- *Clarification.* While the page has no question its effect sends a call at each render, so that
  calls overlap (and repeat without pause while the backend is down); a late reply puts page and storage
  back, and a question is put twice; each answer counts towards `max_questions`, so that planning
  may start with a blocking question open. A completed run that asks for clarification is shown
  on the research page like any other.
- *Pages.* Buttons stay live while their request is under way; when the answer of the request
  that created a run is lost, the run is on no page; a poll answered after a rerun takes page and
  storage back to the old run. A run that stays RUNNING or QUEUED for the reasons above is polled for ever.
- *Front door.* The bucket's name holds the minute, so a missing expiry only leaves a key behind;
  two first registrations that overlap both become admins.

## 7. Not modelled

- *Observability, readiness*: they only read, and keep nothing.
- *Background job runner* (`be/messaging/background_jobs.py` and its thread pool): nothing in the
  repository constructs it.
- *Evaluation runner and golden cases, PDF scripts, prompts*: offline, sequential, or text.
- *Guardrails*: a pure check of texts by word lists, with no state.
- *Idempotency lookup*: no caller repeats a key. *In-memory rate limiter*: used only where the
  `redis` package is missing. *Tokens and roles*: computed and compared, never kept.
- *Other pages* show what is stored; *HTTP handlers* other than those named are calls of the
  services.
- *Message log and route wording* of the coordinator, cost and latency of tools: nothing reads
  them in control.

What could be added with profit: the two transactions of `OpenStep` as steps of their own; the job
row in `RunLedger`, which would compose it with `WorkflowRuntime` by refinement.
