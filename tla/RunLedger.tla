------------------------------ MODULE RunLedger ------------------------------
(***************************************************************************)
(* What a run leaves in its step rows, its route trace and its checkpoint: *)
(* the graph-mode loop of _execute_run with TravelPlannerGraph, the        *)
(* progress callback and the synthetic steps of                            *)
(* _execute_run_with_coordinator, and the retry and cancellation handlers  *)
(* that save the copy of the run row which run_async_job read at the start *)
(* (services/workflow_runtime_service.py; the repositories return copies). *)
(*                                                                         *)
(* The run row has other writers: the submission, which saves the row it   *)
(* built once more after the message is out, and cancellations, each of    *)
(* which saves the whole row it has read.  Who saves late undoes what was  *)
(* saved meanwhile.  A read that its own save follows at once, with no     *)
(* other use of what was read, is one step here.                           *)
(*                                                                         *)
(* One run and one worker: WorkflowRuntime.tla has the queue, the job row  *)
(* and several workers.  Here an attempt is looked into.                   *)
(*                                                                         *)
(* In graph mode a step's row carries the agent's name; in coordinator     *)
(* mode the progress events carry the role, the route trace the agent.     *)
(***************************************************************************)
EXTENDS Integers, FiniteSets, SequencesExt

CONSTANTS MaxRetries,    \* max_retries of the run
          MaxRevisions,  \* how often the coordinator sends the itinerary back
          MaxFaults,     \* saves and agents that fail, and deaths of the worker
          BatchRoles,    \* the roles the coordinator runs in one batch
          Cancellers     \* the requests to cancel that may be under way at a time

ASSUME Bounds == /\ MaxRetries \in Nat /\ MaxRevisions \in Nat /\ MaxFaults \in Nat
                 /\ BatchRoles \subseteq {"stay", "transport", "food", "safety"}

VARIABLES mode,       \* input: "graph" or "coordinator"
          row,        \* the run row
          rows,       \* the step rows, oldest first
          trip,       \* the trip record is stored
          pc,         \* what the worker does; "queue" while the message waits for it
          copy,       \* the run row as run_async_job read it
          kept,       \* the flag of the run row as _execute_run read it
          next,       \* the step or role that is due
          trace,      \* PlannerContext.route_trace of the attempt
          open,       \* open_steps, or step_record: the index of the open row, 0 for none
          batch,      \* roles of the running batch that have not returned
          merging,    \* agents the returned roles of the batch add to the trace, in that order
          revisions,  \* itineraries sent back in this attempt
          existing,   \* existing_by_name of _persist_synthetic_steps
          written,    \* synthetic steps written
          attempt,    \* the number of this attempt, job.retry_count + 1
          held,       \* the run row as each cancellation under way read it
          submitted,  \* the submission has saved its row the second time
          late,       \* history: it did so when a retry had begun
          overwritten, \* history: someone saved another row than the last one saved
          faults      \* history: faults so far

work == <<copy, kept, next, trace, open, batch, merging, revisions, existing, written, attempt>>
others == <<held, submitted, late, overwritten>>
vars == <<mode, row, rows, trip, pc, work, others, faults>>
-----------------------------------------------------------------------------
\* The steps of the graph, in the order of step_handlers.
Steps == <<"clarification_validator", "research_signal_agent", "destination_research_agent",
           "itinerary_planning_agent", "stay_recommendation_agent", "local_transport_agent",
           "food_recommendation_agent", "budget_optimization_agent",
           "solo_women_safety_advisor_agent", "review_and_consistency_agent",
           "governance_gate_agent">>

\* TravelPlannerGraph.next_step: budget and safety may route early to the review.
Upcoming(step) ==
    LET i == CHOOSE j \in DOMAIN Steps : Steps[j] = step
    IN  IF step = "clarification_validator" THEN {"research_signal_agent", "none"}
        ELSE IF i = Len(Steps) THEN {"none"}
        ELSE {Steps[i + 1]} \cup (IF step \in {"budget_optimization_agent",
                                               "solo_women_safety_advisor_agent"}
                                  THEN {"review_and_consistency_agent"} ELSE {})

\* The roles of the coordinator runtime, with the agents each runs.
AgentsOf == [clarification |-> <<"clarification_validator">>,
             destination_research |-> <<"research_signal_agent", "destination_research_agent">>,
             itinerary |-> <<"itinerary_planning_agent">>,
             stay |-> <<"stay_recommendation_agent">>,
             transport |-> <<"local_transport_agent">>,
             food |-> <<"food_recommendation_agent">>,
             safety |-> <<"solo_women_safety_advisor_agent">>,
             budget |-> <<"budget_optimization_agent">>,
             review |-> <<"review_and_consistency_agent">>,
             governance |-> <<"governance_gate_agent">>]
Roles == DOMAIN AgentsOf

\* The coordinator's choices after a role (Coordinator.tla says when which).
Follows(role) ==
    CASE role = "clarification" -> {"destination_research", "none"}
      [] role = "destination_research" -> {"itinerary"}
      [] role = "itinerary" -> {"batch"}
      [] role = "batch" -> {"budget"}
      [] role = "budget" -> {"review", "itinerary"}
      [] role = "review" -> {"governance", "itinerary"}
      [] role = "governance" -> {"itinerary", "none"}

\* The row as _build_run and enqueue_async made it.
Submitted ==
    [status |-> "queued", flag |-> FALSE, context |-> <<>>,
     current |-> IF mode = "graph" THEN "clarification_validator" ELSE "coordinator_agent"]
NoCopy == [status |-> "none", flag |-> FALSE, context |-> <<>>, current |-> "none"]
Terminal == {"succeeded", "cancelled", "dead_lettered"}

\* The message is out and the job row saved.
Init ==
    /\ mode \in {"graph", "coordinator"}
    /\ row = Submitted /\ rows = <<>> /\ trip = FALSE
    /\ pc = "queue" /\ copy = row /\ kept = FALSE /\ next = "none" /\ trace = <<>>
    /\ open = 0 /\ batch = {} /\ merging = <<>> /\ revisions = 0
    /\ existing = [name \in {} |-> 0] /\ written = 0 /\ attempt = 0
    /\ held = [c \in Cancellers |-> NoCopy]
    /\ submitted = FALSE /\ late = FALSE /\ overwritten = FALSE /\ faults = 0

\* list_by_run_id is asked for the number of rows before the new one is saved.
\* Mutant: the attempt's own steps are counted.
NextSequence_PerAttempt == Len(trace) + 1
NextSequence == Len(rows) + 1
StepRow(name, sequence, status) ==
    [name |-> name, sequence |-> sequence, status |-> status, attempt |-> attempt]

WithStatus(i, status) == [rows EXCEPT ![i].status = status]

-----------------------------------------------------------------------------
(* The other writers of the run row. *)

\* enqueue_async and rerun_run save the row they built for the second time.
LateSave ==
    /\ ~submitted /\ submitted' = TRUE
    /\ row' = Submitted
    /\ late' = (attempt > 1) /\ overwritten' = (overwritten \/ row # Submitted)
    /\ UNCHANGED <<mode, rows, trip, pc, work, held, faults>>

\* cancel_run and cancel_job, as far as the run row goes; what kills the worker is Die.
\* A message that request_cancel takes off the queue is one the worker never takes.
CancelReads(c) ==
    /\ held[c] = NoCopy
    /\ held' = [held EXCEPT ![c] = row]
    /\ UNCHANGED <<mode, row, rows, trip, pc, work, submitted, late, overwritten, faults>>
CancelSaves(c) ==
    /\ held[c] # NoCopy
    /\ row' = [held[c] EXCEPT !.flag = TRUE,
                              !.status = IF @ = "queued" THEN "cancelled" ELSE @]
    /\ held' = [held EXCEPT ![c] = NoCopy]
    /\ overwritten' = (overwritten \/ row # held[c])
    /\ UNCHANGED <<mode, rows, trip, pc, work, submitted, late, faults>>

-----------------------------------------------------------------------------
(* run_async_job. *)

Take ==
    /\ pc = "queue" /\ ~row.flag
    /\ row' = [row EXCEPT !.status = "running"]
    /\ copy' = row' /\ attempt' = attempt + 1
    /\ pc' = "taken"
    /\ UNCHANGED <<mode, rows, trip, kept, next, trace, open, batch, merging, revisions,
                   existing, written, others, faults>>

\* Flagged before it starts: _mark_cancelled of the copy just read.  The flag may be
\* the job's, which cancel_job saves before it reads the run row.
TakeFlagged ==
    /\ pc = "queue"
    /\ row' = [row EXCEPT !.status = "cancelled"]
    /\ copy' = row' /\ pc' = "cancelled"
    /\ UNCHANGED <<mode, rows, trip, kept, next, trace, open, batch, merging, revisions,
                   existing, written, attempt, others, faults>>

\* _mark_cancelled then files a row for the step the copy was at.
FileCancelled ==
    /\ pc = "cancelled"
    /\ rows' = IF copy.current = "none" THEN rows
               ELSE Append(rows, StepRow(copy.current, NextSequence, "cancelled"))
    /\ pc' = "idle"
    /\ UNCHANGED <<mode, row, trip, work, others, faults>>

\* _execute_run reads the row anew.  A run that has ended meanwhile is answered from
\* the trip record, if there is one.
Answered ==
    /\ pc = "taken" /\ row.status \in Terminal
    /\ pc' = IF trip THEN "idle" ELSE "failed"
    /\ UNCHANGED <<mode, row, rows, trip, work, others, faults>>

\* Or it goes on where the row says, in graph mode, or starts afresh.
Begin ==
    /\ pc = "taken" /\ row.status \notin Terminal
    /\ kept' = row.flag
    /\ trace' = IF mode = "graph" THEN row.context ELSE <<>>
    /\ next' = CASE mode = "coordinator" -> "clarification"
                 [] mode = "graph" /\ row.current = "none" -> "clarification_validator"
                 [] OTHER -> row.current
    /\ pc' = IF mode = "graph" THEN "loop" ELSE "coordinator"
    /\ open' = 0 /\ batch' = {} /\ merging' = <<>> /\ revisions' = 0
    /\ existing' = [name \in {} |-> 0] /\ written' = 0
    /\ UNCHANGED <<mode, row, rows, trip, copy, attempt, others, faults>>

\* _handle_async_failure saves the copy: a new status, and everything else as it was
\* when the attempt began.  Mutant: the status is saved alone, over the context
\* that the attempt has got to, but the retry starts at the step of the copy.
HandleFailure_KeepsContext ==
    /\ pc = "failed"
    /\ row' = [copy EXCEPT !.status = IF attempt <= MaxRetries THEN "queued" ELSE "dead_lettered",
                           !.context = row.context]
    /\ pc' = IF attempt <= MaxRetries THEN "queue" ELSE "idle"
    /\ UNCHANGED <<mode, rows, trip, work, others, faults>>
HandleFailure ==
    /\ pc = "failed"
    /\ row' = [copy EXCEPT !.status = IF attempt <= MaxRetries THEN "queued" ELSE "dead_lettered"]
    /\ pc' = IF attempt <= MaxRetries THEN "queue" ELSE "idle"
    /\ UNCHANGED <<mode, rows, trip, work, others, faults>>

-----------------------------------------------------------------------------
(* The graph-mode loop.  It reads the run anew before every step, and saves *)
(* what it read, flag included, once the step is done.                      *)

\* Mutant: the run row is not saved before the step is filed.
LoopCancelled_NotSaved ==
    /\ pc = "loop" /\ next # "none" /\ row.flag
    /\ pc' = "cancelled"
    /\ UNCHANGED <<mode, row, rows, trip, work, others, faults>>
LoopCancelled ==
    /\ pc = "loop" /\ next # "none" /\ row.flag
    /\ row' = [copy EXCEPT !.status = "cancelled"]
    /\ pc' = "cancelled"
    /\ UNCHANGED <<mode, rows, trip, work, others, faults>>

Running(step, context) ==
    [status |-> "running", current |-> step, flag |-> FALSE, context |-> context]

OpenStep ==
    /\ pc = "loop" /\ next # "none" /\ ~row.flag
    /\ row' = Running(next, trace)
    /\ rows' = Append(rows, StepRow(next, NextSequence, "running"))
    /\ open' = Len(rows) + 1
    /\ pc' = "step"
    /\ UNCHANGED <<mode, trip, copy, kept, next, trace, batch, merging, revisions, existing,
                   written, attempt, others, faults>>

\* The agent of a step leaves its name in the trace of the context it returns.
ExecuteStep(step, context) == Append(context, step)

\* The agent returns: first its row is closed, then the run goes on to the next step.
\* Mutant: the row is left as it is.
CloseStep_LeavesRow ==
    /\ pc = "step"
    /\ open' = 0 /\ pc' = "closed"
    /\ UNCHANGED <<mode, row, rows, trip, copy, kept, next, trace, batch, merging, revisions,
                   existing, written, attempt, others, faults>>
CloseStep ==
    /\ pc = "step"
    /\ rows' = WithStatus(open, "succeeded")
    /\ open' = 0 /\ pc' = "closed"
    /\ UNCHANGED <<mode, row, trip, copy, kept, next, trace, batch, merging, revisions, existing,
                   written, attempt, others, faults>>

Advance ==
    /\ pc = "closed"
    /\ \E upcoming \in Upcoming(next) :
          /\ trace' = ExecuteStep(next, trace)
          /\ row' = Running(upcoming, trace')
          /\ next' = upcoming
    /\ pc' = "loop"
    /\ UNCHANGED <<mode, rows, trip, copy, kept, open, batch, merging, revisions, existing,
                   written, attempt, others, faults>>

\* The agent, or the choice of the next step, raises.
FailStep ==
    /\ pc = "step" /\ faults < MaxFaults
    /\ rows' = WithStatus(open, "failed")
    /\ pc' = "failed" /\ faults' = faults + 1
    /\ UNCHANGED <<mode, row, trip, work, others>>

-----------------------------------------------------------------------------
(* The coordinator runtime, as its progress events and its trace show it.  *)
(* Every event also reads the latest run row and saves it with the current *)
(* and the last step, which in this mode nothing reads but the page and    *)
(* the name of a cancelled row: they are left out.                         *)

\* coordinator_decision, then specialist_started or parallel_batch_started.
Decide ==
    /\ pc = "coordinator"
    /\ CASE next = "none" -> /\ pc' = "returned"
                             /\ UNCHANGED <<rows, open, batch, merging>>
         [] next = "batch" -> /\ pc' = "batch" /\ batch' = BatchRoles /\ merging' = <<>>
                              /\ UNCHANGED <<rows, open>>
         [] OTHER -> /\ rows' = Append(rows, StepRow(next, NextSequence, "running"))
                     /\ open' = Len(rows) + 1
                     /\ pc' = "specialist"
                     /\ UNCHANGED <<batch, merging>>
    /\ UNCHANGED <<mode, row, trip, copy, kept, next, trace, revisions, existing, written,
                   attempt, others, faults>>

Choose(role) ==
    \E following \in Follows(role) :
        LET again == following = "itinerary" /\ role # "destination_research"
        IN  /\ again => revisions < MaxRevisions
            /\ revisions' = IF again THEN revisions + 1 ELSE revisions
            /\ next' = following

\* specialist_completed: the event closes the row it opened.  Mutant: it closes
\* every open row of that name.
Closed_ByName(i) ==
    [j \in DOMAIN rows |-> IF rows[j].name = rows[i].name THEN [rows[j] EXCEPT !.status = "succeeded"]
                           ELSE rows[j]]
Closed(i) == WithStatus(i, "succeeded")
Complete ==
    /\ pc = "specialist"
    /\ trace' = trace \o AgentsOf[next]
    /\ rows' = Closed(open) /\ open' = 0
    /\ Choose(next)
    /\ pc' = "coordinator"
    /\ UNCHANGED <<mode, row, trip, copy, kept, batch, merging, existing, written, attempt,
                   others, faults>>

\* _merge_context adds an agent to the trace unless it is there already.  It runs when
\* all have returned; until then the trace is as the batch found it.
Missing(role) == IF Head(AgentsOf[role]) \in Range(trace) THEN <<>> ELSE AgentsOf[role]

\* specialist_completed of a batch: nobody announced its start, so it has no row.
BatchMemberCompletes(role) ==
    /\ pc = "batch" /\ role \in batch
    /\ batch' = batch \ {role} /\ merging' = merging \o Missing(role)
    /\ UNCHANGED <<mode, row, rows, trip, pc, copy, kept, next, trace, open, revisions, existing,
                   written, attempt, others, faults>>

BatchCompletes ==
    /\ pc = "batch" /\ batch = {}
    /\ trace' = trace \o merging
    /\ merging' = <<>>
    /\ Choose("batch")
    /\ pc' = "coordinator"
    /\ UNCHANGED <<mode, row, rows, trip, copy, kept, batch, open, existing, written, attempt,
                   others, faults>>

\* _persist_synthetic_steps: the rows by name, the last one for a name that occurs
\* twice; then one save per entry of the trace.
Returned ==
    /\ pc = "returned"
    /\ existing' = [name \in {rows[i].name : i \in DOMAIN rows} |->
                        CHOOSE i \in DOMAIN rows :
                            /\ rows[i].name = name
                            /\ \A j \in DOMAIN rows : rows[j].name = name =>
                                  \/ rows[j].sequence < rows[i].sequence
                                  \/ rows[j].sequence = rows[i].sequence /\ j <= i]
    /\ pc' = "synthetic"
    /\ UNCHANGED <<mode, row, rows, trip, copy, kept, next, trace, open, batch, merging,
                   revisions, written, attempt, others, faults>>

\* Mutant: the row of a role is taken for that of the agents it runs.
Synthetic_ByRole ==
    /\ pc = "synthetic" /\ written < Len(trace)
    /\ LET name == trace[written + 1]
           known == \E role \in Roles \cap DOMAIN existing : name \in Range(AgentsOf[role])
       IN  rows' = IF known THEN rows ELSE Append(rows, StepRow(name, written + 1, "succeeded"))
    /\ written' = written + 1
    /\ UNCHANGED <<mode, row, trip, pc, copy, kept, next, trace, open, batch, merging,
                   revisions, existing, attempt, others, faults>>
Synthetic ==
    /\ pc = "synthetic" /\ written < Len(trace)
    /\ LET name == trace[written + 1]
       IN  rows' = IF name \in DOMAIN existing
                   THEN [rows EXCEPT ![existing[name]].status = "succeeded",
                                     ![existing[name]].sequence = IF @ < written + 1 THEN @ ELSE written + 1]
                   ELSE Append(rows, StepRow(name, written + 1, "succeeded"))
    /\ written' = written + 1
    /\ UNCHANGED <<mode, row, trip, pc, copy, kept, next, trace, open, batch, merging,
                   revisions, existing, attempt, others, faults>>

-----------------------------------------------------------------------------
(* Both modes end alike: the trip record, then the run row. *)

SaveTrip ==
    /\ \/ pc = "loop" /\ next = "none"
       \/ pc = "synthetic" /\ written = Len(trace)
    /\ trip' = TRUE /\ pc' = "stored"
    /\ UNCHANGED <<mode, row, rows, work, others, faults>>

\* In coordinator mode the copy _execute_run read is saved, which is as old as the
\* attempt; in graph mode the one of the last step.  An attempt that took too long is
\* waited for and then counts as failed.
SaveSuccess ==
    /\ pc = "stored"
    /\ row' = [status |-> "succeeded", current |-> "none", context |-> trace,
               flag |-> mode = "coordinator" /\ kept]
    /\ \/ pc' = "idle" /\ UNCHANGED faults
       \/ pc' = "failed" /\ faults < MaxFaults /\ faults' = faults + 1
    /\ UNCHANGED <<mode, rows, trip, work, others>>

-----------------------------------------------------------------------------
Executing == pc \in {"taken", "loop", "step", "closed", "coordinator", "specialist", "batch", "returned",
                     "synthetic", "stored"}

\* A save or an agent raises where no handler of the attempt closes a row.
Raise ==
    /\ Executing /\ faults < MaxFaults
    /\ pc' = "failed" /\ faults' = faults + 1
    /\ UNCHANGED <<mode, row, rows, trip, work, others>>

\* The worker is killed, by a cancellation or otherwise; no one takes the run again.
Die ==
    /\ pc \notin {"idle", "queue"} /\ faults < MaxFaults
    /\ pc' = "idle" /\ faults' = faults + 1
    /\ UNCHANGED <<mode, row, rows, trip, work, others>>

Work == \/ Take \/ TakeFlagged \/ FileCancelled \/ Answered \/ Begin \/ HandleFailure
        \/ LoopCancelled \/ OpenStep \/ CloseStep \/ Advance
        \/ Decide \/ Complete \/ (\E role \in BatchRoles : BatchMemberCompletes(role))
        \/ BatchCompletes \/ Returned \/ Synthetic \/ SaveTrip \/ SaveSuccess

Next == \/ Work \/ FailStep \/ Raise \/ Die
        \/ LateSave \/ (\E c \in Cancellers : CancelReads(c) \/ CancelSaves(c))

Spec == Init /\ [][Next]_vars
-----------------------------------------------------------------------------
(* Properties. *)

\* A run that succeeded shows a finished row for every agent its trace names,
\* whatever attempts, duplicates and half-written rows came before.
FinishedRunIsCovered ==
    row.status = "succeeded" =>
        /\ trip
        /\ \A agent \in Range(row.context) :
              \E i \in DOMAIN rows : rows[i].name = agent /\ rows[i].status = "succeeded"

\* In graph mode the context of a run is that of one walk through the graph from its
\* first step: a retry neither repeats nor skips a step, whatever copies are saved in
\* between, and the walk of a run that succeeded ends with governance or with questions.
\* Not so when the submission's last save comes after a retry has begun: it can take back
\* the flag of a cancellation that put the finished walk of the attempt before into the row.
Walk(t) ==
    \/ t = <<>>
    \/ /\ t[1] = Steps[1]
       /\ \A i \in 1 .. Len(t) - 1 : t[i + 1] \in Upcoming(t[i])
OneWalk ==
    mode = "graph" /\ ~late =>
        /\ Walk(trace) /\ Walk(row.context)
        /\ row.status = "succeeded" => "none" \in Upcoming(Last(row.context))

\* In graph mode the order of the rows is the order of events, over all attempts.
SequencesDistinct ==
    mode = "graph" =>
        \A i, j \in DOMAIN rows : rows[i].sequence = rows[j].sequence => i = j

\* A row stays open only while its step runs, or when something broke its attempt.
OpenRowsExplained ==
    \A i \in DOMAIN rows :
        rows[i].status = "running" => (Executing /\ open = i) \/ faults > 0

\* A step row that says "cancelled" is the last thing the worker does for the run: nothing
\* executes any longer and no row follows.  The run row says the same, unless a save of
\* an older copy, the submission's or a cancellation's, undid another one.
CancelledRowsAgree ==
    \A i \in DOMAIN rows : rows[i].status = "cancelled" =>
        /\ pc = "idle" /\ i = Len(rows)
        /\ row.status = "cancelled" \/ overwritten

\* What an attempt left in its rows is not rewritten by a later one: a step of a failed
\* attempt does not come to say that it succeeded.
OldRowsStand ==
    [][\A i \in DOMAIN rows :
          rows'[i].status # rows[i].status => rows[i].status = "running" /\ rows[i].attempt = attempt]_vars
=============================================================================
