----------------------------- MODULE Coordinator -----------------------------
(***************************************************************************)
(* One planning attempt of the multi-agent runtime: the coordinator's      *)
(* decisions (multi_agent/coordinator.py), the nodes of its LangGraph      *)
(* (multi_agent/runtime.py), what each specialist changes                  *)
(* (multi_agent/adapters.py over the agents of Specialists.tla) and the    *)
(* governance gate (governance.py).                                        *)
(*                                                                         *)
(* The context has one thread at a time: a node runs to its end before the *)
(* next, and in a parallel batch each specialist works on a deep copy.  So *)
(* a node is one step, and a batch one per specialist and one to merge.    *)
(*                                                                         *)
(* The message log, the route trace, active_role and the ledger's copies   *)
(* of open questions and governance flags are left out.                    *)
(***************************************************************************)
EXTENDS Specialists

CONSTANTS MaxRevisions,   \* max_revision_rounds of the itinerary task
          MaxIterations   \* max_iterations of the ledger

ASSUME Rounds == MaxRevisions \in Nat /\ MaxIterations \in Nat

VARIABLES missing,     \* input: the questions the request leaves open
          keyed,       \* input: an OpenAI key is configured
          board,       \* ledger.task_board
          artifacts,   \* ledger.artifacts, without governance_decision
          governance,  \* ledger.artifacts["governance_decision"].approve, if any
          iterations,  \* ledger.iteration_count
          context,     \* PlannerContext: the deliverable of each task
          status,      \* PlannerContext.status
          flags,       \* PlannerContext.governance_flags
          pc,          \* the node that runs next
          assigned,    \* decision.task_ids
          results,     \* what the finished specialists of a batch return
          drafts       \* history: itineraries drafted

ledger == <<board, artifacts, governance, iterations>>
vars == <<missing, keyed, ledger, context, status, flags, pc, assigned, results, drafts>>

-----------------------------------------------------------------------------
TripStatus == {"draft", "awaiting_clarification", "research_ready", "research_complete",
               "itinerary_ready", "budget_warning", "ready_for_review", "completed"}

AgentTaskStatus == {"pending", "in_progress", "completed", "needs_revision"}

\* The tasks whose deliverable is a report in the context.
Reports == Tasks \ {"clarify_request", "govern_plan"}

\* No report: governance counts its confidence as 0.
None == [draft |-> -1, confidence |-> 0, verdict |-> FALSE, issues |-> FALSE]
Nothing == [t \in Reports |-> None]

\* ClarificationPolicy: the questions, and those that stop the planning.
Questions == {"interests", "transport_preference", "accommodation_preference",
              "travel_dates", "special_constraints"}
Blocking == Questions \ {"special_constraints"}

Init ==
    /\ missing \in SUBSET Questions
    /\ keyed \in BOOLEAN
    /\ board = [t \in Tasks |-> [status |-> "pending", revisions |-> 0]]
    /\ artifacts = Nothing /\ governance = "none"
    /\ iterations = 0
    /\ context = Nothing
    /\ status = "draft"
    /\ flags = {}
    /\ pc = "coordinator" /\ assigned = {} /\ results = Nothing
    /\ drafts = 0

-----------------------------------------------------------------------------
(* CoordinatorAgent.run: the decision. *)

\* Mutant: dependencies are not looked at.
DependenciesComplete_Unchecked(t) == board[t].status # "blocked"
DependenciesComplete(t) == \A d \in DependsOn[t] : board[d].status = "completed"

Ready == {t \in Tasks : /\ board[t].status \in {"pending", "needs_revision"}
                        /\ DependenciesComplete(t)}

\* Mutants: one revision too many; revisions without end.
RevisionLeft_OneMore == board["draft_itinerary"].revisions <= MaxRevisions
RevisionLeft_Unbounded == board["draft_itinerary"].revisions \in Nat
RevisionLeft == board["draft_itinerary"].revisions < MaxRevisions

Budget == context["audit_budget"]
Review == context["critique_plan"]
OverBudget == Budget # None /\ ~Budget.verdict
Rejected == Review # None /\ ~Review.verdict /\ Budget # None /\ Budget.verdict

RevisionDue == RevisionLeft /\ (OverBudget \/ Rejected)

\* The iteration is counted before it is compared.
Exhausted == iterations + 1 > MaxIterations
Awaiting == status = "awaiting_clarification"

Batch == Ready \cap Parallel

\* The task ids of the decision; none when everything is done.
Decision ==
    IF RevisionDue THEN {"draft_itinerary"}
    ELSE IF Cardinality(Batch) > 1 THEN Batch
    ELSE {t \in Ready : t = First(Ready)}

-----------------------------------------------------------------------------
(* The coordinator node. *)

\* record_assignment, on one task.  Mutant: the revision is not counted.
Assigned_NotCounted(task) == [task EXCEPT !.status = "in_progress"]
Assigned(task) ==
    [task EXCEPT !.status = "in_progress",
                 !.revisions = IF task.status = "needs_revision" THEN @ + 1 ELSE @]

\* clear_dependent_artifacts_for_itinerary_revision on the board, with the
\* itinerary task marked next to it, and on the context and the artifacts.
\* Mutants: a task is missing from either list.
Cleared_KeepsReview(b) ==
    [t \in Tasks |-> IF t \in Downstream \ {"critique_plan"} THEN [b[t] EXCEPT !.status = "pending"]
                     ELSE IF t = "draft_itinerary" THEN [b[t] EXCEPT !.status = "needs_revision"]
                     ELSE b[t]]
Cleared(b) ==
    [t \in Tasks |-> IF t \in Downstream THEN [b[t] EXCEPT !.status = "pending"]
                     ELSE IF t = "draft_itinerary" THEN [b[t] EXCEPT !.status = "needs_revision"]
                     ELSE b[t]]
Withdrawn_KeepsSafety(reports) ==
    [t \in Reports |-> IF t \in Downstream \ {"review_safety"} THEN None ELSE reports[t]]
Withdrawn(reports) == [t \in Reports |-> IF t \in Downstream THEN None ELSE reports[t]]

\* The itinerary is assigned once it has been judged: it is to be done over.
DoOver == Decision = {"draft_itinerary"} /\ (Budget # None \/ Review # None)

Assign ==
    /\ pc = "coordinator" /\ ~Exhausted /\ ~Awaiting
    /\ Decision # {}
    /\ assigned' = Decision
    /\ LET cleared == IF DoOver THEN Cleared(board) ELSE board
       IN  board' = [t \in Tasks |-> IF t \in Decision THEN Assigned(cleared[t]) ELSE cleared[t]]
    /\ context' = IF DoOver THEN Withdrawn(context) ELSE context
    /\ artifacts' = IF DoOver THEN Withdrawn(artifacts) ELSE artifacts
    /\ governance' = IF DoOver THEN "none" ELSE governance
    /\ flags' = IF DoOver THEN {} ELSE flags
    /\ iterations' = iterations + 1
    /\ pc' = "working"
    /\ UNCHANGED <<missing, keyed, status, results, drafts>>

\* A terminal decision: too many iterations, the user is asked, or all is done.
Stop ==
    /\ pc = "coordinator"
    /\ Exhausted \/ Awaiting \/ Decision = {}
    /\ pc' = "end"
    /\ iterations' = iterations + 1
    /\ assigned' = {}
    /\ UNCHANGED <<missing, keyed, board, artifacts, governance, context, status, flags,
                   results, drafts>>

-----------------------------------------------------------------------------
(* The specialist nodes: SpecialistAdapter.run over the agent's run. *)

Alone(t) == pc = "working" /\ assigned = {t}

Complete(ts) == board' = [t \in Tasks |-> IF t \in ts THEN [board[t] EXCEPT !.status = "completed"]
                                          ELSE board[t]]

\* ClarificationValidator.
Clarify ==
    /\ Alone("clarify_request")
    /\ Complete({"clarify_request"})
    /\ status' = IF missing \cap Blocking # {} THEN "awaiting_clarification" ELSE "research_ready"
    /\ pc' = "coordinator"
    /\ UNCHANGED <<missing, keyed, artifacts, governance, iterations, context, flags,
                   assigned, results, drafts>>

\* What the agent of t may report, of the draft that stands.
Outputs(t) ==
    LET draft == context["draft_itinerary"].draft
    IN  CASE t = "research_destination" -> ResearchReports(keyed)
          [] t = "draft_itinerary" -> Itineraries(drafts + 1)
          [] t = "recommend_stay" -> StayPlans(draft)
          [] t = "plan_transport" -> TransportPlans(draft)
          [] t = "recommend_food" -> FoodPlans(draft)
          [] t = "audit_budget" -> BudgetAssessments(draft)
          [] t = "review_safety" -> SafetyReports(draft)
          [] t = "critique_plan" -> Reviews(draft)

\* The agents of the batch leave the status alone.
StatusAfter(t, r) ==
    CASE t = "research_destination" -> "research_complete"
      [] t = "draft_itinerary" -> "itinerary_ready"
      [] t = "audit_budget" -> IF r.verdict THEN "ready_for_review" ELSE "budget_warning"
      [] t = "critique_plan" -> IF r.verdict THEN "completed" ELSE "ready_for_review"
      [] OTHER -> status

\* ItineraryPlanningAgent without a key or research calls its fallback with an
\* argument missing: see ItineraryFallback.
CanDraft == keyed /\ context["research_destination"] # None

Deliver(t) ==
    /\ Alone(t)
    /\ t = "draft_itinerary" => CanDraft
    /\ \E r \in Outputs(t) :
          /\ context' = [context EXCEPT ![t] = r]
          /\ artifacts' = [artifacts EXCEPT ![t] = r]
          /\ status' = StatusAfter(t, r)
    /\ Complete({t})
    /\ pc' = "coordinator"
    /\ drafts' = IF t = "draft_itinerary" THEN drafts + 1 ELSE drafts
    /\ UNCHANGED <<missing, keyed, governance, iterations, flags, assigned, results>>

\* _fallback_plan takes an executor that this call does not pass: a TypeError,
\* which nothing on the way out of the attempt handles.
ItineraryFallback ==
    /\ Alone("draft_itinerary")
    /\ ~CanDraft
    /\ pc' = "raised"
    /\ UNCHANGED <<missing, keyed, ledger, context, status, flags, assigned, results, drafts>>

\* evaluate_governance.  A confidence of 0 is not flagged.
LowConfidence(r) == 0 < r.confidence /\ r.confidence < 45
Evaluate(reports) ==
    {t \in Reports : LowConfidence(reports[t])}
    \cup (IF reports["audit_budget"] # None /\ ~reports["audit_budget"].verdict
          THEN {"budget_exceeds_target"} ELSE {})
    \cup (IF reports["critique_plan"].issues THEN {"review_reported_issues"} ELSE {})
    \cup (IF /\ reports["research_destination"] # None /\ reports["draft_itinerary"] # None
             /\ ~reports["draft_itinerary"].verdict
          THEN {"itinerary_outside_researched_areas"} ELSE {})

\* GovernanceGateAgent, then the adapter, which evaluates once more, on the
\* review the gate has changed.  Mutant: the status is only ever raised.
Govern_KeepsStatus ==
    /\ Alone("govern_plan")
    /\ Complete({"govern_plan"})
    /\ flags' = Evaluate(context)
    /\ status' = IF flags' = {} THEN "completed" ELSE status
    /\ governance' = IF flags' = {} THEN "approve" ELSE "escalate"
    /\ pc' = "coordinator"
    /\ UNCHANGED <<missing, keyed, artifacts, iterations, context, assigned, results, drafts>>
Govern ==
    /\ Alone("govern_plan")
    /\ Complete({"govern_plan"})
    /\ flags' = Evaluate(context)
    /\ context' = IF Review # None /\ flags' # {}
                  THEN [context EXCEPT !["critique_plan"].verdict = FALSE,
                                       !["critique_plan"].issues = TRUE]
                  ELSE context
    /\ status' = IF Review # None /\ flags' = {} THEN "completed" ELSE "ready_for_review"
    /\ governance' = IF Evaluate(context') = {} THEN "approve" ELSE "escalate"
    /\ pc' = "coordinator"
    /\ UNCHANGED <<missing, keyed, artifacts, iterations, assigned, results, drafts>>

-----------------------------------------------------------------------------
(* The parallel batch node. *)

Side_by_side == pc = "working" /\ Cardinality(assigned) > 1

\* A specialist runs on its own copy of the context.
WorkInBatch(t) ==
    /\ Side_by_side /\ t \in assigned
    /\ results[t] = None
    /\ \E r \in Outputs(t) : results' = [results EXCEPT ![t] = r]
    /\ UNCHANGED <<missing, keyed, ledger, context, status, flags, pc, assigned, drafts>>

\* _merge_context takes the deliverables and the (unchanged) status.
\* Mutant: what has arrived at the deadline is merged, and the batch is done.
Merged == [t \in Reports |-> IF t \in assigned THEN results[t] ELSE context[t]]
MergeBatch_AtDeadline ==
    /\ Side_by_side /\ \E t \in assigned : results[t] # None
    /\ context' = Merged
    /\ artifacts' = [t \in Reports |-> IF t \in assigned THEN results[t] ELSE artifacts[t]]
    /\ Complete(assigned)
    /\ results' = Nothing
    /\ pc' = "coordinator"
    /\ UNCHANGED <<missing, keyed, governance, iterations, status, flags, assigned, drafts>>
MergeBatch ==
    /\ Side_by_side /\ \A t \in assigned : results[t] # None
    /\ context' = Merged
    /\ artifacts' = [t \in Reports |-> IF t \in assigned THEN results[t] ELSE artifacts[t]]
    /\ Complete(assigned)
    /\ results' = Nothing
    /\ pc' = "coordinator"
    /\ UNCHANGED <<missing, keyed, governance, iterations, status, flags, assigned, drafts>>

\* A progress event cannot be saved, an agent raises, one of a batch fails or
\* the batch times out: the attempt raises and its context is lost.
Raise ==
    /\ pc \in {"coordinator", "working"}
    /\ pc' = "raised"
    /\ UNCHANGED <<missing, keyed, ledger, context, status, flags, assigned, results,
                   drafts>>

-----------------------------------------------------------------------------
Steps == \/ Assign \/ Stop \/ Clarify \/ Govern \/ ItineraryFallback
         \/ \E t \in Reports : Deliver(t) \/ WorkInBatch(t)
         \/ MergeBatch

Next == Steps \/ Raise

Spec == Init /\ [][Next]_vars

\* Every call an agent makes has a timeout, so a node that runs returns.
FairSpec == Spec /\ WF_vars(Steps)
-----------------------------------------------------------------------------
(* Properties. *)

TypeOK ==
    /\ missing \subseteq Questions /\ keyed \in BOOLEAN
    /\ board \in [Tasks -> [status: AgentTaskStatus, revisions: 0 .. MaxRevisions]]
    /\ artifacts \in [Reports -> Report \cup {None}]
    /\ governance \in {"none", "approve", "escalate"}
    /\ iterations \in Nat
    /\ context \in [Reports -> Report \cup {None}]
    /\ status \in TripStatus
    /\ flags \subseteq Reports \cup {"budget_exceeds_target", "review_reported_issues",
                                     "itinerary_outside_researched_areas"}
    /\ pc \in {"coordinator", "working", "end", "raised"}
    /\ assigned \subseteq Tasks
    /\ results \in [Reports -> Report \cup {None}]
    /\ drafts \in Nat

\* What stands in the context, or in the ledger, was made of the itinerary that
\* stands there: no budget, safety or review of an earlier draft survives a revision.
CurrentDeliverables ==
    \A t \in Downstream \cap Reports : \A reports \in {context, artifacts} :
        reports[t] # None => reports[t].draft = context["draft_itinerary"].draft

\* The board and the context tell the same story: a deliverable that is withdrawn
\* is asked for again, and one that stands is not (but for the draft being revised).
BoardMatchesContext ==
    \A t \in Reports :
        /\ board[t].status = "completed" => context[t] # None
        /\ context[t] # None => board[t].status = "completed" \/ t = "draft_itinerary"

\* No specialist finishes without the deliverables its task depends on in hand.
InputsInHand ==
    [][\A t \in Tasks : (board[t].status # "completed" /\ board'[t].status = "completed") =>
            \A d \in DependsOn[t] \cap Reports : context[d] # None]_vars

\* The itinerary is drafted once, and again at most MaxRevisions times, however
\* often budget, review and governance object.
DraftsBounded == drafts <= MaxRevisions + 1

\* An attempt that ends waits for the user with nothing else done, or has done
\* every task: the iteration limit never cuts it short.
FinishedOrWaiting ==
    pc = "end" =>
        \/ /\ status = "awaiting_clarification"
           /\ {t \in Tasks : board[t].status = "completed"} = {"clarify_request"}
        \/ \A t \in Tasks : board[t].status = "completed"

\* A trip leaves the attempt as completed exactly when governance approves, and
\* then within budget and without a flag: the review, which says completed before
\* governance has looked, does not have the last word.
CompletedIsGoverned ==
    pc = "end" /\ status = "completed" =>
        governance = "approve" /\ flags = {} /\ Budget.verdict /\ ~Review.issues

\* The attempt implements PlanPipeline, liveness included.
Pipeline == INSTANCE PlanPipeline WITH
    fresh <- {t \in Tasks : board[t].status = "completed"
                            /\ (t \in Reports => context[t] # None)},
    outcome <- CASE pc \in {"coordinator", "working"} -> "planning"
                 [] pc = "end" -> IF status = "awaiting_clarification" THEN "waiting" ELSE "finished"
                 [] pc = "raised" -> "failed"
ImplementsPipeline == Pipeline!FairSpec
=============================================================================
