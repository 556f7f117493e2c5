------------------------- MODULE CoordinatorProofs -------------------------
(***************************************************************************)
(* Proofs about Coordinator for any confidences, revisions and iterations. *)
(* The inductive invariant IInv says how the board, the context and the    *)
(* history of drafts hang together; the properties of the runs follow.     *)
(***************************************************************************)
EXTENDS Coordinator, FiniteSetTheorems, TLAPS

-----------------------------------------------------------------------------
(* The invariant. *)

Itinerary == board["draft_itinerary"]
Offspring == Downstream \cap Reports     \* the reports made of a draft

\* Between two steps no task waits for its revision: it is assigned in the step
\* that asks for it.
Settled == \A t \in Tasks : board[t].status \in {"pending", "in_progress", "completed"}

\* revision_count lags one behind the drafts that were delivered.
DraftCount ==
    /\ Itinerary.status = "pending" => drafts = 0 /\ Itinerary.revisions = 0
    /\ Itinerary.status = "in_progress" => drafts = Itinerary.revisions
    /\ Itinerary.status = "completed" => drafts = Itinerary.revisions + 1

\* A task that was begun has its dependencies complete, and keeps them.
Supported == \A t \in Tasks : board[t].status # "pending" =>
                \A d \in DependsOn[t] : board[d].status = "completed"

ArtifactsMatch == \A t \in Offspring : artifacts[t] # None => board[t].status = "completed"

OfThisDraft ==
    \A t \in Offspring : \A reports \in {context, artifacts, results} :
        reports[t] # None => reports[t].draft = context["draft_itinerary"].draft

Assignment ==
    pc = "working" =>
        /\ assigned \subseteq Parallel \/ \E t \in Tasks : assigned = {t}
        /\ \A t \in assigned : board[t].status = "in_progress"

\* Only a batch at work has results in waiting.
Waiting == results # Nothing =>
    pc \in {"working", "raised"} /\ ~(\E t \in Tasks : assigned = {t})

IInv == /\ TypeOK /\ Settled /\ DraftCount /\ Supported /\ BoardMatchesContext
        /\ ArtifactsMatch /\ OfThisDraft /\ Assignment /\ Waiting

-----------------------------------------------------------------------------
(* Facts about the board. *)

\* What the later proofs use of the board's constants.
LEMMA TaskFacts ==
    /\ DependsOn \in [Tasks -> SUBSET Tasks]
    /\ Reports \subseteq Tasks /\ Parallel \subseteq Offspring /\ Downstream \subseteq Tasks
    /\ Offspring \subseteq Reports /\ Offspring \subseteq Downstream
    /\ {"draft_itinerary", "research_destination"} \cap Downstream = {}
    /\ {"draft_itinerary", "research_destination"} \subseteq Reports
    /\ Reports = Offspring \cup {"draft_itinerary", "research_destination"}
    /\ {"audit_budget", "critique_plan"} \subseteq Offspring
    /\ "clarify_request" \notin Reports \cup Downstream
    /\ "govern_plan" \in Downstream /\ "govern_plan" \notin Reports
    /\ {"clarify_request", "govern_plan"} \subseteq Tasks
    /\ DependsOn["draft_itinerary"] = {"research_destination"}
BY DEF DependsOn, Tasks, Reports, Parallel, Downstream, Offspring

\* Everything downstream depends on the itinerary, directly or through a task
\* that is downstream itself.
LEMMA DownstreamDepends ==
    \A t \in Downstream : \/ "draft_itinerary" \in DependsOn[t]
                          \/ t = "critique_plan" /\ "audit_budget" \in DependsOn[t]
                          \/ t = "govern_plan" /\ "critique_plan" \in DependsOn[t]
BY DEF DependsOn, Downstream, Parallel

\* While the itinerary is not there, nothing downstream is begun.
LEMMA NothingBegun ==
    ASSUME Supported, Itinerary.status # "completed", NEW t \in Downstream
    PROVE  board[t].status = "pending"
<1> USE TaskFacts
<1>1. \A u \in Downstream : "draft_itinerary" \in DependsOn[u] => board[u].status = "pending"
  BY DEF Supported, Itinerary
<1>2. board["audit_budget"].status = "pending"
  BY <1>1 DEF Downstream, Parallel, DependsOn
<1>3. t = "critique_plan" /\ "audit_budget" \in DependsOn[t] => board[t].status = "pending"
  BY <1>2 DEF Supported
<1>4. board["critique_plan"].status = "pending"
  BY <1>2, DownstreamDepends DEF Supported, Downstream, Parallel, DependsOn
<1>5. t = "govern_plan" /\ "critique_plan" \in DependsOn[t] => board[t].status = "pending"
  BY <1>4 DEF Supported
<1> QED BY <1>1, <1>3, <1>5, DownstreamDepends

\* ... and no report of a draft stands.
LEMMA NoOffspring ==
    ASSUME IInv, Itinerary.status # "completed", NEW t \in Offspring
    PROVE  context[t] = None /\ artifacts[t] = None
<1>1. board[t].status = "pending" /\ t \in Reports /\ t # "draft_itinerary"
  BY NothingBegun, TaskFacts DEF IInv
<1> QED BY <1>1 DEF IInv, BoardMatchesContext, ArtifactsMatch

-----------------------------------------------------------------------------
(* The decision. *)

\* The coordinator's decision is a revision, a batch, one task or none.
LEMMA DecisionCases ==
    \/ RevisionDue /\ Decision = {"draft_itinerary"}
    \/ /\ ~RevisionDue
       /\ Decision \subseteq Ready
       /\ Decision = {} \/ Decision \subseteq Parallel \/ \E t \in Tasks : Decision = {t}
<1>1. CASE RevisionDue
  BY <1>1 DEF Decision
<1>2. CASE ~RevisionDue /\ Cardinality(Batch) > 1
  BY <1>2 DEF Decision, Batch
<1>3. CASE ~RevisionDue /\ ~(Cardinality(Batch) > 1)
  <2>1. Decision = {t \in Ready : t = First(Ready)}
    BY <1>3 DEF Decision
  <2>2. Ready \subseteq Tasks
    BY DEF Ready
  <2>3. Decision = {} \/ \E t \in Tasks : Decision = {t}
    BY <2>1, <2>2
  <2> QED BY <1>3, <2>1, <2>3
<1> QED BY <1>1, <1>2, <1>3

\* The itinerary is done over exactly when a revision is due; then it is complete.
LEMMA DoOverCases ==
    ASSUME IInv
    PROVE  /\ DoOver <=> RevisionDue
           /\ RevisionDue => Itinerary.status = "completed"
           /\ ~RevisionDue => Decision \subseteq Ready
<1> USE TaskFacts
<1>1. Budget # None \/ Review # None => Itinerary.status = "completed"
  BY NoOffspring DEF Budget, Review
<1>2. RevisionDue => Budget # None
  BY DEF RevisionDue, OverBudget, Rejected
<1>3. RevisionDue => DoOver
  BY <1>2, DecisionCases DEF DoOver
<1>4. ASSUME DoOver, ~RevisionDue PROVE FALSE
  <2>1. "draft_itinerary" \in Ready
    BY <1>4, DecisionCases DEF DoOver
  <2>2. Itinerary.status = "completed"
    BY <1>4, <1>1 DEF DoOver
  <2> QED BY <2>1, <2>2 DEF Ready, Itinerary
<1> QED BY <1>1, <1>2, <1>3, <1>4, DecisionCases

-----------------------------------------------------------------------------
(* What the agents report. *)

TaskRec == [status: AgentTaskStatus, revisions: 0 .. MaxRevisions]
Percent == Confidences \cup {FallbackConfidence}

\* A report is told from no report, and names its draft.
LEMMA ReportFacts == \A r \in Report : r # None /\ r.draft \in Nat
BY DEF Report, None

\* How the agents' sets of reports relate to Report.
LEMMA ReportOf ==
    ASSUME NEW draft \in Nat,
           NEW r \in [draft: {draft}, confidence: Percent, verdict: BOOLEAN, issues: BOOLEAN]
    PROVE  r \in Report /\ r.draft = draft
BY DEF Report, Percent

\* Every agent, fallback or not, reports of the draft it was given.
LEMMA OutputsFacts ==
    ASSUME drafts \in Nat, NEW t \in Reports,
           t \in Offspring => context["draft_itinerary"].draft \in Nat,
           NEW r \in Outputs(t)
    PROVE  /\ r \in Report /\ r # None
           /\ t \in Offspring => r.draft = context["draft_itinerary"].draft
           /\ t = "draft_itinerary" => r.draft = drafts + 1
<1> DEFINE draft == context["draft_itinerary"].draft
<1>1. CASE t = "research_destination"
  <2>1. r \in ResearchReports(keyed)
    BY <1>1 DEF Outputs
  <2>2. r \in [draft: {0}, confidence: Percent, verdict: BOOLEAN, issues: BOOLEAN]
    BY <2>1 DEF ResearchReports, Fallback, FromModel, Percent
  <2> QED BY <1>1, <2>2, ReportOf, ReportFacts, TaskFacts
<1>2. CASE t = "draft_itinerary"
  <2>1. r \in Itineraries(drafts + 1)
    BY <1>2 DEF Outputs
  <2>2. r \in [draft: {drafts + 1}, confidence: Percent, verdict: BOOLEAN, issues: BOOLEAN]
    BY <2>1 DEF Itineraries, Fallback, FromModel, Percent
  <2> QED BY <1>2, <2>2, ReportOf, ReportFacts, TaskFacts
<1>3. CASE t \in Offspring
  <2>1. t \in {"recommend_stay", "plan_transport", "recommend_food", "review_safety",
               "audit_budget", "critique_plan"}
    BY <1>3 DEF Offspring, Downstream, Reports, Parallel
  <2>2. r \in StayPlans(draft) \cup TransportPlans(draft) \cup FoodPlans(draft)
             \cup SafetyReports(draft) \cup BudgetAssessments(draft) \cup Reviews(draft)
    BY <2>1 DEF Outputs
  <2>3. r \in [draft: {draft}, confidence: Percent, verdict: BOOLEAN, issues: BOOLEAN]
    <3> HIDE DEF draft
    <3> QED BY <2>2 DEF StayPlans, TransportPlans, FoodPlans, SafetyReports, BudgetAssessments,
               Reviews, Fallback, FromModel, Percent
  <2> QED BY <1>3, <2>3, ReportOf, ReportFacts, TaskFacts
<1> QED BY <1>1, <1>2, <1>3, TaskFacts

\* An agent leaves a status of the trip.
LEMMA StatusTyped ==
    ASSUME status \in TripStatus, NEW t \in Reports, NEW r \in Report
    PROVE  StatusAfter(t, r) \in TripStatus
BY DEF StatusAfter, TripStatus

-----------------------------------------------------------------------------
(* What a step does to the board. *)

\* Marking tasks completed changes their status and nothing else.
LEMMA Completing ==
    ASSUME TypeOK, NEW ts \in SUBSET Tasks, Complete(ts)
    PROVE  /\ board' \in [Tasks -> TaskRec]
           /\ \A x \in Tasks : /\ board'[x].status = IF x \in ts THEN "completed" ELSE board[x].status
                               /\ board'[x].revisions = board[x].revisions
<1>1. \A x \in Tasks : board[x] \in TaskRec
  BY DEF TypeOK, TaskRec
<1>2. \A x \in Tasks : board'[x] = IF x \in ts THEN [board[x] EXCEPT !.status = "completed"] ELSE board[x]
  BY DEF Complete
<1>3. \A rec \in TaskRec : /\ [rec EXCEPT !.status = "completed"] \in TaskRec
                           /\ [rec EXCEPT !.status = "completed"].status = "completed"
                           /\ [rec EXCEPT !.status = "completed"].revisions = rec.revisions
  BY DEF TaskRec, AgentTaskStatus
<1>4. \A x \in Tasks : board'[x] \in TaskRec
  BY <1>1, <1>2, <1>3
<1>5. board' = [x \in Tasks |-> board'[x]]
  BY DEF Complete
<1> QED BY <1>1, <1>2, <1>3, <1>4, <1>5

\* record_assignment on one task, which counts a revision.
LEMMA Beginning ==
    ASSUME NEW rec \in TaskRec, rec.status = "needs_revision" => rec.revisions < MaxRevisions
    PROVE  /\ Assigned(rec) \in TaskRec /\ Assigned(rec).status = "in_progress"
           /\ Assigned(rec).revisions = IF rec.status = "needs_revision" THEN rec.revisions + 1
                                        ELSE rec.revisions
<1> DEFINE n == IF rec.status = "needs_revision" THEN rec.revisions + 1 ELSE rec.revisions
<1>1. n \in 0 .. MaxRevisions
  BY Rounds DEF TaskRec
<1>2. Assigned(rec) = [rec EXCEPT !.status = "in_progress", !.revisions = n]
  BY DEF Assigned, TaskRec
<1> HIDE DEF n
<1>3. /\ [rec EXCEPT !.status = "in_progress", !.revisions = n] \in TaskRec
      /\ [rec EXCEPT !.status = "in_progress", !.revisions = n].status = "in_progress"
      /\ [rec EXCEPT !.status = "in_progress", !.revisions = n].revisions = n
  BY <1>1 DEF TaskRec, AgentTaskStatus
<1> QED BY <1>2, <1>3 DEF n

\* The board after an assignment, when a revision is due and when none is.
LEMMA Assigning ==
    ASSUME IInv, Assign
    PROVE  /\ board' \in [Tasks -> TaskRec]
           /\ RevisionDue =>
                \A x \in Tasks :
                    /\ board'[x].status = IF x = "draft_itinerary" THEN "in_progress"
                                          ELSE IF x \in Downstream THEN "pending"
                                          ELSE board[x].status
                    /\ board'[x].revisions = IF x = "draft_itinerary" THEN board[x].revisions + 1
                                             ELSE board[x].revisions
           /\ ~RevisionDue =>
                \A x \in Tasks :
                    /\ board'[x].status = IF x \in Decision THEN "in_progress" ELSE board[x].status
                    /\ board'[x].revisions = board[x].revisions
<1> USE TaskFacts
<1>1. \A x \in Tasks : board[x] \in TaskRec
  BY DEF IInv, TypeOK, TaskRec
<1>2. \A rec \in TaskRec : \A s \in AgentTaskStatus :
          /\ [rec EXCEPT !.status = s] \in TaskRec
          /\ [rec EXCEPT !.status = s].status = s
          /\ [rec EXCEPT !.status = s].revisions = rec.revisions
  BY DEF TaskRec
<1>3. {"pending", "needs_revision"} \subseteq AgentTaskStatus
  BY DEF AgentTaskStatus
<1>4. DoOver <=> RevisionDue
  BY DoOverCases
<1>5. CASE RevisionDue
  <2>1. Decision = {"draft_itinerary"} /\ Itinerary.revisions < MaxRevisions
    BY <1>5, DecisionCases DEF RevisionDue, RevisionLeft, Itinerary
  <2> DEFINE cleared == Cleared(board)
  <2>2. cleared = [t \in Tasks |->
            IF t \in Downstream THEN [board[t] EXCEPT !.status = "pending"]
            ELSE IF t = "draft_itinerary" THEN [board[t] EXCEPT !.status = "needs_revision"]
            ELSE board[t]]
    BY DEF Cleared
  <2>3. board' = [t \in Tasks |-> IF t \in Decision THEN Assigned(cleared[t]) ELSE cleared[t]]
    BY <1>4, <1>5 DEF Assign
  <2> HIDE DEF cleared
  <2>4. \A t \in Tasks : cleared[t] \in TaskRec
    BY <1>1, <1>2, <1>3, <2>2
  <2>5. /\ cleared["draft_itinerary"].status = "needs_revision"
        /\ cleared["draft_itinerary"].revisions = Itinerary.revisions
    BY <1>1, <1>2, <1>3, <2>2 DEF Itinerary
  <2>6. /\ Assigned(cleared["draft_itinerary"]) \in TaskRec
        /\ Assigned(cleared["draft_itinerary"]).status = "in_progress"
        /\ Assigned(cleared["draft_itinerary"]).revisions = Itinerary.revisions + 1
    BY <2>1, <2>4, <2>5, Beginning
  <2>7. \A x \in Tasks : board'[x] \in TaskRec
    BY <2>1, <2>3, <2>4, <2>6
  <2>8. \A x \in Tasks \ {"draft_itinerary"} :
            /\ board'[x].status = IF x \in Downstream THEN "pending" ELSE board[x].status
            /\ board'[x].revisions = board[x].revisions
    BY <1>1, <1>2, <1>3, <2>1, <2>2, <2>3
  <2> QED BY <1>5, <2>1, <2>3, <2>6, <2>7, <2>8 DEF Itinerary
<1>6. CASE ~RevisionDue
  <2>1. board' = [t \in Tasks |-> IF t \in Decision THEN Assigned(board[t]) ELSE board[t]]
    BY <1>4, <1>6 DEF Assign
  <2>2. \A t \in Tasks : board[t].status # "needs_revision"
    BY DEF IInv, Settled
  <2>3. \A t \in Tasks : /\ Assigned(board[t]) \in TaskRec
                         /\ Assigned(board[t]).status = "in_progress"
                         /\ Assigned(board[t]).revisions = board[t].revisions
    BY <1>1, <2>2, Beginning
  <2>4. \A x \in Tasks : board'[x] \in TaskRec
    BY <1>1, <2>1, <2>3
  <2> QED BY <1>6, <2>1, <2>3, <2>4
<1> QED BY <1>5, <1>6

\* The rest of an assignment, in the two cases.
LEMMA Withdrawing ==
    ASSUME IInv, Assign
    PROVE  /\ RevisionDue => /\ context' = [t \in Reports |-> IF t \in Downstream THEN None ELSE context[t]]
                             /\ artifacts' = [t \in Reports |-> IF t \in Downstream THEN None ELSE artifacts[t]]
           /\ ~RevisionDue => context' = context /\ artifacts' = artifacts
           /\ pc = "coordinator" /\ pc' = "working" /\ assigned' = Decision /\ Decision # {}
           /\ UNCHANGED <<drafts, results>>
BY DoOverCases DEF Assign, Withdrawn

-----------------------------------------------------------------------------
(* Every step keeps the invariant. *)

\* An assignment keeps the types: a revision is due only while one is left.
LEMMA AssignTypes == ASSUME IInv, Assign PROVE TypeOK'
<1>1. Decision \subseteq Tasks
  BY DecisionCases, TaskFacts DEF Ready
<1>2. board' \in [Tasks -> [status: AgentTaskStatus, revisions: 0 .. MaxRevisions]]
  BY Assigning DEF TaskRec
<1>3. /\ context' \in [Reports -> Report \cup {None}]
      /\ artifacts' \in [Reports -> Report \cup {None}]
  BY Withdrawing DEF IInv, TypeOK
<1>4. governance' \in {"none", "approve", "escalate"} /\ (flags' = flags \/ flags' = {})
  BY DEF Assign, IInv, TypeOK
<1>5. /\ iterations' = iterations + 1 /\ assigned' = Decision /\ pc' = "working"
      /\ UNCHANGED <<missing, keyed, status, results, drafts>>
  BY DEF Assign
<1> QED BY <1>1, <1>2, <1>3, <1>4, <1>5 DEF IInv, TypeOK

\* An assignment, and with a revision the withdrawal of all that hangs on the draft.
LEMMA AssignKeeps == ASSUME IInv, Assign PROVE IInv'
<1> USE TaskFacts, Assigning, Withdrawing
<1>1. TypeOK'
  BY AssignTypes
<1>2. Settled'
  BY DEF IInv, Settled
<1>3. CASE RevisionDue
  <2>1. Itinerary.status = "completed" /\ drafts = Itinerary.revisions + 1
    BY <1>3, DoOverCases DEF IInv, DraftCount
  <2>2. Itinerary'.status = "in_progress" /\ Itinerary'.revisions = Itinerary.revisions + 1
    BY <1>3 DEF Itinerary
  <2>3. DraftCount'
    BY <2>1, <2>2 DEF DraftCount
  <2>4. Supported'
    <3> SUFFICES ASSUME NEW t \in Tasks, board'[t].status # "pending", NEW d \in DependsOn[t]
                 PROVE  board'[d].status = "completed"
      BY DEF Supported
    <3>1. t \notin Downstream /\ board[t].status # "pending"
      BY <1>3, <2>1 DEF Itinerary
    <3>2. board[d].status = "completed" /\ d \in Tasks
      BY <3>1 DEF IInv, Supported
    <3>3. d \notin Downstream /\ d # "draft_itinerary"
      BY <3>1 DEF DependsOn, Tasks, Downstream, Parallel
    <3> QED BY <1>3, <3>2, <3>3
  <2>5. BoardMatchesContext'
    BY <1>3 DEF BoardMatchesContext, IInv
  <2>6. ArtifactsMatch'
    BY <1>3 DEF ArtifactsMatch
  <2>7. results = Nothing
    BY DEF IInv, Waiting
  <2>8. OfThisDraft'
    BY <1>3, <2>7 DEF OfThisDraft, Nothing
  <2>9. Assignment' /\ Waiting'
    BY <1>3, <2>7, DecisionCases DEF Assignment, Waiting
  <2> QED BY <1>1, <1>2, <2>3, <2>4, <2>5, <2>6, <2>8, <2>9 DEF IInv
<1>4. CASE ~RevisionDue
  <2>1. Decision \subseteq Ready
    BY <1>4, DoOverCases
  <2>2. \A t \in Decision : /\ t \in Tasks /\ board[t].status = "pending"
                            /\ \A d \in DependsOn[t] : board[d].status = "completed"
    BY <2>1 DEF Ready, DependenciesComplete, IInv, Settled
  <2>3. DraftCount'
    BY <1>4, <2>2 DEF DraftCount, IInv, Itinerary
  <2>4. Supported'
    <3> SUFFICES ASSUME NEW t \in Tasks, board'[t].status # "pending", NEW d \in DependsOn[t]
                 PROVE  board'[d].status = "completed"
      BY DEF Supported
    <3>1. board[d].status = "completed" /\ d \in Tasks
      BY <1>4, <2>2 DEF IInv, Supported
    <3> QED BY <1>4, <2>2, <3>1
  <2>5. BoardMatchesContext'
    BY <1>4, <2>2 DEF BoardMatchesContext, IInv
  <2>6. ArtifactsMatch'
    BY <1>4, <2>2 DEF ArtifactsMatch, IInv
  <2>7. results = Nothing
    BY DEF IInv, Waiting
  <2>8. OfThisDraft'
    BY <1>4 DEF OfThisDraft, IInv
  <2>9. Assignment' /\ Waiting'
    BY <1>4, <2>2, <2>7, DecisionCases DEF Assignment, Waiting
  <2> QED BY <1>1, <1>2, <2>3, <2>4, <2>5, <2>6, <2>8, <2>9 DEF IInv
<1> QED BY <1>3, <1>4

\* The frame of the steps that leave board, context, artifacts and results alone.
LEMMA FrameKeeps ==
    ASSUME IInv, TypeOK', Assignment', Waiting',
           UNCHANGED <<board, context, artifacts, results, drafts>>
    PROVE  IInv'
<1>1. Settled' /\ DraftCount' /\ Supported'
  BY DEF IInv, Settled, DraftCount, Supported, Itinerary
<1>2. BoardMatchesContext' /\ ArtifactsMatch' /\ OfThisDraft'
  BY DEF IInv, BoardMatchesContext, ArtifactsMatch, OfThisDraft
<1> QED BY <1>1, <1>2 DEF IInv

\* A terminal decision changes nothing the invariant is about.
LEMMA StopKeeps == ASSUME IInv, Stop PROVE IInv'
<1>1. TypeOK'
  BY DEF IInv, TypeOK, Stop
<1>2. Assignment' /\ Waiting'
  BY DEF IInv, Waiting, Assignment, Stop
<1> QED BY <1>1, <1>2, FrameKeeps DEF Stop

\* Nor does an itinerary agent that raises,
LEMMA FallbackKeeps == ASSUME IInv, ItineraryFallback PROVE IInv'
<1>1. TypeOK'
  BY DEF IInv, TypeOK, ItineraryFallback, ledger
<1>2. Assignment' /\ Waiting'
  BY DEF IInv, Waiting, Assignment, ItineraryFallback
<1> QED BY <1>1, <1>2, FrameKeeps DEF ItineraryFallback, ledger

\* or any other exception.
LEMMA RaiseKeeps == ASSUME IInv, Raise PROVE IInv'
<1>1. TypeOK'
  BY DEF IInv, TypeOK, Raise, ledger
<1>2. Assignment' /\ Waiting'
  BY DEF IInv, Waiting, Assignment, Raise
<1> QED BY <1>1, <1>2, FrameKeeps DEF Raise, ledger

\* A task at work has its dependencies complete; one that is downstream has an
\* itinerary to work from.
LEMMA AtWork ==
    ASSUME IInv, pc = "working", NEW t \in assigned, t \in Tasks
    PROVE  /\ board[t].status = "in_progress"
           /\ \A d \in DependsOn[t] : board[d].status = "completed"
           /\ t \in Downstream => Itinerary.status = "completed"
           /\ t \in Offspring => context["draft_itinerary"].draft \in Nat
<1> USE TaskFacts
<1>1. board[t].status = "in_progress"
  BY DEF IInv, Assignment
<1>2. \A d \in DependsOn[t] : board[d].status = "completed"
  BY <1>1 DEF IInv, Supported
<1>3. t \in Downstream => Itinerary.status = "completed"
  BY <1>1, NothingBegun DEF IInv
<1>4. Itinerary.status = "completed" => context["draft_itinerary"] \in Report
  BY DEF IInv, BoardMatchesContext, TypeOK, Itinerary
<1> QED BY <1>1, <1>2, <1>3, <1>4, ReportFacts

\* What a specialist alone completes keeps the board's part of the invariant.
LEMMA CompletingKeeps ==
    ASSUME IInv, pc = "working", NEW ts \in SUBSET Tasks, ts \subseteq assigned, Complete(ts)
    PROVE  Settled' /\ Supported'
<1> USE TaskFacts
<1>1. \A x \in Tasks : board'[x].status = IF x \in ts THEN "completed" ELSE board[x].status
  BY Completing DEF IInv
<1>2. Settled'
  BY <1>1 DEF Settled, IInv
<1>3. Supported'
  <2> SUFFICES ASSUME NEW t \in Tasks, board'[t].status # "pending", NEW d \in DependsOn[t]
               PROVE  board'[d].status = "completed"
    BY DEF Supported
  <2>1. board[t].status # "pending"
    BY <1>1, AtWork
  <2>2. board[d].status = "completed" /\ d \in Tasks
    BY <2>1 DEF IInv, Supported
  <2> QED BY <1>1, <2>2
<1> QED BY <1>2, <1>3

\* A lone specialist is not a batch.
LEMMA AloneFacts ==
    ASSUME IInv, NEW t \in Tasks, Alone(t)
    PROVE  results = Nothing /\ t \in assigned /\ pc = "working"
BY DEF IInv, Waiting, Alone

\* The clarification node completes its task and sets the status.
LEMMA ClarifyKeeps == ASSUME IInv, Clarify PROVE IInv'
<1> USE TaskFacts
<1> DEFINE t == "clarify_request"
<1>1. t \in Tasks /\ Alone(t) /\ results = Nothing /\ t \in assigned /\ pc = "working"
  BY AloneFacts DEF Clarify
<1>2. Settled' /\ Supported'
  BY <1>1, CompletingKeeps DEF Clarify
<1>3. /\ board' \in [Tasks -> TaskRec]
      /\ \A x \in Tasks : /\ board'[x].status = IF x = t THEN "completed" ELSE board[x].status
                          /\ board'[x].revisions = board[x].revisions
  <2>1. {t} \in SUBSET Tasks /\ Complete({t})
    BY <1>1 DEF Clarify
  <2> QED BY <2>1, Completing DEF IInv
<1>4. UNCHANGED <<context, artifacts, results, drafts, assigned>> /\ pc' = "coordinator"
  BY DEF Clarify
<1>5. TypeOK'
  <2>1. status' \in TripStatus
    BY DEF Clarify, TripStatus
  <2> QED BY <1>3, <2>1 DEF Clarify, IInv, TypeOK, TaskRec
<1>6. DraftCount'
  BY <1>3, <1>4 DEF DraftCount, IInv, Itinerary
<1>7. BoardMatchesContext' /\ ArtifactsMatch' /\ OfThisDraft'
  BY <1>3, <1>4 DEF BoardMatchesContext, ArtifactsMatch, OfThisDraft, IInv
<1>8. Assignment' /\ Waiting'
  BY <1>1, <1>4 DEF Assignment, Waiting
<1> QED BY <1>2, <1>5, <1>6, <1>7, <1>8 DEF IInv

\* A lone specialist delivers; a new draft meets no report of the old one.
LEMMA DeliverKeeps == ASSUME IInv, NEW t \in Reports, Deliver(t) PROVE IInv'
<1> USE TaskFacts
<1>1. t \in Tasks /\ Alone(t) /\ results = Nothing /\ t \in assigned /\ pc = "working"
  BY AloneFacts DEF Deliver
<1>2. Settled' /\ Supported'
  BY <1>1, CompletingKeeps DEF Deliver
<1>3. /\ board' \in [Tasks -> TaskRec]
      /\ \A x \in Tasks : /\ board'[x].status = IF x = t THEN "completed" ELSE board[x].status
                          /\ board'[x].revisions = board[x].revisions
  <2>1. {t} \in SUBSET Tasks /\ Complete({t})
    BY <1>1 DEF Deliver
  <2> QED BY <2>1, Completing DEF IInv
<1>4. PICK r \in Outputs(t) : /\ context' = [context EXCEPT ![t] = r]
                              /\ artifacts' = [artifacts EXCEPT ![t] = r]
                              /\ status' = StatusAfter(t, r)
  BY DEF Deliver
<1>5. drafts' = IF t = "draft_itinerary" THEN drafts + 1 ELSE drafts
  BY DEF Deliver
<1>6. pc' = "coordinator" /\ results' = Nothing /\ assigned' = assigned
  BY <1>1 DEF Deliver
<1>7. /\ board[t].status = "in_progress"
      /\ t \in Downstream => Itinerary.status = "completed"
      /\ t \in Offspring => context["draft_itinerary"].draft \in Nat
  BY <1>1, AtWork
<1>8. /\ r \in Report /\ r # None
      /\ t \in Offspring => r.draft = context["draft_itinerary"].draft
  BY <1>7, OutputsFacts DEF IInv, TypeOK
<1>9. /\ DOMAIN context = Reports /\ DOMAIN artifacts = Reports
      /\ context \in [Reports -> Report \cup {None}] /\ artifacts \in [Reports -> Report \cup {None}]
  BY DEF IInv, TypeOK
<1>10. \A x \in Reports : /\ context'[x] = IF x = t THEN r ELSE context[x]
                          /\ artifacts'[x] = IF x = t THEN r ELSE artifacts[x]
  BY <1>4, <1>9
<1>11. TypeOK'
  <2>1. context' \in [Reports -> Report \cup {None}] /\ artifacts' \in [Reports -> Report \cup {None}]
    BY <1>4, <1>8, <1>9
  <2>2. status' \in TripStatus
    BY <1>4, <1>8, StatusTyped DEF IInv, TypeOK
  <2>3. drafts' \in Nat
    BY <1>5 DEF IInv, TypeOK
  <2>4. UNCHANGED <<missing, keyed, governance, iterations, flags>>
    BY DEF Deliver
  <2> QED BY <1>3, <1>6, <2>1, <2>2, <2>3, <2>4, <1>1 DEF IInv, TypeOK, TaskRec
<1>12. DraftCount'
  BY <1>3, <1>5, <1>7 DEF DraftCount, IInv, Itinerary
<1>13. BoardMatchesContext' /\ ArtifactsMatch'
  BY <1>3, <1>8, <1>10 DEF BoardMatchesContext, ArtifactsMatch, IInv
<1>14. OfThisDraft'
  <2>1. CASE t = "draft_itinerary"
    <3>1. \A x \in Offspring : context[x] = None /\ artifacts[x] = None /\ x # t
      BY <1>7, <2>1, NoOffspring DEF Itinerary
    <3> QED BY <1>6, <1>10, <3>1 DEF OfThisDraft, Nothing
  <2>2. CASE t # "draft_itinerary"
    <3>1. context'["draft_itinerary"] = context["draft_itinerary"]
      BY <1>10, <2>2
    <3>2. \A x \in Offspring : results'[x] = None
      BY <1>6 DEF Nothing
    <3>3. \A x \in Offspring : \A reports \in {context, artifacts} :
              reports[x] # None => reports[x].draft = context["draft_itinerary"].draft
      BY DEF IInv, OfThisDraft
    <3> QED BY <1>8, <1>10, <3>1, <3>2, <3>3 DEF OfThisDraft
  <2> QED BY <2>1, <2>2
<1>15. Assignment' /\ Waiting'
  BY <1>6 DEF Assignment, Waiting
<1> QED BY <1>2, <1>11, <1>12, <1>13, <1>14, <1>15 DEF IInv

\* Governance may change the review, but not which draft it is of.
LEMMA GovernKeeps == ASSUME IInv, Govern PROVE IInv'
<1> USE TaskFacts
<1> DEFINE t == "govern_plan"
<1>1. t \in Tasks /\ Alone(t) /\ results = Nothing /\ t \in assigned /\ pc = "working"
  BY AloneFacts DEF Govern
<1>2. Settled' /\ Supported'
  BY <1>1, CompletingKeeps DEF Govern
<1>3. /\ board' \in [Tasks -> TaskRec]
      /\ \A x \in Tasks : /\ board'[x].status = IF x = t THEN "completed" ELSE board[x].status
                          /\ board'[x].revisions = board[x].revisions
  <2>1. {t} \in SUBSET Tasks /\ Complete({t})
    BY <1>1 DEF Govern
  <2> QED BY <2>1, Completing DEF IInv
<1>4. UNCHANGED <<artifacts, results, drafts, assigned>> /\ pc' = "coordinator"
  BY DEF Govern
<1>5. context \in [Reports -> Report \cup {None}]
  BY DEF IInv, TypeOK
<1>6. /\ context' \in [Reports -> Report \cup {None}]
      /\ \A x \in Reports : /\ x # "critique_plan" => context'[x] = context[x]
                            /\ context'[x] = None <=> context[x] = None
                            /\ context'[x].draft = context[x].draft
  <2>1. CASE context' = context
    BY <1>5, <2>1
  <2>2. CASE Review # None /\ context' = [context EXCEPT !["critique_plan"].verdict = FALSE,
                                                         !["critique_plan"].issues = TRUE]
    <3>1. Review \in Report
      BY <1>5, <2>2 DEF Review
    <3>2. PICK r : r = [[Review EXCEPT !.verdict = FALSE] EXCEPT !.issues = TRUE]
      OBVIOUS
    <3>3. r \in Report /\ r.draft = Review.draft /\ r # None
      <4>1. r \in Report /\ r.draft = Review.draft
        BY <3>1, <3>2 DEF Report
      <4> QED BY <4>1, ReportFacts
    <3>4. context' = [context EXCEPT !["critique_plan"] = r]
      BY <2>2, <3>2, <1>5 DEF Review
    <3>5. \A x \in Reports : context'[x] = IF x = "critique_plan" THEN r ELSE context[x]
      BY <1>5, <3>4
    <3>6. context' \in [Reports -> Report \cup {None}]
      BY <1>5, <3>3, <3>4
    <3>7. context["critique_plan"] # None /\ r.draft = context["critique_plan"].draft
      BY <2>2, <3>3 DEF Review
    <3> HIDE DEF t
    <3> QED BY <3>3, <3>5, <3>6, <3>7
  <2>3. \/ context' = context
        \/ Review # None /\ context' = [context EXCEPT !["critique_plan"].verdict = FALSE,
                                                      !["critique_plan"].issues = TRUE]
    BY DEF Govern
  <2> QED BY <2>1, <2>2, <2>3
<1>7. TypeOK'
  <2>1. flags' \subseteq Reports \cup {"budget_exceeds_target", "review_reported_issues",
                                     "itinerary_outside_researched_areas"}
    BY DEF Govern, Evaluate
  <2>2. status' \in TripStatus /\ governance' \in {"none", "approve", "escalate"}
    BY DEF Govern, TripStatus
  <2> QED BY <1>3, <1>4, <1>6, <2>1, <2>2 DEF Govern, IInv, TypeOK, TaskRec
<1>8. DraftCount'
  BY <1>3, <1>4 DEF DraftCount, IInv, Itinerary
<1>9. BoardMatchesContext' /\ ArtifactsMatch'
  BY <1>3, <1>4, <1>6 DEF BoardMatchesContext, ArtifactsMatch, IInv
<1>10. OfThisDraft'
  BY <1>4, <1>6 DEF OfThisDraft, IInv
<1>11. Assignment' /\ Waiting'
  BY <1>1, <1>4 DEF Assignment, Waiting
<1> QED BY <1>2, <1>7, <1>8, <1>9, <1>10, <1>11 DEF IInv

\* A batch at work consists of parallel specialists.
LEMMA BatchFacts ==
    ASSUME IInv, Side_by_side
    PROVE  assigned \subseteq Parallel /\ pc = "working" /\ ~(\E t \in Tasks : assigned = {t})
<1>1. ASSUME NEW t, assigned = {t} PROVE FALSE
  <2>1. Cardinality(assigned) = 1
    BY <1>1, FS_Singleton
  <2> QED BY <2>1 DEF Side_by_side
<1> QED BY <1>1 DEF IInv, Assignment, Side_by_side

\* A batch member reports of the draft that stands in the context it copied.
LEMMA WorkInBatchKeeps == ASSUME IInv, NEW t \in Reports, WorkInBatch(t) PROVE IInv'
<1> USE TaskFacts
<1>1. Side_by_side /\ t \in assigned /\ t \in Parallel /\ pc = "working"
      /\ ~(\E u \in Tasks : assigned = {u})
  BY BatchFacts DEF WorkInBatch
<1>2. PICK r \in Outputs(t) : results' = [results EXCEPT ![t] = r]
  BY DEF WorkInBatch
<1>3. context["draft_itinerary"].draft \in Nat
  BY <1>1, AtWork
<1>4. r \in Report /\ r.draft = context["draft_itinerary"].draft
  BY <1>1, <1>3, OutputsFacts DEF IInv, TypeOK
<1>5. UNCHANGED <<missing, keyed, ledger, context, status, flags, pc, assigned,
                  drafts>>
  BY DEF WorkInBatch
<1>6. UNCHANGED <<board, artifacts, governance, iterations>>
  BY <1>5 DEF ledger
<1>7. results \in [Reports -> Report \cup {None}]
  BY DEF IInv, TypeOK
<1>8. TypeOK'
  <2>1. results' \in [Reports -> Report \cup {None}]
    BY <1>2, <1>4, <1>7
  <2> QED BY <1>5, <1>6, <2>1 DEF IInv, TypeOK
<1>9. Settled' /\ DraftCount' /\ Supported'
  BY <1>5, <1>6 DEF IInv, Settled, DraftCount, Supported, Itinerary
<1>10. BoardMatchesContext' /\ ArtifactsMatch'
  BY <1>5, <1>6 DEF IInv, BoardMatchesContext, ArtifactsMatch
<1>11. OfThisDraft'
  <2>1. \A x \in Reports : results'[x] = IF x = t THEN r ELSE results[x]
    BY <1>2, <1>7
  <2> QED BY <1>4, <1>5, <1>6, <2>1 DEF IInv, OfThisDraft
<1>12. Assignment' /\ Waiting'
  BY <1>1, <1>5, <1>6 DEF IInv, Assignment, Waiting
<1> QED BY <1>8, <1>9, <1>10, <1>11, <1>12 DEF IInv

\* Merging brings in reports of the draft that stands.
LEMMA MergeBatchKeeps == ASSUME IInv, MergeBatch PROVE IInv'
<1> USE TaskFacts
<1>1. assigned \subseteq Parallel /\ pc = "working"
  BY BatchFacts DEF MergeBatch
<1>2. assigned \in SUBSET Tasks /\ Complete(assigned)
  BY <1>1 DEF MergeBatch
<1>3. Settled' /\ Supported'
  BY <1>1, <1>2, CompletingKeeps
<1>4. /\ board' \in [Tasks -> TaskRec]
      /\ \A x \in Tasks : /\ board'[x].status = IF x \in assigned THEN "completed" ELSE board[x].status
                          /\ board'[x].revisions = board[x].revisions
  BY <1>2, Completing DEF IInv
<1>5. \A x \in Reports : /\ context'[x] = IF x \in assigned THEN results[x] ELSE context[x]
                         /\ artifacts'[x] = IF x \in assigned THEN results[x] ELSE artifacts[x]
  BY DEF MergeBatch, Merged
<1>6. \A x \in assigned : results[x] # None
  BY DEF MergeBatch
<1>7. UNCHANGED <<missing, keyed, governance, iterations, status, flags, assigned,
                  drafts>> /\ pc' = "coordinator" /\ results' = Nothing
  BY DEF MergeBatch
<1>8. TypeOK'
  <2>1. Nothing \in [Reports -> Report \cup {None}]
    BY DEF Nothing
  <2>2. context' \in [Reports -> Report \cup {None}] /\ artifacts' \in [Reports -> Report \cup {None}]
    BY DEF MergeBatch, Merged, IInv, TypeOK
  <2> QED BY <1>4, <1>7, <2>1, <2>2 DEF IInv, TypeOK, TaskRec
<1>9. DraftCount'
  BY <1>1, <1>4, <1>7 DEF DraftCount, IInv, Itinerary
<1>10. BoardMatchesContext' /\ ArtifactsMatch'
  BY <1>1, <1>4, <1>5, <1>6 DEF BoardMatchesContext, ArtifactsMatch, IInv
<1>11. OfThisDraft'
  <2>1. context'["draft_itinerary"] = context["draft_itinerary"]
    BY <1>1, <1>5
  <2>2. \A x \in Offspring : results'[x] = None
    BY <1>7 DEF Nothing
  <2> QED BY <1>5, <2>1, <2>2 DEF IInv, OfThisDraft
<1>12. Assignment' /\ Waiting'
  BY <1>7 DEF Assignment, Waiting
<1> QED BY <1>3, <1>8, <1>9, <1>10, <1>11, <1>12 DEF IInv

\* A fresh ledger and context satisfy the invariant.
LEMMA Initially == Init => IInv
<1> SUFFICES ASSUME Init PROVE IInv
  OBVIOUS
<1> USE TaskFacts
<1>1. \A x \in Tasks : board[x].status = "pending" /\ board[x].revisions = 0
  BY DEF Init
<1>2. context = Nothing /\ artifacts = Nothing /\ results = Nothing
  BY DEF Init
<1>3. TypeOK
  <2>1. Nothing \in [Reports -> Report \cup {None}]
    BY DEF Nothing
  <2>2. board \in [Tasks -> [status: AgentTaskStatus, revisions: 0 .. MaxRevisions]]
    BY Rounds DEF Init, AgentTaskStatus
  <2> QED BY <1>2, <2>1, <2>2 DEF Init, TypeOK, TripStatus
<1>4. Settled /\ Supported
  BY <1>1 DEF Settled, Supported
<1>5. DraftCount
  BY <1>1 DEF Init, DraftCount, Itinerary
<1>6. BoardMatchesContext /\ ArtifactsMatch /\ OfThisDraft
  BY <1>1, <1>2 DEF BoardMatchesContext, ArtifactsMatch, OfThisDraft, Nothing
<1>7. Assignment /\ Waiting
  BY <1>2 DEF Init, Assignment, Waiting
<1> QED BY <1>3, <1>4, <1>5, <1>6, <1>7 DEF IInv

\* Nothing happens.
LEMMA StutterKeeps == ASSUME IInv, UNCHANGED vars PROVE IInv'
<1>1. UNCHANGED <<missing, keyed, board, artifacts, governance, iterations, context, status, flags,
                  pc, assigned, results, drafts>>
  BY DEF vars, ledger
<1>2. TypeOK'
  BY <1>1 DEF IInv, TypeOK
<1>3. Assignment' /\ Waiting'
  BY <1>1 DEF IInv, Assignment, Waiting
<1> QED BY <1>1, <1>2, <1>3, FrameKeeps

\* All steps together.
LEMMA Inductive == IInv /\ [Next]_vars => IInv'
<1> SUFFICES ASSUME IInv, [Next]_vars PROVE IInv'
  OBVIOUS
<1>1. CASE Assign
  BY <1>1, AssignKeeps
<1>2. CASE Stop
  BY <1>2, StopKeeps
<1>3. CASE Clarify
  BY <1>3, ClarifyKeeps
<1>4. CASE Govern
  BY <1>4, GovernKeeps
<1>5. CASE ItineraryFallback
  BY <1>5, FallbackKeeps
<1>6. CASE \E t \in Reports : Deliver(t) \/ WorkInBatch(t)
  BY <1>6, DeliverKeeps, WorkInBatchKeeps
<1>7. CASE MergeBatch
  BY <1>7, MergeBatchKeeps
<1>8. CASE Raise
  BY <1>8, RaiseKeeps
<1>9. CASE UNCHANGED vars
  BY <1>9, StutterKeeps
<1> QED BY <1>1, <1>2, <1>3, <1>4, <1>5, <1>6, <1>7, <1>8, <1>9 DEF Next, Steps

\* The board, the context, the ledger's artifacts and the count of drafts agree
\* in every reachable state, for every limit on revisions and iterations.
THEOREM Invariant == Spec => []IInv
<1>1. Init => IInv
  BY Initially
<1>2. IInv /\ [Next]_vars => IInv'
  BY Inductive
<1> QED BY <1>1, <1>2, PTL DEF Spec

-----------------------------------------------------------------------------
(* The properties of the runs. *)

\* Every variable keeps its type, the counts of revisions and iterations included.
THEOREM TypeOKHolds == Spec => []TypeOK
<1>1. IInv => TypeOK
  BY DEF IInv
<1> QED BY <1>1, Invariant, PTL

\* A deliverable stands in the context exactly when its task is done on the board
\* (but for the itinerary being revised), whatever the coordinator withdraws.
THEOREM BoardMatchesContextHolds == Spec => []BoardMatchesContext
<1>1. IInv => BoardMatchesContext
  BY DEF IInv
<1> QED BY <1>1, Invariant, PTL

\* No report made of an earlier draft survives a revision, in the context or in
\* the ledger's artifacts.
THEOREM CurrentDeliverablesHolds == Spec => []CurrentDeliverables
<1>1. IInv => CurrentDeliverables
  BY DEF IInv, OfThisDraft, CurrentDeliverables, Offspring
<1> QED BY <1>1, Invariant, PTL

\* At most MaxRevisions + 1 itineraries are drafted, whatever budget, review and
\* governance say.
THEOREM DraftsBoundedHolds == Spec => []DraftsBounded
<1>1. ASSUME IInv PROVE DraftsBounded
  <2>1. Itinerary \in TaskRec /\ drafts \in Nat
    BY <1>1, TaskFacts DEF IInv, TypeOK, Itinerary, TaskRec
  <2>2. Itinerary.revisions \in 0 .. MaxRevisions
    BY <2>1 DEF TaskRec
  <2>3. \/ drafts = 0
        \/ drafts = Itinerary.revisions
        \/ drafts = Itinerary.revisions + 1
    BY <1>1, TaskFacts DEF IInv, Settled, DraftCount, Itinerary
  <2> QED BY <2>1, <2>2, <2>3, Rounds DEF DraftsBounded
<1> QED BY <1>1, Invariant, PTL

\* One step: what is completed was at work, on its dependencies' deliverables.
LEMMA CompletesInHand ==
    ASSUME IInv, Next, NEW t \in Tasks,
           board[t].status # "completed", board'[t].status = "completed"
    PROVE  \A d \in DependsOn[t] \cap Reports : context[d] # None
<1> USE TaskFacts
<1>1. pc = "working" /\ t \in assigned
  <2>1. CASE Assign
    <3>1. board'[t].status \in {"in_progress", "pending", board[t].status}
      BY <2>1, Assigning
    <3> QED BY <3>1
  <2>2. CASE Clarify \/ Govern
    BY <2>2 DEF Clarify, Govern, Complete, Alone
  <2>3. CASE \E u \in Reports : Deliver(u)
    BY <2>3 DEF Deliver, Complete, Alone
  <2>4. CASE MergeBatch
    BY <2>4 DEF MergeBatch, Complete, Side_by_side
  <2>5. CASE Stop \/ ItineraryFallback \/ Raise \/ \E u \in Reports : WorkInBatch(u)
    BY <2>5 DEF Stop, ItineraryFallback, Raise, WorkInBatch, ledger
  <2> QED BY <2>1, <2>2, <2>3, <2>4, <2>5 DEF Next, Steps
<1>2. \A d \in DependsOn[t] : board[d].status = "completed"
  BY <1>1, AtWork
<1> QED BY <1>2 DEF IInv, BoardMatchesContext

\* No specialist finishes without the deliverables its task depends on in hand.
THEOREM InputsInHandHolds == Spec => InputsInHand
<1> DEFINE Step == \A t \in Tasks : (board[t].status # "completed" /\ board'[t].status = "completed") =>
                       \A d \in DependsOn[t] \cap Reports : context[d] # None
<1>1. IInv /\ [Next]_vars => [Step]_vars
  BY CompletesInHand
<1> HIDE DEF Step
<1>2. Spec => [][Step]_vars
  BY <1>1, Invariant, PTL DEF Spec
<1> QED BY <1>2 DEF Step, InputsInHand
-----------------------------------------------------------------------------
(***************************************************************************)
(* How an attempt ends, when the iterations are enough for all revisions,  *)
(* and that it implements PlanPipeline.                                    *)
(***************************************************************************)
\* Eight iterations for a first pass and its stop, five for each revision.
Enough == MaxIterations >= 8 + 5 * MaxRevisions

Done(t) == board[t].status = "completed"
Pending(t) == board[t].status = "pending"

\* The parallel specialists begin and finish together.
Together == \A t, u \in Parallel : board[t].status = board[u].status
Whole == pc = "working" =>
            assigned = Parallel \/ \E t \in Tasks \ Parallel : assigned = {t}

\* Whoever is at work was assigned.
NoneLost == \A t \in Tasks : board[t].status = "in_progress" =>
                pc \in {"working", "raised"} /\ (pc = "working" => t \in assigned)

\* What has been begun, a batch counting once.
Begun(t) == IF Pending(t) THEN 0 ELSE 1
Turns == Begun("clarify_request") + Begun("research_destination") + Begun("draft_itinerary")
         + Begun("plan_transport") + Begun("audit_budget") + Begun("critique_plan")
         + Begun("govern_plan")

\* No iteration is wasted.
Charged == pc # "end" => iterations <= Turns + 5 * Itinerary.revisions

\* While the user is asked, nothing else is begun.
AskedFirst == status = "awaiting_clarification" =>
                 /\ pc # "working" /\ Done("clarify_request")
                 /\ \A t \in Tasks \ {"clarify_request"} : Pending(t)

\* Once governance has looked, its word stands.
Governed == Done("govern_plan") /\ status = "completed" =>
                governance = "approve" /\ flags = {} /\ Evaluate(context) = {}

EndInv == /\ IInv /\ Together /\ Whole /\ NoneLost /\ Charged /\ AskedFirst /\ Governed
          /\ FinishedOrWaiting

-----------------------------------------------------------------------------
(* The decision. *)

\* A batch of all parallel specialists is a batch: more than one task.
LEMMA ParallelIsMany == Cardinality(Parallel) > 1
<1>1. IsFiniteSet(Parallel)
  <2>1. Parallel = (({"recommend_stay"} \cup {"plan_transport"}) \cup {"recommend_food"})
                   \cup {"review_safety"}
    BY DEF Parallel
  <2> QED BY <2>1, FS_Singleton, FS_Union
<1>2. Cardinality(Parallel) \in Nat
  BY <1>1, FS_CardinalityType
<1>3. Cardinality(Parallel) # 0
  BY <1>1, FS_EmptySet DEF Parallel
<1>4. Cardinality(Parallel) # 1
  <2>1. ASSUME NEW x, Parallel = {x} PROVE FALSE
    BY <2>1 DEF Parallel
  <2> QED BY <1>1, <2>1, FS_Singleton
<1> QED BY <1>2, <1>3, <1>4

\* CoordinatorAgent takes the first ready task, and there is one if any is ready.
LEMMA FirstIsOne == ASSUME NEW ts \in SUBSET Tasks, ts # {} PROVE First(ts) \in ts
<1> DEFINE P(t) == \E i \in DOMAIN Board : Board[i] = t /\ \A j \in 1 .. i - 1 : Board[j] \notin ts
<1>1. DOMAIN Board = 1 .. 10
  BY DEF Board
<1>2. /\ Board[1] = "clarify_request" /\ Board[2] = "research_destination"
      /\ Board[3] = "draft_itinerary" /\ Board[4] = "recommend_stay"
      /\ Board[5] = "plan_transport" /\ Board[6] = "recommend_food"
      /\ Board[7] = "audit_budget" /\ Board[8] = "review_safety"
      /\ Board[9] = "critique_plan" /\ Board[10] = "govern_plan"
  BY DEF Board
<1>3. \E i \in 1 .. 10 : Board[i] \in ts
  <2>1. \A x \in Tasks : \/ x = Board[1] \/ x = Board[2] \/ x = Board[3] \/ x = Board[4]
                         \/ x = Board[5] \/ x = Board[6] \/ x = Board[7] \/ x = Board[8]
                         \/ x = Board[9] \/ x = Board[10]
    BY <1>2 DEF Tasks
  <2>2. \A x \in Tasks : \E i \in 1 .. 10 : x = Board[i]
    BY <2>1
  <2> QED BY <2>2
<1>4. \E i \in 1 .. 10 : Board[i] \in ts /\ \A j \in 1 .. i - 1 : Board[j] \notin ts
  <2> DEFINE Q(i) == Board[i] \in ts
  <2>1. \E i \in 1 .. 10 : Q(i)
    BY <1>3
  <2> HIDE DEF Q
  <2>2. \E i \in 1 .. 10 : Q(i) /\ \A j \in 1 .. i - 1 : ~Q(j)
    BY <2>1
  <2> QED BY <2>2 DEF Q
<1>5. \E t \in ts : P(t)
  BY <1>1, <1>4
<1> HIDE DEF P
<1>6. First(ts) = CHOOSE t \in ts : P(t)
  BY DEF First, P
<1> QED BY <1>5, <1>6

\* Outside a revision the parallel specialists are assigned all together, and
\* the others one by one.
LEMMA DecisionWhole ==
    ASSUME IInv, Together, ~RevisionDue
    PROVE  \/ Decision = {} /\ Ready = {}
           \/ Decision = Parallel
           \/ \E t \in Tasks \ Parallel : Decision = {t}
<1> USE TaskFacts
<1>1. Batch = {} \/ Batch = Parallel
  <2>1. \A t \in Parallel : t \in Ready <=> Pending(t) /\ Done("draft_itinerary")
    BY DEF Ready, DependenciesComplete, DependsOn, Parallel, IInv, Settled, Pending, Done
  <2> QED BY <2>1 DEF Batch, Together, Pending
<1>2. CASE Batch = Parallel
  BY <1>2, ParallelIsMany DEF Decision
<1>3. CASE Batch = {}
  <2>1. ~(Cardinality(Batch) > 1)
    BY <1>3, FS_EmptySet
  <2>2. Decision = {t \in Ready : t = First(Ready)}
    BY <2>1 DEF Decision
  <2>3. Ready \subseteq Tasks
    BY DEF Ready
  <2>4. \A t \in Ready : t \notin Parallel
    BY <1>3 DEF Batch
  <2>5. CASE Ready = {}
    BY <2>2, <2>5
  <2>6. CASE Ready # {}
    <3>1. First(Ready) \in Ready
      BY <2>3, <2>6, FirstIsOne
    <3> QED BY <2>2, <2>3, <2>4, <3>1
  <2> QED BY <2>5, <2>6
<1> QED BY <1>1, <1>2, <1>3

\* The coordinator has nothing left to assign only when everything is done.
LEMMA AllDone ==
    ASSUME IInv, NoneLost, pc = "coordinator", Ready = {}
    PROVE  \A t \in Tasks : Done(t)
<1> USE TaskFacts
<1>1. ASSUME NEW t \in Tasks, \A d \in DependsOn[t] : Done(d) PROVE Done(t)
  BY <1>1 DEF Ready, DependenciesComplete, NoneLost, Done, IInv, Settled
<1>2. Done("clarify_request")
  BY <1>1 DEF DependsOn, Tasks
<1>3. Done("research_destination")
  BY <1>1, <1>2 DEF DependsOn, Tasks
<1>4. Done("draft_itinerary")
  BY <1>1, <1>3 DEF DependsOn, Tasks
<1>5. Done("recommend_stay") /\ Done("plan_transport") /\ Done("recommend_food") /\ Done("review_safety")
  BY <1>1, <1>4 DEF DependsOn, Tasks
<1>6. Done("audit_budget")
  BY <1>1, <1>4, <1>5 DEF DependsOn, Tasks
<1>7. Done("critique_plan")
  BY <1>1, <1>5, <1>6 DEF DependsOn, Tasks
<1>8. Done("govern_plan")
  BY <1>1, <1>7 DEF DependsOn, Tasks
<1> QED BY <1>2, <1>3, <1>4, <1>5, <1>6, <1>7, <1>8 DEF Tasks

\* Governance comes last.
LEMMA AllBehind ==
    ASSUME IInv, ~Pending("govern_plan")
    PROVE  \A t \in Tasks \ {"govern_plan"} : Done(t)
<1>1. ASSUME NEW t \in Tasks, ~Pending(t) PROVE \A d \in DependsOn[t] : Done(d) /\ ~Pending(d)
  BY <1>1 DEF IInv, Supported, Done, Pending
<1>2. Done("critique_plan") /\ ~Pending("critique_plan")
  BY <1>1 DEF DependsOn, Tasks
<1>3. /\ Done("audit_budget") /\ ~Pending("audit_budget")
      /\ Done("review_safety") /\ ~Pending("review_safety")
  BY <1>1, <1>2 DEF DependsOn, Tasks
<1>4. /\ Done("draft_itinerary") /\ ~Pending("draft_itinerary")
      /\ Done("recommend_stay") /\ Done("plan_transport") /\ Done("recommend_food")
  BY <1>1, <1>3 DEF DependsOn, Tasks
<1>5. Done("research_destination") /\ ~Pending("research_destination")
  BY <1>1, <1>4 DEF DependsOn, Tasks
<1>6. Done("clarify_request")
  BY <1>1, <1>5 DEF DependsOn, Tasks
<1> QED BY <1>2, <1>3, <1>4, <1>5, <1>6 DEF Tasks

\* Every round has seven turns.
LEMMA TurnsBound ==
    /\ Turns \in 0 .. 7
    /\ IInv => Itinerary.revisions \in 0 .. MaxRevisions
<1>1. Turns \in 0 .. 7
  BY DEF Turns, Begun
<1>2. ASSUME IInv PROVE Itinerary.revisions \in 0 .. MaxRevisions
  <2>1. Itinerary \in [status: AgentTaskStatus, revisions: 0 .. MaxRevisions]
    BY <1>2, TaskFacts DEF IInv, TypeOK, Itinerary
  <2> QED BY <2>1
<1> QED BY <1>1, <1>2

\* The iterations are enough.
LEMMA NeverExhausted ==
    ASSUME IInv, Charged, Enough, pc # "end"
    PROVE  ~Exhausted
<1>1. iterations \in Nat /\ iterations <= Turns + 5 * Itinerary.revisions
  BY DEF IInv, TypeOK, Charged
<1> QED BY <1>1, TurnsBound, Rounds DEF Exhausted, Enough

-----------------------------------------------------------------------------
(* Every step keeps EndInv. *)

\* A step that leaves the board alone leaves alone what is read off it.
LEMMA Frozen ==
    ASSUME UNCHANGED board
    PROVE  /\ \A t : (Done(t)' <=> Done(t)) /\ (Pending(t)' <=> Pending(t))
           /\ Turns' = Turns /\ Itinerary' = Itinerary
           /\ Together => Together'
BY DEF Done, Pending, Turns, Begun, Itinerary, Together

\* The coordinator assigns: one turn more, for one iteration more.
LEMMA AssignEnds == ASSUME EndInv, Assign PROVE EndInv'
<1> USE TaskFacts
<1>1. IInv /\ IInv'
  BY AssignKeeps DEF EndInv
<1>2. /\ pc = "coordinator" /\ pc' = "working" /\ assigned' = Decision /\ Decision # {}
      /\ iterations' = iterations + 1 /\ status # "awaiting_clarification" /\ status' = status
  BY DEF Assign, Awaiting
<1>3. \A t \in Tasks : board[t].status \in {"pending", "completed"}
  BY <1>2 DEF EndInv, IInv, Settled, NoneLost
<1>4. AskedFirst' /\ FinishedOrWaiting'
  BY <1>2 DEF AskedFirst, FinishedOrWaiting
<1>5. iterations \in Nat /\ iterations <= Turns + 5 * Itinerary.revisions
  BY <1>1, <1>2 DEF EndInv, Charged, IInv, TypeOK
<1>6. CASE RevisionDue
  <2>1. Decision = {"draft_itinerary"}
    BY <1>6, DecisionCases
  <2>2. \A x \in Tasks : board'[x].status = IF x = "draft_itinerary" THEN "in_progress"
                                            ELSE IF x \in Downstream THEN "pending"
                                            ELSE board[x].status
    BY <1>1, <1>6, Assigning
  <2>3. Itinerary'.revisions = Itinerary.revisions + 1
    BY <1>1, <1>6, Assigning DEF Itinerary
  <2>4. Together'
    BY <2>2 DEF Together
  <2>5. Whole'
    BY <1>2, <2>1 DEF Whole, Parallel
  <2>6. NoneLost'
    BY <1>2, <1>3, <2>1, <2>2 DEF NoneLost
  <2>7. Turns' = 3
    <3>1. Itinerary.status = "completed"
      BY <1>1, <1>6, DoOverCases
    <3>2. board["research_destination"].status = "completed"
      BY <1>1, <3>1 DEF IInv, Supported, Itinerary
    <3>3. board["clarify_request"].status = "completed"
      BY <1>1, <3>2 DEF IInv, Supported, DependsOn
    <3>4. /\ board'["clarify_request"].status = "completed"
          /\ board'["research_destination"].status = "completed"
          /\ board'["draft_itinerary"].status = "in_progress"
          /\ board'["plan_transport"].status = "pending"
          /\ board'["audit_budget"].status = "pending"
          /\ board'["critique_plan"].status = "pending"
          /\ board'["govern_plan"].status = "pending"
      BY <2>2, <3>2, <3>3 DEF Tasks, Downstream, Parallel
    <3> QED BY <3>4 DEF Turns, Begun, Pending
  <2>8. Charged'
    BY <1>1, <1>2, <1>5, <2>3, <2>7, TurnsBound, Rounds DEF Charged
  <2>9. Governed'
    BY <2>2 DEF Governed, Done
  <2> QED BY <1>1, <1>4, <2>4, <2>5, <2>6, <2>8, <2>9 DEF EndInv
<1>7. CASE ~RevisionDue
  <2>1. Decision = Parallel \/ \E t \in Tasks \ Parallel : Decision = {t}
    BY <1>1, <1>2, <1>7, DecisionWhole DEF EndInv
  <2>2. Decision \subseteq Ready
    BY <1>1, <1>7, DoOverCases
  <2>3. \A t \in Decision : t \in Tasks /\ board[t].status = "pending"
    BY <1>1, <2>2 DEF Ready, IInv, Settled
  <2>4. \A x \in Tasks : board'[x].status = IF x \in Decision THEN "in_progress" ELSE board[x].status
    BY <1>1, <1>7, Assigning
  <2>5. Itinerary'.revisions = Itinerary.revisions
    BY <1>1, <1>7, Assigning DEF Itinerary
  <2>6. Together'
    BY <2>1, <2>4 DEF Together, EndInv
  <2>7. Whole'
    BY <1>2, <2>1 DEF Whole
  <2>8. NoneLost'
    BY <1>2, <1>3, <2>4 DEF NoneLost
  <2>9. Turns' = Turns + 1
    <3>1. \A x \in Tasks : /\ Pending(x)' <=> Pending(x) /\ x \notin Decision
                           /\ x \in Decision => Pending(x)
      BY <2>3, <2>4 DEF Pending
    <3>2. CASE Decision = Parallel
      BY <3>1, <3>2 DEF Turns, Begun, Tasks, Parallel
    <3>3. CASE \E t \in Tasks \ Parallel : Decision = {t}
      BY <3>1, <3>3 DEF Turns, Begun, Tasks, Parallel
    <3> QED BY <2>1, <3>2, <3>3
  <2>10. Charged'
    BY <1>1, <1>2, <1>5, <2>5, <2>9, TurnsBound, Rounds DEF Charged
  <2>11. Governed'
    <3>1. ~DoOver
      BY <1>1, <1>7, DoOverCases
    <3>2. UNCHANGED <<context, flags, governance, status>>
      BY <3>1 DEF Assign
    <3>3. Done("govern_plan")' => Done("govern_plan")
      BY <2>4 DEF Done
    <3> QED BY <3>2, <3>3 DEF Governed, EndInv, Evaluate
  <2> QED BY <1>1, <1>4, <2>6, <2>7, <2>8, <2>10, <2>11 DEF EndInv
<1> QED BY <1>6, <1>7

\* The coordinator stops: never for want of iterations.
LEMMA StopEnds == ASSUME EndInv, Stop, Enough PROVE EndInv'
<1>1. /\ pc = "coordinator" /\ pc' = "end" /\ UNCHANGED <<board, context, status, flags, governance>>
      /\ IInv /\ IInv'
  BY StopKeeps DEF Stop, EndInv
<1>2. Together' /\ Whole' /\ Charged'
  BY <1>1, Frozen DEF EndInv, Whole, Charged
<1>3. NoneLost'
  BY <1>1 DEF NoneLost, EndInv
<1>4. AskedFirst' /\ Governed'
  BY <1>1, Frozen DEF AskedFirst, Governed, EndInv, Evaluate
<1>5. Awaiting \/ Decision = {}
  BY <1>1, NeverExhausted DEF Stop, EndInv
<1>6. CASE Awaiting
  <2>1. Done("clarify_request") /\ \A t \in Tasks \ {"clarify_request"} : Pending(t)
    BY <1>6 DEF AskedFirst, EndInv, Awaiting
  <2>2. {t \in Tasks : board[t].status = "completed"} = {"clarify_request"}
    BY <2>1, TaskFacts DEF Done, Pending
  <2>3. FinishedOrWaiting'
    BY <1>1, <1>6, <2>2 DEF FinishedOrWaiting, Awaiting
  <2> QED BY <1>1, <1>2, <1>3, <1>4, <2>3 DEF EndInv
<1>7. CASE Decision = {}
  <2>1. ~RevisionDue
    BY <1>7, DecisionCases
  <2>2. Ready = {}
    BY <1>1, <1>7, <2>1, DecisionWhole DEF EndInv, Parallel
  <2>3. \A t \in Tasks : board[t].status = "completed"
    BY <1>1, <2>2, AllDone DEF EndInv, Done
  <2>4. FinishedOrWaiting'
    BY <1>1, <2>3 DEF FinishedOrWaiting
  <2> QED BY <1>1, <1>2, <1>3, <1>4, <2>4 DEF EndInv
<1> QED BY <1>5, <1>6, <1>7

\* The steps that change neither the board nor what governance has said.
LEMMA QuietEnds ==
    ASSUME EndInv, IInv', UNCHANGED <<board, context, status, flags, governance, iterations, assigned>>,
           \/ pc' = pc
           \/ pc' = "raised" /\ pc # "end"
    PROVE  EndInv'
<1>1. Together' /\ Whole' /\ Charged'
  BY Frozen DEF EndInv, Whole, Charged
<1>2. NoneLost'
  BY DEF NoneLost, EndInv
<1>3. AskedFirst' /\ Governed'
  BY Frozen DEF AskedFirst, Governed, EndInv, Evaluate
<1>4. FinishedOrWaiting'
  BY DEF FinishedOrWaiting, EndInv
<1> QED BY <1>1, <1>2, <1>3, <1>4 DEF EndInv

\* An attempt that raises never gets to its end.
LEMMA RaiseEnds == ASSUME EndInv, Raise \/ ItineraryFallback PROVE EndInv'
<1>1. IInv'
  BY RaiseKeeps, FallbackKeeps DEF EndInv
<1>2. UNCHANGED <<board, context, status, flags, governance, iterations, assigned>>
  BY DEF Raise, ItineraryFallback, ledger
<1>3. pc' = "raised" /\ pc # "end"
  BY DEF Raise, ItineraryFallback, Alone
<1> QED BY <1>1, <1>2, <1>3, QuietEnds

\* A batch member works on its copy.
LEMMA WorkInBatchEnds == ASSUME EndInv, NEW t \in Reports, WorkInBatch(t) PROVE EndInv'
<1>1. IInv'
  BY WorkInBatchKeeps DEF EndInv
<1> QED BY <1>1, QuietEnds DEF WorkInBatch, ledger

\* Nothing happens.
LEMMA StutterEnds == ASSUME EndInv, UNCHANGED vars PROVE EndInv'
<1>1. IInv'
  BY StutterKeeps DEF EndInv
<1> QED BY <1>1, QuietEnds DEF vars, ledger

\* A lone specialist or a batch finishes, and returns to the coordinator.
LEMMA FinishingEnds ==
    ASSUME EndInv, pc = "working", Complete(assigned), pc' = "coordinator", iterations' = iterations
    PROVE  /\ Together' /\ Whole' /\ NoneLost' /\ Charged' /\ FinishedOrWaiting'
           /\ \A x \in Tasks : board'[x].status = IF x \in assigned THEN "completed" ELSE board[x].status
           /\ \A x \in assigned : board[x].status = "in_progress"
           /\ status # "awaiting_clarification"
<1> USE TaskFacts
<1>1. assigned \in SUBSET Tasks
  BY DEF EndInv, IInv, TypeOK
<1>2. /\ \A x \in Tasks : /\ board'[x].status = IF x \in assigned THEN "completed" ELSE board[x].status
                          /\ board'[x].revisions = board[x].revisions
  BY <1>1, Completing DEF EndInv, IInv
<1>3. \A x \in assigned : board[x].status = "in_progress"
  BY DEF EndInv, IInv, Assignment
<1>4. assigned = Parallel \/ \E t \in Tasks \ Parallel : assigned = {t}
  BY DEF EndInv, Whole
<1>5. Together'
  BY <1>2, <1>4 DEF Together, EndInv
<1>6. Whole' /\ FinishedOrWaiting'
  BY DEF Whole, FinishedOrWaiting
<1>7. NoneLost'
  BY <1>2 DEF NoneLost, EndInv
<1>8. Turns' = Turns
  <2>1. \A x \in Tasks : Pending(x)' <=> Pending(x)
    BY <1>2, <1>3 DEF Pending
  <2> QED BY <2>1 DEF Turns, Begun, Tasks
<1>9. Charged'
  BY <1>2, <1>8 DEF Charged, EndInv, Itinerary
<1>10. status # "awaiting_clarification"
  BY DEF EndInv, AskedFirst
<1> QED BY <1>2, <1>3, <1>5, <1>6, <1>7, <1>9, <1>10

\* While anyone but governance is at work, governance has not looked.
LEMMA NotGoverned ==
    ASSUME IInv, NEW t \in Tasks, t # "govern_plan", board[t].status = "in_progress"
    PROVE  ~Done("govern_plan")
BY AllBehind DEF Done, Pending

\* The clarification node, the only one that sets the attempt to wait.
LEMMA ClarifyEnds == ASSUME EndInv, Clarify PROVE EndInv'
<1> USE TaskFacts
<1>1. IInv /\ IInv'
  BY ClarifyKeeps DEF EndInv
<1>2. /\ pc = "working" /\ assigned = {"clarify_request"} /\ Complete(assigned)
      /\ pc' = "coordinator" /\ iterations' = iterations
  BY DEF Clarify, Alone
<1>3. board["clarify_request"].status = "in_progress"
  BY <1>2, FinishingEnds
<1>4. \A t \in Tasks \ {"clarify_request"} : board[t].status = "pending"
  <2>1. board["research_destination"].status = "pending"
    BY <1>1, <1>3 DEF IInv, Supported, DependsOn
  <2>2. Itinerary.status = "pending"
    BY <1>1, <2>1 DEF IInv, Supported, DependsOn, Itinerary
  <2>3. \A t \in Downstream : board[t].status = "pending"
    BY <1>1, <2>2, NothingBegun DEF IInv
  <2>4. \A t \in Tasks : t \in Downstream \cup {"clarify_request", "research_destination",
                                                "draft_itinerary"}
    BY DEF Tasks, Downstream, Parallel
  <2> QED BY <2>1, <2>2, <2>3, <2>4 DEF Itinerary
<1>5. \A x \in Tasks : board'[x].status = IF x = "clarify_request" THEN "completed" ELSE board[x].status
  BY <1>2, FinishingEnds
<1>6. AskedFirst'
  BY <1>2, <1>4, <1>5 DEF AskedFirst, Done, Pending
<1>7. Governed'
  BY <1>4, <1>5 DEF Governed, Done
<1> QED BY <1>1, <1>2, <1>6, <1>7, FinishingEnds DEF EndInv

\* A specialist delivers: governance has not looked, and nobody is asked.
LEMMA DeliverEnds == ASSUME EndInv, NEW t \in Reports, Deliver(t) PROVE EndInv'
<1> USE TaskFacts
<1>1. IInv /\ IInv'
  BY DeliverKeeps DEF EndInv
<1>2. /\ pc = "working" /\ assigned = {t} /\ Complete(assigned)
      /\ pc' = "coordinator" /\ iterations' = iterations /\ t \in Tasks /\ t # "govern_plan"
  BY DEF Deliver, Alone
<1>3. PICK r \in Outputs(t) : status' = StatusAfter(t, r)
  BY DEF Deliver
<1>4. status' # "awaiting_clarification"
  BY <1>2, <1>3, FinishingEnds DEF StatusAfter
<1>5. ~Done("govern_plan")'
  <2>1. ~Done("govern_plan")
    BY <1>1, <1>2, FinishingEnds, NotGoverned
  <2> QED BY <1>2, <2>1, FinishingEnds DEF Done
<1>6. AskedFirst' /\ Governed'
  BY <1>4, <1>5 DEF AskedFirst, Governed
<1> QED BY <1>1, <1>2, <1>6, FinishingEnds DEF EndInv

\* The batch is merged: all parallel specialists finish at once.
LEMMA MergeBatchEnds == ASSUME EndInv, MergeBatch PROVE EndInv'
<1> USE TaskFacts
<1>1. IInv /\ IInv'
  BY MergeBatchKeeps DEF EndInv
<1>2. /\ pc = "working" /\ Complete(assigned) /\ pc' = "coordinator"
      /\ iterations' = iterations /\ status' = status
  BY DEF MergeBatch, Side_by_side
<1>3. assigned = Parallel
  BY <1>1, <1>2, BatchFacts DEF MergeBatch, EndInv, Whole
<1>4. ~Done("govern_plan")'
  <2>1. board["review_safety"].status = "in_progress"
    BY <1>2, <1>3, FinishingEnds DEF Parallel
  <2>2. ~Done("govern_plan")
    BY <1>1, <2>1, NotGoverned DEF Tasks
  <2> QED BY <1>2, <1>3, <2>2, FinishingEnds DEF Done, Parallel
<1>5. AskedFirst' /\ Governed'
  BY <1>2, <1>4, FinishingEnds DEF AskedFirst, Governed
<1> QED BY <1>1, <1>2, <1>5, FinishingEnds DEF EndInv

\* Governance has looked: completed means that nothing was flagged.
LEMMA GovernEnds == ASSUME EndInv, Govern PROVE EndInv'
<1> USE TaskFacts
<1>1. IInv /\ IInv'
  BY GovernKeeps DEF EndInv
<1>2. /\ pc = "working" /\ assigned = {"govern_plan"} /\ Complete(assigned)
      /\ pc' = "coordinator" /\ iterations' = iterations
  BY DEF Govern, Alone
<1>3. AskedFirst'
  BY DEF AskedFirst, Govern
<1>4. Governed'
  <2> SUFFICES ASSUME status' = "completed"
               PROVE  governance' = "approve" /\ flags' = {} /\ Evaluate(context)' = {}
    BY DEF Governed
  <2>1. flags' = {} /\ context' = context /\ flags' = Evaluate(context)
    BY DEF Govern
  <2>2. Evaluate(context') = {} /\ governance' = "approve"
    BY <2>1 DEF Govern
  <2> QED BY <2>1, <2>2 DEF Evaluate, LowConfidence
<1> QED BY <1>1, <1>2, <1>3, <1>4, FinishingEnds DEF EndInv

\* A fresh ledger and context satisfy the invariant.
LEMMA InitiallyEnds == Init => EndInv
<1> SUFFICES ASSUME Init PROVE EndInv
  OBVIOUS
<1> USE TaskFacts
<1>1. IInv
  BY Initially
<1>2. \A t \in Tasks : board[t].status = "pending" /\ board[t].revisions = 0
  BY DEF Init
<1>3. pc = "coordinator" /\ status = "draft" /\ iterations = 0
  BY DEF Init
<1>4. Together /\ NoneLost
  BY <1>2 DEF Together, NoneLost
<1>5. Charged
  BY <1>1, <1>3, TurnsBound DEF Charged
<1>6. Whole /\ AskedFirst /\ Governed /\ FinishedOrWaiting
  BY <1>3 DEF Whole, AskedFirst, Governed, FinishedOrWaiting
<1> QED BY <1>1, <1>4, <1>5, <1>6 DEF EndInv

\* All steps together.
LEMMA EndInductive == Enough /\ EndInv /\ [Next]_vars => EndInv'
<1> SUFFICES ASSUME Enough, EndInv, [Next]_vars PROVE EndInv'
  OBVIOUS
<1>1. CASE Assign
  BY <1>1, AssignEnds
<1>2. CASE Stop
  BY <1>2, StopEnds
<1>3. CASE Clarify
  BY <1>3, ClarifyEnds
<1>4. CASE Govern
  BY <1>4, GovernEnds
<1>5. CASE ItineraryFallback \/ Raise
  BY <1>5, RaiseEnds
<1>6. CASE \E t \in Reports : Deliver(t) \/ WorkInBatch(t)
  BY <1>6, DeliverEnds, WorkInBatchEnds
<1>7. CASE MergeBatch
  BY <1>7, MergeBatchEnds
<1>8. CASE UNCHANGED vars
  BY <1>8, StutterEnds
<1> QED BY <1>1, <1>2, <1>3, <1>4, <1>5, <1>6, <1>7, <1>8 DEF Next, Steps

\* With enough iterations, a turn of the coordinator is charged to a task that
\* was begun, governance's word stands and a user who is asked is asked first.
THEOREM EndInvariant == Enough => (Spec => []EndInv)
<1> SUFFICES ASSUME Enough PROVE Spec => []EndInv
  OBVIOUS
<1>1. Init => EndInv
  BY InitiallyEnds
<1>2. EndInv /\ [Next]_vars => EndInv'
  BY EndInductive
<1> QED BY <1>1, <1>2, PTL DEF Spec

\* With enough iterations an attempt that ends has done every task, or waits for
\* the user with nothing but the questions done.
THEOREM FinishedOrWaitingHolds == Enough => (Spec => []FinishedOrWaiting)
<1> SUFFICES ASSUME Enough PROVE Spec => []FinishedOrWaiting
  OBVIOUS
<1>1. Spec => []EndInv
  BY EndInvariant
<1>2. EndInv => FinishedOrWaiting
  BY DEF EndInv
<1> QED BY <1>1, <1>2, PTL

\* With enough iterations an attempt ends as completed only on governance's
\* approval, within budget and without a flag or an issue.
THEOREM CompletedIsGovernedHolds == Enough => (Spec => []CompletedIsGoverned)
<1> SUFFICES ASSUME Enough PROVE Spec => []CompletedIsGoverned
  OBVIOUS
<1>1. Spec => []EndInv
  BY EndInvariant
<1>2. ASSUME EndInv, pc = "end", status = "completed"
      PROVE  governance = "approve" /\ flags = {} /\ Budget.verdict /\ ~Review.issues
  <2>1. \A t \in Tasks : board[t].status = "completed"
    BY <1>2 DEF EndInv, FinishedOrWaiting
  <2>2. governance = "approve" /\ flags = {} /\ Evaluate(context) = {}
    BY <1>2, <2>1, TaskFacts DEF EndInv, Governed, Done
  <2>3. context["audit_budget"] # None
    BY <1>2, <2>1, TaskFacts DEF EndInv, IInv, BoardMatchesContext
  <2> QED BY <2>2, <2>3 DEF Evaluate, Budget, Review
<1>3. EndInv => CompletedIsGoverned
  BY <1>2 DEF CompletedIsGoverned
<1> QED BY <1>1, <1>3, PTL

-----------------------------------------------------------------------------
(* The attempt implements PlanPipeline. *)

Fresh == {t \in Tasks : board[t].status = "completed" /\ (t \in Reports => context[t] # None)}
Outcome == CASE pc \in {"coordinator", "working"} -> "planning"
             [] pc = "end" -> IF status = "awaiting_clarification" THEN "waiting" ELSE "finished"
             [] pc = "raised" -> "failed"

\* Both specifications are about the same board.
LEMMA SameBoard == /\ Pipeline!Tasks = Tasks /\ Pipeline!DependsOn = DependsOn
                   /\ Pipeline!Downstream = Downstream
BY DEF Pipeline!Tasks, Tasks, Pipeline!DependsOn, DependsOn, Pipeline!Downstream, Downstream,
       Pipeline!Parallel, Parallel

\* Between the two specifications: what stands is what the board calls done.
LEMMA FreshIsDone == ASSUME IInv PROVE Fresh = {t \in Tasks : Done(t)}
BY DEF IInv, BoardMatchesContext, Fresh, Done

\* The outcome the pipeline sees, for each place of the attempt.
LEMMA OutcomeCases ==
    /\ pc \in {"coordinator", "working"} => Outcome = "planning"
    /\ pc = "end" => Outcome = IF status = "awaiting_clarification" THEN "waiting" ELSE "finished"
    /\ pc = "raised" => Outcome = "failed"
BY DEF Outcome

\* A deliverable of the pipeline is what specialists finish.
LEMMA Producing ==
    ASSUME EndInv, EndInv', pc = "working", pc' = "coordinator", Complete(assigned),
           iterations' = iterations, assigned # {},
           drafts' = IF "draft_itinerary" \in assigned THEN drafts + 1 ELSE drafts
    PROVE  \E ts \in SUBSET Pipeline!Due : Pipeline!Produce(ts)
<1>1. Fresh = {t \in Tasks : Done(t)} /\ Fresh' = {t \in Tasks : Done(t)'}
  <2>1. Fresh' = {t \in Tasks : Done(t)'}
    BY DEF EndInv, IInv, BoardMatchesContext, Fresh, Done
  <2> QED BY <2>1, FreshIsDone DEF EndInv
<1>2. assigned \subseteq Tasks
  BY DEF EndInv, IInv, TypeOK
<1>3. Fresh' = Fresh \cup assigned
  BY <1>1, <1>2, FinishingEnds DEF Done
<1>4. assigned \subseteq {t \in Tasks \ Fresh : DependsOn[t] \subseteq Fresh}
  <2> SUFFICES ASSUME NEW t \in assigned PROVE t \notin Fresh /\ DependsOn[t] \subseteq Fresh
    BY <1>2
  <2>1. board[t].status = "in_progress" /\ \A d \in DependsOn[t] : board[d].status = "completed"
    BY <1>2, AtWork DEF EndInv
  <2> QED BY <1>1, <1>2, <2>1, TaskFacts DEF Done
<1>5. drafts' <= MaxRevisions + 1
  <2>1. /\ Itinerary' \in TaskRec /\ drafts' \in Nat
    BY TaskFacts DEF EndInv, IInv, TypeOK, Itinerary, TaskRec
  <2>2. Itinerary'.revisions \in 0 .. MaxRevisions
    BY <2>1 DEF TaskRec
  <2>3. drafts' = 0 \/ drafts' = Itinerary'.revisions \/ drafts' = Itinerary'.revisions + 1
    BY TaskFacts DEF EndInv, IInv, Settled, DraftCount, Itinerary
  <2> QED BY <2>1, <2>2, <2>3, Rounds
<1>6. Outcome = "planning" /\ Outcome' = "planning"
  BY OutcomeCases DEF Outcome
<1>7. assigned \in SUBSET Pipeline!Due
  BY <1>4, SameBoard DEF Pipeline!Due, Fresh
<1>8. Pipeline!Produce(assigned)
  BY <1>3, <1>5, <1>6 DEF Pipeline!Produce, Fresh, Outcome
<1> QED BY <1>7, <1>8 DEF Pipeline!Due, Pipeline!Produce

\* Every step of the attempt is a step of the pipeline, or none.
LEMMA StepImplements ==
    ASSUME Enough, EndInv, EndInv', [Next]_vars
    PROVE  [Pipeline!Next]_(Pipeline!plan)
<1> USE TaskFacts
<1> DEFINE Same == drafts' = drafts /\ Fresh' = Fresh /\ Outcome' = Outcome
<1>1. Fresh = {t \in Tasks : Done(t)} /\ Fresh' = {t \in Tasks : Done(t)'}
  <2>1. Fresh' = {t \in Tasks : Done(t)'}
    BY DEF EndInv, IInv, BoardMatchesContext, Fresh, Done
  <2> QED BY <2>1, FreshIsDone DEF EndInv
<1>2. Same => UNCHANGED Pipeline!plan
  BY DEF Pipeline!plan, Fresh, Outcome
<1>3. CASE Assign
  <2>1. pc = "coordinator" /\ pc' = "working" /\ drafts' = drafts
    BY <1>3 DEF Assign
  <2>2. Outcome = "planning" /\ Outcome' = "planning"
    BY <2>1 DEF Outcome
  <2>3. CASE RevisionDue
    <3>1. \A x \in Tasks : board'[x].status = IF x = "draft_itinerary" THEN "in_progress"
                                              ELSE IF x \in Downstream THEN "pending"
                                              ELSE board[x].status
      BY <1>3, <2>3, Assigning DEF EndInv
    <3>2. Fresh' = Fresh \ (Downstream \cup {"draft_itinerary"})
      BY <1>1, <3>1 DEF Done
    <3>3. "audit_budget" \in Fresh
      <4>1. context["audit_budget"] # None
        BY <2>3 DEF RevisionDue, OverBudget, Rejected, Budget
      <4> QED BY <1>1, <4>1 DEF EndInv, IInv, BoardMatchesContext, Done
    <3>4. drafts <= MaxRevisions
      <4>1. Itinerary.status = "completed" /\ Itinerary.revisions < MaxRevisions
        BY <2>3, DoOverCases DEF EndInv, RevisionDue, RevisionLeft, Itinerary
      <4> QED BY <4>1, TurnsBound, Rounds DEF EndInv, IInv, DraftCount
    <3>5. Pipeline!Revise
      BY <2>1, <2>2, <3>2, <3>3, <3>4, SameBoard DEF Pipeline!Revise, Fresh, Outcome
    <3> QED BY <3>5 DEF Pipeline!Next, Pipeline!Advance
  <2>4. CASE ~RevisionDue
    <3>1. \A x \in Decision : board[x].status \in {"pending", "needs_revision"}
      BY <2>4, DoOverCases DEF EndInv, Ready
    <3>2. \A x \in Tasks : Done(x)' <=> Done(x)
      BY <1>3, <2>4, <3>1, Assigning DEF EndInv, Done
    <3> QED BY <1>1, <1>2, <2>1, <2>2, <3>2
  <2> QED BY <2>3, <2>4
<1>4. CASE Stop
  <2>1. pc = "coordinator" /\ pc' = "end" /\ UNCHANGED <<board, context, status, drafts>>
    BY <1>4 DEF Stop
  <2>2. Fresh' = Fresh /\ drafts' = drafts /\ Outcome = "planning"
    BY <2>1 DEF Fresh, Outcome
  <2>3. \/ /\ status' = "awaiting_clarification"
           /\ {t \in Tasks : board'[t].status = "completed"} = {"clarify_request"}
        \/ \A t \in Tasks : board'[t].status = "completed"
    BY <2>1 DEF EndInv, FinishedOrWaiting
  <2>4. CASE status = "awaiting_clarification"
    <3>1. Fresh = {"clarify_request"}
      BY <1>1, <2>4 DEF EndInv, AskedFirst, Done, Pending
    <3>2. Outcome' = "waiting"
      BY <2>1, <2>4 DEF Outcome
    <3>3. Pipeline!PutOff
      BY <2>2, <3>1, <3>2 DEF Pipeline!PutOff, Pipeline!End, Fresh, Outcome
    <3> QED BY <3>3 DEF Pipeline!Next, Pipeline!Advance
  <2>5. CASE status # "awaiting_clarification"
    <3>1. Fresh = Tasks
      BY <1>1, <2>1, <2>3, <2>5 DEF Done
    <3>2. Outcome' = "finished"
      BY <2>1, <2>5 DEF Outcome
    <3>3. Pipeline!Finish
      BY <2>2, <3>1, <3>2, SameBoard DEF Pipeline!Finish, Pipeline!End, Fresh, Outcome
    <3> QED BY <3>3 DEF Pipeline!Next, Pipeline!Advance
  <2> QED BY <2>4, <2>5
<1>5. CASE Raise \/ ItineraryFallback
  <2>1. /\ pc \in {"coordinator", "working"} /\ pc' = "raised"
        /\ UNCHANGED <<board, context, status, drafts>>
    BY <1>5 DEF Raise, ItineraryFallback, Alone, ledger
  <2>2. Fresh' = Fresh /\ drafts' = drafts
    BY <2>1 DEF Fresh
  <2>3. Outcome = "planning" /\ Outcome' = "failed"
    BY <2>1 DEF Outcome
  <2>4. Pipeline!Fail
    BY <2>2, <2>3 DEF Pipeline!Fail, Pipeline!End, Fresh, Outcome
  <2> QED BY <2>4 DEF Pipeline!Next
<1>6. CASE Clarify \/ Govern \/ MergeBatch \/ \E t \in Reports : Deliver(t)
  <2>1. /\ pc = "working" /\ pc' = "coordinator" /\ Complete(assigned) /\ iterations' = iterations
        /\ drafts' = IF "draft_itinerary" \in assigned THEN drafts + 1 ELSE drafts
        /\ assigned # {}
    <3>1. CASE Clarify \/ Govern
      BY <3>1 DEF Clarify, Govern, Alone
    <3>2. CASE \E t \in Reports : Deliver(t)
      BY <3>2 DEF Deliver, Alone
    <3>3. CASE MergeBatch
      <4>1. assigned = Parallel /\ pc = "working"
        BY <3>3, BatchFacts DEF MergeBatch, EndInv, Whole
      <4> QED BY <3>3, <4>1 DEF MergeBatch, Parallel
    <3> QED BY <1>6, <3>1, <3>2, <3>3
  <2>2. \E ts \in SUBSET Pipeline!Due : Pipeline!Produce(ts)
    BY <2>1, Producing
  <2> QED BY <2>2 DEF Pipeline!Next, Pipeline!Advance
<1>7. CASE UNCHANGED vars \/ \E t \in Reports : WorkInBatch(t)
  <2>1. UNCHANGED <<board, context, status, drafts, pc>>
    BY <1>7 DEF WorkInBatch, vars, ledger
  <2> QED BY <1>2, <2>1 DEF Fresh, Outcome
<1> QED BY <1>3, <1>4, <1>5, <1>6, <1>7 DEF Next, Steps

\* A fresh attempt is a fresh pipeline.
LEMMA InitImplements == Init => Pipeline!Init
<1> SUFFICES ASSUME Init PROVE Pipeline!Init
  OBVIOUS
<1>1. Fresh = {} /\ Outcome = "planning" /\ drafts = 0
  BY DEF Init, Fresh, Outcome
<1> QED BY <1>1 DEF Pipeline!Init, Fresh, Outcome

\* With enough iterations every attempt is an attempt of the pipeline: tasks
\* deliver in dependency order, a revision withdraws everything made of the old
\* draft, and the attempt ends with all done, waiting, or having raised.
THEOREM ImplementsPipelineSafely == Enough => (Spec => Pipeline!Spec)
<1> SUFFICES ASSUME Enough PROVE Spec => Pipeline!Spec
  OBVIOUS
<1>1. Spec => []EndInv
  BY EndInvariant
<1>2. EndInv /\ EndInv' /\ [Next]_vars => [Pipeline!Next]_(Pipeline!plan)
  BY StepImplements
<1> QED BY <1>1, <1>2, InitImplements, PTL DEF Spec, Pipeline!Spec
=============================================================================
