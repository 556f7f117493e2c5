------------------------------ MODULE TaskBoard ------------------------------
(***************************************************************************)
(* The task board of a planning attempt: build_initial_coordination_ledger *)
(* of multi_agent/topology.py, with a task named by its task_id.  Every    *)
(* task has an owner role of its own, so a task also names its specialist. *)
(***************************************************************************)
EXTENDS Integers, FiniteSets, Sequences

\* In the order of the board, which is the order of assignment.
Board == <<"clarify_request", "research_destination", "draft_itinerary",
           "recommend_stay", "plan_transport", "recommend_food",
           "audit_budget", "review_safety", "critique_plan", "govern_plan">>

Tasks == {"clarify_request", "research_destination", "draft_itinerary",
          "recommend_stay", "plan_transport", "recommend_food",
          "audit_budget", "review_safety", "critique_plan", "govern_plan"}

DependsOn ==
    [clarify_request      |-> {},
     research_destination |-> {"clarify_request"},
     draft_itinerary      |-> {"research_destination"},
     recommend_stay       |-> {"draft_itinerary"},
     plan_transport       |-> {"draft_itinerary"},
     recommend_food       |-> {"draft_itinerary"},
     audit_budget         |-> {"draft_itinerary", "recommend_stay", "plan_transport",
                               "recommend_food"},
     review_safety        |-> {"draft_itinerary"},
     critique_plan        |-> {"audit_budget", "review_safety"},
     govern_plan          |-> {"critique_plan"}]

\* PARALLEL_SPECIALIST_ROLES, by the tasks they own.
Parallel == {"recommend_stay", "plan_transport", "recommend_food", "review_safety"}

\* What clear_dependent_artifacts_for_itinerary_revision resets.
Downstream == Parallel \cup {"audit_budget", "critique_plan", "govern_plan"}

\* The first task of ts on the board.
First(ts) == CHOOSE t \in ts :
    \E i \in DOMAIN Board : Board[i] = t /\ \A j \in 1 .. i - 1 : Board[j] \notin ts
=============================================================================
