---------------------------- MODULE PlanPipeline ----------------------------
(***************************************************************************)
(* What a planning attempt promises, whatever coordinates it: the tasks of *)
(* the board produce their deliverables in dependency order, all of them   *)
(* again for each new draft of the itinerary, of which there are boundedly *)
(* many, and an attempt that finishes has every deliverable of its last    *)
(* draft.  Coordinator.tla implements this.                                *)
(***************************************************************************)
EXTENDS TaskBoard

CONSTANT MaxRevisions    \* how often the itinerary may be done over

VARIABLES drafts,    \* itineraries drafted
          fresh,     \* the tasks whose deliverable stands, made of the current draft
          outcome    \* "planning" until the attempt ends

plan == <<drafts, fresh, outcome>>

Init == drafts = 0 /\ fresh = {} /\ outcome = "planning"

\* One specialist delivers, or several side by side.
Due == {t \in Tasks \ fresh : DependsOn[t] \subseteq fresh}
Produce(ts) ==
    /\ outcome = "planning"
    /\ ts # {}
    /\ fresh' = fresh \cup ts
    /\ drafts' = IF "draft_itinerary" \in ts THEN drafts + 1 ELSE drafts
    /\ drafts' <= MaxRevisions + 1
    /\ UNCHANGED outcome

\* The draft is found wanting: it and all that was made of it is withdrawn.
Revise ==
    /\ outcome = "planning"
    /\ "audit_budget" \in fresh /\ drafts <= MaxRevisions
    /\ fresh' = fresh \ (Downstream \cup {"draft_itinerary"})
    /\ UNCHANGED <<drafts, outcome>>

End(how) == outcome = "planning" /\ outcome' = how /\ UNCHANGED <<drafts, fresh>>
PutOff == fresh = {"clarify_request"} /\ End("waiting")
Finish == fresh = Tasks /\ End("finished")
Fail == End("failed")

Advance == (\E ts \in SUBSET Due : Produce(ts)) \/ Revise \/ PutOff \/ Finish

Next == Advance \/ Fail

Spec == Init /\ [][Next]_plan

\* An attempt that nothing makes fail goes on to its end.
FairSpec == Spec /\ WF_plan(Advance)
=============================================================================
