------------------------------ MODULE TripReview ------------------------------
(***************************************************************************)
(* The trip record between the runs that save it and the operators who     *)
(* decide on it: trip_record_from_context (application/trips/mappers.py),  *)
(* OperatorReviewService, PostgresTripRepository, the audit events of a    *)
(* decision, and the review page that shows and decides (Review.tsx).      *)
(*                                                                         *)
(* Nothing locks a trip.  save() loads the row, assigns every column and   *)
(* commits; the session writes the columns whose value differs from what   *)
(* it loaded.  So a save has two steps here, and two saves that overlap    *)
(* may leave columns of both.                                              *)
(*                                                                         *)
(* Abstracted: the columns no decision touches, notes and times, which     *)
(* follow the decision they come with.                                     *)
(***************************************************************************)
EXTENDS Integers

CONSTANTS Operators,
          Watched,       \* the operator whose page is modelled; the others' decisions just come
          None,          \* no operator, no trip
          MaxRuns,       \* run 1 and its reruns
          MaxDecisions,  \* presses of Approve or Reject
          MaxFaults      \* database failures: of an attempt that began to save, or of a decision

ASSUME Bounds == /\ MaxRuns \in Nat \ {0} /\ MaxDecisions \in Nat /\ MaxFaults \in Nat
                 /\ Watched \in Operators /\ None \notin Operators

VARIABLES trips,       \* the rows of the trips table
          run,         \* per run: what its worker does
          page,        \* the review page in the browser of Watched
          call,        \* per operator: the decision under way
          audit,       \* approval_granted and approval_rejected events: whose, for which trip
          decisions,   \* history: decisions pressed
          faults,      \* history: database failures
          overlapped,  \* history: trips one of whose rows changed between load and commit
          crossed      \* history: a reply to another trip than the selected one was shown

vars == <<trips, run, page, call, audit, decisions, faults, overlapped, crossed>>
history == <<decisions, faults, overlapped, crossed>>
-----------------------------------------------------------------------------
Runs == 1 .. MaxRuns
Trips == Runs

\* _build_run gives every run a trip of its own, a rerun too.
\* Mutant: a rerun plans its original's trip again.
TripOf_Original(r) == 1
TripOf(r) == r

Assessments == {"none", "approved", "issues"}
Records == [status: {"absent", "awaiting_clarification", "ready_for_review", "completed"},
            approval: {"not_required", "pending", "approved", "rejected"},
            reviewer: Operators \cup {None}, assessment: Assessments]
NoTrip == [status |-> "absent", approval |-> "not_required",
           reviewer |-> None, assessment |-> "none"]
Exists(t) == trips[t].status # "absent"

\* What the governance gate leaves of the review agent's verdict: a flag, and a
\* reported issue is one, takes the approval away; without one the trip is completed,
\* whatever the verdict was.
Governed(verdict, flags) ==
    [status |-> IF flags THEN "ready_for_review" ELSE "completed", approved |-> verdict /\ ~flags]

\* trip_record_from_context with _default_human_approval: a fresh record, undecided.
Planned(verdict, flags) ==
    LET end == Governed(verdict, flags)
    IN  [status |-> end.status,
         approval |-> IF ~end.approved \/ end.status = "ready_for_review"
                      THEN "pending" ELSE "not_required",
         reviewer |-> None, assessment |-> IF end.approved THEN "approved" ELSE "issues"]
Asked == [NoTrip EXCEPT !.status = "awaiting_clarification"]

\* UPDATE of the columns that the session found changed, or INSERT.
Written(base, new, row) == [c \in DOMAIN row |-> IF new[c] = base[c] THEN row[c] ELSE new[c]]

Commit(t, base, new) ==
    /\ trips' = [trips EXCEPT ![t] = Written(base, new, trips[t])]
    /\ overlapped' = IF base = trips[t] THEN overlapped ELSE overlapped \cup {t}

NoCall == [pc |-> "idle", trip |-> None, action |-> "approve",
           copy |-> NoTrip, base |-> NoTrip]
EmptyPage == [selected |-> None, shown |-> None, fetching |-> {}]

Init ==
    /\ trips = [t \in Trips |-> NoTrip]
    /\ run = [r \in Runs |-> [pc |-> IF r = 1 THEN "planning" ELSE "absent", attempt |-> 1, base |-> NoTrip]]
    /\ page = EmptyPage
    /\ call = [o \in Operators |-> NoCall]
    /\ audit = {} /\ decisions = 0 /\ faults = 0
    /\ overlapped = {} /\ crossed = FALSE
-----------------------------------------------------------------------------
(* Runs. *)

Rerun(r) ==
    /\ run[r].pc = "absent" /\ run[r - 1].pc # "absent"
    /\ run' = [run EXCEPT ![r].pc = "planning"]
    /\ UNCHANGED <<trips, page, call, audit, history>>

\* The agents are done; save loads the row.
LoadTrip(r) ==
    /\ run[r].pc = "planning"
    /\ run' = [run EXCEPT ![r].pc = "saving", ![r].base = trips[TripOf(r)]]
    /\ UNCHANGED <<trips, page, call, audit, history>>

\* What the agents made is only now looked at.
SaveTrip(r) ==
    /\ run[r].pc = "saving"
    /\ \E draft \in {Planned(v, f) : v, f \in BOOLEAN} \cup {Asked} :
          Commit(TripOf(r), run[r].base, draft)
    /\ run' = [run EXCEPT ![r].pc = "saved", ![r].base = NoTrip]
    /\ UNCHANGED <<page, call, audit, decisions, faults, crossed>>

\* The audit events and the run row follow the trip.  If they fail, or the trip's save
\* does, the run is tried again and saves it again.
FailRun(r) ==
    /\ run[r].pc \in {"saving", "saved"} /\ faults < MaxFaults
    /\ run' = [run EXCEPT ![r] = [pc |-> "planning", attempt |-> @.attempt + 1, base |-> NoTrip]]
    /\ faults' = faults + 1
    /\ UNCHANGED <<trips, page, call, audit, decisions, overlapped, crossed>>
-----------------------------------------------------------------------------
(* The review page. *)

\* A click on the queue, or a link that names a trip.
Select(t) ==
    /\ Exists(t) /\ page.selected # t
    /\ page' = [page EXCEPT !.selected = t, !.fetching = @ \cup {t}]
    /\ UNCHANGED <<trips, run, call, audit, history>>

\* The answer to a fetch counts only while its trip is the one selected.
\* Mutant: without the `active` flag.
Current_Always(t) == Exists(t)
Current(t) == page.selected = t
ShowDetail(t) ==
    /\ t \in page.fetching
    /\ page' = [page EXCEPT !.fetching = @ \ {t},
                            !.shown = IF Current(t) THEN t ELSE @]
    /\ UNCHANGED <<trips, run, call, audit, history>>

\* The detail could not be fetched; what was on the screen stays there.
DetailFails(t) ==
    /\ t \in page.fetching
    /\ page' = [page EXCEPT !.fetching = @ \ {t}]
    /\ crossed' = (crossed \/ Current(t))
    /\ UNCHANGED <<trips, run, call, audit, decisions, faults, overlapped>>

\* handleDecision sends the selected trip; the buttons only need some detail to show.
Sent(o) == {t \in Trips : Exists(t) /\ (o = Watched => t = page.selected /\ page.shown # None)}
Decide(o, t, action) ==
    /\ call[o].pc = "idle" /\ t \in Sent(o) /\ decisions < MaxDecisions
    /\ call' = [call EXCEPT ![o] = [NoCall EXCEPT !.pc = "read", !.trip = t, !.action = action]]
    /\ decisions' = decisions + 1
    /\ UNCHANGED <<trips, run, page, audit, faults, overlapped, crossed>>
-----------------------------------------------------------------------------
(* apply_approval_decision. *)

\* Mutant: a rejection leaves the status.
StatusFor_Approval(action, status) == IF action = "approve" THEN "completed" ELSE status
StatusFor(action, status) == IF action = "approve" THEN "completed" ELSE "ready_for_review"
Decision(trip, action, o) ==
    [trip EXCEPT !.approval = IF action = "approve" THEN "approved" ELSE "rejected",
                 !.reviewer = o,
                 !.status = StatusFor(action, @),
                 !.assessment = IF @ = "none" THEN @
                                ELSE IF action = "approve" THEN "approved" ELSE "issues"]

ReadTrip(o) ==
    /\ call[o].pc = "read"
    /\ LET c == call[o]
       IN  call' = [call EXCEPT ![o].pc = "load",
                                ![o].copy = Decision(trips[c.trip], c.action, o)]
    /\ UNCHANGED <<trips, run, page, audit, history>>

LoadRow(o) ==
    /\ call[o].pc = "load"
    /\ call' = [call EXCEPT ![o].pc = "commit", ![o].base = trips[call[o].trip]]
    /\ UNCHANGED <<trips, run, page, audit, history>>

CommitRow(o) ==
    /\ call[o].pc = "commit"
    /\ Commit(call[o].trip, call[o].base, call[o].copy)
    /\ call' = [call EXCEPT ![o].pc = "audit", ![o].copy = NoTrip, ![o].base = NoTrip]
    /\ UNCHANGED <<run, page, audit, decisions, faults, crossed>>

\* Mutant: only approvals are recorded.
Recorded_Approvals(o) ==
    IF call[o].action = "approve"
    THEN {[trip |-> call[o].trip, by |-> o]} ELSE {}
Recorded(o) == {[trip |-> call[o].trip, by |-> o]}
RecordEvent(o) ==
    /\ call[o].pc = "audit"
    /\ audit' = audit \cup Recorded(o)
    /\ call' = [call EXCEPT ![o].pc = "reply"]
    /\ UNCHANGED <<trips, run, page, history>>

\* The page shows the trip of the reply, whichever trip is selected by now.
Reply(o) ==
    /\ call[o].pc = "reply"
    /\ page' = IF o = Watched THEN [page EXCEPT !.shown = call[o].trip] ELSE page
    /\ crossed' = (crossed \/ (o = Watched /\ call[o].trip # page.selected))
    /\ call' = [call EXCEPT ![o] = NoCall]
    /\ UNCHANGED <<trips, run, audit, decisions, faults, overlapped>>

FailDecision(o) ==
    /\ call[o].pc \in {"read", "load", "commit", "audit"} /\ faults < MaxFaults
    /\ faults' = faults + 1
    /\ call' = [call EXCEPT ![o] = NoCall]
    /\ UNCHANGED <<trips, run, page, audit, decisions, overlapped, crossed>>
-----------------------------------------------------------------------------
RunStep(r) == LoadTrip(r) \/ SaveTrip(r) \/ FailRun(r)
PageStep(t) == Select(t) \/ ShowDetail(t) \/ DetailFails(t)
CallStep(o) == ReadTrip(o) \/ LoadRow(o) \/ CommitRow(o) \/ RecordEvent(o) \/ Reply(o)

Next == \/ \E r \in Runs \ {1} : Rerun(r)
        \/ \E r \in Runs : RunStep(r)
        \/ \E t \in Trips : PageStep(t)
        \/ \E o \in Operators, t \in Trips, action \in {"approve", "reject"} : Decide(o, t, action)
        \/ \E o \in Operators : CallStep(o) \/ FailDecision(o)

Spec == Init /\ [][Next]_vars
-----------------------------------------------------------------------------
(* Properties. *)

TypeOK ==
    /\ trips \in [Trips -> Records]
    /\ run \in [Runs -> [pc: {"absent", "planning", "saving", "saved"},
                         attempt: 1 .. MaxFaults + 1, base: Records]]
    /\ page \in [selected: Trips \cup {None}, shown: Trips \cup {None}, fetching: SUBSET Trips]
    /\ call \in [Operators -> [pc: {"idle", "read", "load", "commit", "audit", "reply"},
                               trip: Trips \cup {None}, action: {"approve", "reject"},
                               copy: Records, base: Records]]
    /\ audit \subseteq [trip: Trips, by: Operators]
    /\ decisions \in 0 .. MaxDecisions /\ faults \in 0 .. MaxFaults
    /\ overlapped \subseteq Trips /\ crossed \in BOOLEAN

Decided(trip) == trip.approval \in {"approved", "rejected"}

\* The three columns that tell of a decision agree (status, approval, assessment), in
\* every record none of whose saves overlapped another.
RecordAgrees ==
    \A t \in Trips \ overlapped : Decided(trips[t]) =>
        LET approves == trips[t].approval = "approved"
        IN  /\ trips[t].status = (IF approves THEN "completed" ELSE "ready_for_review")
            /\ trips[t].assessment \in {"none", IF approves THEN "approved" ELSE "issues"}

\* Who is the reviewer of a record has an audit event of it, or is about to, or the
\* database failed.
DecisionsAudited ==
    \A t \in Trips : trips[t].reviewer # None =>
        \/ \E e \in audit : e.trip = t /\ e.by = trips[t].reviewer
        \/ call[trips[t].reviewer].pc = "audit" /\ call[trips[t].reviewer].trip = t
        \/ faults > 0

\* The page shows another trip than the one its buttons decide only while a fetch is
\* under way, or after a reply that came late or a fetch that failed.
ScreenExplained ==
    page.shown \notin {None, page.selected} => page.selected \in page.fetching \/ crossed

\* A decision is undone only by a later attempt of the trip's own run, never by a rerun.
DecisionStands ==
    [][\A t \in Trips : Decided(trips[t]) /\ ~Decided(trips'[t]) => run[t].attempt > 1]_vars
=============================================================================
