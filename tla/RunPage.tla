------------------------------- MODULE RunPage -------------------------------
(***************************************************************************)
(* A page that starts runs, follows them and leaves when one succeeds:     *)
(* Clarification.tsx, and NewTrip.tsx, which has the same handlers without *)
(* startPlanning.                                                          *)
(*                                                                         *)
(* Every handler awaits its requests, and nothing orders or aborts them:   *)
(* the timer polls every two seconds whether or not the last poll has been *)
(* answered, and what a handler does with an answer it does even after the *)
(* page is gone.  On the server a run is its status, which may become any  *)
(* other at any time (a retry, a copy saved late; WorkflowRuntime.tla and  *)
(* RunLedger.tla say when), and need not change at all.                    *)
(*                                                                         *)
(* pending is like queued, and a run that failed, was cancelled or was     *)
(* dead-lettered is "stopped": it can be run again.  Left out: the steps   *)
(* that are fetched with a run, the panels, and "Run not found", which     *)
(* takes a database that lost the run.  The functions that write and clear *)
(* the storage are the frontend's lib, which the repository lacks.         *)
(***************************************************************************)
EXTENDS Integers, FiniteSets

CONSTANTS MaxRuns,     \* bound: runs that are asked for
          MaxRequests, \* bound: requests under way
          MaxFaults    \* bound: requests and answers lost

ASSUME Bounds == MaxRuns \in Nat /\ MaxRequests \in Nat \ {0} /\ MaxFaults \in Nat

VARIABLES status,    \* the server's runs
          active,    \* activeRun; run 0 for none
          stored,    \* the active run id in the storage; 0 for none
          nav,       \* shouldNavigateOnRunCompletion
          requests,  \* the requests under way, of this page and of earlier ones
          course,    \* history: "astray" once a run was asked for beside another request, or
                     \* a request was lost; else "cleared" if the form was reset or left
                     \* since the newest run was asked for
          faults     \* history: requests lost

page == <<active, stored, nav>>
vars == <<status, page, requests, course, faults>>
-----------------------------------------------------------------------------
Runs == 1 .. MaxRuns
Slots == 1 .. MaxRequests
Ended == {"succeeded", "stopped"}
Statuses == {"absent", "queued", "running"} \cup Ended

NoRun == [run |-> 0, status |-> "absent"]

\* mine: sent by the page on the screen, which the answer can still change.
Free == [kind |-> "free", run |-> 0, nav |-> FALSE, answer |-> "none", mine |-> FALSE]
Request(kind, run, navigates) ==
    [kind |-> kind, run |-> run, nav |-> navigates, answer |-> "none", mine |-> TRUE]

Busy(s) == requests[s] # Free
Asking == {s \in Slots : requests[s].kind \in {"create", "rerun"}}
Starting == \E s \in Slots : requests[s].kind \in {"create", "first"} /\ requests[s].mine

Newest == CHOOSE r \in 0 .. MaxRuns :
              /\ r = 0 \/ status[r] # "absent"
              /\ \A q \in Runs : q > r => status[q] = "absent"
RunsLeft == Newest + Cardinality({s \in Asking : requests[s].answer = "none"}) < MaxRuns

\* A run has been asked for and is not yet the page's.
Pressed == Asking # {} \/ \E s \in Slots : requests[s].kind = "first"

Init ==
    /\ status = [r \in Runs |-> "absent"]
    /\ active = NoRun /\ stored = 0 /\ nav = FALSE
    /\ requests = [s \in Slots |-> Free]
    /\ course = "kept" /\ faults = 0

Asks(beside) == course' = IF beside \/ course = "astray" THEN "astray" ELSE "kept"
Polls == course' = IF Pressed THEN "astray" ELSE course
Clears == course' = IF course = "astray" THEN "astray" ELSE "cleared"

\* A request takes the first free slot; which one means nothing.
Send(request) ==
    \E s \in Slots :
        /\ ~Busy(s) /\ \A q \in Slots : q < s => Busy(q)
        /\ requests' = [requests EXCEPT ![s] = request]
-----------------------------------------------------------------------------
(* The user and the timer. *)

StartPlanning ==
    /\ ~Starting /\ RunsLeft
    /\ nav' = TRUE /\ Send(Request("create", 0, TRUE))
    /\ Asks(\E s \in Slots : Busy(s))
    /\ UNCHANGED <<status, active, stored, faults>>

\* Nothing disables the button while a first press is under way.
RequestRerun ==
    /\ active.status = "stopped" /\ RunsLeft
    /\ nav' = TRUE /\ Send(Request("rerun", 0, TRUE))
    /\ Asks(\E s \in Slots : Busy(s))
    /\ UNCHANGED <<status, active, stored, faults>>

\* The statuses in which the page polls, and offers to cancel.  Mutant: not while queued.
Live_Running == {"running"}
Live == {"queued", "running"}

RequestCancel ==
    /\ active.status \in Live
    /\ Send(Request("cancel", active.run, FALSE))
    /\ Polls
    /\ UNCHANGED <<status, page, faults>>

Poll(run, navigates) ==
    /\ Send(Request("poll", run, navigates))
    /\ Polls
    /\ UNCHANGED <<status, page, faults>>

TimerPoll == active.status \in Live /\ Poll(active.run, nav)

\* The effect that resumes the stored run, on mount and whenever the form or the
\* copilot changes.
EffectPoll == stored # 0 /\ Poll(stored, FALSE)

\* The page goes; what it has under way cannot change the next one.  Between the two the
\* user and the timer do nothing, which they may do on any page.
Gone(left) ==
    /\ active' = NoRun /\ nav' = FALSE
    /\ requests' = [s \in Slots |-> IF s \in left THEN Free ELSE [requests[s] EXCEPT !.mine = FALSE]]

Leave ==
    /\ Gone({}) /\ UNCHANGED <<status, stored, course, faults>>

\* submitTrip, and "Back to New Trip": the storage is cleared and the user taken elsewhere.
StartOver ==
    /\ Gone({}) /\ stored' = 0 /\ Clears
    /\ UNCHANGED <<status, faults>>

\* resetForm: the page stays, without a run.  Whether clearPlannerState forgets the stored
\* run too is the lib's affair.
Reset ==
    /\ ~Starting
    /\ active' = NoRun /\ nav' = FALSE /\ stored' \in {0, stored} /\ Clears
    /\ UNCHANGED <<status, requests, faults>>
-----------------------------------------------------------------------------
(* The server. *)

Moves(r) ==
    /\ \E other \in Statuses :
          /\ \/ status[r] = "queued" /\ other = "running"
             \/ status[r] = "running" /\ other \in Ended \cup {"queued"}
             \/ status[r] \in Ended /\ other \in {"queued", "running"}
          /\ status' = [status EXCEPT ![r] = other]
    /\ UNCHANGED <<page, requests, course, faults>>

Answer(s) ==
    LET request == requests[s]
    IN  /\ Busy(s) /\ request.answer = "none"
        /\ \/ /\ s \in Asking
              /\ status' = [status EXCEPT ![Newest + 1] = "queued"]
              /\ requests' = [requests EXCEPT ![s].run = Newest + 1, ![s].answer = "queued"]
           \/ /\ request.kind = "cancel"
              /\ status' = [status EXCEPT ![request.run] = IF @ = "queued" THEN "stopped" ELSE @]
              /\ requests' = [requests EXCEPT ![s].answer = status'[request.run]]
           \/ /\ request.kind \in {"poll", "first", "trip"}
              /\ requests' = [requests EXCEPT ![s].answer =
                                 IF request.kind = "trip" THEN "succeeded" ELSE status[request.run]]
              /\ UNCHANGED status
        /\ UNCHANGED <<page, course, faults>>

Lose(s) ==
    /\ Busy(s) /\ faults < MaxFaults
    /\ requests' = [requests EXCEPT ![s] = Free] /\ faults' = faults + 1
    /\ course' = "astray" /\ UNCHANGED <<status, page>>
-----------------------------------------------------------------------------
(* The answers. *)

Show(request) ==
    active' = IF request.mine THEN [run |-> request.run, status |-> request.answer] ELSE active

\* Mutant: the stored run is kept while there is one.
Remember_First(run) == stored' = IF stored = 0 THEN run ELSE stored
Remember(run) == stored' = run

Answered(s, kinds) == requests[s].kind \in kinds /\ requests[s].answer # "none"

\* startPlanning and requestRunRerun go on with a poll of the new run.
RunGiven(s) ==
    /\ Answered(s, {"create", "rerun"})
    /\ IF requests[s].kind = "create" THEN UNCHANGED <<active, stored>>
       ELSE Show(requests[s]) /\ Remember(requests[s].run)
    /\ requests' = [requests EXCEPT ![s].kind = IF @ = "create" THEN "first" ELSE "poll",
                                    ![s].answer = "none"]
    /\ UNCHANGED <<status, nav, course, faults>>

\* refreshRunState; on a success that is to be shown, the trip is fetched first.
Refreshed(s) ==
    /\ Answered(s, {"poll", "first"})
    /\ Show(requests[s]) /\ Remember(requests[s].run)
    /\ requests' = [requests EXCEPT ![s] =
                       IF @.answer = "succeeded" /\ @.nav
                       THEN [@ EXCEPT !.kind = "trip", !.answer = "none", !.mine = FALSE]
                       ELSE Free]
    /\ UNCHANGED <<status, nav, course, faults>>

CancelAnswered(s) ==
    /\ Answered(s, {"cancel"})
    /\ Show(requests[s])
    /\ requests' = [requests EXCEPT ![s] = Free]
    /\ UNCHANGED <<status, stored, nav, course, faults>>

\* handleCompletedRun takes the user to the trip, from wherever they are by now.
Navigate(s) ==
    /\ Answered(s, {"trip"})
    /\ Gone({s})
    /\ UNCHANGED <<status, stored, course, faults>>
-----------------------------------------------------------------------------
Deliver(s) == RunGiven(s) \/ Refreshed(s) \/ CancelAnswered(s) \/ Navigate(s)

Next == \/ StartPlanning \/ RequestRerun \/ RequestCancel \/ TimerPoll \/ EffectPoll
        \/ Leave \/ StartOver \/ Reset
        \/ \E r \in Runs : Moves(r)
        \/ \E s \in Slots : Answer(s) \/ Deliver(s) \/ Lose(s)

Spec == Init /\ [][Next]_vars

\* Every request comes to its end (weak fairness of Answer and Deliver says the same of
\* requests that take at most six steps), and the timer ticks while the page shows a run
\* that has not ended.  The server owes nothing else: a run may stay as it is forever.
FairSpec ==
    /\ Spec
    /\ \A s \in Slots : []<>~Busy(s)
    /\ WF_vars(TimerPoll)
-----------------------------------------------------------------------------
(* Properties. *)

\* The page and its storage follow the newest run that was asked for, unless it was
\* asked for beside another request (a poll of the old run that is answered later takes
\* the page and the storage back to it) or an answer was lost (the run is then on no page).
\* The storage has no run only if the form was reset or left since the run was asked for.
FollowsNewest ==
    course # "astray" /\ ~Pressed =>
        /\ stored = Newest \/ (stored = 0 /\ course = "cleared")
        /\ active.run \in {0, Newest}

\* However late the polls are answered, a page that shows a run ends by showing that it has
\* ended, if it has: a late "running" only starts the polling again.
Settles ==
    \A r \in Runs :
        (<>[](status[r] \in Ended)) => <>[](active.run = r => active.status \in Ended)
=============================================================================
