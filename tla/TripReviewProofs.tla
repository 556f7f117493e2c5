-------------------------- MODULE TripReviewProofs --------------------------
(***************************************************************************)
(* What holds of the trip records and the decisions on them, for any       *)
(* number of runs, operators, decisions and database failures.             *)
(*                                                                         *)
(* The argument: a run in its first attempt saves over no record (Fresh),  *)
(* a decision is only taken on a trip that exists, and a record, once      *)
(* there, stays (CallsTouchTrips, SavesTouchTrips).  So whatever a save    *)
(* mixes, it mixes decided columns into decided ones, unless the run is    *)
(* at a later attempt.                                                     *)
(***************************************************************************)
EXTENDS TripReview, TLAPS

\* The columns that tell of a decision, of a row or of a copy.
Agrees(trip) ==
    Decided(trip) =>
        LET approves == trip.approval = "approved"
        IN  /\ trip.status = (IF approves THEN "completed" ELSE "ready_for_review")
            /\ trip.assessment \in {"none", IF approves THEN "approved" ELSE "issues"}

\* A run that has not saved in its first attempt has no record yet.
Fresh ==
    \A r \in Runs : run[r].attempt = 1 /\ run[r].pc # "saved" =>
        trips[r] = NoTrip /\ run[r].base = NoTrip

SavesTouchTrips ==
    \A r \in Runs : run[r].base.status # "absent" => Exists(r)

CallsTouchTrips ==
    \A o \in Operators : call[o].pc # "idle" => call[o].trip \in Trips /\ Exists(call[o].trip)

\* A copy on its way to the database has been decided, by its operator.
CopiesDecided ==
    \A o \in Operators : call[o].pc \in {"load", "commit"} =>
        /\ Decided(call[o].copy) /\ Agrees(call[o].copy)
        /\ call[o].copy.reviewer = o /\ call[o].copy.status # "absent"

AttemptsFail == \A r \in Runs : run[r].attempt <= faults + 1

Inv == /\ TypeOK /\ AttemptsFail /\ Fresh /\ SavesTouchTrips /\ CallsTouchTrips /\ CopiesDecided
       /\ RecordAgrees /\ DecisionsAudited
-----------------------------------------------------------------------------
\* Every column of a row that is saved is the new one, or the one that stood there.
LEMMA WrittenColumns ==
    ASSUME NEW base \in Records, NEW new \in Records, NEW row \in Records
    PROVE  /\ Written(base, new, row) \in Records
           /\ Written(base, new, row).status =
                (IF new.status = base.status THEN row.status ELSE new.status)
           /\ Written(base, new, row).approval =
                (IF new.approval = base.approval THEN row.approval ELSE new.approval)
           /\ Written(base, new, row).reviewer =
                (IF new.reviewer = base.reviewer THEN row.reviewer ELSE new.reviewer)
           /\ row = base => Written(base, new, row) = new
<1> DEFINE W == Written(base, new, row)
<1>1. DOMAIN row = {"status", "approval", "reviewer", "assessment"} BY DEF Records
<1>2. W = [c \in {"status", "approval", "reviewer", "assessment"} |->
              IF new[c] = base[c] THEN row[c] ELSE new[c]]
  BY <1>1 DEF Written
<1>3. W = [status |-> IF new.status = base.status THEN row.status ELSE new.status,
           approval |-> IF new.approval = base.approval THEN row.approval ELSE new.approval,
           reviewer |-> IF new.reviewer = base.reviewer THEN row.reviewer ELSE new.reviewer,
           assessment |-> IF new.assessment = base.assessment THEN row.assessment
                          ELSE new.assessment]
  BY <1>2
<1>4. W \in Records BY <1>3 DEF Records
<1>5. ASSUME row = base PROVE W = new BY <1>3, <1>5 DEF Records
<1> QED BY <1>3, <1>4, <1>5

\* What a commit does to the rows.
LEMMA CommitEffect ==
    ASSUME TypeOK, NEW t \in Trips, NEW base \in Records, NEW new \in Records,
           Commit(t, base, new), new.status # "absent",
           base.status # "absent" => Exists(t)
    PROVE  /\ trips' \in [Trips -> Records] /\ overlapped' \subseteq Trips
           /\ \A u \in Trips \ {t} : trips'[u] = trips[u]
           /\ trips'[t].status # "absent"
           /\ trips'[t].approval \in {trips[t].approval, new.approval}
           /\ trips'[t].reviewer \in {trips[t].reviewer, new.reviewer}
           /\ overlapped \subseteq overlapped'
           /\ t \notin overlapped' => trips'[t] = new
<1>1. trips \in [Trips -> Records] /\ overlapped \subseteq Trips BY DEF TypeOK
<1>2. trips[t] \in Records BY <1>1
<1> DEFINE W == Written(base, new, trips[t])
<1>3. /\ W \in Records
      /\ W.status = (IF new.status = base.status THEN trips[t].status ELSE new.status)
      /\ W.approval \in {trips[t].approval, new.approval}
      /\ W.reviewer \in {trips[t].reviewer, new.reviewer}
      /\ trips[t] = base => W = new
  BY <1>2, WrittenColumns
<1>4. W.status # "absent" BY <1>3 DEF Exists
<1> HIDE DEF W
<1>5. trips' = [trips EXCEPT ![t] = W] BY DEF Commit, W
<1>6. trips'[t] = W /\ \A u \in Trips \ {t} : trips'[u] = trips[u] BY <1>1, <1>5
<1>7. trips' \in [Trips -> Records] BY <1>1, <1>3, <1>5
<1>8. /\ overlapped' \subseteq Trips /\ overlapped \subseteq overlapped'
      /\ t \notin overlapped' => base = trips[t]
  BY <1>1 DEF Commit
<1> QED BY <1>3, <1>4, <1>6, <1>7, <1>8

LEMMA NoTripType == /\ NoTrip \in Records /\ ~Decided(NoTrip) /\ NoTrip.status = "absent"
                    /\ NoTrip.reviewer = None
BY DEF NoTrip, Records, Decided, Assessments

\* What a run saves is there, undecided and without a reviewer.
LEMMA DraftType ==
    ASSUME NEW draft \in {Planned(v, f) : v, f \in BOOLEAN} \cup {Asked}
    PROVE  /\ draft \in Records /\ draft.status # "absent" /\ ~Decided(draft)
           /\ draft.reviewer = None
<1>1. CASE draft = Asked BY <1>1 DEF Asked, NoTrip, Records, Decided, Assessments
<1>2. ASSUME NEW v \in BOOLEAN, NEW f \in BOOLEAN, draft = Planned(v, f)
      PROVE  /\ draft \in Records /\ draft.status # "absent" /\ ~Decided(draft)
             /\ draft.reviewer = None
  <2>1. CASE f BY <1>2, <2>1 DEF Planned, Governed, Records, Decided, Assessments
  <2>2. CASE ~f /\ v BY <1>2, <2>2 DEF Planned, Governed, Records, Decided, Assessments
  <2>3. CASE ~f /\ ~v BY <1>2, <2>3 DEF Planned, Governed, Records, Decided, Assessments
  <2> QED BY <2>1, <2>2, <2>3
<1> QED BY <1>1, <1>2

\* What an operator decides is decided in every column.
LEMMA DecisionType ==
    ASSUME NEW trip \in Records, NEW action \in {"approve", "reject"}, NEW o \in Operators,
           NEW new, new = Decision(trip, action, o)
    PROVE  /\ new \in Records /\ Decided(new) /\ Agrees(new)
           /\ new.reviewer = o /\ new.status # "absent"
<1>1. CASE action = "approve"
  BY <1>1 DEF Decision, StatusFor, Records, Decided, Agrees, Assessments
<1>2. CASE action = "reject"
  BY <1>2 DEF Decision, StatusFor, Records, Decided, Agrees, Assessments
<1> QED BY <1>1, <1>2

LEMMA RunsAreTrips == Trips = Runs /\ \A r \in Runs : TripOf(r) = r
BY DEF Trips, TripOf

LEMMA BoundsHold == /\ MaxRuns \in Nat \ {0} /\ MaxDecisions \in Nat /\ MaxFaults \in Nat
                    /\ Watched \in Operators /\ None \notin Operators
BY Bounds

LEMMA InitInv == Init => Inv
<1> SUFFICES ASSUME Init PROVE Inv OBVIOUS
<1> USE BoundsHold
<1>1. NoTrip \in Records /\ ~Decided(NoTrip) /\ NoTrip.status = "absent" /\ NoTrip.reviewer = None
  BY NoTripType
<1>2. /\ trips = [t \in Trips |-> NoTrip] /\ audit = {} /\ decisions = 0 /\ faults = 0
      /\ overlapped = {} /\ crossed = FALSE /\ page = EmptyPage
      /\ call = [o \in Operators |-> NoCall]
  BY DEF Init
<1>3. \A r \in Runs : /\ run[r].attempt = 1 /\ run[r].base = NoTrip
                      /\ run[r].pc \in {"absent", "planning"}
  BY DEF Init
<1>4. TypeOK
  <2>1. trips \in [Trips -> Records] BY <1>1, <1>2
  <2>2. 1 \in 1 .. MaxFaults + 1 BY SMT
  <2>3. run \in [Runs -> [pc: {"absent", "planning", "saving", "saved"},
                          attempt: 1 .. MaxFaults + 1, base: Records]]
    BY <1>1, <2>2 DEF Init
  <2>4. page \in [selected: Trips \cup {None}, shown: Trips \cup {None}, fetching: SUBSET Trips]
    BY <1>2 DEF EmptyPage
  <2>5. NoCall \in [pc: {"idle", "read", "load", "commit", "audit", "reply"},
                    trip: Trips \cup {None}, action: {"approve", "reject"},
                    copy: Records, base: Records]
    BY <1>1 DEF NoCall
  <2>6. call \in [Operators -> [pc: {"idle", "read", "load", "commit", "audit", "reply"},
                               trip: Trips \cup {None}, action: {"approve", "reject"},
                               copy: Records, base: Records]]
    BY <1>2, <2>5
  <2>7. decisions \in 0 .. MaxDecisions /\ faults \in 0 .. MaxFaults BY <1>2
  <2> QED BY <1>2, <2>1, <2>3, <2>4, <2>6, <2>7 DEF TypeOK
<1>5. \A o \in Operators : call[o].pc = "idle" BY <1>2 DEF NoCall
<1>6. Trips = Runs BY RunsAreTrips
<1>7. AttemptsFail BY <1>2, <1>3 DEF AttemptsFail
<1>8. Fresh BY <1>2, <1>3, <1>6 DEF Fresh
<1>9. SavesTouchTrips BY <1>1, <1>3 DEF SavesTouchTrips
<1>10. CallsTouchTrips /\ CopiesDecided BY <1>5 DEF CallsTouchTrips, CopiesDecided
<1>11. RecordAgrees BY <1>1, <1>2 DEF RecordAgrees
<1>12. DecisionsAudited BY <1>1, <1>2 DEF DecisionsAudited
<1> QED BY <1>4, <1>7, <1>8, <1>9, <1>10, <1>11, <1>12 DEF Inv

\* The steps of a run: what they leave of the run, and that they keep the rest.
LEMMA RunStepInv ==
    ASSUME Inv, NEW r \in Runs, Rerun(r) \/ RunStep(r)
    PROVE  Inv'
<1> USE BoundsHold
<1> DEFINE Run == [pc: {"absent", "planning", "saving", "saved"},
                   attempt: 1 .. MaxFaults + 1, base: Records]
<1>1. /\ TypeOK /\ AttemptsFail /\ Fresh /\ SavesTouchTrips /\ CallsTouchTrips
      /\ CopiesDecided /\ RecordAgrees /\ DecisionsAudited
  BY DEF Inv
<1>2. Trips = Runs /\ TripOf(r) = r BY RunsAreTrips
<1>3. /\ trips \in [Trips -> Records] /\ run \in [Runs -> Run] /\ faults \in 0 .. MaxFaults
      /\ overlapped \subseteq Trips
  BY <1>1 DEF TypeOK
<1>4. UNCHANGED <<page, call, audit, decisions, crossed>>
  BY DEF Rerun, RunStep, LoadTrip, SaveTrip, FailRun, history
<1>5. NoTrip \in Records /\ ~Decided(NoTrip) /\ NoTrip.status = "absent" /\ NoTrip.reviewer = None
  BY NoTripType
<1>6. ASSUME UNCHANGED <<trips, overlapped>>, run' \in [Runs -> Run], faults' \in 0 .. MaxFaults,
             \A q \in Runs \ {r} : run'[q] = run[q], faults' >= faults,
             run'[r].attempt <= faults' + 1,
             run'[r].attempt = 1 /\ run'[r].pc # "saved" =>
                 trips[r] = NoTrip /\ run'[r].base = NoTrip,
             run'[r].base.status # "absent" => Exists(r)
      PROVE  Inv'
  <2>1. TypeOK' BY <1>1, <1>4, <1>6 DEF TypeOK
  <2>2. AttemptsFail' BY <1>1, <1>3, <1>6 DEF AttemptsFail
  <2>3. Fresh' BY <1>1, <1>6 DEF Fresh
  <2>4. SavesTouchTrips' BY <1>1, <1>6 DEF SavesTouchTrips, Exists
  <2>5. CallsTouchTrips' BY <1>1, <1>4, <1>6 DEF CallsTouchTrips, Exists
  <2>6. CopiesDecided' BY <1>1, <1>4 DEF CopiesDecided
  <2>7. RecordAgrees' BY <1>1, <1>6 DEF RecordAgrees
  <2>8. DecisionsAudited' BY <1>1, <1>3, <1>4, <1>6 DEF DecisionsAudited
  <2> QED BY <2>1, <2>2, <2>3, <2>4, <2>5, <2>6, <2>7, <2>8 DEF Inv
<1>7. CASE Rerun(r)
  <2>1. /\ run' = [run EXCEPT ![r].pc = "planning"] /\ run[r].pc = "absent"
        /\ UNCHANGED <<trips, overlapped, faults>>
    BY <1>7 DEF Rerun, history
  <2>2. /\ run' \in [Runs -> Run] /\ run'[r].pc = "planning" /\ run'[r].base = run[r].base
        /\ run'[r].attempt = run[r].attempt /\ \A q \in Runs \ {r} : run'[q] = run[q]
    BY <1>3, <2>1
  <2>3. run[r].attempt <= faults + 1 BY <1>1 DEF AttemptsFail
  <2>4. run[r].attempt = 1 => trips[r] = NoTrip /\ run[r].base = NoTrip
    BY <1>1, <2>1 DEF Fresh
  <2>5. run[r].base.status # "absent" => Exists(r) BY <1>1 DEF SavesTouchTrips
  <2> QED BY <1>3, <1>6, <2>1, <2>2, <2>3, <2>4, <2>5
<1>8. CASE LoadTrip(r)
  <2>1. /\ run' = [run EXCEPT ![r].pc = "saving", ![r].base = trips[r]] /\ run[r].pc = "planning"
        /\ UNCHANGED <<trips, overlapped, faults>>
    BY <1>2, <1>8 DEF LoadTrip, history
  <2>2. trips[r] \in Records BY <1>2, <1>3
  <2>3. /\ run' \in [Runs -> Run] /\ run'[r].pc = "saving" /\ run'[r].base = trips[r]
        /\ run'[r].attempt = run[r].attempt /\ \A q \in Runs \ {r} : run'[q] = run[q]
    BY <1>3, <2>1, <2>2
  <2>4. run[r].attempt <= faults + 1 BY <1>1 DEF AttemptsFail
  <2>5. run[r].attempt = 1 => trips[r] = NoTrip BY <1>1, <2>1 DEF Fresh
  <2>6. trips[r].status # "absent" => Exists(r) BY DEF Exists
  <2> QED BY <1>3, <1>6, <2>1, <2>3, <2>4, <2>5, <2>6
<1>9. CASE FailRun(r)
  <2> DEFINE failed == [pc |-> "planning", attempt |-> run[r].attempt + 1, base |-> NoTrip]
  <2>1. /\ run' = [run EXCEPT ![r] = failed] /\ faults < MaxFaults /\ faults' = faults + 1
        /\ UNCHANGED <<trips, overlapped>>
    BY <1>9 DEF FailRun
  <2>2. run[r].attempt \in 1 .. MaxFaults + 1 BY <1>3
  <2>3. run[r].attempt <= faults + 1 BY <1>1 DEF AttemptsFail
  <2>4. run[r].attempt + 1 \in 2 .. MaxFaults + 1 BY <1>3, <2>1, <2>2, <2>3
  <2>5. failed \in Run BY <1>5, <2>4
  <2>6. /\ run' \in [Runs -> Run] /\ run'[r] = failed
        /\ \A q \in Runs \ {r} : run'[q] = run[q]
    BY <1>3, <2>1, <2>5
  <2>7. run'[r].attempt = run[r].attempt + 1 /\ run'[r].base = NoTrip BY <2>6
  <2>8. faults' \in 0 .. MaxFaults /\ faults' >= faults BY <1>3, <2>1
  <2>9. run'[r].attempt <= faults' + 1 /\ run'[r].attempt # 1
    BY <1>3, <2>1, <2>2, <2>3, <2>7
  <2>10. run'[r].base.status = "absent" BY <1>5, <2>7
  <2> QED BY <1>6, <2>1, <2>6, <2>8, <2>9, <2>10
<1>10. CASE SaveTrip(r)
  <2> DEFINE base == run[r].base
  <2>1. /\ run' = [run EXCEPT ![r].pc = "saved", ![r].base = NoTrip]
        /\ UNCHANGED faults
    BY <1>10 DEF SaveTrip
  <2>2. /\ run' \in [Runs -> Run] /\ run'[r].pc = "saved" /\ run'[r].base = NoTrip
        /\ run'[r].attempt = run[r].attempt /\ \A q \in Runs \ {r} : run'[q] = run[q]
    BY <1>3, <1>5, <2>1
  <2>3. PICK draft \in {Planned(v, f) : v, f \in BOOLEAN} \cup {Asked} : Commit(r, base, draft)
    BY <1>2, <1>10 DEF SaveTrip
  <2>4. /\ draft \in Records /\ draft.status # "absent" /\ ~Decided(draft)
        /\ draft.reviewer = None
    BY DraftType
  <2>5. base \in Records /\ (base.status # "absent" => Exists(r))
    BY <1>1, <1>3 DEF SavesTouchTrips
  <2>6. /\ trips' \in [Trips -> Records] /\ overlapped' \subseteq Trips
        /\ \A u \in Trips \ {r} : trips'[u] = trips[u]
        /\ trips'[r].status # "absent"
        /\ trips'[r].reviewer \in {trips[r].reviewer, None}
        /\ overlapped \subseteq overlapped'
        /\ r \notin overlapped' => trips'[r] = draft
    BY <1>1, <1>2, <2>3, <2>4, <2>5, CommitEffect
  <2>7. TypeOK' BY <1>1, <1>4, <2>6, <2>1, <2>2 DEF TypeOK
  <2>8. AttemptsFail' BY <1>1, <2>1, <2>2 DEF AttemptsFail
  <2>9. Fresh' BY <1>1, <1>2, <2>6, <2>2 DEF Fresh
  <2>10. \A u \in Trips : Exists(u) => Exists(u)' BY <2>6 DEF Exists
  <2>11. SavesTouchTrips' BY <1>1, <1>2, <1>5, <2>2, <2>10 DEF SavesTouchTrips
  <2>12. CallsTouchTrips' BY <1>1, <1>4, <2>10 DEF CallsTouchTrips
  <2>13. CopiesDecided' BY <1>1, <1>4 DEF CopiesDecided
  <2>14. ASSUME NEW t \in Trips \ overlapped', Decided(trips'[t])
         PROVE  Agrees(trips'[t])
    <3>1. t # r BY <2>4, <2>6, <2>14
    <3>2. trips'[t] = trips[t] /\ t \notin overlapped BY <2>6, <3>1
    <3> QED BY <1>1, <2>14, <3>2 DEF RecordAgrees, Agrees
  <2>15. RecordAgrees' BY <2>14 DEF RecordAgrees, Agrees
  <2>16. DecisionsAudited' BY <1>1, <1>4, <2>6, <2>1 DEF DecisionsAudited
  <2> QED BY <2>7, <2>8, <2>9, <2>11, <2>12, <2>13, <2>15, <2>16 DEF Inv
<1> QED BY <1>7, <1>8, <1>9, <1>10 DEF RunStep

\* What a click, a decision or a call does to its call, with the rest of the invariant.
LEMMA CallStepInv ==
    ASSUME Inv, NEW o \in Operators,
           UNCHANGED <<trips, overlapped, run>>, TypeOK',
           faults' \in {faults, faults + 1}, audit \subseteq audit',
           \A p \in Operators \ {o} : call'[p] = call[p],
           call'[o].pc # "idle" => call'[o].trip \in Trips /\ Exists(call'[o].trip),
           call'[o].pc \in {"load", "commit"} =>
               /\ Decided(call'[o].copy) /\ Agrees(call'[o].copy)
               /\ call'[o].copy.reviewer = o /\ call'[o].copy.status # "absent",
           call[o].pc = "audit" =>
               \/ faults' > 0
               \/ \E e \in audit' : e.trip = call[o].trip /\ e.by = o
    PROVE  Inv'
<1> USE BoundsHold
<1>1. /\ TypeOK /\ AttemptsFail /\ Fresh /\ SavesTouchTrips /\ CallsTouchTrips
      /\ CopiesDecided /\ RecordAgrees /\ DecisionsAudited
  BY DEF Inv
<1>2. /\ faults \in Nat /\ faults' >= faults /\ faults' \in Nat
      /\ \A r \in Runs : run[r].attempt \in Nat
      /\ \A t \in Trips : trips[t].reviewer \in Operators \cup {None}
  BY <1>1 DEF TypeOK, Records
<1>3. AttemptsFail' BY <1>1, <1>2 DEF AttemptsFail
<1>4. Fresh' BY <1>1 DEF Fresh
<1>5. SavesTouchTrips' BY <1>1 DEF SavesTouchTrips, Exists
<1>6. CallsTouchTrips' BY <1>1 DEF CallsTouchTrips, Exists
<1>7. CopiesDecided' BY <1>1 DEF CopiesDecided
<1>8. RecordAgrees' BY <1>1 DEF RecordAgrees
<1>9. DecisionsAudited'
  <2> SUFFICES ASSUME NEW t \in Trips, trips[t].reviewer # None
               PROVE  \/ \E e \in audit' : e.trip = t /\ e.by = trips[t].reviewer
                      \/ call'[trips[t].reviewer].pc = "audit" /\ call'[trips[t].reviewer].trip = t
                      \/ faults' > 0
    BY DEF DecisionsAudited
  <2> DEFINE q == trips[t].reviewer
  <2>1. q \in Operators BY <1>2
  <2>2. CASE \E e \in audit : e.trip = t /\ e.by = q BY <2>2
  <2>3. CASE faults > 0 BY <1>2, <2>3
  <2>4. CASE call[q].pc = "audit" /\ call[q].trip = t
    <3>1. CASE q = o BY <2>4, <3>1
    <3>2. CASE q # o BY <2>1, <2>4, <3>2
    <3> QED BY <3>1, <3>2
  <2> QED BY <1>1, <2>2, <2>3, <2>4 DEF DecisionsAudited
<1> QED BY <1>3, <1>4, <1>5, <1>6, <1>7, <1>8, <1>9 DEF Inv

Calls == [pc: {"idle", "read", "load", "commit", "audit", "reply"}, trip: Trips \cup {None},
          action: {"approve", "reject"}, copy: Records, base: Records]

LEMMA InvStep == ASSUME Inv, [Next]_vars PROVE Inv'
<1> USE BoundsHold
<1> DEFINE Pages == [selected: Trips \cup {None}, shown: Trips \cup {None}, fetching: SUBSET Trips]
<1>1. /\ TypeOK /\ AttemptsFail /\ Fresh /\ SavesTouchTrips /\ CallsTouchTrips
      /\ CopiesDecided /\ RecordAgrees /\ DecisionsAudited
  BY DEF Inv
<1>2. /\ trips \in [Trips -> Records] /\ call \in [Operators -> Calls] /\ page \in Pages
      /\ faults \in 0 .. MaxFaults /\ decisions \in 0 .. MaxDecisions /\ crossed \in BOOLEAN
      /\ overlapped \subseteq Trips /\ audit \subseteq [trip: Trips, by: Operators]
  BY <1>1 DEF TypeOK, Calls
<1>3. NoTrip \in Records BY NoTripType
<1>4. NoCall \in Calls /\ NoCall.pc = "idle" BY <1>3 DEF NoCall, Calls
<1>5. ASSUME UNCHANGED <<trips, run, call, audit, decisions, faults, overlapped>>,
             page' \in Pages, crossed' \in BOOLEAN
      PROVE  Inv'
  <2>1. TypeOK' BY <1>1, <1>5 DEF TypeOK, Calls
  <2>2. (AttemptsFail /\ Fresh /\ SavesTouchTrips /\ CallsTouchTrips)'
    BY <1>1, <1>5 DEF AttemptsFail, Fresh, SavesTouchTrips, CallsTouchTrips, Exists
  <2>3. (CopiesDecided /\ RecordAgrees /\ DecisionsAudited)'
    BY <1>1, <1>5 DEF CopiesDecided, RecordAgrees, DecisionsAudited
  <2> QED BY <2>1, <2>2, <2>3 DEF Inv
<1>6. ASSUME NEW t \in Trips, PageStep(t) PROVE Inv'
  <2>1. UNCHANGED <<trips, run, call, audit, decisions, faults, overlapped>>
    BY <1>6 DEF PageStep, Select, ShowDetail, DetailFails, history
  <2>2. page' \in Pages
    <3>1. CASE Select(t) BY <1>2, <3>1 DEF Select
    <3>2. CASE ShowDetail(t)
      <4>1. page' = [selected |-> page.selected, fetching |-> page.fetching \ {t},
                     shown |-> IF Current(t) THEN t ELSE page.shown]
        BY <1>2, <3>2 DEF ShowDetail
      <4> QED BY <1>2, <4>1
    <3>3. CASE DetailFails(t) BY <1>2, <3>3 DEF DetailFails
    <3> QED BY <1>6, <3>1, <3>2, <3>3 DEF PageStep
  <2>3. crossed' \in BOOLEAN BY <1>2, <1>6 DEF PageStep, Select, ShowDetail, DetailFails, history
  <2> QED BY <1>5, <2>1, <2>2, <2>3
<1>7. ASSUME NEW o \in Operators, NEW t \in Trips, NEW action \in {"approve", "reject"},
             Decide(o, t, action)
      PROVE  Inv'
  <2> DEFINE new == [NoCall EXCEPT !.pc = "read", !.trip = t, !.action = action]
  <2>1. new \in Calls /\ new.pc = "read" /\ new.trip = t BY <1>4 DEF Calls
  <2>2. Exists(t) BY <1>7 DEF Decide, Sent
  <2>3. /\ call' = [call EXCEPT ![o] = new] /\ decisions' \in 0 .. MaxDecisions
        /\ UNCHANGED <<trips, run, page, audit, faults, overlapped, crossed>>
        /\ call[o].pc = "idle"
    BY <1>2, <1>7 DEF Decide
  <2> HIDE DEF new
  <2>4. /\ call' \in [Operators -> Calls] /\ call'[o] = new
        /\ \A p \in Operators \ {o} : call'[p] = call[p]
    BY <1>2, <2>1, <2>3
  <2>5. TypeOK' BY <1>1, <2>3, <2>4 DEF TypeOK, Calls
  <2> QED BY <2>1, <2>2, <2>3, <2>4, <2>5, CallStepInv
<1>8. ASSUME NEW o \in Operators, ReadTrip(o) PROVE Inv'
  <2>1. PICK copy : copy = Decision(trips[call[o].trip], call[o].action, o) OBVIOUS
  <2>2. call[o].pc = "read" BY <1>8 DEF ReadTrip
  <2>3. call[o].trip \in Trips /\ Exists(call[o].trip) BY <1>1, <2>2 DEF CallsTouchTrips
  <2>4. trips[call[o].trip] \in Records /\ call[o].action \in {"approve", "reject"}
    BY <1>2, <2>3 DEF Calls
  <2>5. /\ copy \in Records /\ Decided(copy) /\ Agrees(copy) /\ copy.reviewer = o
        /\ copy.status # "absent"
    <3>1. PICK trip \in Records, action \in {"approve", "reject"} : copy = Decision(trip, action, o)
      BY <2>1, <2>4
    <3> QED BY ONLY <3>1, DecisionType
  <2>6. PICK new : /\ new = [call[o] EXCEPT !.pc = "load", !.copy = copy]
                   /\ call' = [call EXCEPT ![o] = new]
    BY <1>2, <1>8, <2>1 DEF ReadTrip
  <2>7. UNCHANGED <<trips, run, page, audit, decisions, faults, overlapped, crossed>>
    BY <1>8 DEF ReadTrip, history
  <2>8. call[o] \in Calls BY <1>2
  <2>9. new \in Calls /\ new.pc = "load" /\ new.trip = call[o].trip /\ new.copy = copy
    BY <2>5, <2>6, <2>8 DEF Calls
  <2>10. /\ call' \in [Operators -> Calls] /\ call'[o].pc = "load" /\ call'[o].copy = copy
        /\ call'[o].trip = call[o].trip /\ \A p \in Operators \ {o} : call'[p] = call[p]
    BY <1>2, <2>6, <2>9
  <2>11. TypeOK' BY <1>1, <2>7, <2>10 DEF TypeOK, Calls
  <2> QED BY <2>2, <2>3, <2>5, <2>7, <2>10, <2>11, CallStepInv
<1>9. ASSUME NEW o \in Operators, LoadRow(o) PROVE Inv'
  <2> DEFINE base == trips[call[o].trip]
  <2>1. call[o].pc = "load" BY <1>9 DEF LoadRow
  <2>2. call[o].trip \in Trips /\ Exists(call[o].trip) BY <1>1, <2>1 DEF CallsTouchTrips
  <2>3. base \in Records BY <1>2, <2>2
  <2>4. PICK new : /\ new = [call[o] EXCEPT !.pc = "commit", !.base = base]
                   /\ call' = [call EXCEPT ![o] = new]
    BY <1>2, <1>9 DEF LoadRow
  <2>5. UNCHANGED <<trips, run, page, audit, decisions, faults, overlapped, crossed>>
    BY <1>9 DEF LoadRow, history
  <2> HIDE DEF base
  <2>6. call[o] \in Calls BY <1>2
  <2>7. new \in Calls /\ new.pc = "commit" /\ new.trip = call[o].trip /\ new.copy = call[o].copy
    BY <2>3, <2>4, <2>6 DEF Calls
  <2>8. /\ call' \in [Operators -> Calls] /\ call'[o].pc = "commit"
        /\ call'[o].copy = call[o].copy /\ call'[o].trip = call[o].trip
        /\ \A p \in Operators \ {o} : call'[p] = call[p]
    BY <1>2, <2>4, <2>7
  <2>9. TypeOK' BY <1>1, <2>5, <2>8 DEF TypeOK, Calls
  <2>10. /\ Decided(call[o].copy) /\ Agrees(call[o].copy)
        /\ call[o].copy.reviewer = o /\ call[o].copy.status # "absent"
    BY <1>1, <2>1 DEF CopiesDecided
  <2> QED BY <2>1, <2>2, <2>5, <2>8, <2>9, <2>10, CallStepInv
<1>10. ASSUME NEW o \in Operators, CommitRow(o) PROVE Inv'
  <2> DEFINE t == call[o].trip
             new == call[o].copy
             base == call[o].base
  <2>1. /\ call[o].pc = "commit" /\ Commit(t, base, new)
        /\ call' = [call EXCEPT ![o].pc = "audit", ![o].copy = NoTrip, ![o].base = NoTrip]
        /\ UNCHANGED <<run, page, audit, decisions, faults, crossed>>
    BY <1>10 DEF CommitRow
  <2>2. t \in Trips /\ Exists(t) BY <1>1, <2>1 DEF CallsTouchTrips
  <2>3. Decided(new) /\ Agrees(new) /\ new.reviewer = o /\ new.status # "absent"
    BY <1>1, <2>1 DEF CopiesDecided
  <2>4. new \in Records /\ base \in Records BY <1>2 DEF Calls
  <2>5. /\ call' \in [Operators -> Calls] /\ call'[o].pc = "audit" /\ call'[o].trip = t
        /\ \A p \in Operators \ {o} : call'[p] = call[p]
    <3>1. PICK cleared : /\ cleared = [call[o] EXCEPT !.pc = "audit", !.copy = NoTrip,
                                                      !.base = NoTrip]
                         /\ call' = [call EXCEPT ![o] = cleared]
      BY <1>2, <2>1
    <3>2. call[o] \in Calls BY <1>2
    <3>3. cleared \in Calls /\ cleared.pc = "audit" /\ cleared.trip = t
      BY <1>3, <3>1, <3>2 DEF Calls
    <3> QED BY <1>2, <3>1, <3>3
  <2>6. /\ trips' \in [Trips -> Records] /\ overlapped' \subseteq Trips
        /\ \A u \in Trips \ {t} : trips'[u] = trips[u]
        /\ trips'[t].status # "absent"
        /\ trips'[t].reviewer \in {trips[t].reviewer, o}
        /\ overlapped \subseteq overlapped'
        /\ t \notin overlapped' => trips'[t] = new
    BY <1>1, <2>1, <2>2, <2>3, <2>4, CommitEffect
  <2>7. TypeOK' BY <1>1, <2>1, <2>5, <2>6 DEF TypeOK, Calls
  <2>8. AttemptsFail' BY <1>1, <2>1 DEF AttemptsFail
  <2>9. \A u \in Trips : Exists(u) => Exists(u)' BY <2>6 DEF Exists
  <2>10. \A r \in Runs : trips[r] = NoTrip => trips'[r] = NoTrip
    BY <2>2, <2>6, RunsAreTrips, NoTripType DEF Exists
  <2>11. Fresh' BY <1>1, <2>1, <2>10 DEF Fresh
  <2>12. SavesTouchTrips' BY <1>1, <2>1, <2>9, RunsAreTrips DEF SavesTouchTrips
  <2>13. CallsTouchTrips' BY <1>1, <2>2, <2>5, <2>9 DEF CallsTouchTrips
  <2>14. CopiesDecided' BY <1>1, <2>5 DEF CopiesDecided
  <2>15. ASSUME NEW u \in Trips \ overlapped', Decided(trips'[u])
         PROVE  Agrees(trips'[u])
    <3>1. CASE u = t BY <2>3, <2>6, <3>1
    <3>2. CASE u # t
      <4>1. trips'[u] = trips[u] /\ u \notin overlapped BY <2>6, <3>2
      <4> QED BY <1>1, <2>15, <4>1 DEF RecordAgrees, Agrees
    <3> QED BY <3>1, <3>2
  <2>16. RecordAgrees' BY <2>15 DEF RecordAgrees, Agrees
  <2>17. ASSUME NEW u \in Trips, trips'[u].reviewer # None
         PROVE  \/ \E e \in audit' : e.trip = u /\ e.by = trips'[u].reviewer
                \/ call'[trips'[u].reviewer].pc = "audit" /\ call'[trips'[u].reviewer].trip = u
                \/ faults' > 0
    <3>1. CASE u = t /\ trips'[u].reviewer = o BY <2>5, <3>1
    <3>2. CASE ~(u = t /\ trips'[u].reviewer = o)
      <4>1. trips'[u].reviewer = trips[u].reviewer BY <2>6, <3>2
      <4>2. trips[u].reviewer \in Operators BY <1>2, <2>17, <4>1 DEF Records
      <4>3. call[o].pc # "audit" BY <2>1
      <4>4. \/ \E e \in audit : e.trip = u /\ e.by = trips[u].reviewer
            \/ call[trips[u].reviewer].pc = "audit" /\ call[trips[u].reviewer].trip = u
            \/ faults > 0
        BY <1>1, <2>17, <4>1 DEF DecisionsAudited
      <4> QED BY <2>1, <2>5, <4>1, <4>2, <4>3, <4>4
    <3> QED BY <3>1, <3>2
  <2>18. DecisionsAudited' BY <2>17 DEF DecisionsAudited
  <2> QED BY <2>7, <2>8, <2>11, <2>12, <2>13, <2>14, <2>16, <2>18 DEF Inv
<1>11. ASSUME NEW o \in Operators, RecordEvent(o) PROVE Inv'
  <2>1. /\ call[o].pc = "audit" /\ call' = [call EXCEPT ![o].pc = "reply"]
        /\ audit' = audit \cup {[trip |-> call[o].trip, by |-> o]}
        /\ UNCHANGED <<trips, run, page, decisions, faults, overlapped, crossed>>
    BY <1>11 DEF RecordEvent, Recorded, history
  <2>2. call[o].trip \in Trips /\ Exists(call[o].trip) BY <1>1, <2>1 DEF CallsTouchTrips
  <2>3. /\ call' \in [Operators -> Calls] /\ call'[o].pc = "reply"
        /\ call'[o].trip = call[o].trip /\ \A p \in Operators \ {o} : call'[p] = call[p]
    BY <1>2, <2>1 DEF Calls
  <2>4. audit' \subseteq [trip: Trips, by: Operators] /\ audit \subseteq audit'
    BY <1>2, <2>1, <2>2
  <2>5. TypeOK' BY <1>1, <2>1, <2>3, <2>4 DEF TypeOK, Calls
  <2>6. \E e \in audit' : e.trip = call[o].trip /\ e.by = o
    <3> DEFINE event == [trip |-> call[o].trip, by |-> o]
    <3>1. event \in audit' /\ event.trip = call[o].trip /\ event.by = o BY <2>1
    <3> HIDE DEF event
    <3> QED BY <3>1
  <2> QED BY <2>1, <2>2, <2>3, <2>4, <2>5, <2>6, CallStepInv
<1>12. ASSUME NEW o \in Operators, Reply(o) PROVE Inv'
  <2>1. /\ call[o].pc = "reply" /\ call' = [call EXCEPT ![o] = NoCall]
        /\ UNCHANGED <<trips, run, audit, decisions, faults, overlapped>>
        /\ crossed' \in BOOLEAN
        /\ page' = IF o = Watched THEN [page EXCEPT !.shown = call[o].trip] ELSE page
    BY <1>2, <1>12 DEF Reply
  <2>2. call[o].trip \in Trips BY <1>1, <2>1 DEF CallsTouchTrips
  <2>3. page' \in Pages BY <1>2, <2>1, <2>2
  <2>4. /\ call' \in [Operators -> Calls] /\ call'[o] = NoCall
        /\ \A p \in Operators \ {o} : call'[p] = call[p]
    BY <1>2, <1>4, <2>1
  <2>5. TypeOK' BY <1>1, <2>1, <2>3, <2>4 DEF TypeOK, Calls
  <2> QED BY <1>4, <2>1, <2>4, <2>5, CallStepInv
<1>13. ASSUME NEW o \in Operators, FailDecision(o) PROVE Inv'
  <2>1. /\ call' = [call EXCEPT ![o] = NoCall] /\ faults' = faults + 1 /\ faults < MaxFaults
        /\ UNCHANGED <<trips, run, page, audit, decisions, overlapped, crossed>>
    BY <1>13 DEF FailDecision
  <2>2. /\ call' \in [Operators -> Calls] /\ call'[o] = NoCall
        /\ \A p \in Operators \ {o} : call'[p] = call[p]
    BY <1>2, <1>4, <2>1
  <2>3. faults' \in 0 .. MaxFaults /\ faults' > 0 BY <1>2, <2>1
  <2>4. TypeOK' BY <1>1, <2>1, <2>2, <2>3 DEF TypeOK, Calls
  <2> QED BY <1>4, <2>1, <2>2, <2>3, <2>4, CallStepInv
<1>14. CASE UNCHANGED vars
  <2>1. UNCHANGED <<trips, run, call, audit, decisions, faults, overlapped, page, crossed>>
    BY <1>14 DEF vars
  <2> QED BY <1>2, <1>5, <2>1
<1> QED BY <1>6, <1>7, <1>8, <1>9, <1>10, <1>11, <1>12, <1>13, <1>14, RunStepInv
        DEF Next, CallStep
-----------------------------------------------------------------------------
\* The invariant of the trip records holds in every state.
THEOREM Invariant == Spec => []Inv
<1>1. Init => Inv BY InitInv
<1>2. Inv /\ [Next]_vars => Inv' BY InvStep
<1> QED BY <1>1, <1>2, PTL DEF Spec

\* Trips, runs, the page, decisions and audit events have their types, and the
\* counters keep their bounds.
THEOREM TypeOKHolds == Spec => []TypeOK
<1>1. Inv => TypeOK BY DEF Inv
<1> QED BY <1>1, Invariant, PTL

\* The columns that tell of a decision agree in every record whose saves did not
\* overlap (trip_record_from_context, apply_approval_decision).
THEOREM RecordAgreesHolds == Spec => []RecordAgrees
<1>1. Inv => RecordAgrees BY DEF Inv
<1> QED BY <1>1, Invariant, PTL

\* Whoever stands as reviewer of a trip has, or will have, an audit event of it, unless
\* the database failed (record_approval_decision after the save).
THEOREM DecisionsAuditedHolds == Spec => []DecisionsAudited
<1>1. Inv => DecisionsAudited BY DEF Inv
<1> QED BY <1>1, Invariant, PTL

\* Only a retry of the trip's own run takes a decision back.
THEOREM DecisionStandsHolds == Spec => DecisionStands
<1>1. ASSUME Inv, [Next]_vars, NEW t \in Trips, Decided(trips[t]), ~Decided(trips'[t])
      PROVE  run[t].attempt > 1
  <2>1. /\ TypeOK /\ Fresh /\ SavesTouchTrips /\ CallsTouchTrips /\ CopiesDecided
    BY <1>1 DEF Inv
  <2>2. trips # trips' BY <1>1
  <2>3. ASSUME NEW r \in Runs, SaveTrip(r) PROVE run[t].attempt > 1
    <3>1. /\ run[r].pc = "saving"
          /\ \A u \in Trips \ {r} : trips'[u] = trips[u]
      <4>1. PICK draft : Commit(r, run[r].base, draft) BY <2>3, RunsAreTrips DEF SaveTrip
      <4>2. trips \in [Trips -> Records] BY <2>1 DEF TypeOK
      <4> QED BY <2>3, <4>1, <4>2 DEF SaveTrip, Commit
    <3>2. t = r BY <1>1, <3>1
    <3>3. trips[t] # NoTrip BY <1>1, NoTripType
    <3>4. run[t].attempt # 1 BY <2>1, <3>1, <3>2, <3>3 DEF Fresh
    <3>5. run[t].attempt \in 1 .. MaxFaults + 1 BY <2>1, <3>2 DEF TypeOK
    <3> QED BY <3>4, <3>5, BoundsHold
  <2>4. ASSUME NEW o \in Operators, CommitRow(o) PROVE FALSE
    <3>1. /\ call[o].pc = "commit" /\ Commit(call[o].trip, call[o].base, call[o].copy)
      BY <2>4 DEF CommitRow
    <3>2. call[o].trip \in Trips /\ Exists(call[o].trip) BY <2>1, <3>1 DEF CallsTouchTrips
    <3>3. Decided(call[o].copy) /\ call[o].copy.status # "absent" BY <2>1, <3>1 DEF CopiesDecided
    <3>4. call[o].copy \in Records /\ call[o].base \in Records BY <2>1 DEF TypeOK
    <3>5. /\ \A u \in Trips \ {call[o].trip} : trips'[u] = trips[u]
          /\ trips'[call[o].trip].approval \in {trips[call[o].trip].approval, call[o].copy.approval}
      BY <2>1, <3>1, <3>2, <3>3, <3>4, CommitEffect
    <3> QED BY <1>1, <3>3, <3>5 DEF Decided
  <2>5. \/ \E r \in Runs : SaveTrip(r)
        \/ \E o \in Operators : CommitRow(o)
    BY <1>1, <2>2 DEF Next, RunStep, PageStep, CallStep, Rerun, LoadTrip, FailRun, Select,
       ShowDetail, DetailFails, Decide, ReadTrip, LoadRow, RecordEvent, Reply, FailDecision,
       vars, history
  <2> QED BY <2>3, <2>4, <2>5
<1>2. Inv /\ [Next]_vars =>
        [\A t \in Trips : Decided(trips[t]) /\ ~Decided(trips'[t]) => run[t].attempt > 1]_vars
  BY <1>1
<1> QED BY <1>2, Invariant, PTL DEF Spec, DecisionStands

\* Review.tsx: another trip than the selected one is on the screen only while the detail
\* of the selected one is fetched, or after a late reply or a failed fetch.
THEOREM ScreenExplainedHolds == Spec => []ScreenExplained
<1>1. Init => ScreenExplained BY DEF Init, EmptyPage, ScreenExplained
<1>2. ASSUME TypeOK, ScreenExplained, [Next]_vars PROVE ScreenExplained'
  <2> DEFINE Pages == [selected: Trips \cup {None}, shown: Trips \cup {None}, fetching: SUBSET Trips]
  <2>1. page \in Pages BY <1>2 DEF TypeOK
  <2>2. ASSUME NEW t \in Trips, Select(t) PROVE ScreenExplained'
    <3>1. page' = [page EXCEPT !.selected = t, !.fetching = page.fetching \cup {t}]
      BY <2>2 DEF Select
    <3>2. page'.selected = t /\ t \in page'.fetching BY <2>1, <3>1
    <3> QED BY <3>2 DEF ScreenExplained
  <2>3. ASSUME NEW t \in Trips, ShowDetail(t) PROVE ScreenExplained'
    <3>1. /\ page' = [page EXCEPT !.fetching = page.fetching \ {t},
                                  !.shown = IF page.selected = t THEN t ELSE page.shown]
          /\ crossed' = crossed
      BY <2>3 DEF ShowDetail, Current, history
    <3>2. CASE page.selected = t
      <4>1. page'.shown = page'.selected BY <2>1, <3>1, <3>2
      <4> QED BY <4>1 DEF ScreenExplained
    <3>3. CASE page.selected # t
      <4>1. /\ page'.shown = page.shown /\ page'.selected = page.selected
            /\ page'.fetching = page.fetching \ {t}
        BY <2>1, <3>1, <3>3
      <4> QED BY <1>2, <3>1, <3>3, <4>1 DEF ScreenExplained
    <3> QED BY <3>2, <3>3
  <2>4. ASSUME NEW t \in Trips, DetailFails(t) PROVE ScreenExplained'
    <3>1. /\ page' = [page EXCEPT !.fetching = page.fetching \ {t}]
          /\ crossed' = (crossed \/ page.selected = t)
      BY <2>4 DEF DetailFails, Current
    <3>2. /\ page'.shown = page.shown /\ page'.selected = page.selected
          /\ page'.fetching = page.fetching \ {t}
      BY <2>1, <3>1
    <3> QED BY <1>2, <3>1, <3>2 DEF ScreenExplained
  <2>5. ASSUME NEW o \in Operators, Reply(o) PROVE ScreenExplained'
    <3>1. /\ page' = IF o = Watched THEN [page EXCEPT !.shown = call[o].trip] ELSE page
          /\ crossed' = (crossed \/ (o = Watched /\ call[o].trip # page.selected))
      BY <2>5 DEF Reply
    <3>2. CASE o = Watched
      <4>1. page'.shown = call[o].trip /\ page'.selected = page.selected BY <2>1, <3>1, <3>2
      <4> QED BY <3>1, <3>2, <4>1 DEF ScreenExplained
    <3>3. CASE o # Watched BY <1>2, <3>1, <3>3 DEF ScreenExplained
    <3> QED BY <3>2, <3>3
  <2>6. ASSUME page' = page, crossed' = crossed PROVE ScreenExplained'
    BY <1>2, <2>6 DEF ScreenExplained
  <2>7. ASSUME NEW r \in Runs, Rerun(r) \/ RunStep(r) PROVE UNCHANGED <<page, crossed>>
    BY <2>7 DEF Rerun, RunStep, LoadTrip, SaveTrip, FailRun, history
  <2>8. ASSUME NEW o \in Operators,
               (\E t \in Trips, action \in {"approve", "reject"} : Decide(o, t, action))
               \/ ReadTrip(o) \/ LoadRow(o) \/ CommitRow(o) \/ RecordEvent(o) \/ FailDecision(o)
        PROVE  UNCHANGED <<page, crossed>>
    BY <2>8 DEF Decide, ReadTrip, LoadRow, CommitRow, RecordEvent, FailDecision, history
  <2>9. CASE UNCHANGED vars BY <2>6, <2>9 DEF vars
  <2> QED BY <1>2, <2>2, <2>3, <2>4, <2>5, <2>6, <2>7, <2>8, <2>9 DEF Next, PageStep, CallStep
<1> QED BY <1>1, <1>2, TypeOKHolds, PTL DEF Spec
=============================================================================
