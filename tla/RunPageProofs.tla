---------------------------- MODULE RunPageProofs ----------------------------
(***************************************************************************)
(* Which run a page follows, for any number of runs, requests under way    *)
(* and losses.                                                             *)
(*                                                                         *)
(* The argument: as long as no run is asked for beside another request,    *)
(* and nothing is lost, who asks for a run asks alone (AsksAlone); so the  *)
(* run is created and handed to the page with no other answer in between,  *)
(* and every other request under way is about the run that is the newest   *)
(* (AboutNewest).  A page that is left while it asks has forgotten its run *)
(* and hears of the new one through the storage.  To reset or to leave the *)
(* form forgets a run and follows none, and a late answer can at most take *)
(* the page back to the newest.                                            *)
(***************************************************************************)
EXTENDS RunPage, FiniteSetTheorems, TLAPS

Kinds == {"free", "create", "rerun", "first", "poll", "cancel", "trip"}

RequestType == [kind: Kinds, run: 0 .. MaxRuns, nav: BOOLEAN,
                answer: Statuses \cup {"none"}, mine: BOOLEAN]

Types ==
    /\ status \in [Runs -> Statuses]
    /\ active \in [run: 0 .. MaxRuns, status: Statuses] /\ stored \in 0 .. MaxRuns
    /\ nav \in BOOLEAN
    /\ requests \in [Slots -> RequestType]
    /\ course \in {"kept", "cleared", "astray"}

\* Runs are created in order.
InOrder == \E n \in 0 .. MaxRuns : \A r \in Runs : status[r] # "absent" <=> r <= n

\* A request for a run that has not been created, and one for a run that has been and that
\* the page does not follow yet.
Open(s) == requests[s].kind \in {"create", "rerun"} /\ requests[s].answer = "none"
Handed(s) ==
    \/ requests[s].kind \in {"create", "rerun"} /\ requests[s].answer # "none"
    \/ requests[s].kind = "first"

\* Every other request is about the newest run.
AboutNewest ==
    \A s \in Slots : Busy(s) /\ ~Open(s) => requests[s].run = Newest /\ Newest # 0

\* Who asks for a run asks alone, and there is a run left.
AsksAlone ==
    \A s \in Slots : Open(s) \/ Handed(s) =>
        /\ \A q \in Slots : Busy(q) => q = s
        /\ Open(s) => Newest < MaxRuns
        /\ ~requests[s].mine => active.run = 0

Follows ==
    (\A s \in Slots : ~Open(s) /\ ~Handed(s)) =>
        /\ stored = Newest \/ (stored = 0 /\ course = "cleared")
        /\ active.run \in {0, Newest}

NoRunNoStatus == active.run = 0 => active.status = "absent"

Quiet == course # "astray"
QuietInv == Types /\ InOrder /\ AboutNewest /\ AsksAlone /\ Follows /\ NoRunNoStatus
Inv == Quiet => QuietInv
-----------------------------------------------------------------------------
\* Which run is the newest, when runs are created in order.
LEMMA NewestOf ==
    ASSUME NEW st, NEW n \in 0 .. MaxRuns, \A r \in Runs : st[r] # "absent" <=> r <= n
    PROVE  (CHOOSE r \in 0 .. MaxRuns : /\ r = 0 \/ st[r] # "absent"
                                        /\ \A q \in Runs : q > r => st[q] = "absent") = n
<1> DEFINE IsNewest(r) == /\ r = 0 \/ st[r] # "absent"
                          /\ \A q \in Runs : q > r => st[q] = "absent"
<1> MaxRuns \in Nat BY Bounds
<1>1. IsNewest(n) BY DEF Runs
<1>2. ASSUME NEW r \in 0 .. MaxRuns, IsNewest(r) PROVE r = n
  <2>1. r <= n BY <1>2 DEF Runs
  <2>2. n <= r BY <1>2 DEF Runs
  <2> QED BY <2>1, <2>2
<1> HIDE DEF IsNewest
<1>3. (CHOOSE r \in 0 .. MaxRuns : IsNewest(r)) = n BY <1>1, <1>2
<1> QED BY <1>3 DEF IsNewest

LEMMA NewestIs ==
    ASSUME NEW n \in 0 .. MaxRuns, \A r \in Runs : status[r] # "absent" <=> r <= n
    PROVE  Newest = n
BY NewestOf DEF Newest

LEMMA NewestWillBe ==
    ASSUME NEW n \in 0 .. MaxRuns, \A r \in Runs : status'[r] # "absent" <=> r <= n
    PROVE  Newest' = n
BY NewestOf DEF Newest

LEMMA NewestInOrder ==
    ASSUME InOrder
    PROVE  /\ Newest \in 0 .. MaxRuns
           /\ \A r \in Runs : status[r] # "absent" <=> r <= Newest
BY NewestIs DEF InOrder

\* No step but an answer to who asks for a run makes another run the newest.
LEMMA SameNewest ==
    ASSUME InOrder, \A r \in Runs : status'[r] # "absent" <=> status[r] # "absent"
    PROVE  InOrder' /\ Newest' = Newest
<1>1. PICK n \in 0 .. MaxRuns : \A r \in Runs : status[r] # "absent" <=> r <= n BY DEF InOrder
<1>2. \A r \in Runs : status'[r] # "absent" <=> r <= n BY <1>1
<1>3. Newest = n BY <1>1, NewestIs
<1>4. Newest' = n BY <1>2, NewestWillBe
<1> QED BY <1>2, <1>3, <1>4 DEF InOrder

LEMMA FreeType == Free \in RequestType /\ \A s \in Slots : ~Busy(s) => ~Open(s) /\ ~Handed(s)
BY Bounds DEF Free, RequestType, Kinds, Statuses, Busy, Open, Handed

LEMMA SendEffect ==
    ASSUME Types, NEW request \in RequestType, Send(request)
    PROVE  \E s \in Slots :
             /\ ~Busy(s) /\ requests'[s] = request
             /\ \A q \in Slots \ {s} : requests'[q] = requests[q]
             /\ requests' \in [Slots -> RequestType]
BY DEF Types, Send

LEMMA InitInv == Init => Inv
<1> SUFFICES ASSUME Init PROVE Inv OBVIOUS
<1> MaxRuns \in Nat BY Bounds
<1>1. /\ status = [r \in Runs |-> "absent"] /\ active = NoRun /\ stored = 0 /\ nav = FALSE
      /\ requests = [s \in Slots |-> Free] /\ course = "kept"
  BY DEF Init
<1>2. Types
  <2>1. status \in [Runs -> Statuses] BY <1>1 DEF Statuses
  <2>2. active \in [run: 0 .. MaxRuns, status: Statuses] /\ stored \in 0 .. MaxRuns
    BY <1>1 DEF Statuses, NoRun
  <2>3. requests \in [Slots -> RequestType] BY <1>1, FreeType
  <2> QED BY <1>1, <2>1, <2>2, <2>3 DEF Types
<1>3. \A r \in Runs : status[r] # "absent" <=> r <= 0 BY <1>1 DEF Runs
<1>4. InOrder /\ Newest = 0 BY <1>3, NewestIs DEF InOrder
<1>5. \A s \in Slots : ~Busy(s) BY <1>1 DEF Busy
<1>6. AboutNewest /\ AsksAlone BY <1>5, FreeType DEF AboutNewest, AsksAlone
<1>7. Follows /\ NoRunNoStatus BY <1>1, <1>4 DEF Follows, NoRunNoStatus, NoRun
<1> QED BY <1>1, <1>2, <1>4, <1>6, <1>7 DEF Inv, QuietInv

\* A page that asks for a run while nothing is under way.
LEMMA AskInv ==
    ASSUME QuietInv, NEW request \in RequestType, Send(request),
           request.kind \in {"create", "rerun"}, request.answer = "none", request.mine,
           \A s \in Slots : ~Busy(s), RunsLeft, nav' \in BOOLEAN, course' = "kept",
           UNCHANGED <<status, active, stored>>
    PROVE  QuietInv'
<1>1. Types /\ InOrder /\ AboutNewest /\ AsksAlone /\ Follows /\ NoRunNoStatus BY DEF QuietInv
<1>2. PICK s \in Slots :
        /\ requests'[s] = request /\ \A q \in Slots \ {s} : requests'[q] = requests[q]
        /\ requests' \in [Slots -> RequestType]
  BY <1>1, SendEffect
<1>3. Types' BY <1>1, <1>2 DEF Types
<1>4. InOrder' /\ Newest' = Newest BY <1>1, SameNewest
<1>5. \A q \in Slots \ {s} : ~Busy(q)' /\ ~Open(q)' /\ ~Handed(q)'
  BY <1>2, FreeType DEF Busy, Open, Handed
<1>6. Open(s)' /\ ~Handed(s)' BY <1>2 DEF Open, Handed
<1>7. AboutNewest' BY <1>5, <1>6 DEF AboutNewest
<1>8. Newest < MaxRuns
  <2> DEFINE count == Cardinality({q \in Asking : requests[q].answer = "none"})
  <2>1. {q \in Asking : requests[q].answer = "none"} = {} BY FreeType DEF Asking, Open, Handed
  <2>2. count = 0 BY <2>1, FS_EmptySet
  <2>3. Newest \in 0 .. MaxRuns BY <1>1, NewestInOrder
  <2>4. Newest + count < MaxRuns BY DEF RunsLeft
  <2> HIDE DEF count
  <2> QED BY <2>2, <2>3, <2>4
<1>9. AsksAlone' BY <1>2, <1>4, <1>5, <1>8 DEF AsksAlone
<1>10. Follows' BY <1>6 DEF Follows
<1>11. NoRunNoStatus' BY <1>1 DEF NoRunNoStatus
<1> QED BY <1>3, <1>4, <1>7, <1>9, <1>10, <1>11 DEF QuietInv

\* A poll or a cancellation of the newest run, while no run is asked for.
LEMMA PollInv ==
    ASSUME QuietInv, NEW request \in RequestType, Send(request),
           request.kind \in {"poll", "cancel"}, request.run = Newest, Newest # 0,
           ~Pressed, UNCHANGED <<status, active, stored, nav, course>>
    PROVE  QuietInv'
<1>1. Types /\ InOrder /\ AboutNewest /\ AsksAlone /\ Follows /\ NoRunNoStatus BY DEF QuietInv
<1>2. PICK s \in Slots :
        /\ requests'[s] = request /\ \A q \in Slots \ {s} : requests'[q] = requests[q]
        /\ requests' \in [Slots -> RequestType]
  BY <1>1, SendEffect
<1>3. Types' BY <1>1, <1>2 DEF Types
<1>4. InOrder' /\ Newest' = Newest BY <1>1, SameNewest
<1>5. \A q \in Slots : ~Open(q) /\ ~Handed(q) BY DEF Pressed, Asking, Open, Handed
<1>6. \A q \in Slots : ~Open(q)' /\ ~Handed(q)' BY <1>2, <1>5 DEF Open, Handed
<1>7. AboutNewest' BY <1>1, <1>2, <1>4, <1>5 DEF AboutNewest, Busy
<1>8. AsksAlone' BY <1>6 DEF AsksAlone
<1>9. Follows' BY <1>1, <1>4, <1>5 DEF Follows
<1>10. NoRunNoStatus' BY <1>1 DEF NoRunNoStatus
<1> QED BY <1>3, <1>4, <1>7, <1>8, <1>9, <1>10 DEF QuietInv

\* The page goes, or is reset: it forgets its run, and the storage may too; if the page
\* goes, its requests cannot change it any more.
LEMMA LeaveInv ==
    ASSUME QuietInv, active' = NoRun, nav' = FALSE, status' = status,
           \/ UNCHANGED <<stored, course>>
           \/ stored' \in {0, stored} /\ course' = "cleared",
           requests' \in [Slots -> RequestType],
           \A q \in Slots :
               \/ requests'[q] = requests[q]
               \/ requests'[q] = [requests[q] EXCEPT !.mine = FALSE]
               \/ requests'[q] = Free /\ ~Open(q) /\ ~Handed(q)
    PROVE  QuietInv'
<1>1. Types /\ InOrder /\ AboutNewest /\ AsksAlone /\ Follows /\ NoRunNoStatus BY DEF QuietInv
<1>2. active'.run = 0 /\ active'.status = "absent" BY DEF NoRun
<1>3. Types'
  <2>1. MaxRuns \in Nat BY Bounds
  <2>2. active' \in [run: 0 .. MaxRuns, status: Statuses] BY <2>1 DEF NoRun, Statuses
  <2>3. stored' \in 0 .. MaxRuns BY <1>1, <2>1 DEF Types
  <2> QED BY <1>1, <2>2, <2>3 DEF Types
<1>4. InOrder' /\ Newest' = Newest BY <1>1, SameNewest
<1>5. \A q \in Slots : requests[q] \in RequestType BY <1>1 DEF Types
<1>6. ASSUME NEW q \in Slots
      PROVE  /\ Open(q)' <=> Open(q)
             /\ Handed(q)' <=> Handed(q)
             /\ Busy(q)' => Busy(q) /\ requests'[q].run = requests[q].run
  <2>1. CASE requests'[q] = [requests[q] EXCEPT !.mine = FALSE]
    <3>1. /\ requests'[q].kind = requests[q].kind /\ requests'[q].answer = requests[q].answer
          /\ requests'[q].run = requests[q].run
      BY <1>5, <2>1 DEF RequestType
    <3>2. ASSUME requests[q] = Free PROVE requests'[q] = Free
      <4>1. /\ requests'[q].kind = "free" /\ requests'[q].run = 0 /\ requests'[q].nav = FALSE
            /\ requests'[q].answer = "none" /\ requests'[q].mine = FALSE
        BY <1>5, <2>1, <3>2 DEF Free, RequestType
      <4> QED BY <4>1 DEF Free, RequestType
    <3> QED BY <3>1, <3>2 DEF Open, Handed, Busy
  <2>2. CASE requests'[q] = Free /\ ~Open(q) /\ ~Handed(q)
    BY <2>2 DEF Free, Open, Handed, Busy
  <2>3. CASE requests'[q] = requests[q] BY <2>3 DEF Open, Handed, Busy
  <2> QED BY <2>1, <2>2, <2>3
<1>7. AboutNewest' BY <1>1, <1>4, <1>6 DEF AboutNewest
<1>8. AsksAlone' BY <1>1, <1>2, <1>4, <1>6 DEF AsksAlone
<1>9. Follows' BY <1>1, <1>2, <1>4, <1>6 DEF Follows
<1>10. NoRunNoStatus' BY <1>2 DEF NoRunNoStatus
<1> QED BY <1>3, <1>4, <1>7, <1>8, <1>9, <1>10 DEF QuietInv

\* The server takes a run on, or ends it.
LEMMA ServerInv ==
    ASSUME QuietInv, status' \in [Runs -> Statuses],
           \A r \in Runs : status'[r] # "absent" <=> status[r] # "absent",
           UNCHANGED <<active, stored, nav, requests, course>>
    PROVE  QuietInv'
<1>1. Types /\ InOrder /\ AboutNewest /\ AsksAlone /\ Follows /\ NoRunNoStatus BY DEF QuietInv
<1>2. InOrder' /\ Newest' = Newest BY <1>1, SameNewest
<1>3. Types' BY <1>1 DEF Types
<1>4. AboutNewest' /\ AsksAlone' /\ Follows' /\ NoRunNoStatus'
  BY <1>1, <1>2 DEF AboutNewest, AsksAlone, Follows, NoRunNoStatus, Busy, Open, Handed
<1> QED BY <1>2, <1>3, <1>4 DEF QuietInv

\* The server creates the run that is asked for.
LEMMA CreateInv ==
    ASSUME QuietInv, NEW s \in Slots, Open(s),
           status' = [status EXCEPT ![Newest + 1] = "queued"],
           requests' = [requests EXCEPT ![s].run = Newest + 1, ![s].answer = "queued"],
           UNCHANGED <<active, stored, nav, course>>
    PROVE  QuietInv'
<1> MaxRuns \in Nat BY Bounds
<1>1. Types /\ InOrder /\ AboutNewest /\ AsksAlone /\ Follows /\ NoRunNoStatus BY DEF QuietInv
<1>2. /\ Newest \in 0 .. MaxRuns /\ Newest < MaxRuns
      /\ \A r \in Runs : status[r] # "absent" <=> r <= Newest
  BY <1>1, NewestInOrder DEF AsksAlone
<1>3. Newest + 1 \in Runs BY <1>2 DEF Runs
<1>4. status' \in [Runs -> Statuses] BY <1>1, <1>3 DEF Types, Statuses
<1>5. \A r \in Runs : status'[r] # "absent" <=> r <= Newest + 1
  BY <1>1, <1>2, <1>3 DEF Types, Runs
<1>6. Newest + 1 \in 0 .. MaxRuns BY <1>3 DEF Runs
<1>7. InOrder' /\ Newest' = Newest + 1
  <2>1. InOrder' BY <1>5, <1>6 DEF InOrder
  <2>2. Newest' = Newest + 1
    <3>1. PICK n \in 0 .. MaxRuns : n = Newest + 1 BY <1>6
    <3>2. \A r \in Runs : status'[r] # "absent" <=> r <= n BY <1>5, <3>1
    <3>3. Newest' = n BY <3>2, NewestWillBe
    <3> QED BY <3>1, <3>3
  <2> QED BY <2>1, <2>2
<1>8. requests[s] \in RequestType BY <1>1 DEF Types
<1>9. /\ requests'[s].run = Newest + 1 /\ requests'[s].answer = "queued"
      /\ requests'[s].kind = requests[s].kind /\ requests'[s].mine = requests[s].mine
      /\ \A q \in Slots \ {s} : requests'[q] = requests[q]
      /\ requests' \in [Slots -> RequestType]
  BY <1>1, <1>6, <1>8 DEF Types, RequestType, Statuses
<1>10. Types' BY <1>1, <1>4, <1>9 DEF Types
<1>11. \A q \in Slots : Busy(q)' => q = s
  BY <1>1, <1>9 DEF AsksAlone, Busy
<1>12. Handed(s)' /\ ~Open(s)' BY <1>9 DEF Open, Handed
<1>13. AboutNewest' BY <1>2, <1>7, <1>9, <1>11 DEF AboutNewest
<1>14. \A q \in Slots \ {s} : ~Open(q)' /\ ~Handed(q)'
  <2>1. \A q \in Slots \ {s} : ~Busy(q) BY <1>1 DEF AsksAlone
  <2> QED BY <1>9, <2>1, FreeType DEF Open, Handed
<1>15. AsksAlone' BY <1>1, <1>9, <1>11, <1>12, <1>14 DEF AsksAlone
<1>16. Follows' BY <1>12 DEF Follows
<1>17. NoRunNoStatus' BY <1>1 DEF NoRunNoStatus
<1> QED BY <1>7, <1>10, <1>13, <1>15, <1>16, <1>17 DEF QuietInv

\* A request about the newest run is answered, or goes on: it stays about that run, and
\* the page may take the run over from it.
LEMMA AboutInv ==
    ASSUME QuietInv, NEW s \in Slots, Busy(s), ~Open(s), Types', course' = course,
           \A r \in Runs : status'[r] # "absent" <=> status[r] # "absent",
           \A q \in Slots \ {s} : requests'[q] = requests[q],
           ~Open(s)', requests'[s] = Free \/ requests'[s].run = requests[s].run,
           Handed(s)' => Handed(s) /\ requests'[s].mine = requests[s].mine /\ UNCHANGED active,
           ~Handed(s)' =>
               /\ \/ stored' = requests[s].run
                  \/ ~Handed(s) /\ stored' = stored
               /\ \/ active'.run = requests[s].run
                  \/ UNCHANGED active /\ (Handed(s) => ~requests[s].mine),
           active'.run = 0 => UNCHANGED active
    PROVE  QuietInv'
<1>1. Types /\ InOrder /\ AboutNewest /\ AsksAlone /\ Follows /\ NoRunNoStatus BY DEF QuietInv
<1>2. InOrder' /\ Newest' = Newest BY <1>1, SameNewest
<1>3. requests[s].run = Newest /\ Newest # 0 BY <1>1 DEF AboutNewest
<1>4. \A q \in Slots \ {s} :
        /\ Busy(q)' <=> Busy(q)
        /\ Open(q)' <=> Open(q)
        /\ Handed(q)' <=> Handed(q)
  BY DEF Busy, Open, Handed
<1>5. AboutNewest'
  <2>1. requests'[s] = Free => ~Busy(s)' BY DEF Busy
  <2> QED BY <1>1, <1>2, <1>3, <1>4, <2>1 DEF AboutNewest
<1>6. \A q \in Slots \ {s} : ~Open(q) /\ ~Handed(q) BY <1>1 DEF AsksAlone
<1>7. AsksAlone'
  <2> SUFFICES ASSUME Handed(s)'
               PROVE  /\ \A q \in Slots : Busy(q)' => q = s
                      /\ ~requests'[s].mine => active'.run = 0
    BY <1>2, <1>4, <1>6 DEF AsksAlone
  <2> QED BY <1>1, <1>4 DEF AsksAlone
<1>8. Follows'
  <2> SUFFICES ASSUME ~Handed(s)'
               PROVE  /\ stored' = Newest \/ (stored' = 0 /\ course = "cleared")
                      /\ active'.run \in {0, Newest}
    BY <1>2, <1>4, <1>6 DEF Follows
  <2>1. CASE Handed(s) BY <1>1, <1>3, <2>1 DEF AsksAlone
  <2>2. CASE ~Handed(s)
    <3>1. \A q \in Slots : ~Open(q) /\ ~Handed(q) BY <1>6, <2>2
    <3> QED BY <1>1, <1>3, <2>2, <3>1 DEF Follows
  <2> QED BY <2>1, <2>2
<1>9. NoRunNoStatus' BY <1>1 DEF NoRunNoStatus
<1> QED BY <1>2, <1>5, <1>7, <1>8, <1>9 DEF QuietInv

-----------------------------------------------------------------------------
\* What Pressed leaves under way, and what the page may poll.
LEMMA NotPressed == ~Pressed => \A s \in Slots : ~Open(s) /\ ~Handed(s)
BY DEF Pressed, Asking, Open, Handed

\* An answer about the newest run is shown by the page that asked for it.
LEMMA TakenOver ==
    ASSUME QuietInv, NEW s \in Slots, Busy(s), ~Open(s), Show(requests[s]),
           requests[s].answer # "none", UNCHANGED <<status, nav, course>>,
           stored' = requests[s].run \/ (~Handed(s) /\ stored' = stored),
           requests' \in [Slots -> RequestType],
           \A q \in Slots \ {s} : requests'[q] = requests[q],
           ~Open(s)', ~Handed(s)', requests'[s] = Free \/ requests'[s].run = requests[s].run
    PROVE  QuietInv'
<1>1. Types /\ AboutNewest /\ InOrder /\ requests[s] \in RequestType BY DEF QuietInv, Types
<1>2. requests[s].run # 0 BY <1>1 DEF AboutNewest
<1>3. /\ active' \in [run: 0 .. MaxRuns, status: Statuses]
      /\ IF requests[s].mine THEN active'.run = requests[s].run ELSE active' = active
  BY <1>1 DEF Show, Types, RequestType
<1>4. active'.run = 0 => active' = active BY <1>2, <1>3
<1>5. \/ active'.run = requests[s].run
      \/ active' = active /\ ~requests[s].mine
  BY <1>3
<1>6. stored' \in 0 .. MaxRuns BY <1>1 DEF Types, RequestType
<1>7. Types' BY <1>1, <1>3, <1>6 DEF Types
<1> QED BY <1>4, <1>5, <1>7, AboutInv

\* A step of a quiet page.
LEMMA InvStep ==
    ASSUME QuietInv, Quiet, Quiet', Next
    PROVE  QuietInv'
<1> MaxRuns \in Nat BY Bounds
<1>1. Types /\ InOrder /\ AboutNewest /\ AsksAlone /\ Follows /\ NoRunNoStatus BY DEF QuietInv
<1>2. Newest \in 0 .. MaxRuns BY <1>1, NewestInOrder
<1>3. active.run \in 0 .. MaxRuns BY <1>1 DEF Types
<1>4. ASSUME ~Pressed PROVE stored \in {0, Newest} /\ active.run \in {0, Newest}
  BY <1>1, <1>4, NotPressed DEF Follows
<1>5. CASE StartPlanning
  <2>1. Request("create", 0, TRUE) \in RequestType BY DEF Request, RequestType, Kinds
  <2>2. (\A s \in Slots : ~Busy(s)) /\ course' = "kept" BY <1>5 DEF StartPlanning, Asks, Quiet
  <2> QED BY <1>5, <2>1, <2>2, AskInv DEF StartPlanning, Request
<1>6. CASE RequestRerun
  <2>1. Request("rerun", 0, TRUE) \in RequestType BY DEF Request, RequestType, Kinds
  <2>2. (\A s \in Slots : ~Busy(s)) /\ course' = "kept" BY <1>6 DEF RequestRerun, Asks, Quiet
  <2> QED BY <1>6, <2>1, <2>2, AskInv DEF RequestRerun, Request
<1>7. active.status \in Live => active.run # 0 BY <1>1 DEF NoRunNoStatus, Live
<1>8. CASE RequestCancel
  <2>1. Request("cancel", active.run, FALSE) \in RequestType
    BY <1>3 DEF Request, RequestType, Kinds
  <2>2. ~Pressed /\ course' = course BY <1>8 DEF RequestCancel, Polls, Quiet
  <2>3. active.run = Newest /\ Newest # 0 BY <1>4, <1>7, <1>8, <2>2 DEF RequestCancel
  <2> QED BY <1>8, <2>1, <2>2, <2>3, PollInv DEF RequestCancel, Request, page
<1>9. ASSUME NEW run \in 0 .. MaxRuns, NEW navigates \in BOOLEAN, Poll(run, navigates),
             run # 0, run \in {stored, active.run}
      PROVE  QuietInv'
  <2>1. Request("poll", run, navigates) \in RequestType BY DEF Request, RequestType, Kinds
  <2>2. ~Pressed /\ course' = course BY <1>9 DEF Poll, Polls, Quiet
  <2>3. run = Newest /\ Newest # 0 BY <1>4, <1>9, <2>2
  <2> QED BY <1>9, <2>1, <2>2, <2>3, PollInv DEF Poll, Request, page
<1>10. CASE TimerPoll BY <1>1, <1>3, <1>7, <1>9, <1>10 DEF TimerPoll, Types
<1>11. CASE EffectPoll BY <1>1, <1>9, <1>11 DEF EffectPoll, Types
<1>12. ASSUME NEW q \in Slots PROVE [requests[q] EXCEPT !.mine = FALSE] \in RequestType
  BY <1>1 DEF Types, RequestType
<1>13. CASE Leave \/ StartOver
  <2>1. requests' = [q \in Slots |-> [requests[q] EXCEPT !.mine = FALSE]]
    BY <1>13 DEF Leave, StartOver, Gone
  <2>2. requests' \in [Slots -> RequestType] BY <1>12, <2>1
  <2>3. \A q \in Slots : requests'[q] = [requests[q] EXCEPT !.mine = FALSE] BY <2>1
  <2>4. /\ active' = NoRun /\ nav' = FALSE /\ status' = status
        /\ UNCHANGED <<stored, course>> \/ (stored' \in {0, stored} /\ course' = "cleared")
    BY <1>13 DEF Leave, StartOver, Gone, Clears, Quiet
  <2> QED BY <2>2, <2>3, <2>4, LeaveInv
<1>14. CASE Reset
  <2>1. requests' \in [Slots -> RequestType] /\ \A q \in Slots : requests'[q] = requests[q]
    BY <1>1, <1>14 DEF Reset, Types
  <2>2. /\ active' = NoRun /\ nav' = FALSE /\ status' = status
        /\ stored' \in {0, stored} /\ course' = "cleared"
    BY <1>14 DEF Reset, Clears, Quiet
  <2> QED BY <2>1, <2>2, LeaveInv
<1>15. ASSUME NEW r \in Runs, Moves(r) PROVE QuietInv'
  <2>1. status[r] # "absent" BY <1>15 DEF Moves, Ended
  <2>2. PICK new \in Statuses \ {"absent"} : status' = [status EXCEPT ![r] = new]
    BY <1>1, <1>15, <2>1 DEF Moves, Statuses, Ended, Types
  <2>3. status' \in [Runs -> Statuses] BY <1>1, <2>2 DEF Types
  <2>4. \A q \in Runs : status'[q] # "absent" <=> status[q] # "absent"
    BY <1>1, <2>1, <2>2 DEF Types
  <2> QED BY <1>15, <2>3, <2>4, ServerInv DEF Moves, page
<1>16. ASSUME NEW s \in Slots, Answer(s) \/ Deliver(s) \/ Lose(s) PROVE QuietInv'
  <2>1. requests[s] \in RequestType BY <1>1 DEF Types
  <2>2. ASSUME Busy(s), ~Open(s)
        PROVE  requests[s].run = Newest /\ Newest \in Runs /\ status[Newest] # "absent"
    BY <1>1, <1>2, <2>2, NewestInOrder DEF AboutNewest, Runs
  <2>3. CASE Answer(s)
    <3>1. Busy(s) /\ requests[s].answer = "none" BY <2>3 DEF Answer
    <3>2. CASE s \in Asking
      <4>1. Open(s) BY <3>1, <3>2 DEF Open, Asking
      <4> QED BY <2>3, <3>2, <4>1, CreateInv DEF Answer, Asking, page
    <3>3. CASE s \notin Asking
      <4>1. ~Open(s) BY <3>3 DEF Open, Asking
      <4>2. requests[s].run = Newest /\ Newest \in Runs /\ status[Newest] # "absent"
        BY <2>2, <3>1, <4>1
      <4>3. UNCHANGED <<page, course>> BY <2>3 DEF Answer
      <4>4. PICK answer \in Statuses :
              /\ requests' = [requests EXCEPT ![s].answer = answer]
              /\ status' \in [Runs -> Statuses]
              /\ \A r \in Runs : status'[r] # "absent" <=> status[r] # "absent"
        <5>1. CASE requests[s].kind = "cancel"
          <6>1. /\ status' = [status EXCEPT ![Newest] = IF @ = "queued" THEN "stopped" ELSE @]
                /\ requests' = [requests EXCEPT ![s].answer = status'[Newest]]
            BY <2>3, <3>3, <4>2, <5>1 DEF Answer
          <6>2. status' \in [Runs -> Statuses]
            BY <1>1, <4>2, <6>1 DEF Types, Statuses, Ended
          <6>3. \A r \in Runs : status'[r] # "absent" <=> status[r] # "absent"
            BY <1>1, <4>2, <6>1 DEF Types
          <6> QED BY <4>2, <6>1, <6>2, <6>3
        <5>2. CASE requests[s].kind # "cancel"
          <6>1. /\ \/ requests' = [requests EXCEPT ![s].answer = status[Newest]]
                   \/ requests' = [requests EXCEPT ![s].answer = "succeeded"]
                /\ UNCHANGED status
            BY <2>3, <3>3, <4>2, <5>2 DEF Answer
          <6>2. "succeeded" \in Statuses BY DEF Statuses, Ended
          <6> QED BY <1>1, <4>2, <6>1, <6>2 DEF Types
        <5> QED BY <5>1, <5>2
      <4>5. /\ requests' \in [Slots -> RequestType]
            /\ requests'[s].kind = requests[s].kind /\ requests'[s].run = requests[s].run
            /\ requests'[s].mine = requests[s].mine
            /\ \A q \in Slots \ {s} : requests'[q] = requests[q]
        BY <1>1, <2>1, <4>4 DEF Types, RequestType
      <4>6. Types' BY <1>1, <4>3, <4>4, <4>5 DEF Types, page
      <4>7. ~Open(s)' BY <3>3, <4>5 DEF Open, Asking
      <4>8. Handed(s)' <=> Handed(s) BY <3>3, <4>5 DEF Handed, Asking
      <4>9. UNCHANGED <<active, stored, course>> BY <4>3 DEF page
      <4> QED BY <3>1, <4>1, <4>4, <4>5, <4>6, <4>7, <4>8, <4>9, AboutInv
    <3> QED BY <3>2, <3>3
  <2>4. CASE RunGiven(s)
    <3>1. /\ requests[s].kind \in {"create", "rerun"} /\ requests[s].answer # "none"
          /\ UNCHANGED <<status, nav, course>>
      BY <2>4 DEF RunGiven, Answered
    <3>2. Busy(s) /\ ~Open(s) /\ Handed(s) BY <3>1 DEF Busy, Free, Open, Handed
    <3>3. requests[s].run = Newest /\ Newest \in Runs BY <2>2, <3>2
    <3>4. \A q \in Slots \ {s} : requests'[q] = requests[q] BY <1>1, <2>4 DEF RunGiven, Types
    <3>5. CASE requests[s].kind = "create"
      <4>1. requests' = [requests EXCEPT ![s].kind = "first", ![s].answer = "none"]
            /\ UNCHANGED <<active, stored>>
        BY <2>4, <3>5 DEF RunGiven
      <4>2. /\ requests' \in [Slots -> RequestType]
            /\ requests'[s].kind = "first" /\ requests'[s].run = requests[s].run
            /\ requests'[s].mine = requests[s].mine
        BY <1>1, <2>1, <4>1 DEF Types, RequestType, Kinds
      <4>3. Types' BY <1>1, <3>1, <4>1, <4>2 DEF Types
      <4>4. ~Open(s)' /\ Handed(s)' BY <4>2 DEF Open, Handed
      <4> QED BY <3>1, <3>2, <3>4, <4>1, <4>2, <4>3, <4>4, AboutInv
    <3>6. CASE requests[s].kind = "rerun"
      <4>1. /\ requests' = [requests EXCEPT ![s].kind = "poll", ![s].answer = "none"]
            /\ Show(requests[s]) /\ stored' = requests[s].run
        BY <2>4, <3>6 DEF RunGiven, Remember
      <4>2. /\ requests' \in [Slots -> RequestType]
            /\ requests'[s].kind = "poll" /\ requests'[s].run = requests[s].run
        BY <1>1, <2>1, <4>1 DEF Types, RequestType, Kinds
      <4>3. ~Open(s)' /\ ~Handed(s)' BY <4>2 DEF Open, Handed
      <4> QED BY <1>16, <3>1, <3>2, <3>4, <4>1, <4>2, <4>3, TakenOver
    <3> QED BY <3>1, <3>5, <3>6
  <2>5. CASE Refreshed(s)
    <3>1. /\ requests[s].kind \in {"poll", "first"} /\ requests[s].answer # "none"
          /\ UNCHANGED <<status, nav, course>> /\ Show(requests[s])
          /\ stored' = requests[s].run
      BY <2>5 DEF Refreshed, Answered, Remember
    <3>2. Busy(s) /\ ~Open(s) BY <3>1 DEF Busy, Free, Open
    <3>3. \A q \in Slots \ {s} : requests'[q] = requests[q] BY <1>1, <2>5 DEF Refreshed, Types
    <3>4. \/ requests' = [requests EXCEPT ![s] =
                              [@ EXCEPT !.kind = "trip", !.answer = "none", !.mine = FALSE]]
          \/ requests' = [requests EXCEPT ![s] = Free]
      BY <2>5 DEF Refreshed
    <3>5. /\ requests' \in [Slots -> RequestType]
          /\ ~Open(s)' /\ ~Handed(s)'
          /\ requests'[s] = Free \/ requests'[s].run = requests[s].run
      <4>1. CASE requests' = [requests EXCEPT ![s] =
                                 [@ EXCEPT !.kind = "trip", !.answer = "none", !.mine = FALSE]]
        BY <1>1, <2>1, <4>1 DEF Types, RequestType, Kinds, Open, Handed
      <4>2. CASE requests' = [requests EXCEPT ![s] = Free]
        BY <1>1, <4>2, FreeType DEF Types, Free, Open, Handed
      <4> QED BY <3>4, <4>1, <4>2
    <3> QED BY <1>16, <3>1, <3>2, <3>3, <3>5, TakenOver
  <2>6. CASE CancelAnswered(s)
    <3>1. /\ requests[s].kind = "cancel" /\ requests[s].answer # "none"
          /\ UNCHANGED <<status, nav, stored, course>> /\ Show(requests[s])
          /\ requests' = [requests EXCEPT ![s] = Free]
      BY <2>6 DEF CancelAnswered, Answered
    <3>2. Busy(s) /\ ~Open(s) /\ ~Handed(s) BY <3>1 DEF Busy, Free, Open, Handed
    <3>3. /\ requests' \in [Slots -> RequestType] /\ requests'[s] = Free
          /\ \A q \in Slots \ {s} : requests'[q] = requests[q]
      BY <1>1, <3>1, FreeType DEF Types
    <3>4. ~Open(s)' /\ ~Handed(s)' BY <3>3 DEF Free, Open, Handed
    <3> QED BY <1>16, <3>1, <3>2, <3>3, <3>4, TakenOver
  <2>7. CASE Navigate(s)
    <3>1. Busy(s) /\ ~Open(s) /\ ~Handed(s)
      BY <2>7 DEF Navigate, Answered, Busy, Free, Open, Handed
    <3>2. requests' = [q \in Slots |-> IF q = s THEN Free ELSE [requests[q] EXCEPT !.mine = FALSE]]
      BY <2>7 DEF Navigate, Gone
    <3>3. requests' \in [Slots -> RequestType] BY <1>12, <3>2, FreeType
    <3>4. \A q \in Slots : \/ requests'[q] = [requests[q] EXCEPT !.mine = FALSE]
                           \/ requests'[q] = Free /\ ~Open(q) /\ ~Handed(q)
      BY <3>1, <3>2
    <3> QED BY <2>7, <3>3, <3>4, LeaveInv DEF Navigate, Gone
  <2>8. CASE Lose(s) BY <2>8 DEF Lose, Quiet
  <2> QED BY <1>16, <2>3, <2>4, <2>5, <2>6, <2>7, <2>8 DEF Deliver
<1> QED BY <1>5, <1>6, <1>8, <1>10, <1>11, <1>13, <1>14, <1>15, <1>16 DEF Next

\* A course that has gone astray is never called anything else again.
LEMMA Counted == Next /\ course = "astray" => course' = "astray"
<1> SUFFICES ASSUME Next, course = "astray" PROVE course' = "astray" OBVIOUS
<1> USE DEF Asks, Polls, Clears
<1>1. CASE StartPlanning \/ RequestRerun BY <1>1 DEF StartPlanning, RequestRerun
<1>2. CASE RequestCancel \/ TimerPoll \/ EffectPoll
  BY <1>2 DEF RequestCancel, TimerPoll, EffectPoll, Poll
<1>3. CASE \/ Leave \/ StartOver \/ Reset
           \/ \E r \in Runs : Moves(r)
           \/ \E s \in Slots : Answer(s) \/ Deliver(s) \/ Lose(s)
  BY <1>3 DEF Leave, StartOver, Reset, Moves, Answer, Deliver, RunGiven, Refreshed, CancelAnswered,
              Navigate, Lose
<1> QED BY <1>1, <1>2, <1>3 DEF Next

LEMMA NextInv == Inv /\ [Next]_vars => Inv'
<1> SUFFICES ASSUME Inv, [Next]_vars PROVE Inv' OBVIOUS
<1>1. CASE UNCHANGED vars
  BY <1>1 DEF vars, page, Inv, Quiet, QuietInv, Types, InOrder, AboutNewest, AsksAlone,
              Follows, NoRunNoStatus, Newest, Busy, Open, Handed
<1>2. CASE Next
  <2>1. Quiet' => Quiet BY <1>2, Counted DEF Quiet
  <2> QED BY <1>2, <2>1, InvStep DEF Inv
<1> QED BY <1>1, <1>2

\* Inv holds throughout: what the page follows, and why.
THEOREM Invariant == Spec => []Inv
BY InitInv, NextInv, PTL DEF Spec

\* For any number of runs, requests and losses: the page and its storage follow the newest
\* run that was asked for, unless one was asked for beside another request or a request or
\* an answer was lost, and the storage forgets it only when the form is reset or left
\* (refreshRunState, startPlanning, requestRunRerun, submitTrip, resetForm).
THEOREM FollowsNewestHolds == Spec => []FollowsNewest
<1>1. Inv => FollowsNewest
  BY NotPressed DEF FollowsNewest, Inv, Quiet, QuietInv, Follows
<1> QED BY <1>1, Invariant, PTL
=============================================================================
