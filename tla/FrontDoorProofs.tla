--------------------------- MODULE FrontDoorProofs ---------------------------
(***************************************************************************)
(* Types of the way into the API, who becomes an admin, and the limit, for *)
(* any number of requests, clients and emails.                             *)
(*                                                                         *)
(* The argument for FirstOwns: whoever counts while the table is empty     *)
(* knows it; before the first commit everyone who has counted is a first,  *)
(* and two firsts cannot have counted one after the other's commit.        *)
(*                                                                         *)
(* For LimitHolds: until its minute is over the count of a bucket bounds   *)
(* what it let through (Ahead), since its key cannot expire before         *)
(* (KeysOutliveMinutes); a request counted later has stalled.  The first   *)
(* of a bucket is let through only after its expiry is set, so that room   *)
(* is kept for it (OnePending).                                            *)
(***************************************************************************)
EXTENDS FrontDoor, TLAPS

Waiting(q) == request[q].at = "create"
Created(q) == request[q].at = "created"

\* The accounts are those of the requests that created one.
RowsOfRequests == \A q \in Requests : q \in accounts <=> Created(q)

\* Until someone has committed, everyone who has counted found the table empty.
EmptyMeansFirst == accounts = {} => \A q \in Requests : Waiting(q) => request[q].first

SomeAdmin == accounts # {} => \E q \in Requests : Created(q) /\ request[q].first

\* Two who found the table empty were both at it at some time.
FirstsOverlap ==
    \A p, q \in Requests :
        /\ p # q /\ request[p].first /\ request[q].first
        /\ Waiting(p) \/ Created(p)
        /\ Waiting(q) \/ Created(q)
        => p \in overlapped \/ q \in overlapped

Inv == /\ TypeOK /\ RowsOfRequests /\ EmptyMeansFirst /\ SomeAdmin /\ FirstsOverlap
-----------------------------------------------------------------------------
\* A minute is a natural number, and the minutes up to the clock's bound have buckets.
LEMMA MinuteBucket ==
    ASSUME NEW t \in 0 .. MaxClock
    PROVE  Minute(t) \in 0 .. Minute(MaxClock)
<1> Ticks \in Nat \ {0} /\ MaxClock \in Nat BY Bounds
<1>1. t \div Ticks \in Nat /\ t \div Ticks <= MaxClock \div Ticks BY SMT
<1> QED BY <1>1 DEF Minute

LEMMA InitInv == Init => Inv
<1> SUFFICES ASSUME Init PROVE Inv OBVIOUS
<1> Ticks \in Nat \ {0} /\ MaxClock \in Nat /\ MaxFaults \in Nat BY Bounds
<1>1. 0 \in 0 .. Minute(MaxClock) BY MinuteBucket DEF Minute
<1>2. request \in [Requests -> Request]
  BY <1>1 DEF Init, Request, Steps, Buckets
<1>3. TypeOK
  <2>1. /\ clock = 0 /\ accounts = {} /\ stalled = FALSE /\ overlapped = {} /\ faults = 0
        /\ counters = [b \in Buckets |-> 0] /\ passed = [b \in Buckets |-> 0]
        /\ deadline = [b \in Buckets |-> -1]
    BY DEF Init, Never
  <2>2. clock \in 0 .. MaxClock BY <2>1
  <2>3. counters \in [Buckets -> Nat] /\ passed \in [Buckets -> Nat] BY <2>1
  <2>4. deadline \in [Buckets -> Int] BY <2>1
  <2> QED BY <1>2, <2>1, <2>2, <2>3, <2>4 DEF TypeOK
<1>4. \A q \in Requests : request[q].at = "new" BY DEF Init
<1> QED BY <1>3, <1>4 DEF Init, Inv, RowsOfRequests, EmptyMeansFirst, SomeAdmin, FirstsOverlap,
                         Waiting, Created

\* Every step keeps the types.
LEMMA TypeStep == ASSUME TypeOK, [Next]_vars PROVE TypeOK'
<1> Ticks \in Nat \ {0} /\ MaxClock \in Nat /\ MaxFaults \in Nat /\ Limit \in Nat BY Bounds
<1> USE DEF TypeOK
<1>1. CASE Tick BY <1>1 DEF Tick, history, Never
<1>2. ASSUME NEW q \in Requests, Arrive(q) PROVE TypeOK'
  <2>1. Minute(clock) \in 0 .. Minute(MaxClock) BY MinuteBucket
  <2>2. PICK at \in {"named", "refused"} :
          request' = [request EXCEPT ![q].at = at,
                                     ![q].bucket = <<request[q].bucket[1], Minute(clock)>>]
    BY <1>2 DEF Arrive
  <2>3. request[q].bucket[1] \in Clients BY DEF Request, Buckets
  <2>4. <<request[q].bucket[1], Minute(clock)>> \in Buckets BY <2>1, <2>3 DEF Buckets
  <2>5. at \in Steps BY DEF Steps
  <2> DEFINE new == [request[q] EXCEPT !.at = at,
                                       !.bucket = <<request[q].bucket[1], Minute(clock)>>]
  <2>6. request[q] \in Request OBVIOUS
  <2>7. new \in Request BY <2>4, <2>5, <2>6 DEF Request
  <2>8. request' = [request EXCEPT ![q] = new] BY <2>2
  <2> HIDE DEF new
  <2>9. request' \in [Requests -> Request] BY <2>7, <2>8
  <2> QED BY <1>2, <2>9 DEF Arrive, redis, history
<1>3. ASSUME NEW q \in Requests, NEW count \in Nat, Let(q, count)
      PROVE  passed' \in [Buckets -> Nat] /\ request' \in [Requests -> Request]
  <2>1. request[q].bucket \in Buckets BY DEF Request
  <2>2. Verdict(count) \in Steps BY DEF Verdict, Steps
  <2> QED BY <1>3, <2>1, <2>2 DEF Let, Request
<1>4. ASSUME NEW q \in Requests, Increment(q) PROVE TypeOK'
  <2> DEFINE bucket == request[q].bucket
             count == counters[bucket] + 1
  <2>1. bucket \in Buckets /\ count \in Nat BY DEF Request
  <2>2. counters' \in [Buckets -> Nat] BY <1>4, <2>1 DEF Increment
  <2>3. stalled' \in BOOLEAN BY <1>4 DEF Increment
  <2>4. CASE count = 1 BY <1>4, <2>1, <2>2, <2>3, <2>4 DEF Increment, Request, Steps
  <2>5. CASE count # 1
    <3>1. Let(q, count) BY <1>4, <2>5 DEF Increment
    <3> QED BY <1>3, <1>4, <2>1, <2>2, <2>3, <3>1 DEF Increment
  <2> QED BY <2>4, <2>5
<1>5. ASSUME NEW q \in Requests, Expire(q) PROVE TypeOK'
  <2>1. request[q].bucket \in Buckets BY DEF Request
  <2>2. deadline' \in [Buckets -> Int] BY <1>5, <2>1 DEF Expire, Lifetime
  <2>3. Let(q, 1) BY <1>5 DEF Expire
  <2> QED BY <1>3, <1>5, <2>2, <2>3 DEF Expire
<1>6. ASSUME NEW q \in Requests, RedisFails(q) PROVE TypeOK'
  <2>1. request[q].bucket \in Buckets BY DEF Request
  <2> QED BY <1>6, <2>1 DEF RedisFails, redis, Request, Steps
<1>7. ASSUME NEW q \in Requests, HandleOther(q) \/ Refuse(q) \/ LookUp(q) PROVE TypeOK'
  BY <1>7 DEF HandleOther, Refuse, LookUp, redis, history, Request, Steps
<1>8. ASSUME NEW q \in Requests, CountUsers(q) PROVE TypeOK'
  <2>1. NoUsers \in BOOLEAN BY DEF NoUsers
  <2>2. request' \in [Requests -> Request] BY <1>8, <2>1 DEF CountUsers, Request, Steps
  <2> QED BY <1>8, <2>2 DEF CountUsers, redis
<1>9. ASSUME NEW q \in Requests, CreateUser(q) PROVE TypeOK'
  BY <1>9 DEF CreateUser, redis, history, Request, Steps
<1>10. CASE UNCHANGED vars BY <1>10 DEF vars, redis, history
<1> QED BY <1>1, <1>2, <1>4, <1>5, <1>6, <1>7, <1>8, <1>9, <1>10 DEF Next, Middleware, Handler

\* A step that neither counts nor creates leaves those who did where they are.
LEMMA QuietStep ==
    ASSUME TypeOK, NEW q \in Requests, ~Waiting(q), ~Created(q),
           NEW at \in Steps \ {"create", "created"}, request'[q].at = at,
           \A p \in Requests \ {q} : request'[p] = request[p],
           UNCHANGED <<accounts, overlapped>>,
           RowsOfRequests, EmptyMeansFirst, SomeAdmin, FirstsOverlap
    PROVE  (RowsOfRequests /\ EmptyMeansFirst /\ SomeAdmin /\ FirstsOverlap)'
<1>1. ~Waiting(q)' /\ ~Created(q)' BY DEF Waiting, Created
<1>2. \A p \in Requests \ {q} : /\ Waiting(p)' = Waiting(p) /\ Created(p)' = Created(p)
                               /\ request'[p].first = request[p].first
  BY DEF Waiting, Created
<1>3. RowsOfRequests' BY <1>1, <1>2 DEF RowsOfRequests
<1>4. EmptyMeansFirst' BY <1>1, <1>2 DEF EmptyMeansFirst
<1>5. SomeAdmin' BY <1>1, <1>2 DEF SomeAdmin
<1>6. FirstsOverlap' BY <1>1, <1>2 DEF FirstsOverlap
<1> QED BY <1>3, <1>4, <1>5, <1>6

LEMMA InvStep == ASSUME Inv, [Next]_vars PROVE Inv'
<1>1. TypeOK /\ RowsOfRequests /\ EmptyMeansFirst /\ SomeAdmin /\ FirstsOverlap BY DEF Inv
<1>2. TypeOK' BY <1>1, TypeStep
<1>3. request \in [Requests -> Request] BY <1>1 DEF TypeOK
<1> DEFINE Rest == RowsOfRequests /\ EmptyMeansFirst /\ SomeAdmin /\ FirstsOverlap
<1>4. ASSUME NEW q \in Requests, Arrive(q) PROVE Rest'
  <2>1. PICK at \in {"named", "refused"} :
          request' = [request EXCEPT ![q].at = at,
                                     ![q].bucket = <<request[q].bucket[1], Minute(clock)>>]
    BY <1>4 DEF Arrive
  <2>2. request'[q].at = at /\ \A p \in Requests \ {q} : request'[p] = request[p]
    BY <1>3, <2>1 DEF Request
  <2>3. at \in Steps \ {"create", "created"} BY DEF Steps
  <2>4. ~Waiting(q) /\ ~Created(q) BY <1>4 DEF Arrive, Waiting, Created
  <2> QED BY <1>1, <1>4, <2>2, <2>3, <2>4, QuietStep DEF Arrive, history
<1>5. ASSUME NEW q \in Requests, Increment(q) \/ Expire(q) \/ RedisFails(q) PROVE Rest'
  <2>1. PICK at \in {"expire", "admitted", "refused"} : request' = [request EXCEPT ![q].at = at]
    BY <1>5 DEF Increment, Expire, RedisFails, Let, Verdict
  <2>2. request'[q].at = at /\ \A p \in Requests \ {q} : request'[p] = request[p]
    BY <1>3, <2>1 DEF Request
  <2>3. at \in Steps \ {"create", "created"} BY DEF Steps
  <2>4. ~Waiting(q) /\ ~Created(q)
    BY <1>5 DEF Increment, Expire, RedisFails, Waiting, Created
  <2>5. UNCHANGED <<accounts, overlapped>> BY <1>5 DEF Increment, Expire, RedisFails, Let
  <2> QED BY <1>1, <2>2, <2>3, <2>4, <2>5, QuietStep
<1>6. ASSUME NEW q \in Requests, HandleOther(q) \/ Refuse(q) \/ LookUp(q) PROVE Rest'
  <2>1. PICK at \in {"done", "refused", "count"} : request' = [request EXCEPT ![q].at = at]
    BY <1>6 DEF HandleOther, Refuse, LookUp
  <2>2. request'[q].at = at /\ \A p \in Requests \ {q} : request'[p] = request[p]
    BY <1>3, <2>1 DEF Request
  <2>3. at \in Steps \ {"create", "created"} BY DEF Steps
  <2>4. ~Waiting(q) /\ ~Created(q) BY <1>6 DEF HandleOther, Refuse, LookUp, Waiting, Created
  <2>5. UNCHANGED <<accounts, overlapped>> BY <1>6 DEF HandleOther, Refuse, LookUp, history
  <2> QED BY <1>1, <2>2, <2>3, <2>4, <2>5, QuietStep
<1>7. ASSUME NEW q \in Requests, CountUsers(q) PROVE Rest'
  <2>1. /\ request[q].at = "count" /\ request'[q].at = "create"
        /\ request'[q].first <=> accounts = {}
        /\ \A p \in Requests \ {q} : request'[p] = request[p]
        /\ accounts' = accounts
    BY <1>3, <1>7 DEF CountUsers, NoUsers, Request
  <2>2. /\ overlapped \subseteq overlapped'
        /\ \A p \in Requests : Waiting(p) => q \in overlapped'
    BY <1>7 DEF CountUsers, Counted, Waiting
  <2>3. ~Waiting(q) /\ ~Created(q) /\ Waiting(q)' /\ ~Created(q)'
    BY <2>1 DEF Waiting, Created
  <2>4. \A p \in Requests \ {q} : /\ Waiting(p)' = Waiting(p) /\ Created(p)' = Created(p)
                                 /\ request'[p].first = request[p].first
    BY <2>1 DEF Waiting, Created
  <2>5. RowsOfRequests' BY <1>1, <2>1, <2>3, <2>4 DEF RowsOfRequests
  <2>6. EmptyMeansFirst' BY <1>1, <2>1, <2>3, <2>4 DEF EmptyMeansFirst
  <2>7. SomeAdmin' BY <1>1, <2>1, <2>3, <2>4 DEF SomeAdmin
  <2>8. ASSUME NEW p \in Requests \ {q}, request'[q].first, Waiting(p)' \/ Created(p)'
        PROVE  q \in overlapped'
    <3>1. ~Created(p) BY <1>1, <2>1, <2>8 DEF RowsOfRequests
    <3> QED BY <2>2, <2>4, <2>8, <3>1
  <2>9. FirstsOverlap' BY <1>1, <2>2, <2>4, <2>8 DEF FirstsOverlap
  <2> QED BY <2>5, <2>6, <2>7, <2>9
<1>8. ASSUME NEW q \in Requests, CreateUser(q) PROVE Rest'
  <2>1. /\ request[q].at = "create" /\ request'[q].first = request[q].first
        /\ \A p \in Requests \ {q} : request'[p] = request[p]
        /\ overlapped' = overlapped
    BY <1>3, <1>8 DEF CreateUser, history, Request
  <2>2. \/ request'[q].at = "refused" /\ accounts' = accounts
        \/ request'[q].at = "created" /\ accounts' = accounts \cup {q}
    BY <1>3, <1>8 DEF CreateUser, Request
  <2>3. \A p \in Requests \ {q} : /\ Waiting(p)' = Waiting(p) /\ Created(p)' = Created(p)
                                 /\ request'[p].first = request[p].first
    BY <2>1 DEF Waiting, Created
  <2>4. Waiting(q) /\ ~Created(q) /\ ~Waiting(q)' BY <2>1, <2>2 DEF Waiting, Created
  <2>5. Created(q)' => accounts' = accounts \cup {q} BY <2>2 DEF Created
  <2>6. ~Created(q)' => accounts' = accounts BY <2>2 DEF Created
  <2>7. RowsOfRequests' BY <1>1, <2>3, <2>4, <2>5, <2>6 DEF RowsOfRequests
  <2>8. EmptyMeansFirst' BY <1>1, <2>3, <2>4, <2>5, <2>6 DEF EmptyMeansFirst
  <2>9. SomeAdmin'
    <3>1. CASE accounts # {} BY <1>1, <2>3, <2>4, <3>1 DEF SomeAdmin
    <3>2. CASE accounts = {}
      <4>1. request'[q].first BY <1>1, <2>1, <2>4, <3>2 DEF EmptyMeansFirst
      <4> QED BY <2>5, <2>6, <3>2, <4>1 DEF SomeAdmin
    <3> QED BY <3>1, <3>2
  <2>10. FirstsOverlap' BY <1>1, <2>1, <2>3, <2>4 DEF FirstsOverlap
  <2> QED BY <2>7, <2>8, <2>9, <2>10
<1>9. ASSUME Tick PROVE Rest'
  BY <1>1, <1>9 DEF Tick, history, RowsOfRequests, EmptyMeansFirst, SomeAdmin, FirstsOverlap,
                    Waiting, Created
<1>10. ASSUME UNCHANGED vars PROVE Rest'
  BY <1>1, <1>10 DEF vars, history, RowsOfRequests, EmptyMeansFirst, SomeAdmin, FirstsOverlap,
                     Waiting, Created
<1>11. Rest' BY <1>4, <1>5, <1>6, <1>7, <1>8, <1>9, <1>10 DEF Next, Middleware, Handler
<1> QED BY <1>2, <1>11 DEF Inv

\* The inductive invariant of the way into the API.
THEOREM Invariant == Spec => []Inv
<1>1. Init => Inv BY InitInv
<1>2. Inv /\ [Next]_vars => Inv' BY InvStep
<1> QED BY <1>1, <1>2, PTL DEF Spec

\* Every variable of FrontDoor keeps its type.
THEOREM TypeOKHolds == Spec => []TypeOK
<1>1. Inv => TypeOK BY DEF Inv
<1> QED BY <1>1, Invariant, PTL

\* AuthService.register: the first account is an admin, and of two admins one counted the
\* users beside another registration.
THEOREM FirstOwnsHolds == Spec => []FirstOwns
<1>1. ASSUME Inv PROVE FirstOwns
  <2>1. RowsOfRequests /\ SomeAdmin /\ FirstsOverlap /\ accounts \subseteq Requests
    BY <1>1 DEF Inv, TypeOK
  <2>2. accounts # {} => Admins # {} BY <2>1 DEF SomeAdmin, RowsOfRequests, Admins
  <2>3. \A p \in Admins : p \in Requests /\ Created(p) /\ request[p].first
    BY <2>1 DEF RowsOfRequests, Admins
  <2> QED BY <2>1, <2>2, <2>3 DEF FirstsOverlap, FirstOwns
<1> QED BY <1>1, Invariant, PTL
-----------------------------------------------------------------------------
(* The limit. *)

Pending(q) == request[q].at = "expire"

\* A request carries the bucket of a minute that has begun.
BucketsBegun ==
    \A q \in Requests : request[q].bucket \in Buckets /\ request[q].bucket[2] <= Minute(clock)

\* A key outlives the minute it counts.
KeysOutliveMinutes == \A b \in Buckets : 
    deadline[b] # Never => deadline[b] \in Nat /\ Minute(deadline[b]) > b[2]

\* Until its minute is over, a bucket counts those it let through, and the one that has
\* been counted first and not yet let through.
Ahead ==
    \A b \in Buckets : b[2] >= Minute(clock) =>
        /\ passed[b] <= counters[b]
        /\ \A q \in Requests : Pending(q) /\ request[q].bucket = b => passed[b] < counters[b]

\* There is one such request of a bucket, and room for it.
OnePending ==
    \A q \in Requests : Pending(q) =>
        /\ Limit = 0 \/ passed[request[q].bucket] < Limit
        /\ \A p \in Requests \ {q} : Pending(p) => request[p].bucket # request[q].bucket

Undisturbed == faults = 0 /\ ~stalled
Counting == Undisturbed => Ahead /\ OnePending /\ \A b \in Buckets : passed[b] <= Limit

LimitInv == TypeOK /\ BucketsBegun /\ KeysOutliveMinutes /\ Counting

LEMMA MinuteGrows ==
    ASSUME NEW s \in Nat, NEW t \in Nat, s <= t
    PROVE  Minute(s) \in Nat /\ Minute(t) \in Nat /\ Minute(s) <= Minute(t)
<1> Ticks \in Nat \ {0} BY Bounds
<1> QED BY SMT DEF Minute

LEMMA NextMinute ==
    ASSUME NEW t \in Nat
    PROVE  Minute(t + Ticks) = Minute(t) + 1
<1> Ticks \in Nat \ {0} BY Bounds
<1> QED BY SMT DEF Minute

LEMMA BucketTypes == ASSUME NEW b \in Buckets PROVE b[2] \in Nat
<1> MaxClock \in Nat BY Bounds
<1> Minute(MaxClock) \in Nat BY MinuteGrows
<1> QED BY DEF Buckets

\* A step after which a request waits for nothing at the limiter, and no counter has moved.
LEMMA NothingCounted ==
    ASSUME TypeOK, BucketsBegun, Counting, Minute(clock)' = Minute(clock),
           UNCHANGED <<counters, passed, stalled, faults>>,
           \A p \in Requests : Pending(p)' => Pending(p) /\ request'[p] = request[p]
    PROVE  Counting'
<1> SUFFICES ASSUME Undisturbed' PROVE Ahead' /\ OnePending' /\ \A b \in Buckets : passed'[b] <= Limit
  BY DEF Counting
<1>1. Ahead /\ OnePending /\ \A b \in Buckets : passed[b] <= Limit BY DEF Counting, Undisturbed
<1>2. Ahead' BY <1>1 DEF Ahead
<1>3. OnePending' BY <1>1 DEF OnePending
<1> QED BY <1>1, <1>2, <1>3

LEMMA LimitInit == Init => LimitInv
<1> SUFFICES ASSUME Init PROVE LimitInv OBVIOUS
<1> Ticks \in Nat \ {0} /\ MaxClock \in Nat /\ Limit \in Nat BY Bounds
<1>1. TypeOK BY InitInv DEF Inv
<1>2. /\ clock = 0 /\ counters = [b \in Buckets |-> 0] /\ passed = [b \in Buckets |-> 0]
      /\ deadline = [b \in Buckets |-> Never]
      /\ \A q \in Requests : request[q].at = "new" /\ request[q].bucket[2] = 0
  BY DEF Init
<1>3. Minute(0) \in Nat BY MinuteGrows
<1>4. BucketsBegun BY <1>1, <1>2, <1>3 DEF BucketsBegun, TypeOK, Request
<1>5. KeysOutliveMinutes BY <1>2 DEF KeysOutliveMinutes
<1>6. Counting BY <1>2 DEF Counting, Ahead, OnePending, Pending
<1> QED BY <1>1, <1>4, <1>5, <1>6 DEF LimitInv

\* Time passes: no key goes before its minute is over.
LEMMA LimitTick == ASSUME LimitInv, Tick PROVE LimitInv'
<1> Ticks \in Nat \ {0} /\ MaxClock \in Nat /\ Limit \in Nat BY Bounds
<1>1. TypeOK /\ BucketsBegun /\ KeysOutliveMinutes /\ Counting BY DEF LimitInv
<1>2. clock \in Nat /\ clock' = clock + 1 BY <1>1 DEF TypeOK, Tick
<1>3. Minute(clock) \in Nat /\ Minute(clock)' \in Nat /\ Minute(clock) <= Minute(clock)'
  BY <1>2, MinuteGrows DEF Minute
<1>4. TypeOK' BY <1>1, TypeStep DEF Next
<1>5. BucketsBegun'
  <2>1. ASSUME NEW b \in Buckets PROVE b[2] \in Nat
    <3>1. Minute(MaxClock) \in Nat BY MinuteGrows
    <3> QED BY <2>1, <3>1 DEF Buckets
  <2> QED BY <1>1, <1>3, <2>1 DEF BucketsBegun, Tick
<1> DEFINE gone == {b \in Buckets : deadline[b] # Never /\ deadline[b] < clock'}
<1>6. /\ counters' = [b \in Buckets |-> IF b \in gone THEN 0 ELSE counters[b]]
      /\ deadline' = [b \in Buckets |-> IF b \in gone THEN Never ELSE deadline[b]]
      /\ UNCHANGED <<request, passed, stalled, faults>>
  BY DEF Tick, history
<1>7. KeysOutliveMinutes' BY <1>1, <1>6 DEF KeysOutliveMinutes
<1>8. ASSUME NEW b \in Buckets, b[2] >= Minute(clock)'
      PROVE  b[2] >= Minute(clock) /\ counters'[b] = counters[b]
  <2>1. b[2] \in Nat BY BucketTypes
  <2>2. b \notin gone
    <3> SUFFICES ASSUME deadline[b] # Never, deadline[b] < clock' PROVE FALSE OBVIOUS
    <3>1. deadline[b] \in Nat /\ Minute(deadline[b]) > b[2] BY <1>1 DEF KeysOutliveMinutes
    <3>2. /\ Minute(deadline[b]) \in Nat /\ Minute(clock') \in Nat
          /\ Minute(deadline[b]) <= Minute(clock')
      BY <1>2, <3>1, MinuteGrows
    <3>3. Minute(clock)' = Minute(clock') BY DEF Minute
    <3> QED BY <1>8, <2>1, <3>1, <3>2, <3>3
  <2> QED BY <1>3, <1>6, <1>8, <2>1, <2>2
<1>9. Counting'
  <2> SUFFICES ASSUME Undisturbed'
               PROVE  Ahead' /\ OnePending' /\ \A b \in Buckets : passed'[b] <= Limit
    BY DEF Counting
  <2>1. Ahead /\ OnePending /\ \A b \in Buckets : passed[b] <= Limit
    BY <1>1, <1>6 DEF Counting, Undisturbed
  <2>2. Ahead' BY <1>6, <1>8, <2>1 DEF Ahead, Pending
  <2>3. OnePending' BY <1>6, <2>1 DEF OnePending, Pending
  <2> QED BY <1>6, <2>1, <2>2, <2>3
<1> QED BY <1>4, <1>5, <1>7, <1>9 DEF LimitInv

LEMMA LimitArrive == ASSUME LimitInv, NEW q \in Requests, Arrive(q) PROVE LimitInv'
<1>1. TypeOK /\ BucketsBegun /\ KeysOutliveMinutes /\ Counting BY DEF LimitInv
<1>2. request \in [Requests -> Request] /\ clock \in 0 .. MaxClock BY <1>1 DEF TypeOK
<1>3. MaxClock \in Nat BY Bounds
<1>4. TypeOK' BY <1>1, TypeStep DEF Next, Middleware
<1>5. PICK at \in {"named", "refused"} :
        request' = [request EXCEPT ![q].at = at,
                                   ![q].bucket = <<request[q].bucket[1], Minute(clock)>>]
  BY DEF Arrive
<1>6. /\ request'[q].at = at /\ request'[q].bucket[2] = Minute(clock)
      /\ \A p \in Requests \ {q} : request'[p] = request[p]
  BY <1>2, <1>5 DEF Request
<1>7. UNCHANGED <<clock, counters, deadline, passed, stalled, faults>>
  BY DEF Arrive, redis, history
<1>8. Minute(clock) \in Nat BY <1>2, <1>3, MinuteGrows
<1>9. request' \in [Requests -> Request] BY <1>4 DEF TypeOK
<1>10. BucketsBegun' BY <1>1, <1>6, <1>7, <1>8, <1>9 DEF BucketsBegun, Request, Minute
<1>11. KeysOutliveMinutes' BY <1>1, <1>7 DEF KeysOutliveMinutes
<1>12. Minute(clock)' = Minute(clock) BY <1>7 DEF Minute
<1>13. \A p \in Requests : Pending(p)' => Pending(p) /\ request'[p] = request[p]
  BY <1>6 DEF Pending
<1>14. Counting' BY <1>1, <1>7, <1>12, <1>13, NothingCounted
<1> QED BY <1>4, <1>10, <1>11, <1>14 DEF LimitInv

\* A step of a request that neither counts nor is late.
LEMMA LimitQuiet ==
    ASSUME LimitInv, TypeOK', NEW q \in Requests, NEW at \in Steps \ {"expire"},
           request'[q].at = at, request'[q].bucket = request[q].bucket,
           \A p \in Requests \ {q} : request'[p] = request[p],
           UNCHANGED <<clock, counters, deadline>>,
           ~Undisturbed' \/ UNCHANGED <<passed, stalled, faults>>
    PROVE  LimitInv'
<1>1. TypeOK /\ BucketsBegun /\ KeysOutliveMinutes /\ Counting BY DEF LimitInv
<1>2. Minute(clock)' = Minute(clock) BY DEF Minute
<1>3. BucketsBegun' BY <1>1, <1>2 DEF BucketsBegun
<1>4. KeysOutliveMinutes' BY <1>1 DEF KeysOutliveMinutes
<1>5. \A p \in Requests : Pending(p)' => Pending(p) /\ request'[p] = request[p] BY DEF Pending
<1>6. Counting'
  <2>1. CASE ~Undisturbed' BY <2>1 DEF Counting
  <2>2. CASE UNCHANGED <<passed, stalled, faults>>
    BY <1>1, <1>2, <1>5, <2>2, NothingCounted
  <2> QED BY <2>1, <2>2
<1> QED BY <1>3, <1>4, <1>6 DEF LimitInv

\* A request is counted: the first of its bucket waits for the expiry to be set.
LEMMA LimitIncrement == ASSUME LimitInv, NEW q \in Requests, Increment(q) PROVE LimitInv'
<1> Limit \in Nat BY Bounds
<1> DEFINE bucket == request[q].bucket
           count == counters[bucket] + 1
<1>1. TypeOK /\ BucketsBegun /\ KeysOutliveMinutes /\ Counting BY DEF LimitInv
<1>2. /\ request \in [Requests -> Request] /\ counters \in [Buckets -> Nat]
      /\ passed \in [Buckets -> Nat] /\ bucket \in Buckets
  BY <1>1 DEF TypeOK, BucketsBegun
<1>3. TypeOK' BY <1>1, TypeStep DEF Next, Middleware
<1>4. /\ request[q].at = "named" /\ counters' = [counters EXCEPT ![bucket] = count]
      /\ stalled' = (stalled \/ bucket[2] # Minute(clock))
      /\ UNCHANGED <<clock, deadline, faults>>
  BY DEF Increment
<1>5. PICK at \in {"expire", "admitted", "refused"} : request' = [request EXCEPT ![q].at = at]
  BY DEF Increment, Let, Verdict
<1>6. /\ request'[q].at = at /\ request'[q].bucket = bucket
      /\ \A p \in Requests \ {q} : request'[p] = request[p]
  BY <1>2, <1>5 DEF Request
<1>7. Minute(clock)' = Minute(clock) BY <1>4 DEF Minute
<1>8. BucketsBegun' BY <1>1, <1>6, <1>7 DEF BucketsBegun
<1>9. KeysOutliveMinutes' BY <1>1, <1>4 DEF KeysOutliveMinutes
<1>10. Counting'
  <2> SUFFICES ASSUME Undisturbed'
               PROVE  Ahead' /\ OnePending' /\ \A b \in Buckets : passed'[b] <= Limit
    BY DEF Counting
  <2>1. Ahead /\ OnePending /\ \A b \in Buckets : passed[b] <= Limit
    BY <1>1, <1>4 DEF Counting, Undisturbed
  <2>2. bucket[2] = Minute(clock) BY <1>4 DEF Undisturbed
  <2>3. Minute(clock) \in Nat BY <1>2, <2>2, BucketTypes
  <2>4. /\ passed[bucket] <= counters[bucket] /\ counters[bucket] \in Nat /\ passed[bucket] \in Nat
        /\ \A p \in Requests : Pending(p) /\ request[p].bucket = bucket =>
               passed[bucket] < counters[bucket]
    BY <1>2, <2>1, <2>2, <2>3 DEF Ahead
  <2>5. counters'[bucket] = count /\ \A b \in Buckets \ {bucket} : counters'[b] = counters[b]
    BY <1>2, <1>4
  <2>6. \A p \in Requests \ {q} : /\ Pending(p)' <=> Pending(p)
                                 /\ request'[p].bucket = request[p].bucket
    BY <1>6 DEF Pending
  <2>7. CASE count = 1
    <3>1. UNCHANGED passed BY <2>7 DEF Increment
    <3>2. counters[bucket] = 0 /\ passed[bucket] = 0 BY <2>4, <2>7
    <3>3. \A p \in Requests : Pending(p) => request[p].bucket # bucket BY <2>4, <3>2
    <3>4. Ahead'
      <4> SUFFICES ASSUME NEW b \in Buckets, b[2] >= Minute(clock)
                   PROVE  /\ passed'[b] <= counters'[b]
                          /\ \A p \in Requests : Pending(p)' /\ request'[p].bucket = b =>
                                 passed'[b] < counters'[b]
        BY <1>7 DEF Ahead
      <4>1. CASE b = bucket BY <2>5, <2>7, <3>1, <3>2, <4>1
      <4>2. CASE b # bucket BY <1>6, <2>1, <2>5, <2>6, <3>1, <4>2 DEF Ahead
      <4> QED BY <4>1, <4>2
    <3>5. OnePending'
      <4> SUFFICES ASSUME NEW p \in Requests, Pending(p)'
                   PROVE  /\ Limit = 0 \/ passed'[request'[p].bucket] < Limit
                          /\ \A r \in Requests \ {p} :
                                 Pending(r)' => request'[r].bucket # request'[p].bucket
        BY DEF OnePending
      <4>1. CASE p = q BY <1>6, <2>6, <3>1, <3>2, <3>3, <4>1
      <4>2. CASE p # q BY <1>6, <2>1, <2>6, <3>1, <3>3, <4>2 DEF OnePending
      <4> QED BY <4>1, <4>2
    <3> QED BY <2>1, <3>1, <3>4, <3>5
  <2>8. CASE count # 1
    <3>1. Let(q, count) BY <2>8 DEF Increment
    <3>2. /\ \A b \in Buckets \ {bucket} : passed'[b] = passed[b]
          /\ passed'[bucket] = (IF count > Limit THEN passed[bucket] ELSE passed[bucket] + 1)
      BY <1>2, <3>1 DEF Let, Verdict
    <3>3. ~Pending(q)'
      BY <1>2, <3>1 DEF Let, Verdict, Pending, Request
    <3>4. Ahead'
      <4> SUFFICES ASSUME NEW b \in Buckets, b[2] >= Minute(clock)
                   PROVE  /\ passed'[b] <= counters'[b]
                          /\ \A p \in Requests : Pending(p)' /\ request'[p].bucket = b =>
                                 passed'[b] < counters'[b]
        BY <1>7 DEF Ahead
      <4>1. CASE b = bucket BY <2>4, <2>5, <2>6, <3>2, <3>3, <4>1
      <4>2. CASE b # bucket BY <2>1, <2>5, <2>6, <3>2, <3>3, <4>2 DEF Ahead
      <4> QED BY <4>1, <4>2
    <3>5. OnePending'
      <4> SUFFICES ASSUME NEW p \in Requests \ {q}, Pending(p)
                   PROVE  /\ Limit = 0 \/ passed'[request[p].bucket] < Limit
                          /\ \A r \in Requests \ {p} :
                                 Pending(r)' => request'[r].bucket # request[p].bucket
        BY <2>6, <3>3 DEF OnePending
      <4>1. request[p].bucket \in Buckets BY <1>1 DEF BucketsBegun
      <4>2. Limit = 0 \/ passed'[request[p].bucket] < Limit
        <5>1. CASE request[p].bucket = bucket
          <6>1. passed[bucket] < counters[bucket] BY <2>4, <5>1
          <6> QED BY <2>1, <2>4, <3>2, <5>1, <6>1 DEF OnePending
        <5>2. CASE request[p].bucket # bucket BY <2>1, <3>2, <4>1, <5>2 DEF OnePending
        <5> QED BY <5>1, <5>2
      <4> QED BY <2>1, <2>6, <3>3, <4>2 DEF OnePending
    <3>6. \A b \in Buckets : passed'[b] <= Limit BY <2>1, <2>4, <3>2
    <3> QED BY <3>4, <3>5, <3>6
  <2> QED BY <2>7, <2>8
<1> QED BY <1>3, <1>8, <1>9, <1>10 DEF LimitInv

\* The expiry is set: the key will outlive the minute it counts, and the one that was
\* pending takes the room that was kept for it.
LEMMA LimitExpire == ASSUME LimitInv, NEW q \in Requests, Expire(q) PROVE LimitInv'
<1> Limit \in Nat /\ Ticks \in Nat \ {0} /\ MaxClock \in Nat BY Bounds
<1> DEFINE bucket == request[q].bucket
<1>1. TypeOK /\ BucketsBegun /\ KeysOutliveMinutes /\ Counting BY DEF LimitInv
<1>2. /\ request \in [Requests -> Request] /\ deadline \in [Buckets -> Int]
      /\ passed \in [Buckets -> Nat] /\ counters \in [Buckets -> Nat] /\ bucket \in Buckets
      /\ clock \in Nat
  BY <1>1 DEF TypeOK, BucketsBegun
<1>3. TypeOK' BY <1>1, TypeStep DEF Next, Middleware
<1>4. /\ request[q].at = "expire" /\ Let(q, 1)
      /\ deadline' = [deadline EXCEPT ![bucket] = IF counters[bucket] = 0 THEN @ ELSE clock + Ticks]
      /\ UNCHANGED <<clock, counters, stalled, faults>>
  BY DEF Expire, Lifetime
<1>5. /\ request'[q].at = Verdict(1) /\ request'[q].bucket = bucket
      /\ \A p \in Requests \ {q} : request'[p] = request[p]
  BY <1>2, <1>4 DEF Let, Request
<1>6. Minute(clock)' = Minute(clock) BY <1>4 DEF Minute
<1>7. BucketsBegun' BY <1>1, <1>5, <1>6 DEF BucketsBegun
<1>8. KeysOutliveMinutes'
  <2>1. Minute(clock + Ticks) = Minute(clock) + 1 /\ Minute(clock) \in Nat
    BY <1>2, NextMinute, MinuteGrows
  <2>2. bucket[2] \in Nat /\ bucket[2] <= Minute(clock) BY <1>1, <1>2, BucketTypes DEF BucketsBegun
  <2>3. Minute(clock + Ticks) > bucket[2] /\ clock + Ticks \in Nat BY <1>2, <2>1, <2>2
  <2> QED BY <1>1, <1>2, <1>4, <2>3 DEF KeysOutliveMinutes
<1>9. Counting'
  <2> SUFFICES ASSUME Undisturbed'
               PROVE  Ahead' /\ OnePending' /\ \A b \in Buckets : passed'[b] <= Limit
    BY DEF Counting
  <2>1. Ahead /\ OnePending /\ \A b \in Buckets : passed[b] <= Limit
    BY <1>1, <1>4 DEF Counting, Undisturbed
  <2>2. /\ \A b \in Buckets \ {bucket} : passed'[b] = passed[b]
        /\ passed'[bucket] = (IF 1 > Limit THEN passed[bucket] ELSE passed[bucket] + 1)
    BY <1>2, <1>4 DEF Let, Verdict
  <2>3. ~Pending(q)' /\ \A p \in Requests \ {q} : Pending(p)' <=> Pending(p)
    BY <1>5 DEF Pending, Verdict
  <2>4. /\ Pending(q) /\ (Limit = 0 \/ passed[bucket] < Limit) /\ passed[bucket] \in Nat
        /\ \A p \in Requests \ {q} : Pending(p) => request[p].bucket # bucket
    BY <1>2, <1>4, <2>1 DEF OnePending, Pending
  <2>5. Ahead'
    <3> SUFFICES ASSUME NEW b \in Buckets, b[2] >= Minute(clock)
                 PROVE  /\ passed'[b] <= counters[b]
                        /\ \A p \in Requests : Pending(p)' /\ request'[p].bucket = b =>
                               passed'[b] < counters[b]
      BY <1>4, <1>6 DEF Ahead
    <3>1. CASE b = bucket
      <4>1. passed[bucket] < counters[bucket] BY <2>1, <2>4, <3>1 DEF Ahead
      <4>2. counters[bucket] \in Nat BY <1>2
      <4>3. passed'[bucket] <= counters[bucket] BY <2>2, <2>4, <4>1, <4>2
      <4>4. \A p \in Requests : Pending(p)' => request'[p].bucket # bucket
        BY <1>5, <2>3, <2>4
      <4> QED BY <3>1, <4>3, <4>4
    <3>2. CASE b # bucket BY <1>5, <2>1, <2>2, <2>3, <3>2 DEF Ahead
    <3> QED BY <3>1, <3>2
  <2>6. OnePending'
    <3>1. \A p \in Requests : request[p].bucket \in Buckets BY <1>1 DEF BucketsBegun
    <3> QED BY <1>5, <2>1, <2>2, <2>3, <2>4, <3>1 DEF OnePending
  <2>7. \A b \in Buckets : passed'[b] <= Limit BY <2>1, <2>2, <2>4
  <2> QED BY <2>5, <2>6, <2>7
<1> QED BY <1>3, <1>7, <1>8, <1>9 DEF LimitInv

LEMMA LimitStep == ASSUME LimitInv, [Next]_vars PROVE LimitInv'
<1>1. TypeOK /\ BucketsBegun /\ KeysOutliveMinutes /\ Counting BY DEF LimitInv
<1>2. TypeOK' BY <1>1, TypeStep
<1>3. request \in [Requests -> Request] BY <1>1 DEF TypeOK
<1>4. ASSUME NEW q \in Requests, RedisFails(q) PROVE LimitInv'
  <2>1. request' = [request EXCEPT ![q].at = "admitted"] BY <1>4 DEF RedisFails
  <2>2. /\ request'[q].at = "admitted" /\ request'[q].bucket = request[q].bucket
        /\ \A p \in Requests \ {q} : request'[p] = request[p]
    BY <1>3, <2>1 DEF Request
  <2>3. ~Undisturbed'
    <3>1. faults \in Nat BY <1>1 DEF TypeOK
    <3> QED BY <1>4, <3>1 DEF RedisFails, Undisturbed
  <2>4. UNCHANGED <<clock, counters, deadline>> BY <1>4 DEF RedisFails, redis
  <2>5. "admitted" \in Steps \ {"expire"} BY DEF Steps
  <2> QED BY <1>2, <2>2, <2>3, <2>4, <2>5, LimitQuiet
<1>5. ASSUME NEW q \in Requests, Handler(q) PROVE LimitInv'
  <2>1. PICK at \in {"done", "refused", "count", "create", "created"} :
          /\ request'[q].at = at /\ request'[q].bucket = request[q].bucket
          /\ \A p \in Requests \ {q} : request'[p] = request[p]
    BY <1>3, <1>5 DEF Handler, HandleOther, Refuse, LookUp, CountUsers, CreateUser, Request
  <2>2. UNCHANGED <<clock, counters, deadline, passed, stalled, faults>>
    BY <1>5 DEF Handler, HandleOther, Refuse, LookUp, CountUsers, CreateUser, redis, history
  <2>3. at \in Steps \ {"expire"} BY DEF Steps
  <2> QED BY <1>2, <2>1, <2>2, <2>3, LimitQuiet
<1>6. CASE UNCHANGED vars
  <2>1. UNCHANGED <<clock, counters, deadline, request, passed, stalled, faults>>
    BY <1>6 DEF vars, redis, history
  <2> QED BY <1>1, <1>2, <2>1 DEF LimitInv, BucketsBegun, KeysOutliveMinutes, Counting, Ahead,
          OnePending, Undisturbed, Pending, Minute
<1> QED BY <1>4, <1>5, <1>6, LimitTick, LimitArrive, LimitIncrement, LimitExpire
        DEF Next, Middleware

\* RedisRateLimiter.check: for any limit, any number of clients and requests and however
\* they meet, no more than the limit of a client's requests is let through in a minute,
\* unless a call of Redis failed or took until the next minute.
THEOREM LimitHoldsHolds == Spec => []LimitHolds
<1>1. Init => LimitInv BY LimitInit
<1>2. LimitInv /\ [Next]_vars => LimitInv' BY LimitStep
<1>3. LimitInv => LimitHolds BY DEF LimitInv, Counting, Undisturbed, LimitHolds
<1> QED BY <1>1, <1>2, <1>3, PTL DEF Spec
=============================================================================
