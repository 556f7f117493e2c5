------------------------------ MODULE FrontDoor ------------------------------
(***************************************************************************)
(* The way of a request into the API: the middleware log_requests with the *)
(* API key and the Redis rate limiter (core/security.py), and the one      *)
(* handler behind it that decides on who may do what: register of          *)
(* AuthService, which makes the first account the admin.                   *)
(*                                                                         *)
(* The middleware runs on the event loop, so requests meet at the limiter  *)
(* when several processes serve them; the handlers run on a thread pool    *)
(* and meet in any case.  Redis and the database keep each call atomic.    *)
(*                                                                         *)
(* Left out: tokens, which are signed and never change the account, login  *)
(* (it writes the time of the login only), roles (a guard of each route),  *)
(* and the in-memory limiter, for which redis would have to be missing.    *)
(***************************************************************************)
EXTENDS Integers, FiniteSets

CONSTANTS Requests, Clients, Emails,
          None,        \* the email of a request that does not register
          Limit,       \* rate_limit_per_minute
          Ticks,       \* ticks of the clock in a minute
          MaxClock,    \* bound: ticks
          MaxFaults    \* bound: calls of Redis that fail

ASSUME Bounds == /\ Limit \in Nat /\ Ticks \in Nat \ {0}
                 /\ MaxClock \in Nat /\ MaxFaults \in Nat /\ None \notin Emails

VARIABLES clock,      \* in ticks
          counters,   \* Redis: per bucket, the count, 0 for no key
          deadline,   \* Redis: per bucket, the tick at which its key expires, or Never
          request,    \* per request, where it is and what it carries
          accounts,   \* the requests whose row in users is committed
          passed,     \* history: per bucket, the requests let through
          stalled,    \* history: a request was counted in a later minute than its bucket's
          overlapped, \* history: registrations that counted beside another that had counted
          faults      \* history: calls of Redis that failed

redis == <<counters, deadline>>
history == <<passed, stalled, overlapped, faults>>
vars == <<clock, redis, request, accounts, history>>
-----------------------------------------------------------------------------
Never == -1
Minute(t) == t \div Ticks
Buckets == Clients \X (0 .. Minute(MaxClock))

Steps == {"new", "named", "expire", "admitted", "count", "create", "created", "refused", "done"}
Request == [at: Steps, bucket: Buckets, email: Emails \cup {None}, first: BOOLEAN]

\* The key expires 61 seconds after the first request.  Mutant: after a third of that.
Lifetime_Short == Ticks \div 3
Lifetime == Ticks

\* More than the limit is refused.
Verdict(count) == IF count > Limit THEN "refused" ELSE "admitted"

Init ==
    /\ clock = 0
    /\ counters = [b \in Buckets |-> 0] /\ deadline = [b \in Buckets |-> Never]
    /\ request \in [Requests -> [at: {"new"}, bucket: Clients \X {0}, email: Emails \cup {None},
                                 first: {FALSE}]]
    /\ accounts = {}
    /\ passed = [b \in Buckets |-> 0] /\ stalled = FALSE /\ overlapped = {} /\ faults = 0

\* Time passes, and Redis forgets what has outlived its deadline.
Tick ==
    /\ clock < MaxClock /\ clock' = clock + 1
    /\ LET gone == {b \in Buckets : deadline[b] # Never /\ deadline[b] < clock'}
       IN  /\ counters' = [b \in Buckets |-> IF b \in gone THEN 0 ELSE counters[b]]
           /\ deadline' = [b \in Buckets |-> IF b \in gone THEN Never ELSE deadline[b]]
    /\ UNCHANGED <<request, accounts, history>>
-----------------------------------------------------------------------------
(* The middleware. *)

\* Without a valid key the request is refused before it is counted.
Arrive(q) ==
    /\ request[q].at = "new"
    /\ \E at \in {"named", "refused"} :
          request' = [request EXCEPT ![q].at = at,
                                     ![q].bucket = <<request[q].bucket[1], Minute(clock)>>]
    /\ UNCHANGED <<clock, redis, accounts, history>>

Let(q, count) ==
    /\ passed' = IF Verdict(count) = "admitted"
                 THEN [passed EXCEPT ![request[q].bucket] = @ + 1] ELSE passed
    /\ request' = [request EXCEPT ![q].at = Verdict(count)]

\* INCR; the first request of a bucket has to set its expiry.
Increment(q) ==
    LET bucket == request[q].bucket
        count == counters[bucket] + 1
    IN  /\ request[q].at = "named"
        /\ counters' = [counters EXCEPT ![bucket] = count]
        /\ stalled' = (stalled \/ bucket[2] # Minute(clock))
        /\ IF count = 1
           THEN /\ request' = [request EXCEPT ![q].at = "expire"]
                /\ UNCHANGED passed
           ELSE Let(q, count)
        /\ UNCHANGED <<clock, deadline, accounts, overlapped, faults>>

Expire(q) ==
    /\ request[q].at = "expire"
    /\ deadline' = [deadline EXCEPT ![request[q].bucket] =
                       IF counters[request[q].bucket] = 0 THEN @ ELSE clock + Lifetime]
    /\ Let(q, 1)
    /\ UNCHANGED <<clock, counters, accounts, stalled, overlapped, faults>>

\* Whatever Redis raises lets the request through; a key may stay without a deadline.
RedisFails(q) ==
    /\ request[q].at \in {"named", "expire"} /\ faults < MaxFaults
    /\ faults' = faults + 1
    /\ passed' = [passed EXCEPT ![request[q].bucket] = @ + 1]
    /\ request' = [request EXCEPT ![q].at = "admitted"]
    /\ UNCHANGED <<clock, redis, accounts, stalled, overlapped>>
-----------------------------------------------------------------------------
(* The handlers. *)

HandleOther(q) ==
    /\ request[q].at = "admitted" /\ request[q].email = None
    /\ request' = [request EXCEPT ![q].at = "done"]
    /\ UNCHANGED <<clock, redis, accounts, history>>

Taken(email) == \E p \in accounts : request[p].email = email

\* A password too short, or an email that has an account.
Refuse(q) ==
    /\ request[q].at = "admitted" /\ request[q].email # None
    /\ request' = [request EXCEPT ![q].at = "refused"]
    /\ UNCHANGED <<clock, redis, accounts, history>>

LookUp(q) ==
    /\ request[q].at = "admitted" /\ request[q].email # None
    /\ ~Taken(request[q].email)
    /\ request' = [request EXCEPT ![q].at = "count"]
    /\ UNCHANGED <<clock, redis, accounts, history>>

\* Mutant: the second account is an admin too.
NoUsers_OffByOne == Cardinality(accounts) <= 1
NoUsers == accounts = {}

Counted(p) == request[p].at = "create"

CountUsers(q) ==
    /\ request[q].at = "count"
    /\ request' = [request EXCEPT ![q].at = "create", ![q].first = NoUsers]
    /\ overlapped' = IF \E p \in Requests : Counted(p) THEN overlapped \cup {q} ELSE overlapped
    /\ UNCHANGED <<clock, redis, accounts, passed, stalled, faults>>

\* The email is unique in the table: a second row of it is an IntegrityError.
CreateUser(q) ==
    /\ request[q].at = "create"
    /\ IF Taken(request[q].email)
       THEN /\ request' = [request EXCEPT ![q].at = "refused"]
            /\ UNCHANGED accounts
       ELSE /\ request' = [request EXCEPT ![q].at = "created"]
            /\ accounts' = accounts \cup {q}
    /\ UNCHANGED <<clock, redis, history>>
-----------------------------------------------------------------------------
Middleware(q) == Arrive(q) \/ Increment(q) \/ Expire(q) \/ RedisFails(q)
Handler(q) == HandleOther(q) \/ Refuse(q) \/ LookUp(q) \/ CountUsers(q) \/ CreateUser(q)

Next == Tick \/ \E q \in Requests : Middleware(q) \/ Handler(q)

Spec == Init /\ [][Next]_vars
-----------------------------------------------------------------------------
(* Properties. *)

TypeOK ==
    /\ clock \in 0 .. MaxClock
    /\ counters \in [Buckets -> Nat] /\ deadline \in [Buckets -> Int]
    /\ request \in [Requests -> Request]
    /\ accounts \subseteq Requests /\ overlapped \subseteq Requests
    /\ passed \in [Buckets -> Nat] /\ stalled \in BOOLEAN /\ faults \in Nat

Admins == {q \in accounts : request[q].first}

\* The first account is an admin, and nobody else is: of two admins, one counted the users
\* while another registration had counted and not yet committed.
FirstOwns ==
    /\ accounts # {} => Admins # {}
    /\ \A p, q \in Admins : p # q => p \in overlapped \/ q \in overlapped

\* No client gets more than the limit through in a minute, however its requests meet at
\* Redis, unless a call of Redis failed or took until the next minute.
LimitHolds == faults = 0 /\ ~stalled => \A b \in Buckets : passed[b] <= Limit
=============================================================================
