-------------------------- MODULE RunLedgerProofs --------------------------
(***************************************************************************)
(* What holds of the step rows, the trace and the run row, for any number  *)
(* of retries, revisions, faults and cancellations, and any batch.         *)
(*                                                                         *)
(* The argument: a row that says "succeeded" stays and keeps saying so     *)
(* (RowsKept), so whatever part of the trace has its rows keeps them       *)
(* (Covered).  The run row is saved by several, each from a copy of its    *)
(* own; but every copy was once the row, so it is enough that each of them *)
(* is sound by itself (Sound): what its context names has its rows, and in *)
(* graph mode the context is a walk whose next step the copy names.  An    *)
(* attempt then goes on with a walk whichever copy it finds, unless the    *)
(* walk is finished (Resumable).                                           *)
(***************************************************************************)
EXTENDS RunLedger, WellFoundedInduction, TLAPS

Agents == Range(Steps)

\* The roles that run on their own, so that their start is announced.
Alone == {"clarification", "destination_research", "itinerary", "budget", "review", "governance"}

Names == Agents \cup Roles \cup {"coordinator_agent", "none"}

RunRows == [status : {"queued", "running", "cancelled", "dead_lettered", "succeeded"},
            current : Names, flag : BOOLEAN, context : Seq(Agents)]
StepRows == [name : Names, sequence : Nat,
             status : {"running", "succeeded", "failed", "cancelled"}, attempt : Nat]

InGraph == {"loop", "step", "closed"}
InCoordinator == {"coordinator", "specialist", "batch", "returned", "synthetic"}

Under(c) == held[c] # NoCopy

TypeOK ==
    /\ mode \in {"graph", "coordinator"}
    /\ row \in RunRows /\ copy \in RunRows /\ kept \in BOOLEAN
    /\ DOMAIN held = Cancellers /\ \A c \in Cancellers : Under(c) => held[c] \in RunRows
    /\ submitted \in BOOLEAN /\ late \in BOOLEAN /\ overwritten \in BOOLEAN
    /\ rows \in Seq(StepRows) /\ trip \in BOOLEAN
    /\ pc \in InGraph \cup InCoordinator
             \cup {"queue", "taken", "cancelled", "failed", "stored", "idle"}
    /\ next \in Agents \cup Alone \cup {"batch", "none"}
    /\ trace \in Seq(Agents) /\ merging \in Seq(Agents)
    /\ open \in Nat /\ batch \subseteq BatchRoles
    /\ revisions \in Nat /\ written \in Nat /\ attempt \in Nat /\ faults \in Nat
    /\ existing \in [DOMAIN existing -> DOMAIN rows]

\* What is due where, by mode.
ModesApart ==
    /\ mode = "graph" => pc \notin InCoordinator /\ next \in Agents \cup {"none"}
    /\ mode = "coordinator" => pc \notin InGraph /\ next \in Alone \cup {"batch", "none"}
    /\ pc \in {"step", "closed"} => next \in Agents
    /\ pc = "specialist" => next \in Alone
    /\ pc = "batch" => next = "batch"
    /\ pc = "synthetic" => \A name \in DOMAIN existing : rows[existing[name]].name = name
    /\ pc = "synthetic" => written <= Len(trace)
    /\ pc \in InCoordinator \ {"synthetic"} => written = 0
    /\ late => submitted

\* An agent with a finished row, and a trace whose agents all have one.
Shown(agent) == \E i \in DOMAIN rows : rows[i].name = agent /\ rows[i].status = "succeeded"
Covered(t) == \A agent \in Range(t) : Shown(agent)

\* A walk, and the step that is due after it.
OnWalk(t, step) ==
    /\ Walk(t)
    /\ IF t = <<>> THEN step = Steps[1] ELSE step \in Upcoming(Last(t))

\* A run row that may be saved at any time.
Sound(r) ==
    /\ mode = "graph" => /\ r.current \in Agents \cup {"none"}
                         /\ Covered(r.context)
                         /\ ~late => OnWalk(r.context, r.current)
    /\ r.status = "succeeded" => /\ trip /\ Covered(r.context)
                                 /\ mode = "graph" => r.current = "none"
CopiesSound == Sound(row) /\ Sound(copy) /\ \A c \in Cancellers : Under(c) => Sound(held[c])

\* Only a retry can find a run row whose walk is finished, and then only a flagged one.
Resumable ==
    /\ attempt = 0 => pc \in {"queue", "cancelled", "idle"}
    /\ mode = "graph" =>
          /\ attempt = 0 \/ (attempt = 1 /\ pc = "taken") =>
                /\ row.current # "none"
                /\ \A c \in Cancellers : Under(c) => held[c].current # "none"
          /\ pc \in {"queue", "taken"} => row.flag \/ row.current # "none"
          /\ pc \notin {"cancelled", "idle"} => copy.current # "none"

\* The attempt goes on with its walk, or is about to see the flag.
Walks ==
    mode = "graph" /\ ~late =>
        /\ Walk(trace)
        /\ pc \in InGraph =>
              OnWalk(trace, next) \/ (pc = "loop" /\ row.flag /\ attempt > 1 /\ next = Steps[1])
        /\ pc = "stored" => OnWalk(trace, "none")

InOrder == mode = "graph" => \A i \in DOMAIN rows : rows[i].sequence = i

\* The attempt has its rows, as far as it has got.
Coverage ==
    /\ mode = "graph" => Covered(trace)
    /\ pc = "closed" => Shown(next)
    /\ pc = "synthetic" => \A k \in 1 .. written : Shown(trace[k])
    /\ pc = "stored" => trip /\ Covered(trace)

\* The row of the step that runs, and all other rows that say "running".
OpenRow ==
    /\ pc \in {"step", "specialist"} =>
          /\ open \in DOMAIN rows /\ rows[open].name = next
          /\ rows[open].status = "running" /\ rows[open].attempt = attempt
    /\ faults = 0 => \A i \in DOMAIN rows :
          rows[i].status = "running" => pc \in {"step", "specialist"} /\ open = i

\* A row for a cancelled run is the last thing written.
CancelledLast ==
    /\ pc = "cancelled" => row.status = "cancelled" \/ overwritten
    /\ pc # "idle" => \A i \in DOMAIN rows : rows[i].status # "cancelled"

\* The coordinator runtime writes rows named for agents only when it is done with them.
AgentsDone ==
    mode = "coordinator" /\ pc # "idle" =>
        \A i \in DOMAIN rows : rows[i].name \in Agents => rows[i].status = "succeeded"

Inv == /\ TypeOK /\ ModesApart /\ CopiesSound /\ Resumable /\ Walks /\ InOrder /\ Coverage
       /\ OpenRow /\ CancelledLast /\ AgentsDone /\ CancelledRowsAgree
-----------------------------------------------------------------------------
LEMMA AgentsAre ==
    /\ DOMAIN Steps = 1 .. 11 /\ Len(Steps) = 11
    /\ Agents = {"clarification_validator", "research_signal_agent", "destination_research_agent",
           "itinerary_planning_agent", "stay_recommendation_agent", "local_transport_agent",
           "food_recommendation_agent", "budget_optimization_agent",
           "solo_women_safety_advisor_agent", "review_and_consistency_agent",
           "governance_gate_agent"}
BY DEF Agents, Steps, Range

LEMMA RolesAre ==
    /\ Roles = Alone \cup {"stay", "transport", "food", "safety"}
    /\ \A role \in Roles : AgentsOf[role] \in Seq(Agents) /\ AgentsOf[role] # <<>>
<1>1. Roles = Alone \cup {"stay", "transport", "food", "safety"} BY DEF Roles, AgentsOf, Alone
<1>2. ASSUME NEW role \in Roles PROVE AgentsOf[role] \in Seq(Agents) /\ AgentsOf[role] # <<>>
  <2>1. CASE role = "destination_research"
    <3>1. AgentsOf[role] = <<"research_signal_agent", "destination_research_agent">>
      BY <2>1 DEF AgentsOf
    <3> QED BY <3>1, AgentsAre
  <2>2. CASE role # "destination_research"
    <3>1. \E agent \in Agents : AgentsOf[role] = <<agent>>
      BY <1>1, <1>2, <2>2, AgentsAre DEF AgentsOf, Alone
    <3> QED BY <3>1
  <2> QED BY <2>1, <2>2
<1> QED BY <1>1, <1>2

\* Names of roles are none of agents.
LEMMA NamesApart == Roles \cap Agents = {} /\ "none" \notin Agents /\ Agents \cap Alone = {}
BY AgentsAre, RolesAre DEF Alone

LEMMA UpcomingAgents ==
    ASSUME NEW step \in Agents
    PROVE  Upcoming(step) \subseteq Agents \cup {"none"}
<1> DEFINE i == CHOOSE j \in DOMAIN Steps : Steps[j] = step
<1>1. \E j \in DOMAIN Steps : Steps[j] = step BY DEF Agents, Range
<1>2. i \in 1 .. 11 BY <1>1, AgentsAre
<1>3. i # 11 => i + 1 \in DOMAIN Steps BY <1>2, AgentsAre
<1>4. i # 11 => Steps[i + 1] \in Agents BY <1>3 DEF Agents, Range
<1>5. Upcoming(step) \subseteq
        {"research_signal_agent", "none", "review_and_consistency_agent"} \cup
        (IF i = 11 THEN {} ELSE {Steps[i + 1]})
  <2> HIDE DEF i
  <2>1. Upcoming(step) =
          IF step = "clarification_validator" THEN {"research_signal_agent", "none"}
          ELSE IF i = Len(Steps) THEN {"none"}
          ELSE {Steps[i + 1]} \cup (IF step \in {"budget_optimization_agent",
                                                 "solo_women_safety_advisor_agent"}
                                    THEN {"review_and_consistency_agent"} ELSE {})
    BY DEF Upcoming, i
  <2> QED BY <2>1, AgentsAre
<1> QED BY <1>4, <1>5, AgentsAre

LEMMA FollowsAre ==
    ASSUME NEW role \in Alone \cup {"batch"}
    PROVE  Follows(role) \subseteq Alone \cup {"batch", "none"}
BY DEF Follows, Alone

\* A step that is due after a walk lengthens it.
LEMMA WalkOn ==
    ASSUME NEW t \in Seq(Agents), NEW step \in Agents, OnWalk(t, step)
    PROVE  /\ ExecuteStep(step, t) \in Seq(Agents)
           /\ Walk(ExecuteStep(step, t))
           /\ \A upcoming \in Upcoming(step) : OnWalk(ExecuteStep(step, t), upcoming)
<1> DEFINE longer == Append(t, step)
<1>1. /\ longer \in Seq(Agents) /\ Len(longer) = Len(t) + 1 /\ longer # <<>>
      /\ longer[Len(t) + 1] = step
      /\ \A i \in 1 .. Len(t) : longer[i] = t[i]
  OBVIOUS
<1>2. longer[1] = Steps[1]
  <2>1. CASE t = <<>> BY <1>1, <2>1 DEF OnWalk
  <2>2. CASE t # <<>> BY <1>1, <2>2 DEF OnWalk, Walk
  <2> QED BY <2>1, <2>2
<1>3. ASSUME NEW i \in 1 .. Len(longer) - 1 PROVE longer[i + 1] \in Upcoming(longer[i])
  <2>1. CASE i = Len(t)
    <3>1. t # <<>> /\ longer[i] = Last(t) BY <1>1, <1>3, <2>1 DEF Last
    <3> QED BY <1>1, <2>1, <3>1 DEF OnWalk
  <2>2. CASE i # Len(t)
    <3>1. i \in 1 .. Len(t) - 1 /\ i + 1 \in 1 .. Len(t) BY <1>1, <1>3, <2>2
    <3>2. t[i + 1] \in Upcoming(t[i]) BY <3>1 DEF OnWalk, Walk
    <3> QED BY <1>1, <3>1, <3>2
  <2> QED BY <2>1, <2>2
<1>4. Walk(longer) BY <1>2, <1>3 DEF Walk
<1>5. Last(longer) = step BY <1>1 DEF Last
<1> QED BY <1>1, <1>4, <1>5 DEF OnWalk, ExecuteStep
-----------------------------------------------------------------------------
\* A row that is added, and one whose status is set.
LEMMA RowAdded ==
    ASSUME rows \in Seq(StepRows), NEW added \in StepRows
    PROVE  LET longer == Append(rows, added)
           IN  /\ longer \in Seq(StepRows) /\ Len(rows) \in Nat
               /\ DOMAIN longer = 1 .. Len(rows) + 1 /\ DOMAIN rows = 1 .. Len(rows)
               /\ longer[Len(rows) + 1] = added
               /\ \A i \in DOMAIN rows : longer[i] = rows[i]
OBVIOUS

LEMMA StatusSet ==
    ASSUME rows \in Seq(StepRows), NEW i \in DOMAIN rows,
           NEW status \in {"running", "succeeded", "failed", "cancelled"}
    PROVE  /\ WithStatus(i, status) \in Seq(StepRows)
           /\ DOMAIN WithStatus(i, status) = DOMAIN rows
           /\ WithStatus(i, status)[i].status = status
           /\ \A j \in DOMAIN rows : WithStatus(i, status)[j].name = rows[j].name
           /\ \A j \in DOMAIN rows : WithStatus(i, status)[j].sequence = rows[j].sequence
           /\ \A j \in DOMAIN rows : WithStatus(i, status)[j].attempt = rows[j].attempt
           /\ \A j \in DOMAIN rows : j # i => WithStatus(i, status)[j] = rows[j]
<1>1. rows[i] \in StepRows OBVIOUS
<1>2. [rows[i] EXCEPT !.status = status] \in StepRows BY <1>1 DEF StepRows
<1>3. WithStatus(i, status) = [rows EXCEPT ![i] = [rows[i] EXCEPT !.status = status]]
  BY DEF WithStatus
<1>4. WithStatus(i, status) \in Seq(StepRows) BY <1>2, <1>3
<1> QED BY <1>1, <1>3, <1>4 DEF StepRows

-----------------------------------------------------------------------------
LEMMA StepRowOK ==
    ASSUME NEW name \in Names, NEW sequence \in Nat, attempt \in Nat,
           NEW status \in {"running", "succeeded", "failed", "cancelled"}
    PROVE  StepRow(name, sequence, status) \in StepRows
BY DEF StepRow, StepRows

LEMMA LeastNatural ==
    ASSUME NEW T \in SUBSET Nat, T # {}
    PROVE  \E x \in T : \A y \in T : x <= y
<1>1. \E x \in T : \A y \in T : <<y, x>> \notin OpToRel(<, Nat)
  BY NatLessThanWellFounded, WFMin
<1>2. PICK x \in T : \A y \in T : <<y, x>> \notin OpToRel(<, Nat) BY <1>1
<1>3. ASSUME NEW y \in T PROVE x <= y
  <2>1. ~(y < x) BY <1>2 DEF OpToRel
  <2> QED BY <2>1
<1> QED BY <1>3

\* Of the rows of one name there is one that list_by_run_id gives last.
LastRow(name, i) ==
    /\ rows[i].name = name
    /\ \A j \in DOMAIN rows : rows[j].name = name =>
          \/ rows[j].sequence < rows[i].sequence
          \/ rows[j].sequence = rows[i].sequence /\ j <= i
LEMMA LastRowExists ==
    ASSUME rows \in Seq(StepRows), NEW k \in DOMAIN rows
    PROVE  \E i \in DOMAIN rows : LastRow(rows[k].name, i)
<1> DEFINE name == rows[k].name
           Upto(n, i) == /\ i \in 1 .. n /\ rows[i].name = name
                         /\ \A j \in 1 .. n : rows[j].name = name =>
                               \/ rows[j].sequence < rows[i].sequence
                               \/ rows[j].sequence = rows[i].sequence /\ j <= i
           Bad == {n \in DOMAIN rows : /\ \E j \in 1 .. n : rows[j].name = name
                                       /\ ~ \E i \in 1 .. n : Upto(n, i)}
           N == Len(rows)
<1>1. N \in Nat /\ DOMAIN rows = 1 .. N /\ k \in 1 .. N
      /\ \A i \in 1 .. N : rows[i].sequence \in Nat
  <2>1. \A i \in DOMAIN rows : rows[i] \in StepRows OBVIOUS
  <2> QED BY <2>1 DEF StepRows
<1>2. ASSUME Bad # {} PROVE FALSE
  <2>1. Bad \in SUBSET Nat BY <1>1
  <2>2. \E n \in Bad : \A m \in Bad : n <= m
    <3> HIDE DEF Bad
    <3> QED BY <1>2, <2>1, LeastNatural
  <2>3. PICK n \in Bad : \A m \in Bad : n <= m BY <2>2
  <2>4. /\ n \in 1 .. N /\ ~ \E i \in 1 .. n : Upto(n, i)
        /\ \E j \in 1 .. n : rows[j].name = name
    BY <1>1, <2>3
  <2>a. ASSUME n - 1 \in DOMAIN rows, \E j \in 1 .. n - 1 : rows[j].name = name
        PROVE  \E i \in 1 .. n - 1 : Upto(n - 1, i)
    <3>1. n - 1 \notin Bad
      <4> HIDE DEF Bad
      <4> QED BY <1>1, <2>3, <2>4, <2>a
    <3> HIDE DEF Upto
    <3> QED BY <2>a, <3>1
  <2> HIDE DEF Bad
  <2>5. CASE \E j \in 1 .. n - 1 : rows[j].name = name
    <3>1. n - 1 \in DOMAIN rows BY <1>1, <2>4, <2>5
    <3>2. PICK i \in 1 .. n - 1 : Upto(n - 1, i) BY <2>5, <2>a, <3>1
    <3>3. CASE rows[n].name # name \/ rows[n].sequence < rows[i].sequence
      <4>1. Upto(n, i) BY <1>1, <2>4, <3>2, <3>3
      <4> QED BY <2>4, <3>2, <4>1
    <3>4. CASE rows[n].name = name /\ rows[n].sequence >= rows[i].sequence
      <4>1. ASSUME NEW j \in 1 .. n, rows[j].name = name
            PROVE  \/ rows[j].sequence < rows[n].sequence
                   \/ rows[j].sequence = rows[n].sequence /\ j <= n
        <5>1. CASE j = n BY <1>1, <5>1
        <5>2. CASE j # n
          <6>1. j \in 1 .. n - 1 BY <1>1, <2>4, <5>2
          <6>2. rows[j].sequence < rows[i].sequence \/ rows[j].sequence = rows[i].sequence
            BY <3>2, <4>1, <6>1
          <6>3. /\ rows[j].sequence \in Nat /\ rows[i].sequence \in Nat
                /\ rows[n].sequence \in Nat
            BY <1>1, <2>4, <3>2, <6>1
          <6> HIDE DEF Upto
          <6> QED BY <2>4, <3>4, <6>1, <6>2, <6>3
        <5> QED BY <5>1, <5>2
      <4>2. Upto(n, n) BY <1>1, <2>4, <3>4, <4>1
      <4> QED BY <2>4, <4>2
    <3> QED BY <1>1, <2>4, <3>2, <3>3, <3>4
  <2>6. CASE ~ \E j \in 1 .. n - 1 : rows[j].name = name
    <3>1. Upto(n, n) BY <1>1, <2>4, <2>6
    <3> QED BY <2>4, <3>1
  <2> QED BY <2>5, <2>6
<1>3. N \notin Bad BY <1>2
<1>4. PICK i \in 1 .. N : Upto(N, i) BY <1>1, <1>3
<1> QED BY <1>1, <1>4 DEF LastRow

\* What _persist_synthetic_steps starts from: a row for every name that has one.
LEMMA ExistingRows ==
    ASSUME rows \in Seq(StepRows), Returned
    PROVE  /\ existing' \in [DOMAIN existing' -> DOMAIN rows]
           /\ \A name \in DOMAIN existing' : rows[existing'[name]].name = name
<1> DEFINE named == {rows[i].name : i \in DOMAIN rows}
<1>1. existing' = [name \in named |-> CHOOSE i \in DOMAIN rows : LastRow(name, i)]
  BY DEF Returned, LastRow
<1>2. ASSUME NEW name \in named
      PROVE  existing'[name] \in DOMAIN rows /\ rows[existing'[name]].name = name
  <2>1. \E i \in DOMAIN rows : LastRow(name, i) BY <1>2, LastRowExists
  <2>2. LastRow(name, CHOOSE i \in DOMAIN rows : LastRow(name, i))
        /\ (CHOOSE i \in DOMAIN rows : LastRow(name, i)) \in DOMAIN rows
    BY <2>1
  <2> QED BY <1>1, <1>2, <2>2 DEF LastRow
<1>3. DOMAIN existing' = named /\ existing' \in [named -> DOMAIN rows] BY <1>1, <1>2
<1> QED BY <1>2, <1>3

\* An entry of the trace is written: no row is lost, none that is not of that agent
\* changes its status, and the agent has a finished row.
LEMMA SyntheticRows ==
    ASSUME TypeOK, ModesApart, Synthetic
    PROVE  LET name == trace[written + 1]
           IN  /\ rows' \in Seq(StepRows) /\ DOMAIN rows \subseteq DOMAIN rows'
               /\ name \in Agents
               /\ \E i \in DOMAIN rows' : rows'[i].name = name /\ rows'[i].status = "succeeded"
               /\ \A i \in DOMAIN rows :
                     /\ rows'[i].name = rows[i].name /\ rows'[i].attempt = rows[i].attempt
                     /\ \/ rows'[i].status = rows[i].status
                        \/ rows[i].name = name /\ rows'[i].status = "succeeded"
               /\ \A i \in DOMAIN rows' \ DOMAIN rows :
                     rows'[i].name = name /\ rows'[i].status = "succeeded"
<1> DEFINE name == trace[written + 1]
<1>1. name \in Agents /\ written + 1 \in Nat BY DEF TypeOK, Synthetic
<1>2. CASE name \in DOMAIN existing
  <2> DEFINE i == existing[name]
             sequence == IF rows[i].sequence < written + 1 THEN rows[i].sequence ELSE written + 1
             done == [rows[i] EXCEPT !.status = "succeeded", !.sequence = sequence]
  <2>1. i \in DOMAIN rows /\ rows[i] \in StepRows /\ rows[i].name = name
    BY <1>2 DEF TypeOK, ModesApart, Synthetic
  <2>2. sequence \in Nat BY <1>1, <2>1 DEF StepRows
  <2>3. done \in StepRows /\ done.name = name /\ done.attempt = rows[i].attempt
        /\ done.status = "succeeded"
    <3> HIDE DEF sequence
    <3> QED BY <2>1, <2>2 DEF StepRows
  <2>4. rows' = [rows EXCEPT ![i] = done] BY <1>2 DEF Synthetic
  <2> HIDE DEF i, done
  <2>5. rows' \in Seq(StepRows) /\ DOMAIN rows' = DOMAIN rows /\ rows'[i] = done
        /\ \A j \in DOMAIN rows : j # i => rows'[j] = rows[j]
    BY <2>1, <2>3, <2>4 DEF TypeOK
  <2> QED BY <1>1, <2>1, <2>3, <2>5 DEF Shown
<1>3. CASE name \notin DOMAIN existing
  <2> DEFINE added == StepRow(name, written + 1, "succeeded")
  <2>1. added \in StepRows /\ added.name = name /\ added.status = "succeeded"
    BY <1>1, StepRowOK DEF StepRow, Names, TypeOK
  <2>2. rows' = Append(rows, added) BY <1>3 DEF Synthetic
  <2> HIDE DEF added
  <2>3. /\ rows' \in Seq(StepRows) /\ DOMAIN rows = 1 .. Len(rows) /\ Len(rows) \in Nat
        /\ DOMAIN rows' = 1 .. Len(rows) + 1 /\ rows'[Len(rows) + 1] = added
        /\ \A i \in DOMAIN rows : rows'[i] = rows[i]
    BY <2>1, <2>2, RowAdded DEF TypeOK
  <2>4. Len(rows) + 1 \in DOMAIN rows' BY <2>3
  <2> QED BY <1>1, <2>1, <2>3, <2>4
<1> QED BY <1>2, <1>3

LEMMA TypeInit == Init => TypeOK /\ ModesApart
<1> SUFFICES ASSUME Init PROVE TypeOK /\ ModesApart OBVIOUS
<1>1. Submitted \in RunRows BY AgentsAre DEF Submitted, RunRows, Names
<1>2. rows \in Seq(StepRows) /\ existing \in [DOMAIN existing -> DOMAIN rows] BY DEF Init
<1>3. TypeOK
  <2>1. DOMAIN held = Cancellers /\ \A c \in Cancellers : ~Under(c) BY DEF Init, Under
  <2>2. trace \in Seq(Agents) /\ merging \in Seq(Agents) BY DEF Init
  <2> QED BY <1>1, <1>2, <2>1, <2>2 DEF Init, TypeOK
<1>4. ModesApart BY DEF Init, ModesApart, InGraph, InCoordinator
<1> QED BY <1>3, <1>4

LEMMA TypeStep ==
    ASSUME TypeOK, ModesApart, CopiesSound, OpenRow, [Next]_vars
    PROVE  TypeOK'
<1> USE AgentsAre, RolesAre
<1>1. /\ Agents \subseteq Names /\ Alone \subseteq Names /\ BatchRoles \subseteq Roles
      /\ Roles \subseteq Names /\ {"none", "coordinator_agent"} \subseteq Names
  BY Bounds DEF Names, Alone
<1> /\ row \in RunRows /\ copy \in RunRows BY DEF TypeOK
<1>2. CASE Take
  <2>1. row' \in RunRows /\ copy' \in RunRows BY <1>2 DEF Take, RunRows
  <2> QED BY <1>2, <2>1 DEF Take, TypeOK, others, Under
<1>3. CASE TakeFlagged
  <2>1. row' \in RunRows /\ copy' \in RunRows BY <1>3 DEF TakeFlagged, RunRows
  <2> QED BY <1>3, <2>1 DEF TakeFlagged, TypeOK, others, Under
<1>a. CASE Answered BY <1>a DEF Answered, TypeOK, work, others, Under
<1>b. CASE Begin
  <2>1. row.context \in Seq(Agents) /\ row.flag \in BOOLEAN BY DEF RunRows
  <2>2. next' \in Agents \cup Alone
    <3>1. mode = "graph" => row.current \in Agents \cup {"none"} BY DEF CopiesSound, Sound
    <3> QED BY <1>b, <3>1 DEF Begin, TypeOK, Alone
  <2>3. trace' \in Seq(Agents) BY <1>b, <2>1 DEF Begin
  <2> QED BY <1>b, <2>1, <2>2, <2>3 DEF Begin, TypeOK, InGraph, InCoordinator, others, Under
<1>4. CASE FileCancelled
  <2>a. copy.current \in Names BY DEF RunRows
  <2>b. NextSequence \in Nat BY DEF TypeOK, NextSequence
  <2>1. StepRow(copy.current, NextSequence, "cancelled") \in StepRows
    BY <2>a, <2>b, StepRowOK DEF TypeOK
  <2>2. rows' \in Seq(StepRows) /\ DOMAIN rows \subseteq DOMAIN rows'
    BY <1>4, <2>1, RowAdded DEF FileCancelled, TypeOK
  <2> QED BY <1>4, <2>2 DEF FileCancelled, TypeOK, work, others, Under
<1>5. CASE HandleFailure
  <2>1. PICK status \in {"queued", "dead_lettered"} : row' = [copy EXCEPT !.status = status]
    BY <1>5 DEF HandleFailure
  <2>2. row' \in RunRows BY <2>1 DEF RunRows
  <2> QED BY <1>5, <2>2 DEF HandleFailure, TypeOK, work, others, Under
<1>6. CASE LoopCancelled
  <2>1. row' \in RunRows BY <1>6 DEF LoopCancelled, RunRows
  <2> QED BY <1>6, <2>1 DEF LoopCancelled, TypeOK, work, others, Under
<1>7. CASE OpenStep
  <2>1. next \in Names BY <1>1, <1>7 DEF OpenStep, TypeOK, ModesApart, InGraph
  <2>2. row' \in RunRows BY <1>7, <2>1 DEF OpenStep, Running, RunRows, TypeOK
  <2>3. StepRow(next, NextSequence, "running") \in StepRows
    BY <2>1, StepRowOK DEF TypeOK, NextSequence
  <2>4. rows' \in Seq(StepRows) /\ DOMAIN rows \subseteq DOMAIN rows'
    BY <1>7, <2>3, RowAdded DEF OpenStep, TypeOK
  <2> QED BY <1>7, <2>2, <2>4 DEF OpenStep, TypeOK, InGraph, others, Under
<1>8. CASE CloseStep
  <2>1. rows' \in Seq(StepRows) /\ DOMAIN rows = DOMAIN rows'
    BY <1>8, StatusSet DEF CloseStep, TypeOK, OpenRow
  <2> QED BY <1>8, <2>1 DEF CloseStep, TypeOK, InGraph, others, Under
<1>9. CASE Advance
  <2>1. next \in Agents /\ Upcoming(next) \subseteq Agents \cup {"none"}
    BY <1>9, UpcomingAgents DEF Advance, ModesApart
  <2>2. trace' \in Seq(Agents) /\ next' \in Agents \cup {"none"}
    BY <1>9, <2>1 DEF Advance, TypeOK, ExecuteStep
  <2>3. row' = Running(next', trace') BY <1>9 DEF Advance
  <2>4. row' \in RunRows BY <1>1, <2>1, <2>2, <2>3 DEF Running, RunRows
  <2> QED BY <1>9, <2>2, <2>4 DEF Advance, TypeOK, InGraph, others, Under
<1>10. CASE Decide
  <2>1. next \notin {"none", "batch"} => next \in Alone /\ next \in Names
    BY <1>1, <1>10 DEF Decide, ModesApart, InCoordinator, TypeOK
  <2>3. /\ rows' \in Seq(StepRows) /\ DOMAIN rows \subseteq DOMAIN rows' /\ open' \in Nat
        /\ pc' \in InCoordinator
        /\ batch' \subseteq BatchRoles /\ merging' \in Seq(Agents)
    <3>1. CASE next = "none" BY <1>10, <3>1 DEF Decide, TypeOK, InCoordinator
    <3>2. CASE next = "batch" BY <1>10, <3>2 DEF Decide, TypeOK, InCoordinator
    <3>3. CASE next \notin {"none", "batch"}
      <4>1. StepRow(next, NextSequence, "running") \in StepRows
        BY <2>1, <3>3, StepRowOK DEF TypeOK, NextSequence
      <4>2. rows' = Append(rows, StepRow(next, NextSequence, "running")) /\ open' = Len(rows) + 1
            /\ pc' = "specialist" /\ UNCHANGED <<batch, merging>>
        BY <1>10, <3>3 DEF Decide
      <4> QED BY <4>1, <4>2, RowAdded DEF TypeOK, InCoordinator
    <3> QED BY <3>1, <3>2, <3>3
  <2> QED BY <1>10, <2>3 DEF Decide, TypeOK, others, Under
<1>11. CASE Complete
  <2>1. /\ next \in Alone /\ next' \in Alone \cup {"batch", "none"} /\ revisions' \in Nat
    BY <1>11, FollowsAre DEF Complete, Choose, ModesApart, TypeOK
  <2>2. trace' \in Seq(Agents) BY <1>11, <2>1 DEF Complete, TypeOK
  <2>4. rows' \in Seq(StepRows) /\ DOMAIN rows = DOMAIN rows'
    BY <1>11, StatusSet DEF Complete, Closed, TypeOK, OpenRow
  <2> QED BY <1>11, <2>1, <2>2, <2>4 DEF Complete, TypeOK, InCoordinator, others, Under
<1>12. ASSUME NEW role \in BatchRoles, BatchMemberCompletes(role) PROVE TypeOK'
  <2>1. merging' \in Seq(Agents) BY <1>1, <1>12 DEF BatchMemberCompletes, Missing, TypeOK
  <2> QED BY <1>12, <2>1 DEF BatchMemberCompletes, TypeOK, others, Under
<1>13. CASE BatchCompletes
  <2>1. next' \in Alone \cup {"batch", "none"} /\ revisions' \in Nat
    BY <1>13, FollowsAre DEF BatchCompletes, Choose, TypeOK
  <2>2. trace' \in Seq(Agents) /\ merging' \in Seq(Agents) BY <1>13 DEF BatchCompletes, TypeOK
  <2> QED BY <1>13, <2>1, <2>2 DEF BatchCompletes, TypeOK, InCoordinator, others, Under
<1>14. CASE Returned
  <2>1. existing' \in [DOMAIN existing' -> DOMAIN rows] BY <1>14, ExistingRows DEF TypeOK
  <2> QED BY <1>14, <2>1 DEF Returned, TypeOK, InCoordinator, others, Under
<1>15. CASE Synthetic
  <2>1. rows' \in Seq(StepRows) /\ DOMAIN rows \subseteq DOMAIN rows'
    BY <1>15, SyntheticRows
  <2> QED BY <1>15, <2>1 DEF Synthetic, TypeOK, others, Under
<1>16. CASE SaveTrip BY <1>16 DEF SaveTrip, TypeOK, work, others, Under
<1>17. CASE SaveSuccess
  <2>1. /\ row'.status = "succeeded" /\ row'.current = "none" /\ row'.context = trace
        /\ row' \in RunRows
    BY <1>1, <1>17 DEF SaveSuccess, TypeOK, RunRows
  <2> QED BY <1>17, <2>1 DEF SaveSuccess, TypeOK, work, others, Under
<1>18. CASE FailStep
  <2>1. rows' \in Seq(StepRows) /\ DOMAIN rows = DOMAIN rows'
    BY <1>18, StatusSet DEF FailStep, TypeOK, OpenRow
  <2> QED BY <1>18, <2>1 DEF FailStep, TypeOK, work, others, Under
<1>19. CASE Raise BY <1>19 DEF Raise, TypeOK, work, others, Under
<1>20. CASE Die BY <1>20 DEF Die, TypeOK, work, others, Under
<1>21. CASE LateSave
  <2>1. Submitted \in RunRows BY <1>1 DEF Submitted, RunRows
  <2> QED BY <1>21, <2>1 DEF LateSave, TypeOK, work, Under
<1>c. ASSUME NEW c \in Cancellers, CancelReads(c) PROVE TypeOK'
  BY <1>c DEF CancelReads, TypeOK, work, Under
<1>d. ASSUME NEW c \in Cancellers, CancelSaves(c) PROVE TypeOK'
  <2>1. held[c] \in RunRows BY <1>d DEF CancelSaves, TypeOK, Under
  <2>2. PICK status \in {"queued", "running", "cancelled", "dead_lettered", "succeeded"} :
           row' = [held[c] EXCEPT !.flag = TRUE, !.status = status]
    BY <1>d, <2>1 DEF CancelSaves, RunRows
  <2>3. row' \in RunRows BY <2>1, <2>2 DEF RunRows
  <2> QED BY <1>d, <2>3 DEF CancelSaves, TypeOK, work, Under
<1>22. CASE UNCHANGED vars BY <1>22 DEF vars, work, others, TypeOK, Under
<1> QED BY <1>2, <1>3, <1>4, <1>5, <1>6, <1>7, <1>8, <1>9, <1>10, <1>11, <1>12, <1>13, <1>14,
       <1>15, <1>16, <1>17, <1>18, <1>19, <1>20, <1>21, <1>22, <1>a, <1>b, <1>c, <1>d DEF Next, Work
-----------------------------------------------------------------------------
LEMMA ModesStep ==
    ASSUME TypeOK, ModesApart, CopiesSound, [Next]_vars
    PROVE  ModesApart'
<1> USE DEF InGraph, InCoordinator
<1> /\ trace \in Seq(Agents) /\ merging \in Seq(Agents) /\ Len(trace) \in Nat /\ written \in Nat
  BY DEF TypeOK
<1>1. CASE Take BY <1>1 DEF Take, ModesApart, others
<1>2. CASE TakeFlagged BY <1>2 DEF TakeFlagged, ModesApart, others
<1>a. CASE Answered BY <1>a DEF Answered, ModesApart, work, others
<1>b. CASE Begin
  <2>1. mode = "graph" => next' \in Agents \cup {"none"} /\ pc' = "loop"
    <3>1. mode = "graph" => row.current \in Agents \cup {"none"} BY DEF CopiesSound, Sound
    <3> QED BY <1>b, <3>1, AgentsAre DEF Begin
  <2>2. mode = "coordinator" => next' \in Alone /\ pc' = "coordinator" BY <1>b DEF Begin, Alone
  <2>3. /\ mode' = mode /\ mode \in {"graph", "coordinator"} /\ written' = 0
        /\ UNCHANGED <<late, submitted>>
    BY <1>b DEF Begin, TypeOK, others
  <2> QED BY <2>1, <2>2, <2>3 DEF ModesApart
<1>3. CASE FileCancelled BY <1>3 DEF FileCancelled, ModesApart, work, others
<1>4. CASE HandleFailure BY <1>4 DEF HandleFailure, ModesApart, work, others
<1>5. CASE LoopCancelled BY <1>5 DEF LoopCancelled, ModesApart, work, others
<1>6. CASE OpenStep
  <2>1. mode = "graph" /\ next \in Agents BY <1>6 DEF OpenStep, ModesApart, TypeOK
  <2> QED BY <1>6, <2>1 DEF OpenStep, ModesApart, others
<1>7. CASE CloseStep BY <1>7 DEF CloseStep, ModesApart, others
<1>8. CASE Advance
  <2>1. next \in Agents /\ Upcoming(next) \subseteq Agents \cup {"none"}
    BY <1>8, UpcomingAgents DEF Advance, ModesApart
  <2>2. next' \in Agents \cup {"none"} BY <1>8, <2>1 DEF Advance
  <2>3. mode = "graph" BY <1>8 DEF Advance, ModesApart, TypeOK
  <2> QED BY <1>8, <2>2, <2>3 DEF Advance, ModesApart, others
<1>9. CASE Decide
  <2>1. mode # "graph" /\ next \in Alone \cup {"batch", "none"}
    BY <1>9 DEF Decide, ModesApart, TypeOK
  <2>2. pc' = (IF next = "none" THEN "returned" ELSE IF next = "batch" THEN "batch" ELSE "specialist")
    BY <1>9 DEF Decide
  <2> QED BY <1>9, <2>1, <2>2 DEF Decide, ModesApart, Alone, others
<1>10. CASE Complete
  <2>1. next \in Alone /\ next' \in Alone \cup {"batch", "none"} /\ mode # "graph"
    BY <1>10, FollowsAre DEF Complete, Choose, ModesApart, TypeOK
  <2>2. pc' = "coordinator" /\ written' = written /\ pc = "specialist" BY <1>10 DEF Complete
  <2> QED BY <1>10, <2>1, <2>2 DEF Complete, ModesApart, others
<1>11. ASSUME NEW role \in BatchRoles, BatchMemberCompletes(role) PROVE ModesApart'
  BY <1>11 DEF BatchMemberCompletes, ModesApart, others
<1>12. CASE BatchCompletes
  <2>1. next' \in Alone \cup {"batch", "none"} /\ mode # "graph"
    BY <1>12, FollowsAre DEF BatchCompletes, Choose, ModesApart, TypeOK
  <2> QED BY <1>12, <2>1 DEF BatchCompletes, ModesApart, others
<1>13. CASE Returned
  <2>1. \A name \in DOMAIN existing' : rows[existing'[name]].name = name
    BY <1>13, ExistingRows DEF TypeOK
  <2>2. written' <= Len(trace') BY <1>13 DEF Returned, ModesApart
  <2> QED BY <1>13, <2>1, <2>2 DEF Returned, ModesApart, others
<1>14. CASE Synthetic
  <2>1. \A i \in DOMAIN rows : rows'[i].name = rows[i].name BY <1>14, SyntheticRows
  <2>2. \A name \in DOMAIN existing : existing[name] \in DOMAIN rows BY DEF TypeOK
  <2>3. written' <= Len(trace') BY <1>14 DEF Synthetic, ModesApart
  <2> QED BY <1>14, <2>1, <2>2, <2>3 DEF Synthetic, ModesApart, others
<1>15. CASE SaveTrip BY <1>15 DEF SaveTrip, ModesApart, work, others
<1>16. CASE SaveSuccess BY <1>16 DEF SaveSuccess, ModesApart, work, others
<1>17. CASE FailStep BY <1>17 DEF FailStep, ModesApart, work, others
<1>18. CASE Raise BY <1>18 DEF Raise, ModesApart, work, Executing, others
<1>19. CASE Die BY <1>19 DEF Die, ModesApart, work, others
<1>20. CASE LateSave BY <1>20 DEF LateSave, ModesApart, work
<1>c. ASSUME NEW c \in Cancellers, CancelReads(c) \/ CancelSaves(c) PROVE ModesApart'
  BY <1>c DEF CancelReads, CancelSaves, ModesApart, work
<1>21. CASE UNCHANGED vars BY <1>21 DEF vars, work, others, ModesApart
<1> QED BY <1>1, <1>2, <1>3, <1>4, <1>5, <1>6, <1>7, <1>8, <1>9, <1>10, <1>11, <1>12, <1>13,
       <1>14, <1>15, <1>16, <1>17, <1>18, <1>19, <1>20, <1>21, <1>a, <1>b, <1>c DEF Next, Work

\* The mode is an input, a trip is not deleted, and the history only grows.
LEMMA Steady ==
    ASSUME TypeOK, ModesApart, [Next]_vars
    PROVE  mode' = mode /\ (trip => trip') /\ (late => late')
<1>1. mode' = mode
  BY DEF Next, Work, vars, work, others, Take, TakeFlagged, FileCancelled, Answered, Begin,
         HandleFailure, LoopCancelled, OpenStep, CloseStep, Advance, Decide, Complete,
         BatchMemberCompletes, BatchCompletes, Returned, Synthetic, SaveTrip, SaveSuccess,
         FailStep, Raise, Die, LateSave, CancelReads, CancelSaves
<1>2. trip' = trip \/ trip' = TRUE
  BY DEF Next, Work, vars, work, others, Take, TakeFlagged, FileCancelled, Answered, Begin,
         HandleFailure, LoopCancelled, OpenStep, CloseStep, Advance, Decide, Complete,
         BatchMemberCompletes, BatchCompletes, Returned, Synthetic, SaveTrip, SaveSuccess,
         FailStep, Raise, Die, LateSave, CancelReads, CancelSaves
<1>3. CASE LateSave BY <1>1, <1>2, <1>3 DEF LateSave, ModesApart
<1>4. CASE ~LateSave
  <2>1. late' = late
    BY <1>4 DEF Next, Work, vars, work, others, Take, TakeFlagged, FileCancelled, Answered, Begin,
           HandleFailure, LoopCancelled, OpenStep, CloseStep, Advance, Decide, Complete,
           BatchMemberCompletes, BatchCompletes, Returned, Synthetic, SaveTrip, SaveSuccess,
           FailStep, Raise, Die, CancelReads, CancelSaves
  <2> QED BY <1>1, <1>2, <2>1
<1> QED BY <1>1, <1>2, <1>3, <1>4

-----------------------------------------------------------------------------
\* What a step may do to the rows that are there.
Kept ==
    \A i \in DOMAIN rows :
        /\ i \in DOMAIN rows'
        /\ rows'[i].name = rows[i].name /\ rows'[i].attempt = rows[i].attempt
        /\ \/ rows'[i].status = rows[i].status
           \/ /\ rows[i].status = "running" /\ rows[i].attempt = attempt
              /\ rows'[i].status \in {"succeeded", "failed"}

LEMMA RowsKept ==
    ASSUME TypeOK, ModesApart, OpenRow, AgentsDone, [Next]_vars
    PROVE  Kept
<1> rows \in Seq(StepRows) BY DEF TypeOK
<1>1. ASSUME rows' = rows PROVE Kept BY <1>1 DEF Kept
<1>2. ASSUME NEW added \in StepRows, rows' = Append(rows, added) PROVE Kept
  BY <1>2, RowAdded DEF Kept
<1>3. ASSUME NEW status \in {"succeeded", "failed"}, rows' = WithStatus(open, status),
             pc \in {"step", "specialist"}
      PROVE  Kept
  <2>1. open \in DOMAIN rows /\ rows[open].status = "running" /\ rows[open].attempt = attempt
    BY <1>3 DEF OpenRow
  <2>2. /\ DOMAIN rows' = DOMAIN rows
        /\ rows'[open].status = status
        /\ \A j \in DOMAIN rows : rows'[j].name = rows[j].name
        /\ \A j \in DOMAIN rows : rows'[j].attempt = rows[j].attempt
        /\ \A j \in DOMAIN rows : j # open => rows'[j] = rows[j]
    BY <1>3, <2>1, StatusSet
  <2> QED BY <2>1, <2>2 DEF Kept
<1>4. CASE FileCancelled
  <2>1. StepRow(copy.current, NextSequence, "cancelled") \in StepRows
    <3>1. copy.current \in Names BY DEF TypeOK, RunRows
    <3>2. NextSequence \in Nat BY DEF TypeOK, NextSequence
    <3> QED BY <3>1, <3>2, StepRowOK DEF TypeOK
  <2> QED BY <1>1, <1>2, <1>4, <2>1 DEF FileCancelled
<1>5. CASE OpenStep \/ Decide
  <2>1. next \in Agents \cup Alone \cup {"batch", "none"} BY DEF TypeOK
  <2>2. NextSequence \in Nat BY DEF TypeOK, NextSequence
  <2>3. CASE rows' = Append(rows, StepRow(next, NextSequence, "running")) /\ next # "batch"
    <3>1. next \in Names BY <2>1, <2>3, RolesAre DEF Names
    <3>2. StepRow(next, NextSequence, "running") \in StepRows
      BY <2>2, <3>1, StepRowOK DEF TypeOK
    <3> QED BY <1>2, <2>3, <3>2
  <2>4. \/ rows' = rows
        \/ rows' = Append(rows, StepRow(next, NextSequence, "running")) /\ next # "batch"
    <3>1. CASE OpenStep
      <4>1. next # "batch" BY <3>1, AgentsAre DEF OpenStep, ModesApart, TypeOK, InGraph
      <4> QED BY <3>1, <4>1 DEF OpenStep
    <3>2. CASE Decide
      <4>1. CASE next \in {"none", "batch"} BY <3>2, <4>1 DEF Decide
      <4>2. CASE next \notin {"none", "batch"} BY <3>2, <4>2 DEF Decide
      <4> QED BY <4>1, <4>2
    <3> QED BY <1>5, <3>1, <3>2
  <2> QED BY <1>1, <2>3, <2>4
<1>6. CASE CloseStep \/ Complete \/ FailStep
  BY <1>3, <1>6 DEF CloseStep, Complete, Closed, FailStep
<1>7. CASE Synthetic
  <2>1. mode = "coordinator" /\ pc = "synthetic"
    BY <1>7 DEF Synthetic, ModesApart, TypeOK, InCoordinator
  <2>2. \A i \in DOMAIN rows : rows[i].name \in Agents => rows[i].status = "succeeded"
    BY <2>1 DEF AgentsDone
  <2> QED BY <1>7, <2>2, SyntheticRows DEF Kept
<1>8. CASE \/ Take \/ TakeFlagged \/ Answered \/ Begin \/ HandleFailure \/ LoopCancelled \/ Advance
           \/ (\E role \in BatchRoles : BatchMemberCompletes(role)) \/ BatchCompletes
           \/ Returned \/ SaveTrip \/ SaveSuccess \/ Raise \/ Die \/ LateSave
           \/ (\E c \in Cancellers : CancelReads(c) \/ CancelSaves(c)) \/ UNCHANGED vars
  <2>1. rows' = rows
    BY <1>8 DEF Take, TakeFlagged, Answered, Begin, HandleFailure, LoopCancelled, Advance,
           BatchMemberCompletes, BatchCompletes, Returned, SaveTrip, SaveSuccess, Raise, Die,
           LateSave, CancelReads, CancelSaves, vars
  <2> QED BY <1>1, <2>1
<1> QED BY <1>4, <1>5, <1>6, <1>7, <1>8 DEF Next, Work

LEMMA ShownStays ==
    ASSUME Kept, NEW agent, Shown(agent)
    PROVE  \E i \in DOMAIN rows' : rows'[i].name = agent /\ rows'[i].status = "succeeded"
<1>1. PICK i \in DOMAIN rows : rows[i].name = agent /\ rows[i].status = "succeeded" BY DEF Shown
<1> QED BY <1>1 DEF Kept

-----------------------------------------------------------------------------
(* Who saves the run row saves a sound one. *)
ShownNext(agent) == \E i \in DOMAIN rows' : rows'[i].name = agent /\ rows'[i].status = "succeeded"
CoveredNext(t) == \A agent \in Range(t) : ShownNext(agent)
SoundNext(r) ==
    /\ mode' = "graph" => /\ r.current \in Agents \cup {"none"}
                          /\ CoveredNext(r.context)
                          /\ ~late' => OnWalk(r.context, r.current)
    /\ r.status = "succeeded" => /\ trip' /\ CoveredNext(r.context)
                                 /\ mode' = "graph" => r.current = "none"

LEMMA CopiesNext ==
    /\ CopiesSound' = (/\ SoundNext(row') /\ SoundNext(copy')
                       /\ \A c \in Cancellers : held'[c] # NoCopy => SoundNext(held'[c]))
    /\ Coverage' = (/\ mode' = "graph" => CoveredNext(trace')
                    /\ pc' = "closed" => ShownNext(next')
                    /\ pc' = "synthetic" => \A k \in 1 .. written' : ShownNext(trace'[k])
                    /\ pc' = "stored" => trip' /\ CoveredNext(trace'))
BY DEF CopiesSound, Sound, SoundNext, Under, Coverage, Covered, CoveredNext, Shown, ShownNext

LEMMA CoveredStays ==
    ASSUME Kept, NEW t, Covered(t)
    PROVE  CoveredNext(t)
<1>1. ASSUME NEW agent \in Range(t) PROVE ShownNext(agent)
  <2>1. Shown(agent) BY <1>1 DEF Covered
  <2> QED BY <2>1, ShownStays DEF ShownNext
<1> QED BY <1>1 DEF CoveredNext

\* A sound copy stays so, and may be saved with another status that does not claim more.
LEMMA SoundStays ==
    ASSUME Kept, mode' = mode, trip => trip', late => late', NEW r, NEW s, Sound(r),
           s.current = r.current, s.context = r.context,
           s.status = "succeeded" => r.status = "succeeded"
    PROVE  SoundNext(s)
<1>1. Covered(r.context) => CoveredNext(r.context) BY CoveredStays
<1> QED BY <1>1 DEF Sound, SoundNext

\* The step that is done lengthens the context by its name.
LEMMA LongerCovered ==
    ASSUME Kept, NEW t \in Seq(Agents), NEW step \in Agents, Covered(t), Shown(step)
    PROVE  CoveredNext(ExecuteStep(step, t))
<1>1. ASSUME NEW agent \in Range(ExecuteStep(step, t)) PROVE agent \in Range(t) \/ agent = step
  <2> DEFINE longer == Append(t, step)
  <2>1. PICK k \in DOMAIN longer : agent = longer[k] BY <1>1 DEF Range, ExecuteStep
  <2>2. /\ DOMAIN t = 1 .. Len(t) /\ Len(t) \in Nat /\ k \in 1 .. Len(t) + 1
        /\ longer[Len(t) + 1] = step
        /\ \A l \in 1 .. Len(t) : longer[l] = t[l]
    BY <2>1
  <2> HIDE DEF longer
  <2>3. CASE k = Len(t) + 1 BY <2>1, <2>2, <2>3
  <2>4. CASE k \in DOMAIN t BY <2>1, <2>2, <2>4 DEF Range
  <2> QED BY <2>2, <2>3, <2>4
<1>2. ShownNext(step) /\ CoveredNext(t) BY ShownStays, CoveredStays DEF ShownNext
<1> QED BY <1>1, <1>2 DEF CoveredNext

\* The worker's own saves of a row that it does not take from a copy.
LEMMA WorkerSavesSound ==
    ASSUME TypeOK, ModesApart, OpenRow, AgentsDone, Walks, Coverage, [Next]_vars,
           OpenStep \/ Advance \/ SaveSuccess
    PROVE  SoundNext(row')
<1> Kept BY RowsKept
<1> mode' = mode /\ trip = trip' /\ late = late'
  BY DEF OpenStep, Advance, SaveSuccess, others
<1> trace \in Seq(Agents) BY DEF TypeOK
<1> USE DEF InGraph, InCoordinator
<1>1. CASE OpenStep
  <2>1. /\ row'.context = trace /\ row'.current = next /\ row'.status = "running"
        /\ pc = "loop" /\ ~row.flag
    BY <1>1 DEF OpenStep, Running
  <2>2. mode = "graph" /\ next \in Agents \cup {"none"} BY <2>1 DEF ModesApart, TypeOK
  <2>3. CoveredNext(trace) BY <2>2, CoveredStays DEF Coverage
  <2>4. ~late => OnWalk(trace, next) BY <2>1, <2>2 DEF Walks
  <2> QED BY <2>1, <2>2, <2>3, <2>4 DEF SoundNext
<1>2. CASE Advance
  <2>1. /\ row'.context = trace' /\ row'.current = next' /\ row'.status = "running"
        /\ trace' = ExecuteStep(next, trace) /\ next' \in Upcoming(next) /\ pc = "closed"
    BY <1>2 DEF Advance, Running
  <2>2. mode = "graph" /\ next \in Agents BY <2>1 DEF ModesApart, TypeOK
  <2>3. next' \in Agents \cup {"none"} BY <2>1, <2>2, UpcomingAgents
  <2>4. CoveredNext(trace') BY <2>1, <2>2, LongerCovered DEF Coverage
  <2>5. ~late => OnWalk(trace', next') BY <2>1, <2>2, WalkOn DEF Walks
  <2> QED BY <2>1, <2>2, <2>3, <2>4, <2>5 DEF SoundNext
<1>3. CASE SaveSuccess
  <2>1. /\ row'.context = trace /\ row'.current = "none" /\ pc = "stored"
    BY <1>3 DEF SaveSuccess
  <2>2. trip /\ CoveredNext(trace) BY <2>1, CoveredStays DEF Coverage
  <2>3. mode = "graph" /\ ~late => OnWalk(trace, "none") BY <2>1 DEF Walks
  <2> QED BY <2>1, <2>2, <2>3 DEF SoundNext
<1> QED BY <1>1, <1>2, <1>3

LEMMA SubmittedSound ==
    ASSUME mode' = mode
    PROVE  SoundNext(Submitted)
<1>1. Submitted.context = <<>> /\ Submitted.status = "queued" BY DEF Submitted
<1>2. CoveredNext(<<>>) BY DEF CoveredNext, Range
<1>3. mode = "graph" => Submitted.current = Steps[1] BY DEF Submitted, Steps
<1>4. Steps[1] \in Agents BY AgentsAre DEF Agents, Range
<1> QED BY <1>1, <1>2, <1>3, <1>4 DEF SoundNext, OnWalk, Walk

LEMMA CopiesStep ==
    ASSUME TypeOK, ModesApart, OpenRow, AgentsDone, CopiesSound, Walks, Coverage, [Next]_vars
    PROVE  CopiesSound'
<1> Kept BY RowsKept
<1> mode' = mode /\ (trip => trip') /\ (late => late') BY Steady
<1> /\ row \in RunRows /\ copy \in RunRows
    /\ \A c \in Cancellers : held[c] # NoCopy => held[c] \in RunRows
    /\ DOMAIN held = Cancellers
  BY DEF TypeOK, Under
<1> /\ Sound(row) /\ Sound(copy) /\ \A c \in Cancellers : held[c] # NoCopy => Sound(held[c])
  BY DEF CopiesSound, Under
<1>a. SoundNext(row) /\ SoundNext(copy) BY SoundStays
<1>b. \A c \in Cancellers : held[c] # NoCopy => SoundNext(held[c]) BY SoundStays
<1>1. CASE Take \/ TakeFlagged
  <2>1. PICK status \in {"running", "cancelled"} :
           row' = [row EXCEPT !.status = status] /\ copy' = row' /\ held' = held
    BY <1>1 DEF Take, TakeFlagged, others
  <2>2. row'.current = row.current /\ row'.context = row.context /\ row'.status # "succeeded"
    BY <2>1 DEF RunRows
  <2>3. SoundNext(row') BY <2>2, SoundStays
  <2> QED BY <1>b, <2>1, <2>3, CopiesNext
<1>2. CASE HandleFailure \/ LoopCancelled
  <2>1. PICK status \in {"queued", "dead_lettered", "cancelled"} :
           row' = [copy EXCEPT !.status = status] /\ UNCHANGED <<copy, held>>
    BY <1>2 DEF HandleFailure, LoopCancelled, work, others
  <2>2. row'.current = copy.current /\ row'.context = copy.context /\ row'.status # "succeeded"
    BY <2>1 DEF RunRows
  <2>3. SoundNext(row') BY <2>2, SoundStays
  <2> QED BY <1>a, <1>b, <2>1, <2>3, CopiesNext
<1>3. CASE OpenStep \/ Advance \/ SaveSuccess
  <2>1. UNCHANGED <<copy, held>> BY <1>3 DEF OpenStep, Advance, SaveSuccess, work, others
  <2> QED BY <1>a, <1>b, <1>3, <2>1, WorkerSavesSound, CopiesNext
<1>4. CASE LateSave
  <2>1. row' = Submitted /\ UNCHANGED <<copy, held>> BY <1>4 DEF LateSave, work
  <2> QED BY <1>a, <1>b, <2>1, SubmittedSound, CopiesNext
<1>5. ASSUME NEW c \in Cancellers, CancelReads(c) PROVE CopiesSound'
  <2>1. UNCHANGED <<row, copy>> /\ held' = [held EXCEPT ![c] = row]
    BY <1>5 DEF CancelReads, work
  <2>2. \A d \in Cancellers : held'[d] # NoCopy => SoundNext(held'[d]) BY <1>a, <1>b, <2>1
  <2> QED BY <1>a, <2>1, <2>2, CopiesNext
<1>6. ASSUME NEW c \in Cancellers, CancelSaves(c) PROVE CopiesSound'
  <2>1. /\ copy' = copy /\ held' = [held EXCEPT ![c] = NoCopy] /\ held[c] # NoCopy
        /\ row' = [held[c] EXCEPT !.flag = TRUE, !.status = IF @ = "queued" THEN "cancelled" ELSE @]
    BY <1>6 DEF CancelSaves, work
  <2>2. /\ row'.current = held[c].current /\ row'.context = held[c].context
        /\ row'.status = "succeeded" => held[c].status = "succeeded"
    BY <2>1 DEF RunRows
  <2>3. SoundNext(row') BY <2>1, <2>2, SoundStays
  <2>4. \A d \in Cancellers : held'[d] # NoCopy => SoundNext(held'[d]) BY <1>b, <2>1
  <2> QED BY <1>a, <2>1, <2>3, <2>4, CopiesNext
<1>7. CASE UNCHANGED <<row, copy, held>> BY <1>a, <1>b, <1>7, CopiesNext
<1> QED BY <1>1, <1>2, <1>3, <1>4, <1>5, <1>6, <1>7
    DEF Next, Work, vars, work, others, FileCancelled, Answered, Begin, CloseStep, Decide, Complete,
        BatchMemberCompletes, BatchCompletes, Returned, Synthetic, SaveTrip, FailStep, Raise, Die

-----------------------------------------------------------------------------
LEMMA ResumableStep ==
    ASSUME TypeOK, ModesApart, CopiesSound, Resumable, [Next]_vars
    PROVE  Resumable'
<1> mode' = mode BY Steady
<1> /\ row \in RunRows /\ copy \in RunRows /\ attempt \in Nat
    /\ \A c \in Cancellers : held[c] # NoCopy => held[c] \in RunRows
    /\ DOMAIN held = Cancellers
  BY DEF TypeOK, Under
<1> USE DEF Resumable, Under
<1>1. CASE Take
  <2>1. /\ row'.current = row.current /\ copy' = row' /\ held' = held /\ ~row.flag
        /\ attempt' = attempt + 1 /\ pc = "queue" /\ pc' = "taken"
    BY <1>1 DEF Take, others, RunRows
  <2>2. attempt' # 0 /\ (attempt' = 1 => attempt = 0) BY <2>1
  <2> QED BY <2>1, <2>2
<1>2. CASE TakeFlagged
  <2>1. /\ row'.current = row.current /\ copy' = row' /\ held' = held
        /\ attempt' = attempt /\ pc' = "cancelled"
    BY <1>2 DEF TakeFlagged, others, RunRows
  <2> QED BY <2>1
<1>3. CASE FileCancelled
  <2>1. UNCHANGED <<row, copy, held, attempt>> /\ pc' = "idle"
    BY <1>3 DEF FileCancelled, work, others
  <2> QED BY <2>1
\* What the worker does while it has an attempt: the copy is known to have a step.
<1>4. ASSUME UNCHANGED <<copy, held, attempt>>, pc \notin {"queue", "cancelled", "idle"},
             pc' \notin {"queue", "taken"}
      PROVE  Resumable'
  <2>1. attempt # 0 /\ (mode = "graph" => copy.current # "none") BY <1>4
  <2> QED BY <1>4, <2>1
<1>5. CASE HandleFailure
  <2>1. /\ UNCHANGED <<copy, held, attempt>> /\ pc = "failed" /\ pc' \in {"queue", "idle"}
        /\ row'.current = copy.current
    BY <1>5 DEF HandleFailure, work, others, RunRows
  <2> QED BY <2>1
<1>6. CASE LateSave
  <2>1. /\ row'.current # "none" /\ UNCHANGED <<copy, held, attempt, pc>>
    BY <1>6 DEF LateSave, Submitted, work
  <2> QED BY <2>1
<1>7. ASSUME NEW c \in Cancellers, CancelReads(c) PROVE Resumable'
  <2>1. UNCHANGED <<row, copy, attempt, pc>> /\ held' = [held EXCEPT ![c] = row]
    BY <1>7 DEF CancelReads, work
  <2> QED BY <2>1
<1>8. ASSUME NEW c \in Cancellers, CancelSaves(c) PROVE Resumable'
  <2>1. /\ UNCHANGED <<copy, attempt, pc>> /\ held' = [held EXCEPT ![c] = NoCopy]
        /\ row'.current = held[c].current /\ row'.flag = TRUE /\ held[c] # NoCopy
    BY <1>8 DEF CancelSaves, work, RunRows
  <2> QED BY <2>1
<1>9. CASE Die
  <2>1. UNCHANGED <<row, copy, held, attempt>> /\ pc' = "idle" BY <1>9 DEF Die, work, others
  <2> QED BY <2>1
<1>10. CASE UNCHANGED vars
  <2>1. UNCHANGED <<row, copy, held, attempt, pc>> BY <1>10 DEF vars, work, others
  <2> QED BY <2>1
<1>11. CASE \/ Answered \/ Begin \/ LoopCancelled \/ OpenStep \/ CloseStep \/ Advance
            \/ Complete \/ BatchCompletes \/ Returned \/ Synthetic \/ SaveTrip
            \/ SaveSuccess \/ FailStep \/ Raise
  <2>1. /\ UNCHANGED <<copy, held, attempt>> /\ pc \notin {"queue", "cancelled", "idle"}
        /\ pc' \notin {"queue", "taken"}
    BY <1>11 DEF Answered, Begin, LoopCancelled, OpenStep, CloseStep, Advance,
           Complete, BatchCompletes, Returned, Synthetic, SaveTrip,
           SaveSuccess, FailStep, Raise, Executing, work, others
  <2> QED BY <1>4, <2>1
<1>12. CASE Decide
  <2>1. /\ UNCHANGED <<copy, held, attempt>> /\ pc = "coordinator"
        /\ pc' \in {"returned", "batch", "specialist"}
    BY <1>12 DEF Decide, others
  <2> QED BY <1>4, <2>1
<1>13. ASSUME NEW role \in BatchRoles, BatchMemberCompletes(role) PROVE Resumable'
  <2>1. UNCHANGED <<copy, held, attempt>> /\ pc = "batch" /\ pc' = "batch"
    BY <1>13 DEF BatchMemberCompletes, others
  <2> QED BY <1>4, <2>1
<1> QED BY <1>1, <1>2, <1>3, <1>5, <1>6, <1>7, <1>8, <1>9, <1>10, <1>11, <1>12, <1>13
    DEF Next, Work

LEMMA WalksStep ==
    ASSUME TypeOK, ModesApart, CopiesSound, Resumable, Walks, [Next]_vars
    PROVE  Walks'
<1> mode' = mode /\ (late => late') BY Steady
<1> SUFFICES ASSUME mode = "graph", ~late' PROVE Walks'
  BY DEF Walks
<1> USE DEF InGraph
<1> row \in RunRows /\ copy \in RunRows /\ trace \in Seq(Agents) /\ pc \notin InCoordinator
  BY DEF TypeOK, ModesApart
<1> Walk(trace) BY DEF Walks
<1> "none" # Steps[1] BY DEF Steps
<1> \A t, step : OnWalk(t, step) => Walk(t) BY DEF OnWalk
<1>1. CASE Begin
  <2>1. /\ trace' = row.context /\ pc' = "loop" /\ row' = row /\ attempt' = attempt
        /\ next' = IF row.current = "none" THEN Steps[1] ELSE row.current
    BY <1>1 DEF Begin, Steps
  <2>2. OnWalk(row.context, row.current) BY DEF CopiesSound, Sound
  <2>3. row.current = "none" => row.flag /\ attempt > 1
    <3>1. pc = "taken" /\ attempt \in Nat BY <1>1 DEF Begin, TypeOK
    <3>2. row.current = "none" => row.flag /\ attempt # 0 /\ attempt # 1 BY <3>1 DEF Resumable
    <3> QED BY <3>1, <3>2
  <2> QED BY <2>1, <2>2, <2>3 DEF Walks
<1>2. CASE OpenStep BY <1>2 DEF OpenStep, Walks
<1>3. CASE CloseStep BY <1>3 DEF CloseStep, Walks
<1>4. CASE Advance
  <2>1. next \in Agents /\ OnWalk(trace, next) BY <1>4 DEF Advance, ModesApart, Walks
  <2>2. trace' = ExecuteStep(next, trace) /\ next' \in Upcoming(next) /\ pc' = "loop"
    BY <1>4 DEF Advance
  <2>3. OnWalk(trace', next') BY <2>1, <2>2, WalkOn
  <2> QED BY <2>2, <2>3 DEF Walks
<1>5. CASE SaveTrip
  <2>1. OnWalk(trace, "none") BY <1>5 DEF SaveTrip, Walks, InCoordinator
  <2> QED BY <1>5, <2>1 DEF SaveTrip, Walks, work
<1>6. CASE LateSave
  <2>1. /\ UNCHANGED <<pc, trace, next, attempt>> /\ ~(attempt > 1)
    BY <1>6 DEF LateSave, work
  <2> QED BY <2>1 DEF Walks
<1>7. ASSUME NEW c \in Cancellers, CancelReads(c) \/ CancelSaves(c) PROVE Walks'
  <2>1. UNCHANGED <<pc, trace, next, attempt>> /\ (row' = row \/ row'.flag)
    BY <1>7 DEF CancelReads, CancelSaves, work, TypeOK, Under, RunRows
  <2> QED BY <2>1 DEF Walks
<1>8. CASE UNCHANGED vars
  <2>1. UNCHANGED <<row, pc, trace, next, attempt>> BY <1>8 DEF vars, work
  <2> QED BY <2>1 DEF Walks
<1>9. CASE \/ Take \/ TakeFlagged \/ FileCancelled \/ Answered \/ HandleFailure \/ LoopCancelled
           \/ SaveSuccess \/ FailStep \/ Raise \/ Die
  <2>1. /\ trace' = trace
        /\ pc' \in {"taken", "cancelled", "idle", "failed", "queue"}
    BY <1>9 DEF Take, TakeFlagged, FileCancelled, Answered, HandleFailure, LoopCancelled,
           SaveSuccess, FailStep, Raise, Die, work
  <2> QED BY <2>1 DEF Walks
<1>10. ~(\/ Decide \/ Complete \/ (\E role \in BatchRoles : BatchMemberCompletes(role))
         \/ BatchCompletes \/ Returned \/ Synthetic)
  BY DEF Decide, Complete, BatchMemberCompletes, BatchCompletes, Returned, Synthetic, InCoordinator
<1> QED BY <1>1, <1>2, <1>3, <1>4, <1>5, <1>6, <1>7, <1>8, <1>9, <1>10 DEF Next, Work
-----------------------------------------------------------------------------
LEMMA OrderStep ==
    ASSUME TypeOK, ModesApart, OpenRow, InOrder, [Next]_vars
    PROVE  InOrder'
<1> SUFFICES ASSUME mode' = "graph" PROVE \A i \in DOMAIN rows' : rows'[i].sequence = i
  BY DEF InOrder
<1>1. mode = "graph" BY Steady
<1>2. rows \in Seq(StepRows) /\ pc \notin InCoordinator
      /\ \A i \in DOMAIN rows : rows[i].sequence = i
  BY <1>1 DEF TypeOK, ModesApart, InOrder
<1>3. ASSUME NEW name, NEW status, rows' = Append(rows, StepRow(name, NextSequence, status))
      PROVE  \A i \in DOMAIN rows' : rows'[i].sequence = i
  <2>1. StepRow(name, NextSequence, status).sequence = Len(rows) + 1 BY DEF StepRow, NextSequence
  <2>2. DOMAIN rows' = 1 .. Len(rows) + 1 /\ DOMAIN rows = 1 .. Len(rows) /\ Len(rows) \in Nat
        /\ rows'[Len(rows) + 1] = StepRow(name, NextSequence, status)
        /\ \A i \in DOMAIN rows : rows'[i] = rows[i]
    BY <1>2, <1>3
  <2> QED BY <1>2, <2>1, <2>2
<1>4. CASE FileCancelled BY <1>2, <1>3, <1>4 DEF FileCancelled
<1>5. CASE OpenStep BY <1>3, <1>5 DEF OpenStep
<1>6. CASE CloseStep \/ FailStep
  <2>1. PICK status \in {"succeeded", "failed"} : rows' = WithStatus(open, status)
    BY <1>6 DEF CloseStep, FailStep
  <2>2. open \in DOMAIN rows BY <1>6 DEF CloseStep, FailStep, OpenRow
  <2>3. /\ DOMAIN rows' = DOMAIN rows
        /\ \A j \in DOMAIN rows : rows'[j].sequence = rows[j].sequence
    BY <1>2, <2>1, <2>2, StatusSet
  <2> QED BY <1>2, <2>3
<1>7. CASE rows' = rows BY <1>2, <1>7
<1> QED BY <1>2, <1>4, <1>5, <1>6, <1>7
    DEF Next, Work, vars, Take, TakeFlagged, Answered, Begin, HandleFailure, LoopCancelled, Advance,
        Decide, Complete, BatchMemberCompletes, BatchCompletes, Returned, Synthetic, SaveTrip,
        SaveSuccess, Raise, Die, LateSave, CancelReads, CancelSaves, InCoordinator
-----------------------------------------------------------------------------
LEMMA CoverageStep ==
    ASSUME TypeOK, ModesApart, OpenRow, AgentsDone, CopiesSound, Coverage, [Next]_vars
    PROVE  Coverage'
<1> Kept BY RowsKept
<1> mode' = mode /\ (trip => trip') BY Steady
<1> USE DEF InGraph
<1> trace \in Seq(Agents) BY DEF TypeOK
<1>a. \A agent : Shown(agent) => ShownNext(agent) BY ShownStays DEF ShownNext
<1>b. \A t : Covered(t) => CoveredNext(t) BY CoveredStays
<1>1. CASE Begin
  <2>1. /\ pc' \in {"loop", "coordinator"}
        /\ mode = "graph" => trace' = row.context
    BY <1>1 DEF Begin
  <2>2. mode = "graph" => Covered(row.context) BY DEF CopiesSound, Sound
  <2> QED BY <1>b, <2>1, <2>2, CopiesNext
<1>2. CASE CloseStep
  <2>1. /\ pc' = "closed" /\ open \in DOMAIN rows /\ rows[open].name = next
        /\ rows' = WithStatus(open, "succeeded") /\ UNCHANGED <<next, trace>>
    BY <1>2 DEF CloseStep, OpenRow
  <2>2. open \in DOMAIN rows' /\ rows'[open].name = next /\ rows'[open].status = "succeeded"
    BY <2>1, StatusSet DEF TypeOK
  <2>3. ShownNext(next') BY <2>1, <2>2 DEF ShownNext
  <2>4. mode = "graph" => CoveredNext(trace') BY <1>b, <2>1 DEF Coverage
  <2> QED BY <2>1, <2>3, <2>4, CopiesNext
<1>3. CASE Advance
  <2>1. trace' = ExecuteStep(next, trace) /\ pc' = "loop" /\ pc = "closed" BY <1>3 DEF Advance
  <2>2. next \in Agents /\ Shown(next) BY <2>1 DEF Coverage, ModesApart
  <2>3. mode = "graph" => CoveredNext(trace') BY <2>1, <2>2, LongerCovered DEF Coverage
  <2> QED BY <2>1, <2>3, CopiesNext
<1>4. CASE \/ Decide \/ Complete \/ (\E role \in BatchRoles : BatchMemberCompletes(role))
           \/ BatchCompletes \/ Returned
  <2>1. /\ pc' \in InCoordinator /\ pc \in InCoordinator
        /\ pc' = "synthetic" => written' = written /\ pc # "synthetic"
    BY <1>4 DEF Decide, Complete, BatchMemberCompletes, BatchCompletes, Returned, InCoordinator
  <2>2. mode # "graph" BY <2>1 DEF ModesApart
  <2>3. pc' = "synthetic" => written' = 0 BY <2>1 DEF ModesApart
  <2>4. pc' = "synthetic" => \A k \in 1 .. written' : ShownNext(trace'[k]) BY <2>3
  <2>5. pc' \notin {"closed", "stored"} BY <2>1 DEF InCoordinator
  <2> QED BY <2>2, <2>4, <2>5, CopiesNext
<1>5. CASE Synthetic
  <2>1. /\ pc = "synthetic" /\ pc' = "synthetic" /\ written' = written + 1 /\ trace' = trace
    BY <1>5 DEF Synthetic
  <2>2. mode # "graph" BY <2>1 DEF ModesApart, InCoordinator
  <2>3. ShownNext(trace[written + 1]) BY <1>5, SyntheticRows DEF ShownNext
  <2>4. \A k \in 1 .. written + 1 : ShownNext(trace[k])
    <3>1. \A k \in 1 .. written : Shown(trace[k]) BY <2>1 DEF Coverage
    <3>2. written \in Nat BY DEF TypeOK
    <3>3. ASSUME NEW k \in 1 .. written + 1 PROVE ShownNext(trace[k])
      <4>1. k = written + 1 \/ k \in 1 .. written BY <3>2
      <4> QED BY <1>a, <2>3, <3>1, <4>1
    <3> QED BY <3>3
  <2> QED BY <2>1, <2>2, <2>4, CopiesNext
<1>6. CASE SaveTrip
  <2>1. trace' = trace /\ trip' /\ pc' = "stored" BY <1>6 DEF SaveTrip, work
  <2>2. Covered(trace)
    <3>1. CASE pc = "loop" BY <3>1 DEF Coverage, ModesApart, TypeOK
    <3>2. CASE pc = "synthetic" /\ written = Len(trace)
      <4>1. \A k \in 1 .. Len(trace) : Shown(trace[k]) BY <3>2 DEF Coverage
      <4> QED BY <4>1 DEF Covered, Range
    <3> QED BY <1>6, <3>1, <3>2 DEF SaveTrip
  <2> QED BY <1>b, <2>1, <2>2, CopiesNext
<1>7. CASE \/ Take \/ TakeFlagged \/ FileCancelled \/ Answered \/ HandleFailure \/ LoopCancelled
           \/ OpenStep \/ SaveSuccess \/ FailStep \/ Raise \/ Die
  <2>1. trace' = trace /\ pc' \notin {"closed", "synthetic", "stored"}
    BY <1>7 DEF Take, TakeFlagged, FileCancelled, Answered, HandleFailure, LoopCancelled, OpenStep,
           SaveSuccess, FailStep, Raise, Die, work
  <2>2. mode = "graph" => CoveredNext(trace') BY <1>b, <2>1 DEF Coverage
  <2> QED BY <2>1, <2>2, CopiesNext
<1>8. CASE \/ LateSave \/ (\E c \in Cancellers : CancelReads(c) \/ CancelSaves(c))
           \/ UNCHANGED vars
  <2>1. UNCHANGED <<pc, next, trace, written, trip>>
    BY <1>8 DEF LateSave, CancelReads, CancelSaves, vars, work
  <2> QED BY <1>a, <1>b, <2>1, CopiesNext DEF Coverage
<1> QED BY <1>1, <1>2, <1>3, <1>4, <1>5, <1>6, <1>7, <1>8 DEF Next, Work
-----------------------------------------------------------------------------
LEMMA OpenRowStep ==
    ASSUME TypeOK, ModesApart, OpenRow, AgentsDone, [Next]_vars
    PROVE  OpenRow'
<1> Kept BY RowsKept
<1> rows \in Seq(StepRows) /\ faults \in Nat BY DEF TypeOK
<1>1. ASSUME NEW name, rows' = Append(rows, StepRow(name, NextSequence, "running")), name = next,
             open' = Len(rows) + 1, pc' \in {"step", "specialist"},
             UNCHANGED <<next, attempt, faults>>, pc \notin {"step", "specialist"}
      PROVE  OpenRow'
  <2> DEFINE added == StepRow(name, NextSequence, "running")
  <2>1. added.name = next /\ added.status = "running" /\ added.attempt = attempt
    BY <1>1 DEF StepRow
  <2> HIDE DEF added
  <2>2. /\ DOMAIN rows' = 1 .. Len(rows) + 1 /\ DOMAIN rows = 1 .. Len(rows) /\ Len(rows) \in Nat
        /\ rows'[Len(rows) + 1] = added /\ \A i \in DOMAIN rows : rows'[i] = rows[i]
    BY <1>1 DEF added
  <2>3. faults = 0 => \A i \in DOMAIN rows : rows[i].status # "running" BY <1>1 DEF OpenRow
  <2> QED BY <1>1, <2>1, <2>2, <2>3 DEF OpenRow
<1>2. CASE OpenStep BY <1>1, <1>2 DEF OpenStep
<1>3. CASE Decide
  <2>1. CASE next \in {"none", "batch"}
    <3>1. rows' = rows /\ pc' \notin {"step", "specialist"} /\ faults' = faults
          /\ pc = "coordinator"
      BY <1>3, <2>1 DEF Decide
    <3> QED BY <3>1 DEF OpenRow
  <2>2. CASE next \notin {"none", "batch"}
    <3>1. /\ rows' = Append(rows, StepRow(next, NextSequence, "running"))
          /\ open' = Len(rows) + 1 /\ pc' = "specialist" /\ pc = "coordinator"
          /\ UNCHANGED <<next, attempt, faults>>
      BY <1>3, <2>2 DEF Decide
    <3> QED BY <1>1, <3>1
  <2> QED BY <2>1, <2>2
<1>4. CASE CloseStep \/ Complete \/ FailStep
  <2>1. PICK status \in {"succeeded", "failed"} : rows' = WithStatus(open, status)
    BY <1>4 DEF CloseStep, Complete, Closed, FailStep
  <2>2. open \in DOMAIN rows /\ pc' \notin {"step", "specialist"}
        /\ (faults' = faults \/ faults' = faults + 1)
    BY <1>4 DEF CloseStep, Complete, FailStep, OpenRow
  <2>3. /\ DOMAIN rows' = DOMAIN rows /\ rows'[open].status = status
        /\ \A j \in DOMAIN rows : j # open => rows'[j] = rows[j]
    BY <2>1, <2>2, StatusSet
  <2>4. ASSUME faults' = 0, NEW i \in DOMAIN rows', rows'[i].status = "running" PROVE FALSE
    <3>1. faults = 0 BY <2>2, <2>4
    <3>2. i # open /\ rows[i].status = "running" /\ i \in DOMAIN rows BY <2>3, <2>4
    <3> QED BY <3>1, <3>2 DEF OpenRow
  <2> QED BY <2>2, <2>4 DEF OpenRow
<1>5. CASE Synthetic
  <2>1. pc = "synthetic" /\ pc' = "synthetic" /\ faults' = faults BY <1>5 DEF Synthetic
  <2>2. ASSUME NEW i \in DOMAIN rows', rows'[i].status = "running"
        PROVE  i \in DOMAIN rows /\ rows[i].status = "running"
    BY <1>5, <2>2, SyntheticRows
  <2> QED BY <2>1, <2>2 DEF OpenRow
<1>6. CASE FileCancelled
  <2>1. /\ \/ rows' = rows
           \/ rows' = Append(rows, StepRow(copy.current, NextSequence, "cancelled"))
        /\ pc = "cancelled" /\ pc' = "idle" /\ faults' = faults
    BY <1>6 DEF FileCancelled
  <2>2. ASSUME NEW i \in DOMAIN rows', rows'[i].status = "running"
        PROVE  i \in DOMAIN rows /\ rows[i].status = "running"
    <3>1. StepRow(copy.current, NextSequence, "cancelled").status = "cancelled" BY DEF StepRow
    <3> QED BY <2>1, <2>2, <3>1
  <2> QED BY <2>1, <2>2 DEF OpenRow
<1>7. CASE Raise \/ Die
  <2>1. rows' = rows /\ faults' = faults + 1 /\ pc' \notin {"step", "specialist"}
    BY <1>7 DEF Raise, Die
  <2> QED BY <2>1 DEF OpenRow
<1>8. CASE \/ LateSave \/ (\E c \in Cancellers : CancelReads(c) \/ CancelSaves(c))
           \/ UNCHANGED vars
  <2>1. UNCHANGED <<rows, pc, open, next, attempt, faults>>
    BY <1>8 DEF LateSave, CancelReads, CancelSaves, vars, work
  <2> QED BY <2>1 DEF OpenRow
<1>9. CASE \/ Take \/ TakeFlagged \/ Answered \/ Begin \/ HandleFailure \/ LoopCancelled \/ Advance
           \/ (\E role \in BatchRoles : BatchMemberCompletes(role)) \/ BatchCompletes
           \/ Returned \/ SaveTrip
  <2>1. /\ rows' = rows /\ faults' = faults
        /\ pc \notin {"step", "specialist"} /\ pc' \notin {"step", "specialist"}
    BY <1>9 DEF Take, TakeFlagged, Answered, Begin, HandleFailure, LoopCancelled, Advance,
           BatchMemberCompletes, BatchCompletes, Returned, SaveTrip
  <2> QED BY <2>1 DEF OpenRow
<1>10. CASE SaveSuccess
  <2>1. /\ rows' = rows /\ (faults' = faults \/ faults' = faults + 1)
        /\ pc = "stored" /\ pc' \in {"idle", "failed"}
    BY <1>10 DEF SaveSuccess
  <2>2. faults' = 0 => faults = 0 BY <2>1
  <2> QED BY <2>1, <2>2 DEF OpenRow
<1> QED BY <1>2, <1>3, <1>4, <1>5, <1>6, <1>7, <1>8, <1>9, <1>10 DEF Next, Work
-----------------------------------------------------------------------------
LEMMA CancelStep ==
    ASSUME TypeOK, ModesApart, OpenRow, AgentsDone, CancelledLast, CancelledRowsAgree, [Next]_vars
    PROVE  CancelledLast' /\ CancelledRowsAgree'
<1> Kept BY RowsKept
<1> rows \in Seq(StepRows) /\ row \in RunRows BY DEF TypeOK
<1>1. CASE FileCancelled
  <2>1. /\ pc = "cancelled" /\ pc' = "idle" /\ row' = row /\ overwritten' = overwritten
    BY <1>1 DEF FileCancelled, others
  <2>2. /\ row'.status = "cancelled" \/ overwritten'
        /\ \A i \in DOMAIN rows : rows[i].status # "cancelled"
    BY <2>1 DEF CancelledLast
  <2>3. CASE rows' = rows BY <2>1, <2>2, <2>3 DEF CancelledLast, CancelledRowsAgree
  <2>4. CASE rows' = Append(rows, StepRow(copy.current, NextSequence, "cancelled"))
    <3> DEFINE added == StepRow(copy.current, NextSequence, "cancelled")
    <3>1. rows' = Append(rows, added) BY <2>4
    <3> HIDE DEF added
    <3>2. /\ DOMAIN rows' = 1 .. Len(rows) + 1 /\ DOMAIN rows = 1 .. Len(rows)
          /\ Len(rows) \in Nat /\ Len(rows') = Len(rows) + 1
          /\ \A i \in DOMAIN rows : rows'[i] = rows[i]
      BY <3>1
    <3>3. ASSUME NEW i \in DOMAIN rows', rows'[i].status = "cancelled" PROVE i = Len(rows')
      BY <2>2, <3>2, <3>3
    <3> QED BY <2>1, <2>2, <3>3 DEF CancelledLast, CancelledRowsAgree
  <2> QED BY <1>1, <2>3, <2>4 DEF FileCancelled
\* No other step files such a row.
<1>2. ASSUME ~FileCancelled, NEW i \in DOMAIN rows', rows'[i].status = "cancelled"
      PROVE  i \in DOMAIN rows /\ rows[i].status = "cancelled"
  <2> SUFFICES i \in DOMAIN rows BY <1>2 DEF Kept
  <2>1. ASSUME rows' = Append(rows, StepRow(next, NextSequence, "running"))
        PROVE  i \in DOMAIN rows
    <3>1. StepRow(next, NextSequence, "running").status # "cancelled" BY DEF StepRow
    <3> QED BY <1>2, <2>1, <3>1
  <2>2. CASE Synthetic BY <1>2, <2>2, SyntheticRows
  <2>3. CASE CloseStep \/ Complete \/ FailStep
    <3>1. PICK status \in {"succeeded", "failed"} : rows' = WithStatus(open, status)
      BY <2>3 DEF CloseStep, Complete, Closed, FailStep
    <3>2. open \in DOMAIN rows BY <2>3 DEF CloseStep, Complete, FailStep, OpenRow
    <3>3. DOMAIN rows' = DOMAIN rows BY <3>1, <3>2, StatusSet
    <3> QED BY <1>2, <3>3
  <2>4. CASE Decide
    <3>1. CASE next \in {"none", "batch"} BY <2>4, <3>1, <1>2 DEF Decide
    <3>2. CASE next \notin {"none", "batch"} BY <2>1, <2>4, <3>2 DEF Decide
    <3> QED BY <3>1, <3>2
  <2>5. CASE OpenStep BY <2>1, <2>5 DEF OpenStep
  <2>6. CASE rows' = rows BY <1>2, <2>6
  <2> QED
    BY <1>2, <2>2, <2>3, <2>4, <2>5, <2>6
    DEF Next, Work, vars, Take, TakeFlagged, Answered, Begin, HandleFailure, LoopCancelled, Advance,
        BatchMemberCompletes, BatchCompletes, Returned, SaveTrip, SaveSuccess, Raise, Die,
        LateSave, CancelReads, CancelSaves
\* The other writers change the row, and say so.
<1>3. CASE \/ LateSave \/ (\E c \in Cancellers : CancelReads(c) \/ CancelSaves(c))
           \/ UNCHANGED vars
  <2>1. UNCHANGED <<rows, pc>>
    BY <1>3 DEF LateSave, CancelReads, CancelSaves, vars, work
  <2>2. row.status = "cancelled" \/ overwritten => row'.status = "cancelled" \/ overwritten'
    <3>1. CASE LateSave
      <4>1. Submitted.status # "cancelled" BY DEF Submitted
      <4> QED BY <3>1, <4>1 DEF LateSave
    <3>2. ASSUME NEW c \in Cancellers, CancelSaves(c)
          PROVE  row.status = "cancelled" \/ overwritten => row'.status = "cancelled" \/ overwritten'
      <4>1. row = held[c] => row' = [row EXCEPT !.flag = TRUE, !.status = IF @ = "queued" THEN "cancelled" ELSE @]
        BY <3>2 DEF CancelSaves
      <4>2. row = held[c] /\ row.status = "cancelled" => row'.status = "cancelled"
        BY <4>1 DEF RunRows
      <4> QED BY <3>2, <4>2 DEF CancelSaves
    <3>3. CASE (\E c \in Cancellers : CancelReads(c)) \/ UNCHANGED vars
      BY <3>3 DEF CancelReads, vars, others
    <3> QED BY <1>3, <3>1, <3>2, <3>3
  <2> QED BY <2>1, <2>2 DEF CancelledLast, CancelledRowsAgree
\* The worker, while it has the run.
<1>4. CASE /\ ~FileCancelled
           /\ ~(\/ LateSave \/ (\E c \in Cancellers : CancelReads(c) \/ CancelSaves(c))
                \/ UNCHANGED vars)
  <2>1. pc # "idle"
    BY <1>4 DEF Next, Work, Take, TakeFlagged, Answered, Begin, HandleFailure, LoopCancelled,
       OpenStep, CloseStep, Advance, Decide, Complete, BatchMemberCompletes, BatchCompletes,
       Returned, Synthetic, SaveTrip, SaveSuccess, FailStep, Raise, Die, Executing
  <2>2. \A i \in DOMAIN rows : rows[i].status # "cancelled" BY <2>1 DEF CancelledLast
  <2>3. \A i \in DOMAIN rows' : rows'[i].status # "cancelled" BY <1>2, <1>4, <2>2
  <2>4. pc' = "cancelled" => row'.status = "cancelled"
    <3>1. CASE TakeFlagged BY <3>1 DEF TakeFlagged, RunRows
    <3>2. CASE LoopCancelled
      <4>1. copy \in RunRows BY DEF TypeOK
      <4> QED BY <3>2, <4>1 DEF LoopCancelled, RunRows
    <3>3. CASE Decide
      <4>1. pc' \in {"returned", "batch", "specialist"} BY <3>3 DEF Decide
      <4> QED BY <4>1
    <3>4. CASE Synthetic \/ (\E role \in BatchRoles : BatchMemberCompletes(role))
      <4>1. pc' = pc /\ pc # "cancelled" BY <3>4 DEF Synthetic, BatchMemberCompletes
      <4> QED BY <4>1
    <3> QED BY <1>4, <3>1, <3>2, <3>3, <3>4
        DEF Next, Work, Take, Answered, Begin, HandleFailure, OpenStep, CloseStep, Advance,
            Complete, BatchCompletes, Returned, SaveTrip, SaveSuccess, FailStep, Raise, Die
  <2> QED BY <2>3, <2>4 DEF CancelledLast, CancelledRowsAgree
<1> QED BY <1>1, <1>3, <1>4

LEMMA AgentsDoneStep ==
    ASSUME TypeOK, ModesApart, OpenRow, AgentsDone, [Next]_vars
    PROVE  AgentsDone'
<1> SUFFICES ASSUME mode' = "coordinator", pc' # "idle",
                    NEW i \in DOMAIN rows', rows'[i].name \in Agents
             PROVE  rows'[i].status = "succeeded"
  BY DEF AgentsDone
<1> Kept BY RowsKept
<1> rows \in Seq(StepRows) BY DEF TypeOK
<1>1. mode = "coordinator" BY Steady
<1>2. pc \notin InGraph /\ next \in Alone \cup {"batch", "none"} BY <1>1 DEF ModesApart
<1>3. pc # "idle"
  BY DEF Next, Work, vars, work, Take, TakeFlagged, FileCancelled, Answered, Begin, HandleFailure,
         LoopCancelled, OpenStep, CloseStep, Advance, Decide, Complete, BatchMemberCompletes,
         BatchCompletes, Returned, Synthetic, SaveTrip, SaveSuccess, FailStep, Raise, Die, LateSave,
         CancelReads, CancelSaves, Executing
<1>4. CASE i \in DOMAIN rows
  <2>1. rows[i].status = "succeeded" BY <1>1, <1>3, <1>4 DEF Kept, AgentsDone
  <2> QED BY <1>4, <2>1 DEF Kept
<1>5. CASE i \notin DOMAIN rows
  <2>1. CASE Synthetic BY <1>5, <2>1, SyntheticRows
  <2>2. CASE Complete
    <3>1. open \in DOMAIN rows BY <2>2 DEF Complete, OpenRow
    <3> QED BY <1>5, <2>2, <3>1, StatusSet DEF Complete, Closed
  <2>3. CASE Decide
    <3>1. next \notin {"none", "batch"} /\ rows' = Append(rows, StepRow(next, NextSequence, "running"))
      BY <1>5, <2>3 DEF Decide
    <3>2. rows'[i] = StepRow(next, NextSequence, "running") BY <1>5, <3>1
    <3>3. rows'[i].name = next BY <3>2 DEF StepRow
    <3> QED BY <1>2, <3>1, <3>3, NamesApart
  <2>4. rows' = rows \/ Synthetic \/ Complete \/ Decide
    BY <1>2 DEF Next, Work, vars, Take, TakeFlagged, FileCancelled, Answered, Begin, HandleFailure,
         LoopCancelled, OpenStep, CloseStep, Advance, BatchMemberCompletes, BatchCompletes,
         Returned, SaveTrip, SaveSuccess, FailStep, Raise, Die, LateSave, CancelReads, CancelSaves,
         InGraph
  <2> QED BY <1>5, <2>1, <2>2, <2>3, <2>4
<1> QED BY <1>4, <1>5
-----------------------------------------------------------------------------
LEMMA InvInit == Init => Inv
<1> SUFFICES ASSUME Init PROVE Inv OBVIOUS
<1>1. TypeOK /\ ModesApart BY TypeInit
<1>2. Walks /\ Resumable
  <2>1. mode = "graph" => row.current # "none" BY DEF Init, Submitted
  <2>2. \A c \in Cancellers : ~Under(c) BY DEF Init, Under
  <2> QED BY <2>1, <2>2 DEF Init, Walks, Walk, Resumable, InGraph
<1>3. InOrder /\ OpenRow /\ CancelledLast /\ AgentsDone /\ CancelledRowsAgree
  BY DEF Init, InOrder, OpenRow, CancelledLast, AgentsDone, CancelledRowsAgree
<1>4. Coverage /\ CopiesSound
  <2>1. Covered(<<>>) BY DEF Covered, Range
  <2>2. Sound(Submitted)
    <3>1. Submitted.context = <<>> /\ Submitted.status = "queued" BY DEF Submitted
    <3>2. mode = "graph" => Submitted.current = Steps[1] BY DEF Submitted, Steps
    <3>3. Steps[1] \in Agents BY AgentsAre DEF Agents, Range
    <3> QED BY <2>1, <3>1, <3>2, <3>3 DEF Sound, OnWalk, Walk
  <2>3. \A c \in Cancellers : ~Under(c) BY DEF Init, Under
  <2> QED BY <2>1, <2>2, <2>3 DEF Init, Coverage, CopiesSound
<1> QED BY <1>1, <1>2, <1>3, <1>4 DEF Inv

LEMMA InvStep == Inv /\ [Next]_vars => Inv'
BY TypeStep, ModesStep, CopiesStep, ResumableStep, WalksStep, OrderStep, CoverageStep, OpenRowStep,
   CancelStep, AgentsDoneStep
   DEF Inv

\* Every copy of the run row that someone may still save is sound, whoever saves late, and
\* with the attempt at work it makes the invariant from which the theorems below follow.
THEOREM InvHolds == Spec => []Inv
BY InvInit, InvStep, PTL DEF Spec

\* A run that succeeded has its trip and a finished row for every agent of its trace.
THEOREM Finished == Spec => []FinishedRunIsCovered
<1>1. Inv => FinishedRunIsCovered
  BY DEF Inv, CopiesSound, Sound, Covered, Shown, FinishedRunIsCovered
<1> QED BY <1>1, InvHolds, PTL

\* In graph mode the context of a run is that of one walk through the graph, unless the
\* submission saved its row once more when a retry had begun.
THEOREM OneWalkHolds == Spec => []OneWalk
<1>1. Inv => OneWalk
  <2> SUFFICES ASSUME Inv, mode = "graph", ~late
               PROVE  /\ Walk(trace) /\ Walk(row.context)
                      /\ row.status = "succeeded" => "none" \in Upcoming(Last(row.context))
    BY DEF OneWalk
  <2>1. Walk(trace) /\ OnWalk(row.context, row.current) BY DEF Inv, Walks, CopiesSound, Sound
  <2>2. ASSUME row.status = "succeeded" PROVE "none" \in Upcoming(Last(row.context))
    <3>1. OnWalk(row.context, "none") BY <2>1, <2>2 DEF Inv, CopiesSound, Sound
    <3>2. "none" # Steps[1] BY DEF Steps
    <3> QED BY <3>1, <3>2 DEF OnWalk
  <2> QED BY <2>1, <2>2 DEF OnWalk
<1> QED BY <1>1, InvHolds, PTL

\* In graph mode no two rows share their place in the order.
THEOREM Distinct == Spec => []SequencesDistinct
<1>1. Inv => SequencesDistinct BY DEF Inv, InOrder, SequencesDistinct
<1> QED BY <1>1, InvHolds, PTL

\* A row that says "running" is that of the step that runs, unless a fault left it.
THEOREM OpenRows == Spec => []OpenRowsExplained
<1>1. Inv => OpenRowsExplained
  <2>1. ASSUME Inv, NEW i \in DOMAIN rows, rows[i].status = "running", ~(faults > 0)
        PROVE  Executing /\ open = i
    <3>1. faults = 0 BY <2>1 DEF Inv, TypeOK
    <3> QED BY <2>1, <3>1 DEF Inv, OpenRow, Executing
  <2> QED BY <2>1 DEF OpenRowsExplained
<1> QED BY <1>1, InvHolds, PTL

\* After a row for a cancelled run the worker does nothing more for it, and the run row
\* says that it is cancelled unless someone saved an older copy of it over another.
THEOREM CancelledRows == Spec => []CancelledRowsAgree
BY InvHolds, PTL DEF Inv

\* No step rewrites the outcome of a row, but for the open row of its own attempt.
THEOREM OldRows == Spec => OldRowsStand
<1>1. Inv /\ [Next]_vars =>
        \A i \in DOMAIN rows :
          rows'[i].status # rows[i].status => rows[i].status = "running" /\ rows[i].attempt = attempt
  BY RowsKept DEF Inv, Kept
<1> QED BY <1>1, InvHolds, PTL DEF Spec, OldRowsStand
=============================================================================
