---------------------------- MODULE ToolUseProofs ----------------------------
(***************************************************************************)
(* What holds of the agents and their tools for any configuration of       *)
(* providers, any number of rounds and any length of the audit log.        *)
(*                                                                         *)
(* The argument for RaisesExplained: the only agent that ever asks for a   *)
(* tool it may not use is the one that drafts the itinerary, at its second *)
(* stage, and it gets there only if the model has answered or failed       *)
(* politely, which needs its key (DraftHasModel).  For ReportsComplete:    *)
(* what stands in the context follows the agent that is due (Progress),    *)
(* and a fallback is written either without a key or after a failure.  For *)
(* MainAccountExact: the log is long enough, since every agent on the main *)
(* context serves at most one call at each of its stages (FewServed).      *)
(***************************************************************************)
EXTENDS ToolUse, TLAPS

Kinds == {"gather", "forecast", "model", "enrich"}
Tools == {"web_search", "weather_lookup", "json_completion", "google_hotels_search",
          "tripadvisor_search", "google_flights_search"}
Places == [agent: Agents \cup {"none", "failed"}, next: 1 .. 6, heard: BOOLEAN,
           source: {"none", "model", "fallback"}, open: BOOLEAN]

\* The coordinator runs four agents itself; only the one that is due works on the main
\* context.
DueAgents == {"research_destination", "draft_itinerary", "audit_budget", "critique_plan"}
DueIsKnown == due \in DueAgents \cup {"batch", "end", "raised"}
MainIsDue == at["main"].agent \in Agents => due = at["main"].agent
DueIsMain == due \in Agents => at["main"].agent = due

DraftHasModel ==
    \A c \in Contexts : at[c].agent = "draft_itinerary" /\ at[c].next >= 2 => "openai" \in keys

FailuresHaveCause ==
    /\ \A c \in Contexts : at[c].agent = "failed" => cause # "none"
    /\ due = "raised" => cause # "none"

CauseExplained ==
    \/ cause \in {"none", "unexpected", "timeout"}
    \/ cause = "no_executor" /\ "openai" \notin keys
    \/ cause = "not_allowed" /\ {"openai", "tavily"} \subseteq keys

\* What has been reported when an agent is due.
Progress ==
    /\ due \in {"draft_itinerary", "batch", "audit_budget", "critique_plan", "end"} =>
           "research_destination" \in reported
    /\ due \in {"batch", "audit_budget", "critique_plan", "end"} => "draft_itinerary" \in reported
    /\ due \in {"audit_budget", "critique_plan", "end"} => Parallel \subseteq reported
    /\ due \in {"critique_plan", "end"} => "audit_budget" \in reported
    /\ due = "end" => "critique_plan" \in reported
    /\ due \in {"batch", "audit_budget", "critique_plan", "end"} => "openai" \in keys

FallbacksExplained ==
    "openai" \in keys =>
        /\ fellBack => failed
        /\ \A c \in Contexts : at[c].source = "fallback" => failed

Account == account.calls = served /\ account.log = Least(served, AuditCap)

Inv == /\ TypeOK /\ DueIsKnown /\ MainIsDue /\ DueIsMain /\ DraftHasModel /\ FailuresHaveCause
       /\ CauseExplained /\ Progress /\ FallbacksExplained /\ Account
-----------------------------------------------------------------------------
LEMMA AgentNames ==
    /\ Agents = {"research_destination", "draft_itinerary", "recommend_stay", "plan_transport",
                 "recommend_food", "audit_budget", "review_safety", "critique_plan"}
    /\ Parallel \subseteq Agents /\ Contexts = {"main"} \cup Parallel
    /\ "none" \notin Agents /\ "failed" \notin Agents /\ "main" \notin Agents
BY DEF Agents, Tasks, Parallel, Contexts

\* What each stage of an agent asks for: the only one that is not allowed its tool is
\* the second of the itinerary.
LEMMA Stages ==
    ASSUME NEW agent \in Agents, NEW n \in 1 .. 6, n <= Len(Program[agent])
    PROVE  LET stage == Program[agent][n]
           IN  /\ stage.kind \in Kinds /\ stage.tool \in Tools /\ n <= 5
               /\ stage.kind = "model" => stage.tool = "json_completion"
               /\ agent \notin AllowedAgents[stage.tool] =>
                      agent = "draft_itinerary" /\ n = 2 /\ stage.tool = "web_search"
               /\ agent = "draft_itinerary" /\ n = 1 => stage.kind = "model"
<1> USE DEF Gather, Forecast, Model, Enrich, Kinds, Tools, AllowedAgents
<1>1. CASE agent = "research_destination"
  <2>1. Program[agent] = Research BY <1>1 DEF Program
  <2>2. n \in 1 .. 5 BY <2>1 DEF Research
  <2> QED BY <1>1, <2>1, <2>2 DEF Research
<1>2. CASE agent = "draft_itinerary"
  <2>1. Program[agent] = Itinerary BY <1>2 DEF Program
  <2> QED BY <1>2, <2>1 DEF Itinerary
<1>3. CASE agent = "recommend_stay"
  <2>1. Program[agent] = Stay BY <1>3 DEF Program
  <2> QED BY <1>3, <2>1, AgentNames DEF Stay
<1>4. CASE agent = "plan_transport"
  <2>1. Program[agent] = Transport BY <1>4 DEF Program
  <2> QED BY <1>4, <2>1, AgentNames DEF Transport
<1>5. CASE agent = "recommend_food"
  <2>1. Program[agent] = Food BY <1>5 DEF Program
  <2> QED BY <1>5, <2>1, AgentNames DEF Food
<1>6. CASE agent \in {"audit_budget", "review_safety", "critique_plan"}
  <2>1. Program[agent] = <<Model>> BY <1>6 DEF Program, BudgetAudit, SafetyAdvice, PlanReview
  <2> QED BY <1>6, <2>1, AgentNames
<1> QED BY <1>1, <1>2, <1>3, <1>4, <1>5, <1>6, AgentNames

\* What a call may come back with.
Answers == {"answered", "client_error", "other_error", "validation_error", "not_allowed",
            "garbled", "useless"}

LEMMA OutcomesType ==
    ASSUME NEW tool \in Tools, NEW agent \in Agents
    PROVE  Yields[tool] \cup Digests(agent, tool) \subseteq Answers \ {"not_allowed"}
<1>1. Digests(agent, tool) \subseteq {"garbled", "useless"} BY DEF Digests
<1>2. Yields[tool] \subseteq {"answered", "client_error", "other_error", "validation_error"}
  BY DEF Yields, Tools, WebSearchYields, WeatherYields, CompletionYields, HotelsYields,
         TripadvisorYields, FlightsYields, JsonRequest
<1> QED BY <1>1, <1>2 DEF Answers

LEMMA IdlePlaces ==
    /\ Idle \in Places /\ Idle.agent = "none" /\ Idle.source = "none"
    /\ \A agent \in Agents : /\ Begin(agent) \in Places /\ Begin(agent).agent = agent
                            /\ Begin(agent).next = 1 /\ Begin(agent).source = "none"
    /\ Gone("failed") \in Places /\ Gone("failed").agent = "failed"
    /\ Gone("failed").source = "none"
<1>1. 1 \in 1 .. 6 OBVIOUS
<1>2. Idle \in Places BY <1>1 DEF Idle, Places
<1>3. ASSUME NEW agent \in Agents
      PROVE  /\ Begin(agent) \in Places /\ Begin(agent).agent = agent
             /\ Begin(agent).next = 1 /\ Begin(agent).source = "none"
  BY <1>1 DEF Begin, Idle, Places
<1>4. /\ Gone("failed") \in Places /\ Gone("failed").agent = "failed"
      /\ Gone("failed").source = "none"
  BY <1>1 DEF Gone, Idle, Places
<1>5. Idle.agent = "none" /\ Idle.source = "none" BY DEF Idle
<1> QED BY <1>2, <1>3, <1>4, <1>5

\* An agent that goes on is at its next stage; the others stay where they are.
LEMMA OnwardEffect ==
    ASSUME at \in [Contexts -> Places], NEW c \in Contexts, Working(c),
           NEW source \in {"same", "model", "fallback"}, NEW heard \in BOOLEAN, NEW open \in BOOLEAN,
           Onward(c, source, heard, open)
    PROVE  /\ at' \in [Contexts -> Places]
           /\ at'[c].agent = at[c].agent /\ at'[c].next = at[c].next + 1
           /\ at'[c].source = (IF source = "same" THEN at[c].source ELSE source)
           /\ \A d \in Contexts \ {c} : at'[d] = at[d]
<1>1. at[c] \in Places /\ at[c].agent \in Agents BY DEF Working
<1>2. at[c].next \in 1 .. 5 BY <1>1, Stages DEF Working, Places
<1>3. PICK new : /\ new = [agent  |-> at[c].agent,
                           next   |-> at[c].next + 1,
                           heard  |-> heard /\ Stage(c) = Gather("weather_lookup"),
                           source |-> IF source = "same" THEN at[c].source ELSE source,
                           open   |-> open /\ at[c].agent = "draft_itinerary"]
                 /\ at' = [at EXCEPT ![c] = new]
  BY DEF Onward
<1>4. new \in Places BY <1>1, <1>2, <1>3 DEF Places
<1>5. /\ new.agent = at[c].agent /\ new.next = at[c].next + 1
      /\ new.source = (IF source = "same" THEN at[c].source ELSE source)
  BY <1>3
<1> QED BY <1>3, <1>4, <1>5

LEMMA InitInv == Init => Inv
<1> SUFFICES ASSUME Init PROVE Inv OBVIOUS
<1> USE Bounds, Keys
<1>1. /\ keys \in KeySets /\ soon \in BOOLEAN /\ routed \in BOOLEAN
      /\ due = "research_destination" /\ rounds = 0 /\ reported = {}
      /\ cause = "none" /\ failed = FALSE /\ fellBack = FALSE /\ served = 0
      /\ account = [calls |-> 0, log |-> 0]
  BY DEF Init
<1>2. at = [c \in Contexts |-> IF c = "main" THEN Begin("research_destination") ELSE Idle]
  BY DEF Init
<1>3. "research_destination" \in Agents BY AgentNames
<1>4. at \in [Contexts -> Places] BY <1>2, <1>3, IdlePlaces
<1>5. \A c \in Contexts : /\ at[c].agent \in {"research_destination", "none"}
                          /\ at[c].source = "none"
  BY <1>2, <1>3, IdlePlaces
<1>6. at["main"].agent = "research_destination" /\ \A c \in Parallel : at[c].agent = "none"
  BY <1>2, <1>3, IdlePlaces DEF Contexts, Parallel
<1>7. TypeOK
  <2>1. account \in [calls: Nat, log: 0 .. AuditCap] BY <1>1
  <2>2. rounds \in 0 .. MaxRounds /\ served \in Nat BY <1>1
  <2>3. at \in [Contexts -> [agent: Agents \cup {"none", "failed"}, next: 1 .. 6, heard: BOOLEAN,
                             source: {"none", "model", "fallback"}, open: BOOLEAN]]
    BY <1>4 DEF Places
  <2> QED BY <1>1, <1>3, <2>1, <2>2, <2>3 DEF TypeOK
<1>8. MainIsDue /\ DueIsMain BY <1>1, <1>6 DEF MainIsDue, DueIsMain
<1>9. DueIsKnown BY <1>1 DEF DueIsKnown, DueAgents
<1>10. DraftHasModel /\ FailuresHaveCause BY <1>1, <1>5 DEF DraftHasModel, FailuresHaveCause
<1>11. CauseExplained /\ Progress BY <1>1 DEF CauseExplained, Progress
<1>12. FallbacksExplained BY <1>1, <1>5 DEF FallbacksExplained
<1>13. Account BY <1>1 DEF Account, Least
<1> QED BY <1>7, <1>8, <1>9, <1>10, <1>11, <1>12, <1>13 DEF Inv

\* A served call is counted once, on the main context or nowhere.
LEMMA ChargedEffect ==
    ASSUME account \in [calls: Nat, log: 0 .. AuditCap], served \in Nat, Account,
           NEW c \in Contexts
    PROVE  /\ c # "main" => Charged(c) = account
           /\ c = "main" => /\ Charged(c) \in [calls: Nat, log: 0 .. AuditCap]
                            /\ Charged(c).calls = served + 1
                            /\ Charged(c).log = Least(served + 1, AuditCap)
<1> USE Bounds
<1>1. ASSUME c = "main"
      PROVE  /\ Charged(c) \in [calls: Nat, log: 0 .. AuditCap]
             /\ Charged(c).calls = served + 1
             /\ Charged(c).log = Least(served + 1, AuditCap)
  <2>1. Charged(c) = [calls |-> account.calls + 1, log |-> Least(account.log + 1, AuditCap)]
    BY <1>1 DEF Charged
  <2>2. /\ Least(account.log + 1, AuditCap) \in 0 .. AuditCap
        /\ Least(account.log + 1, AuditCap) = Least(served + 1, AuditCap)
    BY DEF Account, Least
  <2>3. account.calls + 1 = served + 1 /\ served + 1 \in Nat BY DEF Account
  <2> QED BY <2>1, <2>2, <2>3
<1>2. c # "main" => Charged(c) = account BY DEF Charged
<1> QED BY <1>1, <1>2

\* An agent goes on.
LEMMA OnwardInv ==
    ASSUME Inv, NEW c \in Contexts, Working(c),
           NEW source \in {"same", "model", "fallback"}, NEW heard \in BOOLEAN, NEW open \in BOOLEAN,
           Onward(c, source, heard, open),
           UNCHANGED <<inputs, due, cause, rounds, reported, fellBack>>,
           account' \in [calls: Nat, log: 0 .. AuditCap], served' \in Nat, Account',
           failed' \in BOOLEAN, failed => failed',
           source = "fallback" /\ "openai" \in keys => failed',
           at[c].agent = "draft_itinerary" /\ at[c].next = 1 => "openai" \in keys
    PROVE  Inv'
<1>1. /\ TypeOK /\ DueIsKnown /\ MainIsDue /\ DueIsMain /\ DraftHasModel /\ FailuresHaveCause
      /\ CauseExplained /\ Progress /\ FallbacksExplained
  BY DEF Inv
<1>2. at \in [Contexts -> Places] BY <1>1 DEF TypeOK, Places
<1>3. /\ at' \in [Contexts -> Places]
      /\ at'[c].agent = at[c].agent /\ at'[c].next = at[c].next + 1
      /\ at'[c].source = (IF source = "same" THEN at[c].source ELSE source)
      /\ \A d \in Contexts \ {c} : at'[d] = at[d]
  BY <1>2, OnwardEffect
<1>4. \A d \in Contexts : at'[d].agent = at[d].agent BY <1>3
<1>5. UNCHANGED <<keys, soon, routed>> BY DEF inputs
<1>6. TypeOK' BY <1>1, <1>3, <1>5 DEF TypeOK, Places
<1>7. (DueIsKnown /\ MainIsDue /\ DueIsMain)'
  BY <1>1, <1>4 DEF DueIsKnown, MainIsDue, DueIsMain, Contexts
<1>8. DraftHasModel'
  <2>1. at[c].next \in 1 .. 6 BY <1>2 DEF Places
  <2>2. at[c].agent = "draft_itinerary" => "openai" \in keys
    BY <1>1, <2>1 DEF DraftHasModel
  <2> QED BY <1>1, <1>3, <1>4, <1>5, <2>2 DEF DraftHasModel
<1>9. FailuresHaveCause' BY <1>1, <1>4 DEF FailuresHaveCause
<1>10. CauseExplained' BY <1>1, <1>5 DEF CauseExplained
<1>11. Progress' BY <1>1, <1>5 DEF Progress
<1>12. FallbacksExplained' BY <1>1, <1>3, <1>5 DEF FallbacksExplained
<1> QED BY <1>6, <1>7, <1>8, <1>9, <1>10, <1>11, <1>12 DEF Inv

\* An agent fails.
LEMMA FailsInv ==
    ASSUME Inv, NEW c \in Contexts, Working(c),
           NEW why \in Unexpected \cup {"not_allowed", "no_executor"}, Fails(c, why),
           UNCHANGED <<inputs, rounds, reported, fellBack>>,
           account' \in [calls: Nat, log: 0 .. AuditCap], served' \in Nat, Account',
           failed' \in BOOLEAN, failed => failed',
           why = "not_allowed" => {"openai", "tavily"} \subseteq keys,
           why = "no_executor" => "openai" \notin keys
    PROVE  Inv'
<1>1. /\ TypeOK /\ DueIsKnown /\ MainIsDue /\ DueIsMain /\ DraftHasModel /\ FailuresHaveCause
      /\ CauseExplained /\ Progress /\ FallbacksExplained
  BY DEF Inv
<1>2. at \in [Contexts -> Places] BY <1>1 DEF TypeOK, Places
<1>3. /\ at' \in [Contexts -> Places] /\ at'[c].agent = "failed" /\ at'[c].source = "none"
      /\ \A d \in Contexts \ {c} : at'[d] = at[d]
  BY <1>2, IdlePlaces DEF Fails
<1>4. UNCHANGED <<keys, soon, routed>> BY DEF inputs
<1>5. due' = (IF c = "main" THEN "raised" ELSE due) BY DEF Fails
<1>6. /\ cause' \in Causes /\ (cause # "none" => cause' = cause)
      /\ cause = "none" => cause' = (IF why \in Unexpected THEN "unexpected" ELSE why)
  BY <1>1 DEF Fails, TypeOK, Causes, Unexpected
<1>7. "none" \notin Causes /\ "raised" \notin Agents /\ "failed" \notin Agents
  BY AgentNames DEF Causes
<1>8. TypeOK'
  <2>1. due' \in Agents \cup {"batch", "end", "raised"} BY <1>1, <1>5 DEF TypeOK
  <2> QED BY <1>1, <1>3, <1>4, <1>6, <2>1 DEF TypeOK, Places
<1>9. DueIsKnown' BY <1>1, <1>5 DEF DueIsKnown
<1>10. (MainIsDue /\ DueIsMain)'
  BY <1>1, <1>3, <1>5, <1>7 DEF MainIsDue, DueIsMain, Contexts
<1>11. DraftHasModel' BY <1>1, <1>3, <1>4 DEF DraftHasModel
<1>12. FailuresHaveCause' BY <1>6, <1>7 DEF FailuresHaveCause
<1>13. CauseExplained' BY <1>1, <1>4, <1>6 DEF CauseExplained
<1>14. Progress'
  <2>1. CASE c = "main" BY <1>5, <2>1 DEF Progress
  <2>2. CASE c # "main" BY <1>1, <1>4, <1>5, <2>2 DEF Progress
  <2> QED BY <2>1, <2>2
<1>15. FallbacksExplained' BY <1>1, <1>3, <1>4 DEF FallbacksExplained
<1> QED BY <1>8, <1>9, <1>10, <1>11, <1>12, <1>13, <1>14, <1>15 DEF Inv

LEMMA SkipInv == ASSUME Inv, NEW c \in Contexts, Skip(c) PROVE Inv'
<1>1. TypeOK /\ Account BY DEF Inv
<1>2. /\ Working(c) /\ ~Asks(c)
      /\ UNCHANGED <<inputs, rounds, account, reported, failed, fellBack, served>>
  BY DEF Skip
<1>3. at[c] \in Places /\ at[c].agent \in Agents /\ at[c].open \in BOOLEAN
  BY <1>1, <1>2 DEF TypeOK, Places, Working
<1>4. /\ account' \in [calls: Nat, log: 0 .. AuditCap] /\ served' \in Nat /\ failed' \in BOOLEAN
      /\ Account'
  BY <1>1, <1>2 DEF TypeOK, Account
<1>5. /\ Stage(c).kind = "model" => Stage(c).tool = "json_completion"
      /\ at[c].agent = "draft_itinerary" /\ at[c].next = 1 => Stage(c).kind = "model"
  BY <1>2, <1>3, Stages DEF Working, Stage, Places
<1>6. Stage(c).kind = "model" => "openai" \notin keys
  BY <1>2, <1>5 DEF Asks, IsAvailable, Provider
<1>7. CASE Stage(c).kind # "model"
  <2>1. Onward(c, "same", FALSE, at[c].open) /\ UNCHANGED <<due, cause>> BY <1>7 DEF Skip
  <2>2. FALSE \in BOOLEAN OBVIOUS
  <2> QED BY <1>2, <1>3, <1>4, <1>5, <1>7, <2>1, <2>2, OnwardInv
<1>8. CASE Stage(c).kind = "model" /\ at[c].agent = "draft_itinerary"
  <2>1. Fails(c, "no_executor") BY <1>8 DEF Skip
  <2> QED BY <1>2, <1>4, <1>6, <1>8, <2>1, FailsInv
<1>9. CASE Stage(c).kind = "model" /\ at[c].agent # "draft_itinerary"
  <2>1. Onward(c, "fallback", FALSE, TRUE) /\ UNCHANGED <<due, cause>> BY <1>9 DEF Skip
  <2>2. FALSE \in BOOLEAN /\ TRUE \in BOOLEAN OBVIOUS
  <2> QED BY <1>2, <1>4, <1>6, <1>9, <2>1, <2>2, OnwardInv
<1> QED BY <1>7, <1>8, <1>9

LEMMA CallInv == ASSUME Inv, NEW c \in Contexts, Call(c) PROVE Inv'
<1>1. TypeOK /\ Account /\ DraftHasModel BY DEF Inv
<1>2. Working(c) /\ Asks(c) /\ UNCHANGED <<inputs, rounds, reported, fellBack>> BY DEF Call
<1>3. /\ at[c] \in Places /\ at[c].agent \in Agents /\ at[c].open \in BOOLEAN
      /\ at[c].next \in 1 .. 6
  BY <1>1, <1>2 DEF TypeOK, Places, Working
<1>4. /\ Stage(c).tool \in Tools
      /\ Stage(c).kind = "model" => Stage(c).tool = "json_completion"
      /\ at[c].agent \notin AllowedAgents[Stage(c).tool] =>
             /\ at[c].agent = "draft_itinerary" /\ at[c].next = 2
             /\ Stage(c).tool = "web_search"
      /\ at[c].agent = "draft_itinerary" /\ at[c].next = 1 => Stage(c).kind = "model"
  BY <1>2, <1>3, Stages DEF Working, Stage
<1>5. Provider[Stage(c).tool] \in keys BY <1>2 DEF Asks, IsAvailable
<1>6. at[c].agent = "draft_itinerary" /\ at[c].next = 1 => "openai" \in keys
  BY <1>4, <1>5 DEF Provider
<1>7. PICK outcome \in Outcomes(c) :
          /\ account' = IF Served(outcome) THEN Charged(c) ELSE account
          /\ served' = IF Served(outcome) /\ c = "main" THEN served + 1 ELSE served
          /\ failed' = (failed \/ outcome \notin {"answered", "not_allowed"})
          /\ IF outcome = "answered"
             THEN /\ \E open \in IF Stage(c).kind = "model" THEN BOOLEAN ELSE {FALSE} :
                        Onward(c, IF Stage(c).kind = "model" THEN "model" ELSE "same", TRUE, open)
                  /\ UNCHANGED <<due, cause>>
             ELSE IF outcome \in Catches(Stage(c).kind) \cup {"useless"}
             THEN /\ Onward(c, IF Stage(c).kind = "model" THEN "fallback" ELSE "same", FALSE,
                            Stage(c).kind = "model" \/ at[c].open)
                  /\ UNCHANGED <<due, cause>>
             ELSE Fails(c, outcome)
  BY DEF Call
<1>8. /\ account' \in [calls: Nat, log: 0 .. AuditCap] /\ served' \in Nat /\ Account'
  <2>1. account \in [calls: Nat, log: 0 .. AuditCap] /\ served \in Nat BY <1>1 DEF TypeOK
  <2>2. /\ c # "main" => Charged(c) = account
        /\ c = "main" => /\ Charged(c) \in [calls: Nat, log: 0 .. AuditCap]
                         /\ Charged(c).calls = served + 1
                         /\ Charged(c).log = Least(served + 1, AuditCap)
    BY <1>1, <2>1, ChargedEffect
  <2>3. CASE Served(outcome) /\ c = "main" BY <1>7, <2>1, <2>2, <2>3 DEF Account
  <2>4. CASE ~(Served(outcome) /\ c = "main")
    <3>1. account' = account /\ served' = served BY <1>7, <2>2, <2>4
    <3> QED BY <1>1, <2>1, <3>1 DEF Account
  <2> QED BY <2>3, <2>4
<1>9. failed' \in BOOLEAN /\ (failed => failed') BY <1>1, <1>7 DEF TypeOK
<1>10. outcome \in Answers /\ (outcome = "not_allowed" <=> at[c].agent \notin AllowedAgents[Stage(c).tool])
  <2>1. Yields[Stage(c).tool] \cup Digests(at[c].agent, Stage(c).tool) \subseteq Answers \ {"not_allowed"}
    BY <1>3, <1>4, OutcomesType
  <2> QED BY <1>7, <2>1 DEF Outcomes, Answers
<1>11. CASE outcome = "answered"
  <2>1. PICK open \in BOOLEAN :
          Onward(c, IF Stage(c).kind = "model" THEN "model" ELSE "same", TRUE, open)
    BY <1>7, <1>11
  <2>2. PICK source \in {"same", "model"} : Onward(c, source, TRUE, open) BY <2>1
  <2>3. TRUE \in BOOLEAN /\ UNCHANGED <<due, cause>> BY <1>7, <1>11
  <2> QED BY <1>2, <1>6, <1>8, <1>9, <2>2, <2>3, OnwardInv
<1>12. CASE outcome # "answered" /\ outcome \in Catches(Stage(c).kind) \cup {"useless"}
  <2>1. PICK source \in {"same", "fallback"}, open \in BOOLEAN : Onward(c, source, FALSE, open)
    BY <1>3, <1>7, <1>12
  <2>2. FALSE \in BOOLEAN /\ UNCHANGED <<due, cause>> BY <1>7, <1>12
  <2>3. failed'
    <3>1. outcome # "not_allowed" BY <1>12 DEF Catches
    <3> QED BY <1>7, <1>12, <3>1
  <2> QED BY <1>2, <1>6, <1>8, <1>9, <2>1, <2>2, <2>3, OnwardInv
<1>13. CASE outcome # "answered" /\ outcome \notin Catches(Stage(c).kind) \cup {"useless"}
  <2>1. Fails(c, outcome) BY <1>7, <1>13
  <2>2. outcome \in Unexpected \cup {"not_allowed"}
    BY <1>10, <1>13 DEF Answers, Catches, Unexpected
  <2>3. outcome = "not_allowed" => {"openai", "tavily"} \subseteq keys
    <3> SUFFICES ASSUME outcome = "not_allowed" PROVE {"openai", "tavily"} \subseteq keys
      OBVIOUS
    <3>1. /\ at[c].agent = "draft_itinerary" /\ at[c].next = 2
          /\ Stage(c).tool = "web_search"
      BY <1>4, <1>10
    <3>2. "tavily" \in keys BY <1>5, <3>1 DEF Provider
    <3>3. "openai" \in keys BY <1>1, <3>1 DEF DraftHasModel
    <3> QED BY <3>2, <3>3
  <2>4. outcome # "no_executor" BY <1>10 DEF Answers
  <2> QED BY <1>2, <1>8, <1>9, <2>1, <2>2, <2>3, <2>4, FailsInv
<1> QED BY <1>11, <1>12, <1>13

\* An agent of the coordinator's own delivers.
LEMMA DeliverInv == ASSUME Inv, Deliver PROVE Inv'
<1> USE Bounds
<1>1. /\ TypeOK /\ DueIsKnown /\ MainIsDue /\ DueIsMain /\ DraftHasModel /\ FailuresHaveCause
      /\ CauseExplained /\ Progress /\ FallbacksExplained /\ Account
  BY DEF Inv
<1>2. /\ due \in DueAgents /\ due \in Agents /\ Finished("main") /\ "main" \in Contexts
  BY <1>1, AgentNames DEF Deliver, DueIsKnown
<1>3. PICK following \in Follows(due) :
          LET again == following = "draft_itinerary" /\ due # "research_destination"
              reports == reported \cup {due}
          IN  /\ again => RoundLeft
              /\ rounds' = IF again THEN rounds + 1 ELSE rounds
              /\ reported' = IF again THEN Kept(reports) ELSE reports
              /\ due' = following
              /\ at' = [at EXCEPT !["main"] = IF following \in Agents THEN Begin(following) ELSE Idle]
  BY DEF Deliver
<1>4. /\ UNCHANGED <<keys, soon, routed, account, cause, failed, served>>
      /\ fellBack' = (fellBack \/ at["main"].source = "fallback")
  BY DEF Deliver, inputs
<1>5. \/ due = "research_destination" /\ following = "draft_itinerary"
      \/ due = "draft_itinerary" /\ following = "batch"
      \/ due = "audit_budget" /\ following \in {"critique_plan", "draft_itinerary"}
      \/ due = "critique_plan" /\ following \in {"end", "draft_itinerary"}
  BY <1>2, <1>3 DEF Follows, DueAgents
<1>6. following \in DueAgents \cup {"batch", "end"} BY <1>5 DEF DueAgents
<1>7. following \in Agents <=> following \in DueAgents BY <1>6, AgentNames DEF DueAgents
<1>8. at \in [Contexts -> Places] BY <1>1 DEF TypeOK, Places
<1>9. /\ at' \in [Contexts -> Places]
      /\ at'["main"].agent = (IF following \in Agents THEN following ELSE "none")
      /\ at'["main"].next = 1 /\ at'["main"].source = "none"
      /\ \A c \in Contexts \ {"main"} : at'[c] = at[c]
  <2>1. Idle.next = 1 BY DEF Idle
  <2>2. PICK new \in Places :
          /\ at' = [at EXCEPT !["main"] = new] /\ new.next = 1 /\ new.source = "none"
          /\ new.agent = (IF following \in Agents THEN following ELSE "none")
    BY <1>3, <2>1, IdlePlaces
  <2> QED BY <1>2, <1>8, <2>2
<1>10. TypeOK'
  <2>1. rounds' \in 0 .. MaxRounds BY <1>1, <1>3 DEF TypeOK, RoundLeft
  <2>2. reported' \subseteq Agents BY <1>1, <1>2, <1>3 DEF TypeOK, Kept
  <2>3. due' \in Agents \cup {"batch", "end", "raised"} BY <1>3, <1>6, <1>7
  <2>4. fellBack' \in BOOLEAN BY <1>1, <1>4 DEF TypeOK
  <2> QED BY <1>1, <1>4, <1>9, <2>1, <2>2, <2>3, <2>4 DEF TypeOK, Places
<1>11. DueIsKnown' BY <1>3, <1>6 DEF DueIsKnown
<1>12. (MainIsDue /\ DueIsMain)' BY <1>3, <1>9, AgentNames DEF MainIsDue, DueIsMain
<1>13. DraftHasModel' BY <1>1, <1>4, <1>9 DEF DraftHasModel
<1>14. FailuresHaveCause'
  <2>1. at'["main"].agent # "failed" BY <1>9, AgentNames
  <2>2. due' # "raised" BY <1>3, <1>6 DEF DueAgents
  <2> QED BY <1>1, <1>4, <1>9, <2>1, <2>2 DEF FailuresHaveCause
<1>15. CauseExplained' BY <1>1, <1>4 DEF CauseExplained
<1>16. due = "draft_itinerary" => "openai" \in keys
  <2> SUFFICES ASSUME due = "draft_itinerary" PROVE "openai" \in keys OBVIOUS
  <2>1. at["main"].agent = "draft_itinerary" BY <1>1, <1>2 DEF DueIsMain
  <2>2. at["main"].next = 3 BY <1>2, <2>1 DEF Finished, Program, Itinerary
  <2> QED BY <1>1, <1>2, <2>1, <2>2 DEF DraftHasModel
<1>17. Progress'
  <2>1. CASE due = "research_destination" /\ following = "draft_itinerary"
    BY <1>1, <1>3, <2>1 DEF Progress
  <2>2. CASE due = "draft_itinerary" /\ following = "batch"
    BY <1>1, <1>3, <1>4, <1>16, <2>2 DEF Progress
  <2>3. CASE due = "audit_budget" /\ following = "critique_plan"
    BY <1>1, <1>3, <1>4, <2>3 DEF Progress
  <2>4. CASE due = "critique_plan" /\ following = "end"
    BY <1>1, <1>3, <1>4, <2>4 DEF Progress
  <2>5. CASE due \in {"audit_budget", "critique_plan"} /\ following = "draft_itinerary"
    <3>1. "research_destination" \in reported BY <1>1, <2>5 DEF Progress
    <3>2. "research_destination" \notin Downstream BY DEF Downstream, Parallel
    <3>3. "research_destination" \in reported' BY <1>3, <2>5, <3>1, <3>2 DEF Kept
    <3>4. due' = "draft_itinerary" BY <1>3, <2>5
    <3> QED BY <3>3, <3>4 DEF Progress
  <2> QED BY <1>5, <2>1, <2>2, <2>3, <2>4, <2>5
<1>18. FallbacksExplained'
  <2>1. "openai" \in keys /\ fellBack' => failed BY <1>1, <1>2, <1>4 DEF FallbacksExplained
  <2>2. \A c \in Contexts : at'[c].source = "fallback" => at[c].source = "fallback"
    BY <1>9
  <2> QED BY <1>1, <1>4, <2>1, <2>2 DEF FallbacksExplained
<1>19. Account' BY <1>1, <1>4 DEF Account
<1> QED BY <1>10, <1>11, <1>12, <1>13, <1>14, <1>15, <1>17, <1>18, <1>19 DEF Inv

LEMMA BatchInv ==
    ASSUME Inv, StartBatch \/ MergeBatch \/ BatchFails \/ BatchTimesOut PROVE Inv'
<1>1. /\ TypeOK /\ DueIsKnown /\ MainIsDue /\ DueIsMain /\ DraftHasModel /\ FailuresHaveCause
      /\ CauseExplained /\ Progress /\ FallbacksExplained /\ Account
  BY DEF Inv
<1>2. at \in [Contexts -> Places] BY <1>1 DEF TypeOK, Places
<1>3. UNCHANGED <<keys, soon, routed, rounds, account, served>> /\ due = "batch"
  BY DEF StartBatch, MergeBatch, BatchFails, BatchTimesOut, inputs, history
<1>4. Account' BY <1>1, <1>3 DEF Account
<1>5. at["main"].agent \notin Agents /\ "batch" \notin Agents /\ "raised" \notin Agents
  BY <1>1, <1>3, AgentNames DEF MainIsDue
<1>6. CASE StartBatch
  <2>1. /\ at' = [c \in Contexts |-> IF c \in Parallel THEN Begin(c) ELSE at[c]]
        /\ UNCHANGED <<due, reported, cause, failed, fellBack>>
    BY <1>6 DEF StartBatch, history
  <2>2. /\ at' \in [Contexts -> Places]
        /\ \A c \in Parallel : /\ at'[c].agent = c /\ at'[c].source = "none" /\ at'[c].next = 1
        /\ \A c \in Contexts \ Parallel : at'[c] = at[c]
    BY <1>2, <2>1, AgentNames, IdlePlaces
  <2>3. TypeOK' BY <1>1, <1>3, <2>1, <2>2 DEF TypeOK, Places
  <2>4. at'["main"] = at["main"] BY <2>2 DEF Contexts, Parallel
  <2>5. (DueIsKnown /\ MainIsDue /\ DueIsMain)'
    BY <1>1, <2>1, <2>4 DEF DueIsKnown, MainIsDue, DueIsMain
  <2>6. DraftHasModel' BY <1>1, <1>3, <2>2 DEF DraftHasModel
  <2>7. FailuresHaveCause' BY <1>1, <2>1, <2>2, AgentNames DEF FailuresHaveCause
  <2>8. (CauseExplained /\ Progress)' BY <1>1, <1>3, <2>1 DEF CauseExplained, Progress
  <2>9. FallbacksExplained' BY <1>1, <1>3, <2>1, <2>2 DEF FallbacksExplained
  <2> QED BY <1>4, <2>3, <2>5, <2>6, <2>7, <2>8, <2>9 DEF Inv
<1>7. CASE MergeBatch
  <2>1. /\ at' = [c \in Contexts |-> IF c = "main" THEN Begin("audit_budget") ELSE Idle]
        /\ due' = "audit_budget" /\ reported' = reported \cup Parallel
        /\ fellBack' = (fellBack \/ \E t \in Parallel : at[t].source = "fallback")
        /\ UNCHANGED <<cause, failed>>
    BY <1>7 DEF MergeBatch, Merged
  <2>2. "audit_budget" \in Agents /\ "main" \in Contexts BY AgentNames
  <2>3. /\ at' \in [Contexts -> Places] /\ at'["main"].agent = "audit_budget"
        /\ \A c \in Contexts : /\ at'[c].agent \in {"audit_budget", "none"}
                               /\ at'[c].source = "none"
    BY <2>1, <2>2, IdlePlaces
  <2>4. TypeOK'
    <3>1. reported' \subseteq Agents BY <1>1, <2>1, AgentNames DEF TypeOK
    <3>2. fellBack' \in BOOLEAN BY <1>1, <2>1 DEF TypeOK
    <3> QED BY <1>1, <1>3, <2>1, <2>2, <2>3, <3>1, <3>2 DEF TypeOK, Places
  <2>5. DueIsKnown' BY <2>1 DEF DueIsKnown, DueAgents
  <2>6. (MainIsDue /\ DueIsMain)' BY <2>1, <2>3 DEF MainIsDue, DueIsMain
  <2>7. DraftHasModel' BY <2>3 DEF DraftHasModel
  <2>8. FailuresHaveCause' BY <2>1, <2>3 DEF FailuresHaveCause
  <2>9. CauseExplained' BY <1>1, <1>3, <2>1 DEF CauseExplained
  <2>10. Progress' BY <1>1, <1>3, <2>1 DEF Progress
  <2>11. FallbacksExplained'
    <3>1. "openai" \in keys /\ fellBack' => failed
      BY <1>1, <2>1, AgentNames DEF FallbacksExplained
    <3> QED BY <1>3, <2>1, <2>3, <3>1 DEF FallbacksExplained
  <2> QED BY <1>4, <2>4, <2>5, <2>6, <2>7, <2>8, <2>9, <2>10, <2>11 DEF Inv
<1>8. CASE BatchFails \/ BatchTimesOut
  <2>1. /\ due' = "raised" /\ UNCHANGED <<at, reported, fellBack>>
        /\ failed' \in BOOLEAN /\ (failed => failed')
    BY <1>1, <1>8 DEF BatchFails, BatchTimesOut, history, TypeOK
  <2>2. cause' # "none" /\ cause' \in {cause, "timeout"}
    <3>1. CASE BatchFails
      <4>1. PICK c \in Parallel : at[c] = Gone("failed") BY <3>1 DEF BatchFails
      <4>2. at[c].agent = "failed" /\ c \in Contexts BY <4>1, IdlePlaces, AgentNames
      <4> QED BY <1>1, <3>1, <4>2 DEF BatchFails, history, FailuresHaveCause
    <3>2. CASE BatchTimesOut BY <3>2 DEF BatchTimesOut
    <3> QED BY <1>8, <3>1, <3>2
  <2>3. TypeOK' BY <1>1, <1>3, <2>1, <2>2 DEF TypeOK, Causes
  <2>4. DueIsKnown' BY <2>1 DEF DueIsKnown
  <2>5. (MainIsDue /\ DueIsMain)' BY <1>5, <2>1 DEF MainIsDue, DueIsMain
  <2>6. DraftHasModel' BY <1>1, <1>3, <2>1 DEF DraftHasModel
  <2>7. FailuresHaveCause' BY <2>2 DEF FailuresHaveCause
  <2>8. CauseExplained' BY <1>1, <1>3, <2>2 DEF CauseExplained
  <2>9. Progress' BY <2>1 DEF Progress
  <2>10. FallbacksExplained' BY <1>1, <1>3, <2>1 DEF FallbacksExplained
  <2> QED BY <1>4, <2>3, <2>4, <2>5, <2>6, <2>7, <2>8, <2>9, <2>10 DEF Inv
<1> QED BY <1>6, <1>7, <1>8

LEMMA InvStep == ASSUME Inv, [Next]_vars PROVE Inv'
<1>1. CASE UNCHANGED vars
  <2>1. UNCHANGED <<keys, soon, routed, due, rounds, at, account, reported, cause, failed,
                    fellBack, served>>
    BY <1>1 DEF vars, inputs, history
  <2>2. (TypeOK /\ DueIsKnown /\ MainIsDue /\ DueIsMain /\ DraftHasModel /\ FailuresHaveCause)'
    BY <2>1 DEF Inv, TypeOK, DueIsKnown, MainIsDue, DueIsMain, DraftHasModel, FailuresHaveCause
  <2>3. (CauseExplained /\ Progress /\ FallbacksExplained /\ Account)'
    BY <2>1 DEF Inv, CauseExplained, Progress, FallbacksExplained, Account
  <2> QED BY <2>2, <2>3 DEF Inv
<1>2. ASSUME NEW c \in Contexts, Step(c) PROVE Inv'
  BY <1>2, SkipInv, CallInv DEF Step
<1>3. CASE Drive \/ BatchTimesOut BY <1>3, DeliverInv, BatchInv DEF Drive
<1> QED BY <1>1, <1>2, <1>3 DEF Next
-----------------------------------------------------------------------------
\* The invariant of the agents and their tools holds in every state.
THEOREM Invariant == Spec => []Inv
<1>1. Init => Inv BY InitInv
<1>2. Inv /\ [Next]_vars => Inv' BY InvStep
<1> QED BY <1>1, <1>2, PTL DEF Spec

\* Every context, report and account has its type, and the rounds keep their bound
\* (revision_count < max_revision_rounds).
THEOREM TypeOKHolds == Spec => []TypeOK
<1>1. Inv => TypeOK BY DEF Inv
<1> QED BY <1>1, Invariant, PTL

\* An attempt raises for no other reason than those RaisesExplained lists
\* (ToolExecutor.execute, the handlers of nodes.py, _parallel_batch_node).
THEOREM RaisesExplainedHolds == Spec => []RaisesExplained
<1>1. Inv => RaisesExplained
  BY DEF Inv, FailuresHaveCause, CauseExplained, RaisesExplained
<1> QED BY <1>1, Invariant, PTL

\* A plan is judged on all its reports, and what a fallback wrote had a failure before it
\* (_merge_context, clear_dependent_artifacts_for_itinerary_revision).
THEOREM ReportsCompleteHolds == Spec => []ReportsComplete
<1>1. Inv => ReportsComplete
  <2> SUFFICES ASSUME Inv, due = "end" PROVE reported = Agents /\ (fellBack => failed)
    BY DEF ReportsComplete
  <2>1. TypeOK /\ Progress /\ FallbacksExplained BY DEF Inv
  <2>2. Agents \subseteq reported
    <3>1. Parallel \subseteq reported /\ {"research_destination", "draft_itinerary",
                                         "audit_budget", "critique_plan"} \subseteq reported
      BY <2>1 DEF Progress
    <3> QED BY <3>1, AgentNames DEF Parallel
  <2>3. reported \subseteq Agents BY <2>1 DEF TypeOK
  <2>4. fellBack => failed BY <2>1 DEF Progress, FallbacksExplained
  <2> QED BY <2>2, <2>3, <2>4
<1> QED BY <1>1, Invariant, PTL

\* Whatever the length of the audit log, the main account is exact until it is cut
\* (append_tool_audit keeps the last AuditCap entries).
THEOREM AccountUntilCut == Spec => [](served <= AuditCap => MainAccountExact)
<1>1. Inv => (served <= AuditCap => MainAccountExact)
  BY Bounds DEF Inv, TypeOK, Account, Least, MainAccountExact
<1> QED BY <1>1, Invariant, PTL

\* A bound on the calls that have been served on the main context when a first pass comes to
\* an agent, by the stages of the agents before it.  A revision begins again at the
\* itinerary and serves four more.
ServedBefore(agent) ==
    CASE agent = "research_destination" -> 0
      [] agent = "draft_itinerary" -> 5
      [] agent \in {"batch", "audit_budget"} -> 7
      [] agent = "critique_plan" -> 8
      [] OTHER -> 9

FewServed ==
    /\ due \in Agents => /\ at["main"].next <= Len(Program[due]) + 1
                         /\ served <= ServedBefore(due) + 4 * rounds + at["main"].next - 1
    /\ due \notin Agents => served <= ServedBefore(due) + 4 * rounds

LEMMA Lengths ==
    /\ Len(Program["research_destination"]) = 5 /\ Len(Program["draft_itinerary"]) = 2
    /\ Len(Program["audit_budget"]) = 1 /\ Len(Program["critique_plan"]) = 1
BY DEF Program, Research, Itinerary, BudgetAudit, PlanReview

\* What an agent has served when it is done is what the next one finds.
LEMMA ServedBy ==
    ASSUME NEW agent \in DueAgents
    PROVE  /\ ServedBefore(agent) \in 0 .. 8 /\ Len(Program[agent]) \in 1 .. 5
           /\ ServedBefore(agent) + Len(Program[agent]) <= 9
           /\ \A following \in Follows(agent) :
                 ServedBefore(agent) + Len(Program[agent]) <=
                     ServedBefore(following) + (IF following = "draft_itinerary"
                                                   /\ agent # "research_destination"
                                                THEN 4 ELSE 0)
<1>1. CASE agent = "research_destination"
  <2>1. ServedBefore(agent) = 0 /\ Len(Program[agent]) = 5 BY <1>1, Lengths DEF ServedBefore
  <2>2. Follows(agent) = {"draft_itinerary"} BY <1>1 DEF Follows
  <2>3. ServedBefore("draft_itinerary") = 5 BY DEF ServedBefore
  <2> QED BY <1>1, <2>1, <2>2, <2>3
<1>2. CASE agent = "draft_itinerary"
  <2>1. ServedBefore(agent) = 5 /\ Len(Program[agent]) = 2 BY <1>2, Lengths DEF ServedBefore
  <2>2. Follows(agent) = {"batch"} BY <1>2 DEF Follows
  <2>3. ServedBefore("batch") = 7 BY DEF ServedBefore
  <2> QED BY <1>2, <2>1, <2>2, <2>3
<1>3. CASE agent = "audit_budget"
  <2>1. ServedBefore(agent) = 7 /\ Len(Program[agent]) = 1 BY <1>3, Lengths DEF ServedBefore
  <2>2. Follows(agent) = {"critique_plan", "draft_itinerary"} BY <1>3 DEF Follows
  <2>3. ServedBefore("critique_plan") = 8 /\ ServedBefore("draft_itinerary") = 5
    BY DEF ServedBefore
  <2> QED BY <1>3, <2>1, <2>2, <2>3
<1>4. CASE agent = "critique_plan"
  <2>1. ServedBefore(agent) = 8 /\ Len(Program[agent]) = 1 BY <1>4, Lengths DEF ServedBefore
  <2>2. Follows(agent) = {"end", "draft_itinerary"} BY <1>4 DEF Follows
  <2>3. ServedBefore("end") = 9 /\ ServedBefore("draft_itinerary") = 5 BY DEF ServedBefore
  <2> QED BY <1>4, <2>1, <2>2, <2>3
<1> QED BY <1>1, <1>2, <1>3, <1>4 DEF DueAgents

LEMMA FewServedStep == ASSUME Inv, Inv', FewServed, [Next]_vars PROVE FewServed'
<1>n. served \in Nat /\ rounds \in Nat /\ rounds' \in Nat BY Bounds DEF Inv, TypeOK
<1>1. /\ at \in [Contexts -> Places] /\ at["main"] \in Places
      /\ at["main"].next \in 1 .. 6 /\ at'["main"].next \in 1 .. 6
  BY Bounds DEF Inv, TypeOK, Places, Contexts
<1>2. /\ due \in DueAgents \cup {"batch", "end", "raised"}
      /\ DueAgents \subseteq Agents
      /\ "batch" \notin Agents /\ "end" \notin Agents /\ "raised" \notin Agents
      /\ due \in Agents => at["main"].agent = due
      /\ at["main"].agent \in Agents => due = at["main"].agent
  BY AgentNames DEF Inv, DueIsKnown, DueIsMain, MainIsDue, DueAgents
<1>3. ServedBefore("raised") = 9 /\ ServedBefore("end") = 9 /\ ServedBefore("batch") = 7
  BY DEF ServedBefore
<1>4. ASSUME UNCHANGED <<due, rounds, served>>, at'["main"].next = at["main"].next
      PROVE  FewServed'
  BY <1>4 DEF FewServed
<1>5. ASSUME NEW c \in Contexts, Step(c) PROVE FewServed'
  <2>1. /\ Working(c) /\ UNCHANGED rounds
        /\ \/ /\ UNCHANGED due
              /\ \E source \in {"same", "model", "fallback"}, heard \in BOOLEAN, open \in BOOLEAN :
                    Onward(c, source, heard, open)
           \/ \E why : Fails(c, why)
        /\ served' = served \/ (c = "main" /\ served' = served + 1)
    BY <1>n, <1>1, <1>5 DEF Step, Skip, Call, Places, inputs
  <2>2. CASE c # "main"
    <3>1. at'["main"] = at["main"] /\ UNCHANGED <<due, served>>
      <4>1. CASE \E why : Fails(c, why) BY <1>n, <1>1, <2>1, <2>2, <4>1 DEF Fails, Contexts
      <4>2. CASE ~\E why : Fails(c, why)
        BY <1>n, <1>1, <2>1, <2>2, <4>2, OnwardEffect DEF Contexts
      <4> QED BY <4>1, <4>2
    <3> QED BY <1>4, <2>1, <3>1
  <2>3. CASE c = "main"
    <3>1. /\ due = at["main"].agent /\ due \in DueAgents
          /\ at["main"].next <= Len(Program[due])
      BY <1>2, <2>1, <2>3 DEF Working
    <3>2. PICK b \in 0 .. 8, l \in Nat, n \in 1 .. 6 :
            /\ b = ServedBefore(due) /\ l = Len(Program[due]) /\ n = at["main"].next
            /\ b + l <= 9
      <4>1. \E b \in 0 .. 8 : b = ServedBefore(due) BY <3>1, ServedBy
      <4>2. \E l \in Nat : l = Len(Program[due]) BY <3>1, ServedBy
      <4>3. \E n \in 1 .. 6 : n = at["main"].next BY <1>1
      <4>4. ServedBefore(due) + Len(Program[due]) <= 9 BY <3>1, ServedBy
      <4> QED BY <4>1, <4>2, <4>3, <4>4
    <3>3. n <= l /\ served <= b + 4 * rounds + n - 1
      BY <1>2, <3>1, <3>2 DEF FewServed
    <3>l. b + l <= 9 BY <3>2
    <3>4. served' <= served + 1 /\ served' \in Nat BY <1>n, <2>1
    <3>5. CASE \E why : Fails(c, why)
      <4>1. due' = "raised" BY <2>3, <3>5 DEF Fails
      <4>2. b + n - 1 <= 8 BY <3>3, <3>l
      <4>3. served' <= 9 + 4 * rounds BY <1>n, <3>3, <3>4, <4>2
      <4> QED BY <1>2, <1>3, <2>1, <4>1, <4>3 DEF FewServed
    <3>6. CASE ~\E why : Fails(c, why)
      <4>1. at'["main"].next = n + 1 /\ UNCHANGED due
        BY <1>n, <1>1, <2>1, <2>3, <3>2, <3>6, OnwardEffect
      <4>2. served' <= b + 4 * rounds + (n + 1) - 1 BY <1>n, <3>3, <3>4
      <4>3. n + 1 <= l + 1 BY <3>3
      <4> QED BY <1>n, <1>1, <1>2, <2>1, <3>1, <3>2, <4>1, <4>2, <4>3 DEF FewServed
    <3> QED BY <3>5, <3>6
  <2> QED BY <2>2, <2>3
<1>6. CASE Deliver
  <2>1. /\ due \in DueAgents /\ at["main"].next = Len(Program[due]) + 1
        /\ UNCHANGED served
    BY <1>2, <1>6 DEF Deliver, Finished
  <2>2. PICK following \in Follows(due) :
          /\ due' = following
          /\ rounds' = IF following = "draft_itinerary" /\ due # "research_destination"
                       THEN rounds + 1 ELSE rounds
          /\ at' = [at EXCEPT !["main"] = IF following \in Agents THEN Begin(following) ELSE Idle]
    BY <1>6 DEF Deliver
  <2>3. following \in Agents => at'["main"].next = 1
    BY <1>n, <1>1, <2>2, IdlePlaces DEF Contexts
  <2>4. PICK b \in 0 .. 8, l \in Nat, f \in Nat :
          /\ b = ServedBefore(due) /\ l = Len(Program[due]) /\ f = ServedBefore(following)
          /\ b + l <= f + (IF following = "draft_itinerary" /\ due # "research_destination"
                           THEN 4 ELSE 0)
    <3>1. ServedBefore(following) \in Nat BY DEF ServedBefore
    <3>2. Len(Program[due]) \in Nat BY <2>1, Lengths DEF DueAgents
    <3> QED BY <2>1, <2>2, <3>1, <3>2, ServedBy
  <2>5. served <= b + 4 * rounds + l
    <3>1. served <= ServedBefore(due) + 4 * rounds + at["main"].next - 1
      BY <1>2, <2>1 DEF FewServed
    <3>2. served <= b + 4 * rounds + (l + 1) - 1 BY <2>1, <2>4, <3>1
    <3> QED BY <1>n, <3>2
  <2>6. served <= f + 4 * rounds'
    <3>1. CASE following = "draft_itinerary" /\ due # "research_destination"
      <4>1. b + l <= f + 4 /\ rounds' = rounds + 1 BY <2>2, <2>4, <3>1
      <4> QED BY <1>n, <2>5, <4>1
    <3>2. CASE ~(following = "draft_itinerary" /\ due # "research_destination")
      <4>1. b + l <= f /\ rounds' = rounds BY <2>2, <2>4, <3>2
      <4> QED BY <1>n, <2>5, <4>1
    <3> QED BY <3>1, <3>2
  <2>7. following \in Agents => 1 <= Len(Program[following]) + 1
    <3>1. following \in {"draft_itinerary", "batch", "critique_plan", "end"}
      BY <2>1, <2>2 DEF DueAgents, Follows
    <3> QED BY <1>2, <3>1, Lengths
  <2> QED BY <1>n, <1>1, <2>1, <2>2, <2>3, <2>4, <2>6, <2>7 DEF FewServed
<1>7. CASE StartBatch \/ MergeBatch \/ BatchFails \/ BatchTimesOut
  <2>1. due = "batch" /\ UNCHANGED <<rounds, served>>
    BY <1>7 DEF StartBatch, MergeBatch, BatchFails, BatchTimesOut, history
  <2>2. due' \in {"batch", "audit_budget", "raised"}
    BY <1>7, <2>1 DEF StartBatch, MergeBatch, BatchFails, BatchTimesOut
  <2>3. served <= 7 + 4 * rounds BY <1>2, <1>3, <2>1 DEF FewServed
  <2>4. CASE due' = "audit_budget"
    <3>1. MergeBatch BY <1>7, <2>1, <2>4 DEF StartBatch, BatchFails, BatchTimesOut
    <3>2. at'["main"].next = 1 BY <3>1, <1>1, IdlePlaces, AgentNames DEF MergeBatch, Contexts
    <3>3. ServedBefore("audit_budget") = 7 BY DEF ServedBefore
    <3> QED BY <1>n, <1>1, <2>1, <2>3, <2>4, <3>2, <3>3, Lengths DEF FewServed
  <2>5. CASE due' \in {"batch", "raised"}
    <3>1. served' <= 9 + 4 * rounds' BY <1>n, <2>1, <2>3
    <3> QED BY <1>2, <1>3, <2>1, <2>3, <2>5, <3>1 DEF FewServed
  <2> QED BY <2>2, <2>4, <2>5
<1>8. CASE UNCHANGED vars BY <1>4, <1>8 DEF vars, history
<1> QED BY <1>5, <1>6, <1>7, <1>8 DEF Next, Drive

\* The main account is exact, however batches and their threads end, where the audit log
\* has room for 9 calls and 4 for each revision: the 100 entries it keeps are enough for
\* 22 revisions, and a task's schema allows 3 (append_tool_audit, max_revision_rounds).
THEOREM MainAccountExactHolds ==
    AuditCap >= 9 + 4 * MaxRounds => (Spec => []MainAccountExact)
<1> SUFFICES ASSUME AuditCap >= 9 + 4 * MaxRounds PROVE Spec => []MainAccountExact
    OBVIOUS
<1>1. Init => FewServed
  <2> SUFFICES ASSUME Init PROVE FewServed OBVIOUS
  <2>1. due = "research_destination" /\ rounds = 0 /\ served = 0 BY DEF Init
  <2>2. at["main"].next = 1 BY IdlePlaces, AgentNames DEF Init, Contexts
  <2>3. ServedBefore("research_destination") = 0 BY DEF ServedBefore
  <2> QED BY <2>1, <2>2, <2>3 DEF FewServed
<1>2. Inv /\ Inv' /\ FewServed /\ [Next]_vars => FewServed' BY FewServedStep
<1>3. Inv /\ FewServed => served <= AuditCap
  <2> SUFFICES ASSUME Inv, FewServed PROVE served <= AuditCap OBVIOUS
  <2>1. served \in Nat /\ rounds \in Nat /\ rounds <= MaxRounds BY Bounds DEF Inv, TypeOK
  <2>2. served <= 9 + 4 * rounds
    <3>1. CASE due \in Agents
      <4>1. due \in DueAgents /\ at["main"].agent = due
        BY <3>1, AgentNames DEF Inv, DueIsKnown, DueIsMain
      <4>2. PICK b \in 0 .. 8, l \in Nat, n \in 1 .. 6 :
              /\ b = ServedBefore(due) /\ l = Len(Program[due]) /\ n = at["main"].next
              /\ b + l <= 9
        <5>1. \E b \in 0 .. 8 : b = ServedBefore(due) BY <4>1, ServedBy
        <5>2. \E l \in Nat : l = Len(Program[due]) BY <4>1, ServedBy
        <5>3. \E n \in 1 .. 6 : n = at["main"].next BY DEF Inv, TypeOK, Contexts
        <5>4. ServedBefore(due) + Len(Program[due]) <= 9 BY <4>1, ServedBy
        <5> QED BY <5>1, <5>2, <5>3, <5>4
      <4>3. n <= l + 1 /\ served <= b + 4 * rounds + n - 1 BY <3>1, <4>2 DEF FewServed
      <4>4. b + l <= 9 BY <4>2
      <4>5. b + n - 1 <= 9 BY <4>3, <4>4
      <4> QED BY <2>1, <4>3, <4>5
    <3>2. CASE due \notin Agents
      <4>1. ServedBefore(due) \in {0, 5, 7, 8, 9} BY DEF ServedBefore
      <4> QED BY <2>1, <3>2, <4>1, Bounds DEF FewServed
    <3> QED BY <3>1, <3>2
  <2> QED BY <2>1, <2>2, Bounds
<1> QED BY <1>1, <1>2, <1>3, AccountUntilCut, Invariant, PTL DEF Spec

\* The threads of a batch that failed or was late leave the attempt as it is
\* (executor.shutdown(wait=False) does not stop them).
THEOREM OrphansLeaveNoTraceHolds == Spec => OrphansLeaveNoTrace
<1>1. ASSUME Inv, [Next]_vars, due = "raised" PROVE UNCHANGED <<due, cause, account, reported>>
  <2>1. /\ TypeOK /\ MainIsDue /\ FailuresHaveCause /\ Account BY <1>1 DEF Inv
  <2>2. at["main"].agent \notin Agents /\ "raised" \notin Agents
    BY <1>1, <2>1, AgentNames DEF MainIsDue
  <2>3. ASSUME NEW c \in Contexts, Step(c) PROVE UNCHANGED <<due, cause, account, reported>>
    <3>1. c # "main" BY <2>2, <2>3 DEF Step, Skip, Call, Working
    <3>2. Charged(c) = account BY <3>1 DEF Charged
    <3>3. \A why : Fails(c, why) => UNCHANGED <<due, cause>>
      BY <1>1, <2>1, <3>1 DEF Fails, FailuresHaveCause
    <3>4. CASE Skip(c) BY <3>3, <3>4 DEF Skip
    <3>5. CASE Call(c) BY <3>2, <3>3, <3>5 DEF Call
    <3> QED BY <2>3, <3>4, <3>5 DEF Step
  <2>4. ~Drive /\ ~BatchTimesOut
    BY <1>1, <2>2 DEF Drive, Deliver, StartBatch, MergeBatch, BatchFails, BatchTimesOut
  <2>5. CASE UNCHANGED vars BY <2>5 DEF vars, history
  <2> QED BY <1>1, <2>3, <2>4, <2>5 DEF Next
<1>2. Inv /\ [Next]_vars =>
        [due = "raised" => UNCHANGED <<due, cause, account, reported>>]_vars
  BY <1>1
<1> QED BY <1>2, Invariant, PTL DEF Spec, OrphansLeaveNoTrace
=============================================================================
