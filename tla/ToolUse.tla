------------------------------- MODULE ToolUse -------------------------------
(***************************************************************************)
(* How the agents of nodes.py use their tools: the registry and the        *)
(* executor of tooling/registry.py, the tools with the providers behind    *)
(* them, and the stages each agent goes through, in the order in which the *)
(* coordinator runs the agents (Coordinator.tla says why in that order).   *)
(*                                                                         *)
(* An agent works on a context: the main one, or in a parallel batch a     *)
(* deep copy of it that is named here for its agent.  The threads of a     *)
(* batch that failed or timed out are not stopped and go on calling.       *)
(*                                                                         *)
(* What an agent asks and reports is in Specialists.tla.  Left out: inputs *)
(* and outputs that fail their own schema (the agents pass and the tools   *)
(* return instances of it), tokens, cost and latency, which nothing reads. *)
(***************************************************************************)
EXTENDS TaskBoard

CONSTANTS KeySets,     \* the sets of providers that may be configured
          MaxRounds,   \* how often the itinerary may be drafted again
          AuditCap     \* tool_audit_log keeps the last AuditCap entries

Agents == Tasks \ {"clarify_request", "govern_plan"}
Contexts == {"main"} \cup Parallel

Providers == {"tavily", "weatherapi", "openai", "serpapi"}

ASSUME Keys == KeySets \subseteq SUBSET Providers
ASSUME Bounds == MaxRounds \in Nat /\ AuditCap \in Nat \ {0}

VARIABLES keys,      \* input: the providers with an API key
          soon,      \* input: the trip starts within the forecast window
          routed,    \* input: the airports of both cities are known
          due,       \* the agent the coordinator runs, "batch", or the end
          rounds,    \* itineraries sent back so far
          at,        \* where the agent of each context is
          account,   \* short_term_memory.tool_budget and tool_audit_log of the main context
          reported,  \* the agents whose report stands in the context
          cause,     \* history: what made the attempt raise
          failed,    \* history: a call got no answer of use, or a batch was late
          fellBack,  \* history: an agent reported its fallback
          served     \* history: calls answered to an agent on the main context

inputs == <<keys, soon, routed>>
history == <<cause, failed, fellBack, served>>
vars == <<inputs, due, rounds, at, account, reported, history>>
-----------------------------------------------------------------------------
(* The tools that some agent calls, as the registry builds them. *)

Provider ==
    [web_search |-> "tavily", weather_lookup |-> "weatherapi", json_completion |-> "openai",
     google_hotels_search |-> "serpapi", tripadvisor_search |-> "serpapi",
     google_flights_search |-> "serpapi"]

\* The allowed_agents of each tool's metadata.
AllowedAgents ==
    [web_search            |-> {"research_destination", "recommend_stay", "plan_transport",
                                "recommend_food"},
     weather_lookup        |-> {"research_destination"},
     json_completion       |-> Agents,
     google_hotels_search  |-> {"recommend_stay"},
     tripadvisor_search    |-> {"recommend_stay", "recommend_food"},
     google_flights_search |-> {"research_destination"}]

\* A tool whose provider has no key has no client.
IsAvailable(tool) == Provider[tool] \in keys

\* One request, no retry: an HTTP error, a timeout or a text that is not JSON is a
\* ResearchClientError; a broken connection or encoding is any other exception.
JsonRequest == {"answered", "client_error", "other_error"}

\* What is not of the shape the tool expects either fails the tool's own model
\* (a ValidationError) or breaks the code that reads it (any other exception).
WebSearchYields    == JsonRequest \cup {"validation_error"}
WeatherYields      == JsonRequest \cup {"validation_error"}
CompletionYields   == JsonRequest \cup {"validation_error"}
HotelsYields       == JsonRequest \cup {"validation_error"}
TripadvisorYields  == JsonRequest
FlightsYields      == JsonRequest

Yields == [web_search |-> WebSearchYields, weather_lookup |-> WeatherYields,
           json_completion |-> CompletionYields, google_hotels_search |-> HotelsYields,
           tripadvisor_search |-> TripadvisorYields, google_flights_search |-> FlightsYields]

-----------------------------------------------------------------------------
(* The agents' stages.  While it gathers, an agent can do without an answer;  *)
(* the model stage has the fallback report instead; then the itinerary is     *)
(* enriched with links, for every day that lacks one.                         *)

Gather(tool) == [kind |-> "gather", tool |-> tool]
Forecast == [kind |-> "forecast", tool |-> "weather_lookup"]
Model == [kind |-> "model", tool |-> "json_completion"]
Enrich == [kind |-> "enrich", tool |-> "web_search"]

Research  == <<Gather("weather_lookup"), Forecast, Gather("web_search"),
               Gather("google_flights_search"), Model>>
Itinerary == <<Model, Enrich>>
Stay      == <<Gather("web_search"), Gather("google_hotels_search"),
               Gather("tripadvisor_search"), Model>>
Transport == <<Gather("web_search"), Model>>
Food      == <<Gather("web_search"), Gather("tripadvisor_search"), Model>>
BudgetAudit   == <<Model>>
SafetyAdvice  == <<Model>>
PlanReview    == <<Model>>

Program == [research_destination |-> Research, draft_itinerary |-> Itinerary,
            recommend_stay |-> Stay, plan_transport |-> Transport, recommend_food |-> Food,
            audit_budget |-> BudgetAudit, review_safety |-> SafetyAdvice,
            critique_plan |-> PlanReview]

\* What an agent may make of an answer.  Reading the weather, or a day_number that
\* is no number, may break it outside of its handlers; a completion without
\* recommendations, legs or venues is of no use.
Digests(agent, tool) ==
    (IF <<agent, tool>> \in {<<"research_destination", "weather_lookup">>,
                             <<"plan_transport", "json_completion">>,
                             <<"recommend_food", "json_completion">>} THEN {"garbled"} ELSE {})
    \cup (IF agent \in {"recommend_stay", "plan_transport", "recommend_food"}
             /\ tool = "json_completion" THEN {"useless"} ELSE {})
-----------------------------------------------------------------------------
Idle == [agent |-> "none", next |-> 1, heard |-> FALSE, source |-> "none", open |-> FALSE]
Begin(agent) == [Idle EXCEPT !.agent = agent]
Gone(how) == [Idle EXCEPT !.agent = how]

Init ==
    /\ keys \in KeySets /\ soon \in BOOLEAN /\ routed \in BOOLEAN
    /\ due = "research_destination" /\ rounds = 0
    /\ at = [c \in Contexts |-> IF c = "main" THEN Begin("research_destination") ELSE Idle]
    /\ account = [calls |-> 0, log |-> 0]
    /\ reported = {}
    /\ cause = "none" /\ failed = FALSE /\ fellBack = FALSE /\ served = 0

Working(c) == at[c].agent \in Agents /\ at[c].next <= Len(Program[at[c].agent])
Stage(c) == Program[at[c].agent][at[c].next]

\* Whether the agent asks: is_available and its own conditions.
Asks(c) ==
    /\ IsAvailable(Stage(c).tool)
    /\ Stage(c).kind = "forecast" => soon /\ at[c].heard
    /\ Stage(c).tool = "google_flights_search" => routed
    /\ Stage(c).kind = "enrich" => at[c].open

\* ToolExecutor.execute checks the permission before it asks the provider.
Outcomes(c) ==
    LET agent == at[c].agent
        tool == Stage(c).tool
    IN  IF agent \notin AllowedAgents[tool] THEN {"not_allowed"}
        ELSE Yields[tool] \cup Digests(agent, tool)

Served(outcome) == outcome \in {"answered", "garbled", "useless"}

\* The exceptions the stage catches.  Mutants: an outage while gathering, or an
\* unusable completion, is not caught.
Catches_NotWhileGathering(kind) ==
    IF kind = "model" THEN {"client_error", "validation_error"} ELSE {}
Catches(kind) ==
    IF kind = "model" THEN {"client_error", "validation_error"} ELSE {"client_error"}

Least(m, n) == IF m <= n THEN m ELSE n

\* A served call is counted and logged on the context of its agent.  What is
\* counted on the copy of a batch's specialist is lost with it: we keep the main
\* account.  Mutants: the batch works on the main context; the log keeps too little.
Charged_Shared(c) == [calls |-> account.calls + 1, log |-> account.log + 1]
Charged_LogCut(c) ==
    IF c = "main" THEN [calls |-> account.calls + 1, log |-> Least(account.log + 1, 5)] ELSE account
Charged(c) ==
    IF c = "main" THEN [calls |-> account.calls + 1, log |-> Least(account.log + 1, AuditCap)]
    ELSE account

\* The agent goes on: after its model stage it has a report, its own or the
\* fallback, of which the links are checked.
Onward(c, source, heard, open) ==
    at' = [at EXCEPT ![c] =
               [agent  |-> at[c].agent,
                next   |-> at[c].next + 1,
                heard  |-> heard /\ Stage(c) = Gather("weather_lookup"),
                source |-> IF source = "same" THEN at[c].source ELSE source,
                open   |-> open /\ at[c].agent = "draft_itinerary"]]

\* What a connection, a text or an answer does that no handler expects.
Unexpected == {"validation_error", "other_error", "garbled"}

\* An exception leaves the agent: the attempt raises, or the thread of a batch ends.
Fails(c, why) ==
    /\ at' = [at EXCEPT ![c] = Gone("failed")]
    /\ due' = IF c = "main" THEN "raised" ELSE due
    /\ cause' = IF cause # "none" THEN cause
                ELSE IF why \in Unexpected THEN "unexpected" ELSE why

\* A stage that asks nothing.  The itinerary's fallback is called without the
\* executor here, which it does not survive.
Skip(c) ==
    /\ Working(c) /\ ~Asks(c)
    /\ IF Stage(c).kind # "model"
       THEN Onward(c, "same", FALSE, at[c].open) /\ UNCHANGED <<due, cause>>
       ELSE IF at[c].agent = "draft_itinerary" THEN Fails(c, "no_executor")
       ELSE Onward(c, "fallback", FALSE, TRUE) /\ UNCHANGED <<due, cause>>
    /\ UNCHANGED <<inputs, rounds, account, reported, failed, fellBack, served>>

Call(c) ==
    /\ Working(c) /\ Asks(c)
    /\ \E outcome \in Outcomes(c) :
          /\ account' = IF Served(outcome) THEN Charged(c) ELSE account
          /\ served' = IF Served(outcome) /\ c = "main" THEN served + 1 ELSE served
          /\ failed' = (failed \/ outcome \notin {"answered", "not_allowed"})
          /\ IF outcome = "answered"
             THEN /\ \E open \in IF Stage(c).kind = "model" THEN BOOLEAN ELSE {FALSE} :
                        Onward(c, IF Stage(c).kind = "model" THEN "model" ELSE "same", TRUE, open)
                  /\ UNCHANGED <<due, cause>>
             ELSE IF outcome \in Catches(Stage(c).kind) \cup {"useless"}
             THEN /\ Onward(c, IF Stage(c).kind = "model" THEN "fallback" ELSE "same", FALSE,
                            Stage(c).kind = "model" \/ at[c].open)
                  /\ UNCHANGED <<due, cause>>
             ELSE Fails(c, outcome)
    /\ UNCHANGED <<inputs, rounds, reported, fellBack>>

Finished(c) == at[c].agent \in Agents /\ at[c].next = Len(Program[at[c].agent]) + 1

\* The coordinator's next choices; budget and review may send the itinerary back.
Follows(agent) ==
    CASE agent = "research_destination" -> {"draft_itinerary"}
      [] agent = "draft_itinerary" -> {"batch"}
      [] agent = "audit_budget" -> {"critique_plan", "draft_itinerary"}
      [] agent = "critique_plan" -> {"end", "draft_itinerary"}

\* revision_count < max_revision_rounds.
RoundLeft == rounds < MaxRounds

\* The reports that stand when the itinerary is asked for again: those on the draft
\* that is sent back are cleared, the draft itself is replaced.
Kept(reports) == reports \ Downstream

Deliver ==
    /\ due \in Agents /\ Finished("main")
    /\ fellBack' = (fellBack \/ at["main"].source = "fallback")
    /\ \E following \in Follows(due) :
          LET again == following = "draft_itinerary" /\ due # "research_destination"
              reports == reported \cup {due}
          IN  /\ again => RoundLeft
              /\ rounds' = IF again THEN rounds + 1 ELSE rounds
              /\ reported' = IF again THEN Kept(reports) ELSE reports
              /\ due' = following
              /\ at' = [at EXCEPT !["main"] = IF following \in Agents THEN Begin(following) ELSE Idle]
    /\ UNCHANGED <<inputs, account, cause, failed, served>>

\* The batch: one thread and one deep copy of the context for each specialist.
StartBatch ==
    /\ due = "batch" /\ \A c \in Parallel : at[c] = Idle
    /\ at' = [c \in Contexts |-> IF c \in Parallel THEN Begin(c) ELSE at[c]]
    /\ UNCHANGED <<inputs, due, rounds, account, reported, history>>

\* The deliverables that _merge_context takes over.  Mutant: one is forgotten.
Merged_NoSafety == Parallel \ {"review_safety"}
Merged == Parallel

\* The reports are merged, and nothing else of the copies.
MergeBatch ==
    /\ due = "batch" /\ \A c \in Parallel : Finished(c)
    /\ reported' = reported \cup Merged
    /\ fellBack' = (fellBack \/ \E t \in Parallel : at[t].source = "fallback")
    /\ due' = "audit_budget"
    /\ at' = [c \in Contexts |-> IF c = "main" THEN Begin("audit_budget") ELSE Idle]
    /\ UNCHANGED <<inputs, rounds, account, cause, failed, served>>

\* A specialist failed: the batch raises at once, whatever the others do.
\* Mutant: it raises when all have failed.
BatchFails_All ==
    /\ due = "batch" /\ \A c \in Parallel : at[c] = Gone("failed")
    /\ due' = "raised"
    /\ UNCHANGED <<inputs, rounds, at, account, reported, history>>
BatchFails ==
    /\ due = "batch" /\ \E c \in Parallel : at[c] = Gone("failed")
    /\ due' = "raised"
    /\ UNCHANGED <<inputs, rounds, at, account, reported, history>>

BatchTimesOut ==
    /\ due = "batch" /\ \E c \in Parallel : Working(c)
    /\ due' = "raised" /\ failed' = TRUE
    /\ cause' = IF cause = "none" THEN "timeout" ELSE cause
    /\ UNCHANGED <<inputs, rounds, at, account, reported, fellBack, served>>
-----------------------------------------------------------------------------
Step(c) == Skip(c) \/ Call(c)
Drive == Deliver \/ StartBatch \/ MergeBatch \/ BatchFails

Next == (\E c \in Contexts : Step(c)) \/ Drive \/ BatchTimesOut

Spec == Init /\ [][Next]_vars

\* Every request has a timeout, so that a thread that runs goes on; a batch need
\* not time out.
FairSpec == Spec /\ (\A c \in Contexts : WF_vars(Step(c))) /\ WF_vars(Drive)
-----------------------------------------------------------------------------
(* Properties. *)

Causes == {"client_error", "unexpected", "not_allowed", "no_executor", "timeout"}

TypeOK ==
    /\ keys \in KeySets /\ soon \in BOOLEAN /\ routed \in BOOLEAN
    /\ due \in Agents \cup {"batch", "end", "raised"}
    /\ rounds \in 0 .. MaxRounds
    /\ at \in [Contexts -> [agent: Agents \cup {"none", "failed"}, next: 1 .. 6, heard: BOOLEAN,
                            source: {"none", "model", "fallback"}, open: BOOLEAN]]
    /\ account \in [calls: Nat, log: 0 .. AuditCap]
    /\ reported \subseteq Agents /\ fellBack \in BOOLEAN
    /\ cause \in Causes \cup {"none"} /\ failed \in BOOLEAN /\ served \in Nat

\* What the main context says was spent, and what its audit log shows, is exactly
\* what was answered to the agents that ran on it, through any number of batches and
\* of threads that outlive theirs: a batch is charged nowhere, but neither does it
\* disturb the account, and no entry of the log is ever cut.
MainAccountExact == account.calls = served /\ account.log = served

\* A provider that is down ends no attempt by itself: every agent reports without
\* it.  An attempt raises for an answer it cannot read, a broken connection, a late
\* batch, or because the itinerary agent calls its fallback wrongly (without an
\* OpenAI key) or a tool it may not use (with a Tavily key).
RaisesExplained ==
    due = "raised" =>
        \/ cause \in {"unexpected", "timeout"}
        \/ cause = "no_executor" /\ "openai" \notin keys
        \/ cause = "not_allowed" /\ {"openai", "tavily"} \subseteq keys

\* A trip is judged on reports that are all there, and one the model did not write
\* was written by the fallback because something failed on the way, or was not
\* configured: a fallback never hides a good answer.
ReportsComplete ==
    due = "end" =>
        /\ reported = Agents
        /\ fellBack => failed

\* The threads a failed batch leaves behind do not touch the attempt any more.
OrphansLeaveNoTrace ==
    [][due = "raised" => UNCHANGED <<due, cause, account, reported>>]_vars

\* An attempt ends, and all its threads with it.
ThreadsEnd == <>(due \in {"end", "raised"} /\ \A c \in Contexts : ~Working(c))

=============================================================================
