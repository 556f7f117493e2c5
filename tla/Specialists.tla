----------------------------- MODULE Specialists -----------------------------
(***************************************************************************)
(* What each specialist agent of nodes.py may report.  An agent asks its   *)
(* tools, then the model; if the model cannot be asked, or what it returns *)
(* is no use, the agent reports its fallback.  Of a report we keep what    *)
(* the coordinator and the governance gate read:                           *)
(*   draft       the itinerary it was made of (for an itinerary, itself);  *)
(*   confidence  in percent, as the model puts it, cut to 0 .. 100;        *)
(*   verdict     the itinerary keeps to the researched areas, the budget   *)
(*               is met, the review approves;                              *)
(*   issues      the review lists some.                                    *)
(* Agents without a verdict or issues report TRUE and FALSE there.         *)
(***************************************************************************)
EXTENDS TaskBoard

CONSTANT Confidences    \* the confidences a model may give its report, in percent

ASSUME ConfidencesArePercent == Confidences \subseteq 0 .. 100

\* The confidence of every fallback.
FallbackConfidence == 25

Report == [draft: Nat, confidence: Confidences \cup {FallbackConfidence},
           verdict: BOOLEAN, issues: BOOLEAN]

FromModel(draft, verdicts, issues) ==
    [draft: {draft}, confidence: Confidences, verdict: verdicts, issues: issues]
Fallback(draft, verdict, issues) ==
    [draft: {draft}, confidence: {FallbackConfidence}, verdict: {verdict}, issues: {issues}]

-----------------------------------------------------------------------------
\* Research comes first and knows no draft.  It is the only report of a
\* specialist that an attempt without an OpenAI key gets to see.
ResearchReports(keyed) ==
    Fallback(0, TRUE, FALSE) \cup (IF keyed THEN FromModel(0, {TRUE}, {FALSE}) ELSE {})

\* The fallback stays in the first researched area, and a day the model leaves
\* out is filled with it; the days the model gives may be anywhere.
Itineraries(draft) == Fallback(draft, TRUE, FALSE) \cup FromModel(draft, BOOLEAN, {FALSE})

StayPlans(draft)      == Fallback(draft, TRUE, FALSE) \cup FromModel(draft, {TRUE}, {FALSE})
TransportPlans(draft) == Fallback(draft, TRUE, FALSE) \cup FromModel(draft, {TRUE}, {FALSE})
FoodPlans(draft)      == Fallback(draft, TRUE, FALSE) \cup FromModel(draft, {TRUE}, {FALSE})
SafetyReports(draft)  == Fallback(draft, TRUE, FALSE) \cup FromModel(draft, {TRUE}, {FALSE})

\* What the model does not say clearly is over budget; so is the fallback.
BudgetAssessments(draft) ==
    Fallback(draft, FALSE, FALSE) \cup FromModel(draft, BOOLEAN, {FALSE})

\* The model may approve with issues, or object without one.  The fallback
\* never approves and names as an issue that it is one.
Reviews(draft) == Fallback(draft, FALSE, TRUE) \cup FromModel(draft, BOOLEAN, BOOLEAN)
=============================================================================
