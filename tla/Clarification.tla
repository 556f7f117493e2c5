---------------------------- MODULE Clarification ----------------------------
(***************************************************************************)
(* The clarification dialogue: ClarificationCopilotService.next_turn, a    *)
(* stateless call that is sent the request and all answers, and the page   *)
(* that asks (Clarification.tsx), up to the press of Start Planning.       *)
(*                                                                         *)
(* The page keeps the answers in its state and the last request in the     *)
(* browser's storage, from which a reload takes them.  While it has no     *)
(* question yet its effect runs at every render and sends a call each      *)
(* time, so that calls overlap; replies come in any order.                 *)
(*                                                                         *)
(* A request is what the questions depend on: which preferences and which  *)
(* entries of the profile are there, and whether the occasion is special.  *)
(* Left out: the destination signals, which fall back to fixed lines on    *)
(* any failure, the wording, and the notes that repeat the profile; and    *)
(* the third disjunct of needsBootstrap, a reply made of another request   *)
(* than the stored one, for each reply and each reload sets both together. *)
(***************************************************************************)
EXTENDS Integers, SequencesExt

CONSTANTS None,
          MaxQuestions,  \* max_questions
          MaxAnswers,    \* bound: answers given
          MaxCalls,      \* bound: calls under way
          MaxFaults      \* bound: calls that fail, and reloads

\* max_questions is 5 in the code: the first five questions are the ones that reach the
\* preferences (ReadyMeansPlannable), a copilot that asked fewer would not.
ASSUME Bounds == /\ MaxQuestions \in Nat /\ MaxQuestions >= 5 /\ MaxAnswers \in Nat
                 /\ MaxCalls \in Nat \ {0} /\ MaxFaults \in Nat

VARIABLES answers,   \* the page's answers, oldest first
          copilot,   \* the page's copilot: the last reply, or None
          loading,   \* isLoading
          stored,    \* the request in the storage (savePlannerRequest)
          saved,     \* the dialogue in the storage (saveClarificationState): a reply, or None
          calls,     \* calls under way: what each was sent
          started,   \* the request the planner was started with, or None
          faults,    \* history: calls failed and reloads
          late       \* history: a reply to fewer answers than were given was shown

vars == <<answers, copilot, loading, stored, saved, calls, started, faults, late>>
-----------------------------------------------------------------------------
Preferences == {"interests", "accommodation_preference", "transport_preference"}

\* The questions in the order of _select_next_question.
Order == <<"interests", "occasion_type", "memory_priorities", "stay_vibe", "night_comfort",
           "food_focus", "celebration_style", "must_have_moment">>

\* The preferences that answers settle.
Feeds == [interests |-> "interests", stay_vibe |-> "accommodation_preference",
          night_comfort |-> "transport_preference"]

Keys(transcript) == {transcript[i].key : i \in DOMAIN transcript}

\* Of several answers about the occasion the last one counts.
ToldSpecial(transcript) ==
    \E i \in DOMAIN transcript :
        /\ transcript[i].key = "occasion_type" /\ transcript[i].special
        /\ \A j \in i + 1 .. Len(transcript) : transcript[j].key # "occasion_type"

\* _apply_answers.  Mutant: the memories are not kept.
Taken_NoMemories(request, transcript) ==
    [prefs |-> request.prefs \cup {Feeds[key] : key \in Keys(transcript) \cap DOMAIN Feeds},
     profile |-> request.profile \cup (Keys(transcript) \ {"interests", "memory_priorities"}),
     special |-> IF "occasion_type" \in Keys(transcript) THEN ToldSpecial(transcript)
                 ELSE request.special]
Taken(request, transcript) ==
    [prefs |-> request.prefs \cup {Feeds[key] : key \in Keys(transcript) \cap DOMAIN Feeds},
     profile |-> request.profile \cup (Keys(transcript) \ {"interests"}),
     special |-> IF "occasion_type" \in Keys(transcript) THEN ToldSpecial(transcript)
                 ELSE request.special]

\* What is still worth asking.  A profile that is there already, or a preference given
\* with the request, makes its question needless.
Lacks(request) ==
    {key \in Range(Order) :
        CASE key = "interests" -> key \notin request.prefs
          [] key \in {"memory_priorities", "celebration_style"} ->
                request.special /\ key \notin request.profile
          [] key = "stay_vibe" ->
                key \notin request.profile /\ "accommodation_preference" \notin request.prefs
          [] key = "night_comfort" ->
                key \notin request.profile /\ "transport_preference" \notin request.prefs
          [] OTHER -> key \notin request.profile}

\* answered_count counts answers, not questions answered.  Mutant: one question fewer.
Enough_AtFour(transcript) == Len(transcript) >= MaxQuestions - 1
Enough(transcript) == Len(transcript) >= MaxQuestions

Question(request, transcript) ==
    IF Enough(transcript) \/ Lacks(request) = {} THEN "none"
    ELSE LET i == CHOOSE i \in DOMAIN Order : /\ Order[i] \in Lacks(request)
                                              /\ \A j \in 1 .. i - 1 : Order[j] \notin Lacks(request)
         IN  Order[i]

NextTurn(call) ==
    LET request == Taken(call.request, call.transcript)
    IN  [request |-> request, transcript |-> call.transcript,
         question |-> Question(request, call.transcript)]

ReadyToPlan(turn) == turn.question = "none"

\* A request, an answer and a reply (TripRequest, ClarificationAnswer,
\* ClarificationCopilotResponse).
Requests == [prefs : SUBSET Preferences, profile : SUBSET Range(Order), special : BOOLEAN]
Answers == [key : Range(Order), special : BOOLEAN]
Turns == [request : Requests, transcript : Seq(Answers), question : Range(Order) \cup {"none"}]

ASSUME NoneApart == None \notin Turns

\* What ClarificationPolicy asks when the run starts; the dates are valid by then.
Blocking(request) == Preferences \ request.prefs
-----------------------------------------------------------------------------
\* New Trip stores the request and clears the dialogue.
Init ==
    /\ \E prefs \in SUBSET Preferences :
          stored = [prefs |-> prefs, profile |-> {}, special |-> FALSE]
    /\ answers = <<>> /\ copilot = None /\ saved = None /\ loading = FALSE
    /\ calls = <<>> /\ started = None
    /\ faults = 0 /\ late = FALSE

Send(transcript) ==
    /\ Len(calls) < MaxCalls
    /\ calls' = Append(calls, [request |-> stored, transcript |-> transcript])
    /\ loading' = TRUE

\* The effect, and the button that retries.
Bootstrap ==
    /\ copilot = None /\ started = None
    /\ Send(answers)
    /\ UNCHANGED <<answers, copilot, stored, saved, started, faults, late>>

\* The answer to the occasion says whether it is a special one.
SubmitAnswer(special) ==
    /\ copilot # None /\ started = None
    /\ special => copilot.question = "occasion_type"
    /\ ~ReadyToPlan(copilot) /\ ~loading /\ Len(answers) < MaxAnswers
    /\ answers' = Append(answers, [key |-> copilot.question, special |-> special])
    /\ Send(answers')
    /\ UNCHANGED <<copilot, stored, saved, started, faults, late>>

\* Any reply becomes the page's, and ends the loading, though another may be under way.
Reply(i) ==
    /\ started = None
    /\ LET turn == NextTurn(calls[i])
       IN  /\ copilot' = turn /\ saved' = turn /\ stored' = turn.request
           /\ late' = (late \/ turn.transcript # answers)
    /\ calls' = RemoveAt(calls, i) /\ loading' = FALSE
    /\ UNCHANGED <<answers, started, faults>>

\* The answer stays in the transcript, and its question on the page.
CallFails(i) ==
    /\ started = None /\ faults < MaxFaults
    /\ calls' = RemoveAt(calls, i) /\ loading' = FALSE /\ faults' = faults + 1
    /\ UNCHANGED <<answers, copilot, stored, saved, started, late>>

Reload ==
    /\ started = None /\ faults < MaxFaults
    /\ copilot' = saved /\ answers' = IF saved = None THEN <<>> ELSE saved.transcript
    /\ calls' = <<>> /\ loading' = FALSE /\ faults' = faults + 1
    /\ UNCHANGED <<stored, saved, started, late>>

StartPlanning ==
    /\ copilot # None /\ started = None
    /\ ReadyToPlan(copilot)
    /\ started' = copilot.request
    /\ UNCHANGED <<answers, copilot, loading, stored, saved, calls, faults, late>>

Next == \/ Bootstrap \/ (\E special \in BOOLEAN : SubmitAnswer(special)) \/ StartPlanning
        \/ (\E i \in DOMAIN calls : Reply(i) \/ CallFails(i)) \/ Reload

Spec == Init /\ [][Next]_vars
-----------------------------------------------------------------------------
(* Properties. *)

NoRepeat(transcript) ==
    \A i, j \in DOMAIN transcript : transcript[i].key = transcript[j].key => i = j

\* When the copilot says that it has asked enough, the policy of the run has no
\* blocking question left: five questions reach the preferences whichever occasion is
\* told, unless one was answered twice (each answer counts).
ReadyMeansPlannable ==
    copilot # None =>
        (ReadyToPlan(copilot) /\ NoRepeat(copilot.transcript) => Blocking(copilot.request) = {})

\* No question is put twice, and the planner starts with every answer in its request,
\* unless a call failed or a late reply put the page back.
AnswersCount ==
    faults = 0 /\ ~late =>
        /\ NoRepeat(answers)
        /\ started # None =>
              \A i \in DOMAIN answers : answers[i].key \in started.profile \cup started.prefs
=============================================================================
