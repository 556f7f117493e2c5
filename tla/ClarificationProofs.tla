------------------------ MODULE ClarificationProofs ------------------------
(***************************************************************************)
(* What holds of the clarification dialogue, for any number of answers,    *)
(* overlapping calls, failures and reloads.                                *)
(*                                                                         *)
(* The argument: whatever was given with the trip, every request on the    *)
(* page, in the storage or in a call is what was given with the first so   *)
(* many answers taken in (Consistent), so a reply depends on what was      *)
(* given and on its transcript alone.  Hence, as long as no question was   *)
(* answered twice, each answer is to the question its predecessors leave   *)
(* (Asked), and the fifth question is past the three preferences.          *)
(***************************************************************************)
EXTENDS Clarification, TLAPS

Topics == Range(Order)

Given == [prefs : SUBSET Preferences, profile : {{}}, special : {FALSE}]

\* s is the beginning of t; the first n of t; a call with what was given.
Begins(s, t) == Len(s) <= Len(t) /\ \A i \in DOMAIN s : t[i] = s[i]
Firsts(t, n) == SubSeq(t, 1, n)
Turn(given, t) == NextTurn([request |-> given, transcript |-> t])

\* What a call was sent.
Sent == [request : Requests, transcript : Seq(Answers)]

TypeOK ==
    /\ answers \in Seq(Answers) /\ loading \in BOOLEAN
    /\ copilot \in Turns \cup {None} /\ saved \in Turns \cup {None}
    /\ stored \in Requests
    /\ calls \in Seq(Sent)
    /\ faults \in Nat /\ late \in BOOLEAN

Consistent(given) ==
    /\ stored = IF saved = None THEN given ELSE saved.request
    /\ saved # None => saved = Turn(given, saved.transcript) /\ Begins(saved.transcript, answers)
    /\ copilot # None =>
          copilot = Turn(given, copilot.transcript) /\ Begins(copilot.transcript, answers)
    /\ \A i \in DOMAIN calls :
          /\ Begins(calls[i].transcript, answers)
          /\ NextTurn(calls[i]) = Turn(given, calls[i].transcript)

\* Each answer is to the question that the answers before it leave.
Asked(given, t) ==
    \A n \in DOMAIN t :
        NoRepeat(Firsts(t, n)) => t[n].key = Turn(given, Firsts(t, n - 1)).question

\* Where no call failed and no late reply was shown, the page is up to date or waits.
UpToDate(given) ==
    faults = 0 /\ ~late =>
        /\ NoRepeat(answers)
        /\ copilot # None =>
              copilot.transcript = answers \/ (loading /\ ~ReadyToPlan(copilot))
        /\ started # None => started = Taken(given, answers)

Inv == /\ TypeOK
       /\ \E given \in Given : Consistent(given) /\ Asked(given, answers) /\ UpToDate(given)
-----------------------------------------------------------------------------
LEMMA TopicsAre ==
    /\ DOMAIN Order = 1 .. 8 /\ Len(Order) = 8
    /\ Topics = {"interests", "occasion_type", "memory_priorities", "stay_vibe", "night_comfort",
                 "food_focus", "celebration_style", "must_have_moment"}
    /\ \A i, j \in 1 .. 8 : Order[i] = Order[j] => i = j
    /\ "none" \notin Topics
BY DEF Topics, Order, Range
LEMMA FeedsAre ==
    /\ DOMAIN Feeds = {"interests", "stay_vibe", "night_comfort"}
    /\ \A key \in DOMAIN Feeds : Feeds[key] \in Preferences /\ key \in Topics
BY TopicsAre DEF Feeds, Preferences

LEMMA KeysAre ==
    ASSUME NEW t \in Seq(Answers)
    PROVE  /\ Keys(t) \subseteq Topics
           /\ \A n \in DOMAIN t : t[n] \in Answers /\ t[n].key \in Keys(t) /\ t[n].key \in Topics
<1>1. \A n \in DOMAIN t : t[n] \in Answers OBVIOUS
<1>2. \A n \in DOMAIN t : t[n].key \in Topics BY <1>1 DEF Answers, Topics
<1> QED BY <1>1, <1>2 DEF Keys

LEMMA GivenAreRequests == Given \subseteq Requests
BY DEF Given, Requests

LEMMA TakenFields ==
    ASSUME NEW request \in Requests, NEW t \in Seq(Answers)
    PROVE  LET taken == Taken(request, t)
           IN  /\ taken \in Requests
               /\ taken.prefs = request.prefs \cup {Feeds[key] : key \in Keys(t) \cap DOMAIN Feeds}
               /\ taken.profile = request.profile \cup (Keys(t) \ {"interests"})
               /\ taken.special = (IF "occasion_type" \in Keys(t) THEN ToldSpecial(t)
                                   ELSE request.special)
<1> DEFINE prefs == request.prefs \cup {Feeds[key] : key \in Keys(t) \cap DOMAIN Feeds}
           profile == request.profile \cup (Keys(t) \ {"interests"})
           special == IF "occasion_type" \in Keys(t) THEN ToldSpecial(t) ELSE request.special
<1>a. request.prefs \subseteq Preferences /\ request.profile \subseteq Topics
  BY DEF Requests, Topics
<1>b. \A key \in Keys(t) \cap DOMAIN Feeds : Feeds[key] \in Preferences BY FeedsAre
<1>1. prefs \in SUBSET Preferences BY <1>a, <1>b
<1>2. profile \in SUBSET Topics BY <1>a, KeysAre
<1>3. special \in BOOLEAN BY DEF Requests, ToldSpecial
<1>4. Taken(request, t) = [prefs |-> prefs, profile |-> profile, special |-> special] BY DEF Taken
<1> HIDE DEF prefs, profile, special
<1>5. Taken(request, t) \in Requests BY <1>1, <1>2, <1>3, <1>4 DEF Requests, Topics
<1>6. /\ Taken(request, t).prefs = prefs /\ Taken(request, t).profile = profile
      /\ Taken(request, t).special = special
  BY <1>4
<1> QED BY <1>5, <1>6 DEF prefs, profile, special

\* A request that holds some of the answers already gains nothing when these come again.
LEMMA TakenTwice ==
    ASSUME NEW given \in Given, NEW s \in Seq(Answers), NEW t \in Seq(Answers), Begins(s, t)
    PROVE  Taken(Taken(given, s), t) = Taken(given, t)
<1> DEFINE once == Taken(given, s)
           twice == Taken(once, t)
           direct == Taken(given, t)
           Fed(u) == {Feeds[key] : key \in Keys(u) \cap DOMAIN Feeds}
           Told(u) == Keys(u) \ {"interests"}
<1>1. given \in Requests BY GivenAreRequests
<1>2. once \in Requests /\ direct \in Requests BY <1>1, TakenFields
<1>3. twice \in Requests BY <1>2, TakenFields
<1>4. Keys(s) \subseteq Keys(t) BY DEF Begins, Keys
<1>a. /\ once.prefs = given.prefs \cup Fed(s) /\ direct.prefs = given.prefs \cup Fed(t)
      /\ once.profile = given.profile \cup Told(s) /\ direct.profile = given.profile \cup Told(t)
  BY <1>1, TakenFields
<1>b. twice.prefs = once.prefs \cup Fed(t) /\ twice.profile = once.profile \cup Told(t)
  BY <1>2, TakenFields
<1>c. Fed(s) \subseteq Fed(t) /\ Told(s) \subseteq Told(t) BY <1>4
<1>5. twice.prefs = direct.prefs /\ twice.profile = direct.profile
  <2> HIDE DEF once, twice, direct, Fed, Told
  <2> QED BY <1>a, <1>b, <1>c
<1>7. twice.special = direct.special BY <1>1, <1>2, <1>4, TakenFields
<1> HIDE DEF once, twice, direct
<1>8. twice = direct BY <1>2, <1>3, <1>5, <1>7 DEF Requests
<1> QED BY <1>8 DEF once, twice, direct

\* The question put is the foremost of those that are lacking.
LEMMA QuestionPut ==
    ASSUME NEW request, NEW t
    PROVE  \/ Question(request, t) = "none" /\ (Enough(t) \/ Lacks(request) = {})
           \/ /\ ~Enough(t)
              /\ \E i \in 1 .. 8 :
                    /\ Question(request, t) = Order[i] /\ Order[i] \in Lacks(request)
                    /\ \A j \in 1 .. i - 1 : Order[j] \notin Lacks(request)
<1> DEFINE L == Lacks(request)
           Foremost(i) == Order[i] \in L /\ \A j \in 1 .. i - 1 : Order[j] \notin L
<1>1. CASE Enough(t) \/ L = {} BY <1>1 DEF Question
<1>2. CASE ~(Enough(t) \/ L = {})
  <2>1. \E i \in 1 .. 8 : Order[i] \in L
    <3>1. \E key \in Topics : key \in L BY <1>2 DEF Lacks, Topics
    <3> QED BY <3>1, TopicsAre DEF Topics, Range
  <2>2. \E i \in 1 .. 8 : Foremost(i)
    <3> HIDE DEF L
    <3> SUFFICES ASSUME \A i \in 1 .. 8 : ~Foremost(i) PROVE FALSE OBVIOUS
    <3>1. Order[1] \notin L OBVIOUS
    <3>2. Order[2] \notin L BY <3>1
    <3>3. Order[3] \notin L BY <3>1, <3>2
    <3>4. Order[4] \notin L BY <3>1, <3>2, <3>3
    <3>5. Order[5] \notin L BY <3>1, <3>2, <3>3, <3>4
    <3>6. Order[6] \notin L BY <3>1, <3>2, <3>3, <3>4, <3>5
    <3>7. Order[7] \notin L BY <3>1, <3>2, <3>3, <3>4, <3>5, <3>6
    <3>8. Order[8] \notin L BY <3>1, <3>2, <3>3, <3>4, <3>5, <3>6, <3>7
    <3>9. \A i \in 1 .. 8 : i \in {1, 2, 3, 4, 5, 6, 7, 8} OBVIOUS
    <3> QED BY <2>1, <3>1, <3>2, <3>3, <3>4, <3>5, <3>6, <3>7, <3>8, <3>9
  <2>3. Question(request, t) = Order[CHOOSE i \in DOMAIN Order : Foremost(i)]
    BY <1>2 DEF Question
  <2>4. /\ (CHOOSE i \in DOMAIN Order : Foremost(i)) \in 1 .. 8
        /\ Foremost(CHOOSE i \in DOMAIN Order : Foremost(i))
    BY <2>2, TopicsAre
  <2> QED BY <1>2, <2>3, <2>4
<1> QED BY <1>1, <1>2

\* What is lacking has not been answered, and what has been answered is not lacking.
LEMMA LacksUnanswered ==
    ASSUME NEW given \in Given, NEW t \in Seq(Answers), NEW key \in Lacks(Taken(given, t))
    PROVE  key \notin Keys(t) /\ key \in Topics
<1> DEFINE taken == Taken(given, t)
<1>1. taken.prefs = given.prefs \cup {Feeds[k] : k \in Keys(t) \cap DOMAIN Feeds}
      /\ taken.profile = given.profile \cup (Keys(t) \ {"interests"})
  BY TakenFields, GivenAreRequests
<1> HIDE DEF taken
<1>2. key \in Topics /\ key \in Lacks(taken) BY DEF Lacks, Topics, taken
<1>3. CASE key = "interests"
  <2>1. "interests" \notin taken.prefs BY <1>2, <1>3 DEF Lacks
  <2>2. Feeds["interests"] = "interests" BY DEF Feeds
  <2> QED BY <1>1, <1>2, <1>3, <2>1, <2>2, FeedsAre
<1>4. CASE key # "interests"
  <2>1. key \notin taken.profile BY <1>2, <1>4, TopicsAre DEF Lacks
  <2> QED BY <1>1, <1>2, <1>4, <2>1
<1> QED BY <1>3, <1>4

LEMMA TurnFields ==
    ASSUME NEW given \in Given, NEW t \in Seq(Answers)
    PROVE  /\ Turn(given, t) \in Turns
           /\ Turn(given, t).request = Taken(given, t) /\ Turn(given, t).transcript = t
           /\ Turn(given, t).question = Question(Taken(given, t), t)
<1>1. Taken(given, t) \in Requests BY TakenFields, GivenAreRequests
<1>2. Question(Taken(given, t), t) \in Topics \cup {"none"}
  <2>1. \A i \in 1 .. 8 : Order[i] \in Topics BY TopicsAre DEF Topics, Range
  <2> QED BY <2>1, QuestionPut
<1>3. Turn(given, t) = [request |-> Taken(given, t), transcript |-> t,
                        question |-> Question(Taken(given, t), t)]
  BY DEF Turn, NextTurn
<1> QED BY <1>1, <1>2, <1>3 DEF Turns, Topics

LEMMA FirstsAre ==
    ASSUME NEW t \in Seq(Answers), NEW n \in 0 .. Len(t)
    PROVE  /\ Firsts(t, n) \in Seq(Answers) /\ Len(Firsts(t, n)) = n
           /\ DOMAIN Firsts(t, n) = 1 .. n
           /\ \A i \in 1 .. n : Firsts(t, n)[i] = t[i]
BY DEF Firsts

LEMMA SameFirsts ==
    ASSUME NEW s \in Seq(Answers), NEW t \in Seq(Answers), Begins(s, t), NEW n \in 0 .. Len(s)
    PROVE  Firsts(s, n) = Firsts(t, n)
<1>1. n \in 0 .. Len(t) BY DEF Begins
<1>2. /\ Firsts(s, n) \in Seq(Answers) /\ Len(Firsts(s, n)) = n
      /\ \A i \in 1 .. n : Firsts(s, n)[i] = s[i]
  BY FirstsAre
<1>3. /\ Firsts(t, n) \in Seq(Answers) /\ Len(Firsts(t, n)) = n
      /\ \A i \in 1 .. n : Firsts(t, n)[i] = t[i]
  BY <1>1, FirstsAre
<1>4. \A i \in 1 .. n : s[i] = t[i] BY DEF Begins
<1> QED BY <1>2, <1>3, <1>4

LEMMA AllFirsts ==
    ASSUME NEW t \in Seq(Answers)
    PROVE  Firsts(t, Len(t)) = t
<1>1. /\ Firsts(t, Len(t)) \in Seq(Answers) /\ Len(Firsts(t, Len(t))) = Len(t)
      /\ \A i \in 1 .. Len(t) : Firsts(t, Len(t))[i] = t[i]
  BY FirstsAre
<1> QED BY <1>1

\* What was asked of a transcript was asked of its beginnings.
LEMMA AskedBefore ==
    ASSUME NEW given \in Given, NEW s \in Seq(Answers), NEW t \in Seq(Answers), Begins(s, t),
           Asked(given, t)
    PROVE  Asked(given, s)
<1>1. ASSUME NEW n \in DOMAIN s, NoRepeat(Firsts(s, n))
      PROVE  s[n].key = Turn(given, Firsts(s, n - 1)).question
  <2>1. n \in 0 .. Len(s) /\ n - 1 \in 0 .. Len(s) /\ n \in DOMAIN t /\ t[n] = s[n]
    BY <1>1 DEF Begins
  <2>2. Firsts(s, n) = Firsts(t, n) /\ Firsts(s, n - 1) = Firsts(t, n - 1)
    BY <2>1, SameFirsts
  <2> QED BY <1>1, <2>1, <2>2 DEF Asked
<1> QED BY <1>1 DEF Asked

\* One more answer, to a question put when s was told, keeps Asked.
LEMMA AskedNext ==
    ASSUME NEW given \in Given, NEW s \in Seq(Answers), NEW t \in Seq(Answers), Begins(s, t),
           Asked(given, t), NEW answer \in Answers, answer.key = Turn(given, s).question
    PROVE  /\ Asked(given, Append(t, answer))
           /\ NoRepeat(Append(t, answer)) => s = t
<1> DEFINE longer == Append(t, answer)
           N == Len(t) + 1
<1>1. /\ longer \in Seq(Answers) /\ Len(longer) = N /\ Len(t) \in Nat /\ DOMAIN longer = 1 .. N
      /\ longer[N] = answer /\ \A i \in 1 .. Len(t) : longer[i] = t[i]
      /\ DOMAIN t = 1 .. Len(t)
  OBVIOUS
<1> HIDE DEF longer
<1>2. Begins(t, longer) BY <1>1 DEF Begins
<1>3. \A n \in 0 .. Len(t) : Firsts(longer, n) = Firsts(t, n) BY <1>1, <1>2, SameFirsts
<1>4. ASSUME NoRepeat(longer) PROVE s = t
  <2>1. CASE Len(s) = Len(t) BY <2>1 DEF Begins
  <2>2. CASE Len(s) # Len(t)
    <3> DEFINE m == Len(s) + 1
    <3>1. m \in 1 .. Len(t) /\ m # N /\ m \in DOMAIN longer /\ m \in DOMAIN t
      BY <1>1, <2>2 DEF Begins
    <3>2. NoRepeat(Firsts(t, m))
      <4>1. /\ DOMAIN Firsts(t, m) = 1 .. m /\ \A i \in 1 .. m : Firsts(t, m)[i] = t[i]
        BY <3>1, FirstsAre
      <4>2. \A i \in 1 .. m : i \in DOMAIN longer /\ longer[i] = t[i] BY <1>1, <3>1
      <4> QED BY <1>4, <4>1, <4>2 DEF NoRepeat
    <3>3. Firsts(t, m - 1) = s
      <4>1. m - 1 = Len(s) /\ Len(s) \in 0 .. Len(s) BY <3>1
      <4>2. Firsts(s, Len(s)) = Firsts(t, Len(s)) BY <4>1, SameFirsts
      <4> QED BY <4>1, <4>2, AllFirsts
    <3>4. t[m].key = Turn(given, s).question BY <3>1, <3>2, <3>3 DEF Asked
    <3>5. longer[m].key = longer[N].key /\ N \in DOMAIN longer BY <1>1, <3>1, <3>4
    <3> QED BY <1>4, <3>1, <3>5 DEF NoRepeat
  <2> QED BY <2>1, <2>2
<1>5. ASSUME NEW n \in DOMAIN longer, NoRepeat(Firsts(longer, n))
      PROVE  longer[n].key = Turn(given, Firsts(longer, n - 1)).question
  <2>1. CASE n = N
    <3>1. Firsts(longer, n) = longer BY <1>1, <2>1, AllFirsts
    <3>2. s = t BY <1>4, <1>5, <3>1
    <3>3. Firsts(longer, n - 1) = t BY <1>1, <1>3, <2>1, AllFirsts
    <3> QED BY <1>1, <2>1, <3>2, <3>3
  <2>2. CASE n # N
    <3>1. n \in DOMAIN t /\ n \in 0 .. Len(t) /\ n - 1 \in 0 .. Len(t) /\ longer[n] = t[n]
      BY <1>1, <2>2
    <3>2. Firsts(longer, n) = Firsts(t, n) /\ Firsts(longer, n - 1) = Firsts(t, n - 1)
      BY <1>3, <3>1
    <3> QED BY <1>5, <3>1, <3>2 DEF Asked
  <2> QED BY <2>1, <2>2
<1>6. Asked(given, longer) BY <1>5 DEF Asked
<1> QED BY <1>4, <1>6 DEF longer

LEMMA BeginsBasics ==
    /\ \A t \in Seq(Answers) : Begins(t, t)
    /\ \A s, t \in Seq(Answers), answer \in Answers : Begins(s, t) => Begins(s, Append(t, answer))
BY DEF Begins

LEMMA Removed ==
    ASSUME NEW S, NEW s \in Seq(S), NEW i \in DOMAIN s
    PROVE  /\ RemoveAt(s, i) \in Seq(S)
           /\ \A j \in DOMAIN RemoveAt(s, i) : \E k \in DOMAIN s : RemoveAt(s, i)[j] = s[k]
<1> DEFINE a == SubSeq(s, 1, i - 1)
           b == SubSeq(s, i + 1, Len(s))
<1>1. i \in 1 .. Len(s) /\ Len(s) \in Nat OBVIOUS
<1>2. /\ a \in Seq(S) /\ Len(a) = i - 1 /\ \A j \in 1 .. i - 1 : a[j] = s[j] BY <1>1
<1>3. /\ b \in Seq(S) /\ Len(b) = Len(s) - i /\ \A j \in 1 .. Len(s) - i : b[j] = s[i + j] BY <1>1
<1> HIDE DEF a, b
<1>4. /\ a \o b \in Seq(S) /\ Len(a \o b) = Len(s) - 1 /\ DOMAIN (a \o b) = 1 .. Len(s) - 1
      /\ \A j \in 1 .. Len(s) - 1 : (a \o b)[j] = IF j <= i - 1 THEN a[j] ELSE b[j - (i - 1)]
  <2>1. a \in Seq(S) /\ b \in Seq(S) BY <1>2, <1>3
  <2>2. a \o b \in Seq(S) BY <2>1
  <2>3. Len(a \o b) = Len(a) + Len(b) BY <2>1
  <2>4. Len(a \o b) = Len(s) - 1 BY <1>1, <1>2, <1>3, <2>3
  <2>5. DOMAIN (a \o b) = 1 .. Len(a \o b) BY <2>2
  <2>6. \A j \in 1 .. Len(a) + Len(b) : (a \o b)[j] = IF j <= Len(a) THEN a[j] ELSE b[j - Len(a)]
    BY <2>1
  <2> QED BY <1>2, <2>2, <2>3, <2>4, <2>5, <2>6
<1>5. ASSUME NEW j \in 1 .. Len(s) - 1 PROVE \E k \in DOMAIN s : (a \o b)[j] = s[k]
  <2>1. CASE j <= i - 1
    <3>1. (a \o b)[j] = s[j] /\ j \in DOMAIN s BY <1>1, <1>2, <1>4, <2>1
    <3> QED BY <3>1
  <2>2. CASE ~(j <= i - 1)
    <3>1. (a \o b)[j] = b[j - (i - 1)] /\ j - (i - 1) \in 1 .. Len(s) - i
          /\ i + (j - (i - 1)) = j + 1 /\ j + 1 \in DOMAIN s
      BY <1>1, <1>4, <2>2
    <3>2. (a \o b)[j] = s[j + 1] BY <1>3, <3>1
    <3> QED BY <3>1, <3>2
  <2> QED BY <2>1, <2>2
<1>6. RemoveAt(s, i) = a \o b BY DEF RemoveAt, a, b
<1> QED BY <1>4, <1>5, <1>6
-----------------------------------------------------------------------------
LEMMA InvInit == Init => Inv
<1> SUFFICES ASSUME Init PROVE Inv OBVIOUS
<1>1. stored \in Given /\ stored \in Requests
  <2>1. PICK prefs \in SUBSET Preferences :
           stored = [prefs |-> prefs, profile |-> {}, special |-> FALSE]
    BY DEF Init
  <2> QED BY <2>1 DEF Given, Requests
<1>2. TypeOK
  <2>1. calls \in Seq(Sent) /\ answers \in Seq(Answers) BY DEF Init
  <2> QED BY <1>1, <2>1 DEF Init, TypeOK
<1>3. Consistent(stored) BY DEF Init, Consistent
<1>4. Asked(stored, answers) BY DEF Init, Asked
<1>5. UpToDate(stored) BY DEF Init, UpToDate, NoRepeat
<1> QED BY <1>1, <1>2, <1>3, <1>4, <1>5 DEF Inv

LEMMA CallTyped ==
    ASSUME TypeOK, NEW i \in DOMAIN calls
    PROVE  calls[i].request \in Requests /\ calls[i].transcript \in Seq(Answers)
<1>1. calls \in Seq(Sent) BY DEF TypeOK
<1>2. calls[i] \in Sent BY <1>1
<1> QED BY <1>2 DEF Sent

\* What sending does, whatever the transcript.
LEMMA SendStep ==
    ASSUME TypeOK, NEW given \in Given, Consistent(given), NEW t \in Seq(Answers),
           Begins(answers, t), Send(t)
    PROVE  /\ calls' \in Seq(Sent)
           /\ \A i \in DOMAIN calls' :
                 \/ /\ i \in DOMAIN calls /\ calls'[i] = calls[i]
                 \/ calls'[i].transcript = t /\ NextTurn(calls'[i]) = Turn(given, t)
<1> DEFINE call == [request |-> stored, transcript |-> t]
<1>1. stored \in Requests /\ calls \in Seq(Sent)
  BY DEF TypeOK
<1>2. call \in Sent BY <1>1 DEF Sent
<1>3. Taken(stored, t) = Taken(given, t)
  <2>1. CASE saved = None BY <2>1 DEF Consistent
  <2>2. CASE saved # None
    <3> DEFINE s == saved.transcript
    <3>1. s \in Seq(Answers) BY <2>2 DEF TypeOK, Turns
    <3>2. saved = Turn(given, s) /\ Begins(s, answers) /\ stored = saved.request
      BY <2>2 DEF Consistent
    <3>3. stored = Taken(given, s) BY <3>1, <3>2, TurnFields
    <3>4. Begins(s, t) BY <3>1, <3>2 DEF Begins, TypeOK
    <3> QED BY <3>1, <3>3, <3>4, TakenTwice
  <2> QED BY <2>1, <2>2
<1>4. NextTurn(call) = Turn(given, t) BY <1>3 DEF NextTurn, Turn
<1>5. calls' = Append(calls, call) BY DEF Send
<1> HIDE DEF call
<1>6. /\ calls' \in Seq(Sent)
      /\ Len(calls) \in Nat /\ DOMAIN calls = 1 .. Len(calls)
      /\ DOMAIN calls' = 1 .. Len(calls) + 1
      /\ calls'[Len(calls) + 1] = call /\ \A i \in DOMAIN calls : calls'[i] = calls[i]
  BY <1>1, <1>2, <1>5
<1>7. call.transcript = t BY DEF call
<1> QED BY <1>4, <1>6, <1>7

LEMMA RemoveStep ==
    ASSUME TypeOK, NEW i \in DOMAIN calls, calls' = RemoveAt(calls, i)
    PROVE  /\ calls' \in Seq(Sent)
           /\ \A j \in DOMAIN calls' : \E k \in DOMAIN calls : calls'[j] = calls[k]
BY Removed DEF TypeOK

LEMMA InvStep == Inv /\ [Next]_vars => Inv'
<1> SUFFICES ASSUME Inv, [Next]_vars PROVE Inv' OBVIOUS
<1>1. TypeOK BY DEF Inv
<1>2. PICK given \in Given : Consistent(given) /\ Asked(given, answers) /\ UpToDate(given)
  BY DEF Inv
<1> SUFFICES TypeOK' /\ Consistent(given)' /\ Asked(given, answers)' /\ UpToDate(given)'
  BY DEF Inv
<1>3. answers \in Seq(Answers) BY <1>1 DEF TypeOK
<1>4. CASE Bootstrap
  <2>1. /\ calls' \in Seq(Sent)
        /\ \A i \in DOMAIN calls' :
              \/ i \in DOMAIN calls /\ calls'[i] = calls[i]
              \/ calls'[i].transcript = answers /\ NextTurn(calls'[i]) = Turn(given, answers)
    BY <1>1, <1>2, <1>3, <1>4, SendStep, BeginsBasics DEF Bootstrap
  <2>2. UNCHANGED <<answers, copilot, stored, saved, started, faults, late>> /\ loading' = TRUE
    BY <1>4 DEF Bootstrap, Send
  <2>3. TypeOK' BY <1>1, <2>1, <2>2 DEF TypeOK
  <2>4. Consistent(given)' BY <1>2, <1>3, <2>1, <2>2, BeginsBasics DEF Consistent
  <2>5. Asked(given, answers)' BY <1>2, <2>2 DEF Asked
  <2>6. UpToDate(given)' BY <1>2, <1>4, <2>2 DEF UpToDate, Bootstrap
  <2> QED BY <2>3, <2>4, <2>5, <2>6
<1>5. ASSUME NEW special \in BOOLEAN, SubmitAnswer(special)
      PROVE  TypeOK' /\ Consistent(given)' /\ Asked(given, answers)' /\ UpToDate(given)'
  <2> DEFINE answer == [key |-> copilot.question, special |-> special]
             s == copilot.transcript
  <2>1. /\ copilot # None /\ started = None /\ copilot.question # "none" /\ ~loading
        /\ answers' = Append(answers, answer) /\ Send(answers') /\ loading' = TRUE
        /\ UNCHANGED <<copilot, stored, saved, started, faults, late>>
    BY <1>5 DEF SubmitAnswer, ReadyToPlan, Send
  <2>2. /\ s \in Seq(Answers) /\ copilot.question \in Topics
        /\ copilot = Turn(given, s) /\ Begins(s, answers)
    BY <1>1, <1>2, <2>1 DEF TypeOK, Turns, Topics, Consistent
  <2>3. answer \in Answers /\ answer.key = Turn(given, s).question BY <2>2 DEF Answers, Topics
  <2> HIDE DEF answer
  <2>4. answers' \in Seq(Answers) BY <1>3, <2>1, <2>3
  <2>5. Begins(answers, answers') /\ \A t \in Seq(Answers) : Begins(t, answers) => Begins(t, answers')
    BY <1>3, <2>1, <2>3, BeginsBasics
  <2>6. /\ calls' \in Seq(Sent)
        /\ \A i \in DOMAIN calls' :
              \/ i \in DOMAIN calls /\ calls'[i] = calls[i]
              \/ calls'[i].transcript = answers' /\ NextTurn(calls'[i]) = Turn(given, answers')
    BY <1>1, <1>2, <2>1, <2>4, <2>5, SendStep
  <2>7. TypeOK' BY <1>1, <2>1, <2>4, <2>6 DEF TypeOK
  <2>8. Consistent(given)'
    <3>1. saved # None => saved.transcript \in Seq(Answers) BY <1>1 DEF TypeOK, Turns
    <3>2. \A i \in DOMAIN calls : calls[i].transcript \in Seq(Answers) BY <1>1, CallTyped
    <3>3. Begins(answers', answers') BY <2>4, BeginsBasics
    <3>4. \A i \in DOMAIN calls' : /\ Begins(calls'[i].transcript, answers')
                                   /\ NextTurn(calls'[i]) = Turn(given, calls'[i].transcript)
      BY <1>2, <2>5, <2>6, <3>2, <3>3 DEF Consistent
    <3>5. saved # None => saved = Turn(given, saved.transcript) /\ Begins(saved.transcript, answers')
      BY <1>2, <2>5, <3>1 DEF Consistent
    <3>6. stored = IF saved = None THEN given ELSE saved.request BY <1>2 DEF Consistent
    <3> QED BY <2>1, <2>2, <2>5, <3>4, <3>5, <3>6 DEF Consistent
  <2>9. Asked(given, answers)'
    <3>1. Asked(given, Append(answers, answer)) BY <1>2, <1>3, <2>2, <2>3, AskedNext
    <3> QED BY <2>1, <3>1 DEF Asked
  <2>10. UpToDate(given)'
    <3> SUFFICES ASSUME faults = 0, ~late PROVE NoRepeat(answers')
      BY <2>1 DEF UpToDate, ReadyToPlan
    <3>1. NoRepeat(answers) /\ s = answers BY <1>2, <2>1 DEF UpToDate
    <3>2. answer.key \in Lacks(Taken(given, answers))
      <4>1. answer.key = Question(Taken(given, answers), answers)
        BY <1>3, <2>3, <3>1, TurnFields
      <4>2. answer.key # "none" BY <2>1 DEF answer
      <4> QED BY <4>1, <4>2, QuestionPut
    <3>3. answer.key \notin Keys(answers) BY <1>3, <3>2, LacksUnanswered
    <3>4. \A n \in DOMAIN answers : answers[n].key # answer.key BY <3>3 DEF Keys
    <3>5. /\ DOMAIN answers' = 1 .. Len(answers) + 1 /\ DOMAIN answers = 1 .. Len(answers)
          /\ Len(answers) \in Nat /\ answers'[Len(answers) + 1] = answer
          /\ \A n \in DOMAIN answers : answers'[n] = answers[n]
      BY <1>3, <2>1, <2>3
    <3> QED BY <3>1, <3>4, <3>5 DEF NoRepeat
  <2> QED BY <2>7, <2>8, <2>9, <2>10
<1>6. ASSUME NEW i \in DOMAIN calls, Reply(i)
      PROVE  TypeOK' /\ Consistent(given)' /\ Asked(given, answers)' /\ UpToDate(given)'
  <2> DEFINE t == calls[i].transcript
  <2>1. t \in Seq(Answers) /\ Begins(t, answers) /\ NextTurn(calls[i]) = Turn(given, t)
    BY <1>1, <1>2, <1>6, CallTyped DEF Consistent
  <2>2. /\ Turn(given, t) \in Turns /\ Turn(given, t).transcript = t
        /\ Turn(given, t).request = Taken(given, t) /\ Turn(given, t) # None
        /\ Turn(given, t).request \in Requests
    BY <2>1, TurnFields, NoneApart DEF Turns
  <2>3. /\ copilot' = Turn(given, t) /\ saved' = Turn(given, t) /\ stored' = Turn(given, t).request
        /\ late' = (late \/ t # answers) /\ loading' = FALSE /\ started = None
        /\ UNCHANGED <<answers, started, faults>> /\ calls' = RemoveAt(calls, i)
    BY <1>6, <2>1, <2>2 DEF Reply
  <2> HIDE DEF t
  <2>4. /\ calls' \in Seq(Sent)
        /\ \A j \in DOMAIN calls' : \E k \in DOMAIN calls : calls'[j] = calls[k]
    BY <1>1, <1>6, <2>3, RemoveStep
  <2>5. late' \in BOOLEAN BY <2>3
  <2>6. TypeOK' BY <1>1, <2>2, <2>3, <2>4, <2>5 DEF TypeOK
  <2>7. Consistent(given)' BY <1>2, <2>1, <2>2, <2>3, <2>4 DEF Consistent
  <2>8. Asked(given, answers)' BY <1>2, <2>3 DEF Asked
  <2>9. UpToDate(given)'
    <3> SUFFICES ASSUME faults = 0, ~late, t = answers
                 PROVE  NoRepeat(answers) /\ copilot'.transcript = answers
      BY <2>3 DEF UpToDate
    <3> QED BY <1>2, <2>2, <2>3 DEF UpToDate
  <2> QED BY <2>6, <2>7, <2>8, <2>9
<1>7. ASSUME NEW i \in DOMAIN calls, CallFails(i)
      PROVE  TypeOK' /\ Consistent(given)' /\ Asked(given, answers)' /\ UpToDate(given)'
  <2>1. /\ UNCHANGED <<answers, copilot, stored, saved, started, late>> /\ loading' = FALSE
        /\ faults' = faults + 1 /\ calls' = RemoveAt(calls, i)
    BY <1>7 DEF CallFails
  <2>2. /\ calls' \in Seq(Sent)
        /\ \A j \in DOMAIN calls' : \E k \in DOMAIN calls : calls'[j] = calls[k]
    BY <1>1, <1>7, <2>1, RemoveStep
  <2>3. faults' \in Nat /\ faults' # 0 BY <1>1, <2>1 DEF TypeOK
  <2>4. TypeOK' BY <1>1, <2>1, <2>2, <2>3 DEF TypeOK
  <2>5. Consistent(given)' BY <1>2, <2>1, <2>2 DEF Consistent
  <2>6. Asked(given, answers)' BY <1>2, <2>1 DEF Asked
  <2>7. UpToDate(given)' BY <2>3 DEF UpToDate
  <2> QED BY <2>4, <2>5, <2>6, <2>7
<1>8. CASE Reload
  <2>1. /\ copilot' = saved /\ answers' = (IF saved = None THEN <<>> ELSE saved.transcript)
        /\ calls' = <<>> /\ loading' = FALSE /\ faults' = faults + 1
        /\ UNCHANGED <<stored, saved, started, late>>
    BY <1>8 DEF Reload
  <2>2. saved # None => /\ saved.transcript \in Seq(Answers) /\ saved = Turn(given, saved.transcript)
                        /\ Begins(saved.transcript, answers)
    BY <1>1, <1>2 DEF TypeOK, Turns, Consistent
  <2>3. answers' \in Seq(Answers) /\ Begins(answers', answers)
    <3>1. Begins(<<>>, answers) BY <1>3 DEF Begins
    <3> QED BY <2>1, <2>2, <3>1
  <2>4. faults' \in Nat /\ faults' # 0 BY <1>1, <2>1 DEF TypeOK
  <2>5. TypeOK'
    <3>1. calls' \in Seq(Sent) BY <2>1
    <3> QED BY <1>1, <2>1, <2>3, <2>4, <3>1 DEF TypeOK
  <2>6. Consistent(given)'
    <3>1. saved # None => Begins(saved.transcript, saved.transcript) BY <2>2, BeginsBasics
    <3>2. stored = IF saved = None THEN given ELSE saved.request BY <1>2 DEF Consistent
    <3>3. saved # None => answers' = saved.transcript BY <2>1
    <3> QED BY <2>1, <2>2, <3>1, <3>2, <3>3 DEF Consistent
  <2>7. Asked(given, answers)'
    <3>1. Asked(given, answers') BY <1>2, <1>3, <2>3, AskedBefore
    <3> QED BY <3>1 DEF Asked
  <2>8. UpToDate(given)' BY <2>4 DEF UpToDate
  <2> QED BY <2>5, <2>6, <2>7, <2>8
<1>9. CASE StartPlanning
  <2>1. /\ copilot # None /\ ReadyToPlan(copilot) /\ started' = copilot.request
        /\ UNCHANGED <<answers, copilot, loading, stored, saved, calls, faults, late>>
    BY <1>9 DEF StartPlanning
  <2>2. TypeOK' BY <1>1, <2>1 DEF TypeOK
  <2>3. Consistent(given)' BY <1>2, <2>1 DEF Consistent
  <2>4. Asked(given, answers)' BY <1>2, <2>1 DEF Asked
  <2>5. UpToDate(given)'
    <3>1. ASSUME faults = 0, ~late PROVE copilot.request = Taken(given, answers)
      <4>1. copilot.transcript = answers /\ copilot = Turn(given, copilot.transcript)
        BY <1>2, <2>1, <3>1 DEF UpToDate, Consistent
      <4> QED BY <1>3, <4>1, TurnFields
    <3> QED BY <1>2, <2>1, <3>1 DEF UpToDate
  <2> QED BY <2>2, <2>3, <2>4, <2>5
<1>10. CASE UNCHANGED vars
  BY <1>1, <1>2, <1>10 DEF vars, TypeOK, Consistent, Asked, UpToDate
<1> QED BY <1>4, <1>5, <1>6, <1>7, <1>8, <1>9, <1>10 DEF Next

THEOREM InvHolds == Spec => []Inv
BY InvInit, InvStep, PTL DEF Spec
-----------------------------------------------------------------------------
\* The question that settles a preference is among the first five, and is lacking as long as
\* the preference is.
Settler(p) == CASE p = "interests" -> 1 [] p = "accommodation_preference" -> 4 [] OTHER -> 5

LEMMA UnsettledIsLacking ==
    ASSUME NEW given \in Given, NEW t \in Seq(Answers), NEW p \in Preferences,
           p \notin Taken(given, t).prefs
    PROVE  Settler(p) \in 1 .. 5 /\ Order[Settler(p)] \in Lacks(Taken(given, t))
<1> DEFINE r == Taken(given, t)
           k == Order[Settler(p)]
<1>1. r.prefs = given.prefs \cup {Feeds[key] : key \in Keys(t) \cap DOMAIN Feeds}
      /\ r.profile = given.profile \cup (Keys(t) \ {"interests"}) /\ given.profile = {}
  BY TakenFields, GivenAreRequests DEF Given
<1> HIDE DEF r
<1>2. /\ Settler(p) \in 1 .. 5
      /\ \/ p = "interests" /\ k = "interests"
         \/ p = "accommodation_preference" /\ k = "stay_vibe"
         \/ p = "transport_preference" /\ k = "night_comfort"
  BY DEF Settler, Preferences, Order
<1>3. k \in DOMAIN Feeds /\ Feeds[k] = p BY <1>2 DEF Feeds
<1>4. p \notin r.prefs BY DEF r
<1>5. k \notin Keys(t) BY <1>1, <1>3, <1>4
<1>6. k \notin r.profile BY <1>1, <1>5
<1>7. k \in Topics BY <1>3, FeedsAre
<1>8. k \in Lacks(r) BY <1>2, <1>4, <1>6, <1>7 DEF Lacks, Topics
<1> QED BY <1>2, <1>8 DEF r

\* Five different answers, each to the foremost question lacking, settle all preferences.
LEMMA FiveSettle ==
    ASSUME NEW given \in Given, NEW t \in Seq(Answers), Asked(given, t), NoRepeat(t), Len(t) >= 5,
           NEW p \in Preferences
    PROVE  p \in Taken(given, t).prefs
<1> SUFFICES ASSUME p \notin Taken(given, t).prefs PROVE FALSE OBVIOUS
<1> DEFINE i == Settler(p)
<1>1. i \in 1 .. 5 /\ Order[i] \in Lacks(Taken(given, t)) BY UnsettledIsLacking
<1>2. Order[i] \notin Keys(t) BY <1>1, LacksUnanswered
<1>3. ASSUME NEW n \in 1 .. 5 PROVE \E q \in 1 .. 4 : t[n].key = Order[q]
  <2> DEFINE s == Firsts(t, n - 1)
  <2>1. n \in DOMAIN t /\ n \in 0 .. Len(t) /\ n - 1 \in 0 .. Len(t) OBVIOUS
  <2>2. s \in Seq(Answers) /\ Len(s) = n - 1 /\ \A m \in 1 .. n - 1 : s[m] = t[m]
    BY <2>1, FirstsAre
  <2>3. NoRepeat(Firsts(t, n))
    <3>1. DOMAIN Firsts(t, n) = 1 .. n /\ \A m \in 1 .. n : Firsts(t, n)[m] = t[m]
      BY <2>1, FirstsAre
    <3>2. 1 .. n \subseteq DOMAIN t BY <2>1
    <3> QED BY <3>1, <3>2 DEF NoRepeat
  <2>4. t[n].key = Turn(given, s).question BY <2>1, <2>3 DEF Asked
  <2> HIDE DEF s
  <2>5. t[n].key = Question(Taken(given, s), s) BY <2>2, <2>4, TurnFields
  <2>6. t[n].key \in Topics /\ t[n].key \in Keys(t) BY <2>1, KeysAre
  <2>7. p \notin Taken(given, s).prefs
    <3>1. Keys(s) \subseteq Keys(t) BY <2>1, <2>2 DEF Keys
    <3>2. /\ Taken(given, s).prefs
                = given.prefs \cup {Feeds[key] : key \in Keys(s) \cap DOMAIN Feeds}
          /\ Taken(given, t).prefs
                = given.prefs \cup {Feeds[key] : key \in Keys(t) \cap DOMAIN Feeds}
      BY <2>2, TakenFields, GivenAreRequests
    <3> QED BY <3>1, <3>2
  <2>8. Order[i] \in Lacks(Taken(given, s)) BY <2>2, <2>7, UnsettledIsLacking
  <2>9. PICK q \in 1 .. 8 : /\ Question(Taken(given, s), s) = Order[q]
                            /\ \A j \in 1 .. q - 1 : Order[j] \notin Lacks(Taken(given, s))
    BY <2>5, <2>6, TopicsAre, QuestionPut
  <2>10. q # i BY <1>2, <2>5, <2>6, <2>9
  <2>11. ~(i < q) BY <1>1, <2>8, <2>9
  <2>12. q \in 1 .. 4 BY <1>1, <2>10, <2>11
  <2> QED BY <2>5, <2>9, <2>12
<1>4. \A m, n \in 1 .. 5 : t[m].key = t[n].key => m = n
  <2>1. 1 .. 5 \subseteq DOMAIN t OBVIOUS
  <2> QED BY <2>1 DEF NoRepeat
<1>5. PICK a \in 1 .. 4 : t[1].key = Order[a] BY <1>3
<1>6. PICK b \in 1 .. 4 : t[2].key = Order[b] BY <1>3
<1>7. PICK c \in 1 .. 4 : t[3].key = Order[c] BY <1>3
<1>8. PICK d \in 1 .. 4 : t[4].key = Order[d] BY <1>3
<1>9. PICK e \in 1 .. 4 : t[5].key = Order[e] BY <1>3
<1>10. a # b /\ a # c /\ a # d /\ a # e /\ b # c /\ b # d /\ b # e /\ c # d /\ c # e /\ d # e
  BY <1>4, <1>5, <1>6, <1>7, <1>8, <1>9
<1> QED BY <1>10

\* ReadyMeansPlannable for every limit of five or more and any number of answers, calls,
\* failures and reloads: the policy of the run has no blocking question left when the copilot
\* says that it has asked enough.
THEOREM Plannable == Spec => []ReadyMeansPlannable
<1>1. Inv => ReadyMeansPlannable
  <2> SUFFICES ASSUME Inv, copilot # None, ReadyToPlan(copilot), NoRepeat(copilot.transcript),
                      NEW p \in Preferences
               PROVE  p \in copilot.request.prefs
    BY DEF ReadyMeansPlannable, Blocking
  <2> DEFINE t == copilot.transcript
  <2>1. PICK given \in Given : Consistent(given) /\ Asked(given, answers) BY DEF Inv
  <2>2. t \in Seq(Answers) /\ answers \in Seq(Answers) BY DEF Inv, TypeOK, Turns
  <2>3. copilot = Turn(given, t) /\ Begins(t, answers) BY <2>1 DEF Consistent
  <2> HIDE DEF t
  <2>4. copilot.request = Taken(given, t) /\ Question(Taken(given, t), t) = "none"
    BY <2>2, <2>3, TurnFields DEF ReadyToPlan
  <2>5. \A i \in 1 .. 8 : Order[i] # "none" BY DEF Order
  <2>6. Enough(t) \/ Lacks(Taken(given, t)) = {} BY <2>4, <2>5, QuestionPut
  <2>7. CASE Enough(t)
    <3>1. Len(t) >= 5 BY <2>2, <2>7, Bounds DEF Enough
    <3>2. Asked(given, t) BY <2>1, <2>2, <2>3, AskedBefore
    <3>3. NoRepeat(t) BY DEF t
    <3> QED BY <2>2, <2>4, <3>1, <3>2, <3>3, FiveSettle
  <2>8. CASE Lacks(Taken(given, t)) = {}
    BY <2>2, <2>4, <2>8, UnsettledIsLacking
  <2> QED BY <2>6, <2>7, <2>8
<1> QED BY <1>1, InvHolds, PTL

\* AnswersCount for all of them: without a failed call or a late reply no question is put
\* twice, and the planner's request holds every answer.
THEOREM Counted == Spec => []AnswersCount
<1>1. Inv => AnswersCount
  <2> SUFFICES ASSUME Inv, faults = 0, ~late
               PROVE  /\ NoRepeat(answers)
                      /\ started # None => \A i \in DOMAIN answers :
                            answers[i].key \in started.profile \cup started.prefs
    BY DEF AnswersCount
  <2>1. PICK given \in Given : UpToDate(given) BY DEF Inv
  <2>2. NoRepeat(answers) BY <2>1 DEF UpToDate
  <2>3. ASSUME started # None, NEW i \in DOMAIN answers
        PROVE  answers[i].key \in started.profile \cup started.prefs
    <3>1. answers \in Seq(Answers) BY DEF Inv, TypeOK
    <3>2. answers[i].key \in Keys(answers) BY <3>1, KeysAre
    <3>3. started = Taken(given, answers) BY <2>1, <2>3 DEF UpToDate
    <3>4. /\ started.prefs
                = given.prefs \cup {Feeds[key] : key \in Keys(answers) \cap DOMAIN Feeds}
          /\ started.profile = given.profile \cup (Keys(answers) \ {"interests"})
      BY <3>1, <3>3, TakenFields, GivenAreRequests
    <3>5. "interests" \in DOMAIN Feeds /\ Feeds["interests"] = "interests" BY DEF Feeds
    <3> QED BY <3>2, <3>4, <3>5
  <2> QED BY <2>2, <2>3
<1> QED BY <1>1, InvHolds, PTL
=============================================================================
