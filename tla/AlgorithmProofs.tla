-------------------------- MODULE AlgorithmProofs --------------------------
(***************************************************************************)
(* What the pure algorithms promise for every input: the router, for every *)
(* recording, configuration and answer; the selections and the fusion of   *)
(* the searches; the readers of a stored layout, and where the segments of *)
(* a split recording are found; the language policy and its SQL.           *)
(***************************************************************************)
EXTENDS Router, Selection, Layouts, Library, Languages,
        SequenceTheorems, FiniteSetTheorems, WellFoundedInduction, TLAPS

-----------------------------------------------------------------------------
(* Routing *)

\* The classifier is asked at most twice although the code allows for three calls:
\* the plain request and the repair exclude each other, the repair follows only a
\* response that succeeded, the plain request only a rejection of the format.
\* (classify_with_omlx, src/src/workflow/services/routing.py:388-566)
THEOREM ClassifierIsAskedTwice ==
  ASSUME NEW model, NEW first, NEW second
  PROVE  LET calls == Classify(model, first, second).calls
         IN /\ calls \in {<<>>, <<"structured">>, <<"structured", "repair">>, <<"structured", "plain">>}
            /\ calls = <<"structured", "repair">> => Successful(first)
            /\ calls = <<"structured", "plain">> => CapabilityRejection(first)
<1>1. CASE model = ""
  BY <1>1 DEF Classify, Unanswered
<1>2. CASE model # "" /\ Successful(first)
  BY <1>2 DEF Classify, Unanswered, Answered, SecondRequest
<1>3. CASE model # "" /\ ~Successful(first)
  BY <1>3 DEF Classify, Unanswered, Answered, SecondRequest
<1> QED BY <1>1, <1>2, <1>3

\* The verdict on the evidence is ambiguous, or it names the side whose score is at
\* least twice the other one.
LEMMA VerdictNamesASide ==
  ASSUME NEW s, HkScore(s) \in Int, CnScore(s) \in Int, ~ZhVerdict(s).ambiguous
  PROVE  \/ ZhVerdict(s).route = "cantonese" /\ HkScore(s) >= 2 * CnScore(s)
         \/ ZhVerdict(s).route = "mandarin" /\ CnScore(s) >= 2 * HkScore(s)
BY DEF ZhVerdict, Larger

\* Evidence is never read as Chinese without being one of its two languages.
LEMMA UnambiguousIsChinese ==
  ASSUME NEW s, ~ZhVerdict(s).ambiguous
  PROVE  ZhVerdict(s).route \in ChineseRoutes
BY DEF ZhVerdict, ChineseRoutes

\* Without a classifier there is a route only for the language of the verdict, and
\* all the conditions of the gate hold.
LEMMA GateRouteIsTheVerdict ==
  ASSUME NEW e, NEW gate, GateRoute(e, gate) # NoProfile
  PROVE  LET route == GateRoute(e, gate)
         IN /\ route \in ChineseRoutes /\ route = e.zh.route
            /\ gate.enabled /\ e.family = "chinese" /\ ~e.zh.ambiguous
            /\ e.windows >= 2 /\ Passes(route, e, gate)
<1> DEFINE passing == {route \in ChineseRoutes : Passes(route, e, gate)}
<1>1. /\ gate.enabled /\ e.family = "chinese" /\ ~e.zh.ambiguous /\ e.windows >= 2
      /\ \E route \in passing : passing = {route}
      /\ GateRoute(e, gate) = CHOOSE route \in passing : TRUE
  BY DEF GateRoute, NoProfile
<1>2. GateRoute(e, gate) \in passing
  BY <1>1
<1> QED BY <1>1, <1>2 DEF Passes

\* A route without a classifier rests on colloquial markers: where none was counted
\* for it, whatever the script, the gate stays shut.
\* (evaluate_heuristic_gate, src/src/workflow/services/routing.py:242-325)
THEOREM GateNeedsMarkers ==
  ASSUME NEW e, NEW gate, gate.dominance \in Nat \ {0},
         e.scores.hkCantonese \in Nat, e.scores.hkMandarin \in Nat,
         e.scores.cnCantonese \in Nat, e.scores.cnMandarin \in Nat,
         GateRoute(e, gate) # NoProfile
  PROVE  Target(GateRoute(e, gate), e.scores) > 0
<1> DEFINE route == GateRoute(e, gate)
           target == Target(route, e.scores)
           against == Larger(Opposing(route, e.scores), 1)
<1>1. 100 * target >= gate.dominance * against
  BY GateRouteIsTheVerdict DEF Passes
<1>2. target \in Nat /\ Opposing(route, e.scores) \in Nat
  BY DEF Target, Opposing, Larger
<1>3. against \in Nat /\ against >= 1
  BY <1>2 DEF Larger
<1>4. gate.dominance * against >= 1
  <2> DEFINE factor == gate.dominance
  <2>1. factor \in Nat /\ factor >= 1
    OBVIOUS
  <2> HIDE DEF factor, against
  <2> SUFFICES factor * against >= 1
    BY DEF factor
  <2> QED BY <2>1, <1>3, SMTT(20)
<1> DEFINE product == gate.dominance * against
<1>5. 100 * target >= product /\ product >= 1 /\ product \in Int
  BY <1>1, <1>3, <1>4
<1> HIDE DEF target, product
<1>6. target > 0
  BY <1>2, <1>5
<1> QED BY <1>6 DEF target

\* Script alone can decide the verdict, although it is called weak evidence that is
\* never decisive: two transcripts without a single marker, all traditional, are
\* unambiguously Cantonese.  (_zh_verdict, src/src/workflow/services/routing.py:185-201,
\* against its docstring and src/tests/test_routing.py:70-71)
THEOREM ScriptAloneDecides ==
  ASSUME NEW s, s.hkCantonese = 0, s.cnMandarin = 0, s.hkScript = 1000, s.cnScript = 1000
  PROVE  ZhVerdict(s) = [route |-> "cantonese", ambiguous |-> FALSE]
<1>1. HkScore(s) = 1000 /\ CnScore(s) = 0
  BY DEF HkScore, CnScore
<1> QED BY <1>1 DEF ZhVerdict, Larger

\* What the configuration check guarantees while routing is enabled.
\* (_parse_routing, src/src/brainlib/config.py:508-523)
Configured(config) == config.enabled => Candidates \subseteq config.profiles \ config.manualOnly

\* An answer of the classifier, as `Classify' gives it.
IsAnswer(answer) ==
  /\ answer.result \in {"valid", "invalid", "unavailable"}
  /\ answer.result = "valid" => answer.route \in Routes

\* Whatever the model replies, the classification is an answer of a known form
\* (classify_with_omlx, routing.py:388-566).
LEMMA ClassifyAnswers ==
  ASSUME NEW model, NEW first, NEW second, first.content.body \in Bodies, second.content.body \in Bodies
  PROVE  IsAnswer(Classify(model, first, second))
<1>1. ASSUME NEW reply \in {first, second}, ReplyError(reply) = "none"
      PROVE  reply.content.route \in Routes
  <2>1. reply.content.body \in Bodies /\ ContentError(reply.content) = "none"
    BY <1>1 DEF ReplyError
  <2> QED BY <2>1 DEF ContentError, Bodies
<1>2. ASSUME NEW reply \in {first, second}, NEW calls, ReplyError(reply) = "none"
      PROVE  IsAnswer(Answered(reply, calls))
  BY <1>1, <1>2 DEF IsAnswer, Answered
<1>3. ASSUME NEW result \in {"invalid", "unavailable"}, NEW calls
      PROVE  IsAnswer(Unanswered(result, calls))
  BY DEF IsAnswer, Unanswered
<1>4. ASSUME NEW calls
      PROVE  IsAnswer(SecondRequest(second, calls))
  BY <1>2, <1>3 DEF SecondRequest
<1> QED BY <1>2, <1>3, <1>4 DEF Classify

\* What an automatic route was decided by.
Supported(config, bundle, texts, answer, outcome) ==
  LET e == Evidence(texts, bundle)
  IN /\ config.enabled /\ bundle.failure = "none" /\ ~AllSilent(bundle)
     /\ \A c \in Candidates : texts[c] # NoText
     /\ outcome.route \in Candidates /\ outcome.profile = outcome.route
     /\ outcome.profile \in config.profiles \ config.manualOnly
     /\ e.family \in {"uncertain", FamilyOf(outcome.route)}
     /\ outcome.route \in ChineseRoutes => ~e.zh.ambiguous /\ e.zh.route = outcome.route
     /\ \/ /\ answer.result = "valid" /\ answer.route = outcome.route
           /\ answer.confidence >= config.threshold
        \/ /\ answer.result # "valid" /\ outcome.route = GateRoute(e, config.gate)
           /\ e.family = "chinese" /\ e.windows >= 2 /\ Passes(outcome.route, e, config.gate)

\* A recording is routed without its user only when nothing that was observed speaks
\* against the route: it is audible, every candidate model transcribed it, script and
\* family of the transcripts agree with the language, and the classifier was sure of
\* it, or, where there was no answer, the gate passed it in at least two windows.  The
\* profile is one that may be chosen automatically.
\* (route_recording, src/src/workflow/services/routing.py:687-897)
THEOREM AutomaticRouteIsSupported ==
  ASSUME NEW config, NEW bundle, NEW texts, NEW answer, Configured(config), IsAnswer(answer),
         RouteRecording(config, bundle, texts, answer).ready
  PROVE  Supported(config, bundle, texts, answer, RouteRecording(config, bundle, texts, answer))
<1> DEFINE outcome == RouteRecording(config, bundle, texts, answer)
           e == Evidence(texts, bundle)
<1>1. ASSUME NEW route, NEW confidence, NEW reason
      PROVE  Review(route, confidence, reason).ready = FALSE
  BY DEF Review
<1>2. /\ config.enabled /\ bundle.failure = "none" /\ ~AllSilent(bundle)
      /\ \A c \in Candidates : texts[c] # NoText
      /\ outcome = IF answer.result = "valid" THEN Classified(config, e, answer)
                   ELSE ClassifierFailed(config, e, answer.result)
  BY <1>1 DEF RouteRecording
<1>3. e.zh = ZhVerdict(e.scores)
  BY DEF Evidence
<1>4. CASE answer.result = "valid"
  <2>1. outcome = Classified(config, e, answer)
    BY <1>2, <1>4
  <2>2. /\ ~Contradicts(answer.route, e)
        /\ ~(answer.route \in ChineseRoutes /\ (e.zh.ambiguous \/ e.zh.route \notin {"uncertain", answer.route}))
        /\ answer.route # "uncertain" /\ answer.confidence >= config.threshold
        /\ outcome = Automatic(answer.route, answer.confidence, "auto_confident")
    BY <1>1, <2>1 DEF Classified
  <2>3. outcome.route = answer.route /\ outcome.profile = answer.route
    BY <2>2 DEF Automatic
  <2>4. answer.route \in Candidates
    BY <1>4, <2>2 DEF IsAnswer, Routes, Candidates
  <2>5. outcome.profile \in config.profiles \ config.manualOnly
    BY <1>2, <2>3, <2>4 DEF Configured
  <2>6. e.family \in {"uncertain", FamilyOf(answer.route)}
    BY <2>2 DEF Contradicts
  <2>7. answer.route \in ChineseRoutes => ~e.zh.ambiguous /\ e.zh.route = answer.route
    BY <1>3, <2>2, UnambiguousIsChinese DEF ChineseRoutes
  <2> HIDE DEF outcome, e
  <2>8. Supported(config, bundle, texts, answer, outcome)
    BY <1>2, <1>4, <2>2, <2>3, <2>4, <2>5, <2>6, <2>7 DEF Supported, e
  <2> QED BY <2>8 DEF outcome
<1>5. CASE answer.result # "valid"
  <2> DEFINE route == GateRoute(e, config.gate)
  <2>1. outcome = ClassifierFailed(config, e, answer.result)
    BY <1>2, <1>5
  <2>2. /\ route # NoProfile /\ route \in config.profiles \ config.manualOnly
        /\ outcome.route = route /\ outcome.profile = route
    <3>1. ClassifierFailed(config, e, answer.result).ready
      BY <2>1
    <3> HIDE DEF outcome, e
    <3>2. route # NoProfile /\ route \in config.profiles \ config.manualOnly
      BY <1>1, <3>1 DEF ClassifierFailed
    <3>3. \E reason : outcome = Automatic(route, NoConfidence, reason)
      BY <2>1, <3>2 DEF ClassifierFailed
    <3> QED BY <3>2, <3>3 DEF Automatic
  <2>3. /\ route \in ChineseRoutes /\ route = e.zh.route /\ e.family = "chinese" /\ ~e.zh.ambiguous
        /\ e.windows >= 2 /\ Passes(route, e, config.gate)
    BY <2>2, GateRouteIsTheVerdict
  <2>4. FamilyOf(route) = "chinese" /\ route \in Candidates
    BY <2>3 DEF FamilyOf, Candidates
  <2> HIDE DEF outcome, route, e
  <2>5. Supported(config, bundle, texts, answer, outcome)
    BY <1>2, <1>5, <2>2, <2>3, <2>4 DEF Supported, e, route
  <2> QED BY <2>5 DEF outcome
<1> QED BY <1>4, <1>5

\* What Pipeline assumes of a decision the router makes: a recording becomes ready
\* only with a configured profile and its model, and waits for its user otherwise.
\* (_apply_outcome, src/src/workflow/services/pipeline.py:108-148; Decide in Pipeline)
COROLLARY ReadyDecisionNamesItsModel ==
  ASSUME NEW config, NEW bundle, NEW texts, NEW answer, Configured(config), IsAnswer(answer)
  PROVE  LET outcome == RouteRecording(config, bundle, texts, answer)
             decision == Decision(config, outcome)
         IN /\ decision.status \in {"ready_to_transcribe", "needs_review"}
            /\ decision.status = "ready_to_transcribe" =>
                 decision.model /\ decision.profile = outcome.route /\ decision.profile \in config.profiles
<1> DEFINE outcome == RouteRecording(config, bundle, texts, answer)
<1>1. CASE ~outcome.ready
  BY <1>1 DEF Decision
<1>2. CASE outcome.ready
  <2>1. /\ outcome.route \in Candidates /\ outcome.profile = outcome.route
        /\ outcome.profile \in config.profiles
    BY <1>2, AutomaticRouteIsSupported DEF Supported
  <2>2. outcome.profile # NoProfile
    BY <2>1 DEF Candidates, ChineseRoutes, NoProfile
  <2> HIDE DEF outcome
  <2>3. LET decision == Decision(config, outcome)
        IN /\ decision.status \in {"ready_to_transcribe", "needs_review"}
           /\ decision.status = "ready_to_transcribe" =>
                decision.model /\ decision.profile = outcome.route /\ decision.profile \in config.profiles
    BY <2>1, <2>2 DEF Decision
  <2> QED BY <2>3 DEF outcome
<1> QED BY <1>1, <1>2

-----------------------------------------------------------------------------
(* Sampling *)

Touching(last, next, touch) == next[1] < last[2] \/ (touch /\ next[1] = last[2])

\* Appending to lists of one and of two.
LEMMA AppendIsLonger ==
  ASSUME NEW a, NEW b, NEW c
  PROVE  Append(<<a>>, b) = <<a, b>> /\ Append(<<a, b>>, c) = <<a, b, c>>
<1>1. Append(<<a>>, b) = <<a, b>>
  <2> DEFINE s == Append(<<a>>, b)
             t == <<a, b>>
  <2>1. <<a>> \in Seq({a, b}) /\ b \in {a, b}
    OBVIOUS
  <2>2. s \in Seq({a, b}) /\ Len(s) = 2 /\ s[1] = a /\ s[2] = b
    BY <2>1, AppendProperties
  <2>3. t \in Seq({a, b}) /\ Len(t) = 2 /\ t[1] = a /\ t[2] = b
    OBVIOUS
  <2> HIDE DEF s, t
  <2>4. \A i \in 1..Len(s) : s[i] = t[i]
    BY <2>2, <2>3
  <2> QED BY <2>2, <2>3, <2>4, SeqEqual DEF s, t
<1>2. Append(<<a, b>>, c) = <<a, b, c>>
  <2> DEFINE s == Append(<<a, b>>, c)
             t == <<a, b, c>>
  <2>1. <<a, b>> \in Seq({a, b, c}) /\ c \in {a, b, c}
    OBVIOUS
  <2>2. s \in Seq({a, b, c}) /\ Len(s) = 3 /\ s[1] = a /\ s[2] = b /\ s[3] = c
    BY <2>1, AppendProperties
  <2>3. t \in Seq({a, b, c}) /\ Len(t) = 3 /\ t[1] = a /\ t[2] = b /\ t[3] = c
    OBVIOUS
  <2> HIDE DEF s, t
  <2>4. \A i \in 1..Len(s) : s[i] = t[i]
    BY <2>2, <2>3
  <2> QED BY <2>2, <2>3, <2>4, SeqEqual DEF s, t
<1> QED BY <1>1, <1>2

\* Windows that touch are merged into one ...
LEMMA MergeTouching ==
  ASSUME NEW a, NEW b, NEW touch, Touching(a, b, touch)
  PROVE  MergeNext(<<a>>, b, touch) = << <<a[1], Larger(a[2], b[2])>> >>
<1>1. Len(<<a>>) = 1 /\ <<a>>[1] = a
  OBVIOUS
<1>2. ASSUME NEW x
      PROVE  [<<a>> EXCEPT ![1] = x] = <<x>>
  OBVIOUS
<1> QED BY <1>1, <1>2 DEF MergeNext, Touching

\* ... and those that do not are kept.
LEMMA MergeApart ==
  ASSUME NEW a, NEW b, NEW c, NEW touch, ~Touching(a, b, touch), ~Touching(b, c, touch)
  PROVE  MergeNext(MergeNext(<<a>>, b, touch), c, touch) = <<a, b, c>>
<1>1. Len(<<a>>) = 1 /\ <<a>>[1] = a /\ Len(<<a, b>>) = 2 /\ <<a, b>>[2] = b
  OBVIOUS
<1>2. MergeNext(<<a>>, b, touch) = <<a, b>>
  BY <1>1, AppendIsLonger DEF MergeNext, Touching
<1>3. MergeNext(<<a, b>>, c, touch) = <<a, b, c>>
  BY <1>1, AppendIsLonger DEF MergeNext, Touching
<1> QED BY <1>2, <1>3

\* All of a recording of at most 45 seconds, in one window or in three.
LEMMA ShortRecording ==
  ASSUME NEW d \in Nat, d >= MinimumSeconds, d <= 3 * WINDOW_SECONDS, NEW touch \in BOOLEAN
  PROVE  MergedWindows(d, touch) =
           IF touch THEN << <<0, 6 * d>> >> ELSE << <<0, 2 * d>>, <<2 * d, 4 * d>>, <<4 * d, 6 * d>> >>
<1> DEFINE a == <<0, 2 * d>>
           b == <<2 * d, 4 * d>>
           c == <<4 * d, 6 * d>>
<1>1. /\ Smaller(6 * WINDOW_SECONDS, 2 * d) = 2 * d /\ (2 * d) \div 2 = d /\ 3 * d - d = 2 * d
      /\ 3 * d + d = 4 * d /\ 6 * d - 2 * d = 4 * d /\ Larger(0, 2 * d) = 2 * d /\ Larger(0, 4 * d) = 4 * d
      /\ Larger(2 * d, 4 * d) = 4 * d /\ Larger(4 * d, 6 * d) = 6 * d
  BY DEF Smaller, Larger, WINDOW_SECONDS
<1>2. SampleWindows(d) = <<a, b, c>>
  BY <1>1 DEF SampleWindows
<1>3. MergedWindows(d, touch) = MergeNext(MergeNext(<<a>>, b, touch), c, touch)
  BY <1>2 DEF MergedWindows
<1>4. CASE touch
  <2> DEFINE ab == <<0, 4 * d>>
  <2>1. Touching(a, b, touch) /\ Touching(ab, c, touch)
    BY <1>4 DEF Touching
  <2>2. /\ <<a[1], Larger(a[2], b[2])>> = ab
        /\ <<ab[1], Larger(ab[2], c[2])>> = <<0, 6 * d>>
    BY <1>1
  <2> HIDE DEF a, b, c, ab
  <2>3. MergeNext(<<a>>, b, touch) = <<ab>>
    BY <2>1, <2>2, MergeTouching, Zenon
  <2>4. MergeNext(<<ab>>, c, touch) = << <<0, 6 * d>> >>
    <3>1. MergeNext(<<ab>>, c, touch) = << <<ab[1], Larger(ab[2], c[2])>> >>
      BY <2>1, MergeTouching, Zenon
    <3> QED BY <2>2, <3>1
  <2> QED BY <1>3, <1>4, <2>3, <2>4
<1>5. CASE ~touch
  <2>1. ~Touching(a, b, touch) /\ ~Touching(b, c, touch)
    BY <1>5 DEF Touching
  <2> HIDE DEF a, b, c
  <2>2. MergedWindows(d, touch) = <<a, b, c>>
    BY <1>3, <2>1, MergeApart, Zenon
  <2> QED BY <1>5, <2>2 DEF a, b, c
<1> QED BY <1>4, <1>5

\* A recording of more than 45 seconds is sampled at its start, middle and end
\* (extract_samples, audiosamples.py:226-238).
LEMMA LongRecording ==
  ASSUME NEW d \in Nat, d > 3 * WINDOW_SECONDS, NEW touch \in BOOLEAN
  PROVE  MergedWindows(d, touch) = << <<0, 90>>, <<3 * d - 45, 3 * d + 45>>, <<6 * d - 90, 6 * d>> >>
<1> DEFINE a == <<0, 90>>
           b == <<3 * d - 45, 3 * d + 45>>
           c == <<6 * d - 90, 6 * d>>
<1>1. Smaller(6 * WINDOW_SECONDS, 2 * d) = 90 /\ 90 \div 2 = 45
      /\ Larger(0, 3 * d - 45) = 3 * d - 45 /\ Larger(0, 6 * d - 90) = 6 * d - 90
  BY DEF Smaller, Larger, WINDOW_SECONDS
<1>2. SampleWindows(d) = <<a, b, c>>
  BY <1>1 DEF SampleWindows
<1>3. ~Touching(a, b, touch) /\ ~Touching(b, c, touch)
  BY DEF Touching, WINDOW_SECONDS
<1>4. MergedWindows(d, touch) = MergeNext(MergeNext(<<a>>, b, touch), c, touch)
  BY <1>2 DEF MergedWindows
<1> HIDE DEF a, b, c
<1>5. MergedWindows(d, touch) = <<a, b, c>>
  BY <1>3, <1>4, MergeApart, Zenon
<1> QED BY <1>5 DEF a, b, c

\* However rounding falls, the windows are in order, lie in the recording and do not
\* overlap, so that nothing is heard twice; there are three, or one that is all of a
\* recording of at most 45 seconds.  (extract_samples,
\* src/src/workflow/services/audiosamples.py:226-238)
THEOREM WindowsAreApart ==
  ASSUME NEW d \in Nat, d >= MinimumSeconds, NEW touch \in BOOLEAN
  PROVE  LET w == MergedWindows(d, touch)
         IN /\ \/ Len(w) = 3
               \/ d <= 3 * WINDOW_SECONDS /\ w = << <<0, 6 * d>> >>
            /\ \A i \in 1..Len(w) : 0 <= w[i][1] /\ w[i][1] < w[i][2] /\ w[i][2] <= 6 * d
            /\ \A i \in 1..(Len(w) - 1) : w[i][2] <= w[i + 1][1]
<1> DEFINE Apart(w) ==
      /\ Len(w) = 3 \/ (d <= 3 * WINDOW_SECONDS /\ w = << <<0, 6 * d>> >>)
      /\ \A i \in 1..Len(w) : 0 <= w[i][1] /\ w[i][1] < w[i][2] /\ w[i][2] <= 6 * d
      /\ \A i \in 1..(Len(w) - 1) : w[i][2] <= w[i + 1][1]
<1>1. CASE d <= 3 * WINDOW_SECONDS /\ touch
  <2>1. Apart(<< <<0, 6 * d>> >>)
    BY <1>1 DEF MinimumSeconds
  <2> QED BY <1>1, <2>1, ShortRecording
<1>2. CASE d <= 3 * WINDOW_SECONDS /\ ~touch
  <2>1. Apart(<< <<0, 2 * d>>, <<2 * d, 4 * d>>, <<4 * d, 6 * d>> >>)
    BY DEF MinimumSeconds
  <2> QED BY <1>2, <2>1, ShortRecording
<1>3. CASE d > 3 * WINDOW_SECONDS
  <2>1. Apart(<< <<0, 90>>, <<3 * d - 45, 3 * d + 45>>, <<6 * d - 90, 6 * d>> >>)
    BY <1>3 DEF WINDOW_SECONDS
  <2>2. MergedWindows(d, touch) = << <<0, 90>>, <<3 * d - 45, 3 * d + 45>>, <<6 * d - 90, 6 * d>> >>
    BY <1>3, LongRecording
  <2> HIDE DEF Apart
  <2>3. Apart(MergedWindows(d, touch))
    BY <2>1, <2>2, Zenon
  <2> QED BY <2>3 DEF Apart
<1> QED BY <1>1, <1>2, <1>3 DEF WINDOW_SECONDS

\* A recording that is sampled in one window is never routed without a classifier,
\* whatever it says: the gate asks for two.
\* (evaluate_heuristic_gate, src/src/workflow/services/routing.py:268)
COROLLARY OneWindowNeedsTheClassifier ==
  ASSUME NEW texts, NEW bundle, NEW gate, Len(bundle.windows) = 1
  PROVE  GateRoute(Evidence(texts, bundle), gate) = NoProfile
<1>1. Evidence(texts, bundle).windows = 1
  BY DEF Evidence
<1> QED BY <1>1, GateRouteIsTheVerdict

-----------------------------------------------------------------------------
(* Sort keys and the fusion of two ranks *)

\* The order of the natural numbers.
Below == {ss \in Nat \X Nat : ss[1] < ss[2]}

\* Some numbers have a least one: induction, as a property of sets.
LEMMA LeastNumber ==
  ASSUME NEW S, S \subseteq Nat, S # {}
  PROVE  \E x \in S : \A y \in S : x <= y
<1>1. PICK x \in S : \A y \in S : ~ (<<y, x>> \in Below)
  <2>1. IsWellFoundedOn(Below, Nat)
    BY NatLessThanWellFounded DEF OpToRel, Below
  <2> QED BY <2>1, WFMin
<1>2. ASSUME NEW y \in S PROVE x <= y
  <2>1. x \in Nat /\ y \in Nat
    OBVIOUS
  <2>2. ~ (y < x)
    BY <1>1, <2>1 DEF Below
  <2> QED BY <2>1, <2>2
<1> QED BY <1>2

\* Sort keys of one length are totally ordered.
LEMMA BeforeIsAnOrder ==
  ASSUME NEW n \in Nat, NEW a \in [1..n -> Int], NEW b \in [1..n -> Int], NEW c \in [1..n -> Int]
  PROVE  /\ ~Before(a, a)
         /\ Before(a, b) => ~Before(b, a)
         /\ Before(a, b) /\ Before(b, c) => Before(a, c)
         /\ a # b => Before(a, b) \/ Before(b, a)
<1>1. \A x, y \in [1..n -> Int] :
        Before(x, y) <=> \E i \in 1..n : x[i] < y[i] /\ \A j \in 1..n : j < i => x[j] = y[j]
  BY DEF Before
<1>2. ~Before(a, a)
  <2>1. \A i \in 1..n : ~(a[i] < a[i])
    <3>1. \A x \in Int : ~(x < x)
      OBVIOUS
    <3> QED BY <3>1
  <2> QED BY <1>1, <2>1
<1>3. Before(a, b) => ~Before(b, a)
  <2> SUFFICES ASSUME Before(a, b), Before(b, a) PROVE FALSE
    OBVIOUS
  <2>1. PICK i \in 1..n : a[i] < b[i] /\ \A j \in 1..n : j < i => a[j] = b[j]
    BY <1>1
  <2>2. PICK k \in 1..n : b[k] < a[k] /\ \A j \in 1..n : j < k => b[j] = a[j]
    BY <1>1
  <2>3. i < k \/ i = k \/ k < i
    OBVIOUS
  <2>4. a[i] \in Int /\ b[i] \in Int /\ a[k] \in Int /\ b[k] \in Int
    OBVIOUS
  <2> QED BY <2>1, <2>2, <2>3, <2>4
<1>4. Before(a, b) /\ Before(b, c) => Before(a, c)
  <2> SUFFICES ASSUME Before(a, b), Before(b, c) PROVE Before(a, c)
    OBVIOUS
  <2>1. PICK i \in 1..n : a[i] < b[i] /\ \A j \in 1..n : j < i => a[j] = b[j]
    BY <1>1
  <2>2. PICK k \in 1..n : b[k] < c[k] /\ \A j \in 1..n : j < k => b[j] = c[j]
    BY <1>1
  <2>3. \A j \in 1..n : a[j] \in Int /\ b[j] \in Int /\ c[j] \in Int
    OBVIOUS
  <2>4. CASE i <= k
    <3>1. a[i] < c[i]
      <4>1. i = k \/ i < k
        BY <2>4
      <4> QED BY <2>1, <2>2, <2>3, <4>1
    <3>2. \A j \in 1..n : j < i => a[j] = c[j]
      BY <2>1, <2>2, <2>4
    <3> QED BY <1>1, <3>1, <3>2
  <2>5. CASE k < i
    <3>1. a[k] < c[k]
      BY <2>1, <2>2, <2>3, <2>5
    <3>2. \A j \in 1..n : j < k => a[j] = c[j]
      BY <2>1, <2>2, <2>5
    <3> QED BY <1>1, <3>1, <3>2
  <2> QED BY <2>4, <2>5
<1>5. a # b => Before(a, b) \/ Before(b, a)
  <2> SUFFICES ASSUME a # b PROVE Before(a, b) \/ Before(b, a)
    OBVIOUS
  <2> DEFINE different == {i \in 1..n : a[i] # b[i]}
  <2>1. different # {} /\ different \subseteq Nat
    <3>1. \E i \in 1..n : a[i] # b[i]
      OBVIOUS
    <3>2. \A i \in 1..n : i \in Nat
      OBVIOUS
    <3> QED BY <3>1, <3>2, Zenon
  <2>2. PICK i \in different : \A j \in different : i <= j
    BY <2>1, LeastNumber
  <2>3. i \in 1..n /\ (a[i] < b[i] \/ b[i] < a[i])
    <3>1. i \in 1..n /\ a[i] # b[i]
      BY <2>2
    <3>2. a[i] \in Int /\ b[i] \in Int
      BY <3>1
    <3> QED BY <3>1, <3>2
  <2>4. \A j \in 1..n : j < i => a[j] = b[j]
    BY <2>2
  <2> QED BY <1>1, <2>3, <2>4
<1> QED BY <1>2, <1>3, <1>4, <1>5

\* What the fusion orders: an identity with the rank in each list, in one at least.
Items == [identity : Int, keyword : Nat, semantic : Nat]
Ranked == {item \in Items : item.keyword # NoRank \/ item.semantic # NoRank}

\* The score of a ranked item is a positive fraction (rrf_score, search_fusion.py:191-204).
LEMMA ScoreType ==
  ASSUME NEW a \in Ranked
  PROVE  Score(a).n \in Nat \ {0} /\ Score(a).d \in Nat \ {0}
<1>1. a.keyword \in Nat /\ a.semantic \in Nat
  BY DEF Ranked, Items
<1>2. \A x, y \in Nat \ {0} : x * y \in Nat \ {0}
  OBVIOUS
<1>3. RRF_K + a.keyword \in Nat \ {0} /\ RRF_K + a.semantic \in Nat \ {0}
  BY <1>1 DEF RRF_K
<1>4. CASE a.semantic = NoRank
  BY <1>3, <1>4 DEF Score
<1>5. CASE a.semantic # NoRank /\ a.keyword = NoRank
  BY <1>3, <1>5 DEF Score
<1>6. CASE a.semantic # NoRank /\ a.keyword # NoRank
  <2>1. /\ Score(a).n = (RRF_K + a.keyword) + (RRF_K + a.semantic)
        /\ Score(a).d = (RRF_K + a.keyword) * (RRF_K + a.semantic)
    BY <1>6 DEF Score
  <2> QED BY <1>2, <1>3, <2>1
<1> QED BY <1>4, <1>5, <1>6

\* The rest of its sort key is four numbers, the last one its identity
\* (_fusion_key, search_fusion.py:339-350).
LEMMA RestType ==
  ASSUME NEW a \in Ranked
  PROVE  Rest(a) \in [1..4 -> Int] /\ Rest(a)[4] = a.identity
<1>1. a.keyword \in Nat /\ a.semantic \in Nat /\ a.identity \in Int
  BY DEF Ranked, Items
<1>2. PresentRanks(a) # {} /\ PresentRanks(a) \subseteq Nat
  BY <1>1 DEF PresentRanks, Ranked
<1>3. Least(PresentRanks(a)) \in Nat
  BY <1>2, LeastNumber DEF Least
<1>4. Greatest(PresentRanks(a)) \in Nat
  <2>1. \E r \in PresentRanks(a) : \A q \in PresentRanks(a) : r >= q
    <3>1. \E r \in {a.keyword, a.semantic} : r # NoRank /\ (\A q \in {a.keyword, a.semantic} : q # NoRank => r >= q)
      <4>1. CASE a.keyword = NoRank
        BY <1>1, <4>1 DEF Ranked, NoRank
      <4>2. CASE a.semantic = NoRank
        BY <1>1, <4>2 DEF Ranked, NoRank
      <4>3. CASE a.keyword # NoRank /\ a.semantic # NoRank /\ a.keyword >= a.semantic
        BY <1>1, <4>3
      <4>4. CASE a.keyword # NoRank /\ a.semantic # NoRank /\ a.semantic >= a.keyword
        BY <1>1, <4>4
      <4> QED BY <1>1, <4>1, <4>2, <4>3, <4>4
    <3> QED BY <3>1 DEF PresentRanks
  <2> QED BY <1>2, <2>1 DEF Greatest
<1>5. Presence(a) \in Nat
  <2>1. {c \in {"keyword", "semantic"} : a[c] # NoRank} \in SUBSET {"keyword", "semantic"}
    OBVIOUS
  <2>2. IsFiniteSet({"keyword", "semantic"})
    <3>1. IsFiniteSet({"keyword"})
      BY FS_Singleton
    <3>2. IsFiniteSet({"keyword"} \cup {"semantic"})
      BY <3>1, FS_AddElement
    <3>3. {"keyword"} \cup {"semantic"} = {"keyword", "semantic"}
      OBVIOUS
    <3> QED BY <3>2, <3>3
  <2>3. IsFiniteSet({c \in {"keyword", "semantic"} : a[c] # NoRank})
    BY <2>1, <2>2, FS_Subset
  <2> QED BY <2>3, FS_CardinalityType DEF Presence
<1> DEFINE p == -Presence(a)
           l == Least(PresentRanks(a))
           g == Greatest(PresentRanks(a))
<1>6. p \in Int /\ l \in Int /\ g \in Int
  BY <1>3, <1>4, <1>5
<1> HIDE DEF p, l, g
<1>7. <<p, l, g, a.identity>> \in [1..4 -> Int] /\ <<p, l, g, a.identity>>[4] = a.identity
  BY <1>1, <1>6
<1> QED BY <1>7 DEF Rest, p, l, g

\* Positive fractions compared by cross-multiplication.
LEMMA CrossTransitive ==
  ASSUME NEW a \in Nat, NEW b \in Nat \ {0}, NEW c \in Nat, NEW d \in Nat \ {0}, NEW e \in Nat, NEW f \in Nat \ {0},
         a * d >= c * b, c * f >= e * d
  PROVE  /\ a * f >= e * b
         /\ a * d > c * b \/ c * f > e * d => a * f > e * b
<1> DEFINE ad == a * d
           cb == c * b
           cf == c * f
           ed == e * d
           af == a * f
           eb == e * b
<1>1. ad \in Nat /\ cb \in Nat /\ cf \in Nat /\ ed \in Nat /\ af \in Nat /\ eb \in Nat
  OBVIOUS
<1>2. ad * f = af * d /\ cb * f = cf * b /\ ed * b = eb * d
  OBVIOUS
<1>3. \A x, y \in Nat, z \in Nat \ {0} : (x >= y <=> x * z >= y * z) /\ (x > y <=> x * z > y * z)
  OBVIOUS
<1>4. ad * f >= cb * f /\ cf * b >= ed * b
  BY <1>1, <1>3
<1>5. af * d >= eb * d
  <2>1. ad * f \in Nat /\ cb * f \in Nat /\ cf * b \in Nat /\ ed * b \in Nat
    BY <1>1
  <2> HIDE DEF ad, cb, cf, ed, af, eb
  <2> QED BY <1>2, <1>4, <2>1
<1>6. ad > cb \/ cf > ed => af * d > eb * d
  <2>1. ad * f \in Nat /\ cb * f \in Nat /\ cf * b \in Nat /\ ed * b \in Nat
    BY <1>1
  <2>2. (ad > cb => ad * f > cb * f) /\ (cf > ed => cf * b > ed * b)
    BY <1>1, <1>3
  <2> HIDE DEF ad, cb, cf, ed, af, eb
  <2> QED BY <1>2, <1>4, <2>1, <2>2
<1> HIDE DEF ad, cb, cf, ed, af, eb
<1>7. af >= eb /\ (ad > cb \/ cf > ed => af > eb)
  BY <1>1, <1>3, <1>5, <1>6
<1> QED BY <1>7 DEF ad, cb, cf, ed, af, eb

\* Not worse by score and, of the same score, before by the rest.
LEMMA FusedBeforeMeans ==
  ASSUME NEW a \in Ranked, NEW b \in Ranked
  PROVE  FusedBefore(a, b) <=>
           LET left == Score(a).n * Score(b).d
               right == Score(b).n * Score(a).d
           IN left >= right /\ (left > right \/ Before(Rest(a), Rest(b)))
<1>1. Score(a).n * Score(b).d \in Nat /\ Score(b).n * Score(a).d \in Nat
  BY ScoreType
<1> QED BY <1>1 DEF FusedBefore

\* Two components' lists become one order: of any three items, none is before itself,
\* what is before the second one is before all that the second one is before, and two
\* identities are never tied (_fusion_key, search_fusion.py:339-350).
LEMMA FusionIsAnOrder ==
  ASSUME NEW a \in Ranked, NEW b \in Ranked, NEW c \in Ranked
  PROVE  /\ ~FusedBefore(a, a)
         /\ FusedBefore(a, b) /\ FusedBefore(b, c) => FusedBefore(a, c)
         /\ a.identity # b.identity => FusedBefore(a, b) \/ FusedBefore(b, a)
<1>1. \A x \in Ranked : Score(x).n \in Nat \ {0} /\ Score(x).d \in Nat \ {0} /\ Rest(x) \in [1..4 -> Int]
  BY ScoreType, RestType
<1>2. \A x, y \in Ranked : Score(x).n * Score(y).d \in Nat
  BY <1>1
<1>3. ~FusedBefore(a, a)
  <2>1. ~Before(Rest(a), Rest(a))
    BY <1>1, BeforeIsAnOrder
  <2> QED BY <1>2, <2>1, FusedBeforeMeans
<1>4. FusedBefore(a, b) /\ FusedBefore(b, c) => FusedBefore(a, c)
  <2> SUFFICES ASSUME FusedBefore(a, b), FusedBefore(b, c) PROVE FusedBefore(a, c)
    OBVIOUS
  <2>1. /\ Score(a).n * Score(b).d >= Score(b).n * Score(a).d
        /\ Score(a).n * Score(b).d > Score(b).n * Score(a).d \/ Before(Rest(a), Rest(b))
    BY FusedBeforeMeans
  <2>2. /\ Score(b).n * Score(c).d >= Score(c).n * Score(b).d
        /\ Score(b).n * Score(c).d > Score(c).n * Score(b).d \/ Before(Rest(b), Rest(c))
    BY FusedBeforeMeans
  <2>3. /\ Score(a).n * Score(c).d >= Score(c).n * Score(a).d
        /\ \/ Score(a).n * Score(b).d > Score(b).n * Score(a).d
           \/ Score(b).n * Score(c).d > Score(c).n * Score(b).d
           => Score(a).n * Score(c).d > Score(c).n * Score(a).d
    BY <1>1, <2>1, <2>2, CrossTransitive
  <2>4. Before(Rest(a), Rest(b)) /\ Before(Rest(b), Rest(c)) => Before(Rest(a), Rest(c))
    BY <1>1, BeforeIsAnOrder
  <2> QED BY <2>1, <2>2, <2>3, <2>4, FusedBeforeMeans
<1>5. a.identity # b.identity => FusedBefore(a, b) \/ FusedBefore(b, a)
  <2> SUFFICES ASSUME a.identity # b.identity PROVE FusedBefore(a, b) \/ FusedBefore(b, a)
    OBVIOUS
  <2>1. Rest(a) # Rest(b)
    BY RestType
  <2>2. Before(Rest(a), Rest(b)) \/ Before(Rest(b), Rest(a))
    BY <1>1, <2>1, BeforeIsAnOrder
  <2> DEFINE left == Score(a).n * Score(b).d
             right == Score(b).n * Score(a).d
  <2>3. left \in Nat /\ right \in Nat
    BY <1>2
  <2>4. /\ FusedBefore(a, b) <=> left >= right /\ (left > right \/ Before(Rest(a), Rest(b)))
        /\ FusedBefore(b, a) <=> right >= left /\ (right > left \/ Before(Rest(b), Rest(a)))
    BY FusedBeforeMeans
  <2> HIDE DEF left, right
  <2> QED BY <2>2, <2>3, <2>4
<1> QED BY <1>3, <1>4, <1>5

\* A rank that is as good as another, or the other is none.
NotWorse(a, b) == b = NoRank \/ (a # NoRank /\ a <= b)

\* For an item that is not worse in either list, and better in one, a higher score.
LEMMA BetterRanksScoreMore ==
  ASSUME NEW a \in Ranked, NEW b \in Ranked,
         NotWorse(a.keyword, b.keyword), NotWorse(a.semantic, b.semantic),
         a.keyword # b.keyword \/ a.semantic # b.semantic
  PROVE  Score(a).n * Score(b).d > Score(b).n * Score(a).d
<1> DEFINE p == RRF_K + a.keyword
           q == RRF_K + a.semantic
           r == RRF_K + b.keyword
           s == RRF_K + b.semantic
<1>1. a.keyword \in Nat /\ a.semantic \in Nat /\ b.keyword \in Nat /\ b.semantic \in Nat
  BY DEF Ranked, Items
<1>2. p \in Nat \ {0} /\ q \in Nat \ {0} /\ r \in Nat \ {0} /\ s \in Nat \ {0}
  BY <1>1 DEF RRF_K
<1>3. /\ b.keyword # NoRank => a.keyword # NoRank /\ p <= r
      /\ b.semantic # NoRank => a.semantic # NoRank /\ q <= s
      /\ a.keyword # b.keyword => p # r
      /\ a.semantic # b.semantic => q # s
  BY <1>1 DEF NotWorse, RRF_K
<1>4. \A x, y, z \in Nat \ {0} : x * y \in Nat \ {0} /\ x * y = y * x /\ (x + y) * z = x * z + y * z /\ x * (y * z) = (x * y) * z
  OBVIOUS
<1>5. \A x, y, z \in Nat \ {0} : (x <= y => x * z <= y * z) /\ (x < y => x * z < y * z)
  OBVIOUS
<1>6. CASE b.keyword # NoRank /\ b.semantic # NoRank
  <2>1. /\ Score(a).n = p + q /\ Score(a).d = p * q /\ Score(b).n = r + s /\ Score(b).d = r * s
        /\ p <= r /\ q <= s /\ (p < r \/ q < s)
    BY <1>2, <1>3, <1>6 DEF Score
  <2> HIDE DEF p, q, r, s
  <2>2. \A x, y, z \in Nat : (x * y) * z = x * (y * z) /\ x * y = y * x /\ (x + y) * z = x * z + y * z
    OBVIOUS
  <2> DEFINE u == p * r
             v == q * s
  <2>3. (p + q) * (r * s) = u * s + v * r
    <3>1. (p + q) * (r * s) = p * (r * s) + q * (r * s)
      BY <1>2, <2>2
    <3>2. p * (r * s) = u * s
      BY <1>2, <2>2
    <3>3. q * (r * s) = q * (s * r) /\ q * (s * r) = v * r
      BY <1>2, <2>2
    <3> QED BY <3>1, <3>2, <3>3
  <2>4. (r + s) * (p * q) = u * q + v * p
    <3>1. (r + s) * (p * q) = r * (p * q) + s * (p * q)
      BY <1>2, <2>2
    <3>2. r * (p * q) = (r * p) * q /\ r * p = u
      BY <1>2, <2>2
    <3>3. s * (p * q) = s * (q * p) /\ s * (q * p) = (s * q) * p /\ s * q = v
      BY <1>2, <2>2
    <3> QED BY <3>1, <3>2, <3>3
  <2>5. u \in Nat \ {0} /\ v \in Nat \ {0}
    BY <1>2, <1>4
  <2> HIDE DEF u, v
  <2>6. /\ u * q <= u * s /\ v * p <= v * r
        /\ u * q < u * s \/ v * p < v * r
    <3>1. /\ q * u <= s * u /\ p * v <= r * v
          /\ q < s => q * u < s * u
          /\ p < r => p * v < r * v
      BY <1>2, <1>5, <2>1, <2>5
    <3>2. u * q = q * u /\ u * s = s * u /\ v * p = p * v /\ v * r = r * v
      BY <1>2, <1>4, <2>5
    <3> QED BY <2>1, <3>1, <3>2
  <2>7. u * q \in Nat /\ u * s \in Nat /\ v * p \in Nat /\ v * r \in Nat
    BY <1>2, <2>5
  <2> QED BY <2>1, <2>3, <2>4, <2>6, <2>7
<1>7. CASE b.semantic = NoRank /\ a.semantic = NoRank
  <2>1. b.keyword # NoRank /\ a.keyword # NoRank /\ p < r
    BY <1>2, <1>3, <1>7 DEF Ranked
  <2>2. Score(a).n = 1 /\ Score(a).d = p /\ Score(b).n = 1 /\ Score(b).d = r
    BY <1>7 DEF Score
  <2> HIDE DEF p, q, r, s
  <2> QED BY <1>2, <2>1, <2>2
<1>8. CASE b.semantic = NoRank /\ a.semantic # NoRank
  <2>1. b.keyword # NoRank /\ a.keyword # NoRank /\ p <= r
    BY <1>3, <1>8 DEF Ranked
  <2>2. Score(a).n = p + q /\ Score(a).d = p * q /\ Score(b).n = 1 /\ Score(b).d = r
    BY <1>8, <2>1 DEF Score
  <2> HIDE DEF p, q, r, s
  <2>3. (p + q) * r = p * r + q * r /\ p * r > 0 /\ q * r = r * q /\ p * q <= r * q
    BY <1>2, <1>4, <1>5, <2>1
  <2>4. p * r \in Nat /\ q * r \in Nat /\ p * q \in Nat /\ r * q \in Nat
    BY <1>2
  <2> QED BY <2>2, <2>3, <2>4
<1>9. CASE b.semantic # NoRank /\ b.keyword = NoRank /\ a.keyword = NoRank
  <2>1. a.semantic # NoRank /\ q < s
    BY <1>2, <1>3, <1>9
  <2>2. Score(a).n = 1 /\ Score(a).d = q /\ Score(b).n = 1 /\ Score(b).d = s
    BY <1>9, <2>1 DEF Score
  <2> HIDE DEF p, q, r, s
  <2> QED BY <1>2, <2>1, <2>2
<1>10. CASE b.semantic # NoRank /\ b.keyword = NoRank /\ a.keyword # NoRank
  <2>1. a.semantic # NoRank /\ q <= s
    BY <1>3, <1>10
  <2>2. Score(a).n = p + q /\ Score(a).d = p * q /\ Score(b).n = 1 /\ Score(b).d = s
    BY <1>10, <2>1 DEF Score
  <2> HIDE DEF p, q, r, s
  <2>3. (p + q) * s = p * s + q * s /\ q * s > 0 /\ p * q = q * p /\ p * s = s * p /\ q * p <= s * p
    BY <1>2, <1>4, <1>5, <2>1
  <2>4. p * s \in Nat /\ q * s \in Nat /\ p * q \in Nat /\ q * p \in Nat /\ s * p \in Nat
    BY <1>2
  <2> QED BY <2>2, <2>3, <2>4
<1> QED BY <1>6, <1>7, <1>8, <1>9, <1>10

\* The fusion orders the items strictly and never ties two identities, so that the
\* list of two components is one list, whatever order they are collected in; and an item
\* that no component ranks worse than another, and one ranks better, comes before it.
\* The score is the exact one: the sums of the code, in floating point,
\* never reverse two of them.
\* (_fusion_key and rrf_score, src/src/workflow/services/search_fusion.py:191-204, 339-350)
THEOREM FusionRespectsRanks ==
  ASSUME NEW a \in Ranked, NEW b \in Ranked, NEW c \in Ranked
  PROVE  /\ ~FusedBefore(a, a)
         /\ FusedBefore(a, b) /\ FusedBefore(b, c) => FusedBefore(a, c)
         /\ a.identity # b.identity => FusedBefore(a, b) \/ FusedBefore(b, a)
         /\ NotWorse(a.keyword, b.keyword) /\ NotWorse(a.semantic, b.semantic)
            /\ (a.keyword # b.keyword \/ a.semantic # b.semantic) => FusedBefore(a, b)
<1>1. ASSUME NotWorse(a.keyword, b.keyword), NotWorse(a.semantic, b.semantic),
             a.keyword # b.keyword \/ a.semantic # b.semantic
      PROVE  FusedBefore(a, b)
  BY <1>1, BetterRanksScoreMore DEF FusedBefore
<1> QED BY <1>1, FusionIsAnOrder

-----------------------------------------------------------------------------
(* The heap and the groups of the semantic engine *)

\* Entries with sort keys, of which no two are the same.
IsEntries(S) == \A e \in S : e.key \in [1..4 -> Int] /\ \A f \in S : e # f => e.key # f.key

\* Entries are ordered strictly by their keys.
LEMMA EntriesAreOrdered ==
  ASSUME NEW S, IsEntries(S), NEW e \in S, NEW f \in S, NEW g \in S
  PROVE  /\ ~Before(e.key, e.key)
         /\ Before(e.key, f.key) => ~Before(f.key, e.key)
         /\ Before(e.key, f.key) /\ Before(f.key, g.key) => Before(e.key, g.key)
         /\ e # f => Before(e.key, f.key) \/ Before(f.key, e.key)
<1>1. e.key \in [1..4 -> Int] /\ f.key \in [1..4 -> Int] /\ g.key \in [1..4 -> Int]
  BY DEF IsEntries
<1>2. e # f => e.key # f.key
  BY DEF IsEntries
<1> QED BY <1>1, <1>2, BeforeIsAnOrder

\* Some numbers that are not above a bound have a greatest one.
LEMMA GreatestNumber ==
  ASSUME NEW n \in Nat, NEW S, S \subseteq 0..n, S # {}
  PROVE  \E x \in S : \A y \in S : x >= y
<1> DEFINE T == {n - s : s \in S}
<1>1. T \subseteq Nat /\ T # {}
  <2>1. \A s \in S : s \in 0..n
    OBVIOUS
  <2>2. \A s \in 0..n : n - s \in Nat
    OBVIOUS
  <2> QED BY <2>1, <2>2
<1>2. PICK t \in T : \A u \in T : t <= u
  BY <1>1, LeastNumber
<1>3. PICK x \in S : t = n - x
  OBVIOUS
<1>4. ASSUME NEW y \in S PROVE x >= y
  <2>1. n - x <= n - y
    BY <1>2, <1>3
  <2> QED BY <2>1
<1> QED BY <1>4

\* A strict total order of S, as a set of pairs.
OrdersTotally(R, S) ==
  /\ \A x \in S : <<x, x>> \notin R
  /\ \A x, y, z \in S : <<x, y>> \in R /\ <<y, z>> \in R => <<x, z>> \in R
  /\ \A x, y \in S : x # y => <<x, y>> \in R \/ <<y, x>> \in R

\* Of finitely many elements one is the last: the one that most are before.
LEMMA LastExists ==
  ASSUME NEW S, IsFiniteSet(S), S # {}, NEW R, OrdersTotally(R, S)
  PROVE  \E x \in S : \A y \in S \ {x} : <<y, x>> \in R
<1> DEFINE Ahead(x) == {y \in S : <<y, x>> \in R}
           ranks == {Cardinality(Ahead(x)) : x \in S}
<1>1. ASSUME NEW x \in S
      PROVE  /\ IsFiniteSet(Ahead(x)) /\ Cardinality(Ahead(x)) \in Nat
             /\ Cardinality(Ahead(x)) <= Cardinality(S)
  <2>1. Ahead(x) \in SUBSET S
    OBVIOUS
  <2> HIDE DEF Ahead
  <2> QED BY <2>1, FS_Subset, FS_CardinalityType
<1>2. Cardinality(S) \in Nat
  BY FS_CardinalityType
<1>3. ranks \subseteq 0..Cardinality(S) /\ ranks # {}
  <2> HIDE DEF Ahead
  <2> QED BY <1>1, <1>2
<1>4. PICK x \in S : \A y \in S : Cardinality(Ahead(x)) >= Cardinality(Ahead(y))
  <2>1. PICK r \in ranks : \A q \in ranks : r >= q
    BY <1>2, <1>3, GreatestNumber
  <2> HIDE DEF Ahead
  <2>2. PICK x \in S : r = Cardinality(Ahead(x))
    OBVIOUS
  <2> QED BY <2>1, <2>2
<1>5. ASSUME NEW y \in S \ {x}
      PROVE  <<y, x>> \in R
  <2> SUFFICES ASSUME <<y, x>> \notin R PROVE FALSE
    OBVIOUS
  <2>1. <<x, y>> \in R
    BY DEF OrdersTotally
  <2>2. Ahead(x) \cup {x} \in SUBSET Ahead(y)
    BY <2>1 DEF OrdersTotally
  <2>3. x \notin Ahead(x)
    BY DEF OrdersTotally
  <2> HIDE DEF Ahead
  <2>4. Cardinality(Ahead(x) \cup {x}) = Cardinality(Ahead(x)) + 1
    BY <1>1, <2>3, FS_AddElement
  <2>5. Cardinality(Ahead(x) \cup {x}) <= Cardinality(Ahead(y))
    BY <1>1, <2>2, FS_Subset
  <2> QED BY <1>1, <1>4, <2>4, <2>5
<1> QED BY <1>5

\* ... and one is the first.
LEMMA FirstExists ==
  ASSUME NEW S, IsFiniteSet(S), S # {}, NEW R, OrdersTotally(R, S)
  PROVE  \E x \in S : \A y \in S \ {x} : <<x, y>> \in R
<1> DEFINE Q == {ss \in S \X S : <<ss[2], ss[1]>> \in R}
<1>1. \A x, y \in S : <<x, y>> \in Q <=> <<y, x>> \in R
  OBVIOUS
<1> HIDE DEF Q
<1>2. OrdersTotally(Q, S)
  BY <1>1 DEF OrdersTotally
<1>3. PICK x \in S : \A y \in S \ {x} : <<y, x>> \in Q
  BY <1>2, LastExists
<1> QED BY <1>1, <1>3

\* Of finitely many entries one is the worst: the CHOOSE of a push finds it.
LEMMA WorstExists ==
  ASSUME NEW S, IsFiniteSet(S), S # {}, IsEntries(S)
  PROVE  \E e \in S : \A f \in S \ {e} : Before(f.key, e.key)
<1> DEFINE R == {ss \in S \X S : Before(ss[1].key, ss[2].key)}
<1>1. \A e, f \in S : <<e, f>> \in R <=> Before(e.key, f.key)
  OBVIOUS
<1> HIDE DEF R
<1>2. OrdersTotally(R, S)
  BY <1>1, EntriesAreOrdered DEF OrdersTotally
<1>3. PICK e \in S : \A f \in S \ {e} : <<f, e>> \in R
  BY <1>2, LastExists
<1> QED BY <1>1, <1>3

\* A heap of at most limit entries of those seen: all of them, or the best ones.
Foremost(heap, seen, limit) ==
  /\ heap \subseteq seen /\ IsFiniteSet(heap) /\ Cardinality(heap) <= limit
  /\ heap = seen \/ Cardinality(heap) = limit
  /\ \A e \in heap, f \in seen \ heap : Before(e.key, f.key)

\* What a heap can be is settled by what was seen.
LEMMA OneForemost ==
  ASSUME NEW seen, IsEntries(seen), NEW limit \in Nat, NEW heap, NEW other,
         Foremost(heap, seen, limit), Foremost(other, seen, limit)
  PROVE  heap = other
<1>1. ASSUME NEW h, NEW o, Foremost(h, seen, limit), Foremost(o, seen, limit)
      PROVE  h \subseteq o
  <2> SUFFICES ASSUME NEW e \in h, e \notin o PROVE FALSE
    OBVIOUS
  <2>1. h \subseteq seen /\ o \subseteq seen /\ o # seen
    BY <1>1 DEF Foremost
  <2>2. /\ IsFiniteSet(h) /\ IsFiniteSet(o) /\ Cardinality(o) = limit /\ Cardinality(h) <= limit
    BY <1>1, <2>1 DEF Foremost
  <2>3. o \subseteq h => FALSE
    <3> SUFFICES ASSUME o \subseteq h PROVE FALSE
      OBVIOUS
    <3>1. Cardinality(o) <= Cardinality(h) /\ (Cardinality(h) = Cardinality(o) => h = o)
      BY <2>2, FS_Subset
    <3>2. Cardinality(h) \in Nat /\ Cardinality(o) \in Nat
      BY <2>2, FS_CardinalityType
    <3> QED BY <2>2, <3>1, <3>2
  <2>4. PICK f \in o : f \notin h
    BY <2>3
  <2>5. Before(e.key, f.key) /\ Before(f.key, e.key)
    BY <1>1, <2>1, <2>4 DEF Foremost
  <2> QED BY <2>1, <2>4, <2>5, EntriesAreOrdered
<1> QED BY <1>1

\* A push on a heap of the foremost entries seen leaves one of those seen with it
\* (semantic_query.py:695-706).
LEMMA OfferKeepsTheBest ==
  ASSUME NEW seen, NEW entry, IsEntries(seen \cup {entry}), NEW limit \in Nat, NEW heap, Foremost(heap, seen, limit)
  PROVE  Foremost(Offer(heap, entry, limit), seen \cup {entry}, limit)
<1> DEFINE more == heap \cup {entry}
           worst == CHOOSE e \in more : \A f \in more \ {e} : Before(f.key, e.key)
<1>1. /\ heap \subseteq seen /\ IsFiniteSet(heap) /\ Cardinality(heap) <= limit
      /\ heap = seen \/ Cardinality(heap) = limit
      /\ \A e \in heap, f \in seen \ heap : Before(e.key, f.key)
  BY DEF Foremost
<1>2. /\ Cardinality(heap) \in Nat /\ IsFiniteSet(more)
      /\ Cardinality(more) = IF entry \in heap THEN Cardinality(heap) ELSE Cardinality(heap) + 1
  BY <1>1, FS_AddElement, FS_CardinalityType
<1>3. CASE Cardinality(more) <= limit
  <2>1. Offer(heap, entry, limit) = more
    BY <1>2, <1>3 DEF Offer
  <2>2. more = seen \cup {entry} \/ more = heap
    BY <1>1, <1>2, <1>3
  <2>3. CASE more = seen \cup {entry}
    BY <1>2, <1>3, <2>1, <2>3 DEF Foremost
  <2>4. CASE more = heap
    <3>1. seen \cup {entry} = seen
      BY <1>1, <2>4
    <3> QED BY <2>1, <2>4, <3>1
  <2> QED BY <2>2, <2>3, <2>4
<1>4. CASE Cardinality(more) > limit
  <2>1. entry \notin heap /\ Cardinality(heap) = limit /\ Cardinality(more) = limit + 1
    BY <1>1, <1>2, <1>4
  <2>2. IsEntries(more)
    BY <1>1 DEF IsEntries
  <2>3. worst \in more /\ \A f \in more \ {worst} : Before(f.key, worst.key)
    <3>1. \E e \in more : \A f \in more \ {e} : Before(f.key, e.key)
      BY <1>2, <2>2, WorstExists
    <3> HIDE DEF more
    <3> QED BY <3>1
  <2>4. Offer(heap, entry, limit) = more \ {worst}
    BY <1>4 DEF Offer
  <2> HIDE DEF worst
  <2>5. IsFiniteSet(more \ {worst}) /\ Cardinality(more \ {worst}) = limit
    BY <1>2, <2>1, <2>3, FS_RemoveElement
  <2>6. ASSUME NEW e \in more \ {worst}, NEW f \in (seen \cup {entry}) \ (more \ {worst})
        PROVE  Before(e.key, f.key)
    <3>1. CASE f = worst
      BY <2>3, <2>6, <3>1
    <3>2. CASE f # worst /\ e \in heap
      BY <1>1, <2>6, <3>2
    <3>3. CASE f # worst /\ e = entry
      <4>1. worst \in heap /\ f \in seen \ heap
        BY <2>3, <2>6, <3>3
      <4>2. Before(e.key, worst.key) /\ Before(worst.key, f.key)
        BY <1>1, <2>3, <2>6, <4>1
      <4>3. e \in seen \cup {entry} /\ worst \in seen \cup {entry} /\ f \in seen \cup {entry}
        BY <1>1, <2>6, <4>1
      <4> QED BY <4>2, <4>3, EntriesAreOrdered
    <3> QED BY <2>6, <3>1, <3>2, <3>3
  <2>7. more \ {worst} \subseteq seen \cup {entry}
    BY <1>1
  <2> QED BY <2>4, <2>5, <2>6, <2>7 DEF Foremost
<1> QED BY <1>2, <1>3, <1>4

\* The bounded heap holds the best of all that was offered, up to its limit, after every
\* push; and two pushes in either order leave the same heap, so that the winners do not
\* depend on the order in which the groups of a stream are offered.
\* (_WorstFirst and _offer, src/src/workflow/services/semantic_query.py:677-706)
THEOREM HeapKeepsTheBest ==
  ASSUME NEW seen, NEW a, NEW b, IsEntries(seen \cup {a, b}), NEW limit \in Nat, NEW heap, Foremost(heap, seen, limit)
  PROVE  /\ Foremost(Offer(heap, a, limit), seen \cup {a}, limit)
         /\ Offer(Offer(heap, a, limit), b, limit) = Offer(Offer(heap, b, limit), a, limit)
<1>1. IsEntries(seen \cup {a}) /\ IsEntries(seen \cup {b})
  BY DEF IsEntries
<1>2. Foremost(Offer(heap, a, limit), seen \cup {a}, limit) /\ Foremost(Offer(heap, b, limit), seen \cup {b}, limit)
  BY <1>1, OfferKeepsTheBest
<1>3. (seen \cup {a}) \cup {b} = seen \cup {a, b} /\ (seen \cup {b}) \cup {a} = seen \cup {a, b}
  OBVIOUS
<1>4. Foremost(Offer(Offer(heap, a, limit), b, limit), seen \cup {a, b}, limit)
  <2>1. Foremost(Offer(Offer(heap, a, limit), b, limit), (seen \cup {a}) \cup {b}, limit)
    BY <1>2, <1>3, OfferKeepsTheBest
  <2> QED BY <1>3, <2>1
<1>5. Foremost(Offer(Offer(heap, b, limit), a, limit), seen \cup {a, b}, limit)
  <2>1. Foremost(Offer(Offer(heap, b, limit), a, limit), (seen \cup {b}) \cup {a}, limit)
    BY <1>2, <1>3, OfferKeepsTheBest
  <2> QED BY <1>3, <2>1
<1> QED BY <1>2, <1>4, <1>5, OneForemost

\* One entry of every unit seen, the best one.
BestOfUnits(group, seen) ==
  /\ group \subseteq seen
  /\ \A f \in seen : \E e \in group : e.unit = f.unit /\ (e = f \/ Before(e.key, f.key))
  /\ \A e, f \in group : e.unit = f.unit => e = f

\* A document that joins its group leaves the best of each unit (semantic_query.py:709-790).
LEMMA KeepBestKeepsTheBest ==
  ASSUME NEW seen, NEW entry, IsEntries(seen \cup {entry}), NEW group, BestOfUnits(group, seen)
  PROVE  BestOfUnits(KeepBest(group, entry), seen \cup {entry})
<1> DEFINE rivals == {e \in group : e.unit = entry.unit}
<1>1. /\ group \subseteq seen
      /\ \A f \in seen : \E e \in group : e.unit = f.unit /\ (e = f \/ Before(e.key, f.key))
      /\ \A e, f \in group : e.unit = f.unit => e = f
  BY DEF BestOfUnits
<1>2. CASE \A e \in rivals : Before(entry.key, e.key)
  <2> DEFINE new == (group \ rivals) \cup {entry}
  <2>1. KeepBest(group, entry) = new
    BY <1>2 DEF KeepBest
  <2>2. new \subseteq seen \cup {entry}
    BY <1>1
  <2>3. ASSUME NEW f \in seen \cup {entry}
        PROVE  \E e \in new : e.unit = f.unit /\ (e = f \/ Before(e.key, f.key))
    <3>1. CASE f = entry
      BY <3>1
    <3>2. CASE f \in seen /\ f.unit = entry.unit
      <4>1. PICK e \in group : e.unit = f.unit /\ (e = f \/ Before(e.key, f.key))
        BY <1>1, <3>2
      <4>2. Before(entry.key, e.key)
        BY <1>2, <3>2, <4>1
      <4>3. e \in seen \cup {entry}
        BY <1>1, <4>1
      <4>4. Before(entry.key, f.key)
        BY <4>1, <4>2, <4>3, EntriesAreOrdered
      <4> QED BY <3>2, <4>4
    <3>3. CASE f \in seen /\ f.unit # entry.unit
      <4>1. PICK e \in group : e.unit = f.unit /\ (e = f \/ Before(e.key, f.key))
        BY <1>1, <3>3
      <4>2. e \in new
        BY <3>3, <4>1
      <4> QED BY <4>1, <4>2
    <3> QED BY <3>1, <3>2, <3>3
  <2>4. \A e, f \in new : e.unit = f.unit => e = f
    BY <1>1
  <2> HIDE DEF new
  <2> QED BY <2>1, <2>2, <2>3, <2>4 DEF BestOfUnits
<1>3. CASE \E e \in rivals : ~Before(entry.key, e.key)
  <2>1. KeepBest(group, entry) = group
    BY <1>3 DEF KeepBest
  <2>2. PICK e \in rivals : ~Before(entry.key, e.key)
    BY <1>3
  <2>3. e \in group /\ e.unit = entry.unit /\ (e = entry \/ Before(e.key, entry.key))
    BY <1>1, <2>2, EntriesAreOrdered
  <2> QED BY <1>1, <2>1, <2>3 DEF BestOfUnits
<1> QED BY <1>2, <1>3

\* What a group can be is settled by what was seen.
LEMMA OneBestOfUnits ==
  ASSUME NEW seen, IsEntries(seen), NEW group, NEW other, BestOfUnits(group, seen), BestOfUnits(other, seen)
  PROVE  group = other
<1>1. ASSUME NEW g, NEW o, BestOfUnits(g, seen), BestOfUnits(o, seen), NEW e \in g
      PROVE  e \in o
  <2>1. e \in seen
    BY <1>1 DEF BestOfUnits
  <2>2. PICK f \in o : f.unit = e.unit /\ (f = e \/ Before(f.key, e.key))
    BY <1>1, <2>1 DEF BestOfUnits
  <2>3. f \in seen
    BY <1>1, <2>2 DEF BestOfUnits
  <2>4. PICK h \in g : h.unit = f.unit /\ (h = f \/ Before(h.key, f.key))
    BY <1>1, <2>3 DEF BestOfUnits
  <2>5. h = e
    BY <1>1, <2>2, <2>4 DEF BestOfUnits
  <2> QED BY <2>1, <2>2, <2>3, <2>4, <2>5, EntriesAreOrdered
<1> QED BY <1>1

\* A group has for each of its units the best document seen, and two documents in either
\* order leave the same group: one chunk of a recording cannot hide another unit's.
\* (select_semantic_winners and select_semantic_item_winners,
\* src/src/workflow/services/semantic_query.py:709-882)
THEOREM GroupKeepsTheBest ==
  ASSUME NEW seen, NEW a, NEW b, IsEntries(seen \cup {a, b}), NEW group, BestOfUnits(group, seen)
  PROVE  /\ BestOfUnits(KeepBest(group, a), seen \cup {a})
         /\ KeepBest(KeepBest(group, a), b) = KeepBest(KeepBest(group, b), a)
<1>1. IsEntries(seen \cup {a}) /\ IsEntries(seen \cup {b})
  BY DEF IsEntries
<1>2. BestOfUnits(KeepBest(group, a), seen \cup {a}) /\ BestOfUnits(KeepBest(group, b), seen \cup {b})
  BY <1>1, KeepBestKeepsTheBest
<1>3. (seen \cup {a}) \cup {b} = seen \cup {a, b} /\ (seen \cup {b}) \cup {a} = seen \cup {a, b}
  OBVIOUS
<1>4. BestOfUnits(KeepBest(KeepBest(group, a), b), seen \cup {a, b})
  <2>1. BestOfUnits(KeepBest(KeepBest(group, a), b), (seen \cup {a}) \cup {b})
    BY <1>2, <1>3, KeepBestKeepsTheBest
  <2> QED BY <1>3, <2>1
<1>5. BestOfUnits(KeepBest(KeepBest(group, b), a), seen \cup {a, b})
  <2>1. BestOfUnits(KeepBest(KeepBest(group, b), a), (seen \cup {b}) \cup {a})
    BY <1>2, <1>3, KeepBestKeepsTheBest
  <2> QED BY <1>3, <2>1
<1> QED BY <1>2, <1>4, <1>5, OneBestOfUnits

\* The keys of documents are sort keys, whatever they count for: no two are tied.
LEMMA DocumentsAreEntries ==
  ASSUME NEW documents, NEW units,
         \A d \in documents : /\ d.similarity \in Int /\ d.type \in DOMAIN TypeRank
                              /\ d.document \in Int /\ d.recording \in Int,
         \A d, e \in documents : d.document = e.document /\ d.recording = e.recording => d = e
  PROVE  IsEntries({Entry(d, units[d]) : d \in documents})
<1>1. \A d \in documents : Entry(d, units[d]).key = RankKey(d)
  BY DEF Entry
<1>2. \A d \in documents : RankKey(d) \in [1..4 -> Int] /\ RankKey(d)[3] = d.document /\ RankKey(d)[4] = d.recording
  <2> TAKE d \in documents
  <2> DEFINE s == -d.similarity
             t == TypeRank[d.type]
  <2>1. s \in Int /\ t \in Int
    BY DEF TypeRank
  <2> HIDE DEF s, t
  <2>2. /\ <<s, t, d.document, d.recording>> \in [1..4 -> Int]
        /\ <<s, t, d.document, d.recording>>[3] = d.document /\ <<s, t, d.document, d.recording>>[4] = d.recording
    BY <2>1
  <2> QED BY <2>2 DEF RankKey, s, t
<1>3. ASSUME NEW d \in documents, NEW e \in documents, Entry(d, units[d]).key = Entry(e, units[e]).key
      PROVE  d = e
  BY <1>1, <1>2, <1>3
<1>4. \A x \in {Entry(d, units[d]) : d \in documents} : \E d \in documents : x = Entry(d, units[d])
  OBVIOUS
<1> QED BY <1>1, <1>2, <1>3, <1>4 DEF IsEntries

-----------------------------------------------------------------------------
(* The bounded selection of the keyword engine *)

\* The rows that match: documents of a known type, each once.
IsRows(rows) ==
  /\ IsFiniteSet(rows)
  /\ \A row \in rows : row.document \in Int /\ row.type \in DOMAIN TypeRank
  /\ \A r, s \in rows : r.document = s.document => r = s

\* The order of `_select_candidates' within a unit.
RowBefore(r, s) == Before(<<TypeRank[r.type], r.document>>, <<TypeRank[s.type], s.document>>)

\* Rows are ordered by type and document, which numbers them in a unit, and by document.
LEMMA RowsAreOrdered ==
  ASSUME NEW rows, IsRows(rows)
  PROVE  /\ OrdersTotally({ss \in rows \X rows : RowBefore(ss[1], ss[2])}, rows)
         /\ OrdersTotally({ss \in rows \X rows : ss[1].document < ss[2].document}, rows)
<1> DEFINE Key(r) == <<TypeRank[r.type], r.document>>
           R == {ss \in rows \X rows : RowBefore(ss[1], ss[2])}
           D == {ss \in rows \X rows : ss[1].document < ss[2].document}
<1>1. \A r \in rows : Key(r) \in [1..2 -> Int] /\ Key(r)[2] = r.document
  <2> TAKE r \in rows
  <2>1. TypeRank[r.type] \in Int /\ r.document \in Int
    BY DEF IsRows, TypeRank
  <2> QED BY <2>1
<1>2. \A r, s \in rows : r # s => Key(r) # Key(s)
  <2> HIDE DEF Key
  <2> QED BY <1>1 DEF IsRows
<1>3. \A r, s \in rows : <<r, s>> \in R <=> Before(Key(r), Key(s))
  BY DEF RowBefore
<1>4. \A r, s \in rows : <<r, s>> \in D <=> r.document < s.document
  OBVIOUS
<1> HIDE DEF R, D, Key
<1>5. OrdersTotally(R, rows)
  <2>1. ASSUME NEW r \in rows, NEW s \in rows, NEW t \in rows
        PROVE  /\ ~Before(Key(r), Key(r))
               /\ Before(Key(r), Key(s)) /\ Before(Key(s), Key(t)) => Before(Key(r), Key(t))
               /\ Key(r) # Key(s) => Before(Key(r), Key(s)) \/ Before(Key(s), Key(r))
    <3>1. 2 \in Nat /\ Key(r) \in [1..2 -> Int] /\ Key(s) \in [1..2 -> Int] /\ Key(t) \in [1..2 -> Int]
      BY <1>1
    <3> QED BY <3>1, BeforeIsAnOrder
  <2> QED BY <1>2, <1>3, <2>1 DEF OrdersTotally
<1>6. OrdersTotally(D, rows)
  <2>1. \A r \in rows : r.document \in Int
    BY DEF IsRows
  <2>2. \A r, s \in rows : r # s => r.document # s.document
    BY DEF IsRows
  <2>3. \A x, y \in Int : x < y \/ x = y \/ y < x
    OBVIOUS
  <2>4. \A x, y, z \in Int : ~(x < x) /\ (x < y /\ y < z => x < z)
    OBVIOUS
  <2> QED BY <1>4, <2>1, <2>2, <2>3, <2>4 DEF OrdersTotally
<1> QED BY <1>5, <1>6 DEF R, D

\* What orders a set orders its subsets.
LEMMA SubsetIsOrdered ==
  ASSUME NEW S, NEW R, OrdersTotally(R, S), NEW T, T \subseteq S
  PROVE  OrdersTotally(R, T)
BY DEF OrdersTotally

\* In every unit the rows are numbered from 1 to as many as there are.
LEMMA UnitsAreNumbered ==
  ASSUME NEW rows, IsRows(rows), NEW row \in rows
  PROVE  LET unit == {r \in rows : r.unit = row.unit}
         IN /\ IsFiniteSet(unit) /\ Cardinality(unit) \in Nat
            /\ RowNumber(row, rows) \in 1..Cardinality(unit)
            /\ \E r \in unit : RowNumber(r, rows) = 1
            /\ \E r \in unit : RowNumber(r, rows) = Cardinality(unit)
<1> DEFINE unit == {r \in rows : r.unit = row.unit}
           R == {ss \in rows \X rows : RowBefore(ss[1], ss[2])}
           Ahead(x) == {r \in rows : r.unit = x.unit /\ RowBefore(r, x)}
<1>1. \A r, s \in rows : <<r, s>> \in R <=> RowBefore(r, s)
  OBVIOUS
<1>2. IsFiniteSet(rows) /\ unit \subseteq rows /\ row \in unit
  BY DEF IsRows
<1>3. IsFiniteSet(unit) /\ Cardinality(unit) \in Nat
  BY <1>2, FS_Subset, FS_CardinalityType
<1>4. OrdersTotally(R, unit)
  BY <1>2, RowsAreOrdered, SubsetIsOrdered
<1>5. \A x \in unit : Ahead(x) = {r \in unit : <<r, x>> \in R}
  BY <1>1
<1>6. \A x : RowNumber(x, rows) = 1 + Cardinality(Ahead(x))
  BY DEF RowNumber, RowBefore
<1> HIDE DEF R, unit, Ahead
<1>7. RowNumber(row, rows) \in 1..Cardinality(unit)
  <2>1. Ahead(row) \subseteq unit \ {row}
    BY <1>2, <1>4, <1>5 DEF OrdersTotally
  <2>2. IsFiniteSet(unit \ {row}) /\ Cardinality(unit \ {row}) = Cardinality(unit) - 1
    BY <1>2, <1>3, FS_RemoveElement
  <2>3. IsFiniteSet(Ahead(row)) /\ Cardinality(Ahead(row)) <= Cardinality(unit) - 1
    BY <2>1, <2>2, FS_Subset
  <2>4. Cardinality(Ahead(row)) \in Nat
    BY <2>3, FS_CardinalityType
  <2> QED BY <1>3, <1>6, <2>3, <2>4
<1>8. \E r \in unit : RowNumber(r, rows) = 1
  <2>1. PICK x \in unit : \A y \in unit \ {x} : <<x, y>> \in R
    BY <1>2, <1>3, <1>4, FirstExists
  <2>2. Ahead(x) = {}
    BY <1>4, <1>5, <2>1 DEF OrdersTotally
  <2> QED BY <1>6, <2>1, <2>2, FS_EmptySet
<1>9. \E r \in unit : RowNumber(r, rows) = Cardinality(unit)
  <2>1. PICK x \in unit : \A y \in unit \ {x} : <<y, x>> \in R
    BY <1>2, <1>3, <1>4, LastExists
  <2>2. Ahead(x) = unit \ {x}
    <3>1. <<x, x>> \notin R
      BY <1>4, <2>1 DEF OrdersTotally
    <3> QED BY <1>5, <2>1, <3>1
  <2>3. Cardinality(unit \ {x}) = Cardinality(unit) - 1
    BY <1>3, <2>1, FS_RemoveElement
  <2> QED BY <1>3, <1>6, <2>1, <2>2, <2>3
<1> QED BY <1>3, <1>7, <1>8, <1>9 DEF unit

\* The first n rows in the order of their documents.
FirstRows(rows, n) == {row \in rows : Cardinality({r \in rows : r.document <= row.document}) <= n}

\* The first n rows are at most n: all of no more, and some of any.
LEMMA FirstRowsAreFew ==
  ASSUME NEW rows, IsRows(rows), NEW n \in Nat
  PROVE  /\ FirstRows(rows, n) \subseteq rows
         /\ Cardinality(FirstRows(rows, n)) <= n
         /\ Cardinality(rows) <= n => FirstRows(rows, n) = rows
         /\ n >= 1 /\ rows # {} => FirstRows(rows, n) # {}
<1> DEFINE first == FirstRows(rows, n)
           UpTo(x) == {r \in rows : r.document <= x.document}
           D == {ss \in rows \X rows : ss[1].document < ss[2].document}
<1>1. IsFiniteSet(rows) /\ first \subseteq rows /\ \A r \in rows : r.document \in Int
  BY DEF IsRows, FirstRows
<1>2. \A r, s \in rows : <<r, s>> \in D <=> r.document < s.document
  OBVIOUS
<1>3. OrdersTotally(D, rows) /\ OrdersTotally(D, first)
  BY <1>1, RowsAreOrdered, SubsetIsOrdered
<1>4. IsFiniteSet(first) /\ Cardinality(first) \in Nat
  BY <1>1, FS_Subset, FS_CardinalityType
<1>5. \A x \in rows : x \in first <=> Cardinality(UpTo(x)) <= n
  BY DEF FirstRows
<1>6. \A x : UpTo(x) \in SUBSET rows
  OBVIOUS
<1>7. \A x : IsFiniteSet(UpTo(x)) /\ Cardinality(UpTo(x)) <= Cardinality(rows) /\ Cardinality(UpTo(x)) \in Nat
  BY <1>1, <1>6, FS_Subset, FS_CardinalityType
<1> HIDE DEF D, first
<1>8. Cardinality(first) <= n
  <2>1. CASE first = {}
    BY <2>1, FS_EmptySet
  <2>2. CASE first # {}
    <3>1. PICK x \in first : \A y \in first \ {x} : <<y, x>> \in D
      BY <1>3, <1>4, <2>2, LastExists
    <3>2. \A y \in first : y.document <= x.document
      <4> TAKE y \in first
      <4>1. x.document \in Int /\ y.document \in Int /\ x \in rows /\ y \in rows
        BY <1>1
      <4>2. CASE y = x
        BY <4>1, <4>2
      <4>3. CASE y # x
        <5>1. y.document < x.document
          BY <1>2, <3>1, <4>1, <4>3
        <5> QED BY <4>1, <5>1
      <4> QED BY <4>2, <4>3
    <3>3. first \in SUBSET UpTo(x)
      BY <1>1, <3>2
    <3> HIDE DEF UpTo
    <3>4. Cardinality(first) <= Cardinality(UpTo(x)) /\ Cardinality(UpTo(x)) <= n
      BY <1>1, <1>5, <1>7, <3>1, <3>3, FS_Subset
    <3> QED BY <1>4, <1>7, <3>4
  <2> QED BY <2>1, <2>2
<1>9. Cardinality(rows) <= n => first = rows
  <2> HIDE DEF UpTo
  <2>1. Cardinality(rows) \in Nat
    BY <1>1, FS_CardinalityType
  <2>2. Cardinality(rows) <= n => \A x \in rows : Cardinality(UpTo(x)) <= n
    BY <1>7, <2>1
  <2> QED BY <1>1, <1>5, <2>2
<1>10. n >= 1 /\ rows # {} => first # {}
  <2> SUFFICES ASSUME n >= 1, rows # {} PROVE first # {}
    OBVIOUS
  <2>1. PICK x \in rows : \A y \in rows \ {x} : <<x, y>> \in D
    BY <1>1, <1>3, FirstExists
  <2>2. \A y \in rows : y.document <= x.document => y = x
    <3> TAKE y \in rows
    <3>1. x.document \in Int /\ y.document \in Int
      BY <1>1
    <3>2. y # x => x.document < y.document
      BY <1>2, <2>1
    <3> QED BY <3>1, <3>2
  <2>3. UpTo(x) = {x}
    <3>1. x.document <= x.document
      BY <1>1
    <3> QED BY <2>2, <3>1
  <2>4. Cardinality(UpTo(x)) = 1
    BY <2>3, FS_Singleton
  <2> HIDE DEF UpTo
  <2> QED BY <1>5, <2>4
<1> QED BY <1>1, <1>8, <1>9, <1>10 DEF first

\* The keyword engine reports a truncation exactly when it left a row out, for whatever
\* bounds of the rows of a unit and of the rows in all; and it scores no more than it may.
\* (_select_candidates, src/src/workflow/services/search_query.py:818-887)
THEOREM TruncationIsReported ==
  ASSUME NEW rows, IsRows(rows), NEW perUnit \in Nat \ {0}, NEW maxScored \in Nat \ {0}
  PROVE  LET selected == SelectCandidates(rows, perUnit, maxScored)
         IN /\ selected.truncated <=> selected.candidates # rows
            /\ selected.candidates \subseteq rows /\ Cardinality(selected.candidates) <= maxScored
<1> DEFINE kept == {row \in rows : RowNumber(row, rows) <= perUnit}
           candidates == FirstRows(kept, maxScored)
           fetched == FirstRows(kept, maxScored + 1)
           Unit(row) == {r \in rows : r.unit = row.unit}
           overfull == \E row \in fetched : Cardinality(Unit(row)) > perUnit
<1>1. SelectCandidates(rows, perUnit, maxScored).candidates = candidates
  BY DEF SelectCandidates, FirstRows
<1>2. SelectCandidates(rows, perUnit, maxScored).truncated
        <=> (fetched # {} /\ Cardinality(rows) > maxScored) \/ overfull
  BY DEF SelectCandidates, FirstRows
<1>3. IsFiniteSet(rows) /\ Cardinality(rows) \in Nat /\ kept \in SUBSET rows /\ kept \subseteq rows
  BY FS_CardinalityType DEF IsRows
<1>4. /\ IsRows(kept) /\ Cardinality(kept) \in Nat /\ Cardinality(kept) <= Cardinality(rows)
      /\ IsFiniteSet(kept)
  <2>1. IsFiniteSet(kept) /\ Cardinality(kept) <= Cardinality(rows)
    BY <1>3, FS_Subset
  <2>2. Cardinality(kept) \in Nat
    BY <2>1, FS_CardinalityType
  <2>3. IsRows(kept)
    BY <1>3, <2>1 DEF IsRows
  <2> QED BY <2>1, <2>2, <2>3
<1>5. \A row \in rows : /\ RowNumber(row, rows) \in 1..Cardinality(Unit(row))
                        /\ \E r \in Unit(row) : RowNumber(r, rows) = 1
                        /\ \E r \in Unit(row) : RowNumber(r, rows) = Cardinality(Unit(row))
                        /\ Cardinality(Unit(row)) \in Nat
  BY UnitsAreNumbered
<1>6. \A row \in rows : row \in kept <=> RowNumber(row, rows) <= perUnit
  OBVIOUS
<1>7. \A row \in rows : \A r \in Unit(row) : r \in rows /\ r.unit = row.unit /\ Unit(r) = Unit(row)
  OBVIOUS
<1> HIDE DEF kept, Unit
<1>8. \A row \in rows : \E r \in Unit(row) : r \in kept
  BY <1>5, <1>6, <1>7
<1>9. /\ candidates \subseteq kept /\ fetched \subseteq kept /\ Cardinality(candidates) <= maxScored
      /\ Cardinality(kept) <= maxScored => candidates = kept /\ fetched = kept
      /\ kept # {} => fetched # {}
  BY <1>4, FirstRowsAreFew
<1>10. candidates \subseteq rows /\ IsFiniteSet(candidates) /\ Cardinality(candidates) \in Nat
  BY <1>3, <1>4, <1>9, FS_Subset, FS_CardinalityType
<1> HIDE DEF candidates, fetched
<1>11. CASE Cardinality(rows) > maxScored
  <2>1. candidates # rows
    BY <1>3, <1>9, <1>10, <1>11
  <2>2. rows # {}
    BY <1>11, FS_EmptySet
  <2>3. fetched # {}
    BY <1>8, <1>9, <2>2
  <2> QED BY <1>1, <1>2, <1>9, <1>10, <1>11, <2>1, <2>3
<1>12. CASE Cardinality(rows) <= maxScored
  <2>1. candidates = kept /\ fetched = kept
    BY <1>3, <1>4, <1>9, <1>12
  <2>2. overfull => kept # rows
    BY <1>3, <1>5, <1>6, <1>7, <2>1
  <2>3. kept # rows => overfull
    <3> SUFFICES ASSUME kept # rows PROVE overfull
      OBVIOUS
    <3>1. PICK row \in rows : row \notin kept
      BY <1>3
    <3>2. PICK r \in Unit(row) : r \in kept
      BY <1>8
    <3>3. Cardinality(Unit(row)) > perUnit
      BY <1>5, <1>6, <3>1
    <3> QED BY <1>7, <2>1, <3>2, <3>3
  <2> HIDE DEF overfull
  <2>4. ~(Cardinality(rows) > maxScored)
    BY <1>3, <1>12
  <2> QED BY <1>1, <1>2, <1>9, <1>10, <2>1, <2>2, <2>3, <2>4
<1> QED BY <1>3, <1>11, <1>12

-----------------------------------------------------------------------------
(* Sections and the segments in them *)

\* What no element exceeds is the maximum.
LEMMA GreatestIsMax ==
  ASSUME NEW S, S \subseteq Int, NEW x \in S, \A y \in S : y <= x
  PROVE  Max(S) = x
<1>1. \A y \in S : (\A z \in S : y >= z) => y = x
  OBVIOUS
<1>2. \A y \in S : x >= y
  OBVIOUS
<1> QED BY <1>1, <1>2 DEF Max

\* Finitely many numbers have one.
LEMMA MaxOfFinite ==
  ASSUME NEW S, S \subseteq Int, IsFiniteSet(S), S # {}
  PROVE  Max(S) \in S /\ Max(S) \in Int /\ \A y \in S : y <= Max(S)
<1> DEFINE R == {ss \in S \X S : ss[1] < ss[2]}
<1>1. \A x, y \in S : <<x, y>> \in R <=> x < y
  OBVIOUS
<1> HIDE DEF R
<1>2. OrdersTotally(R, S)
  <2>1. \A x, y, z \in Int : ~(x < x) /\ (x < y /\ y < z => x < z) /\ (x < y \/ x = y \/ y < x)
    OBVIOUS
  <2> QED BY <1>1, <2>1 DEF OrdersTotally
<1>3. PICK x \in S : \A y \in S \ {x} : <<y, x>> \in R
  BY <1>2, LastExists
<1>4. \A y \in S : y <= x
  <2> TAKE y \in S
  <2>1. y = x \/ y < x
    BY <1>1, <1>3
  <2> QED BY <2>1
<1>5. Max(S) = x
  BY <1>4, GreatestIsMax
<1> QED BY <1>4, <1>5

\* A stored section.
IsSection(row) ==
  /\ row.ordinal \in Int /\ row.start \in Int /\ row.end \in Int /\ row.temporary \in BOOLEAN

\* The rows of a version: sections of which no two have one ordinal
\* (uniq_section_ordinal_topic).
IsSections(rows) ==
  /\ IsFiniteSet(rows)
  /\ \A row \in rows : IsSection(row)
  /\ \A a, b \in rows : a.ordinal = b.ordinal => a = b

\* The version and the transcript are active.
Both == [version |-> TRUE, transcript |-> TRUE]
Covering(sections, ordinal) == {s \in sections : s.start <= ordinal /\ ordinal < s.end}
Lower(rows, row) == {r \in rows : r.ordinal < row.ordinal}
Ends(rows) == {row.end : row \in rows}

\* The ends of sections are finitely many numbers, some if there are sections.
LEMMA EndsAreFinite ==
  ASSUME NEW rows, IsSections(rows), NEW T, T \subseteq rows
  PROVE  IsFiniteSet(T) /\ IsFiniteSet(Ends(T)) /\ Ends(T) \subseteq Int /\ (T # {} => Ends(T) # {})
<1>1. IsFiniteSet(T)
  BY FS_Subset DEF IsSections
<1>2. IsFiniteSet(Ends(T))
  <2> DEFINE f == [row \in T |-> row.end]
  <2>1. f \in Surjection(T, Ends(T))
    BY DEF Surjection, Ends
  <2> QED BY <1>1, <2>1, FS_Surjection
<1>3. Ends(T) \subseteq Int /\ (T # {} => Ends(T) # {})
  BY DEF IsSections, IsSection, Ends
<1> QED BY <1>1, <1>2, <1>3

\* What the predicate says of a row, by the rows below it.
LEMMA BelievedRow ==
  ASSUME NEW version, NEW transcript, NEW ordinals, NEW rows, IsSections(rows), version.start \in Int,
         canonical_layout_predicate(version, transcript, Both, ordinals, rows), NEW row \in rows
  PROVE  /\ row.start < row.end
         /\ Lower(rows, row) = {} => row.start = version.start
         /\ Lower(rows, row) # {} => \E r \in Lower(rows, row) : row.start = r.end
         /\ \A r \in Lower(rows, row) : r.end <= row.start
<1> DEFINE lower == Lower(rows, row)
<1>1. /\ ~(row.end <= row.start)
      /\ row.start = IF lower = {} THEN version.start ELSE Max(Ends(lower))
  BY DEF canonical_layout_predicate, Lower, Ends
<1>2. row.start \in Int /\ row.end \in Int /\ lower \subseteq rows
  BY DEF IsSections, IsSection, Lower
<1>3. CASE lower = {}
  BY <1>1, <1>2, <1>3
<1>4. CASE lower # {}
  <2>1. IsFiniteSet(Ends(lower)) /\ Ends(lower) \subseteq Int /\ Ends(lower) # {}
    BY <1>2, <1>4, EndsAreFinite
  <2>2. row.start \in Ends(lower) /\ \A e \in Ends(lower) : e <= row.start
    BY <1>1, <1>4, <2>1, MaxOfFinite
  <2>3. \E r \in lower : row.start = r.end
    BY <2>2 DEF Ends
  <2>4. \A r \in lower : r.end <= row.start
    BY <2>2 DEF Ends
  <2> QED BY <1>1, <1>2, <1>4, <2>3, <2>4
<1> QED BY <1>3, <1>4

\* The sections of a layout that the SQL believes partition its range: every position of
\* it is in exactly one, every other in none (canonical_layout_predicate,
\* src/src/workflow/services/segmentation.py:407-485).
LEMMA SectionsPartitionTheRange ==
  ASSUME NEW version, NEW transcript, NEW ordinals, NEW rows, IsSections(rows),
         version.start \in Int, version.end \in Int,
         canonical_layout_predicate(version, transcript, Both, ordinals, rows), NEW n \in Int
  PROVE  IF version.start <= n /\ n < version.end THEN \E row \in rows : Covering(rows, n) = {row}
         ELSE Covering(rows, n) = {}
<1> DEFINE R == {ss \in rows \X rows : ss[1].ordinal < ss[2].ordinal}
<1>1. \A a, b \in rows : <<a, b>> \in R <=> a.ordinal < b.ordinal
  OBVIOUS
<1>2. \A row \in rows : row.ordinal \in Int /\ row.start \in Int /\ row.end \in Int
  BY DEF IsSections, IsSection
<1> HIDE DEF R
<1>3. OrdersTotally(R, rows)
  <2>1. \A x, y, z \in Int : ~(x < x) /\ (x < y /\ y < z => x < z) /\ (x < y \/ x = y \/ y < x)
    OBVIOUS
  <2>2. \A a, b \in rows : a # b => a.ordinal # b.ordinal
    BY DEF IsSections
  <2> QED BY <1>1, <1>2, <2>1, <2>2 DEF OrdersTotally
<1>4. \A row \in rows :
        /\ row.start < row.end
        /\ Lower(rows, row) = {} => row.start = version.start
        /\ Lower(rows, row) # {} => \E r \in Lower(rows, row) : row.start = r.end
        /\ \A r \in Lower(rows, row) : r.end <= row.start
  BY BelievedRow
<1>5. /\ IsFiniteSet(rows) /\ rows # {}
      /\ Max(Ends(rows)) = version.end
  <2>1. IsFiniteSet(rows) /\ Cardinality(rows) >= 2 /\ Max(Ends(rows)) = version.end
    BY DEF IsSections, canonical_layout_predicate, Ends
  <2>2. rows # {}
    BY <2>1, FS_EmptySet
  <2> QED BY <2>1, <2>2
<1>6. version.end \in Ends(rows) /\ \A row \in rows : row.end <= version.end
  <2>1. IsFiniteSet(Ends(rows)) /\ Ends(rows) \subseteq Int /\ Ends(rows) # {}
    BY <1>5, EndsAreFinite
  <2>2. version.end \in Ends(rows) /\ \A e \in Ends(rows) : e <= version.end
    BY <1>5, <2>1, MaxOfFinite
  <2> QED BY <2>2 DEF Ends
<1>7. \A row \in rows : version.start <= row.start
  <2>1. PICK first \in rows : \A b \in rows \ {first} : <<first, b>> \in R
    BY <1>3, <1>5, FirstExists
  <2>2. Lower(rows, first) = {}
    BY <1>1, <1>3, <2>1 DEF Lower, OrdersTotally
  <2>3. first.start = version.start /\ first.start < first.end
    BY <1>4, <2>2
  <2> TAKE row \in rows
  <2>4. CASE row = first
    BY <1>2, <2>3, <2>4
  <2>5. CASE row # first
    <3>1. first \in Lower(rows, row)
      BY <1>1, <2>1, <2>5 DEF Lower
    <3>2. first.end <= row.start
      BY <1>4, <3>1
    <3> QED BY <1>2, <2>3, <3>2
  <2> QED BY <2>4, <2>5
<1>8. \A a, b \in rows : a.ordinal < b.ordinal => a.end <= b.start
  BY <1>4 DEF Lower
<1>9. ASSUME NEW a \in Covering(rows, n), NEW b \in Covering(rows, n)
      PROVE  a = b
  <2>1. /\ a \in rows /\ a.start <= n /\ n < a.end
        /\ b \in rows /\ b.start <= n /\ n < b.end
    BY DEF Covering
  <2>2. a.ordinal < b.ordinal \/ b.ordinal < a.ordinal \/ a.ordinal = b.ordinal
    BY <1>2, <2>1
  <2>3. ~(a.ordinal < b.ordinal) /\ ~(b.ordinal < a.ordinal)
    BY <1>2, <1>8, <2>1
  <2> QED BY <2>1, <2>2, <2>3 DEF IsSections
<1>10. CASE version.start <= n /\ n < version.end
  <2> DEFINE T == {row \in rows : n < row.end}
  <2>1. T # {} /\ T \subseteq rows /\ IsFiniteSet(T)
    <3>1. T # {}
      <4>1. PICK row \in rows : version.end = row.end
        BY <1>6 DEF Ends
      <4> QED BY <1>10, <4>1
    <3>2. T \in SUBSET rows
      OBVIOUS
    <3> HIDE DEF T
    <3>3. IsFiniteSet(T)
      BY <1>5, <3>2, FS_Subset
    <3> QED BY <3>1, <3>2, <3>3
  <2>2. PICK x \in T : \A y \in T \ {x} : <<x, y>> \in R
    <3> HIDE DEF T
    <3>1. OrdersTotally(R, T)
      BY <1>3, <2>1, SubsetIsOrdered
    <3> QED BY <2>1, <3>1, FirstExists
  <2>3. x.start <= n
    <3>1. CASE Lower(rows, x) = {}
      BY <1>4, <1>10, <2>1, <2>2, <3>1
    <3>2. CASE Lower(rows, x) # {}
      <4>1. PICK r \in Lower(rows, x) : x.start = r.end
        BY <1>4, <2>1, <2>2, <3>2
      <4>2. r \in rows /\ r.ordinal < x.ordinal
        BY <4>1 DEF Lower
      <4>3. ~(x.ordinal < r.ordinal) /\ r # x
        BY <1>2, <2>1, <4>2
      <4>4. r \notin T
        BY <1>1, <2>1, <2>2, <4>2, <4>3
      <4>5. ~(n < r.end)
        BY <4>2, <4>4
      <4> QED BY <1>2, <4>1, <4>2, <4>5
    <3> QED BY <3>1, <3>2
  <2>4. x \in Covering(rows, n)
    BY <2>3 DEF Covering
  <2>5. Covering(rows, n) = {x}
    BY <1>9, <2>4
  <2> QED BY <1>10, <2>1, <2>5
<1>11. CASE ~(version.start <= n /\ n < version.end)
  <2> SUFFICES ASSUME NEW row \in Covering(rows, n) PROVE FALSE
    BY <1>11
  <2>1. row \in rows /\ row.start <= n /\ n < row.end
    BY DEF Covering
  <2>2. version.start <= row.start /\ row.end <= version.end
    BY <1>6, <1>7, <2>1
  <2> QED BY <1>2, <1>11, <2>1, <2>2
<1> QED BY <1>10, <1>11

\* A document that is a segment of the active transcript.
IsSegment(d) == d.type = "segment" /\ d.current = TRUE /\ d.ordinal \in Int

\* Without filters the library lists a section exactly if it is not archived.
LEMMA WithoutFilters ==
  ASSUME NEW r, r.archived = FALSE, r.split = TRUE, NEW s \in r.sections, s.archived \in BOOLEAN,
         \A a, b \in r.sections : a.id = b.id => a = b
  PROVE  SectionItem(s) \in library_items({r}, NoFilters) <=> ~s.archived
<1>1. \A x : section_filter_only(x, r, NoFilters)
  <2>1. InDates(r, NoFilters)
    BY DEF InDates, NoFilters
  <2>2. \A tags : TagsMatch(tags, NoFilters)
    <3>1. Range(NoFilters.tags) = {}
      BY DEF Range, NoFilters
    <3> QED BY <3>1 DEF TagsMatch, NoFilters
  <2> QED BY <2>1, <2>2 DEF section_filter_only, NoFilters
<1>2. \A x : x \in section_base(r, FALSE) <=> x \in r.sections /\ ~x.archived
  BY DEF section_base
<1>3. \A x : RecordingItem(x) # SectionItem(s)
  BY DEF RecordingItem, SectionItem
<1>4. \A x \in r.sections : SectionItem(x) = SectionItem(s) => x = s
  BY DEF SectionItem
<1>5. SectionItem(s) \in library_items({r}, NoFilters)
        <=> \E x \in section_base(r, FALSE) : section_filter_only(x, r, NoFilters) /\ SectionItem(s) = SectionItem(x)
  <2> DEFINE listed == {x \in section_base(r, FALSE) : section_filter_only(x, r, NoFilters)}
             whole == {RecordingItem(x) : x \in {y \in {r} : filter_only(y, NoFilters) /\ ~ y.split}}
             parts == {{SectionItem(x) : x \in {z \in section_base(y, FALSE) : section_filter_only(z, y, NoFilters)}} :
                         y \in {r}}
  <2>1. library_items({r}, NoFilters) = whole \cup UNION parts
    BY DEF library_items
  <2>2. SectionItem(s) \notin whole
    BY <1>3
  <2>3. UNION parts = {SectionItem(x) : x \in listed}
    <3>1. parts = {{SectionItem(x) : x \in listed}}
      OBVIOUS
    <3> QED BY <3>1
  <2>4. SectionItem(s) \in {SectionItem(x) : x \in listed}
          <=> \E x \in section_base(r, FALSE) : section_filter_only(x, r, NoFilters) /\ SectionItem(s) = SectionItem(x)
    OBVIOUS
  <2> HIDE DEF listed, whole, parts
  <2> QED BY <2>1, <2>2, <2>3, <2>4
<1> QED BY <1>1, <1>2, <1>4, <1>5

\* Whatever rows are stored, if the SQL believes them then a segment of the working range
\* is in exactly one section, and a search for it finds that section's item, or nothing
\* if the section is archived; a segment outside of the range is found nowhere.
\* (canonical_layout_predicate, src/src/workflow/services/segmentation.py:407-485, and the
\* items of the search, src/src/workflow/services/search_query.py:686-728)
THEOREM SegmentsAreFoundOnce ==
  ASSUME NEW version, NEW transcript, NEW ordinals, NEW rows, IsSections(rows),
         version.start \in Int, version.end \in Int,
         canonical_layout_predicate(version, transcript, Both, ordinals, rows),
         NEW r, r.archived = FALSE, r.split = TRUE,
         NEW section, r.sections = {section[row] : row \in rows},
         \A row \in rows : /\ section[row].start = row.start /\ section[row].end = row.end
                           /\ section[row].archived \in BOOLEAN,
         \A a, b \in rows : section[a].id = section[b].id => a = b,
         NEW d, IsSegment(d)
  PROVE  LET covering == Covering(r.sections, d.ordinal)
             found == FoundItems({d}, r, NoFilters)
         IN IF version.start <= d.ordinal /\ d.ordinal < version.end
            THEN \E s \in r.sections : covering = {s} /\ found = IF s.archived THEN {} ELSE {SectionItem(s)}
            ELSE covering = {} /\ found = {}
<1> DEFINE n == d.ordinal
           covering == Covering(r.sections, n)
           found == FoundItems({d}, r, NoFilters)
           within == version.start <= n /\ n < version.end
<1>1. n \in Int /\ d.type = "segment" /\ d.current
  BY DEF IsSegment
<1>2. IF within THEN \E row \in rows : Covering(rows, n) = {row} ELSE Covering(rows, n) = {}
  BY <1>1, SectionsPartitionTheRange
<1>3. covering = {section[row] : row \in Covering(rows, n)}
  BY DEF Covering
<1>4. \A a, b \in r.sections : a.id = b.id => a = b
  OBVIOUS
<1>5. _item_key_case(d, r) = IF covering = {} THEN Unowned ELSE SectionItem(CHOOSE s \in covering : TRUE)
  BY <1>1 DEF _item_key_case, Covering
<1>6. found = {_item_key_case(d, r)} \cap library_items({r}, NoFilters)
  BY DEF FoundItems
<1> HIDE DEF covering, found, n
<1>7. CASE within
  <2>1. PICK row \in rows : Covering(rows, n) = {row}
    BY <1>2, <1>7
  <2> DEFINE s == section[row]
  <2>2. covering = {s} /\ s \in r.sections /\ s.archived \in BOOLEAN
    BY <1>3, <2>1
  <2>3. _item_key_case(d, r) = SectionItem(s)
    BY <1>5, <2>2
  <2>4. SectionItem(s) \in library_items({r}, NoFilters) <=> ~s.archived
    BY <1>4, <2>2, WithoutFilters
  <2> HIDE DEF s
  <2>5. found = IF s.archived THEN {} ELSE {SectionItem(s)}
    BY <1>6, <2>3, <2>4
  <2> QED BY <1>7, <2>2, <2>5 DEF covering, found, n
<1>8. CASE ~within
  <2>1. covering = {}
    BY <1>2, <1>3, <1>8
  <2>2. _item_key_case(d, r) = Unowned
    BY <1>5, <2>1
  <2>3. Unowned \notin library_items({r}, NoFilters)
    BY DEF library_items, Unowned, RecordingItem, SectionItem
  <2>4. found = {}
    BY <1>6, <2>2, <2>3
  <2> QED BY <1>8, <2>1, <2>4 DEF covering, found, n
<1> QED BY <1>7, <1>8

-----------------------------------------------------------------------------
(* The two readers of a layout *)

\* The rows of a version as they are read, in the order of their ordinals.
IsRead(rows, n) ==
  /\ rows \in Seq(Range(rows)) /\ Len(rows) = n
  /\ \A i \in 1..n : IsSection(rows[i])
  /\ \A i, j \in 1..n : i < j => rows[i].ordinal < rows[j].ordinal

\* Rows that end one after another.
Rising(rows, n) == \A i, j \in 1..n : j < i => rows[j].end < rows[i].end
\* The rows as a set, and the first m of them.
RowsOf(rows) == {rows[i] : i \in DOMAIN rows}
RowsTo(rows, m) == {rows[j] : j \in 1..m}

\* Rows read in the order of their ordinals are as many as there are, and those below
\* the i-th are the ones read before it.
LEMMA ReadRows ==
  ASSUME NEW n \in Nat, NEW rows, IsRead(rows, n)
  PROVE  /\ DOMAIN rows = 1..n
         /\ IsSections(RowsOf(rows)) /\ Cardinality(RowsOf(rows)) = n
         /\ \A i \in 1..n : /\ Lower(RowsOf(rows), rows[i]) = RowsTo(rows, i - 1)
                            /\ Cardinality(Lower(RowsOf(rows), rows[i])) = i - 1
<1>1. DOMAIN rows = 1..n
  BY DEF IsRead
<1>2. \A i, j \in 1..n : rows[i].ordinal = rows[j].ordinal => i = j
  <2> TAKE i, j \in 1..n
  <2>1. rows[i].ordinal \in Int /\ rows[j].ordinal \in Int
    BY DEF IsRead, IsSection
  <2>2. i < j \/ j < i \/ i = j
    OBVIOUS
  <2> QED BY <2>1, <2>2 DEF IsRead
<1>3. ASSUME NEW m \in 0..n
      PROVE  IsFiniteSet(RowsTo(rows, m)) /\ Cardinality(RowsTo(rows, m)) = m
  <2> DEFINE S == RowsTo(rows, m)
             f == [j \in 1..m |-> rows[j]]
  <2>1. f \in Bijection(1..m, S)
    <3>1. f \in [1..m -> S] /\ \A i \in 1..m : f[i] = rows[i]
      BY DEF RowsTo
    <3>2. \A i, j \in 1..m : f[i] = f[j] => i = j
      BY <1>2, <3>1
    <3>3. \A x \in S : \E i \in 1..m : f[i] = x
      BY <3>1 DEF RowsTo
    <3> HIDE DEF f, S
    <3> QED BY <3>1, <3>2, <3>3 DEF Bijection, Injection, Surjection, IsInjective
  <2>2. m \in Nat /\ ExistsBijection(1..m, S)
    <3> HIDE DEF f, S
    <3> QED BY <2>1 DEF ExistsBijection
  <2> HIDE DEF S
  <2>3. Cardinality(S) = m /\ IsFiniteSet(S)
    BY <2>2, FS_CountingElements, FS_NatBijection
  <2> QED BY <2>3 DEF S
<1>4. RowsOf(rows) = RowsTo(rows, n)
  BY <1>1 DEF RowsOf, RowsTo
<1>5. IsSections(RowsOf(rows)) /\ Cardinality(RowsOf(rows)) = n
  <2>1. IsFiniteSet(RowsOf(rows)) /\ Cardinality(RowsOf(rows)) = n
    BY <1>3, <1>4
  <2>2. \A row \in RowsOf(rows) : IsSection(row)
    BY <1>4 DEF IsRead, RowsTo
  <2>3. \A a, b \in RowsOf(rows) : a.ordinal = b.ordinal => a = b
    BY <1>2, <1>4 DEF RowsTo
  <2> QED BY <2>1, <2>2, <2>3 DEF IsSections
<1>6. ASSUME NEW i \in 1..n
      PROVE  /\ Lower(RowsOf(rows), rows[i]) = RowsTo(rows, i - 1)
             /\ Cardinality(Lower(RowsOf(rows), rows[i])) = i - 1
  <2>1. \A j \in 1..n : rows[j].ordinal < rows[i].ordinal <=> j < i
    <3> TAKE j \in 1..n
    <3>1. rows[i].ordinal \in Int /\ rows[j].ordinal \in Int
      BY DEF IsRead, IsSection
    <3>2. j < i => rows[j].ordinal < rows[i].ordinal
      BY DEF IsRead
    <3>3. i < j => rows[i].ordinal < rows[j].ordinal
      BY DEF IsRead
    <3> QED BY <3>1, <3>2, <3>3
  <2>2. Lower(RowsOf(rows), rows[i]) = RowsTo(rows, i - 1)
    BY <1>4, <2>1 DEF Lower, RowsTo
  <2>3. i - 1 \in 0..n
    OBVIOUS
  <2> QED BY <1>3, <2>2, <2>3
<1> QED BY <1>1, <1>5, <1>6

\* What each of the two readers asks of the i-th row.
PythonRow(version, transcript, rows, i) ==
  /\ rows[i].transcript = transcript
  /\ rows[i].ordinal = i
  /\ rows[i].start = IF i - 1 = 0 THEN version.start ELSE rows[i - 1].end
  /\ rows[i].end > rows[i].start
  /\ TitleValid(rows[i].title)
  /\ rows[i].temporary => TemporaryTitleShapeValid(i, rows[i].title)
SqlRow(version, rows, row) ==
  LET lower == Lower(rows, row)
  IN ~ (\/ row.transcript # version.transcript
        \/ row.ordinal < 1
        \/ row.end <= row.start
        \/ ~ TitleValid(row.title)
        \/ row.temporary /\ ~ TemporaryTitleShapeValid(row.ordinal, row.title)
        \/ Cardinality(lower) # row.ordinal - 1
        \/ row.start # IF lower = {} THEN version.start ELSE Max(Ends(lower)))

\* Of rows with rising ends the one read before ends last of those below.
LEMMA RisingEnds ==
  ASSUME NEW n \in Nat, NEW rows, IsRead(rows, n), Rising(rows, n)
  PROVE  /\ \A i \in 2..n : Max(Ends(Lower(RowsOf(rows), rows[i]))) = rows[i - 1].end
         /\ n > 0 => Max(Ends(RowsOf(rows))) = rows[n].end
<1>1. \A i \in 1..n : rows[i].end \in Int
  BY DEF IsRead, IsSection
<1>2. ASSUME NEW m \in 1..n
      PROVE  Max(Ends(RowsTo(rows, m))) = rows[m].end
  <2> DEFINE S == Ends(RowsTo(rows, m))
  <2>1. S = {rows[j].end : j \in 1..m}
    BY DEF Ends, RowsTo
  <2>2. S \subseteq Int /\ rows[m].end \in S
    BY <1>1, <2>1
  <2>3. \A j \in 1..m : rows[j].end <= rows[m].end
    <3> TAKE j \in 1..m
    <3>1. rows[j].end \in Int /\ rows[m].end \in Int
      BY <1>1
    <3>2. j < m \/ j = m
      OBVIOUS
    <3> QED BY <3>1, <3>2 DEF Rising
  <2>4. \A y \in S : y <= rows[m].end
    BY <2>1, <2>3
  <2> HIDE DEF S
  <2>5. Max(S) = rows[m].end
    BY <2>2, <2>4, GreatestIsMax
  <2> QED BY <2>5 DEF S
<1>3. ASSUME NEW i \in 2..n
      PROVE  Max(Ends(Lower(RowsOf(rows), rows[i]))) = rows[i - 1].end
  <2>1. i \in 1..n /\ i - 1 \in 1..n
    OBVIOUS
  <2>2. Lower(RowsOf(rows), rows[i]) = RowsTo(rows, i - 1)
    BY <2>1, ReadRows
  <2>3. Max(Ends(RowsTo(rows, i - 1))) = rows[i - 1].end
    BY <1>2, <2>1
  <2> QED BY <2>2, <2>3
<1>4. ASSUME n > 0
      PROVE  Max(Ends(RowsOf(rows))) = rows[n].end
  <2>1. RowsOf(rows) = RowsTo(rows, n)
    BY ReadRows DEF RowsOf, RowsTo
  <2> QED BY <1>2, <1>4, <2>1
<1> QED BY <1>3, <1>4

\* Both readers take only rows that end later and later: by the row before, or by
\* all rows below.
LEMMA PythonRowsRise ==
  ASSUME NEW version, NEW transcript, NEW n \in Nat, NEW rows, IsRead(rows, n),
         \A i \in 1..n : PythonRow(version, transcript, rows, i)
  PROVE  Rising(rows, n)
<1> DEFINE Falls(i) == \E j \in 1..n : j < i /\ ~(rows[j].end < rows[i].end)
           falling == {i \in 1..n : Falls(i)}
<1>1. \A i \in 1..n : rows[i].end \in Int /\ rows[i].start \in Int
  BY DEF IsRead, IsSection
<1>2. \A i \in 2..n : rows[i - 1].end < rows[i].end
  <2> TAKE i \in 2..n
  <2>1. i \in 1..n /\ i - 1 \in 1..n /\ i - 1 # 0
    OBVIOUS
  <2> QED BY <1>1, <2>1 DEF PythonRow
<1>3. falling = {}
  <2> SUFFICES ASSUME falling # {} PROVE FALSE
    OBVIOUS
  <2>1. falling \subseteq Nat
    OBVIOUS
  <2>2. PICK i \in falling : \A k \in falling : i <= k
    <3> HIDE DEF falling
    <3> QED BY <2>1, LeastNumber
  <2>3. PICK j \in 1..n : j < i /\ ~(rows[j].end < rows[i].end)
    BY <2>2
  <2>4. i \in 2..n /\ i - 1 \in 1..n
    BY <2>2, <2>3
  <2>5. rows[i - 1].end < rows[i].end
    BY <1>2, <2>4
  <2>6. j < i - 1
    BY <2>3, <2>4, <2>5
  <2>7. i - 1 \notin falling
    BY <2>2, <2>4
  <2>8. rows[j].end < rows[i - 1].end
    BY <2>4, <2>6, <2>7
  <2> QED BY <1>1, <2>3, <2>4, <2>5, <2>8
<1> QED BY <1>3 DEF Rising

\* ... and so they do when the SQL believes each of them.
LEMMA SqlRowsRise ==
  ASSUME NEW version, NEW n \in Nat, NEW rows, IsRead(rows, n),
         \A i \in 1..n : SqlRow(version, RowsOf(rows), rows[i])
  PROVE  Rising(rows, n)
<1> SUFFICES ASSUME NEW i \in 1..n, NEW j \in 1..n, j < i
             PROVE  rows[j].end < rows[i].end
  BY DEF Rising
<1> DEFINE lower == Lower(RowsOf(rows), rows[i])
<1>1. rows[i].end \in Int /\ rows[i].start \in Int /\ rows[j].end \in Int
  BY DEF IsRead, IsSection
<1>2. rows[j] \in lower
  <2>1. lower = RowsTo(rows, i - 1)
    BY ReadRows
  <2>2. j \in 1..(i - 1)
    OBVIOUS
  <2> QED BY <2>1, <2>2 DEF RowsTo
<1>3. IsFiniteSet(Ends(lower)) /\ Ends(lower) \subseteq Int /\ Ends(lower) # {}
  <2>1. IsSections(RowsOf(rows)) /\ lower \subseteq RowsOf(rows)
    BY ReadRows DEF Lower
  <2> HIDE DEF lower
  <2> QED BY <1>2, <2>1, EndsAreFinite
<1>4. rows[i].start = Max(Ends(lower)) /\ ~(rows[i].end <= rows[i].start)
  BY <1>2 DEF SqlRow
<1>5. rows[j].end \in Ends(lower)
  BY <1>2 DEF Ends
<1> HIDE DEF lower
<1>6. rows[j].end <= rows[i].start
  BY <1>3, <1>4, <1>5, MaxOfFinite
<1> QED BY <1>1, <1>4, <1>6

\* For them the two conditions on a row are the same.
LEMMA RisingRowsAgree ==
  ASSUME NEW version, NEW transcript, version.transcript = transcript,
         NEW n \in Nat, NEW rows, IsRead(rows, n), Rising(rows, n), NEW i \in 1..n
  PROVE  PythonRow(version, transcript, rows, i) <=> SqlRow(version, RowsOf(rows), rows[i])
<1> DEFINE lower == Lower(RowsOf(rows), rows[i])
<1>1. /\ lower = RowsTo(rows, i - 1) /\ Cardinality(lower) = i - 1
      /\ \A x : x \in lower <=> \E j \in 1..(i - 1) : x = rows[j]
  <2>1. lower = RowsTo(rows, i - 1) /\ Cardinality(lower) = i - 1
    BY ReadRows
  <2> HIDE DEF lower
  <2> QED BY <2>1 DEF RowsTo
<1>2. rows[i].ordinal \in Int /\ rows[i].start \in Int /\ rows[i].end \in Int /\ rows[i].temporary \in BOOLEAN
  BY DEF IsRead, IsSection
<1>3. (IF lower = {} THEN version.start ELSE Max(Ends(lower)))
        = IF i - 1 = 0 THEN version.start ELSE rows[i - 1].end
  <2>1. CASE i = 1
    <3>1. lower = {}
      BY <1>1, <2>1
    <3> HIDE DEF lower
    <3> QED BY <2>1, <3>1
  <2>2. CASE i # 1
    <3>1. i \in 2..n /\ i - 1 # 0 /\ i - 1 \in 1..(i - 1)
      BY <2>2
    <3>2. lower # {}
      BY <1>1, <3>1
    <3>3. Max(Ends(lower)) = rows[i - 1].end
      BY <3>1, RisingEnds
    <3> HIDE DEF lower
    <3> QED BY <3>1, <3>2, <3>3
  <2> QED BY <2>1, <2>2
<1>4. SqlRow(version, RowsOf(rows), rows[i]) <=>
        ~ (\/ rows[i].transcript # version.transcript
           \/ rows[i].ordinal < 1
           \/ rows[i].end <= rows[i].start
           \/ ~ TitleValid(rows[i].title)
           \/ rows[i].temporary /\ ~ TemporaryTitleShapeValid(rows[i].ordinal, rows[i].title)
           \/ i - 1 # rows[i].ordinal - 1
           \/ rows[i].start # IF i - 1 = 0 THEN version.start ELSE rows[i - 1].end)
  BY <1>1, <1>3 DEF SqlRow
<1> HIDE DEF lower
<1> QED BY <1>2, <1>4 DEF PythonRow

\* A stored layout is believed by both readers or by neither, whatever its rows: the SQL,
\* which knows the rows below a row by an aggregate, and Python, which reads them one
\* after another.  A version without rows has a range, and no sections in SQL.
\* (canonical_layout_from_rows and canonical_layout_predicate,
\* src/src/workflow/services/segmentation.py:276-359, 407-485)
THEOREM ReadersAgree ==
  ASSUME NEW version, NEW transcript, version.transcript = transcript,
         version.start \in Int, version.end \in Int,
         NEW ordinals, IsFiniteSet(ordinals), ordinals \subseteq Int,
         NEW n \in Nat, NEW rows, IsRead(rows, n)
  PROVE  canonical_layout_predicate(version, transcript, Both, ordinals, RowsOf(rows))
           <=> rows # <<>> /\ ~IsError(canonical_layout_from_rows(version, transcript, ordinals, rows))
<1> DEFINE S == RowsOf(rows)
           python == \A i \in 1..n : PythonRow(version, transcript, rows, i)
           sql == \A i \in 1..n : SqlRow(version, S, rows[i])
           range == /\ Contiguous(ordinals) /\ version.start >= 0 /\ version.end <= Cardinality(ordinals)
                    /\ version.start < version.end
<1>1. /\ DOMAIN rows = 1..n /\ Len(rows) = n /\ (rows = <<>> <=> n = 0)
      /\ S = RowsTo(rows, n) /\ Cardinality(S) = n
  <2>1. DOMAIN rows = 1..n /\ Len(rows) = n /\ Cardinality(S) = n
    BY ReadRows DEF IsRead
  <2>2. S = RowsTo(rows, n)
    BY <2>1 DEF RowsOf, RowsTo
  <2>3. rows = <<>> <=> n = 0
    BY DEF IsRead
  <2> QED BY <2>1, <2>2, <2>3
<1>2. Contiguous(ordinals) <=>
        ordinals # {} /\ Min(ordinals) = 0 /\ Max(ordinals) + 1 = Cardinality(ordinals)
  <2>1. Cardinality(ordinals) \in Nat
    BY FS_CardinalityType
  <2>2. ordinals # {} => Max(ordinals) \in Int
    BY MaxOfFinite
  <2> QED BY <2>1, <2>2 DEF Contiguous
<1>3. ~IsError(canonical_layout_from_rows(version, transcript, ordinals, rows)) <=>
        range /\ n # 1 /\ n <= MaxTopicSections /\ python /\ (n # 0 => rows[n].end = version.end)
  <2> DEFINE layout == [start |-> version.start, end |-> version.end,
                        splits |-> [i \in 1 .. Len(rows) - 1 |-> rows[i].end],
                        titles |-> [i \in DOMAIN rows |-> rows[i].title],
                        flags |-> [i \in DOMAIN rows |-> rows[i].temporary]]
             accepted == range /\ n # 1 /\ n <= MaxTopicSections /\ python /\ (n # 0 => rows[n].end = version.end)
  <2>1. ~IsError(layout) /\ IsError(LayoutInvalid)
    BY DEF IsError, LayoutInvalid
  <2> HIDE DEF layout
  <2>2. canonical_layout_from_rows(version, transcript, ordinals, rows) = IF accepted THEN layout ELSE LayoutInvalid
    BY <1>1 DEF canonical_layout_from_rows, PythonRow, layout
  <2> HIDE DEF accepted
  <2>3. ~IsError(canonical_layout_from_rows(version, transcript, ordinals, rows)) <=> accepted
    BY <2>1, <2>2
  <2> QED BY <2>3 DEF accepted
<1>4. canonical_layout_predicate(version, transcript, Both, ordinals, S) <=>
        range /\ n >= 2 /\ n <= MaxTopicSections /\ sql /\ Max(Ends(S)) = version.end
  <2>1. (\A row \in S : SqlRow(version, S, row)) <=> sql
    <3>1. \A row : row \in S <=> \E i \in 1..n : row = rows[i]
      BY <1>1 DEF RowsTo
    <3> HIDE DEF S
    <3> QED BY <3>1
  <2>2. version.end > version.start <=> version.start < version.end
    OBVIOUS
  <2>3. canonical_layout_predicate(version, transcript, Both, ordinals, S) <=>
        /\ ordinals # {} /\ Min(ordinals) = 0 /\ Max(ordinals) + 1 = Cardinality(ordinals)
        /\ version.start >= 0 /\ version.end > version.start
        /\ version.end <= Cardinality(ordinals)
        /\ Cardinality(S) >= 2 /\ Cardinality(S) <= MaxTopicSections
        /\ (\A row \in S : SqlRow(version, S, row))
        /\ Max(Ends(S)) = version.end
    BY DEF canonical_layout_predicate, Both, SqlRow, Ends, Lower
  <2> HIDE DEF S, sql
  <2> QED BY <1>1, <1>2, <2>1, <2>2, <2>3
<1>5. python => Rising(rows, n)
  BY PythonRowsRise
<1>6. sql => Rising(rows, n)
  BY SqlRowsRise
<1>7. Rising(rows, n) => (python <=> sql) /\ (n > 0 => Max(Ends(S)) = rows[n].end)
  BY RisingRowsAgree, RisingEnds
<1> HIDE DEF python, sql, range, S
<1> QED BY <1>1, <1>3, <1>4, <1>5, <1>6, <1>7 DEF S

-----------------------------------------------------------------------------
(* Lists in order *)

\* What is before an element.
Ahead(R, S, x) == {y \in S : <<y, x>> \in R}

\* Every position is that of one element.
LEMMA PositionsAreTaken ==
  ASSUME NEW S, IsFiniteSet(S), NEW R, OrdersTotally(R, S)
  PROVE  /\ \A x \in S : Cardinality(Ahead(R, S, x)) \in 0..(Cardinality(S) - 1)
         /\ \A x, y \in S : <<x, y>> \in R <=> Cardinality(Ahead(R, S, x)) < Cardinality(Ahead(R, S, y))
         /\ \A i \in 1..Cardinality(S) : \E x \in S : Cardinality(Ahead(R, S, x)) = i - 1
<1> DEFINE n == Cardinality(S)
           T == 0..(n - 1)
           place == [x \in S |-> Cardinality(Ahead(R, S, x))]
<1>1. n \in Nat
  BY FS_CardinalityType
<1>2. ASSUME NEW x \in S
      PROVE  /\ x \notin Ahead(R, S, x) /\ IsFiniteSet(Ahead(R, S, x))
             /\ Cardinality(Ahead(R, S, x)) \in 0..(n - 1)
  <2>1. x \notin Ahead(R, S, x) /\ Ahead(R, S, x) \in SUBSET S /\ Ahead(R, S, x) \in SUBSET (S \ {x})
    BY DEF Ahead, OrdersTotally
  <2>2. IsFiniteSet(S \ {x}) /\ Cardinality(S \ {x}) = n - 1
    BY FS_RemoveElement
  <2>3. IsFiniteSet(Ahead(R, S, x)) /\ Cardinality(Ahead(R, S, x)) <= n - 1
    BY <2>1, <2>2, FS_Subset
  <2>4. Cardinality(Ahead(R, S, x)) \in Nat
    BY <2>3, FS_CardinalityType
  <2> QED BY <1>1, <2>1, <2>3, <2>4
<1>3. ASSUME NEW x \in S, NEW y \in S, <<x, y>> \in R
      PROVE  Cardinality(Ahead(R, S, x)) < Cardinality(Ahead(R, S, y))
  <2>1. Ahead(R, S, x) \cup {x} \in SUBSET Ahead(R, S, y)
    BY <1>3 DEF Ahead, OrdersTotally
  <2>2. Cardinality(Ahead(R, S, x) \cup {x}) = Cardinality(Ahead(R, S, x)) + 1
    BY <1>2, FS_AddElement
  <2>3. Cardinality(Ahead(R, S, x) \cup {x}) <= Cardinality(Ahead(R, S, y))
    BY <1>2, <2>1, FS_Subset
  <2>4. Cardinality(Ahead(R, S, x)) \in Nat /\ Cardinality(Ahead(R, S, y)) \in Nat
    BY <1>2
  <2> QED BY <2>2, <2>3, <2>4
<1>4. \A x, y \in S : Cardinality(Ahead(R, S, x)) \in Nat /\ (x = y \/ <<x, y>> \in R \/ <<y, x>> \in R)
  <2>1. \A m \in Nat : 0..(m - 1) \subseteq Nat
    OBVIOUS
  <2>2. \A x \in S : Cardinality(Ahead(R, S, x)) \in Nat
    BY <1>1, <1>2, <2>1
  <2> QED BY <2>2 DEF OrdersTotally
<1>5. \A x, y \in S : <<x, y>> \in R <=> Cardinality(Ahead(R, S, x)) < Cardinality(Ahead(R, S, y))
  <2> TAKE x, y \in S
  <2>1. Cardinality(Ahead(R, S, x)) \in Nat /\ Cardinality(Ahead(R, S, y)) \in Nat
    BY <1>4
  <2>2. CASE <<x, y>> \in R
    BY <1>3, <2>2
  <2>3. CASE <<y, x>> \in R
    <3>1. Cardinality(Ahead(R, S, y)) < Cardinality(Ahead(R, S, x))
      BY <1>3, <2>3
    <3>2. ~(Cardinality(Ahead(R, S, x)) < Cardinality(Ahead(R, S, y)))
      BY <2>1, <3>1
    <3>3. <<x, y>> \notin R
      BY <1>3, <3>2
    <3> QED BY <3>2, <3>3
  <2>4. CASE x = y
    <3>1. <<x, y>> \notin R
      BY <2>4 DEF OrdersTotally
    <3> QED BY <2>1, <2>4, <3>1
  <2> QED BY <1>4, <2>2, <2>3, <2>4
<1>6. \A i \in 1..n : \E x \in S : Cardinality(Ahead(R, S, x)) = i - 1
  <2>1. place \in [S -> T]
    BY <1>2
  <2>2. \A x, y \in S : place[x] = place[y] => x = y
    <3> TAKE x, y \in S
    <3>1. place[x] = Cardinality(Ahead(R, S, x)) /\ place[y] = Cardinality(Ahead(R, S, y))
      OBVIOUS
    <3>2. place[x] \in Nat /\ place[y] \in Nat
      BY <1>4, <3>1
    <3> SUFFICES ASSUME place[x] = place[y], x # y PROVE FALSE
      OBVIOUS
    <3>3. <<x, y>> \in R \/ <<y, x>> \in R
      BY <1>4
    <3>4. place[x] < place[y] \/ place[y] < place[x]
      BY <1>5, <3>1, <3>3
    <3> HIDE DEF place
    <3> QED BY <3>2, <3>4
  <2>3. place \in Injection(S, T)
    <3> HIDE DEF place, T
    <3> QED BY <2>1, <2>2 DEF Injection, IsInjective
  <2>4. IsFiniteSet(T) /\ Cardinality(T) = n
    BY <1>1, FS_Interval
  <2>5. place \in Surjection(S, T)
    <3> HIDE DEF place, T
    <3> QED BY <2>3, <2>4, FS_Injection
  <2>6. \A t \in T : \E x \in S : place[x] = t
    <3> HIDE DEF place, T
    <3> QED BY <2>5 DEF Surjection
  <2> TAKE i \in 1..n
  <2>7. i - 1 \in T
    BY <1>1
  <2> HIDE DEF T
  <2> QED BY <2>6, <2>7
<1> HIDE DEF n
<1>7. \A x \in S : Cardinality(Ahead(R, S, x)) \in 0..(n - 1)
  BY <1>2
<1> QED BY <1>5, <1>6, <1>7 DEF n

\* A list whose i-th element is behind i - 1 others has all elements in order, and it
\* is the only one.
IsInOrder(list, S, R) ==
  /\ list \in [1..Cardinality(S) -> S]
  /\ \A i \in 1..Cardinality(S) : Cardinality(Ahead(R, S, list[i])) = i - 1

\* A list in order: earlier places are smaller elements, nothing is in it twice, and all is.
LEMMA ListInOrder ==
  ASSUME NEW S, IsFiniteSet(S), NEW R, OrdersTotally(R, S), NEW list, IsInOrder(list, S, R)
  PROVE  /\ \A i, j \in 1..Cardinality(S) : i < j <=> <<list[i], list[j]>> \in R
         /\ \A i, j \in 1..Cardinality(S) : list[i] = list[j] => i = j
         /\ \A x \in S : \E i \in 1..Cardinality(S) : list[i] = x
<1> DEFINE n == Cardinality(S)
           Place(x) == Cardinality(Ahead(R, S, x))
<1>1. n \in Nat
  BY FS_CardinalityType
<1>2. \A x \in S : Place(x) \in 0..(n - 1)
  BY PositionsAreTaken
<1>3. \A x, y \in S : <<x, y>> \in R <=> Place(x) < Place(y)
  BY PositionsAreTaken
<1>4. \A i \in 1..n : list[i] \in S /\ Place(list[i]) = i - 1
  BY DEF IsInOrder
<1> HIDE DEF n, Place
<1>5. \A i, j \in 1..n : i < j <=> <<list[i], list[j]>> \in R
  BY <1>1, <1>3, <1>4
<1>6. \A i, j \in 1..n : list[i] = list[j] => i = j
  BY <1>1, <1>4
<1>7. \A x \in S : \E i \in 1..n : list[i] = x
  <2> TAKE x \in S
  <2> DEFINE i == Place(x) + 1
  <2>1. i \in 1..n /\ Place(x) = i - 1 /\ Place(x) \in Nat
    BY <1>1, <1>2
  <2> HIDE DEF i
  <2>2. list[i] \in S /\ Place(list[i]) = Place(x)
    BY <1>4, <2>1
  <2>3. <<x, list[i]>> \notin R /\ <<list[i], x>> \notin R
    BY <1>3, <2>1, <2>2
  <2>4. list[i] = x
    BY <2>2, <2>3 DEF OrdersTotally
  <2> QED BY <2>1, <2>4
<1> QED BY <1>5, <1>6, <1>7 DEF n

\* A list of all elements that ascends is in order.
LEMMA IncreasingIsInOrder ==
  ASSUME NEW n \in Nat, NEW S, NEW R, OrdersTotally(R, S), NEW list, list \in [1..n -> S],
         \A x \in S : \E i \in 1..n : list[i] = x,
         \A i, j \in 1..n : i < j => <<list[i], list[j]>> \in R
  PROVE  IsFiniteSet(S) /\ Cardinality(S) = n /\ IsInOrder(list, S, R)
<1>1. \A i, j \in 1..n : list[i] = list[j] => i = j
  <2> TAKE i, j \in 1..n
  <2>1. i < j \/ j < i \/ i = j
    OBVIOUS
  <2> QED BY <2>1 DEF OrdersTotally
<1>2. ASSUME NEW m \in 0..n
      PROVE  IsFiniteSet(RowsTo(list, m)) /\ Cardinality(RowsTo(list, m)) = m
  <2> DEFINE f == [i \in 1..m |-> list[i]]
  <2>1. f \in [1..m -> RowsTo(list, m)] /\ \A i \in 1..m : f[i] = list[i]
    BY DEF RowsTo
  <2>2. \A i, j \in 1..m : f[i] = f[j] => i = j
    BY <1>1, <2>1
  <2>3. \A x \in RowsTo(list, m) : \E i \in 1..m : f[i] = x
    BY <2>1 DEF RowsTo
  <2> HIDE DEF f
  <2>4. f \in Bijection(1..m, RowsTo(list, m))
    BY <2>1, <2>2, <2>3 DEF Bijection, Injection, Surjection, IsInjective
  <2>5. m \in Nat /\ ExistsBijection(1..m, RowsTo(list, m))
    BY <2>4 DEF ExistsBijection
  <2> QED BY <2>5, FS_CountingElements, FS_NatBijection
<1>3. S = RowsTo(list, n)
  BY DEF RowsTo
<1>4. IsFiniteSet(S) /\ Cardinality(S) = n
  BY <1>2, <1>3
<1>5. ASSUME NEW i \in 1..n
      PROVE  Cardinality(Ahead(R, S, list[i])) = i - 1
  <2>1. Ahead(R, S, list[i]) = RowsTo(list, i - 1)
    <3>1. ASSUME NEW j \in 1..n
          PROVE  <<list[j], list[i]>> \in R <=> j < i
      <4>1. i < j \/ j < i \/ i = j
        OBVIOUS
      <4>2. j < i => <<list[j], list[i]>> \in R
        OBVIOUS
      <4>3. i = j => <<list[j], list[i]>> \notin R
        BY DEF OrdersTotally
      <4>4. i < j => <<list[j], list[i]>> \notin R
        <5> SUFFICES ASSUME i < j, <<list[j], list[i]>> \in R PROVE FALSE
          OBVIOUS
        <5>1. <<list[i], list[j]>> \in R
          OBVIOUS
        <5>2. <<list[i], list[i]>> \in R
          BY <5>1 DEF OrdersTotally
        <5> QED BY <5>2 DEF OrdersTotally
      <4> QED BY <4>1, <4>2, <4>3, <4>4
    <3>2. \A x : x \in Ahead(R, S, list[i]) <=> \E j \in 1..n : x = list[j] /\ j < i
      BY <3>1 DEF Ahead
    <3>3. \A x : x \in RowsTo(list, i - 1) <=> \E j \in 1..n : x = list[j] /\ j < i
      BY DEF RowsTo
    <3> QED BY <3>2, <3>3
  <2>2. i - 1 \in 0..n
    OBVIOUS
  <2> QED BY <1>2, <2>1, <2>2
<1> QED BY <1>4, <1>5 DEF IsInOrder

\* There is one list in order.
LEMMA OneListInOrder ==
  ASSUME NEW S, IsFiniteSet(S), NEW R, OrdersTotally(R, S),
         NEW list, IsInOrder(list, S, R), NEW other, IsInOrder(other, S, R)
  PROVE  list = other
<1>1. \A x, y \in S : <<x, y>> \in R <=> Cardinality(Ahead(R, S, x)) < Cardinality(Ahead(R, S, y))
  BY PositionsAreTaken
<1>2. \A i \in 1..Cardinality(S) :
        /\ list[i] \in S /\ other[i] \in S
        /\ Cardinality(Ahead(R, S, list[i])) = i - 1 /\ Cardinality(Ahead(R, S, other[i])) = i - 1
  BY DEF IsInOrder
<1>3. \A i \in 1..Cardinality(S) : list[i] = other[i]
  <2> TAKE i \in 1..Cardinality(S)
  <2>1. ~(i - 1 < i - 1)
    BY FS_CardinalityType
  <2>2. <<list[i], other[i]>> \notin R /\ <<other[i], list[i]>> \notin R
    BY <1>1, <1>2, <2>1
  <2> QED BY <1>2, <2>2 DEF OrdersTotally
<1>4. list \in [1..Cardinality(S) -> S] /\ other \in [1..Cardinality(S) -> S]
  BY DEF IsInOrder
<1> DEFINE places == 1..Cardinality(S)
<1>5. /\ list \in [places -> S] /\ other \in [places -> S] /\ \A i \in places : list[i] = other[i]
  BY <1>3, <1>4
<1> HIDE DEF places
<1> QED BY <1>5

\* The order of numbers, as a set of pairs.
Lesser(S) == {p \in S \X S : p[1] < p[2]}

\* The order of the numbers, and `sorted' of them.
LEMMA SortedNumbers ==
  ASSUME NEW S, IsFiniteSet(S), S \subseteq Int
  PROVE  OrdersTotally(Lesser(S), S) /\ IsInOrder(Ascending(S), S, Lesser(S))
<1>0. \A x, y \in S : <<x, y>> \in Lesser(S) <=> x < y
  BY DEF Lesser
<1>1. OrdersTotally(Lesser(S), S)
  <2>1. \A x \in S : <<x, x>> \notin Lesser(S)
    BY <1>0
  <2>2. \A x, y, z \in S : <<x, y>> \in Lesser(S) /\ <<y, z>> \in Lesser(S) => <<x, z>> \in Lesser(S)
    BY <1>0
  <2>3. \A x, y \in S : x # y => <<x, y>> \in Lesser(S) \/ <<y, x>> \in Lesser(S)
    BY <1>0
  <2> QED BY <2>1, <2>2, <2>3 DEF OrdersTotally
<1>2. \A x \in S : {y \in S : y < x} = Ahead(Lesser(S), S, x)
  BY <1>0 DEF Ahead
<1>3. \A i \in 1..Cardinality(S) : \E x \in S : Cardinality({y \in S : y < x}) = i - 1
  <2>1. \A i \in 1..Cardinality(S) : \E x \in S : Cardinality(Ahead(Lesser(S), S, x)) = i - 1
    BY <1>1, PositionsAreTaken
  <2> QED BY <1>2, <2>1
<1>4. Ascending(S) = [i \in 1..Cardinality(S) |-> CHOOSE x \in S : Cardinality({y \in S : y < x}) = i - 1]
  BY DEF Ascending, Sorted
<1>5. ASSUME NEW i \in 1..Cardinality(S)
      PROVE  Ascending(S)[i] \in S /\ Cardinality(Ahead(Lesser(S), S, Ascending(S)[i])) = i - 1
  <2>1. Ascending(S)[i] = CHOOSE x \in S : Cardinality({y \in S : y < x}) = i - 1
    BY <1>4
  <2>2. PICK x \in S : Cardinality({y \in S : y < x}) = i - 1
    BY <1>3
  <2>3. Ascending(S)[i] \in S /\ Cardinality({y \in S : y < Ascending(S)[i]}) = i - 1
    BY <2>1, <2>2
  <2> QED BY <1>2, <2>3
<1>6. Ascending(S) \in [1..Cardinality(S) -> S]
  BY <1>4, <1>5
<1> QED BY <1>1, <1>5, <1>6 DEF IsInOrder

-----------------------------------------------------------------------------
(* Saving a layout *)

\* A list of all elements of a set, and a list of rising numbers.
Enumerates(list, S, n) == list \in [1..n -> S] /\ \A x \in S : \E i \in 1..n : list[i] = x
Rises(list, n) == \A i, j \in 1..n : i < j => list[i] < list[j]

\* The markers of a payload, when no two are the same, are put in rising order
\* (segmentation.py:695).
LEMMA MarkersAreSorted ==
  ASSUME NEW n \in Nat, NEW S, S \subseteq Int, NEW markers, Enumerates(markers, S, n),
         \A i, j \in 1..n : markers[i] = markers[j] => i = j
  PROVE  IsFiniteSet(S) /\ Enumerates(Ascending(S), S, n) /\ Rises(Ascending(S), n)
<1>1. IsFiniteSet(S) /\ Cardinality(S) = n
  <2>1. markers \in Bijection(1..n, S)
    BY DEF Enumerates, Bijection, Injection, Surjection, IsInjective
  <2>2. ExistsBijection(1..n, S)
    BY <2>1 DEF ExistsBijection
  <2> QED BY <2>2, FS_CountingElements, FS_NatBijection
<1> DEFINE list == Ascending(S)
<1>2. OrdersTotally(Lesser(S), S) /\ IsInOrder(list, S, Lesser(S))
  BY <1>1, SortedNumbers
<1> HIDE DEF list
<1>3. list \in [1..n -> S]
  BY <1>1, <1>2 DEF IsInOrder
<1>4. /\ \A i, j \in 1..Cardinality(S) : i < j <=> <<list[i], list[j]>> \in Lesser(S)
      /\ \A i, j \in 1..Cardinality(S) : list[i] = list[j] => i = j
      /\ \A x \in S : \E i \in 1..Cardinality(S) : list[i] = x
  BY <1>1, <1>2, ListInOrder
<1>5. \A i, j \in 1..n : i < j => list[i] < list[j]
  <2>1. \A x, y : <<x, y>> \in Lesser(S) => x < y
    BY DEF Lesser
  <2>2. \A i, j \in 1..n : i < j => <<list[i], list[j]>> \in Lesser(S)
    BY <1>1, <1>4
  <2> QED BY <2>1, <2>2
<1> QED BY <1>1, <1>3, <1>4, <1>5 DEF list, Enumerates, Rises

\* Rising markers are in order as they are.
LEMMA RisingMarkersStay ==
  ASSUME NEW n \in Nat, NEW S, S \subseteq Int, NEW list, Enumerates(list, S, n), Rises(list, n)
  PROVE  Ascending(S) = list
<1>1. list \in [1..n -> S] /\ \A x \in S : \E i \in 1..n : list[i] = x
  BY DEF Enumerates
<1>2. \A i, j \in 1..n : list[i] = list[j] => i = j
  <2> TAKE i, j \in 1..n
  <2>1. i < j \/ j < i \/ i = j
    OBVIOUS
  <2>2. list[i] \in Int /\ list[j] \in Int
    BY <1>1
  <2>3. i < j => list[i] < list[j]
    BY DEF Rises
  <2>4. j < i => list[j] < list[i]
    BY DEF Rises
  <2> QED BY <2>1, <2>2, <2>3, <2>4
<1>3. IsFiniteSet(S)
  BY <1>2, MarkersAreSorted
<1>4. OrdersTotally(Lesser(S), S) /\ IsInOrder(Ascending(S), S, Lesser(S))
  BY <1>3, SortedNumbers
<1>5. \A i, j \in 1..n : i < j => <<list[i], list[j]>> \in Lesser(S)
  BY <1>1 DEF Lesser, Rises
<1>6. IsInOrder(list, S, Lesser(S))
  BY <1>1, <1>4, <1>5, IncreasingIsInOrder
<1> QED BY <1>3, <1>4, <1>6, OneListInOrder

\* A submitted payload, and a layout that was read.
Payload(start, end, splits, titles, flags) ==
  [start |-> start, end |-> end, splits |-> splits, titles |-> titles, flags |-> flags]

\* A payload of which every part is in the form that it is stored in.
IsLayout(start, end, splits, titles, flags, n, k) ==
  /\ start \in Int /\ end \in Int /\ n \in Nat /\ n <= MaxTopicSections - 1
  /\ k = (IF n = 0 THEN 0 ELSE n + 1)
  /\ splits \in Seq(Int) /\ Len(splits) = n
  /\ Rises(splits, n)
  /\ \A i \in 1..n : start < splits[i] /\ splits[i] < end
  /\ titles \in Seq(Range(titles)) /\ Len(titles) = k
  /\ flags \in Seq(BOOLEAN) /\ Len(flags) = k

\* What is compared and stored is the payload with its markers in order and a flag
\* for each title.
FlagsOf(titles, flags) == IF flags # <<>> THEN flags ELSE [i \in DOMAIN titles |-> FALSE]
\* The payload that is compared and stored.
LEMMA SubmittedBecomesPayload ==
  ASSUME NEW start, NEW end, NEW splits, NEW titles, NEW flags
  PROVE  [Parsed(Payload(start, end, splits, titles, flags)) EXCEPT !.splits = Ascending(Range(@))]
           = Payload(start, end, Ascending(Range(splits)), titles, FlagsOf(titles, flags))
<1> DEFINE submitted == Payload(start, end, splits, titles, flags)
           parsed == Payload(start, end, splits, titles, FlagsOf(titles, flags))
           sorted == Ascending(Range(splits))
<1>1. Parsed(submitted) = parsed
  <2>1. submitted.flags = flags /\ submitted.titles = titles
    BY DEF Payload
  <2>2. CASE flags # <<>>
    BY <2>1, <2>2 DEF Parsed, FlagsOf
  <2>3. CASE flags = <<>>
    BY <2>1, <2>3 DEF Parsed, FlagsOf, Payload
  <2> QED BY <2>2, <2>3
<1>2. [parsed EXCEPT !.splits = Ascending(Range(parsed.splits))] = Payload(start, end, sorted, titles, FlagsOf(titles, flags))
  <2>1. parsed.splits = splits
    BY DEF Payload
  <2> HIDE DEF sorted
  <2>2. [parsed EXCEPT !.splits = sorted] = Payload(start, end, sorted, titles, FlagsOf(titles, flags))
    BY DEF Payload
  <2> QED BY <2>1, <2>2 DEF sorted
<1> QED BY <1>1, <1>2

\* If it is valid for the transcript it has the form of a layout.
LEMMA SubmittedBecomesLayout ==
  ASSUME NEW start \in Int, NEW end \in Int, NEW splits \in Seq(Int),
         NEW Titles, NEW titles \in Seq(Titles), NEW flags \in Seq(BOOLEAN), NEW ordinals,
         PayloadParses(Payload(start, end, splits, titles, flags)), IsInjective(splits),
         NEW sorted, sorted = Ascending(Range(splits)),
         RangeValid(Payload(start, end, sorted, titles, FlagsOf(titles, flags)), ordinals)
  PROVE  /\ IsLayout(start, end, sorted, titles, FlagsOf(titles, flags), Len(splits), TopicCount(splits))
         /\ Range(sorted) = Range(splits)
<1> DEFINE n == Len(splits)
           k == TopicCount(splits)
           submitted == Payload(start, end, splits, titles, flags)
<1>1. submitted.splits = splits /\ submitted.titles = titles /\ submitted.flags = flags
  BY DEF Payload
<1>2. n \in Nat /\ splits \in [1..n -> Int] /\ DOMAIN splits = 1..n
  OBVIOUS
<1>3. /\ n <= MaxTopicSections - 1 /\ Len(titles) = k
      /\ flags = <<>> \/ Len(flags) = Len(titles)
  BY <1>1 DEF PayloadParses
<1>4. k = (IF n = 0 THEN 0 ELSE n + 1) /\ k \in Nat
  <2>1. splits = <<>> <=> n = 0
    OBVIOUS
  <2> QED BY <2>1 DEF TopicCount
<1> HIDE DEF k
<1>5. FlagsOf(titles, flags) \in Seq(BOOLEAN) /\ Len(FlagsOf(titles, flags)) = k
  <2>1. CASE flags # <<>>
    BY <1>3, <2>1 DEF FlagsOf
  <2>2. CASE flags = <<>>
    <3>1. DOMAIN titles = 1..k
      BY <1>3
    <3>2. FlagsOf(titles, flags) = [i \in 1..k |-> FALSE]
      BY <2>2, <3>1 DEF FlagsOf
    <3>3. [i \in 1..k |-> FALSE] \in Seq(BOOLEAN) /\ Len([i \in 1..k |-> FALSE]) = k
      BY <1>4
    <3> QED BY <3>2, <3>3
  <2> QED BY <2>1, <2>2
<1>6. Range(splits) \subseteq Int /\ Enumerates(splits, Range(splits), n)
  BY <1>2 DEF Range, Enumerates
<1>7. \A i, j \in 1..n : splits[i] = splits[j] => i = j
  BY <1>2 DEF IsInjective
<1>8. Enumerates(sorted, Range(splits), n) /\ Rises(sorted, n)
  <2> HIDE DEF n
  <2> QED BY <1>2, <1>6, <1>7, MarkersAreSorted
<1>9. sorted \in Seq(Int) /\ Len(sorted) = n /\ DOMAIN sorted = 1..n
  <2>1. ASSUME NEW S, S \subseteq Int, Enumerates(sorted, S, n)
        PROVE  sorted \in Seq(Int) /\ Len(sorted) = n /\ DOMAIN sorted = 1..n
    <3>1. sorted \in [1..n -> Int]
      BY <2>1 DEF Enumerates
    <3> QED BY <1>2, <3>1
  <2> QED BY <1>6, <1>8, <2>1
<1>10. Range(sorted) = Range(splits)
  <2>1. \A x : x \in Range(sorted) <=> \E i \in 1..n : sorted[i] = x
    BY <1>9 DEF Range
  <2> QED BY <1>8, <2>1 DEF Enumerates
<1>11. \A i \in 1..n : start < sorted[i] /\ sorted[i] < end
  <2>1. \A marker \in Range(sorted) : start < marker /\ marker < end
    BY DEF RangeValid, Payload
  <2> QED BY <1>9, <2>1 DEF Range
<1>12. titles \in Seq(Range(titles))
  BY DEF Range
<1> HIDE DEF n
<1>13. IsLayout(start, end, sorted, titles, FlagsOf(titles, flags), n, k)
  BY <1>2, <1>3, <1>4, <1>5, <1>8, <1>9, <1>11, <1>12 DEF IsLayout
<1> QED BY <1>10, <1>13 DEF n, k

\* A layout, submitted as it was read, is what is there already.
LEMMA ResubmittedIsUnchanged ==
  ASSUME NEW start, NEW end, NEW splits, NEW titles, NEW flags, NEW n, NEW k,
         IsLayout(start, end, splits, titles, flags, n, k),
         \A i \in 1..k : TitleValid(titles[i]),
         NEW ordinals, RangeValid(Payload(start, end, splits, titles, flags), ordinals),
         NEW transcript, NEW date
  PROVE  save_segmented_version(transcript, Payload(start, end, splits, titles, flags),
                                {Payload(start, end, splits, titles, flags)}, ordinals, date)
           = [result |-> "unchanged"]
<1> DEFINE layout == Payload(start, end, splits, titles, flags)
<1>1. /\ layout.start = start /\ layout.end = end /\ layout.splits = splits
      /\ layout.titles = titles /\ layout.flags = flags
  BY DEF Payload
<1>2. /\ splits \in Seq(Int) /\ Len(splits) = n /\ DOMAIN splits = 1..n /\ n \in Nat
      /\ titles \in Seq(Range(titles)) /\ Len(titles) = k /\ DOMAIN titles = 1..k
      /\ flags \in Seq(BOOLEAN) /\ Len(flags) = k
      /\ k = (IF n = 0 THEN 0 ELSE n + 1) /\ n <= MaxTopicSections - 1
  BY DEF IsLayout
<1>3. Ascending(Range(splits)) = splits
  <2>1. Range(splits) \subseteq Int /\ Enumerates(splits, Range(splits), n)
    BY <1>2 DEF Range, Enumerates
  <2>2. Rises(splits, n)
    BY DEF IsLayout
  <2> QED BY <1>2, <2>1, <2>2, RisingMarkersStay
<1>4. FlagsOf(titles, flags) = flags
  <2>1. CASE flags # <<>>
    BY <2>1 DEF FlagsOf
  <2>2. CASE flags = <<>>
    <3>1. k = 0 /\ DOMAIN titles = 1..0
      BY <1>2, <2>2
    <3>2. FlagsOf(titles, flags) = [i \in 1..0 |-> FALSE]
      BY <2>2, <3>1 DEF FlagsOf
    <3>3. [i \in 1..0 |-> FALSE] = <<>>
      OBVIOUS
    <3> QED BY <2>2, <3>2, <3>3
  <2> QED BY <2>1, <2>2
<1>5. [Parsed(layout) EXCEPT !.splits = Ascending(Range(@))] = layout
  BY <1>3, <1>4, SubmittedBecomesPayload
<1>6. PayloadParses(layout)
  <2>1. TopicCount(splits) = k
    <3>1. splits = <<>> <=> n = 0
      BY <1>2
    <3> QED BY <1>2, <3>1 DEF TopicCount
  <2>2. k <= MaxTopicSections
    <3>1. MaxTopicSections \in Nat
      BY LayoutAssumption
    <3> QED BY <1>2, <3>1
  <2> QED BY <1>1, <1>2, <2>1, <2>2 DEF PayloadParses
<1>7. IsInjective(splits)
  <2>1. \A i, j \in 1..n : splits[i] = splits[j] => i = j
    <3> TAKE i, j \in 1..n
    <3>1. splits[i] \in Int /\ splits[j] \in Int
      BY <1>2
    <3>2. (i < j => splits[i] < splits[j]) /\ (j < i => splits[j] < splits[i])
      BY DEF IsLayout, Rises
    <3>3. i < j \/ j < i \/ i = j
      BY <1>2
    <3> QED BY <3>1, <3>2, <3>3
  <2> QED BY <1>2, <2>1 DEF IsInjective
<1>8. LayoutInvalid \notin {layout}
  <2>1. IsError(LayoutInvalid) /\ ~IsError(layout)
    BY DEF IsError, LayoutInvalid, Payload
  <2> QED BY <2>1
<1>9. Unchanged(layout, {layout}, ordinals)
  BY DEF Unchanged
<1>10. \A i \in DOMAIN layout.titles : TitleValid(layout.titles[i])
  BY <1>1, <1>2
<1> HIDE DEF layout
<1>11. save_segmented_version(transcript, layout, {layout}, ordinals, date) = [result |-> "unchanged"]
  BY <1>1, <1>5, <1>6, <1>7, <1>8, <1>9, <1>10 DEF save_segmented_version, layout
<1> QED BY <1>11 DEF layout

\* The rows that are stored, read back, are the payload, with the names it gives to
\* the flagged ones.
Bounds(start, end, splits) == <<start>> \o splits \o <<end>>
TitlesOf(rows, k) == [i \in 1..k |-> rows[i].title]

\* Its bounds rise from its start to its end.
LEMMA BoundsRise ==
  ASSUME NEW start, NEW end, NEW splits, NEW titles, NEW flags, NEW n, NEW k,
         IsLayout(start, end, splits, titles, flags, n, k), start < end
  PROVE  /\ \A i \in 1..(n + 1) : /\ Bounds(start, end, splits)[i] \in Int
                                  /\ Bounds(start, end, splits)[i + 1] \in Int
                                  /\ Bounds(start, end, splits)[i] < Bounds(start, end, splits)[i + 1]
         /\ Bounds(start, end, splits)[1] = start
         /\ Bounds(start, end, splits)[n + 2] = end
         /\ \A i \in 1..n : Bounds(start, end, splits)[i + 1] = splits[i]
<1> DEFINE bounds == Bounds(start, end, splits)
<1>1. /\ start \in Int /\ end \in Int /\ n \in Nat /\ splits \in Seq(Int) /\ Len(splits) = n
      /\ Rises(splits, n) /\ \A i \in 1..n : start < splits[i] /\ splits[i] < end
  BY DEF IsLayout
<1>2. \A i \in 1..(n + 2) :
        bounds[i] = IF i = 1 THEN start ELSE IF i = n + 2 THEN end ELSE splits[i - 1]
  BY <1>1 DEF Bounds
<1> HIDE DEF bounds
<1>3. bounds[1] = start /\ bounds[n + 2] = end /\ \A i \in 1..n : bounds[i + 1] = splits[i]
  <2>1. bounds[1] = start
    BY <1>1, <1>2
  <2>2. bounds[n + 2] = end
    BY <1>1, <1>2
  <2>3. ASSUME NEW i \in 1..n PROVE bounds[i + 1] = splits[i]
    <3>1. i + 1 \in 1..(n + 2) /\ i + 1 # 1 /\ i + 1 # n + 2 /\ (i + 1) - 1 = i
      BY <1>1
    <3> QED BY <1>2, <3>1
  <2> QED BY <2>1, <2>2, <2>3
<1>4. \A i \in 1..n : splits[i] \in Int
  BY <1>1
<1>5. ASSUME NEW i \in 1..(n + 1)
      PROVE  bounds[i] \in Int /\ bounds[i + 1] \in Int /\ bounds[i] < bounds[i + 1]
  <2>1. CASE n = 0
    <3>1. i = 1 /\ i + 1 = n + 2
      BY <1>1, <2>1
    <3> QED BY <1>1, <1>3, <3>1
  <2>2. CASE n # 0 /\ i = 1
    <3>1. 1 \in 1..n /\ bounds[i] = start /\ bounds[i + 1] = splits[1]
      BY <1>1, <1>3, <2>2
    <3> QED BY <1>1, <1>4, <3>1
  <2>3. CASE n # 0 /\ i = n + 1
    <3>1. n \in 1..n /\ i + 1 = n + 2
      BY <1>1, <2>3
    <3>2. bounds[i] = splits[n] /\ bounds[i + 1] = end
      BY <1>3, <2>3, <3>1
    <3> QED BY <1>1, <1>4, <3>1, <3>2
  <2>4. CASE n # 0 /\ i # 1 /\ i # n + 1
    <3>1. i - 1 \in 1..n /\ i \in 1..n /\ i - 1 < i /\ (i - 1) + 1 = i
      BY <1>1, <2>4
    <3>2. bounds[i] = splits[i - 1] /\ bounds[i + 1] = splits[i]
      BY <1>3, <3>1
    <3>3. splits[i - 1] < splits[i]
      BY <1>1, <3>1 DEF Rises
    <3> QED BY <1>4, <3>1, <3>2, <3>3
  <2> QED BY <2>1, <2>2, <2>3, <2>4
<1> QED BY <1>3, <1>5 DEF bounds

\* The rows it is stored as lie between them, and carry its flags and titles
\* (_save_locked, segmentation.py:815-874).
LEMMA StoredRows ==
  ASSUME NEW start, NEW end, NEW splits, NEW titles, NEW flags, NEW n, NEW k,
         IsLayout(start, end, splits, titles, flags, n, k), start < end,
         NEW transcript, NEW date, TitlesAllowed(Payload(start, end, splits, titles, flags), date),
         NEW rows, rows = SavedRows(transcript, Payload(start, end, splits, titles, flags), date)
  PROVE  /\ rows \in Seq(Range(rows)) /\ Len(rows) = k /\ DOMAIN rows = 1..k
         /\ \A i \in 1..k : /\ rows[i].transcript = transcript /\ rows[i].ordinal = i
                            /\ rows[i].start = Bounds(start, end, splits)[i]
                            /\ rows[i].end = Bounds(start, end, splits)[i + 1]
                            /\ rows[i].temporary = flags[i]
                            /\ TitleValid(rows[i].title)
                            /\ flags[i] => TemporaryTitleShapeValid(i, rows[i].title)
                            /\ ~flags[i] => rows[i].title = titles[i]
<1> DEFINE p == Payload(start, end, splits, titles, flags)
           bounds == Bounds(start, end, splits)
<1>1. /\ p.start = start /\ p.end = end /\ p.splits = splits /\ p.titles = titles /\ p.flags = flags
  BY DEF Payload
<1>2. /\ n \in Nat /\ k \in Nat /\ TopicCount(splits) = k
      /\ DOMAIN titles = 1..k /\ flags \in [1..k -> BOOLEAN]
  <2>1. /\ splits \in Seq(Int) /\ Len(splits) = n /\ titles \in Seq(Range(titles)) /\ Len(titles) = k
        /\ flags \in Seq(BOOLEAN) /\ Len(flags) = k /\ k = (IF n = 0 THEN 0 ELSE n + 1) /\ n \in Nat
    BY DEF IsLayout
  <2>2. splits = <<>> <=> n = 0
    BY <2>1
  <2> QED BY <2>1, <2>2 DEF TopicCount
<1> HIDE DEF p
<1>3. rows = [i \in 1..k |-> Row(transcript, i, bounds[i], bounds[i + 1],
                                 IF flags[i] THEN AutoTitle(i, date) ELSE titles[i], flags[i])]
  BY <1>1, <1>2 DEF SavedRows, Bounds, p
<1> HIDE DEF bounds
<1>4. rows \in Seq(Range(rows)) /\ Len(rows) = k /\ DOMAIN rows = 1..k
  <2>1. DOMAIN rows = 1..k
    BY <1>3
  <2>2. rows \in [1..k -> Range(rows)]
    <3>1. \A i \in 1..k : rows[i] \in Range(rows)
      BY <2>1 DEF Range
    <3>2. rows = [i \in 1..k |-> rows[i]]
      BY <1>3
    <3> QED BY <3>1, <3>2
  <2> QED BY <1>2, <2>1, <2>2
<1>5. ASSUME NEW i \in 1..k
      PROVE  /\ rows[i].transcript = transcript /\ rows[i].ordinal = i
             /\ rows[i].start = bounds[i] /\ rows[i].end = bounds[i + 1]
             /\ rows[i].temporary = flags[i]
             /\ rows[i].title = IF flags[i] THEN AutoTitle(i, date) ELSE titles[i]
  BY <1>3 DEF Row
<1>6. ASSUME NEW i \in 1..k
      PROVE  /\ TitleValid(rows[i].title)
             /\ flags[i] => TemporaryTitleShapeValid(i, rows[i].title)
             /\ ~flags[i] => rows[i].title = titles[i]
  <2>1. flags[i] \in BOOLEAN
    BY <1>2
  <2>2. CASE flags[i]
    <3>1. rows[i].title = AutoTitle(i, date)
      BY <1>5, <2>2
    <3> QED BY <2>2, <3>1 DEF AutoTitle, TitleValid, TemporaryTitleShapeValid
  <2>3. CASE ~flags[i]
    <3>1. rows[i].title = titles[i]
      BY <1>5, <2>3
    <3>2. TitleValid(titles[i])
      BY <1>1, <1>2, <2>3 DEF TitlesAllowed, p
    <3> QED BY <2>3, <3>1, <3>2
  <2> QED BY <2>1, <2>2, <2>3
<1>7. ASSUME NEW i \in 1..k
      PROVE  /\ rows[i].transcript = transcript /\ rows[i].ordinal = i
             /\ rows[i].start = bounds[i] /\ rows[i].end = bounds[i + 1]
             /\ rows[i].temporary = flags[i]
             /\ TitleValid(rows[i].title)
             /\ flags[i] => TemporaryTitleShapeValid(i, rows[i].title)
             /\ ~flags[i] => rows[i].title = titles[i]
  BY <1>5, <1>6
<1> QED BY <1>4, <1>7 DEF bounds

\* The titles of the rows are a list of as many.
LEMMA TitlesAreListed ==
  ASSUME NEW k \in Nat, NEW rows
  PROVE  TitlesOf(rows, k) \in Seq(Range(TitlesOf(rows, k))) /\ Len(TitlesOf(rows, k)) = k
<1> DEFINE titles == TitlesOf(rows, k)
<1>1. titles = [i \in 1..k |-> titles[i]] /\ DOMAIN titles = 1..k
  BY DEF TitlesOf
<1> HIDE DEF titles
<1>2. ASSUME NEW S, \A i \in 1..k : titles[i] \in S
      PROVE  titles \in Seq(S) /\ Len(titles) = k
  <2>1. titles \in [1..k -> S]
    BY <1>1, <1>2
  <2> QED BY <2>1
<1>3. \A i \in 1..k : titles[i] \in Range(titles)
  BY <1>1 DEF Range
<1> QED BY <1>2, <1>3 DEF titles

\* These rows, read back, are the payload with the names given to its flagged titles
\* (canonical_layout_from_rows, segmentation.py:276-359).
LEMMA SavedRowsAreRead ==
  ASSUME NEW start, NEW end, NEW splits, NEW titles, NEW flags, NEW n, NEW k,
         IsLayout(start, end, splits, titles, flags, n, k),
         NEW ordinals, RangeValid(Payload(start, end, splits, titles, flags), ordinals),
         NEW transcript, NEW date, TitlesAllowed(Payload(start, end, splits, titles, flags), date),
         NEW rows, rows = SavedRows(transcript, Payload(start, end, splits, titles, flags), date)
  PROVE  /\ IsRead(rows, k)
         /\ \A i \in 1..k : TitleValid(TitlesOf(rows, k)[i])
         /\ canonical_layout_from_rows([transcript |-> transcript, start |-> start, end |-> end],
                                       transcript, ordinals, rows)
              = Payload(start, end, splits, TitlesOf(rows, k), flags)
<1> DEFINE bounds == Bounds(start, end, splits)
           version == [transcript |-> transcript, start |-> start, end |-> end]
<1>1. /\ start \in Int /\ end \in Int /\ n \in Nat /\ k \in Nat /\ k = (IF n = 0 THEN 0 ELSE n + 1)
      /\ n <= MaxTopicSections - 1 /\ flags \in [1..k -> BOOLEAN] /\ splits \in [1..n -> Int]
  BY DEF IsLayout
<1>2. start < end /\ Contiguous(ordinals) /\ start >= 0 /\ end <= Cardinality(ordinals)
  BY DEF RangeValid, Payload
<1>3. /\ rows \in Seq(Range(rows)) /\ Len(rows) = k /\ DOMAIN rows = 1..k
      /\ \A i \in 1..k : /\ rows[i].transcript = transcript /\ rows[i].ordinal = i
                         /\ rows[i].start = bounds[i] /\ rows[i].end = bounds[i + 1]
                         /\ rows[i].temporary = flags[i]
                         /\ TitleValid(rows[i].title)
                         /\ flags[i] => TemporaryTitleShapeValid(i, rows[i].title)
  BY <1>2, StoredRows
<1>4. /\ \A i \in 1..(n + 1) : bounds[i] \in Int /\ bounds[i + 1] \in Int /\ bounds[i] < bounds[i + 1]
      /\ bounds[1] = start /\ bounds[n + 2] = end
      /\ \A i \in 1..n : bounds[i + 1] = splits[i]
  BY <1>2, BoundsRise
<1> HIDE DEF bounds
<1>5. \A i \in 1..k : i \in 1..(n + 1)
  BY <1>1
<1>6. IsRead(rows, k)
  <2>1. \A i \in 1..k : IsSection(rows[i])
    <3> TAKE i \in 1..k
    <3>1. bounds[i] \in Int /\ bounds[i + 1] \in Int /\ flags[i] \in BOOLEAN /\ i \in Int
      BY <1>1, <1>4, <1>5
    <3> QED BY <1>3, <3>1 DEF IsSection
  <2>2. \A i, j \in 1..k : i < j => rows[i].ordinal < rows[j].ordinal
    BY <1>3
  <2> QED BY <1>3, <2>1, <2>2 DEF IsRead
<1>7. \A i \in 1..k : TitleValid(TitlesOf(rows, k)[i])
  BY <1>3 DEF TitlesOf
<1>8. \A i \in 1..k : PythonRow(version, transcript, rows, i)
  <2> TAKE i \in 1..k
  <2>1. rows[i].start = IF i - 1 = 0 THEN version.start ELSE rows[i - 1].end
    <3>1. CASE i = 1
      <4>1. bounds[i] = start /\ version.start = start /\ i - 1 = 0
        BY <1>4, <3>1
      <4> QED BY <1>3, <4>1
    <3>2. CASE i # 1
      <4>1. i - 1 \in 1..k /\ i - 1 # 0 /\ (i - 1) + 1 = i
        BY <1>1, <3>2
      <4>2. rows[i - 1].end = bounds[i] /\ rows[i].start = bounds[i]
        BY <1>3, <4>1
      <4> QED BY <4>1, <4>2
    <3> QED BY <3>1, <3>2
  <2>2. rows[i].end > rows[i].start
    <3>1. bounds[i] < bounds[i + 1] /\ bounds[i] \in Int /\ bounds[i + 1] \in Int
      BY <1>4, <1>5
    <3> QED BY <1>3, <3>1
  <2> HIDE DEF version
  <2> QED BY <1>3, <2>1, <2>2 DEF PythonRow
<1>9. Len(rows) # 1 /\ Len(rows) <= MaxTopicSections
  <2>1. MaxTopicSections \in Nat
    BY LayoutAssumption
  <2> QED BY <1>1, <1>3, <2>1
<1>10. rows # <<>> => rows[Len(rows)].end = version.end
  <2>1. CASE n = 0
    <3>1. Len(rows) = 0
      BY <1>1, <1>3, <2>1
    <3> QED BY <1>3, <3>1
  <2>2. CASE n # 0
    <3>1. k \in 1..k /\ k + 1 = n + 2
      BY <1>1, <2>2
    <3>2. rows[k].end = end
      BY <1>3, <1>4, <3>1
    <3> QED BY <1>3, <3>2
  <2> QED BY <2>1, <2>2
<1>11. version.transcript = transcript /\ version.start = start /\ version.end = end
  OBVIOUS
<1> DEFINE layout == [start |-> version.start, end |-> version.end,
                      splits |-> [i \in 1 .. Len(rows) - 1 |-> rows[i].end],
                      titles |-> [i \in DOMAIN rows |-> rows[i].title],
                      flags |-> [i \in DOMAIN rows |-> rows[i].temporary]]
<1>12. canonical_layout_from_rows(version, transcript, ordinals, rows) = layout
  <2> HIDE DEF version
  <2>1. version.start < version.end /\ version.start >= 0 /\ version.end <= Cardinality(ordinals)
    BY <1>2, <1>11
  <2>2. \A i \in DOMAIN rows : PythonRow(version, transcript, rows, i)
    BY <1>3, <1>8
  <2> HIDE DEF layout
  <2> QED BY <1>2, <1>9, <1>10, <1>11, <2>1, <2>2 DEF canonical_layout_from_rows, PythonRow, layout
<1>13. layout = Payload(start, end, splits, TitlesOf(rows, k), flags)
  <2>1. [i \in 1 .. Len(rows) - 1 |-> rows[i].end] = splits
    <3>1. \A i : i \in 1 .. Len(rows) - 1 <=> i \in 1..n
      BY <1>1, <1>3
    <3>2. \A i \in 1..n : rows[i].end = splits[i]
      <4>1. \A i \in 1..n : i \in 1..k
        BY <1>1
      <4> QED BY <1>3, <1>4, <4>1
    <3> QED BY <1>1, <3>1, <3>2
  <2>2. [i \in DOMAIN rows |-> rows[i].title] = TitlesOf(rows, k)
    BY <1>3 DEF TitlesOf
  <2>3. [i \in DOMAIN rows |-> rows[i].temporary] = flags
    BY <1>1, <1>3
  <2> QED BY <1>11, <2>1, <2>2, <2>3 DEF Payload
<1> QED BY <1>6, <1>7, <1>12, <1>13

\* A payload that is saved is read back by Python, with its range and its markers, and
\* believed by the SQL if it has sections; and saving what was read changes nothing, on
\* whatever later date, although the titles the server gave are of the first one.
\* (save_segmented_version and canonical_layout_from_rows,
\* src/src/workflow/services/segmentation.py:276-359, 592-874)
THEOREM SavedLayoutsAreRead ==
  ASSUME NEW start \in Int, NEW end \in Int, NEW splits \in Seq(Int),
         NEW Titles, NEW titles \in Seq(Titles), NEW flags \in Seq(BOOLEAN),
         NEW ordinals, IsFiniteSet(ordinals), ordinals \subseteq Int,
         NEW transcript, NEW current, NEW date, NEW rows,
         save_segmented_version(transcript, Payload(start, end, splits, titles, flags), current, ordinals, date)
           = [result |-> "saved", rows |-> rows],
         NEW version, version = [transcript |-> transcript, start |-> start, end |-> end],
         NEW layout, layout = canonical_layout_from_rows(version, transcript, ordinals, rows)
  PROVE  /\ ~IsError(layout)
         /\ layout.start = start /\ layout.end = end /\ Range(layout.splits) = Range(splits)
         /\ \A later : save_segmented_version(transcript, layout, {layout}, ordinals, later)
                         = [result |-> "unchanged"]
         /\ rows = <<>> \/ canonical_layout_predicate(version, transcript, Both, ordinals, RowsOf(rows))
<1> DEFINE submitted == Payload(start, end, splits, titles, flags)
           sorted == Ascending(Range(splits))
           kept == FlagsOf(titles, flags)
           payload == Payload(start, end, sorted, titles, kept)
           n == Len(splits)
           k == TopicCount(splits)
<1>1. /\ PayloadParses(submitted) /\ IsInjective(splits)
      /\ RangeValid(payload, ordinals) /\ TitlesAllowed(payload, date)
      /\ rows = SavedRows(transcript, payload, date)
  <2>1. [Parsed(submitted) EXCEPT !.splits = Ascending(Range(@))] = payload
    BY SubmittedBecomesPayload
  <2>2. submitted.splits = splits
    BY DEF Payload
  <2> HIDE DEF submitted, payload
  <2>3. /\ PayloadParses(submitted) /\ IsInjective(submitted.splits)
        /\ RangeValid(payload, ordinals) /\ TitlesAllowed(payload, date)
        /\ [result |-> "saved", rows |-> rows] = [result |-> "saved", rows |-> SavedRows(transcript, payload, date)]
    <3>1. save_segmented_version(transcript, submitted, current, ordinals, date)
            = [result |-> "saved", rows |-> rows]
      BY DEF submitted
    <3> DEFINE accepted == /\ PayloadParses(submitted) /\ IsInjective(submitted.splits)
                           /\ \A i \in DOMAIN payload.titles :
                                \/ TitleValid(payload.titles[i])
                                \/ payload.flags[i] /\ payload.titles[i].kind = "blank"
                           /\ RangeValid(payload, ordinals) /\ LayoutInvalid \notin current
               saved == [result |-> "saved", rows |-> SavedRows(transcript, payload, date)]
               answer == [result |-> "saved", rows |-> rows]
    <3>2. save_segmented_version(transcript, submitted, current, ordinals, date)
            = IF accepted
              THEN IF Unchanged(payload, current, ordinals) THEN [result |-> "unchanged"]
                   ELSE IF TitlesAllowed(payload, date) THEN saved ELSE [result |-> "error"]
              ELSE [result |-> "error"]
      BY <2>1 DEF save_segmented_version
    <3>3. answer # [result |-> "unchanged"] /\ answer # [result |-> "error"]
      <4>1. answer.result = "saved"
        OBVIOUS
      <4> QED BY <4>1
    <3>4. accepted => /\ PayloadParses(submitted) /\ IsInjective(submitted.splits)
                      /\ RangeValid(payload, ordinals)
      OBVIOUS
    <3> HIDE DEF accepted, saved, answer
    <3>5. accepted /\ TitlesAllowed(payload, date) /\ answer = saved
      <4>1. save_segmented_version(transcript, submitted, current, ordinals, date) = answer
        BY <3>1 DEF answer
      <4> DEFINE unchanged == Unchanged(payload, current, ordinals)
                 allowed == TitlesAllowed(payload, date)
      <4>2. answer = IF accepted
                     THEN IF unchanged THEN [result |-> "unchanged"]
                          ELSE IF allowed THEN saved ELSE [result |-> "error"]
                     ELSE [result |-> "error"]
        BY <3>2, <4>1
      <4> HIDE DEF unchanged, allowed
      <4>3. accepted
        BY <3>3, <4>2
      <4>4. ~unchanged
        BY <3>3, <4>2, <4>3
      <4>5. allowed
        BY <3>3, <4>2, <4>3, <4>4
      <4>6. answer = saved
        BY <4>2, <4>3, <4>4, <4>5
      <4> QED BY <4>3, <4>5, <4>6 DEF allowed
    <3> QED BY <3>4, <3>5 DEF answer, saved
  <2>4. rows = SavedRows(transcript, payload, date)
    <3>1. [result |-> "saved", rows |-> rows].rows = [result |-> "saved", rows |-> SavedRows(transcript, payload, date)].rows
      BY <2>3
    <3> QED BY <3>1
  <2> QED BY <2>2, <2>3, <2>4
<1>2. IsLayout(start, end, sorted, titles, kept, n, k) /\ Range(sorted) = Range(splits)
  <2> HIDE DEF sorted
  <2>1. sorted = Ascending(Range(splits))
    BY DEF sorted
  <2> QED BY <1>1, <2>1, SubmittedBecomesLayout
<1> HIDE DEF sorted, kept, n, k
<1>3. /\ IsRead(rows, k) /\ \A i \in 1..k : TitleValid(TitlesOf(rows, k)[i])
      /\ canonical_layout_from_rows([transcript |-> transcript, start |-> start, end |-> end],
                                    transcript, ordinals, rows)
           = Payload(start, end, sorted, TitlesOf(rows, k), kept)
  BY <1>1, <1>2, SavedRowsAreRead
<1>4. layout = Payload(start, end, sorted, TitlesOf(rows, k), kept)
  BY <1>3
<1>5. /\ ~IsError(layout) /\ layout.start = start /\ layout.end = end /\ layout.splits = sorted
      /\ LayoutInvalid # layout
  BY <1>4 DEF IsError, Payload, LayoutInvalid
<1>6. IsLayout(start, end, sorted, TitlesOf(rows, k), kept, n, k)
  <2>1. k \in Nat
    BY <1>2 DEF IsLayout
  <2>2. TitlesOf(rows, k) \in Seq(Range(TitlesOf(rows, k))) /\ Len(TitlesOf(rows, k)) = k
    BY <2>1, TitlesAreListed
  <2> QED BY <1>2, <2>2 DEF IsLayout
<1>7. RangeValid(layout, ordinals)
  BY <1>1, <1>5 DEF RangeValid, Payload
<1>8. \A later : save_segmented_version(transcript, layout, {layout}, ordinals, later)
                   = [result |-> "unchanged"]
  BY <1>3, <1>4, <1>6, <1>7, ResubmittedIsUnchanged
<1>9. rows = <<>> \/ canonical_layout_predicate(version, transcript, Both, ordinals, RowsOf(rows))
  <2>1. version.transcript = transcript /\ version.start \in Int /\ version.end \in Int
    OBVIOUS
  <2>2. k \in Nat
    BY <1>2 DEF IsLayout
  <2> QED BY <1>3, <1>5, <2>1, <2>2, ReadersAgree
<1> QED BY <1>2, <1>5, <1>8, <1>9

-----------------------------------------------------------------------------
(* The results of the keyword engine *)

\* What is behind fewer than its place has all elements in the order of a relation.
LEMMA ChosenIsInOrder ==
  ASSUME NEW S, IsFiniteSet(S), NEW R, OrdersTotally(R, S), NEW list,
         list = [i \in 1..Cardinality(S) |-> CHOOSE x \in S : Cardinality(Ahead(R, S, x)) = i - 1]
  PROVE  IsInOrder(list, S, R)
<1>1. \A i \in 1..Cardinality(S) : \E x \in S : Cardinality(Ahead(R, S, x)) = i - 1
  BY PositionsAreTaken
<1>2. ASSUME NEW i \in 1..Cardinality(S)
      PROVE  list[i] \in S /\ Cardinality(Ahead(R, S, list[i])) = i - 1
  <2>1. list[i] = CHOOSE x \in S : Cardinality(Ahead(R, S, x)) = i - 1
    OBVIOUS
  <2>2. PICK x \in S : Cardinality(Ahead(R, S, x)) = i - 1
    BY <1>1
  <2> QED BY <2>1, <2>2
<1>3. list \in [1..Cardinality(S) -> S]
  BY <1>2
<1> QED BY <1>2, <1>3 DEF IsInOrder

\* Entries with keys of one length, no two the same, and which is before which.
Keyed(S, m) == \A e \in S : e.key \in [1..m -> Int] /\ \A f \in S : e # f => e.key # f.key
Earlier(S) == {ef \in S \X S : Before(ef[1].key, ef[2].key)}

\* It orders them strictly.
LEMMA EarlierIsAnOrder ==
  ASSUME NEW m \in Nat, NEW S, Keyed(S, m)
  PROVE  /\ \A e, f \in S : <<e, f>> \in Earlier(S) <=> Before(e.key, f.key)
         /\ OrdersTotally(Earlier(S), S)
<1>1. \A e, f \in S : <<e, f>> \in Earlier(S) <=> Before(e.key, f.key)
  BY DEF Earlier
<1>2. ASSUME NEW e \in S, NEW f \in S, NEW g \in S
      PROVE  /\ ~Before(e.key, e.key)
             /\ Before(e.key, f.key) /\ Before(f.key, g.key) => Before(e.key, g.key)
             /\ e # f => Before(e.key, f.key) \/ Before(f.key, e.key)
  <2>1. e.key \in [1..m -> Int] /\ f.key \in [1..m -> Int] /\ g.key \in [1..m -> Int]
    BY DEF Keyed
  <2>2. e # f => e.key # f.key
    BY DEF Keyed
  <2> QED BY <2>1, <2>2, BeforeIsAnOrder
<1> QED BY <1>1, <1>2 DEF OrdersTotally

\* Ordered puts entries in their order.
LEMMA OrderedIsInOrder ==
  ASSUME NEW m \in Nat, NEW S, IsFiniteSet(S), Keyed(S, m)
  PROVE  IsInOrder(Ordered(S), S, Earlier(S))
<1>1. \A x \in S : {y \in S : Before(y.key, x.key)} = Ahead(Earlier(S), S, x)
  BY EarlierIsAnOrder DEF Ahead
<1>2. Ordered(S) = [i \in 1..Cardinality(S) |->
                     CHOOSE x \in S : Cardinality({y \in S : Before(y.key, x.key)}) = i - 1]
  BY DEF Ordered, Sorted
<1>3. Ordered(S) = [i \in 1..Cardinality(S) |->
                     CHOOSE x \in S : Cardinality(Ahead(Earlier(S), S, x)) = i - 1]
  BY <1>1, <1>2
<1>4. OrdersTotally(Earlier(S), S)
  BY EarlierIsAnOrder
<1> QED BY <1>3, <1>4, ChosenIsInOrder

\* The best of some entries is before all others.
LEMMA BestExists ==
  ASSUME NEW m \in Nat, NEW S, IsFiniteSet(S), S # {}, Keyed(S, m)
  PROVE  Best(S) \in S /\ \A f \in S \ {Best(S)} : Before(Best(S).key, f.key)
<1>1. PICK e \in S : \A f \in S \ {e} : <<e, f>> \in Earlier(S)
  BY EarlierIsAnOrder, FirstExists
<1>2. \A f \in S \ {e} : Before(e.key, f.key)
  BY <1>1, EarlierIsAnOrder
<1> QED BY <1>1, <1>2 DEF Best

\* A page has the first elements of the list.
IsPage(page, list, n, S, limit) ==
  /\ Len(list) = n
  /\ page \in Seq(S)
  /\ Len(page) = IF n <= limit THEN n ELSE limit
  /\ \A i \in 1..Len(page) : i \in 1..n /\ page[i] = list[i]

\* A page is the beginning of its list.
LEMMA PageOfList ==
  ASSUME NEW n \in Nat, NEW S, NEW list \in [1..n -> S], NEW limit \in Nat
  PROVE  IsPage(Page(list, limit), list, n, S, limit)
<1>1. list \in Seq(S) /\ Len(list) = n
  OBVIOUS
<1> DEFINE m == IF n <= limit THEN n ELSE limit
<1>2. m \in 0..n
  OBVIOUS
<1>3. Page(list, limit) = SubSeq(list, 1, m)
  BY <1>1 DEF Page
<1> HIDE DEF m
<1>4. /\ SubSeq(list, 1, m) \in Seq(S) /\ Len(SubSeq(list, 1, m)) = m
      /\ \A i \in 1..m : SubSeq(list, 1, m)[i] = list[i]
  BY <1>1, <1>2
<1>5. \A i \in 1..m : i \in 1..n
  BY <1>2
<1> QED BY <1>1, <1>3, <1>4, <1>5 DEF m, IsPage

\* When no more than n of the rows are among the first n + 1, there are no more.
LEMMA NoMoreThanFetched ==
  ASSUME NEW rows, IsRows(rows), NEW n \in Nat, Cardinality(FirstRows(rows, n + 1)) <= n
  PROVE  Cardinality(rows) <= n
<1> DEFINE first == FirstRows(rows, n + 1)
           UpTo(x) == {r \in rows : r.document <= x.document}
           D == {ss \in rows \X rows : ss[1].document < ss[2].document}
<1>1. IsFiniteSet(rows) /\ \A r \in rows : r.document \in Int
  BY DEF IsRows
<1>2. OrdersTotally(D, rows)
  BY RowsAreOrdered
<1>3. \A r, s \in rows : <<r, s>> \in D <=> r.document < s.document
  OBVIOUS
<1>4. Cardinality(rows) \in Nat
  BY <1>1, FS_CardinalityType
<1>5. \A x \in rows : x \in first <=> Cardinality(UpTo(x)) <= n + 1
  BY DEF FirstRows
<1> HIDE DEF D
<1> SUFFICES ASSUME Cardinality(rows) > n PROVE FALSE
  BY <1>4
<1>6. n + 1 \in 1..Cardinality(rows)
  BY <1>4
<1>7. PICK x \in rows : Cardinality(Ahead(D, rows, x)) = (n + 1) - 1
  BY <1>1, <1>2, <1>6, PositionsAreTaken
<1>8. x \notin Ahead(D, rows, x) /\ IsFiniteSet(Ahead(D, rows, x))
  <2>1. x \notin Ahead(D, rows, x) /\ Ahead(D, rows, x) \in SUBSET rows
    BY <1>2 DEF Ahead, OrdersTotally
  <2> QED BY <1>1, <2>1, FS_Subset
<1>9. UpTo(x) = Ahead(D, rows, x) \cup {x}
  <2>1. ASSUME NEW y \in rows
        PROVE  y.document <= x.document <=> <<y, x>> \in D \/ y = x
    <3>1. y.document \in Int /\ x.document \in Int
      BY <1>1
    <3>2. <<y, x>> \in D <=> y.document < x.document
      BY <1>3
    <3>3. y.document = x.document => y = x
      BY DEF IsRows
    <3> QED BY <3>1, <3>2, <3>3
  <2> QED BY <2>1 DEF Ahead
<1>10. IsFiniteSet(UpTo(x)) /\ Cardinality(UpTo(x)) = n + 1
  <2> HIDE DEF UpTo
  <2>1. Cardinality(Ahead(D, rows, x) \cup {x}) = Cardinality(Ahead(D, rows, x)) + 1
        /\ IsFiniteSet(Ahead(D, rows, x) \cup {x})
    BY <1>8, FS_AddElement
  <2> QED BY <1>7, <1>9, <2>1
<1>11. UpTo(x) \in SUBSET first
  <2>1. ASSUME NEW y \in UpTo(x)
        PROVE  y \in first
    <3>1. y \in rows /\ UpTo(y) \in SUBSET UpTo(x)
      <4>1. y \in rows /\ y.document <= x.document
        OBVIOUS
      <4>2. \A r \in rows : r.document <= y.document => r.document <= x.document
        BY <1>1, <4>1
      <4> QED BY <4>1, <4>2
    <3> HIDE DEF UpTo
    <3>2. Cardinality(UpTo(y)) <= n + 1
      BY <1>10, <3>1, FS_Subset
    <3> QED BY <1>5, <3>1, <3>2
  <2> QED BY <2>1
<1>12. IsFiniteSet(first)
  <2>1. first \in SUBSET rows
    BY DEF FirstRows
  <2> QED BY <1>1, <2>1, FS_Subset
<1> HIDE DEF UpTo, first
<1>13. Cardinality(UpTo(x)) <= Cardinality(first) /\ Cardinality(first) \in Nat
  BY <1>11, <1>12, FS_Subset, FS_CardinalityType
<1> QED BY <1>10, <1>13 DEF first

\* The values of a function of finitely many arguments are finitely many.
LEMMA ImageIsFinite ==
  ASSUME NEW S, IsFiniteSet(S), NEW f, DOMAIN f = S
  PROVE  IsFiniteSet({f[x] : x \in S})
<1> DEFINE T == {f[x] : x \in S}
           g == [x \in S |-> f[x]]
<1>1. g \in [S -> T] /\ \A t \in T : \E x \in S : g[x] = t
  OBVIOUS
<1> HIDE DEF g, T
<1>2. g \in Surjection(S, T)
  BY <1>1 DEF Surjection
<1>3. IsFiniteSet(T)
  BY <1>2, FS_Surjection
<1> QED BY <1>3 DEF T

\* What `_score_document' makes of a row.
Scored(rows) == \A row \in rows :
  row.terms.field \in Int /\ row.terms.occurrences \in Int /\ row.terms.offset \in Int

\* The best rows of the units of some rows.
EntryOf(row) == [key |-> Comparator(row), unit |-> row.unit, document |-> row.document]
EntriesOf(rows, unit) == {EntryOf(row) : row \in {r \in rows : r.unit = unit}}
UnitsOf(rows) == {row.unit : row \in rows}
Winners(rows) == {Best(EntriesOf(rows, unit)) : unit \in UnitsOf(rows)}

\* The sort key of a row ends in its document, so that no two rows are tied
\* (_comparator, search_query.py:950-957).
LEMMA ComparatorType ==
  ASSUME NEW rows, IsRows(rows), Scored(rows)
  PROVE  \A row \in rows : Comparator(row) \in [1..5 -> Int] /\ Comparator(row)[5] = row.document
<1> TAKE row \in rows
<1>1. TypeRank[row.type] \in Int /\ row.document \in Int
  BY DEF IsRows, TypeRank
<1>2. row.terms.field \in Int /\ -row.terms.occurrences \in Int /\ row.terms.offset \in Int
  BY DEF Scored
<1> QED BY <1>1, <1>2 DEF Comparator

\* One winner of each unit: it is a row, no row of the unit is better, and no two winners
\* are tied (search_recordings, search_query.py:1213-1308).
LEMMA OneWinnerOfUnits ==
  ASSUME NEW rows, IsRows(rows), Scored(rows)
  PROVE  /\ IsFiniteSet(UnitsOf(rows)) /\ IsFiniteSet(Winners(rows))
         /\ Cardinality(Winners(rows)) = Cardinality(UnitsOf(rows))
         /\ Keyed(Winners(rows), 5)
         /\ \A row \in rows : \E e \in Winners(rows) :
              e.unit = row.unit /\ (e.key = Comparator(row) \/ Before(e.key, Comparator(row)))
         /\ \A e \in Winners(rows) : \E row \in rows : e = EntryOf(row)
         /\ \A e, f \in Winners(rows) : e.unit = f.unit => e = f
<1> DEFINE all == {EntryOf(row) : row \in rows}
           best == [unit \in UnitsOf(rows) |-> Best(EntriesOf(rows, unit))]
<1>1. IsFiniteSet(rows)
  BY DEF IsRows
<1>2. IsFiniteSet(all) /\ IsFiniteSet(UnitsOf(rows))
  <2> DEFINE entry == [row \in rows |-> EntryOf(row)]
             unit == [row \in rows |-> row.unit]
  <2>1. IsFiniteSet(all)
    <3>1. all = {entry[row] : row \in rows} /\ DOMAIN entry = rows
      OBVIOUS
    <3> HIDE DEF all, entry
    <3> QED BY <1>1, <3>1, ImageIsFinite
  <2>2. IsFiniteSet(UnitsOf(rows))
    <3>1. UnitsOf(rows) = {unit[row] : row \in rows} /\ DOMAIN unit = rows
      BY DEF UnitsOf
    <3> HIDE DEF unit
    <3> QED BY <1>1, <3>1, ImageIsFinite
  <2> QED BY <2>1, <2>2
<1>3. \A row \in rows : /\ EntryOf(row).key = Comparator(row) /\ EntryOf(row).unit = row.unit
                        /\ EntryOf(row).document = row.document
  BY DEF EntryOf
<1>4. Keyed(all, 5)
  <2>1. ASSUME NEW r \in rows, NEW s \in rows, Comparator(r) = Comparator(s)
        PROVE  EntryOf(r) = EntryOf(s)
    <3>1. r.document = s.document
      BY <2>1, ComparatorType
    <3> QED BY <3>1 DEF IsRows
  <2>2. \A e \in all : \E r \in rows : e = EntryOf(r)
    OBVIOUS
  <2> HIDE DEF all
  <2> QED BY <1>3, <2>1, <2>2, ComparatorType DEF Keyed
<1>5. ASSUME NEW unit \in UnitsOf(rows)
      PROVE  /\ best[unit] \in EntriesOf(rows, unit)
             /\ \A f \in EntriesOf(rows, unit) : f = best[unit] \/ Before(best[unit].key, f.key)
  <2>1. EntriesOf(rows, unit) \in SUBSET all
    BY DEF EntriesOf
  <2>2. EntriesOf(rows, unit) # {}
    BY DEF EntriesOf, UnitsOf
  <2>3. IsFiniteSet(EntriesOf(rows, unit)) /\ Keyed(EntriesOf(rows, unit), 5)
    <3> HIDE DEF all
    <3>1. IsFiniteSet(EntriesOf(rows, unit))
      BY <1>2, <2>1, FS_Subset
    <3>2. Keyed(EntriesOf(rows, unit), 5)
      BY <1>4, <2>1 DEF Keyed
    <3> QED BY <3>1, <3>2
  <2>4. best[unit] = Best(EntriesOf(rows, unit))
    OBVIOUS
  <2> HIDE DEF best
  <2> QED BY <2>2, <2>3, <2>4, BestExists
<1>6. \A unit \in UnitsOf(rows) : \A e \in EntriesOf(rows, unit) :
        e.unit = unit /\ \E row \in rows : e = EntryOf(row)
  BY <1>3 DEF EntriesOf
<1>7. \A row \in rows : row.unit \in UnitsOf(rows) /\ EntryOf(row) \in EntriesOf(rows, row.unit)
  BY DEF UnitsOf, EntriesOf
<1>8. /\ \A e \in Winners(rows) : \E unit \in UnitsOf(rows) : e = best[unit]
      /\ \A unit \in UnitsOf(rows) : best[unit] \in Winners(rows)
      /\ best \in [UnitsOf(rows) -> Winners(rows)]
  BY DEF Winners
<1> HIDE DEF best
<1>9. \A e, f \in Winners(rows) : e.unit = f.unit => e = f
  BY <1>5, <1>6, <1>8
<1>10. \A e \in Winners(rows) : \E row \in rows : e = EntryOf(row)
  BY <1>5, <1>6, <1>8
<1>11. \A row \in rows : \E e \in Winners(rows) :
         e.unit = row.unit /\ (e.key = Comparator(row) \/ Before(e.key, Comparator(row)))
  <2> TAKE row \in rows
  <2>1. best[row.unit] \in Winners(rows) /\ best[row.unit].unit = row.unit
    BY <1>5, <1>6, <1>7, <1>8
  <2>2. EntryOf(row) = best[row.unit] \/ Before(best[row.unit].key, EntryOf(row).key)
    BY <1>5, <1>7
  <2> QED BY <1>3, <2>1, <2>2
<1>12. best \in Bijection(UnitsOf(rows), Winners(rows))
  <2>1. \A u, v \in UnitsOf(rows) : best[u] = best[v] => u = v
    BY <1>5, <1>6
  <2>2. \A e \in Winners(rows) : \E u \in UnitsOf(rows) : best[u] = e
    BY <1>8
  <2> QED BY <1>8, <2>1, <2>2 DEF Bijection, Injection, Surjection, IsInjective
<1>13. IsFiniteSet(Winners(rows)) /\ Cardinality(Winners(rows)) = Cardinality(UnitsOf(rows))
  <2>1. ExistsBijection(UnitsOf(rows), Winners(rows))
    BY <1>12 DEF ExistsBijection
  <2> QED BY <1>2, <2>1, FS_Bijection
<1>14. Keyed(Winners(rows), 5)
  <2>1. Winners(rows) \in SUBSET all
    BY <1>10
  <2> HIDE DEF all
  <2> QED BY <1>4, <2>1 DEF Keyed
<1> QED BY <1>2, <1>9, <1>10, <1>11, <1>13, <1>14

\* The first elements of a list in order: that many, in order, and before the others.
LEMMA FirstOfList ==
  ASSUME NEW S, IsFiniteSet(S), NEW R, OrdersTotally(R, S), NEW list, IsInOrder(list, S, R),
         NEW limit \in Nat, NEW page, page = Page(list, limit)
  PROVE  /\ Len(list) = Cardinality(S) /\ Cardinality(S) \in Nat
         /\ Len(page) = IF Cardinality(S) <= limit THEN Cardinality(S) ELSE limit
         /\ \A i \in 1..Len(page) : page[i] \in S
         /\ \A i, j \in 1..Len(page) : i < j => <<page[i], page[j]>> \in R
         /\ \A x \in S : \/ \E i \in 1..Len(page) : page[i] = x
                         \/ Len(page) = limit /\ \A i \in 1..Len(page) : <<page[i], x>> \in R
<1> DEFINE n == Cardinality(S)
<1>1. n \in Nat
  BY FS_CardinalityType
<1>2. list \in [1..n -> S]
  BY DEF IsInOrder
<1>3. /\ \A i, j \in 1..n : i < j <=> <<list[i], list[j]>> \in R
      /\ \A i, j \in 1..n : list[i] = list[j] => i = j
      /\ \A x \in S : \E i \in 1..n : list[i] = x
  BY ListInOrder
<1> HIDE DEF n
<1>4. /\ Len(list) = n
      /\ page \in Seq(S)
      /\ Len(page) = IF n <= limit THEN n ELSE limit
      /\ \A i \in 1..Len(page) : i \in 1..n /\ page[i] = list[i]
  <2>1. IsPage(page, list, n, S, limit)
    BY <1>1, <1>2, PageOfList
  <2> QED BY <2>1 DEF IsPage
<1> DEFINE m == Len(page)
<1>5. m \in Nat /\ m <= n
  BY <1>1, <1>4
<1> HIDE DEF m
<1>6. \A i \in 1..m : page[i] \in S /\ page[i] = list[i] /\ i \in 1..n
  <2>1. \A i \in 1..m : i \in 1..n /\ page[i] = list[i]
    BY <1>4 DEF m
  <2>2. \A i \in 1..n : list[i] \in S
    BY <1>2
  <2> QED BY <2>1, <2>2
<1>7. \A i, j \in 1..m : i < j => <<page[i], page[j]>> \in R
  BY <1>3, <1>6
<1>8. ASSUME NEW x \in S
      PROVE  \/ \E i \in 1..m : page[i] = x
             \/ m = limit /\ \A i \in 1..m : <<page[i], x>> \in R
  <2>1. PICK k \in 1..n : list[k] = x
    BY <1>3
  <2>2. CASE k <= m
    <3>1. k \in 1..m
      BY <1>5, <2>2
    <3> QED BY <1>6, <2>1, <3>1
  <2>3. CASE ~(k <= m)
    <3>1. m = limit
      BY <1>1, <1>4, <2>3 DEF m
    <3>2. \A i \in 1..m : i < k
      BY <1>1, <1>5, <2>3
    <3> QED BY <1>3, <1>6, <2>1, <3>1, <3>2
  <2> QED BY <2>2, <2>3
<1> QED BY <1>1, <1>4, <1>6, <1>7, <1>8 DEF n, m

\* What the engine answers with its winners.
Found(winners, selected, limit) ==
  [results |-> Page(winners, limit), truncated |-> selected.truncated,
   more |-> IF selected.complete THEN Len(winners) - Len(Page(winners, limit)) ELSE UnknownCount]

\* The results of the keyword engine are at most as many as asked for, in the order of
\* their keys, of different units; with a count, they and the rest are all the units that
\* match; and unless a truncation is reported, every row that matches is behind the result
\* of its unit, or behind a full page.
\* (search_recordings, src/src/workflow/services/search_query.py:1213-1308)
THEOREM SearchListsTheBest ==
  ASSUME NEW rows, IsRows(rows), Scored(rows), NEW limit \in Nat, NEW perUnit \in Nat \ {0},
         NEW maxScored \in Nat \ {0}, NEW found, found = SearchRecordings(rows, limit, perUnit, maxScored),
         NEW n, n = Len(found.results)
  PROVE  /\ n \in Nat /\ n <= limit
         /\ \A i, j \in 1..n : i < j => Before(found.results[i].key, found.results[j].key)
         /\ \A i, j \in 1..n : found.results[i].unit = found.results[j].unit => i = j
         /\ found.more # UnknownCount => n + found.more = Cardinality(UnitsOf(rows))
         /\ ~found.truncated => \A row \in rows :
              \/ \E i \in 1..n : /\ found.results[i].unit = row.unit
                                 /\ \/ found.results[i].key = Comparator(row)
                                    \/ Before(found.results[i].key, Comparator(row))
              \/ n = limit /\ \A i \in 1..n : Before(found.results[i].key, Comparator(row))
<1> DEFINE selected == SelectCandidates(rows, perUnit, maxScored)
           chosen == selected.candidates
           S == Winners(chosen)
           R == Earlier(S)
           list == Ordered(S)
           page == Page(list, limit)
<1>1. /\ found.results = page /\ found.truncated = selected.truncated
      /\ found.more = IF selected.complete THEN Len(list) - Len(page) ELSE UnknownCount
  <2>1. S = {Best({[key |-> Comparator(row), unit |-> row.unit, document |-> row.document] :
                     row \in {r \in chosen : r.unit = unit}}) : unit \in {row.unit : row \in chosen}}
    BY DEF Winners, EntriesOf, EntryOf, UnitsOf
  <2>2. SearchRecordings(rows, limit, perUnit, maxScored)
          = Found(Ordered({Best({[key |-> Comparator(row), unit |-> row.unit, document |-> row.document] :
                                   row \in {r \in chosen : r.unit = unit}}) :
                             unit \in {row.unit : row \in chosen}}), selected, limit)
    BY DEF SearchRecordings, Found
  <2> HIDE DEF S, selected
  <2>3. found = Found(list, selected, limit)
    BY <2>1, <2>2
  <2> HIDE DEF list
  <2> QED BY <2>3 DEF Found
<1>2. /\ selected.truncated <=> chosen # rows
      /\ chosen \subseteq rows
  BY TruncationIsReported
<1>3. IsRows(chosen) /\ Scored(chosen)
  <2>1. IsFiniteSet(chosen)
    <3>1. IsFiniteSet(rows) /\ chosen \in SUBSET rows
      BY <1>2 DEF IsRows
    <3> HIDE DEF chosen
    <3> QED BY <3>1, FS_Subset
  <2> HIDE DEF chosen
  <2> QED BY <1>2, <2>1 DEF IsRows, Scored
<1>4. selected.complete => UnitsOf(chosen) = UnitsOf(rows)
  <2> SUFFICES ASSUME selected.complete PROVE UnitsOf(chosen) = UnitsOf(rows)
    OBVIOUS
  <2> DEFINE kept == {row \in rows : RowNumber(row, rows) <= perUnit}
  <2>1. chosen = FirstRows(kept, maxScored) /\ Cardinality(FirstRows(kept, maxScored + 1)) <= maxScored
    BY DEF SelectCandidates, FirstRows
  <2>2. IsRows(kept)
    <3>1. IsFiniteSet(rows) /\ kept \in SUBSET rows
      BY DEF IsRows
    <3>2. IsFiniteSet(kept)
      BY <3>1, FS_Subset
    <3> HIDE DEF kept
    <3> QED BY <3>1, <3>2 DEF IsRows
  <2>3. \A row \in rows : \E r \in kept : r.unit = row.unit
    <3> TAKE row \in rows
    <3>1. PICK r \in {s \in rows : s.unit = row.unit} : RowNumber(r, rows) = 1
      BY UnitsAreNumbered
    <3>2. RowNumber(r, rows) <= perUnit
      BY <3>1
    <3> QED BY <3>1, <3>2
  <2> HIDE DEF kept, chosen
  <2>4. Cardinality(kept) <= maxScored
    BY <2>1, <2>2, NoMoreThanFetched
  <2>5. chosen = kept
    BY <2>1, <2>2, <2>4, FirstRowsAreFew
  <2> QED BY <1>2, <2>3, <2>5 DEF UnitsOf
<1> HIDE DEF selected, chosen
<1>5. /\ IsFiniteSet(UnitsOf(chosen)) /\ IsFiniteSet(S)
      /\ Cardinality(S) = Cardinality(UnitsOf(chosen))
      /\ Keyed(S, 5)
      /\ \A row \in chosen : \E e \in S :
           e.unit = row.unit /\ (e.key = Comparator(row) \/ Before(e.key, Comparator(row)))
      /\ \A e \in S : \E row \in chosen : e = EntryOf(row)
      /\ \A e, f \in S : e.unit = f.unit => e = f
  BY <1>3, OneWinnerOfUnits
<1> HIDE DEF S
<1>6. /\ \A e, f \in S : <<e, f>> \in R <=> Before(e.key, f.key)
      /\ OrdersTotally(R, S)
      /\ IsInOrder(list, S, R)
  BY <1>5, EarlierIsAnOrder, OrderedIsInOrder
<1> HIDE DEF R, list
<1>7. /\ Len(list) = Cardinality(S) /\ Cardinality(S) \in Nat
      /\ Len(page) = IF Cardinality(S) <= limit THEN Cardinality(S) ELSE limit
      /\ \A i \in 1..Len(page) : page[i] \in S
      /\ \A i, j \in 1..Len(page) : i < j => <<page[i], page[j]>> \in R
      /\ \A x \in S : \/ \E i \in 1..Len(page) : page[i] = x
                      \/ Len(page) = limit /\ \A i \in 1..Len(page) : <<page[i], x>> \in R
  BY <1>5, <1>6, FirstOfList
<1> HIDE DEF page
<1>8. n = Len(page) /\ n \in Nat /\ n <= limit /\ n <= Cardinality(S)
  BY <1>1, <1>7
<1>9. \A i, j \in 1..n : i < j => Before(page[i].key, page[j].key)
  BY <1>6, <1>7, <1>8
<1>10. \A i, j \in 1..n : page[i].unit = page[j].unit => i = j
  <2> TAKE i, j \in 1..n
  <2>1. i < j \/ j < i \/ i = j
    BY <1>8
  <2>2. page[i] \in S /\ page[j] \in S
    BY <1>7, <1>8
  <2>3. (i < j => <<page[i], page[j]>> \in R) /\ (j < i => <<page[j], page[i]>> \in R)
    BY <1>7, <1>8
  <2>4. <<page[i], page[i]>> \notin R
    BY <1>6, <2>2 DEF OrdersTotally
  <2>5. page[i].unit = page[j].unit => page[i] = page[j]
    BY <1>5, <2>2
  <2> QED BY <2>1, <2>3, <2>4, <2>5
<1>11. found.more # UnknownCount => n + found.more = Cardinality(UnitsOf(rows))
  <2> SUFFICES ASSUME found.more # UnknownCount PROVE n + found.more = Cardinality(UnitsOf(rows))
    OBVIOUS
  <2>1. selected.complete /\ found.more = Cardinality(S) - n
    BY <1>1, <1>7, <1>8
  <2>2. Cardinality(S) = Cardinality(UnitsOf(rows))
    BY <1>4, <1>5, <2>1
  <2> QED BY <1>7, <1>8, <2>1, <2>2
<1>12. ASSUME ~found.truncated, NEW row \in rows
       PROVE  \/ \E i \in 1..n : /\ page[i].unit = row.unit
                                 /\ page[i].key = Comparator(row) \/ Before(page[i].key, Comparator(row))
              \/ n = limit /\ \A i \in 1..n : Before(page[i].key, Comparator(row))
  <2>1. row \in chosen
    BY <1>1, <1>2, <1>12
  <2>2. PICK e \in S : e.unit = row.unit /\ (e.key = Comparator(row) \/ Before(e.key, Comparator(row)))
    BY <1>5, <2>1
  <2>3. CASE \E i \in 1..n : page[i] = e
    BY <2>2, <2>3
  <2>4. CASE n = limit /\ \A i \in 1..n : <<page[i], e>> \in R
    <3>1. ASSUME NEW i \in 1..n PROVE Before(page[i].key, Comparator(row))
      <4>1. page[i] \in S /\ Before(page[i].key, e.key)
        BY <1>6, <1>7, <1>8, <2>4
      <4>2. page[i].key \in [1..5 -> Int] /\ e.key \in [1..5 -> Int] /\ Comparator(row) \in [1..5 -> Int]
        BY <1>5, <4>1, ComparatorType DEF Keyed
      <4>3. Before(page[i].key, e.key) /\ Before(e.key, Comparator(row)) => Before(page[i].key, Comparator(row))
        <5>1. 5 \in Nat
          OBVIOUS
        <5> QED BY <4>2, <5>1, BeforeIsAnOrder
      <4> QED BY <2>2, <4>1, <4>3
    <3> QED BY <2>4, <3>1
  <2> QED BY <1>7, <1>8, <2>3, <2>4
<1> QED BY <1>1, <1>8, <1>9, <1>10, <1>11, <1>12

-----------------------------------------------------------------------------
(* The results of the fusion *)

\* The rows of a component: identities and their ranks.
Hits == [identity : Int, rank : Nat \ {0}]
ItemOf(keyword, semantic, i) ==
  [identity |-> i, keyword |-> RankIn(keyword, i), semantic |-> RankIn(semantic, i)]
ItemsOf(keyword, semantic) ==
  {ItemOf(keyword, semantic, i) : i \in Identities(keyword) \cup Identities(semantic)}
FusedOrder(S) == {ab \in S \X S : FusedBefore(ab[1], ab[2])}

\* The rank of an identity is that of a row of the component, and there is none exactly
\* if the component does not have it (_index_components, search_fusion.py:307-330).
LEMMA RankInType ==
  ASSUME NEW n \in Nat, NEW list \in [1..n -> Hits], NEW identity
  PROVE  /\ identity \in Identities(list) => RankIn(list, identity) \in Nat \ {0}
         /\ identity \notin Identities(list) => RankIn(list, identity) = NoRank
         /\ Identities(list) \subseteq Int /\ IsFiniteSet(Identities(list))
<1> DEFINE places == {i \in 1..n : list[i].identity = identity}
<1>1. DOMAIN list = 1..n
  OBVIOUS
<1>2. RankIn(list, identity)
        = IF places = {} THEN NoRank ELSE list[CHOOSE i \in places : \A j \in places : i <= j].rank
  BY <1>1 DEF RankIn
<1>3. identity \in Identities(list) <=> places # {}
  BY <1>1 DEF Identities
<1>4. \A i \in 1..n : list[i].identity \in Int /\ list[i].rank \in Nat \ {0}
  BY DEF Hits
<1>5. places # {} => RankIn(list, identity) \in Nat \ {0}
  <2> SUFFICES ASSUME places # {} PROVE RankIn(list, identity) \in Nat \ {0}
    OBVIOUS
  <2>1. places \subseteq 1..n /\ places \subseteq Nat
    OBVIOUS
  <2> HIDE DEF places
  <2>2. \E i \in places : \A j \in places : i <= j
    BY <2>1, LeastNumber
  <2>3. (CHOOSE i \in places : \A j \in places : i <= j) \in places
    BY <2>2
  <2> QED BY <1>2, <1>4, <2>1, <2>3
<1>6. Identities(list) \subseteq Int
  BY <1>1, <1>4 DEF Identities
<1>7. IsFiniteSet(Identities(list))
  <2> DEFINE identities == [i \in 1..n |-> list[i].identity]
  <2>1. Identities(list) = {identities[i] : i \in 1..n} /\ DOMAIN identities = 1..n
    BY <1>1 DEF Identities
  <2>2. IsFiniteSet(1..n)
    BY FS_Interval
  <2> HIDE DEF identities
  <2> QED BY <2>1, <2>2, ImageIsFinite
<1> HIDE DEF places
<1> QED BY <1>2, <1>3, <1>5, <1>6, <1>7

\* A list of one item for each identity, in the order of the fusion.
IsFusion(list, S, identities) ==
  /\ IsFiniteSet(S) /\ Cardinality(S) = Cardinality(identities)
  /\ \A a, b \in S : a.identity = b.identity => a = b
  /\ \A a, b \in S : <<a, b>> \in FusedOrder(S) <=> FusedBefore(a, b)
  /\ OrdersTotally(FusedOrder(S), S)
  /\ IsInOrder(list, S, FusedOrder(S))

\* The fused list is one.
LEMMA FusedIsInOrder ==
  ASSUME NEW kn \in Nat, NEW keyword \in [1..kn -> Hits], NEW sn \in Nat, NEW semantic \in [1..sn -> Hits],
         NEW S, S = ItemsOf(keyword, semantic)
  PROVE  IsFusion(Fused(keyword, semantic), S, Identities(keyword) \cup Identities(semantic))
<1> DEFINE ids == Identities(keyword) \cup Identities(semantic)
           item == [i \in ids |-> ItemOf(keyword, semantic, i)]
<1>1. IsFiniteSet(ids) /\ ids \subseteq Int
  BY RankInType, FS_Union
<1>2. \A i : /\ RankIn(keyword, i) \in Nat /\ RankIn(semantic, i) \in Nat
             /\ i \in ids => RankIn(keyword, i) # NoRank \/ RankIn(semantic, i) # NoRank
  BY RankInType DEF NoRank
<1> HIDE DEF ids
<1>3. \A i \in ids : ItemOf(keyword, semantic, i) \in Ranked /\ ItemOf(keyword, semantic, i).identity = i
  BY <1>1, <1>2 DEF ItemOf, Ranked, Items
<1>4. S = {item[i] : i \in ids} /\ \A i \in ids : item[i] = ItemOf(keyword, semantic, i)
  BY DEF ItemsOf, ids
<1>5. item \in [ids -> S] /\ \A a \in S : \E i \in ids : a = item[i]
  BY <1>4
<1> HIDE DEF item
<1>6. \A a \in S : a \in Ranked
  BY <1>3, <1>4, <1>5
<1>7. \A a, b \in S : a.identity = b.identity => a = b
  BY <1>3, <1>4, <1>5
<1>9. IsFiniteSet(S) /\ Cardinality(S) = Cardinality(ids)
  <2>1. \A i, j \in ids : item[i] = item[j] => i = j
    BY <1>3, <1>4
  <2>2. item \in Bijection(ids, S)
    BY <1>5, <2>1 DEF Bijection, Injection, Surjection, IsInjective
  <2>3. ExistsBijection(ids, S)
    BY <2>2 DEF ExistsBijection
  <2> QED BY <1>1, <2>3, FS_Bijection
<1>10. \A a, b \in S : <<a, b>> \in FusedOrder(S) <=> FusedBefore(a, b)
  BY DEF FusedOrder
<1>11. OrdersTotally(FusedOrder(S), S)
  <2>1. ASSUME NEW a \in S, NEW b \in S, NEW c \in S
        PROVE  /\ ~FusedBefore(a, a)
               /\ FusedBefore(a, b) /\ FusedBefore(b, c) => FusedBefore(a, c)
               /\ a # b => FusedBefore(a, b) \/ FusedBefore(b, a)
    BY <1>6, <1>7, FusionRespectsRanks
  <2> QED BY <1>10, <2>1 DEF OrdersTotally
<1>12. IsInOrder(Fused(keyword, semantic), S, FusedOrder(S))
  <2>1. \A x \in S : {y \in S : FusedBefore(y, x)} = Ahead(FusedOrder(S), S, x)
    BY <1>10 DEF Ahead
  <2>2. Fused(keyword, semantic) = [i \in 1..Cardinality(ItemsOf(keyword, semantic)) |->
          CHOOSE x \in ItemsOf(keyword, semantic) :
            Cardinality({y \in ItemsOf(keyword, semantic) : FusedBefore(y, x)}) = i - 1]
    BY DEF Fused, Sorted, ItemsOf, ItemOf
  <2>3. Fused(keyword, semantic) = [i \in 1..Cardinality(S) |->
          CHOOSE x \in S : Cardinality({y \in S : FusedBefore(y, x)}) = i - 1]
    BY <2>2
  <2>4. Fused(keyword, semantic) = [i \in 1..Cardinality(S) |->
          CHOOSE x \in S : Cardinality(Ahead(FusedOrder(S), S, x)) = i - 1]
    BY <2>1, <2>3
  <2> QED BY <1>9, <1>11, <2>4, ChosenIsInOrder
<1> QED BY <1>7, <1>9, <1>10, <1>11, <1>12 DEF ids, IsFusion

\* The fused results: at most as many as asked for, in the order of the fusion, every
\* identity once; what either component has is among them or behind a full page of them;
\* and the count of the rest is given only if both components were whole.
\* (reciprocal_rank_fusion and _assemble_payload,
\* src/src/workflow/services/search_fusion.py:307-416, 475-548)
THEOREM FusionListsEachOnce ==
  ASSUME NEW keyword, NEW kn \in Nat, keyword.results \in [1..kn -> Hits],
         NEW semantic, NEW sn \in Nat, semantic.results \in [1..sn -> Hits],
         NEW limit \in Nat, NEW answer, answer = Assembled(keyword, semantic, limit),
         NEW n, n = Len(answer.results),
         NEW ids, ids = Identities(keyword.results) \cup Identities(semantic.results)
  PROVE  /\ n \in Nat /\ n <= limit
         /\ \A i, j \in 1..n : i < j => FusedBefore(answer.results[i], answer.results[j])
         /\ \A i, j \in 1..n : answer.results[i].identity = answer.results[j].identity => i = j
         /\ \A id \in ids :
              \/ \E i \in 1..n : answer.results[i] = ItemOf(keyword.results, semantic.results, id)
              \/ /\ n = limit
                 /\ \A i \in 1..n : FusedBefore(answer.results[i], ItemOf(keyword.results, semantic.results, id))
         /\ answer.more # UnknownCount =>
              keyword.more = 0 /\ semantic.more = 0 /\ n + answer.more = Cardinality(ids)
<1> DEFINE S == ItemsOf(keyword.results, semantic.results)
           R == FusedOrder(S)
           list == Fused(keyword.results, semantic.results)
           page == Page(list, limit)
<1>1. /\ answer.results = page
      /\ answer.more = IF keyword.more = 0 /\ semantic.more = 0 THEN Len(list) - Len(page) ELSE UnknownCount
  BY DEF Assembled
<1>2. /\ IsFiniteSet(S) /\ Cardinality(S) = Cardinality(ids)
      /\ \A a, b \in S : a.identity = b.identity => a = b
      /\ \A a, b \in S : <<a, b>> \in R <=> FusedBefore(a, b)
      /\ OrdersTotally(R, S)
      /\ IsInOrder(list, S, R)
  <2>1. IsFusion(list, S, ids)
    BY FusedIsInOrder
  <2> HIDE DEF S, list
  <2> QED BY <2>1 DEF IsFusion
<1>3. \A id \in ids : ItemOf(keyword.results, semantic.results, id) \in S
  BY DEF ItemsOf
<1> HIDE DEF S, R, list
<1>4. /\ Len(list) = Cardinality(S) /\ Cardinality(S) \in Nat
      /\ Len(page) = IF Cardinality(S) <= limit THEN Cardinality(S) ELSE limit
      /\ \A i \in 1..Len(page) : page[i] \in S
      /\ \A i, j \in 1..Len(page) : i < j => <<page[i], page[j]>> \in R
      /\ \A x \in S : \/ \E i \in 1..Len(page) : page[i] = x
                      \/ Len(page) = limit /\ \A i \in 1..Len(page) : <<page[i], x>> \in R
  BY <1>2, FirstOfList
<1> HIDE DEF page
<1>5. n = Len(page) /\ n \in Nat /\ n <= limit
  BY <1>1, <1>4
<1>6. \A i, j \in 1..n : i < j => FusedBefore(page[i], page[j])
  <2>1. \A i \in 1..n : page[i] \in S
    BY <1>4, <1>5
  <2>2. \A i, j \in 1..n : i < j => <<page[i], page[j]>> \in R
    BY <1>4, <1>5
  <2> QED BY <1>2, <2>1, <2>2
<1>7. \A i, j \in 1..n : page[i].identity = page[j].identity => i = j
  <2> TAKE i, j \in 1..n
  <2>1. i < j \/ j < i \/ i = j
    BY <1>5
  <2>2. page[i] \in S /\ page[j] \in S
    BY <1>4, <1>5
  <2>3. (i < j => <<page[i], page[j]>> \in R) /\ (j < i => <<page[j], page[i]>> \in R)
    BY <1>4, <1>5
  <2>4. <<page[i], page[i]>> \notin R
    BY <1>2, <2>2 DEF OrdersTotally
  <2>5. page[i].identity = page[j].identity => page[i] = page[j]
    BY <1>2, <2>2
  <2> QED BY <2>1, <2>3, <2>4, <2>5
<1>8. ASSUME NEW x \in S
      PROVE  \/ \E i \in 1..n : page[i] = x
             \/ n = limit /\ \A i \in 1..n : FusedBefore(page[i], x)
  <2>1. \A i \in 1..n : page[i] \in S
    BY <1>4, <1>5
  <2>2. CASE \E i \in 1..n : page[i] = x
    BY <2>2
  <2>3. CASE n = limit /\ \A i \in 1..n : <<page[i], x>> \in R
    BY <1>2, <2>1, <2>3
  <2> QED BY <1>4, <1>5, <2>2, <2>3
<1>9. answer.more # UnknownCount =>
        keyword.more = 0 /\ semantic.more = 0 /\ n + answer.more = Cardinality(ids)
  <2>1. Cardinality(S) = Cardinality(ids)
    BY <1>2
  <2> QED BY <1>1, <1>4, <1>5, <2>1
<1> QED BY <1>1, <1>3, <1>5, <1>6, <1>7, <1>8, <1>9

-----------------------------------------------------------------------------
(* Languages *)

\* A language tag as it is stored.
IsTag(code) == code \in [primary : STRING, subtags : STRING, cased : BOOLEAN, wellformed : BOOLEAN]

\* A WHEN of a conditional expression.
Case(condition, value) == [when |-> condition, then |-> value]

\* A conditional expression of six cases.
LEMMA FirstOfSix ==
  ASSUME NEW p \in [1..6 -> BOOLEAN], NEW v, NEW default
  PROVE  FirstOf(<<Case(p[1], v[1]), Case(p[2], v[2]), Case(p[3], v[3]), Case(p[4], v[4]),
                   Case(p[5], v[5]), Case(p[6], v[6])>>, default) =
           IF p[1] THEN v[1] ELSE IF p[2] THEN v[2] ELSE IF p[3] THEN v[3]
           ELSE IF p[4] THEN v[4] ELSE IF p[5] THEN v[5] ELSE IF p[6] THEN v[6] ELSE default
<1> DEFINE cases == <<Case(p[1], v[1]), Case(p[2], v[2]), Case(p[3], v[3]), Case(p[4], v[4]),
                      Case(p[5], v[5]), Case(p[6], v[6])>>
           holds == {i \in 1..6 : p[i]}
<1>1. DOMAIN cases = 1..6 /\ \A i \in 1..6 : cases[i] = Case(p[i], v[i])
  OBVIOUS
<1>2. \A i \in 1..6 : cases[i].when = p[i] /\ cases[i].then = v[i]
  BY <1>1 DEF Case
<1> HIDE DEF cases
<1>3. FirstOf(cases, default) =
        IF holds = {} THEN default ELSE cases[CHOOSE i \in holds : \A j \in holds : i <= j].then
  <2>1. holds = {i \in DOMAIN cases : cases[i].when}
    BY <1>1, <1>2
  <2> HIDE DEF holds
  <2> QED BY <2>1 DEF FirstOf
<1>4. ASSUME NEW n \in 1..6, p[n], \A j \in 1..6 : j < n => ~p[j]
      PROVE  FirstOf(cases, default) = v[n]
  <2>1. n \in holds /\ \A j \in holds : n <= j
    BY <1>4
  <2>2. \A i \in holds : (\A j \in holds : i <= j) => i = n
    BY <2>1
  <2> HIDE DEF holds
  <2>3. n = CHOOSE i \in holds : \A j \in holds : i <= j
    BY <2>1, <2>2
  <2> QED BY <1>2, <1>3, <2>1, <2>3
<1>5. ASSUME \A i \in 1..6 : ~p[i]
      PROVE  FirstOf(cases, default) = default
  <2>1. holds = {}
    BY <1>5
  <2> HIDE DEF holds
  <2> QED BY <1>3, <2>1
<1>6. \A i \in 1..6 : i = 1 \/ i = 2 \/ i = 3 \/ i = 4 \/ i = 5 \/ i = 6
  OBVIOUS
<1>7. \A n \in 1..6 : p[n] /\ (\A j \in 1..6 : j < n => ~p[j]) => FirstOf(cases, default) = v[n]
  BY <1>4
<1> HIDE DEF holds
<1>8. FirstOf(cases, default) =
        IF p[1] THEN v[1] ELSE IF p[2] THEN v[2] ELSE IF p[3] THEN v[3]
        ELSE IF p[4] THEN v[4] ELSE IF p[5] THEN v[5] ELSE IF p[6] THEN v[6] ELSE default
  <2>1. CASE p[1]
    BY <1>7, <2>1
  <2>2. CASE ~p[1] /\ p[2]
    BY <1>7, <2>2
  <2>3. CASE ~p[1] /\ ~p[2] /\ p[3]
    BY <1>7, <2>3
  <2>4. CASE ~p[1] /\ ~p[2] /\ ~p[3] /\ p[4]
    BY <1>7, <2>4
  <2>5. CASE ~p[1] /\ ~p[2] /\ ~p[3] /\ ~p[4] /\ p[5]
    BY <1>7, <2>5
  <2>6. CASE ~p[1] /\ ~p[2] /\ ~p[3] /\ ~p[4] /\ ~p[5] /\ p[6]
    BY <1>7, <2>6
  <2>7. CASE ~p[1] /\ ~p[2] /\ ~p[3] /\ ~p[4] /\ ~p[5] /\ ~p[6]
    BY <1>5, <1>6, <2>7
  <2> QED BY <2>1, <2>2, <2>3, <2>4, <2>5, <2>6, <2>7
<1> QED BY <1>8 DEF cases

\* The SQL that lists recordings by their default language computes what Python resolves
\* for each of them, whatever decisions there are.  The language of a transcript is
\* stored in its canonical spelling (langresolve.py:96-101).
\* (default_output_language_expression and resolve_default_language,
\* src/src/workflow/services/langresolve.py:25-65, 110-154)
THEOREM SqlResolvesLikePython ==
  ASSUME NEW transcript, NEW decisions, IsTag(transcript.language), transcript.language.cased,
         \A d \in decisions : d.chinese \in BOOLEAN /\ d.automatic \in BOOLEAN /\ d.verified \in BOOLEAN
  PROVE  default_output_language_expression(transcript, decisions) = resolve_default_language(transcript, decisions)
<1> DEFINE language == transcript.language
           observed == language # NoLanguage
           user == observed /\ transcript.by = "user"
           chinese == SqlIsChinese(language)
           verified == \E d \in decisions : d.verified /\ d.chinese
           automatic == \E d \in decisions : d.automatic /\ d.chinese
<1>1. chinese <=> is_chinese_family(language)
  BY DEF SqlIsChinese, is_chinese_family, canonicalize_language, NoLanguage, Unset, ChineseFamilyPrimaries, IsTag
<1>2. ChineseOrEnglish(language) = IF chinese THEN ZhHant ELSE English
  BY <1>1 DEF ChineseOrEnglish
<1>3. resolve_default_language(transcript, decisions) =
        IF user THEN IF chinese THEN ZhHant ELSE English
        ELSE IF verified \/ automatic THEN ZhHant ELSE IF chinese THEN ZhHant ELSE English
  BY <1>2 DEF resolve_default_language
<1>4. default_output_language_expression(transcript, decisions) =
        FirstOf(<<Case(user /\ chinese, ZhHant), Case(user /\ ~chinese, English), Case(verified, ZhHant),
                  Case(automatic, ZhHant), Case(observed /\ chinese, ZhHant), Case(observed /\ ~chinese, English)>>,
                English)
  BY Zenon DEF default_output_language_expression, Case
<1>5. chinese => observed
  BY DEF SqlIsChinese, NoLanguage, Unset, ChineseFamilyPrimaries
<1> DEFINE a == user /\ chinese
           b == user /\ ~chinese
           c == observed /\ chinese
           d == observed /\ ~chinese
           p == <<a, b, verified, automatic, c, d>>
           v == <<ZhHant, English, ZhHant, ZhHant, ZhHant, English>>
<1>6. /\ p \in [1..6 -> BOOLEAN]
      /\ p[1] = a /\ p[2] = b /\ p[3] = verified /\ p[4] = automatic /\ p[5] = c /\ p[6] = d
      /\ v[1] = ZhHant /\ v[2] = English /\ v[3] = ZhHant /\ v[4] = ZhHant /\ v[5] = ZhHant /\ v[6] = English
  <2>1. /\ a \in BOOLEAN /\ b \in BOOLEAN /\ verified \in BOOLEAN /\ automatic \in BOOLEAN
        /\ c \in BOOLEAN /\ d \in BOOLEAN
    BY DEF SqlIsChinese
  <2> HIDE DEF a, b, c, d, verified, automatic
  <2> QED BY <2>1
<1> HIDE DEF user, chinese, verified, automatic, observed, p, v
<1>7. default_output_language_expression(transcript, decisions) =
        IF p[1] THEN v[1] ELSE IF p[2] THEN v[2] ELSE IF p[3] THEN v[3]
        ELSE IF p[4] THEN v[4] ELSE IF p[5] THEN v[5] ELSE IF p[6] THEN v[6] ELSE English
  <2>1. default_output_language_expression(transcript, decisions) =
          FirstOf(<<Case(p[1], v[1]), Case(p[2], v[2]), Case(p[3], v[3]), Case(p[4], v[4]),
                    Case(p[5], v[5]), Case(p[6], v[6])>>, English)
    BY <1>4, <1>6, Zenon
  <2> QED BY <1>6, <2>1, FirstOfSix
<1> QED BY <1>3, <1>5, <1>6, <1>7 DEF a, b, c, d
=============================================================================
