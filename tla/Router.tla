------------------------------- MODULE Router -------------------------------
(***************************************************************************)
(* The automatic router as a function of what it observes: the windows it  *)
(* samples, the transcripts three candidate models make of them, and what  *)
(* a language model answers; its outcome is what the pipeline decides by.  *)
(* src/src/workflow/services/routing.py, audiosamples.py.                  *)
(*                                                                         *)
(* A transcript is a record of counts.  Scores are whole hundredths, as    *)
(* `round(.., 2)' leaves them, ratios and confidences thousandths; where   *)
(* the code compares binary fractions, a tie is taken to be exact.         *)
(***************************************************************************)
EXTENDS Integers, Sequences, FiniteSets

NoProfile == "none"
ChineseRoutes == {"cantonese", "mandarin"}
Routes == ChineseRoutes \cup {"european", "uncertain"}
Candidates == ChineseRoutes \cup {"european"}

Larger(a, b) == IF a >= b THEN a ELSE b
Smaller(a, b) == IF a <= b THEN a ELSE b

\* n / d to the nearest whole number, a tie to the even one.
Rounded(n, d) ==
  LET q == n \div d
      rest == 2 * (n % d)
  IN IF rest > d \/ (rest = d /\ q % 2 = 1) THEN q + 1 ELSE q

-----------------------------------------------------------------------------
(* Sampling.  Times are in sixths of a second, a duration d in seconds. *)

WINDOW_SECONDS == 15
MinimumSeconds == 3

\* Beginning, middle and end.  Up to 45 seconds each ends where the next one
\* begins, and rounding decides for the duration whether they touch.
SampleWindows(d) ==
  LET w == Smaller(6 * WINDOW_SECONDS, 2 * d)
  IN << <<0, w>>,
        <<Larger(0, 3 * d - (w \div 2)), 3 * d + (w \div 2)>>,
        <<Larger(0, 6 * d - w), 6 * d>> >>

\* One turn of the loop that merges them.
MergeNext(merged, next, touch) ==
  LET n == Len(merged)
      last == merged[n]
  IN IF next[1] < last[2] \/ (touch /\ next[1] = last[2])
     THEN [merged EXCEPT ![n] = <<last[1], Larger(last[2], next[2])>>]
     ELSE Append(merged, next)
MergedWindows(d, touch) ==
  LET w == SampleWindows(d)
  IN MergeNext(MergeNext(<<w[1]>>, w[2], touch), w[3], touch)

\* `_frames_peak_silence' unpacks the bytes of a window as 16 bit words, however
\* wide its samples are: of wider ones the halves, of narrower ones the pairs,
\* which needs an even number of them.  An 8 bit sample is unsigned.
SILENCE_PEAK_THRESHOLD == 250
Signed16(n) == IF n >= 32768 THEN n - 65536 ELSE n
Words(samples, width) ==
  CASE width = 2 -> {samples[i] : i \in DOMAIN samples}
    [] width = 4 -> {Signed16(samples[i] % 65536) : i \in DOMAIN samples}
                    \cup {samples[i] \div 65536 : i \in DOMAIN samples}
    [] width = 1 -> {Signed16(samples[2 * i - 1] + 256 * samples[2 * i]) : i \in 1..(Len(samples) \div 2)}
Unpacks(samples, width) == width = 1 => Len(samples) % 2 = 0
SilentWindow(samples, width) ==
  \A word \in Words(samples, width) : word \in (1 - SILENCE_PEAK_THRESHOLD)..(SILENCE_PEAK_THRESHOLD - 1)

\* What `extract_samples' returns or raises.  A source has its duration, or
\* Unknown; the width of its samples, if it is read as it is, or it is converted
\* to 16 bits, and what comes of that; frames: the samples in every window.
Unknown == -1
Sampled(source, touch, frames) ==
  LET converts == source.duration = Unknown \/ source.width \notin {1, 2, 4}
      duration == IF converts THEN source.converted ELSE source.duration
      width == IF converts THEN 2 ELSE source.width
      windows == MergedWindows(duration, touch)
      Failure(code) == [failure |-> code, windows |-> <<>>, voiced |-> {}]
  IN IF converts /\ source.conversion # "done"
     THEN Failure(IF source.duration = Unknown THEN "unreadable_audio" ELSE source.conversion)
     ELSE IF duration = Unknown THEN Failure("unreadable_audio")
     ELSE IF duration < MinimumSeconds THEN Failure("too_short")
     ELSE IF \E i \in 1..Len(windows) : ~Unpacks(frames[i], width) THEN Failure("exception")
     ELSE [failure |-> "none", windows |-> windows,
           voiced |-> {i \in 1..Len(windows) : ~SilentWindow(frames[i], width)}]

AllSilent(bundle) == bundle.voiced = {}

-----------------------------------------------------------------------------
(* Evidence.  A transcript: [chars, cjk, traditional, simplified, cantonese,
   mandarin, tokens, degenerate], characters without spaces, characters and
   markers counted in it, and how many of its tokens are one or two letters. *)

\* `marker_score': hits in 100 characters.
MarkerScore(hits, text) == IF text.chars = 0 THEN 0 ELSE Rounded(10000 * hits, text.chars)
CjkRatio(text) == IF text.chars = 0 THEN 0 ELSE Rounded(1000 * text.cjk, text.chars)
ScriptRatio(text) ==
  IF text.traditional + text.simplified = 0 THEN 500
  ELSE Rounded(1000 * text.traditional, text.traditional + text.simplified)

ZhFamilyEvidence(hk, cn) ==
  [hkCantonese |-> MarkerScore(hk.cantonese, hk), hkMandarin |-> MarkerScore(hk.mandarin, hk),
   cnCantonese |-> MarkerScore(cn.cantonese, cn), cnMandarin |-> MarkerScore(cn.mandarin, cn),
   hkScript |-> ScriptRatio(hk), cnScript |-> ScriptRatio(cn)]

\* In ten-thousandths: the score, and a tenth of the ratio of the script.
HkScore(e) == 100 * e.hkCantonese + e.hkScript
CnScore(e) == 100 * e.cnMandarin + (1000 - e.cnScript)

\* `_zh_verdict'
ZhVerdict(e) ==
  LET hk == HkScore(e)
      cn == CnScore(e)
      Verdict(route, ambiguous) == [route |-> route, ambiguous |-> ambiguous]
  IN IF hk <= 0 /\ cn <= 0 THEN Verdict("uncertain", TRUE)
     ELSE IF hk >= 2 * Larger(cn, 10) THEN Verdict("cantonese", FALSE)
     ELSE IF cn >= 2 * Larger(hk, 10) THEN Verdict("mandarin", FALSE)
     ELSE Verdict("uncertain", TRUE)

\* On the ratios as they are, before they are rounded.
MostlyCjk(text) == text.chars # 0 /\ 4 * text.cjk >= text.chars
Nonsense(text) == text.tokens = 0 \/ 2 * text.degenerate >= text.tokens
FamilyVerdict(parakeet, zh) ==
  IF MostlyCjk(zh) /\ ~MostlyCjk(parakeet) THEN "chinese"
  ELSE IF ~MostlyCjk(parakeet) /\ ~Nonsense(parakeet) THEN "european"
  ELSE IF MostlyCjk(zh) THEN "chinese"
  ELSE "uncertain"

\* What the decision is made of.  texts: the transcript of every candidate.
Evidence(texts, bundle) ==
  [scores |-> ZhFamilyEvidence(texts["cantonese"], texts["mandarin"]),
   zh |-> ZhVerdict(ZhFamilyEvidence(texts["cantonese"], texts["mandarin"])),
   family |-> FamilyVerdict(texts["european"], texts["cantonese"]),
   cjk |-> CjkRatio(texts["cantonese"]),
   windows |-> Len(bundle.windows), voiced |-> bundle.voiced]

-----------------------------------------------------------------------------
(* The gate: what may be routed although no classifier answered. *)

\* A candidate of the gate: the score of its markers, and the larger one of what
\* speaks against it.
Target(route, s) == IF route = "cantonese" THEN s.hkCantonese ELSE s.cnMandarin
Opposing(route, s) ==
  IF route = "cantonese" THEN Larger(s.hkMandarin, s.cnMandarin) ELSE Larger(s.hkCantonese, s.cnCantonese)

Passes(route, e, gate) ==
  /\ route \in gate.families
  /\ e.zh.route = route
  /\ Target(route, e.scores) >= gate.minScore[route]
  /\ 100 * Target(route, e.scores) >= gate.dominance * Larger(Opposing(route, e.scores), 1)
  /\ Opposing(route, e.scores) <= gate.maxOpposing

\* `evaluate_heuristic_gate': exactly one candidate passes, or there is no route.
GateRoute(e, gate) ==
  LET passing == {route \in ChineseRoutes : Passes(route, e, gate)}
  IN IF /\ gate.enabled
        /\ e.family = "chinese" /\ ~e.zh.ambiguous
        /\ e.windows >= 2 /\ Cardinality(e.voiced) >= gate.minVoiced
        /\ e.cjk >= gate.minCjk
        /\ \E route \in passing : passing = {route}
     THEN CHOOSE route \in passing : TRUE
     ELSE NoProfile

-----------------------------------------------------------------------------
(* The classifier.  A reply is [http, rejects, envelope, content]: the status of
   the response, 0 if there was none; whether its text rejects the structured
   format; whether it is a completion; and what the model wrote. *)

Successful(reply) == reply.http \in 200..299

\* `_capability_rejection': the status, the name of the parameter and a word that
\* it is not supported.
CapabilityRejection(reply) == reply.http \in {400, 422} /\ reply.namesParameter /\ reply.saysUnsupported

\* `_parse_classifier_json': one object, bare, in one fence, or after one bounded
\* block of thinking.  content: [wrapper, thinkLength, body, route, confidence].
MAX_THINK_BLOCK_CHARS == 10000
\* What `_decode_single_object' finds after the wrapper.
Bodies == {"object", "no_json_object", "invalid_json", "multiple_objects", "trailing_commentary"}
ContentError(content) ==
  IF content.wrapper = "think" /\ content.thinkLength > MAX_THINK_BLOCK_CHARS THEN "think_block_too_large"
  ELSE IF content.wrapper \in {"think_fence", "open_think", "prose"} THEN "no_json_object"
  ELSE IF content.body # "object" THEN content.body
  ELSE IF content.route \notin Routes THEN "invalid_route"
  ELSE IF content.confidence.kind # "number" THEN "invalid_confidence"
  ELSE IF content.confidence.value \notin 0..1000 THEN "confidence_out_of_range"
  ELSE "none"
ReplyError(reply) == IF ~reply.envelope THEN "invalid_envelope" ELSE ContentError(reply.content)

Answered(reply, calls) ==
  [result |-> "valid", route |-> reply.content.route, confidence |-> reply.content.confidence.value, calls |-> calls]
Unanswered(result, calls) == [result |-> result, route |-> "uncertain", confidence |-> 0, calls |-> calls]

\* A plain or a repair request: what comes of it is final.
SecondRequest(reply, calls) ==
  IF ~Successful(reply) THEN Unanswered("unavailable", calls)
  ELSE IF ReplyError(reply) # "none" THEN Unanswered("invalid", calls)
  ELSE Answered(reply, calls)

\* `classify_with_omlx': with a format, and then once without it where the server
\* does not know it, or once more where what was written is not valid.
Classify(model, first, second) ==
  IF model = "" THEN Unanswered("unavailable", <<>>)
  ELSE IF Successful(first)
  THEN IF ReplyError(first) = "none" THEN Answered(first, <<"structured">>)
       ELSE SecondRequest(second, <<"structured", "repair">>)
  ELSE IF CapabilityRejection(first) THEN SecondRequest(second, <<"structured", "plain">>)
  ELSE Unanswered("unavailable", <<"structured">>)

-----------------------------------------------------------------------------
(* The outcome *)

NoConfidence == -1
Review(route, confidence, reason) ==
  [route |-> route, profile |-> NoProfile, confidence |-> confidence, reason |-> reason, ready |-> FALSE]
\* With the profile of the route, its model and its language.
Automatic(route, confidence, reason) ==
  [route |-> route, profile |-> route, confidence |-> confidence, reason |-> reason, ready |-> TRUE]

\* `_classifier_failed_outcome'; result is "unavailable" or "invalid".
ClassifierFailed(config, e, result) ==
  LET route == GateRoute(e, config.gate)
  IN IF route # NoProfile /\ route \in config.profiles \ config.manualOnly
     THEN Automatic(route, NoConfidence,
                    IF result = "unavailable" THEN "auto_confident_heuristic_classifier_unavailable"
                    ELSE "auto_confident_heuristic_classifier_invalid")
     ELSE Review("uncertain", NoConfidence,
                 IF result = "unavailable" THEN "classifier_unavailable" ELSE "classifier_invalid")

FamilyOf(route) == IF route \in ChineseRoutes THEN "chinese" ELSE "european"
Contradicts(route, e) == e.family # "uncertain" /\ route # "uncertain" /\ FamilyOf(route) # e.family

Classified(config, e, answer) ==
  LET route == answer.route
  IN IF Contradicts(route, e) THEN Review("uncertain", NoConfidence, "contradictory_evidence")
     ELSE IF route \in ChineseRoutes /\ (e.zh.ambiguous \/ e.zh.route \notin {"uncertain", route})
     THEN Review(route, answer.confidence, "zh_ambiguous")
     ELSE IF route # "uncertain" /\ answer.confidence >= config.threshold
     THEN Automatic(route, answer.confidence, "auto_confident")
     ELSE Review(route, answer.confidence, "low_confidence")

\* `route_recording'.  texts: what the candidates transcribed, NoText if one failed.
NoText == [chars |-> -1]
\* An exception reaches the pipeline, which fails the recording.
RouteRecording(config, bundle, texts, answer) ==
  IF ~config.enabled THEN Review("uncertain", NoConfidence, "routing_disabled")
  ELSE IF bundle.failure = "exception" THEN Review(NoProfile, NoConfidence, "routing_exception")
  ELSE IF bundle.failure # "none"
  THEN Review("uncertain", NoConfidence, IF bundle.failure = "too_short" THEN "too_short" ELSE "sampling_failed")
  ELSE IF AllSilent(bundle) THEN Review("uncertain", NoConfidence, "silent_audio")
  ELSE IF \E c \in Candidates : texts[c] = NoText THEN Review("uncertain", NoConfidence, "candidates_disagree")
  ELSE LET e == Evidence(texts, bundle)
       IN IF answer.result = "valid" THEN Classified(config, e, answer)
          ELSE ClassifierFailed(config, e, answer.result)

\* `_apply_outcome': what the recording becomes, and what its decision names.
Decision(config, outcome) ==
  [profile |-> IF outcome.profile # NoProfile THEN outcome.profile ELSE outcome.route,
   model |-> outcome.profile # NoProfile,
   status |-> IF outcome.ready /\ config.autoTranscribe THEN "ready_to_transcribe" ELSE "needs_review"]
=============================================================================
