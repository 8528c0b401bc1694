-------------------------- MODULE WebActionsProofs --------------------------
(***************************************************************************)
(* Proofs about module WebActions: what the fingerprint of a page does     *)
(* achieve although it lacks the failed stage and most of the attempts.    *)
(***************************************************************************)
EXTENDS PipelineProofs, WebActions

-----------------------------------------------------------------------------
(* The inductive invariant *)

\* The recording was never routed: neither by the router nor by the user.
Early(row) == row.status \in {"absent", "discovered", "routing"} \/ RoutingFailed(row)

\* Before its first decision a recording has routing attempts only, and it never
\* comes back to where it was before.
Phase(row, d, atts, t, s) ==
  /\ Early(row) => d = NoDecision /\ \A i \in DOMAIN atts : atts[i].stage = "routing"
  /\ ~Early(row) => d.ordinal # 0
  /\ t <= Len(atts) /\ \A l \in OutputLanguages : s[l] <= Len(atts)

\* An attempt that was started after the page was rendered is the first of a
\* recording that was undecided then, or its success can be seen: there is a newer
\* transcript, or a newer summary in its language.
Noticeable(page, a, t, s) ==
  /\ a.stage = "routing" => page.print.decision = NoDecision
  /\ a.outcome = "success" /\ a.stage = "transcription" => t > page.seen
  /\ a.outcome = "success" /\ a.language # NoLanguage =>
       t > page.seen \/ s[a.language] > page.seen

\* What a page that was rendered of a recording says of it as it is now.
PageHolds(page, row, d, atts, t, s) ==
  LET n == page.seen
      print == page.print
  IN /\ n \in Nat /\ n <= Len(atts)
     /\ print.transcript <= n /\ print.summary <= n /\ print.lastAttempt <= n
     /\ \A i \in n + 1 .. Len(atts) : Noticeable(page, atts[i], t, s)
     /\ page.summarized = print.languages
     /\ Early(row) => print.decision = NoDecision
     /\ page.failureStage \in {"", "routing", "transcription"}
     /\ page.failureStage # "" <=> print.status = "failed"
     /\ page.failureStage # "" =>
          (page.failureStage = "routing" <=> print.decision = NoDecision)

\* A route command names a profile.
Commanded == \A p \in Procs : job[p].cmd = "route" => job[p].profile # None

Phases == \A r \in Recordings : Phase(rec[r], decision[r], attempts[r], transcript[r], summary[r])

FormHolds ==
  /\ form # NoForm =>
       LET r == form.recording
       IN r \in Recordings
          /\ PageHolds(form, rec[r], decision[r], attempts[r], transcript[r], summary[r])
  /\ gated # {} => form # NoForm

WebInv == Inv /\ SummaryInv /\ Commanded /\ Phases /\ FormHolds

-----------------------------------------------------------------------------
(* The newest attempt *)

LEMMA OrdinalType ==
  ASSUME NEW atts \in Seq(Attempt), NEW i \in DOMAIN atts
  PROVE  /\ Ordinal(atts, i) \in Nat /\ Ordinal(atts, i) <= Len(atts)
         /\ (\A j \in DOMAIN atts : atts[j].stage = "routing") => Ordinal(atts, i) = i
<1> DEFINE n == Len(atts)
           S == {j \in 1..i : atts[j].stage = atts[i].stage}
<1>1. n \in Nat /\ DOMAIN atts = 1..n /\ i \in 1..n
  BY LenProperties
<1>2. IsFiniteSet(1..i) /\ Cardinality(1..i) = i
  BY <1>1, FS_Interval
<1>3. Cardinality(S) \in Nat /\ Cardinality(S) <= i
  BY <1>2, FS_Subset, FS_CardinalityType
<1>4. ASSUME \A j \in DOMAIN atts : atts[j].stage = "routing"
      PROVE  S = 1..i
  BY <1>1, <1>4
<1>5. Ordinal(atts, i) = Cardinality(S)
  BY DEF Ordinal
<1> HIDE DEF S
<1> QED  BY <1>1, <1>2, <1>3, <1>4, <1>5

\* The attempt a page shows as the newest is one there is; of routing attempts
\* only, it is indeed the newest.
LEMMA LastAttemptType ==
  ASSUME NEW atts \in Seq(Attempt)
  PROVE  /\ LastAttempt(atts) \in Nat /\ LastAttempt(atts) <= Len(atts)
         /\ (\A j \in DOMAIN atts : atts[j].stage = "routing") => LastAttempt(atts) = Len(atts)
<1> DEFINE n == Len(atts)
           ord(i) == Ordinal(atts, i)
           Later(i, j) == ord(j) < ord(i) \/ (ord(j) = ord(i) /\ j < i)
<1>1. n \in Nat /\ DOMAIN atts = 1..n
  BY LenProperties
<1>2. CASE atts = <<>>
  BY <1>2 DEF LastAttempt
<1>3. CASE atts # <<>>
  <2>1. n \in Nat \ {0}
    BY <1>3, EmptySeq, Zenon
  <2>2. \A i \in 1..n : ord(i) \in Nat /\ ord(i) <= n
    BY <1>1, OrdinalType
  <2> HIDE DEF ord
  <2> DEFINE O == {ord(i) : i \in 1..n}
             m == Newest(O)
             T == {i \in 1..n : ord(i) = m}
             k == Newest(T)
  <2>3. m \in O /\ \A o \in O : o <= m
    <3>1. O \in SUBSET Nat /\ O # {} /\ \A o \in O : o <= n
      BY <1>1, <2>1, <2>2
    <3> HIDE DEF O
    <3> QED  BY <1>1, <3>1, NewestExists
  <2>4. k \in T /\ \A j \in T : j <= k
    <3>1. PICK i \in 1..n : ord(i) = m
      BY <2>3
    <3> HIDE DEF m
    <3>2. T \in SUBSET Nat /\ T # {} /\ \A j \in T : j <= n
      BY <1>1, <3>1
    <3> HIDE DEF T
    <3> QED  BY <1>1, <3>2, NewestExists
  <2>5. \A j \in 1..n \ {k} : Later(k, j)
    <3>1. SUFFICES ASSUME NEW j \in 1..n, j # k
                   PROVE  Later(k, j)
      OBVIOUS
    <3>2. k \in 1..n /\ ord(k) = m /\ ord(j) \in Nat /\ m \in Nat /\ ord(j) <= m
      BY <2>2, <2>3, <2>4
    <3>3. ord(j) = m => j <= k
      BY <2>4
    <3> HIDE DEF k, m
    <3> QED  BY <1>1, <3>1, <3>2, <3>3
  <2>6. k \in 1..n
    BY <2>4
  <2> DEFINE a == CHOOSE i \in 1..n : \A j \in 1..n \ {i} : Later(i, j)
  <2>7. a \in 1..n /\ \A j \in 1..n \ {a} : Later(a, j)
    <3> HIDE DEF k, Later
    <3> QED  BY <2>5, <2>6
  <2>8. LastAttempt(atts) = a
    BY <1>1, <1>3 DEF LastAttempt, ord
  <2>9. ASSUME \A j \in DOMAIN atts : atts[j].stage = "routing"
        PROVE  a = n
    <3>1. \A i \in 1..n : ord(i) = i
      BY <1>1, <2>9, OrdinalType DEF ord
    <3>2. n \in 1..n
      BY <1>1, <2>1
    <3>3. a # n => ord(n) < ord(a) \/ (ord(n) = ord(a) /\ n < a)
      BY <2>7, <3>2
    <3> HIDE DEF a
    <3>4. a \in 1..n
      BY <2>7
    <3> HIDE DEF n
    <3>5. a # n => n < a
      BY <3>1, <3>2, <3>3, <3>4
    <3> QED  BY <1>1, <3>4, <3>5
  <2> HIDE DEF a, Later
  <2>10. a \in Nat /\ a <= n
    BY <1>1, <2>7
  <2> QED  BY <2>8, <2>9, <2>10
<1> QED  BY <1>2, <1>3

-----------------------------------------------------------------------------
(* The course of a recording *)

\* An attempt whose success makes a transcript or a summary.
Productive(a) == a.stage = "transcription" \/ a.language # NoLanguage

\* What may become of a recording in one step: the first decision ends its early
\* phase for good; attempts are added and closed, never removed; the success of a
\* productive one is that of the new transcript, or of the new summary in its
\* language.
Course(r) ==
  LET n == Len(attempts[r])
      NewSuccess(i) == /\ attempts'[r][i].outcome = "success" /\ Productive(attempts[r][i])
                       /\ attempts[r][i].outcome # "success"
  IN /\ \/ decision'[r] = decision[r] /\ (Early(rec'[r]) <=> Early(rec[r]))
        \/ decision'[r].ordinal # 0 /\ ~Early(rec'[r])
     /\ attempts'[r] \in Seq(Attempt) /\ n <= Len(attempts'[r])
     /\ \A i \in 1..n : /\ attempts'[r][i].stage = attempts[r][i].stage
                        /\ attempts'[r][i].language = attempts[r][i].language
     /\ \A i \in n + 1 .. Len(attempts'[r]) :
          /\ attempts'[r][i].outcome = "running"
          /\ attempts'[r][i].stage = "routing" <=> Early(rec'[r])
     /\ \/ /\ transcript'[r] = transcript[r] /\ summary'[r] = summary[r]
           /\ \A i \in 1..n : ~NewSuccess(i)
        \/ /\ transcript'[r] = n
           /\ summary'[r] = NoSummaries
        \/ /\ transcript'[r] = transcript[r]
           /\ n > 0 /\ attempts[r][n].stage = "summarization"
           /\ \A l \in OutputLanguages :
                summary'[r][l] = IF l = attempts[r][n].language THEN n ELSE summary[r][l]
           /\ \A i \in 1..n : NewSuccess(i) => i = n

LEMMA CoursePhase ==
  ASSUME NEW r \in Recordings, Course(r), attempts[r] \in Seq(Attempt),
         transcript[r] \in Nat, summary[r] \in [OutputLanguages -> Nat],
         Phase(rec[r], decision[r], attempts[r], transcript[r], summary[r])
  PROVE  Phase(rec'[r], decision'[r], attempts'[r], transcript'[r], summary'[r])
<1> DEFINE n == Len(attempts[r])
           m == Len(attempts'[r])
<1>1. /\ n \in Nat /\ m \in Nat /\ n <= m
      /\ DOMAIN attempts[r] = 1..n /\ DOMAIN attempts'[r] = 1..m
  BY LenProperties DEF Course
<1>2. transcript'[r] <= m /\ \A l \in OutputLanguages : summary'[r][l] <= m
  <2>1. transcript[r] <= n /\ \A l \in OutputLanguages : summary[r][l] <= n
    BY DEF Phase
  <2>2. transcript'[r] <= n /\ \A l \in OutputLanguages : summary'[r][l] <= n
    BY <1>1, <2>1 DEF Course, NoSummaries
  <2>3. m \in Nat /\ n <= m /\ transcript'[r] \in Nat
        /\ \A l \in OutputLanguages : summary'[r][l] \in Nat
    BY <1>1 DEF Course, NoSummaries
  <2> HIDE DEF n, m
  <2> QED  BY <1>1, <2>2, <2>3
<1>3. ASSUME ~Early(rec'[r])
      PROVE  decision'[r].ordinal # 0
  BY <1>3 DEF Course, Phase
<1>4. ASSUME Early(rec'[r])
      PROVE  decision'[r] = NoDecision /\ \A i \in 1..m : attempts'[r][i].stage = "routing"
  <2>1. decision'[r] = decision[r] /\ Early(rec[r])
    BY <1>4 DEF Course
  <2>2. ASSUME NEW i \in 1..m
        PROVE  attempts'[r][i].stage = "routing"
    <3>1. CASE i \in 1..n
      BY <1>1, <2>1, <3>1 DEF Course, Phase
    <3>2. CASE i \notin 1..n
      <4>1. i \in n + 1 .. m
        BY <1>1, <3>2
      <4> QED  BY <1>4, <4>1 DEF Course
    <3> QED  BY <3>1, <3>2
  <2> QED  BY <2>1, <2>2 DEF Phase
<1> HIDE DEF n, m
<1> QED  BY <1>1, <1>2, <1>3, <1>4 DEF Phase, m

LEMMA CoursePage ==
  ASSUME NEW r \in Recordings, NEW page, Course(r), attempts[r] \in Seq(Attempt),
         transcript[r] \in Nat, summary[r] \in [OutputLanguages -> Nat],
         Phase(rec[r], decision[r], attempts[r], transcript[r], summary[r]),
         PageHolds(page, rec[r], decision[r], attempts[r], transcript[r], summary[r])
  PROVE  PageHolds(page, rec'[r], decision'[r], attempts'[r], transcript'[r], summary'[r])
<1> DEFINE n == Len(attempts[r])
           m == Len(attempts'[r])
           k == page.seen
<1>1. /\ n \in Nat /\ m \in Nat /\ n <= m /\ k \in Nat /\ k <= n
      /\ DOMAIN attempts[r] = 1..n /\ DOMAIN attempts'[r] = 1..m
  BY LenProperties DEF Course, PageHolds
<1>2. Early(rec'[r]) => page.print.decision = NoDecision
  BY DEF Course, PageHolds
<1>3. /\ transcript[r] > k => transcript'[r] > k
      /\ \A l \in OutputLanguages : summary[r][l] > k =>
           transcript'[r] > k \/ summary'[r][l] > k
  <2>1. transcript[r] <= n /\ \A l \in OutputLanguages : summary[r][l] <= n
    BY DEF Phase
  <2> QED  BY <1>1, <2>1 DEF Course
<1>4. ASSUME NEW i \in k + 1 .. m
      PROVE  Noticeable(page, attempts'[r][i], transcript'[r], summary'[r])
  <2>1. CASE i \in n + 1 .. m
    BY <1>2, <2>1 DEF Course, Noticeable
  <2>2. CASE i \notin n + 1 .. m
    <3> DEFINE a == attempts'[r][i]
               b == attempts[r][i]
    <3>1. i \in 1..n /\ i \in k + 1 .. n /\ i > k /\ i \in Nat /\ n > k
      BY <1>1, <2>2
    <3>2. a.stage = b.stage /\ a.language = b.language
      BY <3>1 DEF Course
    <3>3. Noticeable(page, b, transcript[r], summary[r])
      BY <3>1 DEF PageHolds
    <3>4. b.language # NoLanguage => b.language \in OutputLanguages
      <4>1. b \in Attempt
        BY <1>1, <3>1, ElementOfSeq
      <4> QED  BY <4>1 DEF Attempt
    <3>5. a.outcome = "success" /\ Productive(b) /\ b.outcome # "success" =>
            \/ transcript'[r] = n
            \/ /\ b.stage = "summarization" /\ i = n
               /\ \A l \in OutputLanguages :
                    summary'[r][l] = IF l = attempts[r][n].language THEN n ELSE summary[r][l]
      BY <3>1 DEF Course
    <3>6. i = n => b = attempts[r][n]
      OBVIOUS
    <3> HIDE DEF a, b, n
    <3>7. CASE ~(a.outcome = "success" /\ Productive(b) /\ b.outcome # "success")
      <4>1. Noticeable(page, a, transcript'[r], summary'[r])
        BY <1>3, <3>2, <3>3, <3>4, <3>7 DEF Productive, Noticeable
      <4> QED  BY <4>1 DEF a
    <3>8. CASE a.outcome = "success" /\ Productive(b) /\ b.outcome # "success"
      <4>1. CASE transcript'[r] = n
        <5>1. Noticeable(page, a, transcript'[r], summary'[r])
          BY <1>1, <3>1, <3>2, <3>3, <4>1 DEF Noticeable
        <5> QED  BY <5>1 DEF a
      <4>2. CASE transcript'[r] # n
        <5>1. b.stage = "summarization" /\ b.language # NoLanguage
              /\ summary'[r][b.language] = n
          BY <3>4, <3>5, <3>6, <3>8, <4>2 DEF Productive
        <5>2. Noticeable(page, a, transcript'[r], summary'[r])
          BY <1>1, <3>1, <3>2, <5>1 DEF Noticeable
        <5> QED  BY <5>2 DEF a
      <4> QED  BY <4>1, <4>2
    <3> QED  BY <3>7, <3>8
  <2> QED  BY <2>1, <2>2
<1>5. /\ page.print.transcript <= k /\ page.print.summary <= k /\ page.print.lastAttempt <= k
      /\ page.failureStage \in {"", "routing", "transcription"}
      /\ page.failureStage # "" <=> page.print.status = "failed"
      /\ page.failureStage # "" =>
           (page.failureStage = "routing" <=> page.print.decision = NoDecision)
      /\ page.summarized = page.print.languages
  BY DEF PageHolds
<1>6. k <= m
  BY <1>1
<1> HIDE DEF k, m, n
<1> QED  BY <1>1, <1>2, <1>4, <1>5, <1>6, Zenon DEF PageHolds, k, m

-----------------------------------------------------------------------------
(* Kinds of steps *)

\* The decision, the attempts, the transcript and the summary are as they were.
LEMMA Stays ==
  ASSUME NEW r \in Recordings, attempts[r] \in Seq(Attempt),
         decision'[r] = decision[r], attempts'[r] = attempts[r],
         transcript'[r] = transcript[r], summary'[r] = summary[r],
         Early(rec'[r]) <=> Early(rec[r])
  PROVE  Course(r)
<1>1. Len(attempts[r]) \in Nat
  BY LenProperties
<1>2. Len(attempts[r]) + 1 .. Len(attempts[r]) = {}
  BY <1>1
<1> QED  BY <1>1, <1>2 DEF Course

LEMMA Decided ==
  ASSUME NEW r \in Recordings, attempts[r] \in Seq(Attempt),
         decision'[r].ordinal # 0, attempts'[r] = attempts[r],
         transcript'[r] = transcript[r], summary'[r] = summary[r], ~Early(rec'[r])
  PROVE  Course(r)
<1>1. Len(attempts[r]) \in Nat
  BY LenProperties
<1>2. Len(attempts[r]) + 1 .. Len(attempts[r]) = {}
  BY <1>1
<1> QED  BY <1>1, <1>2 DEF Course

LEMMA AttemptOpened ==
  ASSUME NEW r \in Recordings, NEW a \in Attempt, attempts[r] \in Seq(Attempt),
         attempts'[r] = Append(attempts[r], a), a.outcome = "running",
         a.stage = "routing" <=> Early(rec[r]),
         decision'[r] = decision[r], transcript'[r] = transcript[r], summary'[r] = summary[r],
         Early(rec'[r]) <=> Early(rec[r])
  PROVE  Course(r)
<1> DEFINE n == Len(attempts[r])
<1>1. /\ n \in Nat /\ attempts'[r] \in Seq(Attempt) /\ Len(attempts'[r]) = n + 1
      /\ \A i \in 1..n : attempts'[r][i] = attempts[r][i]
      /\ attempts'[r][n + 1] = a
  BY AppendProperties, LenProperties
<1>2. n <= n + 1 /\ \A i \in n + 1 .. n + 1 : i = n + 1
  BY <1>1
<1>3. \A i \in 1..n : /\ attempts'[r][i].stage = attempts[r][i].stage
                     /\ attempts'[r][i].language = attempts[r][i].language
                     /\ attempts'[r][i].outcome = attempts[r][i].outcome
  BY <1>1
<1> HIDE DEF n
<1>4. \A i \in n + 1 .. Len(attempts'[r]) :
        /\ attempts'[r][i].outcome = "running"
        /\ attempts'[r][i].stage = "routing" <=> Early(rec'[r])
  BY <1>1, <1>2
<1>5. n <= Len(attempts'[r])
  BY <1>1, <1>2
<1> QED  BY <1>1, <1>3, <1>4, <1>5, Zenon DEF Course, n

\* An attempt is closed without effect on transcript and summary: it failed, or
\* was to make neither.
LEMMA Closed ==
  ASSUME NEW r \in Recordings, NEW outcome \in Outcomes, attempts[r] \in Seq(Attempt),
         attempts'[r] = FinishAttempt(attempts[r], outcome),
         outcome # "success" \/ ~Productive(attempts[r][Len(attempts[r])]),
         decision'[r] = decision[r], transcript'[r] = transcript[r], summary'[r] = summary[r],
         Early(rec'[r]) <=> Early(rec[r])
  PROVE  Course(r)
<1> DEFINE n == Len(attempts[r])
<1>1. n \in Nat /\ DOMAIN attempts[r] = 1..n
  BY LenProperties
<1>2. /\ attempts'[r] \in Seq(Attempt) /\ Len(attempts'[r]) = n
      /\ \A i \in 1..n : /\ attempts'[r][i].stage = attempts[r][i].stage
                         /\ attempts'[r][i].language = attempts[r][i].language
                         /\ attempts'[r][i].outcome =
                              IF i = n THEN outcome ELSE attempts[r][i].outcome
  BY <1>1, FinishAttemptType, FinishKeeps DEF SameAttempts
<1>3. n + 1 .. n = {}
  BY <1>1
<1> QED  BY <1>1, <1>2, <1>3 DEF Course

\* The success of an attempt is stored.
LEMMA Stored ==
  ASSUME NEW r \in Recordings, attempts[r] \in Seq(Attempt),
         attempts'[r] = FinishAttempt(attempts[r], "success"), decision'[r] = decision[r],
         \/ transcript'[r] = Len(attempts[r]) /\ summary'[r] = NoSummaries
         \/ /\ transcript'[r] = transcript[r] /\ Len(attempts[r]) > 0
            /\ attempts[r][Len(attempts[r])].stage = "summarization"
            /\ \A l \in OutputLanguages :
                 summary'[r][l] = IF l = attempts[r][Len(attempts[r])].language
                                  THEN Len(attempts[r]) ELSE summary[r][l],
         Early(rec'[r]) <=> Early(rec[r])
  PROVE  Course(r)
<1> DEFINE n == Len(attempts[r])
<1>1. n \in Nat /\ DOMAIN attempts[r] = 1..n
  BY LenProperties
<1>2. "success" \in Outcomes
  BY DEF Outcomes
<1>3. /\ attempts'[r] \in Seq(Attempt) /\ Len(attempts'[r]) = n
      /\ \A i \in 1..n : /\ attempts'[r][i].stage = attempts[r][i].stage
                         /\ attempts'[r][i].language = attempts[r][i].language
                         /\ i # n => attempts'[r][i].outcome = attempts[r][i].outcome
  BY <1>1, <1>2, FinishAttemptType, FinishKeeps DEF SameAttempts
<1>4. n + 1 .. n = {} /\ \A l \in OutputLanguages : NoSummaries[l] <= n
  BY <1>1 DEF NoSummaries
<1> QED  BY <1>1, <1>3, <1>4 DEF Course

\* Whether a recording was routed is a matter of its status and failure stage.
LEMMA SamePhase ==
  ASSUME NEW row, NEW new, new.status = row.status, new.failureStage = row.failureStage
  PROVE  Early(new) <=> Early(row)
BY DEF Early, RoutingFailed

LEMMA LatePhase ==
  ASSUME NEW row, row.status \in {"needs_review", "ready", "transcribing", "transcribed"}
  PROVE  ~Early(row)
BY DEF Early, RoutingFailed

\* Recovery closes attempts and moves recordings within their phase.
LEMMA CourseOfRecovery ==
  ASSUME Inv, RecoverInterruptions, NEW r \in Recordings
  PROVE  Course(r)
<1> DEFINE n == Len(attempts[r])
<1>1. /\ attempts[r] \in Seq(Attempt) /\ rec[r] \in RecordingRow
      /\ transcript[r] \in Nat
  BY DEF Inv, TypeOK
<1>2. n \in Nat /\ DOMAIN attempts[r] = 1..n /\ n + 1 .. n = {}
  BY <1>1, LenProperties
<1>3. /\ attempts'[r] = RecoveredAttempts(attempts[r]) /\ rec'[r] = RecoveredRow(r)
      /\ decision'[r] = decision[r] /\ transcript'[r] = transcript[r] /\ summary'[r] = summary[r]
  BY DEF RecoverInterruptions
<1>4. /\ attempts'[r] \in Seq(Attempt) /\ Len(attempts'[r]) = n
      /\ \A i \in 1..n : /\ attempts'[r][i].stage = attempts[r][i].stage
                         /\ attempts'[r][i].language = attempts[r][i].language
                         /\ attempts'[r][i].outcome = IF attempts[r][i].outcome = "running"
                                                      THEN "interrupted" ELSE attempts[r][i].outcome
  BY <1>1, <1>2, <1>3, RecoveredAttemptsType, RecoveryKeeps DEF SameAttempts
<1>5. Early(RecoveredStatus(r)) <=> Early(rec[r])
  <2>1. CASE RecoveredStatus(r) = rec[r]
    BY <2>1
  <2>2. CASE rec[r].status = "transcribing" /\ RecoveredStatus(r) # rec[r]
    <3>1. RecoveredStatus(r) =
            [rec[r] EXCEPT !.status = IF transcript[r] # 0 THEN "transcribed" ELSE "ready"]
      BY <2>2 DEF RecoveredStatus
    <3>2. RecoveredStatus(r).status \in {"ready", "transcribed"}
      BY <1>1, <3>1 DEF RecordingRow
    <3> QED  BY <2>2, <3>2, LatePhase
  <2>3. CASE rec[r].status = "discovered" /\ RecoveredStatus(r) # rec[r]
    <3>1. RecoveredStatus(r) = Transition(rec[r], "routing") /\ "routing" \in Status
      BY <2>3 DEF RecoveredStatus, Status
    <3>2. RecoveredStatus(r).status = "routing"
      BY <1>1, <3>1, TransitionStatus
    <3> QED  BY <2>3, <3>2 DEF Early
  <2>4. rec[r].status \notin {"transcribing", "discovered"} => RecoveredStatus(r) = rec[r]
    BY DEF RecoveredStatus
  <2> QED  BY <2>1, <2>2, <2>3, <2>4
<1>6. Early(rec'[r]) <=> Early(rec[r])
  <2>1. CASE RecoveredRow(r) = RecoveredStatus(r)
    BY <1>3, <1>5, <2>1
  <2>2. CASE RecoveredRow(r) # RecoveredStatus(r)
    <3>1. RecoveredRow(r) = Derived(RecoveredStatus(r), RecoveredAttempts(attempts[r]),
                                    transcript[r], Default(r), summary[r][Default(r)])
      BY <2>2 DEF RecoveredRow
    <3>2. RecoveredStatus(r) \in RecordingRow
      <4>1. Transition(rec[r], "routing") \in RecordingRow
        BY <1>1, TransitionType DEF Status
      <4>2. [rec[r] EXCEPT !.status = IF transcript[r] # 0 THEN "transcribed" ELSE "ready"]
              \in RecordingRow
        BY <1>1 DEF RecordingRow, Status
      <4> QED  BY <1>1, <4>1, <4>2 DEF RecoveredStatus
    <3>3. /\ RecoveredRow(r).status = RecoveredStatus(r).status
          /\ RecoveredRow(r).failureStage = RecoveredStatus(r).failureStage
      BY <3>1, <3>2, DerivedFields
    <3> QED  BY <1>3, <1>5, <3>3, SamePhase
  <2> QED  BY <2>1, <2>2
<1> HIDE DEF n
<1> QED  BY <1>2, <1>3, <1>4, <1>6 DEF Course, n

-----------------------------------------------------------------------------
(* The actions of a command *)

\* What an action that works on recording r may assume of it.
LEMMA Subject ==
  ASSUME Inv, Phases, NEW p \in Procs, job[p].pc \notin {"idle", "recover"},
         NEW r \in Recordings
  PROVE  /\ rec \in [Recordings -> RecordingRow] /\ rec[r] \in RecordingRow
         /\ decision \in [Recordings -> Decision] /\ decision[r] \in Decision
         /\ attempts \in [Recordings -> Seq(Attempt)] /\ attempts[r] \in Seq(Attempt)
         /\ transcript \in [Recordings -> Nat] /\ transcript[r] \in Nat
         /\ summary \in [Recordings -> [OutputLanguages -> Nat]]
         /\ summary[r] \in [OutputLanguages -> Nat] /\ Len(attempts[r]) \in Nat
         /\ RowSafe(rec[r], decision[r], attempts[r], transcript[r])
         /\ Held(r, rec[r], attempts[r], job[p])
         /\ Phase(rec[r], decision[r], attempts[r], transcript[r], summary[r])
BY Running, LenProperties DEF Inv, TypeOK, Phases

\* A recording that the step does not work on.
LEMMA NotTouched ==
  ASSUME Inv, NEW r \in Recordings, rec'[r] = rec[r], decision'[r] = decision[r],
         attempts'[r] = attempts[r], transcript'[r] = transcript[r], summary'[r] = summary[r]
  PROVE  Course(r)
BY Stays DEF Inv, TypeOK

\* Steps that leave the database as it is.
LEMMA CourseOfNothing ==
  ASSUME Inv, UNCHANGED database, NEW r \in Recordings
  PROVE  Course(r)
BY NotTouched DEF database

LEMMA CourseOfStages ==
  ASSUME Inv, Phases, NEW p \in Procs, NEW r \in Recordings,
         RunIngest(p) \/ \E x \in Recordings : EnterRouting(p, x) \/ TranscribeOne(p, x)
  PROVE  Course(r)
<1>1. attempts[r] \in Seq(Attempt) /\ rec \in [Recordings -> RecordingRow]
      /\ rec[r] \in RecordingRow
  BY DEF Inv, TypeOK
<1>2. UNCHANGED <<decision, attempts, transcript, summary>>
  BY DEF RunIngest, EnterRouting, TranscribeOne
<1>3. Early(rec'[r]) <=> Early(rec[r])
  <2>1. CASE RunIngest(p)
    <3>1. \/ rec'[r] = rec[r]
          \/ rec[r].status = "absent" /\ rec'[r] = [rec[r] EXCEPT !.status = "discovered"]
      BY <2>1 DEF RunIngest
    <3>2. rec[r].status = "absent" /\ rec'[r] = [rec[r] EXCEPT !.status = "discovered"] =>
            rec'[r].status = "discovered"
      BY <1>1 DEF RecordingRow
    <3> QED  BY <3>1, <3>2 DEF Early
  <2>2. ASSUME NEW x \in Recordings, EnterRouting(p, x)
        PROVE  Early(rec'[r]) <=> Early(rec[r])
    <3>1. x # r => rec'[r] = rec[r]
      BY <1>1, <2>2 DEF EnterRouting
    <3>2. rec[x].status = "discovered"
      BY <2>2, Subject DEF EnterRouting, Turn, Held
    <3>3. rec'[x] = Transition(rec[x], "routing") /\ "routing" \in Status
          /\ rec[x] \in RecordingRow
      BY <1>1, <2>2 DEF EnterRouting, Status
    <3>4. rec'[x].status = "routing"
      BY <3>3, TransitionStatus
    <3> QED  BY <3>1, <3>2, <3>4 DEF Early
  <2>3. ASSUME NEW x \in Recordings, TranscribeOne(p, x)
        PROVE  Early(rec'[r]) <=> Early(rec[r])
    <3>1. CASE UNCHANGED rec
      BY <3>1
    <3>2. CASE rec' = [rec EXCEPT ![x] = Transition(@, "transcribing")]
      <4>1. x # r => rec'[r] = rec[r]
        BY <1>1, <3>2
      <4>2. rec[x].status = "ready"
        BY <2>3, Subject DEF TranscribeOne, Turn, Held
      <4>3. rec'[x] = Transition(rec[x], "transcribing") /\ "transcribing" \in Status
            /\ rec[x] \in RecordingRow
        BY <1>1, <3>2 DEF Status
      <4>4. rec'[x].status = "transcribing"
        BY <4>3, TransitionStatus
      <4> QED  BY <4>1, <4>2, <4>4, LatePhase
    <3> QED  BY <2>3, <3>1, <3>2 DEF TranscribeOne
  <2> QED  BY <2>1, <2>2, <2>3
<1> QED  BY <1>1, <1>2, <1>3, Stays

\* A decision of the router is the next one, and the recording leaves its early phase.
LEMMA CourseOfDecide ==
  ASSUME NEW r \in Recordings, NEW prof, NEW confident, NEW ready \in BOOLEAN,
         rec \in [Recordings -> RecordingRow], decision \in [Recordings -> Decision],
         Decide(r, prof, confident, ready)
  PROVE  /\ decision'[r].ordinal # 0 /\ ~Early(rec'[r])
         /\ \A x \in Recordings \ {r} : rec'[x] = rec[x] /\ decision'[x] = decision[x]
<1> DEFINE new == IF ready THEN "ready" ELSE "needs_review"
<1>1. decision'[r].ordinal = decision[r].ordinal + 1 /\ decision[r].ordinal \in Nat
  BY DEF Decide, Decision
<1>2. rec'[r] = Transition(rec[r], new) /\ new \in Status /\ rec[r] \in RecordingRow
  BY DEF Decide, Status
<1>3. new \in {"ready", "needs_review"}
  OBVIOUS
<1> HIDE DEF new
<1>4. rec'[r].status = new
  BY <1>2, TransitionStatus
<1>5. ~Early(rec'[r])
  BY <1>3, <1>4, LatePhase
<1> QED  BY <1>1, <1>5 DEF Decide

LEMMA CourseOfRouteOne ==
  ASSUME Inv, Phases, NEW p \in Procs, NEW x \in Recordings, RouteOne(p, x),
         NEW r \in Recordings
  PROVE  Course(r)
<1>1. /\ rec \in [Recordings -> RecordingRow] /\ decision \in [Recordings -> Decision]
      /\ attempts \in [Recordings -> Seq(Attempt)]
      /\ attempts[x] \in Seq(Attempt) /\ Held(x, rec[x], attempts[x], job[p])
  BY Subject DEF RouteOne, Turn
<1>2. rec[x].status = "routing"
  BY <1>1 DEF RouteOne, Turn, Held
<1>3. CASE UNCHANGED database
  BY <1>3, CourseOfNothing
<1>4. CASE /\ Decide(x, None, FALSE, FALSE)
           /\ UNCHANGED <<attempts, transcript, summary>>
  <2>1. /\ decision'[x].ordinal # 0 /\ ~Early(rec'[x])
        /\ \A y \in Recordings \ {x} : rec'[y] = rec[y] /\ decision'[y] = decision[y]
    BY <1>1, <1>4, CourseOfDecide
  <2> QED  BY <1>1, <1>4, <2>1, Decided, NotTouched
<1>5. CASE /\ attempts' = [attempts EXCEPT ![x] = Append(@, NewAttempt("routing", 0, NoLanguage, FALSE))]
           /\ UNCHANGED <<rec, decision, transcript, summary>>
  <2>1. NewAttempt("routing", 0, NoLanguage, FALSE) \in Attempt
    BY NewAttemptType DEF Stages
  <2>2. NewAttempt("routing", 0, NoLanguage, FALSE).stage = "routing"
        /\ NewAttempt("routing", 0, NoLanguage, FALSE).outcome = "running"
    BY DEF NewAttempt
  <2>3. Early(rec[x])
    BY <1>2 DEF Early
  <2>4. attempts'[x] = Append(attempts[x], NewAttempt("routing", 0, NoLanguage, FALSE))
        /\ \A y \in Recordings \ {x} : attempts'[y] = attempts[y]
    BY <1>1, <1>5
  <2>5. CASE r = x
    BY <1>1, <1>5, <2>1, <2>2, <2>3, <2>4, <2>5, AttemptOpened
  <2>6. CASE r # x
    BY <1>5, <2>4, <2>6, NotTouched
  <2> QED  BY <2>5, <2>6
<1> QED  BY <1>3, <1>4, <1>5 DEF RouteOne

LEMMA CourseOfRouting ==
  ASSUME Inv, SummaryInv, Phases, NEW p \in Procs,
         RoutingFails(p) \/ RoutingSucceeds(p) \/ ApplyOutcome(p), NEW r \in Recordings
  PROVE  Course(r)
<1> DEFINE x == job[p].target
<1>1. job[p].pc \in {"routing", "outcome"} /\ x \in Recordings
  BY Running DEF RoutingFails, RoutingSucceeds, ApplyOutcome, JobOK, Busy
<1>2. /\ rec \in [Recordings -> RecordingRow] /\ decision \in [Recordings -> Decision]
      /\ attempts \in [Recordings -> Seq(Attempt)]
      /\ attempts[x] \in Seq(Attempt) /\ Held(x, rec[x], attempts[x], job[p])
      /\ rec[x] \in RecordingRow
      /\ Phase(rec[x], decision[x], attempts[x], transcript[x], summary[x])
  BY <1>1, Subject
<1>3. rec[x].status = "routing" /\ Early(rec[x])
  BY <1>1, <1>2 DEF Held, Early
<1>4. {"failed", "success"} \subseteq Outcomes
  BY DEF Outcomes
<1> HIDE DEF x
<1>5. CASE RoutingFails(p)
  <2>1. /\ attempts'[x] = FinishAttempt(attempts[x], "failed")
        /\ rec'[x] = RecordFailure(rec[x], "routing", transcript[x] # 0, Len(attempts[x]))
        /\ \A y \in Recordings \ {x} : attempts'[y] = attempts[y] /\ rec'[y] = rec[y]
        /\ UNCHANGED <<decision, transcript, summary>>
    BY <1>1, <1>2, <1>5 DEF RoutingFails, x
  <2>2. rec'[x] = [rec[x] EXCEPT !.status = "failed", !.failureStage = "routing"]
    BY <2>1 DEF RecordFailure
  <2>3. Early(rec'[x])
    BY <1>2, <2>2 DEF Early, RoutingFailed, RecordingRow
  <2> QED  BY <1>1, <1>2, <1>3, <1>4, <2>1, <2>3, Closed, NotTouched
<1>6. CASE RoutingSucceeds(p)
  <2>1. /\ attempts'[x] = FinishAttempt(attempts[x], "success")
        /\ \A y \in Recordings \ {x} : attempts'[y] = attempts[y]
        /\ UNCHANGED <<rec, decision, transcript, summary>>
    BY <1>1, <1>2, <1>6 DEF RoutingSucceeds, x
  <2>2. ~Productive(attempts[x][Len(attempts[x])])
    <3>1. attempts[x][Len(attempts[x])].language = NoLanguage
      BY <1>1, <1>6, AtWork DEF AtHand, Expects, RoutingSucceeds, Busy, x
    <3>2. Len(attempts[x]) \in DOMAIN attempts[x]
      <4>1. Len(attempts[x]) # 0
        BY <1>1, <1>6, AtWork DEF RoutingSucceeds, Busy, x
      <4> QED  BY <1>2, <4>1, LenProperties
    <3>3. attempts[x][Len(attempts[x])].stage = "routing"
      BY <1>2, <1>3, <3>2 DEF Phase
    <3> QED  BY <3>1, <3>3 DEF Productive
  <2> QED  BY <1>1, <1>2, <1>4, <2>1, <2>2, Closed, NotTouched
<1>7. CASE ApplyOutcome(p)
  <2>1. PICK prof \in Profiles \cup {None}, confident \in BOOLEAN, ready \in BOOLEAN :
          Decide(x, prof, confident, ready)
    BY <1>7 DEF ApplyOutcome, x
  <2>2. /\ decision'[x].ordinal # 0 /\ ~Early(rec'[x])
        /\ \A y \in Recordings \ {x} : rec'[y] = rec[y] /\ decision'[y] = decision[y]
    BY <1>1, <1>2, <2>1, CourseOfDecide
  <2>3. UNCHANGED <<attempts, transcript, summary>>
    BY <1>7 DEF ApplyOutcome
  <2> QED  BY <1>1, <1>2, <2>2, <2>3, Decided, NotTouched
<1> QED  BY <1>5, <1>6, <1>7

LEMMA CourseOfTranscription ==
  ASSUME Inv, Phases, NEW p \in Procs,
         BeginTranscription(p) \/ TranscriptionFails(p) \/ TranscriptionSucceeds(p),
         NEW r \in Recordings
  PROVE  Course(r)
<1> DEFINE x == job[p].target
<1>1. job[p].pc \in {"claimed", "transcribing"} /\ x \in Recordings
  BY Running DEF BeginTranscription, TranscriptionFails, TranscriptionSucceeds, JobOK, Busy
<1>2. /\ rec \in [Recordings -> RecordingRow] /\ rec[x] \in RecordingRow
      /\ attempts \in [Recordings -> Seq(Attempt)] /\ attempts[x] \in Seq(Attempt)
      /\ transcript \in [Recordings -> Nat] /\ summary \in [Recordings -> [OutputLanguages -> Nat]]
      /\ Held(x, rec[x], attempts[x], job[p])
  BY <1>1, Subject
<1>3. rec[x].status = "transcribing" /\ ~Early(rec[x])
  BY <1>1, <1>2, LatePhase DEF Held
<1>4. "failed" \in Outcomes
  BY DEF Outcomes
<1> HIDE DEF x
<1>5. CASE BeginTranscription(p)
  <2> DEFINE a == NewAttempt("transcription", 0, NoLanguage, FALSE)
  <2>1. a \in Attempt
    BY NewAttemptType DEF Stages
  <2>2. a.stage # "routing" /\ a.outcome = "running"
    BY DEF NewAttempt
  <2>3. /\ attempts'[x] = Append(attempts[x], a)
        /\ \A y \in Recordings \ {x} : attempts'[y] = attempts[y]
        /\ UNCHANGED <<rec, decision, transcript, summary>>
    BY <1>1, <1>2, <1>5 DEF BeginTranscription, x
  <2> HIDE DEF a
  <2>4. CASE r = x
    BY <1>1, <1>2, <1>3, <2>1, <2>2, <2>3, <2>4, AttemptOpened
  <2>5. CASE r # x
    BY <2>3, <2>5, NotTouched
  <2> QED  BY <2>4, <2>5
<1>6. CASE TranscriptionFails(p)
  <2>1. /\ attempts'[x] = FinishAttempt(attempts[x], "failed")
        /\ rec'[x] = RecordFailure(rec[x], "transcription", transcript[x] # 0, Len(attempts[x]))
        /\ \A y \in Recordings \ {x} : attempts'[y] = attempts[y] /\ rec'[y] = rec[y]
        /\ UNCHANGED <<decision, transcript, summary>>
    BY <1>1, <1>2, <1>6 DEF TranscriptionFails, x
  <2>2. ~Early(rec'[x])
    <3>1. CASE transcript[x] # 0
      <4>1. rec'[x] = [rec[x] EXCEPT !.status = "transcribed", !.failureStage = "",
                                     !.retranscriptionFailed = TRUE,
                                     !.lastFailed = Len(attempts[x])]
        BY <2>1, <3>1 DEF RecordFailure
      <4>2. rec'[x].status = "transcribed"
        BY <1>2, <4>1 DEF RecordingRow
      <4> QED  BY <4>2, LatePhase
    <3>2. CASE transcript[x] = 0
      <4>1. rec'[x] = [rec[x] EXCEPT !.status = "failed", !.failureStage = "transcription"]
        BY <2>1, <3>2 DEF RecordFailure
      <4> QED  BY <1>2, <4>1 DEF Early, RoutingFailed, RecordingRow
    <3> QED  BY <3>1, <3>2
  <2>3. CASE r = x
    BY <1>2, <1>3, <1>4, <2>1, <2>2, <2>3, Closed
  <2>4. CASE r # x
    BY <2>1, <2>4, NotTouched
  <2> QED  BY <2>3, <2>4
<1>7. CASE TranscriptionSucceeds(p)
  <2>1. /\ attempts'[x] = FinishAttempt(attempts[x], "success")
        /\ transcript'[x] = Len(attempts[x]) /\ summary'[x] = NoSummaries
        /\ \A y \in Recordings \ {x} :
             /\ attempts'[y] = attempts[y] /\ rec'[y] = rec[y]
             /\ transcript'[y] = transcript[y] /\ summary'[y] = summary[y]
        /\ UNCHANGED decision
    BY <1>1, <1>2, <1>7 DEF TranscriptionSucceeds, x
  <2>2. rec'[x].status = "transcribed"
    BY <1>1, <1>2, <1>7 DEF TranscriptionSucceeds, x, RecordingRow
  <2>3. ~Early(rec'[x])
    BY <2>2, LatePhase
  <2>4. CASE r = x
    BY <1>2, <1>3, <2>1, <2>3, <2>4, Stored
  <2>5. CASE r # x
    BY <2>1, <2>5, NotTouched
  <2> QED  BY <2>4, <2>5
<1> QED  BY <1>5, <1>6, <1>7

\* A summary, or the detection of a language, is begun: there is a transcript.
LEMMA CourseOfBegun ==
  ASSUME Inv, Phases, NEW p \in Procs, job[p].pc \notin {"idle", "recover"},
         NEW x \in Recordings, transcript[x] # 0,
         NEW t \in Nat, NEW l \in OutputLanguages \cup {NoLanguage}, NEW b \in BOOLEAN,
         attempts' = [attempts EXCEPT ![x] = Append(@, NewAttempt("summarization", t, l, b))],
         UNCHANGED <<rec, decision, transcript, summary>>, NEW r \in Recordings
  PROVE  Course(r)
<1> DEFINE a == NewAttempt("summarization", t, l, b)
<1>1. /\ attempts \in [Recordings -> Seq(Attempt)] /\ attempts[x] \in Seq(Attempt)
      /\ RowSafe(rec[x], decision[x], attempts[x], transcript[x])
  BY Subject
<1>2. a \in Attempt
  BY NewAttemptType DEF Stages
<1>3. a.stage # "routing" /\ a.outcome = "running"
  BY DEF NewAttempt
<1>4. attempts'[x] = Append(attempts[x], a)
      /\ \A y \in Recordings \ {x} : attempts'[y] = attempts[y]
  BY <1>1
<1> HIDE DEF a
<1>5. ~Early(rec[x])
  <2>1. rec[x].status \in {"ready", "transcribing", "transcribed"}
    BY <1>1, Zenon DEF RowSafe
  <2> QED  BY <2>1, LatePhase
<1>6. CASE r = x
  BY <1>1, <1>2, <1>3, <1>4, <1>5, <1>6, AttemptOpened
<1>7. CASE r # x
  BY <1>4, <1>7, NotTouched
<1> QED  BY <1>6, <1>7

LEMMA CourseOfBeginSummary ==
  ASSUME Inv, Phases, NEW p \in Procs, job[p].pc \notin {"idle", "recover"},
         NEW x \in Recordings, NEW selector \in Selectors,
         BeginSummary(p, x, Requested(x, selector)),
         UNCHANGED <<rec, decision, transcript, summary>>, NEW r \in Recordings
  PROVE  Course(r)
<1> DEFINE l == Requested(x, selector)
           b == job[p].cmd \in Batches
<1>1. transcript[x] # 0 /\ transcript[x] \in Nat /\ l # NoLanguage
  BY Subject DEF BeginSummary, CanSummarize
<1>2. l \in OutputLanguages
  BY <1>1, RequestedType DEF Inv
<1>3. attempts' = [attempts EXCEPT ![x] =
                     Append(@, NewAttempt("summarization", transcript[x], l, b))]
  BY DEF BeginSummary
<1> HIDE DEF l
<1>4. PICK c \in BOOLEAN : c = b
  <2>1. b \in BOOLEAN
    BY DEF b
  <2> QED  BY <2>1, Zenon
<1> HIDE DEF b
<1> QED  BY <1>1, <1>2, <1>3, <1>4, CourseOfBegun

LEMMA CourseOfSummarizeOne ==
  ASSUME Inv, Phases, NEW p \in Procs, NEW x \in Recordings, SummarizeOne(p, x),
         NEW r \in Recordings
  PROVE  Course(r)
<1>1. job[p].pc = "next" /\ job[p].selector \in Selectors
  BY Running DEF SummarizeOne, Turn, Job
<1>2. UNCHANGED <<rec, decision, transcript, summary>>
  BY DEF SummarizeOne
<1>3. CASE UNCHANGED attempts
  BY <1>2, <1>3, NotTouched
<1>4. CASE /\ transcript[x] # 0
           /\ attempts' = [attempts EXCEPT ![x] =
                Append(@, NewAttempt("summarization", 0, NoLanguage, FALSE))]
  BY <1>1, <1>2, <1>4, CourseOfBegun
<1>5. CASE BeginSummary(p, x, Requested(x, job[p].selector))
  BY <1>1, <1>2, <1>5, CourseOfBeginSummary
<1> QED  BY <1>3, <1>4, <1>5, Zenon DEF SummarizeOne

LEMMA CourseOfSummarizeDetected ==
  ASSUME Inv, Phases, NEW p \in Procs, SummarizeDetected(p), NEW r \in Recordings
  PROVE  Course(r)
<1> DEFINE x == job[p].target
<1>1. job[p].pc = "resolved" /\ x \in Recordings /\ job[p].selector \in Selectors
  BY Running DEF SummarizeDetected, JobOK, Busy, Job
<1>2. UNCHANGED <<rec, decision, transcript, summary>>
  BY DEF SummarizeDetected
<1>3. CASE UNCHANGED attempts
  BY <1>2, <1>3, NotTouched
<1>4. CASE BeginSummary(p, x, Requested(x, job[p].selector))
  BY <1>1, <1>2, <1>4, CourseOfBeginSummary
<1> QED  BY <1>3, <1>4, Zenon DEF SummarizeDetected

\* A detection makes neither a transcript nor a summary.
LEMMA CourseOfDetection ==
  ASSUME Inv, SummaryInv, Phases, NEW p \in Procs, DetectionFails(p) \/ DetectionSucceeds(p),
         NEW r \in Recordings
  PROVE  Course(r)
<1>1. job[p].pc = "detecting"
  BY DEF DetectionFails, DetectionSucceeds
<1>2. PICK x \in Recordings : x = job[p].target
  BY <1>1, Target DEF Busy
<1>3. AtHand(p, x) /\ Len(attempts[x]) # 0
  BY <1>1, <1>2, AtWork DEF Busy
<1>4. /\ attempts \in [Recordings -> Seq(Attempt)] /\ attempts[x] \in Seq(Attempt)
      /\ attempts[x][Len(attempts[x])].language = NoLanguage
  BY <1>1, <1>2, <1>3 DEF AtHand, Expects
<1>5. Held(x, rec[x], attempts[x], job[p])
  BY <1>1, Subject
<1>6. PICK outcome \in {"failed", "success"} :
        attempts' = [attempts EXCEPT ![x] = FinishAttempt(@, outcome)]
  BY <1>2 DEF DetectionFails, DetectionSucceeds
<1>7. UNCHANGED <<rec, decision, transcript, summary>>
  BY DEF DetectionFails, DetectionSucceeds
<1>8. attempts'[x] = FinishAttempt(attempts[x], outcome)
      /\ \A y \in Recordings \ {x} : attempts'[y] = attempts[y]
  BY <1>4, <1>6
<1>9. outcome \in Outcomes
  BY DEF Outcomes
<1>10. ~Productive(attempts[x][Len(attempts[x])])
  <2> DEFINE a == attempts[x][Len(attempts[x])]
  <2>1. a.stage # "transcription"
    BY <1>1, <1>2, <1>3 DEF AtHand, Expects
  <2> QED  BY <1>4, <2>1 DEF Productive
<1>11. CASE r = x
  BY <1>4, <1>7, <1>8, <1>9, <1>10, <1>11, Closed
<1>12. CASE r # x
  BY <1>7, <1>8, <1>12, NotTouched
<1> QED  BY <1>11, <1>12

\* Storing a language, or correcting it, changes no attempt and no summary.
LEMMA CourseOfLanguage ==
  ASSUME Inv, Phases, NEW p \in Procs,
         StoreDetectedLanguage(p) \/ StoreReportedLanguage(p) \/ SetLanguage(p),
         NEW r \in Recordings
  PROVE  Course(r)
<1>1. UNCHANGED <<decision, attempts, transcript, summary>>
  BY DEF StoreDetectedLanguage, StoreReportedLanguage, SetLanguage
<1>2. CASE UNCHANGED rec
  BY <1>1, <1>2, NotTouched
<1>3. CASE SetLanguage(p)
  <2>1. job[p].pc = "perform"
    BY <1>3 DEF SetLanguage, Performs
  <2>2. PICK x \in Recordings : x = job[p].target
    BY <2>1, Target
  <2>3. TypeOK /\ attempts[r] \in Seq(Attempt)
    BY DEF Inv, TypeOK
  <2>4. /\ rec'[x].status = rec[x].status /\ rec'[x].failureStage = rec[x].failureStage
        /\ \A y \in Recordings \ {x} : rec'[y] = rec[y]
    BY <1>3, <2>2, <2>3, Correcting
  <2>5. Early(rec'[x]) <=> Early(rec[x])
    BY <2>4, SamePhase
  <2>6. Early(rec'[r]) <=> Early(rec[r])
    BY <2>4, <2>5
  <2> QED  BY <1>1, <2>3, <2>6, Stays
<1> QED  BY <1>2, <1>3 DEF StoreDetectedLanguage, StoreReportedLanguage

LEMMA CourseOfSummarization ==
  ASSUME Inv, SummaryInv, Phases, NEW p \in Procs,
         SummarizationFails(p) \/ SummarizationSucceeds(p), NEW r \in Recordings
  PROVE  Course(r)
<1>1. job[p].pc = "summarizing"
  BY DEF SummarizationFails, SummarizationSucceeds
<1>2. PICK x \in Recordings : x = job[p].target
  BY <1>1, Target DEF Busy
<1> DEFINE n == Len(attempts[x])
           l == Generating(x)
<1>3. /\ AtHand(p, x) /\ n \in Nat /\ n > 0 /\ attempts[x][n].stage = "summarization"
      /\ l = attempts[x][n].language /\ l \in OutputLanguages
  BY <1>1, <1>2, Generated
<1>4. /\ TypeOK /\ rec \in [Recordings -> RecordingRow] /\ rec[x] \in RecordingRow
      /\ attempts \in [Recordings -> Seq(Attempt)] /\ attempts[x] \in Seq(Attempt)
      /\ summary \in [Recordings -> [OutputLanguages -> Nat]]
      /\ summary[x] \in [OutputLanguages -> Nat]
  BY <1>3 DEF AtHand
<1>5. "failed" \in Outcomes
  BY DEF Outcomes
<1>6. CASE SummarizationFails(p)
  <2>1. /\ attempts' = [attempts EXCEPT ![x] = FinishAttempt(attempts[x], "failed")]
        /\ rec' = [rec EXCEPT ![x] =
             Reconcile(x, FinishAttempt(attempts[x], "failed"), l, summary[x][l])]
        /\ UNCHANGED <<decision, transcript, summary>>
    BY <1>2, <1>6 DEF SummarizationFails
  <2>2. /\ attempts'[x] = FinishAttempt(attempts[x], "failed")
        /\ rec'[x] = Reconcile(x, FinishAttempt(attempts[x], "failed"), l, summary[x][l])
        /\ \A y \in Recordings \ {x} : attempts'[y] = attempts[y] /\ rec'[y] = rec[y]
    BY <1>4, <2>1
  <2>3. Early(rec'[x]) <=> Early(rec[x])
    BY <1>4, <2>2, ReconcileFields, SamePhase
  <2>4. CASE r = x
    BY <1>4, <1>5, <2>1, <2>2, <2>3, <2>4, Closed
  <2>5. CASE r # x
    BY <2>1, <2>2, <2>5, NotTouched
  <2> QED  BY <2>4, <2>5
<1>7. CASE SummarizationSucceeds(p)
  <2>1. /\ attempts' = [attempts EXCEPT ![x] = FinishAttempt(@, "success")]
        /\ rec' = [rec EXCEPT ![x] = Reconcile(x, attempts[x], l, n)]
        /\ summary' = [summary EXCEPT ![x] = [@ EXCEPT ![l] = n]]
        /\ UNCHANGED <<decision, transcript>>
    BY <1>2, <1>7 DEF SummarizationSucceeds
  <2>2. /\ attempts'[x] = FinishAttempt(attempts[x], "success")
        /\ rec'[x] = Reconcile(x, attempts[x], l, n)
        /\ summary'[x] = [summary[x] EXCEPT ![l] = n]
        /\ \A y \in Recordings \ {x} :
             attempts'[y] = attempts[y] /\ rec'[y] = rec[y] /\ summary'[y] = summary[y]
    BY <1>4, <2>1
  <2>3. \A k \in OutputLanguages :
          summary'[x][k] = IF k = attempts[x][n].language THEN n ELSE summary[x][k]
    BY <1>3, <1>4, <2>2
  <2>4. Early(rec'[x]) <=> Early(rec[x])
    BY <1>4, <2>2, ReconcileFields, SamePhase
  <2>5. CASE r = x
    BY <1>3, <1>4, <2>1, <2>2, <2>3, <2>4, <2>5, Stored
  <2>6. CASE r # x
    BY <2>1, <2>2, <2>6, NotTouched
  <2> QED  BY <2>5, <2>6
<1> QED  BY <1>6, <1>7

LEMMA CourseOfManualRoute ==
  ASSUME Inv, Phases, Commanded, NEW p \in Procs, ManualRoute(p), NEW r \in Recordings
  PROVE  Course(r)
<1> DEFINE x == job[p].target
           prof == job[p].profile
           row == rec[x]
<1>1. /\ x \in Recordings /\ prof # None /\ job[p].pc = "perform"
  BY Performing DEF ManualRoute, Performs, Commanded
<1>2. /\ rec \in [Recordings -> RecordingRow] /\ row \in RecordingRow
      /\ decision \in [Recordings -> Decision] /\ decision[x] \in Decision
      /\ attempts[x] \in Seq(Attempt)
      /\ Phase(row, decision[x], attempts[x], transcript[x], summary[x])
  BY <1>1, Subject
<1>3. UNCHANGED <<attempts, transcript, summary>>
  BY DEF ManualRoute
<1>4. CASE UNCHANGED <<rec, decision>>
  BY <1>3, <1>4, NotTouched
<1>5. CASE CanRoute(row) /\ RouteManually(x, prof)
  <2> DEFINE cleared == [row EXCEPT !.status = "ready", !.failureStage = "",
                                    !.retranscriptionFailed = FALSE]
  <2>1. cleared.status = "ready"
    BY <1>2 DEF RecordingRow
  <2> HIDE DEF cleared
  <2>2. \A y \in Recordings \ {x} : rec'[y] = rec[y] /\ decision'[y] = decision[y]
    BY <1>2, <1>5 DEF RouteManually
  <2>3. CASE decision[x].profile = prof
    <3>1. decision[x] # NoDecision
      BY <1>1, <2>3 DEF NoDecision
    <3>2. ~Early(row) /\ decision[x].ordinal # 0
      BY <1>2, <3>1 DEF Phase
    <3>3. decision'[x].ordinal = decision[x].ordinal
      BY <1>1, <1>2, <1>5, <2>3 DEF RouteManually, Decision
    <3>4. rec'[x] = row \/ rec'[x] = cleared
      BY <1>1, <1>2, <1>5, <2>3 DEF RouteManually, cleared
    <3>5. ~Early(rec'[x])
      BY <2>1, <3>2, <3>4, LatePhase
    <3> QED  BY <1>2, <1>3, <2>2, <3>2, <3>3, <3>5, Decided, NotTouched
  <2>4. CASE decision[x].profile # prof
    <3>1. decision'[x].ordinal = decision[x].ordinal + 1 /\ decision[x].ordinal \in Nat
      BY <1>1, <1>2, <1>5, <2>4 DEF RouteManually, Decision
    <3>2. \/ rec'[x] = row /\ row.status = "ready"
          \/ rec'[x] = cleared
      BY <1>1, <1>2, <1>5, <2>4 DEF RouteManually, cleared
    <3>3. ~Early(rec'[x]) /\ decision'[x].ordinal # 0
      BY <2>1, <3>1, <3>2, LatePhase
    <3> QED  BY <1>2, <1>3, <2>2, <3>3, Decided, NotTouched
  <2> QED  BY <2>3, <2>4
<1> QED  BY <1>4, <1>5 DEF ManualRoute

LEMMA CourseOfConfirm ==
  ASSUME Inv, Phases, NEW p \in Procs, ConfirmRouting(p), NEW r \in Recordings
  PROVE  Course(r)
<1> DEFINE x == job[p].target
<1>1. /\ x \in Recordings /\ job[p].pc = "perform"
  BY Performing DEF ConfirmRouting, Performs
<1>2. /\ decision \in [Recordings -> Decision] /\ decision[x] \in Decision
      /\ attempts[x] \in Seq(Attempt)
      /\ Phase(rec[x], decision[x], attempts[x], transcript[x], summary[x])
  BY <1>1, Subject
<1>3. UNCHANGED <<rec, attempts, transcript, summary>>
  BY DEF ConfirmRouting
<1>4. CASE decision' = decision
  BY <1>3, <1>4, NotTouched
<1>5. CASE decision' # decision
  <2>1. decision[x] # NoDecision /\ decision' = [decision EXCEPT ![x] = [@ EXCEPT !.verified = TRUE]]
    BY <1>5 DEF ConfirmRouting
  <2>2. ~Early(rec[x]) /\ decision[x].ordinal # 0
    BY <1>2, <2>1 DEF Phase
  <2>3. /\ decision'[x].ordinal = decision[x].ordinal
        /\ \A y \in Recordings \ {x} : decision'[y] = decision[y]
    BY <1>1, <1>2, <2>1 DEF Decision
  <2> QED  BY <1>2, <1>3, <2>2, <2>3, Decided, NotTouched
<1> QED  BY <1>4, <1>5

LEMMA CourseOfCommands ==
  ASSUME Inv, Phases, NEW p \in Procs,
         Retry(p) \/ ArchiveRecording(p) \/ RestoreRecording(p), NEW r \in Recordings
  PROVE  Course(r)
<1> DEFINE x == job[p].target
           row == rec[x]
<1>1. x \in Recordings /\ job[p].pc = "perform"
  BY Performing DEF Retry, ArchiveRecording, RestoreRecording, Performs
<1>2. /\ rec \in [Recordings -> RecordingRow] /\ row \in RecordingRow
      /\ attempts[r] \in Seq(Attempt)
  BY <1>1, Subject
<1>3. UNCHANGED <<decision, attempts, transcript, summary>>
  BY DEF Retry, ArchiveRecording, RestoreRecording
<1>4. ASSUME NEW new, rec' = [rec EXCEPT ![x] = new], Early(new) <=> Early(row)
      PROVE  Course(r)
  <2>1. rec'[x] = new /\ (r # x => rec'[r] = rec[r])
    BY <1>1, <1>2, <1>4
  <2> QED  BY <1>2, <1>3, <1>4, <2>1, Stays, NotTouched
<1>5. CASE UNCHANGED rec
  BY <1>3, <1>5, NotTouched
<1>6. ASSUME NEW b, rec' = [rec EXCEPT ![x] = [@ EXCEPT !.archived = b]]
      PROVE  Course(r)
  <2> DEFINE new == [row EXCEPT !.archived = b]
  <2>1. new.status = row.status /\ new.failureStage = row.failureStage
    BY <1>2 DEF RecordingRow
  <2>2. rec' = [rec EXCEPT ![x] = new]
    BY <1>6
  <2> HIDE DEF new
  <2> QED  BY <1>4, <2>1, <2>2, SamePhase
<1>7. CASE ArchiveRecording(p) \/ RestoreRecording(p)
  BY <1>5, <1>6, <1>7 DEF ArchiveRecording, RestoreRecording
<1>8. CASE Retry(p) /\ RoutingFailed(row) /\ rec' = [rec EXCEPT ![x] = Transition(@, "routing")]
  <2> DEFINE new == Transition(row, "routing")
  <2>1. "routing" \in Status
    BY DEF Status
  <2>2. new.status = "routing"
    BY <1>2, <2>1, TransitionStatus
  <2>3. rec' = [rec EXCEPT ![x] = new]
    BY <1>8
  <2> HIDE DEF new
  <2>4. Early(new) /\ Early(row)
    BY <1>8, <2>2 DEF Early
  <2> QED  BY <1>4, <2>3, <2>4
<1>9. CASE /\ Retry(p)
           /\ RetranscriptionFailed(row) \/ (row.status = "failed" /\ ~RoutingFailed(row))
           /\ rec' = [rec EXCEPT ![x] = [@ EXCEPT !.status = "ready", !.failureStage = ""]]
  <2> DEFINE new == [row EXCEPT !.status = "ready", !.failureStage = ""]
  <2>1. new.status = "ready"
    BY <1>2 DEF RecordingRow
  <2>2. rec' = [rec EXCEPT ![x] = new]
    BY <1>9
  <2> HIDE DEF new
  <2>3. ~Early(new)
    BY <2>1, LatePhase
  <2>4. ~Early(row)
    BY <1>9 DEF Early, RetranscriptionFailed, RoutingFailed
  <2> QED  BY <1>4, <2>2, <2>3, <2>4
<1>10. CASE Retry(p)
  BY <1>5, <1>8, <1>9, <1>10 DEF Retry
<1> QED  BY <1>7, <1>10

\* No step of a command takes a recording off its course.
LEMMA StepCourse ==
  ASSUME Inv, SummaryInv, Phases, Commanded, NEW p \in Procs, Step(p), NEW r \in Recordings
  PROVE  Course(r)
<1>1. CASE \/ SelectStage(p) \/ Finish(p) \/ TranscribeCommand(p) \/ SummarizeCommand(p)
  <2>1. UNCHANGED database
    BY <1>1 DEF SelectStage, Finish, TranscribeCommand, SummarizeCommand
  <2> QED  BY <2>1, CourseOfNothing
<1>2. CASE Recover(p) \/ RunRecover(p)
  BY <1>2, CourseOfRecovery DEF Recover, RunRecover
<1>3. CASE RunIngest(p) \/ \E x \in Recordings : EnterRouting(p, x) \/ TranscribeOne(p, x)
  BY <1>3, CourseOfStages
<1>4. CASE \E x \in Recordings : RouteOne(p, x) \/ SummarizeOne(p, x)
  BY <1>4, CourseOfRouteOne, CourseOfSummarizeOne
<1>5. CASE RoutingFails(p) \/ RoutingSucceeds(p) \/ ApplyOutcome(p)
  BY <1>5, CourseOfRouting
<1>6. CASE BeginTranscription(p) \/ TranscriptionFails(p) \/ TranscriptionSucceeds(p)
  BY <1>6, CourseOfTranscription
<1>7. CASE \/ DetectionFails(p) \/ DetectionSucceeds(p) \/ SummarizeDetected(p)
           \/ SummarizationFails(p) \/ SummarizationSucceeds(p)
  BY <1>7, CourseOfDetection, CourseOfSummarizeDetected, CourseOfSummarization
<1>8. CASE StoreDetectedLanguage(p) \/ StoreReportedLanguage(p) \/ SetLanguage(p)
  BY <1>8, CourseOfLanguage
<1>9. CASE ManualRoute(p) \/ ConfirmRouting(p)
  BY <1>9, CourseOfManualRoute, CourseOfConfirm
<1>10. CASE Retry(p) \/ ArchiveRecording(p) \/ RestoreRecording(p)
  BY <1>10, CourseOfCommands
<1> QED  BY <1>1, <1>2, <1>3, <1>4, <1>5, <1>6, <1>7, <1>8, <1>9, <1>10, Zenon DEF Step

\* All the steps of the pipeline.
LEMMA NextCourse ==
  ASSUME Inv, SummaryInv, Phases, Commanded, NEW p \in Procs, Start(p) \/ Step(p) \/ Crash(p),
         NEW r \in Recordings
  PROVE  Course(r)
<1>1. CASE Step(p)
  BY <1>1, StepCourse
<1>2. CASE Start(p) \/ Crash(p)
  <2>1. UNCHANGED database
    BY <1>2 DEF Start, StartRun, StartBatch, StartCommand, Acquire, Crash
  <2> QED  BY <2>1, CourseOfNothing
<1> QED  BY <1>1, <1>2

\* A step of a command leaves the jobs of other processes alone.
LEMMA OtherJobs ==
  ASSUME Inv, NEW p \in Procs, Step(p), ~Finish(p)
  PROVE  \A q \in Procs \ {p} : job'[q] = job[q]
<1>1. job \in [Procs -> Job] /\ JobMove(p)
  BY StepMoves DEF Inv, TypeOK
<1> QED  BY <1>1 DEF JobMove, Resume, Goto, Done, Leave, TakeUp, GoOn, EnterStage

\* A command is opened with the profile it needs, and keeps it.
LEMMA CommandedStep ==
  ASSUME Inv, Commanded, NEW p \in Procs, Start(p) \/ Step(p) \/ Crash(p)
  PROVE  Commanded'
<1>1. job \in [Procs -> Job]
  BY DEF Inv, TypeOK
<1>2. IdleJob.cmd = "none" /\ IdleJob.profile = None
  BY DEF IdleJob
<1>3. CASE Crash(p) \/ Finish(p)
  BY <1>1, <1>2, <1>3 DEF Crash, Finish, Commanded
<1>4. CASE Step(p) /\ ~Finish(p)
  <2>1. job'[p].cmd = job[p].cmd /\ job'[p].profile = job[p].profile
    BY <1>4, SameCommand
  <2>2. \A q \in Procs \ {p} : job'[q] = job[q]
    BY <1>1, <1>4, OtherJobs
  <2> QED  BY <2>1, <2>2 DEF Commanded
<1>5. ASSUME NEW j, Acquire(p, j), j.cmd = "route" => j.profile # None, j \in Job
      PROVE  Commanded'
  <2>1. job'[p] = [j EXCEPT !.pc = "recover"] /\ \A q \in Procs \ {p} : job'[q] = job[q]
    BY <1>1, <1>5 DEF Acquire
  <2>2. job'[p].cmd = j.cmd /\ job'[p].profile = j.profile
    BY <1>5, <2>1 DEF Job
  <2> QED  BY <1>5, <2>1, <2>2 DEF Commanded
<1>6. ASSUME NEW c \in Batches, NEW st \in Seq(JobStages),
             Acquire(p, [IdleJob EXCEPT !.cmd = c, !.stages = st])
      PROVE  Commanded'
  <2> DEFINE j == [IdleJob EXCEPT !.cmd = c, !.stages = st]
  <2>1. j.cmd = c /\ j \in Job
    <3>1. IdleJob \in Job
      BY DEF IdleJob, Job, JobStages, Selectors
    <3> QED  BY <3>1 DEF Job
  <2>2. c # "route"
    BY DEF Batches
  <2> HIDE DEF j
  <2> QED  BY <1>5, <1>6, <2>1, <2>2 DEF j
<1>7. ASSUME StartRun(p) \/ \E c \in Batches : StartBatch(p, c)
      PROVE  Commanded'
  <2>1. PICK c \in Batches : Acquire(p, [IdleJob EXCEPT !.cmd = c, !.stages = BatchStages(c)])
    BY <1>7 DEF StartRun, StartBatch, Batches
  <2> QED  BY <1>6, <2>1, BatchStagesType
<1>8. ASSUME NEW c \in RecordingCommands, NEW r \in Recordings, NEW prof \in Profiles \cup {None},
             NEW sel \in Selectors, NEW again \in BOOLEAN,
             StartCommand(p, c, r, prof, sel, again)
      PROVE  Commanded'
  <2> DEFINE j == [IdleJob EXCEPT !.cmd = c, !.target = r, !.profile = prof,
                                  !.selector = sel, !.regenerate = again]
  <2>1. j \in Job /\ j.cmd = c /\ j.profile = prof
    <3>1. IdleJob \in Job
      BY DEF IdleJob, Job, JobStages, Selectors
    <3> QED  BY <3>1 DEF Job
  <2>2. Acquire(p, j) /\ (c = "route" => prof # None)
    BY <1>8 DEF StartCommand
  <2> HIDE DEF j
  <2> QED  BY <1>5, <2>1, <2>2
<1> QED  BY <1>3, <1>4, <1>7, <1>8 DEF Start

-----------------------------------------------------------------------------
(* The steps of the web *)

LEMMA WebInitial == WebInit => WebInv
<1> SUFFICES ASSUME WebInit
             PROVE  WebInv
  OBVIOUS
<1>1. Inv /\ SummaryInv
  BY InvInit, SummaryInit DEF WebInit
<1>2. Commanded
  BY DEF WebInit, Init, Commanded, IdleJob
<1>3. Phases
  <2> SUFFICES ASSUME NEW r \in Recordings
               PROVE  Phase(rec[r], decision[r], attempts[r], transcript[r], summary[r])
    BY DEF Phases
  <2>1. /\ rec[r].status = "absent" /\ decision[r] = NoDecision /\ attempts[r] = <<>>
        /\ transcript[r] = 0 /\ \A l \in OutputLanguages : summary[r][l] = 0
    BY DEF WebInit, Init, NewRecording, NoSummaries
  <2>2. Len(attempts[r]) = 0 /\ DOMAIN attempts[r] = {}
    BY <2>1
  <2> QED  BY <2>1, <2>2 DEF Phase, Early
<1>4. FormHolds
  BY DEF WebInit, FormHolds
<1> QED  BY <1>1, <1>2, <1>3, <1>4 DEF WebInv

\* What a page shows is what there is.
LEMMA Shows ==
  ASSUME NEW r
  PROVE  LET print == Fingerprint(r)
         IN  /\ print.status = rec[r].status /\ print.transcript = transcript[r]
             /\ print.summary = summary[r][Default(r)] /\ print.languages = Summarized(r)
             /\ print.lastAttempt = LastAttempt(attempts[r]) /\ print.decision = decision[r]
BY DEF Fingerprint

\* What is known of a recording when a page of it is rendered.
LEMMA Rendered ==
  ASSUME Inv, Phases, gated = {}, NEW r \in Recordings, Render(r)
  PROVE  FormHolds'
<1> DEFINE n == Len(attempts[r])
           print == Fingerprint(r)
           mode == [sel \in Selectors |-> OfferedMode(r, Requested(r, sel))]
           page == [recording |-> r, print |-> print, mode |-> mode,
                    failureStage |-> rec[r].failureStage, seen |-> n,
                    summarized |-> Summarized(r)]
<1>1. /\ attempts[r] \in Seq(Attempt) /\ n \in Nat /\ rec[r] \in RecordingRow
      /\ RowSafe(rec[r], decision[r], attempts[r], transcript[r])
      /\ Phase(rec[r], decision[r], attempts[r], transcript[r], summary[r])
      /\ Default(r) \in OutputLanguages
  BY Defaults, LenProperties DEF Inv, TypeOK, Phases
<1>2. form' = page /\ UNCHANGED vars /\ gated' = {}
  BY DEF Render
<1> HIDE DEF print, mode
<1>3. /\ page.recording = r /\ page.print = print /\ page.seen = n
      /\ page.failureStage = rec[r].failureStage /\ page.summarized = Summarized(r)
  OBVIOUS
<1>4. /\ print.status = rec[r].status /\ print.transcript = transcript[r]
      /\ print.summary = summary[r][Default(r)] /\ print.lastAttempt = LastAttempt(attempts[r])
      /\ print.decision = decision[r] /\ print.languages = Summarized(r)
  BY Shows DEF print
<1> HIDE DEF page
<1>5. print.transcript <= n /\ print.summary <= n /\ print.lastAttempt <= n
  BY <1>1, <1>4, LastAttemptType DEF Phase
<1>6. n + 1 .. n = {}
  BY <1>1
<1>7. Early(rec[r]) <=> print.decision = NoDecision
  BY <1>1, <1>4 DEF Phase, NoDecision
<1>8. rec[r].failureStage # "" <=> rec[r].status = "failed"
  BY <1>1, Zenon DEF RowSafe
<1>9. ASSUME rec[r].status = "failed"
      PROVE  Early(rec[r]) <=> rec[r].failureStage = "routing"
  BY <1>9 DEF Early, RoutingFailed
<1>10. PageHolds(page, rec[r], decision[r], attempts[r], transcript[r], summary[r])
  <2>1. page.failureStage # "" <=> print.status = "failed"
    BY <1>3, <1>4, <1>8, Zenon
  <2>2. page.failureStage # "" =>
          (page.failureStage = "routing" <=> print.decision = NoDecision)
    BY <1>3, <1>7, <1>8, <1>9, Zenon
  <2>3. \A i \in page.seen + 1 .. Len(attempts[r]) :
          Noticeable(page, attempts[r][i], transcript[r], summary[r])
    BY <1>3, <1>6
  <2>4. page.seen \in Nat /\ page.seen <= Len(attempts[r])
    BY <1>1, <1>3
  <2>5. page.failureStage \in {"", "routing", "transcription"}
    BY <1>1, <1>3 DEF RecordingRow
  <2>6. page.summarized = print.languages
    BY <1>3, <1>4
  <2> QED  BY <1>3, <1>5, <1>7, <2>1, <2>2, <2>3, <2>4, <2>5, <2>6, Zenon DEF PageHolds
<1> QED  BY <1>2, <1>3, <1>10, Zenon DEF FormHolds, vars, database

\* A form that is refused ends its command.
LEMMA RefuseKeepsInv ==
  ASSUME Inv, NEW p \in WebProcs, RefuseForm(p)
  PROVE  Inv' /\ job'[p].cmd = job[p].cmd /\ job'[p].profile = job[p].profile
         /\ lock' = p /\ job'[p].pc = "next" /\ job'[p].target = None /\ job'[p].todo = {}
         /\ job'[p].selector = job[p].selector
         /\ \A q \in Procs \ {p} : job'[q] = job[q]
<1> DEFINE r == job[p].target
<1>1. p \in Procs /\ job[p].pc = "perform" /\ Done(p) /\ UNCHANGED <<database, lock, commands, crashes>>
  BY WebAssumption DEF RefuseForm
<1>2. TypeOK /\ JobsConsistent /\ JobMove(p) /\ lock' = lock
  BY <1>1 DEF Inv, JobMove
<1>3. job' \in [Procs -> Job] /\ JobsConsistent'
  BY <1>1, <1>2, JobMoves
<1>4. TypeOK'
  BY <1>1, <1>2, <1>3 DEF TypeOK, database
<1>5. /\ job[p] \in Job /\ job[p].todo = {} /\ r \in Recordings
      /\ RowSafe(rec[r], decision[r], attempts[r], transcript[r])
      /\ rec[r].status # "transcribing"
  BY <1>1, Performing, Running
<1>6. /\ job'[p] = [job[p] EXCEPT !.pc = "next", !.target = None]
      /\ \A q \in Procs \ {p} : job'[q] = job[q]
  BY <1>1, <1>2 DEF Done, TypeOK
<1>7. /\ job'[p].pc = "next" /\ job'[p].target = None /\ job'[p].todo = {}
      /\ job'[p].cmd = job[p].cmd /\ job'[p].profile = job[p].profile
      /\ job'[p].selector = job[p].selector
  BY <1>5, <1>6 DEF Job
<1> HIDE DEF r
<1>8. /\ UNCHANGED <<attempts, transcript, lock>> /\ rec' = rec /\ decision' = decision
  BY <1>1 DEF database
<1>9. Inv'
  BY <1>1, <1>3, <1>4, <1>5, <1>7, <1>8, InvPerform DEF r
<1>10. lock' = p
  BY <1>1, Performing
<1> QED  BY <1>6, <1>7, <1>9, <1>10

LEMMA RefuseKeepsSummaries ==
  ASSUME Inv, SummaryInv, NEW p \in WebProcs, RefuseForm(p)
  PROVE  SummaryInv'
<1>1. p \in Procs /\ job[p].pc = "perform" /\ UNCHANGED database
  BY WebAssumption DEF RefuseForm
<1>2. /\ lock' = p /\ job'[p].pc = "next" /\ job'[p].target = None /\ job'[p].todo = {}
      /\ job'[p].cmd = job[p].cmd /\ job'[p].selector = job[p].selector
  BY RefuseKeepsInv
<1>3. lock = p /\ p # None
  BY <1>1, Running
<1>4. Directed(job'[p])
  BY <1>2, <1>3 DEF SummaryInv, Directed
<1>5. \A r \in Recordings : Expects(r, rec[r], attempts[r], language[r], job'[p])
  BY <1>2, PipelineAssumption DEF Expects
<1> QED  BY <1>1, <1>2, <1>4, <1>5, SummaryOutside DEF Shown

\* A step of the pipeline that a page watches.
LEMMA PipelineKeepsWebInv ==
  ASSUME WebInv, NEW p \in Procs, Start(p) \/ Step(p) \/ Crash(p), form' = form,
         gated' \subseteq gated \/ form # NoForm
  PROVE  WebInv'
<1>1. Inv /\ SummaryInv /\ Phases /\ Commanded /\ FormHolds
  BY DEF WebInv
<1>2. Inv' /\ SummaryInv'
  BY <1>1, InvStep, SummaryStep DEF Next, Shown
<1>3. Commanded'
  BY <1>1, CommandedStep
<1>4. \A r \in Recordings :
        /\ Course(r) /\ attempts[r] \in Seq(Attempt)
        /\ transcript[r] \in Nat /\ summary[r] \in [OutputLanguages -> Nat]
        /\ Phase(rec[r], decision[r], attempts[r], transcript[r], summary[r])
  BY <1>1, NextCourse DEF Inv, TypeOK, Phases
<1>5. Phases'
  BY <1>4, CoursePhase DEF Phases
<1>6. FormHolds'
  <2>1. ASSUME form # NoForm
        PROVE  form.recording \in Recordings
               /\ PageHolds(form, rec'[form.recording], decision'[form.recording],
                            attempts'[form.recording], transcript'[form.recording],
                            summary'[form.recording])
    BY <1>1, <1>4, <2>1, CoursePage DEF FormHolds
  <2>2. gated' # {} => form # NoForm
    BY <1>1 DEF FormHolds
  <2> QED  BY <2>1, <2>2 DEF FormHolds
<1> QED  BY <1>2, <1>3, <1>5, <1>6 DEF WebInv

LEMMA WebNextKeepsInv == WebInv /\ [WebNext]_webVars => WebInv'
<1> SUFFICES ASSUME WebInv, [WebNext]_webVars
             PROVE  WebInv'
  OBVIOUS
<1>1. Inv /\ SummaryInv /\ Phases /\ Commanded /\ FormHolds
  BY DEF WebInv
<1>2. ASSUME UNCHANGED vars, FormHolds'
      PROVE  WebInv'
  <2>1. Inv' /\ SummaryInv'
    BY <1>1, <1>2, InvStep, SummaryStep DEF Shown
  <2>2. Phases' /\ Commanded'
    BY <1>1, <1>2 DEF vars, database, Phases, Commanded
  <2> QED  BY <1>2, <2>1, <2>2 DEF WebInv
<1>3. CASE UNCHANGED webVars
  <2>1. UNCHANGED vars /\ form' = form /\ gated' = gated
    BY <1>3 DEF webVars
  <2>2. FormHolds'
    BY <1>1, <2>1 DEF vars, database, FormHolds
  <2> QED  BY <1>2, <2>1, <2>2
<1>4. ASSUME NEW r \in Recordings, Render(r)
      PROVE  WebInv'
  <2>1. UNCHANGED vars /\ gated = {}
    BY <1>4 DEF Render
  <2> QED  BY <1>1, <1>2, <1>4, <2>1, Rendered
<1>5. ASSUME NEW p \in WebProcs, AcceptForm(p)
      PROVE  WebInv'
  <2>1. UNCHANGED vars /\ form' = form /\ gated' \subseteq gated
    BY <1>5 DEF AcceptForm
  <2>2. FormHolds'
    BY <1>1, <2>1 DEF vars, database, FormHolds
  <2> QED  BY <1>2, <2>1, <2>2
<1>6. ASSUME NEW p \in WebProcs, RefuseForm(p)
      PROVE  WebInv'
  <2>1. /\ Inv' /\ SummaryInv'
        /\ job'[p].cmd = job[p].cmd /\ job'[p].profile = job[p].profile
        /\ \A q \in Procs \ {p} : job'[q] = job[q]
    BY <1>1, <1>6, RefuseKeepsInv, RefuseKeepsSummaries
  <2>2. UNCHANGED database /\ form' = form /\ gated' \subseteq gated
    BY <1>6 DEF RefuseForm
  <2>3. Phases' /\ FormHolds'
    BY <1>1, <2>2 DEF database, Phases, FormHolds
  <2>4. Commanded'
    BY <1>1, <2>1 DEF Commanded
  <2> QED  BY <2>1, <2>3, <2>4 DEF WebInv
<1>7. ASSUME NEW p \in WebProcs, NEW c \in WebCommands, NEW prof \in Profiles \cup {None},
             NEW sel \in Selectors, Submit(p, c, prof, sel)
      PROVE  WebInv'
  <2>1. PICK again \in BOOLEAN :
          form # NoForm /\ form' = form /\ StartCommand(p, c, form.recording, prof, sel, again)
    BY <1>7 DEF Submit
  <2>2. form.recording \in Recordings /\ p \in Procs
    BY <1>1, <2>1, WebAssumption DEF FormHolds
  <2>3. Start(p)
    BY <1>7, <2>1, <2>2 DEF Start, WebCommands
  <2> QED  BY <2>1, <2>2, <2>3, PipelineKeepsWebInv
<1>8. ASSUME NEW p \in Procs, CliStart(p) \/ WebStep(p) \/ WebCrash(p)
      PROVE  WebInv'
  <2>1. (Start(p) \/ Step(p) \/ Crash(p)) /\ form' = form /\ gated' \subseteq gated
    BY <1>8 DEF CliStart, WebStep, WebCrash
  <2> QED  BY <2>1, PipelineKeepsWebInv
<1> QED  BY <1>3, <1>4, <1>5, <1>6, <1>7, <1>8, Zenon DEF WebNext

-----------------------------------------------------------------------------
(* What an accepted form shows *)

LEMMA PageFacts ==
  ASSUME NEW page, NEW row, NEW d, NEW atts, NEW t, NEW s, PageHolds(page, row, d, atts, t, s)
  PROVE  /\ page.seen \in Nat /\ page.print.transcript <= page.seen
         /\ page.print.summary <= page.seen /\ page.print.lastAttempt <= page.seen
         /\ page.failureStage \in {"", "routing", "transcription"}
         /\ page.failureStage # "" <=> page.print.status = "failed"
         /\ page.failureStage # "" =>
              (page.failureStage = "routing" <=> page.print.decision = NoDecision)
BY DEF PageHolds

\* The state the form shows is the state it is accepted in.
LEMMA AcceptedForm ==
  ASSUME WebInv, NEW p \in WebProcs, AcceptForm(p)
  PROVE  LET r == form.recording
             print == form.print
         IN  /\ r \in Recordings /\ rec[r] \in RecordingRow /\ attempts[r] \in Seq(Attempt)
             /\ transcript[r] \in Nat /\ summary[r] \in [OutputLanguages -> Nat]
             /\ RowSafe(rec[r], decision[r], attempts[r], transcript[r])
             /\ Ancestry(attempts[r])
             /\ Phase(rec[r], decision[r], attempts[r], transcript[r], summary[r])
             /\ PageHolds(form, rec[r], decision[r], attempts[r], transcript[r], summary[r])
             /\ print.status = rec[r].status /\ print.transcript = transcript[r]
             /\ print.summary = summary[r][Default(r)] /\ print.languages = Summarized(r)
             /\ print.decision = decision[r] /\ print.lastAttempt = LastAttempt(attempts[r])
<1> DEFINE r == form.recording
<1>1. form # NoForm
  BY DEF WebInv, FormHolds, AcceptForm
<1>2. r \in Recordings
      /\ PageHolds(form, rec[r], decision[r], attempts[r], transcript[r], summary[r])
  BY <1>1 DEF WebInv, FormHolds
<1>3. form.print = Fingerprint(r)
  BY DEF AcceptForm
<1>4. /\ rec[r] \in RecordingRow /\ attempts[r] \in Seq(Attempt)
      /\ transcript[r] \in Nat /\ summary[r] \in [OutputLanguages -> Nat]
      /\ RowSafe(rec[r], decision[r], attempts[r], transcript[r])
      /\ Phase(rec[r], decision[r], attempts[r], transcript[r], summary[r])
  BY <1>2 DEF WebInv, Inv, TypeOK, Phases
<1>5. Ancestry(attempts[r])
  BY <1>2 DEF WebInv, SummaryInv, SoundNow, Sound
<1> QED  BY <1>2, <1>3, <1>4, <1>5, Shows

\* What has succeeded since the page was rendered can only be a summarization
\* that the fingerprint does not notice: the router's success would be the newest
\* attempt of a recording still undecided, a transcription has left its transcript,
\* a summary in a language without one has left its language.
LEMMA UnnoticedSuccess ==
  ASSUME WebInv, NEW p \in WebProcs, AcceptForm(p), NEW i \in NewAttempts,
         attempts[form.recording][i].outcome = "success"
  PROVE  Overlooked(attempts[form.recording][i])
<1> DEFINE r == form.recording
           n == form.seen
           m == Len(attempts[r])
           a == attempts[r][i]
<1>1. /\ attempts[r] \in Seq(Attempt) /\ transcript[r] \in Nat
      /\ summary[r] \in [OutputLanguages -> Nat] /\ Ancestry(attempts[r])
      /\ Phase(rec[r], decision[r], attempts[r], transcript[r], summary[r])
      /\ PageHolds(form, rec[r], decision[r], attempts[r], transcript[r], summary[r])
      /\ form.print.transcript = transcript[r] /\ form.print.summary = summary[r][Default(r)]
      /\ form.print.languages = Summarized(r) /\ form.print.decision = decision[r]
      /\ form.print.lastAttempt = LastAttempt(attempts[r])
  BY AcceptedForm
<1>2. /\ n \in Nat /\ m \in Nat /\ i \in n + 1 .. m /\ n < m /\ i \in DOMAIN attempts[r]
      /\ transcript[r] <= n /\ summary[r][Default(r)] <= n /\ LastAttempt(attempts[r]) <= n
  <2>1. /\ n \in Nat /\ form.print.transcript <= n /\ form.print.summary <= n
        /\ form.print.lastAttempt <= n
    BY <1>1, PageFacts, Zenon
  <2> QED  BY <1>1, <2>1, LenProperties DEF NewAttempts
<1>3. Noticeable(form, a, transcript[r], summary[r]) /\ form.summarized = Summarized(r)
  BY <1>1, <1>2, Zenon DEF PageHolds
<1>4. a \in Attempt
  BY <1>1, <1>2, ElementOfSeq
<1>5. a.outcome = "success"
  OBVIOUS
<1> HIDE DEF a, n, m
<1>6. a.stage # "transcription"
  BY <1>1, <1>2, <1>3, <1>5 DEF Noticeable, n
<1>7. a.stage # "routing"
  <2> SUFFICES ASSUME a.stage = "routing"
               PROVE  FALSE
    OBVIOUS
  <2>1. decision[r] = NoDecision
    BY <1>1, <1>3 DEF Noticeable
  <2>2. Early(rec[r])
    BY <1>1, <2>1 DEF Phase, NoDecision
  <2>3. \A j \in DOMAIN attempts[r] : attempts[r][j].stage = "routing"
    BY <1>1, <2>2 DEF Phase
  <2>4. LastAttempt(attempts[r]) = m
    BY <1>1, <2>3, LastAttemptType DEF m
  <2> QED  BY <1>2, <2>4
<1>8. a.stage = "summarization"
  <2>1. a.stage \in Stages
    BY <1>4 DEF Attempt
  <2> QED  BY <1>6, <1>7, <2>1 DEF Stages
<1>9. ASSUME a.language # NoLanguage
      PROVE  a.language \in Summarized(r) /\ a.language # Default(r)
  <2>1. a.language \in OutputLanguages
    BY <1>4, <1>9 DEF Attempt
  <2>2. summary[r][a.language] > n
    BY <1>1, <1>2, <1>3, <1>5, <1>9 DEF Noticeable, n
  <2>3. summary[r][a.language] # 0 /\ summary[r][a.language] # summary[r][Default(r)]
    <3>1. summary[r][a.language] \in Nat /\ summary[r][Default(r)] <= n
      BY <1>1, <1>2, <2>1
    <3> QED  BY <1>2, <2>2, <3>1
  <2> QED  BY <2>1, <2>3 DEF Summarized
<1> QED  BY <1>3, <1>8, <1>9 DEF a, Overlooked

\* The failed stage the page shows is the one that has failed: one and the same
\* decision is in force, and whether there is one tells the stages apart.
LEMMA SameFailure ==
  ASSUME WebInv, NEW p \in WebProcs, AcceptForm(p)
  PROVE  rec[form.recording].failureStage = form.failureStage
<1> DEFINE r == form.recording
           row == rec[r]
<1>1. /\ row \in RecordingRow
      /\ RowSafe(row, decision[r], attempts[r], transcript[r])
      /\ Phase(row, decision[r], attempts[r], transcript[r], summary[r])
      /\ PageHolds(form, row, decision[r], attempts[r], transcript[r], summary[r])
      /\ form.print.status = row.status /\ form.print.decision = decision[r]
  BY AcceptedForm
<1> HIDE DEF row
<1>2. row.failureStage # "" <=> row.status = "failed"
  BY <1>1, Zenon DEF RowSafe
<1>3. form.failureStage # "" <=> row.status = "failed"
  <2>1. form.failureStage # "" <=> form.print.status = "failed"
    BY <1>1, PageFacts, Zenon
  <2> QED  BY <1>1, <2>1, Zenon
<1>4. ASSUME row.status # "failed"
      PROVE  row.failureStage = form.failureStage
  BY <1>2, <1>3, <1>4, Zenon
<1>5. ASSUME row.status = "failed"
      PROVE  row.failureStage = form.failureStage
  <2>1. form.failureStage = "routing" <=> decision[r] = NoDecision
    <3>1. form.failureStage # "" =>
            (form.failureStage = "routing" <=> form.print.decision = NoDecision)
      BY <1>1, PageFacts, Zenon
    <3> QED  BY <1>1, <1>3, <1>5, <3>1, Zenon
  <2>2. Early(row) <=> decision[r] = NoDecision
    BY <1>1 DEF Phase, NoDecision
  <2>3. Early(row) <=> row.failureStage = "routing"
    BY <1>5 DEF Early, RoutingFailed
  <2>4. row.failureStage # "" /\ form.failureStage # ""
    BY <1>2, <1>3, <1>5, Zenon
  <2>5. row.failureStage \in {"routing", "transcription"}
    <3>1. row.failureStage \in {"", "routing", "transcription"}
      BY <1>1 DEF RecordingRow
    <3> QED  BY <2>4, <3>1
  <2>6. form.failureStage \in {"routing", "transcription"}
    <3>1. form.failureStage \in {"", "routing", "transcription"}
      BY <1>1, PageFacts, Zenon
    <3> QED  BY <2>4, <3>1
  <2> QED  BY <2>1, <2>2, <2>3, <2>5, <2>6
<1> QED  BY <1>4, <1>5, Zenon DEF row

-----------------------------------------------------------------------------
(* The theorems *)

\* What the pipeline relies on holds with pages, submissions and refused forms
\* as well, and with it what pages remember.
THEOREM WebInvariance == WebSpec => []WebInv
BY WebInitial, WebNextKeepsInv, PTL DEF WebSpec

\* No form is accepted any more once an attempt that was started after the page
\* was rendered has made a transcript, a routing decision, or a summary in a
\* language that had none then or is the default one, however often it is submitted.
THEOREM SuccessEndsForm == WebSpec => SuccessInvalidatesForm
<1>1. ASSUME WebInv, [WebNext]_webVars
      PROVE  [\A p \in WebProcs : AcceptForm(p) =>
                \A i \in NewAttempts :
                  attempts[form.recording][i].outcome = "success" =>
                    Overlooked(attempts[form.recording][i])]_webVars
  BY <1>1, UnnoticedSuccess
<1> QED  BY <1>1, WebInvariance, PTL DEF WebSpec, SuccessInvalidatesForm

\* An accepted retry retries the stage the page said had failed, although the
\* fingerprint does not name it.
THEOREM RetryIsOfStageShown == WebSpec => RetriesStageShown
<1>1. ASSUME WebInv, [WebNext]_webVars
      PROVE  [\A p \in WebProcs : AcceptForm(p) /\ job[p].cmd = "retry" =>
                rec[form.recording].failureStage = form.failureStage]_webVars
  BY <1>1, SameFailure
<1> QED  BY <1>1, WebInvariance, PTL DEF WebSpec, RetriesStageShown
=============================================================================
