--------------------------- MODULE PipelineProofs ---------------------------
(***************************************************************************)
(* Proofs about module Pipeline, for any recordings, profiles, processes:  *)
(* first the inductive invariant and what follows from it at once, then    *)
(* the properties of single steps and the refinement, then summaries.      *)
(***************************************************************************)
EXTENDS Pipeline, SequenceTheorems, FiniteSetTheorems, TLAPS

-----------------------------------------------------------------------------
(* The inductive invariant *)

Busy == {"routing", "outcome", "claimed", "transcribing", "detecting", "detected",
         "resolved", "summarizing", "persisted"}

\* A process at work on a recording has one, which is not on the list of those it
\* still has to work on; any other has none.
JobOK(j) ==
  /\ j.pc \in Busy \cup {"perform"} => j.target \in Recordings
  /\ j.pc = "recover" => IF j.cmd \in Batches THEN j.target = None ELSE j.target \in Recordings
  /\ j.pc \in {"idle", "next"} => j.target = None
  /\ j.pc \in {"idle", "recover", "perform"} => j.todo = {}
  /\ j.pc \in Busy => j.target \notin j.todo

\* Exactly the lock holder executes a command.
JobsConsistent ==
  \A p \in Procs : JobOK(job[p]) /\ (job[p].pc # "idle" <=> lock = p)

\* What holds of a recording with row, active decision d, attempts atts and
\* active transcript t whatever process runs: the status agrees with the
\* transcript; nothing is left to recover in an archived recording; a manual
\* decision never goes with a status from which the router is reached.
RowSafe(row, d, atts, t) ==
  /\ row.status = "transcribed" => t # 0
  /\ t # 0 => row.status \in {"ready", "transcribing", "transcribed"}
  /\ row.retranscriptionFailed => t # 0
  /\ row.failureStage # "" <=> row.status = "failed"
  /\ row.archived => row.status # "transcribing" /\ Unfinished(atts) = {}
  /\ d.method = "manual" =>
       /\ row.status \in {"ready", "transcribing", "transcribed", "failed"}
       /\ row.failureStage # "routing"

\* What the lock holder, executing job j past its recovery, may rely on: only it
\* has a recording in transcribing or an unfinished attempt; the recording it
\* works on, and those a stage took up, are in the state in which it found them.
Held(r, row, atts, j) ==
  /\ row.status = "transcribing" => j.pc \in {"claimed", "transcribing"} /\ j.target = r
  /\ \A i \in Unfinished(atts) : /\ j.pc \in DOMAIN Working /\ j.target = r
                                 /\ i = Len(atts) /\ atts[i].stage = Working[j.pc]
  /\ j.target = r /\ j.pc \in DOMAIN Working => Len(atts) # 0
  /\ j.target = r /\ j.pc \in {"routing", "outcome"} => row.status = "routing"
  /\ j.target = r /\ j.pc \in {"claimed", "transcribing"} => row.status = "transcribing"
  /\ j.target = r /\ j.pc \in Busy => ~row.archived
  /\ r \in j.todo =>
       /\ j.stage = "enter" => row.status = "discovered" /\ ~row.archived
       /\ j.stage = "route" => row.status = "routing"
       /\ j.stage = "transcribe" => row.status = "ready"

\* The inductive invariant.
Inv ==
  /\ TypeOK /\ JobsConsistent
  /\ \A r \in Recordings :
       /\ RowSafe(rec[r], decision[r], attempts[r], transcript[r])
       /\ lock # None /\ job[lock].pc # "recover" => Held(r, rec[r], attempts[r], job[lock])

-----------------------------------------------------------------------------
(* Lemmas about the operators *)

\* A function on 1..n is a sequence of length n.
LEMMA FunctionIsSequence ==
  ASSUME NEW S, NEW n \in Nat, NEW f \in [1..n -> S]
  PROVE  f \in Seq(S) /\ Len(f) = n
<1>1. f \in Seq(S)
  BY SeqDef
<1>2. Len(f) \in Nat /\ 1..Len(f) = 1..n
  BY <1>1, LenProperties
<1> QED  BY <1>1, <1>2

\* A bounded non-empty set of numbers has a greatest element.
LEMMA NewestExists ==
  ASSUME NEW S \in SUBSET Nat, NEW n \in Nat, \A i \in S : i <= n, S # {}
  PROVE  Newest(S) \in S /\ \A j \in S : j <= Newest(S)
<1> DEFINE Above(i) == {j \in S : i < j}
           Family == {Above(i) : i \in S}
<1>1. IsFiniteSet(S)
  BY FS_BoundedSetOfNaturals
<1>2. Family \subseteq FiniteSubsetsOf(S) /\ Family # {}
  <2>1. \A i \in S : Above(i) \in SUBSET S /\ IsFiniteSet(Above(i))
    BY <1>1, FS_Subset
  <2>2. \A i \in S : Above(i) \in FiniteSubsetsOf(S)
    BY <2>1 DEF FiniteSubsetsOf
  <2> QED  BY <2>2
<1>3. PICK T \in Family : \A U \in Family : ~ (<<U, T>> \in StrictSubsetOrdering(S))
  <2> HIDE DEF Family
  <2> QED  BY <1>2, WFMin, FS_StrictSubsetOrderingWellFounded
<1>4. PICK i \in S : T = Above(i)
  BY <1>3
<1>5. ASSUME NEW j \in S, i < j
      PROVE  FALSE
  <2>1. j \in Above(i) /\ j \notin Above(j) /\ Above(j) \in Family
    <3>1. i \in Nat /\ j \in Nat
      OBVIOUS
    <3> QED  BY <1>5, <3>1
  <2>2. Above(j) \subseteq Above(i)
    <3> SUFFICES ASSUME NEW k \in Above(j)
                 PROVE  k \in Above(i)
      OBVIOUS
    <3>1. i \in Nat /\ j \in Nat /\ k \in Nat /\ k \in S /\ j < k
      OBVIOUS
    <3>2. i < k
      BY <1>5, <3>1
    <3> QED  BY <3>1, <3>2
  <2>3. <<Above(j), T>> \in StrictSubsetOrdering(S)
    BY <1>4, <2>1, <2>2 DEF StrictSubsetOrdering
  <2> QED  BY <1>3, <2>1, <2>3
<1>6. \A j \in S : j <= i
  BY <1>5
<1> QED  BY <1>6 DEF Newest

\* Closing the newest attempt keeps the others, and the length.
LEMMA FinishAttemptType ==
  ASSUME NEW atts \in Seq(Attempt), NEW outcome \in Outcomes
  PROVE  /\ FinishAttempt(atts, outcome) \in Seq(Attempt)
         /\ Len(FinishAttempt(atts, outcome)) = Len(atts)
<1>1. atts \in [1..Len(atts) -> Attempt] /\ Len(atts) \in Nat
  BY LenProperties
<1>2. FinishAttempt(atts, outcome) \in [1..Len(atts) -> Attempt]
  BY <1>1 DEF FinishAttempt, Attempt
<1> QED  BY <1>1, <1>2, FunctionIsSequence

LEMMA NewAttemptType ==
  ASSUME NEW stage \in Stages, NEW t \in Nat, NEW l \in OutputLanguages \cup {NoLanguage},
         NEW automatic \in BOOLEAN
  PROVE  NewAttempt(stage, t, l, automatic) \in Attempt
BY DEF NewAttempt, Attempt, Outcomes

LEMMA RecoveredAttemptsType ==
  ASSUME NEW atts \in Seq(Attempt)
  PROVE  /\ RecoveredAttempts(atts) \in Seq(Attempt)
         /\ Unfinished(RecoveredAttempts(atts)) = {}
<1>1. atts \in [1..Len(atts) -> Attempt] /\ Len(atts) \in Nat
  BY LenProperties
<1>2. RecoveredAttempts(atts) \in [1..Len(atts) -> Attempt]
  BY <1>1 DEF RecoveredAttempts, Attempt, Outcomes
<1>3. Unfinished(RecoveredAttempts(atts)) = {}
  BY <1>1 DEF RecoveredAttempts, Unfinished, Attempt
<1> QED  BY <1>1, <1>2, <1>3, FunctionIsSequence

LEMMA TransitionType ==
  ASSUME NEW row \in RecordingRow, NEW new \in Status
  PROVE  Transition(row, new) \in RecordingRow
BY DEF Transition, RecordingRow

LEMMA RecordFailureType ==
  ASSUME NEW row \in RecordingRow, NEW stage \in {"routing", "transcription"},
         NEW hasTranscript \in BOOLEAN, NEW attempt \in Nat
  PROVE  RecordFailure(row, stage, hasTranscript, attempt) \in RecordingRow
BY DEF RecordFailure, RecordingRow, Status

LEMMA BatchStagesType ==
  ASSUME NEW c \in Batches
  PROVE  BatchStages(c) \in Seq(JobStages)
<1>1. <<"recover", "ingest", "enter", "route", "transcribe", "summarize">> \in Seq(JobStages)
  BY DEF JobStages
<1>2. \A s \in JobStages : <<s>> \in Seq(JobStages)
  OBVIOUS
<1>3. {"ingest", "route", "transcribe", "summarize"} \subseteq JobStages
  BY DEF JobStages
<1>4. CASE c = "run"
  BY <1>1, <1>4 DEF BatchStages
<1>5. CASE c # "run"
  BY <1>2, <1>3, <1>5 DEF BatchStages, Batches
<1> QED  BY <1>4, <1>5

\* Facts about languages.
LEMMA LanguageTypes ==
  /\ NoLanguage \notin OutputLanguages
  /\ ZhHant \in OutputLanguages /\ English \in OutputLanguages
  /\ \A l \in SourceLanguages : output_language_for_source(l) \in OutputLanguages
<1>1. ZhHant # NoLanguage /\ English # NoLanguage
  BY DEF ZhHant, English, NoLanguage, Tag, Unset
<1>2. \A l \in SourceLanguages : output_language_for_source(l) # NoLanguage
  BY <1>1, PipelineAssumption, Zenon DEF output_language_for_source
<1> QED  BY <1>1, <1>2, Zenon DEF OutputLanguages

LEMMA DefaultType ==
  ASSUME NEW t, NEW d
  PROVE  DefaultOf(t, d) \in OutputLanguages
<1>1. DefaultOf(t, d) \in {ZhHant, English}
  BY Zenon DEF DefaultOf, resolve_default_language, ChineseOrEnglish
<1> QED  BY <1>1, LanguageTypes

\* A request asks for no language only if nobody knows that of the transcript.
LEMMA RequestedType ==
  ASSUME TypeOK, NEW r \in Recordings, NEW selector \in Selectors
  PROVE  \/ Requested(r, selector) \in OutputLanguages
         \/ Requested(r, selector) = NoLanguage /\ language[r].language = NoLanguage
<1>1. CASE selector = "default"
  BY <1>1, DefaultType, Zenon DEF Requested, Default
<1>2. CASE selector = "en" \/ selector = "zh-Hant"
  BY <1>2, LanguageTypes DEF Requested, resolve_output_language
<1>3. CASE selector = "original"
  <2>1. Requested(r, selector) = output_language_for_source(language[r].language)
    BY <1>3 DEF Requested, resolve_output_language
  <2>2. language[r].language \in SourceLanguages \cup {NoLanguage}
    BY DEF TypeOK, TranscriptLanguage
  <2>3. output_language_for_source(NoLanguage) = NoLanguage
    BY DEF output_language_for_source, is_chinese_family, canonicalize_language, NoLanguage,
           Unset, ChineseFamilyPrimaries
  <2> QED  BY <2>1, <2>2, <2>3, LanguageTypes
<1> QED  BY <1>1, <1>2, <1>3 DEF Selectors

-----------------------------------------------------------------------------
(* Type correctness *)

LEMMA DerivedType ==
  ASSUME NEW row \in RecordingRow, NEW atts \in Seq(Attempt), NEW t \in Nat, NEW l,
         NEW s \in Nat
  PROVE  Derived(row, atts, t, l, s) \in RecordingRow
<1> DEFINE failures == SummaryFailures(atts, t, l, s)
           newest == IF failures = {} THEN 0 ELSE Newest(failures)
<1>1. Len(atts) \in Nat /\ DOMAIN atts = 1..Len(atts)
  BY LenProperties
<1>2. failures \in SUBSET Nat /\ \A i \in failures : i <= Len(atts)
  BY <1>1 DEF SummaryFailures
<1>3. newest \in Nat
  BY <1>1, <1>2, NewestExists
<1> HIDE DEF newest
<1>4. [row EXCEPT !.summaryStatus = IF s # 0 THEN "current"
                                    ELSE IF failures # {} THEN "failed" ELSE "missing",
                  !.resummarizationFailed = s # 0 /\ failures # {},
                  !.lastFailed = newest] \in RecordingRow
  BY <1>3 DEF RecordingRow
<1> QED  BY <1>4 DEF Derived, newest

LEMMA ReconcileType ==
  ASSUME TypeOK, NEW r \in Recordings, NEW atts \in Seq(Attempt), NEW l, NEW s,
         l = Default(r) => s \in Nat
  PROVE  Reconcile(r, atts, l, s) \in RecordingRow
<1>1. rec[r] \in RecordingRow /\ transcript[r] \in Nat
  BY DEF TypeOK
<1>2. CASE l = Default(r)
  <2>1. s \in Nat
    BY <1>2
  <2>2. Derived(rec[r], atts, transcript[r], l, s) \in RecordingRow
    BY <1>1, <2>1, DerivedType
  <2> QED  BY <1>2, <2>2 DEF Reconcile
<1>3. CASE l # Default(r)
  BY <1>1, <1>3 DEF Reconcile
<1> QED  BY <1>2, <1>3

\* A process that executes a command goes on with it.
LEMMA JobUpdate ==
  ASSUME TypeOK, JobsConsistent, NEW p \in Procs, NEW j \in Job,
         job' = [job EXCEPT ![p] = j], lock' = lock,
         job[p].pc # "idle", j.pc # "idle", JobOK(j)
  PROVE  job' \in [Procs -> Job] /\ JobsConsistent'
<1>1. job \in [Procs -> Job]
  BY DEF TypeOK
<1>2. job' \in [Procs -> Job] /\ \A q \in Procs : job'[q] = IF q = p THEN j ELSE job[q]
  BY <1>1
<1>3. ASSUME NEW q \in Procs
      PROVE  JobOK(job'[q]) /\ (job'[q].pc # "idle" <=> lock' = q)
  BY <1>2, <1>3 DEF JobsConsistent
<1> QED  BY <1>2, <1>3 DEF JobsConsistent, JobOK

\* The ways in which an action of a command changes its job.
Resume(p, pc) ==
  /\ Goto(p, pc)
  /\ pc = "next" => job[p].target = None
  /\ pc # "next" => job[p].target \in Recordings /\ job[p].target \notin job[p].todo
  /\ pc = "perform" => job[p].todo = {}

Resumed == {"perform", "next", "outcome", "transcribing", "detected", "resolved",
            "summarizing", "persisted"}
TakenUp == {"routing", "claimed", "detecting", "summarizing"}

JobMove(p) ==
  \/ \E pc \in Resumed : Resume(p, pc)
  \/ Done(p)
  \/ \E r \in Recordings : Leave(p, r)
  \/ \E r \in Recordings, pc \in TakenUp : TakeUp(p, r, pc)
  \/ \E s \in JobStages, S \in SUBSET Recordings, again \in BOOLEAN : GoOn(p, s, S, again)
  \/ \E s \in JobStages, S \in SUBSET Recordings : AtStage(p, s) /\ EnterStage(p, s, S)

LEMMA JobMoves ==
  ASSUME TypeOK, JobsConsistent, NEW p \in Procs, job[p].pc # "idle", lock' = lock,
         JobMove(p)
  PROVE  job' \in [Procs -> Job] /\ JobsConsistent'
<1>1. job[p] \in Job
  BY DEF TypeOK
<1>2. CASE \E pc \in Resumed : Resume(p, pc)
  <2>1. PICK pc \in Resumed : Resume(p, pc)
    BY <1>2
  <2> DEFINE j == [job[p] EXCEPT !.pc = pc]
  <2>2. j \in Job /\ j.pc = pc /\ j.target = job[p].target /\ j.todo = job[p].todo
    BY <1>1, <2>1 DEF Job, Resumed
  <2>3. JobOK(j) /\ j.pc # "idle"
    BY <2>1, <2>2 DEF JobOK, Busy, Resume, Resumed
  <2> QED  BY <2>1, <2>2, <2>3, JobUpdate DEF Goto, Resume
<1>3. CASE Done(p)
  <2> DEFINE j == [job[p] EXCEPT !.pc = "next", !.target = None]
  <2>1. j \in Job /\ j.pc = "next" /\ j.target = None
    BY <1>1 DEF Job
  <2>2. JobOK(j)
    BY <2>1 DEF JobOK, Busy
  <2> QED  BY <1>3, <2>1, <2>2, JobUpdate DEF Done
<1>4. CASE \E r \in Recordings : Leave(p, r)
  <2>1. PICK r \in Recordings : Leave(p, r)
    BY <1>4
  <2> DEFINE j == [job[p] EXCEPT !.pc = "next", !.target = None, !.todo = job[p].todo \ {r}]
  <2>2. j \in Job /\ j.pc = "next" /\ j.target = None
    BY <1>1 DEF Job
  <2>3. JobOK(j)
    BY <2>2 DEF JobOK, Busy
  <2> QED  BY <2>1, <2>2, <2>3, JobUpdate DEF Leave
<1>5. CASE \E r \in Recordings, pc \in TakenUp : TakeUp(p, r, pc)
  <2>1. PICK r \in Recordings, pc \in TakenUp : TakeUp(p, r, pc)
    BY <1>5
  <2> DEFINE j == [job[p] EXCEPT !.pc = pc, !.target = r, !.todo = job[p].todo \ {r}]
  <2>2. j \in Job /\ j.pc = pc /\ j.target = r /\ j.todo = job[p].todo \ {r}
    BY <1>1 DEF Job, TakenUp
  <2>3. JobOK(j) /\ j.pc # "idle"
    BY <2>2 DEF JobOK, Busy, TakenUp
  <2> QED  BY <2>1, <2>2, <2>3, JobUpdate DEF TakeUp
<1>6. CASE \E s \in JobStages, S \in SUBSET Recordings, again \in BOOLEAN : GoOn(p, s, S, again)
  <2>1. PICK s \in JobStages, S \in SUBSET Recordings, again \in BOOLEAN : GoOn(p, s, S, again)
    BY <1>6
  <2> DEFINE j == [job[p] EXCEPT !.pc = "next", !.target = None, !.stage = s, !.todo = S,
                                 !.regenerate = again]
  <2>2. j \in Job /\ j.pc = "next" /\ j.target = None
    BY <1>1 DEF Job
  <2>3. JobOK(j)
    BY <2>2 DEF JobOK, Busy
  <2> QED  BY <2>1, <2>2, <2>3, JobUpdate DEF GoOn
<1>7. CASE \E s \in JobStages, S \in SUBSET Recordings : AtStage(p, s) /\ EnterStage(p, s, S)
  <2>1. PICK s \in JobStages, S \in SUBSET Recordings : AtStage(p, s) /\ EnterStage(p, s, S)
    BY <1>7
  <2> DEFINE j == [job[p] EXCEPT !.stage = s, !.todo = S, !.stages = Tail(job[p].stages)]
  <2>2. job[p].pc = "next" /\ job[p].stages \in Seq(JobStages) /\ job[p].stages # <<>>
    BY <1>1, <2>1 DEF Job, AtStage
  <2>3. Tail(job[p].stages) \in Seq(JobStages)
    BY <2>2, HeadTailProperties
  <2>4. j \in Job /\ j.pc = "next" /\ j.target = None
    BY <1>1, <2>2, <2>3 DEF Job, JobsConsistent, JobOK
  <2>5. JobOK(j)
    BY <2>4 DEF JobOK, Busy
  <2> QED  BY <2>1, <2>4, <2>5, JobUpdate DEF EnterStage
<1> QED  BY <1>2, <1>3, <1>4, <1>5, <1>6, <1>7 DEF JobMove

LEMMA Opens ==
  ASSUME TypeOK, JobsConsistent, NEW p \in Procs, NEW j \in Job, Acquire(p, j),
         j.todo = {}, IF j.cmd \in Batches THEN j.target = None ELSE j.target \in Recordings
  PROVE  job' \in [Procs -> Job] /\ JobsConsistent' /\ lock' \in Procs \cup {None}
<1> DEFINE k == [j EXCEPT !.pc = "recover"]
<1>1. /\ k \in Job /\ k.pc = "recover" /\ k.todo = {}
      /\ IF k.cmd \in Batches THEN k.target = None ELSE k.target \in Recordings
  BY DEF Job
<1>2. JobOK(k)
  BY <1>1 DEF JobOK, Busy
<1> HIDE DEF k
<1>3. job' \in [Procs -> Job] /\ \A q \in Procs : job'[q] = IF q = p THEN k ELSE job[q]
  BY <1>1 DEF Acquire, TypeOK, k
<1>4. ASSUME NEW q \in Procs
      PROVE  JobOK(job'[q]) /\ (job'[q].pc # "idle" <=> lock' = q)
  BY <1>1, <1>2, <1>3, <1>4, PipelineAssumption DEF JobsConsistent, Acquire
<1> QED  BY <1>3, <1>4 DEF JobsConsistent, JobOK, Acquire

LEMMA Closes ==
  ASSUME TypeOK, JobsConsistent, NEW p \in Procs,
         job[p].pc # "idle", job' = [job EXCEPT ![p] = IdleJob], lock' = None
  PROVE  job' \in [Procs -> Job] /\ JobsConsistent'
<1>1. IdleJob \in Job /\ JobOK(IdleJob) /\ IdleJob.pc = "idle"
  BY DEF IdleJob, Job, JobOK, Busy, Batches, RecordingCommands, JobStages, Selectors
<1>2. job' \in [Procs -> Job] /\ \A q \in Procs : job'[q] = IF q = p THEN IdleJob ELSE job[q]
  BY <1>1 DEF TypeOK
<1>3. ASSUME NEW q \in Procs
      PROVE  JobOK(job'[q]) /\ (job'[q].pc # "idle" <=> lock' = q)
  BY <1>1, <1>2, <1>3, PipelineAssumption DEF JobsConsistent
<1> QED  BY <1>2, <1>3 DEF JobsConsistent, JobOK

\* Every step of a command either closes it or moves its job.
LEMMA StepMoves ==
  ASSUME TypeOK, JobsConsistent, NEW p \in Procs, Step(p)
  PROVE  /\ job[p].pc # "idle"
         /\ Finish(p) \/ (JobMove(p) /\ lock' = lock)
<1>1. job[p] \in Job /\ JobOK(job[p]) /\ p # None
  BY PipelineAssumption DEF TypeOK, JobsConsistent
<1>2. {"recover", "ingest", "enter", "route", "transcribe", "summarize"} = JobStages
  BY DEF JobStages
<1>3. CASE Recover(p)
  BY <1>1, <1>3 DEF Recover, JobOK, JobMove, Resume, Resumed, Job, Busy
<1>4. CASE RunRecover(p)
  BY <1>2, <1>4 DEF RunRecover, AtStage, JobMove
<1>5. CASE RunIngest(p)
  BY <1>2, <1>5 DEF RunIngest, AtStage, JobMove
<1>6. CASE SelectStage(p)
  BY <1>2, <1>6 DEF SelectStage, AtStage, JobMove
<1>7. CASE Finish(p)
  BY <1>7 DEF Finish
<1>8. CASE \E r \in Recordings : EnterRouting(p, r)
  BY <1>8 DEF EnterRouting, Turn, JobMove
<1>9. CASE \E r \in Recordings : RouteOne(p, r)
  BY <1>9 DEF RouteOne, Turn, JobMove, TakenUp
<1>10. CASE \E r \in Recordings : TranscribeOne(p, r)
  BY <1>10 DEF TranscribeOne, Turn, JobMove, TakenUp
<1>11. CASE \E r \in Recordings : SummarizeOne(p, r)
  BY <1>11, Zenon DEF SummarizeOne, Turn, JobMove, TakenUp
<1>12. CASE RoutingFails(p)
  BY <1>12 DEF RoutingFails, JobMove
<1>13. CASE ApplyOutcome(p)
  BY <1>13 DEF ApplyOutcome, JobMove
<1>14. CASE TranscriptionFails(p)
  BY <1>14 DEF TranscriptionFails, JobMove
<1>15. CASE TranscriptionSucceeds(p)
  BY <1>15 DEF TranscriptionSucceeds, JobMove
<1>16. CASE SummarizationFails(p)
  BY <1>16 DEF SummarizationFails, JobMove
<1>17. CASE SummarizationSucceeds(p)
  BY <1>1, <1>17 DEF SummarizationSucceeds, JobMove, Resume, Resumed, JobOK, Busy
<1>18. CASE RoutingSucceeds(p)
  BY <1>1, <1>18 DEF RoutingSucceeds, JobMove, Resume, Resumed, JobOK, Busy
<1>19. CASE BeginTranscription(p)
  BY <1>1, <1>19 DEF BeginTranscription, JobMove, Resume, Resumed, JobOK, Busy
<1>20. CASE ConfirmRouting(p)
  BY <1>20 DEF ConfirmRouting, Performs, JobMove
<1>21. CASE ArchiveRecording(p)
  BY <1>21 DEF ArchiveRecording, Performs, JobMove
<1>22. CASE RestoreRecording(p)
  BY <1>22 DEF RestoreRecording, Performs, JobMove
<1>23. CASE ManualRoute(p)
  BY <1>1, <1>2, <1>23 DEF ManualRoute, Performs, JobMove, JobOK, RecordingRow, TypeOK, Job
<1>24. CASE TranscribeCommand(p)
  BY <1>1, <1>2, <1>24 DEF TranscribeCommand, Performs, JobMove, JobOK, RecordingRow, TypeOK, Job
<1>25. CASE SummarizeCommand(p)
  <2>1. job[p].regenerate \in BOOLEAN /\ job[p].target \in Recordings
    BY <1>1, <1>25 DEF SummarizeCommand, Performs, JobOK, Job
  <2>2. GoOn(p, "summarize", {job[p].target}, job[p].regenerate)
    BY <1>25 DEF SummarizeCommand
  <2>3. {job[p].target} \in SUBSET Recordings /\ "summarize" \in JobStages
    BY <1>2, <2>1
  <2>4. JobMove(p)
    BY <2>1, <2>2, <2>3, Zenon DEF JobMove
  <2> QED  BY <1>25, <2>4 DEF SummarizeCommand, Performs
<1>26. CASE Retry(p)
  <2> DEFINE r == job[p].target
  <2>1. r \in Recordings /\ {r} \in SUBSET Recordings
    BY <1>1, <1>26 DEF Retry, Performs, JobOK
  <2>2. rec[r].resummarizationFailed \in BOOLEAN
    BY <2>1 DEF TypeOK, RecordingRow
  <2>3. \/ Done(p)
        \/ GoOn(p, "summarize", {r}, rec[r].resummarizationFailed)
        \/ GoOn(p, "route", {r}, FALSE)
        \/ GoOn(p, "transcribe", {r}, FALSE)
    BY <1>26, Zenon DEF Retry
  <2>4. {"summarize", "route", "transcribe"} \subseteq JobStages /\ FALSE \in BOOLEAN
    BY <1>2
  <2>5. JobMove(p)
    BY <2>1, <2>2, <2>3, <2>4, Zenon DEF JobMove
  <2> QED  BY <1>26, <2>5 DEF Retry, Performs
<1>27. CASE DetectionFails(p)
  BY <1>27 DEF DetectionFails, JobMove
<1>28. CASE DetectionSucceeds(p)
  BY <1>1, <1>28 DEF DetectionSucceeds, JobMove, Resume, Resumed, JobOK, Busy
<1>29. CASE StoreDetectedLanguage(p)
  BY <1>1, <1>29 DEF StoreDetectedLanguage, JobMove, Resume, Resumed, JobOK, Busy
<1>30. CASE SummarizeDetected(p)
  BY <1>1, <1>30 DEF SummarizeDetected, JobMove, Resume, Resumed, JobOK, Busy
<1>31. CASE StoreReportedLanguage(p)
  BY <1>31 DEF StoreReportedLanguage, JobMove
<1>32. CASE SetLanguage(p)
  BY <1>32 DEF SetLanguage, Performs, JobMove
<1> QED
  BY <1>3, <1>4, <1>5, <1>6, <1>7, <1>8, <1>9, <1>10, <1>11, <1>12, <1>13, <1>14, <1>15, <1>16, <1>17, <1>18, <1>19, <1>20, <1>21, <1>22, <1>23, <1>24, <1>25, <1>26, <1>27, <1>28, <1>29, <1>30, <1>31, <1>32 DEF Step

\* Every step keeps the jobs consistent.
LEMMA JobsStep ==
  ASSUME TypeOK, JobsConsistent, [Next]_vars
  PROVE  job' \in [Procs -> Job] /\ lock' \in Procs \cup {None} /\ JobsConsistent'
<1>1. CASE UNCHANGED vars
  BY <1>1 DEF vars, TypeOK, JobsConsistent, JobOK
<1>2. ASSUME NEW p \in Procs, StartRun(p)
      PROVE  job' \in [Procs -> Job] /\ lock' \in Procs \cup {None} /\ JobsConsistent'
  <2> DEFINE j == [IdleJob EXCEPT !.cmd = "run", !.stages = BatchStages("run")]
  <2>1. BatchStages("run") \in Seq(JobStages)
    BY BatchStagesType DEF Batches
  <2>2. j \in Job /\ j.todo = {} /\ j.cmd \in Batches /\ j.target = None
    BY <2>1 DEF IdleJob, Job, Batches, Selectors
  <2> QED  BY <1>2, <2>2, Opens DEF StartRun
<1>3. ASSUME NEW p \in Procs, NEW c \in Batches, StartBatch(p, c)
      PROVE  job' \in [Procs -> Job] /\ lock' \in Procs \cup {None} /\ JobsConsistent'
  <2> DEFINE j == [IdleJob EXCEPT !.cmd = c, !.stages = BatchStages(c)]
  <2>1. BatchStages(c) \in Seq(JobStages)
    BY BatchStagesType
  <2>2. j \in Job /\ j.todo = {} /\ j.cmd \in Batches /\ j.target = None
    BY <2>1 DEF IdleJob, Job, Selectors
  <2> QED  BY <1>3, <2>2, Opens DEF StartBatch
<1>4. ASSUME NEW p \in Procs, NEW c \in RecordingCommands, NEW r \in Recordings,
             NEW prof \in Profiles \cup {None}, NEW sel \in Selectors, NEW again \in BOOLEAN,
             StartCommand(p, c, r, prof, sel, again)
      PROVE  job' \in [Procs -> Job] /\ lock' \in Procs \cup {None} /\ JobsConsistent'
  <2> DEFINE j == [IdleJob EXCEPT !.cmd = c, !.target = r, !.profile = prof,
                                  !.selector = sel, !.regenerate = again]
  <2>1. <<>> \in Seq(JobStages)
    BY EmptySeq
  <2>2. j \in Job /\ j.todo = {} /\ j.target \in Recordings /\ j.cmd \notin Batches
    BY <2>1 DEF IdleJob, Job, Batches, RecordingCommands
  <2> QED  BY <1>4, <2>2, Opens DEF StartCommand
<1>5. ASSUME NEW p \in Procs, Step(p)
      PROVE  job' \in [Procs -> Job] /\ lock' \in Procs \cup {None} /\ JobsConsistent'
  <2>1. job[p].pc # "idle" /\ (Finish(p) \/ (JobMove(p) /\ lock' = lock))
    BY <1>5, StepMoves
  <2>2. CASE Finish(p)
    BY <2>1, <2>2, Closes DEF Finish
  <2>3. CASE JobMove(p) /\ lock' = lock
    BY <2>1, <2>3, JobMoves DEF TypeOK
  <2> QED  BY <2>1, <2>2, <2>3
<1>6. ASSUME NEW p \in Procs, Crash(p)
      PROVE  job' \in [Procs -> Job] /\ lock' \in Procs \cup {None} /\ JobsConsistent'
  <2>1. job[p].pc # "idle" /\ lock' = None /\ job' = [job EXCEPT ![p] = IdleJob]
    BY <1>6 DEF Crash, JobsConsistent
  <2> QED  BY <2>1, Closes
<1> QED  BY <1>1, <1>2, <1>3, <1>4, <1>5, <1>6 DEF Next, Start

LEMMA DecideType ==
  ASSUME TypeOK, NEW r \in Recordings, NEW prof \in Profiles \cup {None},
         NEW confident \in BOOLEAN, NEW ready \in BOOLEAN, Decide(r, prof, confident, ready)
  PROVE  rec' \in [Recordings -> RecordingRow] /\ decision' \in [Recordings -> Decision]
<1>1. rec[r] \in RecordingRow /\ decision[r] \in Decision
  BY DEF TypeOK
<1>2. Transition(rec[r], IF ready THEN "ready" ELSE "needs_review") \in RecordingRow
  BY <1>1, TransitionType DEF Status
<1>3. [ordinal |-> decision[r].ordinal + 1, method |-> "automatic", profile |-> prof,
       model |-> confident, verified |-> FALSE] \in Decision
  BY <1>1 DEF Decision
<1> QED  BY <1>2, <1>3 DEF Decide, TypeOK

LEMMA RecoveredRowType ==
  ASSUME TypeOK, NEW r \in Recordings
  PROVE  RecoveredRow(r) \in RecordingRow
<1>1. rec[r] \in RecordingRow /\ attempts[r] \in Seq(Attempt)
      /\ transcript[r] \in Nat /\ summary[r][Default(r)] \in Nat
  BY DefaultType DEF TypeOK, Default
<1>2. Transition(rec[r], "routing") \in RecordingRow
  BY <1>1, TransitionType DEF Status
<1>3. [rec[r] EXCEPT !.status = IF transcript[r] # 0 THEN "transcribed" ELSE "ready"]
        \in RecordingRow
  BY <1>1 DEF RecordingRow, Status
<1>4. RecoveredStatus(r) \in RecordingRow
  BY <1>1, <1>2, <1>3 DEF RecoveredStatus
<1>5. Derived(RecoveredStatus(r), RecoveredAttempts(attempts[r]), transcript[r], Default(r),
              summary[r][Default(r)]) \in RecordingRow
  BY <1>1, <1>4, DerivedType, RecoveredAttemptsType
<1> QED  BY <1>4, <1>5 DEF RecoveredRow

DatabaseType ==
  /\ rec \in [Recordings -> RecordingRow]
  /\ decision \in [Recordings -> Decision]
  /\ attempts \in [Recordings -> Seq(Attempt)]
  /\ transcript \in [Recordings -> Nat]
  /\ language \in [Recordings -> TranscriptLanguage]
  /\ summary \in [Recordings -> [OutputLanguages -> Nat]]

LEMMA TranscribedType ==
  ASSUME NEW row \in RecordingRow, "transcribed" \in Status
  PROVE  [row EXCEPT !.status = "transcribed", !.failureStage = "",
                     !.retranscriptionFailed = FALSE, !.lastFailed = 0,
                     !.summaryStatus = "missing",
                     !.resummarizationFailed = FALSE] \in RecordingRow
<1>1. [row EXCEPT !.status = "transcribed", !.failureStage = "",
                  !.retranscriptionFailed = FALSE] \in RecordingRow
  BY DEF RecordingRow
<1>2. \A new \in RecordingRow :
        [new EXCEPT !.lastFailed = 0, !.summaryStatus = "missing",
                    !.resummarizationFailed = FALSE] \in RecordingRow
  BY DEF RecordingRow
<1>3. PICK new \in RecordingRow :
        new = [row EXCEPT !.status = "transcribed", !.failureStage = "",
                          !.retranscriptionFailed = FALSE]
  BY <1>1
<1> QED  BY <1>2, <1>3

\* An action of a command is no new one.
LEMMA StepCounts ==
  ASSUME NEW p \in Procs, Step(p)
  PROVE  UNCHANGED <<commands, crashes>>
<1>1. CASE Recover(p) \/ RunRecover(p) \/ RunIngest(p) \/ SelectStage(p) \/ Finish(p)
  BY <1>1 DEF Recover, RunRecover, RunIngest, SelectStage, Finish
<1>2. CASE \E r \in Recordings : EnterRouting(p, r) \/ RouteOne(p, r)
                               \/ TranscribeOne(p, r) \/ SummarizeOne(p, r)
  BY <1>2 DEF EnterRouting, RouteOne, TranscribeOne, SummarizeOne
<1>3. CASE RoutingFails(p) \/ RoutingSucceeds(p) \/ ApplyOutcome(p)
  BY <1>3 DEF RoutingFails, RoutingSucceeds, ApplyOutcome
<1>4. CASE BeginTranscription(p) \/ TranscriptionFails(p) \/ TranscriptionSucceeds(p)
  BY <1>4 DEF BeginTranscription, TranscriptionFails, TranscriptionSucceeds
<1>5. CASE \/ DetectionFails(p) \/ DetectionSucceeds(p) \/ StoreDetectedLanguage(p)
           \/ SummarizeDetected(p) \/ SummarizationFails(p) \/ SummarizationSucceeds(p)
           \/ StoreReportedLanguage(p)
  BY <1>5 DEF DetectionFails, DetectionSucceeds, StoreDetectedLanguage, SummarizeDetected,
              SummarizationFails, SummarizationSucceeds, StoreReportedLanguage
<1>6. CASE ManualRoute(p) \/ ConfirmRouting(p) \/ TranscribeCommand(p) \/ SummarizeCommand(p)
  BY <1>6 DEF ManualRoute, ConfirmRouting, TranscribeCommand, SummarizeCommand
<1>7. CASE Retry(p) \/ SetLanguage(p) \/ ArchiveRecording(p) \/ RestoreRecording(p)
  BY <1>7 DEF Retry, SetLanguage, ArchiveRecording, RestoreRecording
<1> QED  BY <1>1, <1>2, <1>3, <1>4, <1>5, <1>6, <1>7 DEF Step

\* The attempt with which the summary of recording r begins.
LEMMA Begun ==
  ASSUME TypeOK, NEW p \in Procs, NEW r \in Recordings,
         BeginSummary(p, r, Requested(r, job[p].selector))
  PROVE  /\ ~rec[r].archived /\ Requested(r, job[p].selector) \in OutputLanguages
         /\ \E a \in Attempt :
              /\ a.stage = "summarization" /\ a.outcome = "running"
              /\ a.transcript = transcript[r] /\ a.language = Requested(r, job[p].selector)
              /\ a.automatic = (job[p].cmd \in Batches)
              /\ attempts' = [attempts EXCEPT ![r] = Append(@, a)]
<1> DEFINE l == Requested(r, job[p].selector)
           a == NewAttempt("summarization", transcript[r], l, job[p].cmd \in Batches)
<1>1. l \in OutputLanguages /\ ~rec[r].archived
  <2>1. job[p].selector \in Selectors
    BY DEF TypeOK, Job
  <2> QED  BY <2>1, RequestedType DEF BeginSummary, CanSummarize
<1> HIDE DEF l
<1>2. a \in Attempt
  <2>1. (job[p].cmd \in Batches) \in BOOLEAN /\ "summarization" \in Stages
    BY DEF Stages
  <2>2. transcript[r] \in Nat /\ l \in OutputLanguages \cup {NoLanguage}
    BY <1>1 DEF TypeOK
  <2> QED  BY <2>1, <2>2, NewAttemptType, Zenon
<1>3. /\ a.stage = "summarization" /\ a.outcome = "running"
      /\ a.transcript = transcript[r] /\ a.language = l
      /\ a.automatic = (job[p].cmd \in Batches)
  BY Zenon DEF NewAttempt
<1> HIDE DEF a
<1>4. attempts' = [attempts EXCEPT ![r] = Append(@, a)]
  BY DEF BeginSummary, a, l
<1> QED  BY <1>1, <1>2, <1>3, <1>4 DEF l

LEMMA BeginSummaryType ==
  ASSUME TypeOK, NEW p \in Procs, NEW r \in Recordings,
         BeginSummary(p, r, Requested(r, job[p].selector))
  PROVE  attempts' \in [Recordings -> Seq(Attempt)]
<1>1. PICK a \in Attempt : attempts' = [attempts EXCEPT ![r] = Append(@, a)]
  BY Begun
<1>2. Append(attempts[r], a) \in Seq(Attempt)
  BY AppendProperties DEF TypeOK
<1> QED  BY <1>1, <1>2 DEF TypeOK

\* An action of a command keeps the types of the database.
LEMMA DatabaseStep ==
  ASSUME TypeOK, JobsConsistent, NEW p \in Procs, Step(p)
  PROVE  DatabaseType'
<1> DEFINE r == job[p].target
<1>1. DatabaseType /\ job[p] \in Job
  BY DEF TypeOK, DatabaseType
<1>2. job[p].pc \in Busy \cup {"perform"} => r \in Recordings
  BY DEF JobsConsistent, JobOK
<1>3. ASSUME NEW x \in Recordings
      PROVE  /\ rec[x] \in RecordingRow /\ decision[x] \in Decision
             /\ attempts[x] \in Seq(Attempt) /\ Len(attempts[x]) \in Nat
             /\ transcript[x] \in Nat /\ language[x] \in TranscriptLanguage
             /\ summary[x] \in [OutputLanguages -> Nat]
  BY <1>1, LenProperties DEF DatabaseType
<1>4. ASSUME NEW x \in Recordings
      PROVE  \A new \in Status : Transition(rec[x], new) \in RecordingRow
  BY <1>3, TransitionType
<1>5. ASSUME NEW x \in Recordings
      PROVE  \A o \in Outcomes : FinishAttempt(attempts[x], o) \in Seq(Attempt)
  BY <1>3, FinishAttemptType
<1>6. {"success", "failed"} \subseteq Outcomes /\ Status # {}
      /\ {"discovered", "routing", "needs_review", "ready", "transcribing",
          "transcribed"} \subseteq Status
      /\ {"routing", "transcription", "summarization"} = Stages
  BY DEF Outcomes, Status, Stages
<1>7. CASE Recover(p)
  <2>1. \A x \in Recordings : RecoveredRow(x) \in RecordingRow
    BY RecoveredRowType
  <2>2. \A x \in Recordings : RecoveredAttempts(attempts[x]) \in Seq(Attempt)
    BY <1>3, RecoveredAttemptsType
  <2> QED  BY <1>1, <1>7, <2>1, <2>2 DEF Recover, RecoverInterruptions, DatabaseType
<1>8. CASE RunRecover(p)
  <2>1. \A x \in Recordings : RecoveredRow(x) \in RecordingRow
    BY RecoveredRowType
  <2>2. \A x \in Recordings : RecoveredAttempts(attempts[x]) \in Seq(Attempt)
    BY <1>3, RecoveredAttemptsType
  <2> QED  BY <1>1, <1>8, <2>1, <2>2 DEF RunRecover, RecoverInterruptions, DatabaseType
<1>9. CASE RunIngest(p)
  <2>1. \A x \in Recordings : [rec[x] EXCEPT !.status = "discovered"] \in RecordingRow
    BY <1>3, <1>6 DEF RecordingRow
  <2> QED  BY <1>1, <1>3, <1>9, <2>1 DEF RunIngest, DatabaseType
<1>10. CASE SelectStage(p) \/ Finish(p) \/ TranscribeCommand(p) \/ SummarizeCommand(p)
  BY <1>1, <1>10 DEF SelectStage, Finish, TranscribeCommand, SummarizeCommand, database, DatabaseType
<1>11. CASE \E x \in Recordings : EnterRouting(p, x)
  BY <1>1, <1>4, <1>6, <1>11 DEF EnterRouting, DatabaseType
<1>12. CASE \E x \in Recordings : RouteOne(p, x)
  <2>1. PICK x \in Recordings : RouteOne(p, x)
    BY <1>12
  <2>2. Append(attempts[x], NewAttempt("routing", 0, NoLanguage, FALSE)) \in Seq(Attempt)
    BY <1>3, <1>6, NewAttemptType, AppendProperties
  <2>3. CASE Decide(x, None, FALSE, FALSE) /\ UNCHANGED <<attempts, transcript, language, summary>>
    BY <1>1, <2>3, DecideType DEF DatabaseType
  <2> QED  BY <1>1, <2>1, <2>2, <2>3 DEF RouteOne, DatabaseType, database
<1>13. CASE RoutingFails(p)
  <2>1. FinishAttempt(attempts[r], "failed") \in Seq(Attempt) /\ r \in Recordings
    BY <1>2, <1>5, <1>6, <1>13 DEF RoutingFails, Busy
  <2>2. RecordFailure(rec[r], "routing", transcript[r] # 0, Len(attempts[r])) \in RecordingRow
    BY <1>3, <2>1, RecordFailureType
  <2> QED  BY <1>1, <1>13, <2>1, <2>2 DEF RoutingFails, DatabaseType
<1>14. CASE RoutingSucceeds(p)
  <2>1. FinishAttempt(attempts[r], "success") \in Seq(Attempt) /\ r \in Recordings
    BY <1>2, <1>5, <1>6, <1>14 DEF RoutingSucceeds, Busy
  <2> QED  BY <1>1, <1>14, <2>1 DEF RoutingSucceeds, DatabaseType
<1>15. CASE ApplyOutcome(p)
  <2>1. r \in Recordings
    BY <1>2, <1>15 DEF ApplyOutcome, Busy
  <2> QED  BY <1>1, <1>15, <2>1, DecideType DEF ApplyOutcome, DatabaseType
<1>16. CASE \E x \in Recordings : TranscribeOne(p, x)
  BY <1>1, <1>4, <1>6, <1>16 DEF TranscribeOne, DatabaseType
<1>17. CASE BeginTranscription(p)
  <2>1. r \in Recordings
    BY <1>2, <1>17 DEF BeginTranscription, Busy
  <2>2. Append(attempts[r], NewAttempt("transcription", 0, NoLanguage, FALSE)) \in Seq(Attempt)
    BY <1>3, <1>6, <2>1, NewAttemptType, AppendProperties
  <2> QED  BY <1>1, <1>17, <2>1, <2>2 DEF BeginTranscription, DatabaseType
<1>18. CASE TranscriptionFails(p)
  <2>1. FinishAttempt(attempts[r], "failed") \in Seq(Attempt) /\ r \in Recordings
    BY <1>2, <1>5, <1>6, <1>18 DEF TranscriptionFails, Busy
  <2>2. RecordFailure(rec[r], "transcription", transcript[r] # 0, Len(attempts[r]))
          \in RecordingRow
    BY <1>3, <2>1, RecordFailureType
  <2> QED  BY <1>1, <1>18, <2>1, <2>2 DEF TranscriptionFails, DatabaseType
<1>19. CASE TranscriptionSucceeds(p)
  <2>1. FinishAttempt(attempts[r], "success") \in Seq(Attempt) /\ r \in Recordings
    BY <1>2, <1>5, <1>6, <1>19 DEF TranscriptionSucceeds, Busy
  <2>2. [rec[r] EXCEPT !.status = "transcribed", !.failureStage = "",
                       !.retranscriptionFailed = FALSE, !.lastFailed = 0,
                       !.summaryStatus = "missing",
                       !.resummarizationFailed = FALSE] \in RecordingRow
    <3>1. rec[r] \in RecordingRow /\ "transcribed" \in Status
      BY <1>3, <1>6, <2>1
    <3> QED  BY <3>1, TranscribedType
  <2>3. Unobserved \in TranscriptLanguage /\ NoSummaries \in [OutputLanguages -> Nat]
    BY DEF Unobserved, TranscriptLanguage, NoSummaries
  <2> QED  BY <1>1, <1>3, <1>19, <2>1, <2>2, <2>3 DEF TranscriptionSucceeds, DatabaseType
<1>20. CASE \E x \in Recordings : SummarizeOne(p, x)
  <2>1. PICK x \in Recordings : SummarizeOne(p, x)
    BY <1>20
  <2>2. Append(attempts[x], NewAttempt("summarization", 0, NoLanguage, FALSE)) \in Seq(Attempt)
    BY <1>3, <1>6, NewAttemptType, AppendProperties
  <2>3. attempts' = [attempts EXCEPT ![x] = Append(@, NewAttempt("summarization", 0, NoLanguage, FALSE))]
        \/ attempts' = attempts
        \/ BeginSummary(p, x, Requested(x, job[p].selector))
    BY <2>1, Zenon DEF SummarizeOne
  <2>4. BeginSummary(p, x, Requested(x, job[p].selector))
          => attempts' \in [Recordings -> Seq(Attempt)]
    BY BeginSummaryType
  <2>5. attempts' \in [Recordings -> Seq(Attempt)]
    BY <1>1, <2>2, <2>3, <2>4 DEF DatabaseType
  <2> QED  BY <1>1, <2>1, <2>5 DEF SummarizeOne, DatabaseType
<1>21. CASE SummarizationFails(p)
  <2>1. FinishAttempt(attempts[r], "failed") \in Seq(Attempt) /\ r \in Recordings
    BY <1>2, <1>5, <1>6, <1>21 DEF SummarizationFails, Busy
  <2>2. Generating(r) = Default(r) => summary[r][Generating(r)] \in Nat
    BY <1>3, <2>1, DefaultType DEF Default
  <2>3. Reconcile(r, FinishAttempt(attempts[r], "failed"), Generating(r),
                  summary[r][Generating(r)]) \in RecordingRow
    BY <2>1, <2>2, ReconcileType
  <2> QED  BY <1>1, <1>21, <2>1, <2>3 DEF SummarizationFails, DatabaseType
<1>22. CASE SummarizationSucceeds(p)
  <2>1. FinishAttempt(attempts[r], "success") \in Seq(Attempt) /\ r \in Recordings
    BY <1>2, <1>5, <1>6, <1>22 DEF SummarizationSucceeds, Busy
  <2>2. Reconcile(r, attempts[r], Generating(r), Len(attempts[r])) \in RecordingRow
    BY <1>3, <2>1, ReconcileType
  <2>3. [summary[r] EXCEPT ![Generating(r)] = Len(attempts[r])] \in [OutputLanguages -> Nat]
    BY <1>3, <2>1
  <2> QED  BY <1>1, <1>3, <1>22, <2>1, <2>2, <2>3 DEF SummarizationSucceeds, DatabaseType
<1>23. CASE ManualRoute(p)
  <2>1. r \in Recordings
    BY <1>2, <1>23 DEF ManualRoute, Performs
  <2>2. [decision[r] EXCEPT !.verified = TRUE] \in Decision
    BY <1>3, <2>1 DEF Decision
  <2>3. [ordinal |-> decision[r].ordinal + 1, method |-> "manual",
         profile |-> job[p].profile, model |-> TRUE, verified |-> TRUE] \in Decision
    BY <1>1, <1>3, <2>1 DEF Decision, Job
  <2>4. [rec[r] EXCEPT !.status = "ready", !.failureStage = "",
                       !.retranscriptionFailed = FALSE] \in RecordingRow
    BY <1>3, <1>6, <2>1 DEF RecordingRow
  <2> QED  BY <1>1, <1>23, <2>1, <2>2, <2>3, <2>4
           DEF ManualRoute, RouteManually, DatabaseType
<1>24. CASE ConfirmRouting(p)
  <2>1. r \in Recordings
    BY <1>2, <1>24 DEF ConfirmRouting, Performs
  <2>2. [decision[r] EXCEPT !.verified = TRUE] \in Decision
    BY <1>3, <2>1 DEF Decision
  <2> QED  BY <1>1, <1>24, <2>1, <2>2 DEF ConfirmRouting, DatabaseType
<1>25. CASE Retry(p)
  <2>1. r \in Recordings
    BY <1>2, <1>25 DEF Retry, Performs
  <2>2. [rec[r] EXCEPT !.status = "ready", !.failureStage = ""] \in RecordingRow
    BY <1>3, <1>6, <2>1 DEF RecordingRow
  <2> QED  BY <1>1, <1>4, <1>6, <1>25, <2>1, <2>2 DEF Retry, DatabaseType
<1>26. CASE ArchiveRecording(p) \/ RestoreRecording(p)
  <2>1. r \in Recordings
    BY <1>2, <1>26 DEF ArchiveRecording, RestoreRecording, Performs
  <2>2. [rec[r] EXCEPT !.archived = TRUE] \in RecordingRow
        /\ [rec[r] EXCEPT !.archived = FALSE] \in RecordingRow
    BY <1>3, <2>1 DEF RecordingRow
  <2> QED  BY <1>1, <1>26, <2>1, <2>2 DEF ArchiveRecording, RestoreRecording, DatabaseType
<1>27. CASE DetectionFails(p) \/ DetectionSucceeds(p)
  <2>1. r \in Recordings
    BY <1>2, <1>27 DEF DetectionFails, DetectionSucceeds, Busy
  <2>2. FinishAttempt(attempts[r], "failed") \in Seq(Attempt)
        /\ FinishAttempt(attempts[r], "success") \in Seq(Attempt)
    BY <1>5, <1>6, <2>1
  <2> QED  BY <1>1, <1>27, <2>1, <2>2 DEF DetectionFails, DetectionSucceeds, DatabaseType
<1>28. CASE StoreDetectedLanguage(p) \/ StoreReportedLanguage(p)
  <2>1. \A l \in SourceLanguages : [language |-> l, by |-> "llm_detection"] \in TranscriptLanguage
    BY DEF TranscriptLanguage
  <2> QED  BY <1>1, <1>28, <2>1 DEF StoreDetectedLanguage, StoreReportedLanguage, DatabaseType
<1>29. CASE SummarizeDetected(p)
  <2>1. r \in Recordings
    BY <1>2, <1>29 DEF SummarizeDetected, Busy
  <2>2. attempts' = attempts \/ BeginSummary(p, r, Requested(r, job[p].selector))
    BY <1>29, Zenon DEF SummarizeDetected
  <2>3. attempts' \in [Recordings -> Seq(Attempt)]
    BY <1>1, <2>1, <2>2, BeginSummaryType DEF DatabaseType
  <2> QED  BY <1>1, <1>29, <2>3 DEF SummarizeDetected, DatabaseType
<1>30. CASE SetLanguage(p)
  <2>1. r \in Recordings
    BY <1>2, <1>30 DEF SetLanguage, Performs
  <2>2. \A l \in SourceLanguages : [language |-> l, by |-> "user"] \in TranscriptLanguage
    BY DEF TranscriptLanguage
  <2>3. ASSUME NEW d \in OutputLanguages
        PROVE  Derived(rec[r], attempts[r], transcript[r], d, summary[r][d]) \in RecordingRow
    BY <1>3, <2>1, DerivedType
  <2>4. CASE UNCHANGED <<rec, language>>
    BY <1>1, <1>30, <2>4 DEF SetLanguage, DatabaseType
  <2>5. CASE ~UNCHANGED <<rec, language>>
    <3>1. PICK l \in SourceLanguages :
            LET d == DefaultOf([language |-> l, by |-> "user"], decision[r])
            IN /\ language' = [language EXCEPT ![r] = [language |-> l, by |-> "user"]]
               /\ rec' = [rec EXCEPT ![r] =
                    Derived(@, attempts[r], transcript[r], d, summary[r][d])]
      BY <1>30, <2>5 DEF SetLanguage
    <3> DEFINE d == DefaultOf([language |-> l, by |-> "user"], decision[r])
    <3>2. d \in OutputLanguages
      BY DefaultType
    <3>3. rec' = [rec EXCEPT ![r] = Derived(rec[r], attempts[r], transcript[r], d, summary[r][d])]
      BY <3>1
    <3> HIDE DEF d
    <3>4. rec' \in [Recordings -> RecordingRow]
      BY <1>1, <2>1, <2>3, <3>2, <3>3 DEF DatabaseType
    <3>5. language' \in [Recordings -> TranscriptLanguage]
      BY <1>1, <2>2, <3>1 DEF DatabaseType
    <3> QED  BY <1>1, <1>30, <3>4, <3>5 DEF SetLanguage, DatabaseType
  <2> QED  BY <2>4, <2>5
<1> QED
  BY <1>7, <1>8, <1>9, <1>10, <1>11, <1>12, <1>13, <1>14, <1>15, <1>16, <1>17, <1>18, <1>19, <1>20, <1>21, <1>22, <1>23, <1>24, <1>25, <1>26, <1>27, <1>28, <1>29, <1>30 DEF Step

LEMMA TypeStep ==
  ASSUME TypeOK, JobsConsistent, [Next]_vars
  PROVE  TypeOK' /\ JobsConsistent'
<1>1. job' \in [Procs -> Job] /\ lock' \in Procs \cup {None} /\ JobsConsistent'
  BY JobsStep
<1>2. DatabaseType'
  <2>1. DatabaseType
    BY DEF TypeOK, DatabaseType
  <2>2. CASE UNCHANGED vars
    BY <2>1, <2>2 DEF vars, database, DatabaseType
  <2>3. ASSUME NEW p \in Procs, Start(p) \/ Crash(p)
        PROVE  DatabaseType'
    <3>1. UNCHANGED database
      BY <2>3, Zenon DEF Start, StartRun, StartBatch, StartCommand, Acquire, Crash
    <3> QED  BY <2>1, <3>1 DEF database, DatabaseType
  <2> QED  BY <2>2, <2>3, DatabaseStep DEF Next
<1>3. commands' \in Nat /\ crashes' \in Nat
  <2>1. CASE UNCHANGED vars
    BY <2>1 DEF vars, TypeOK
  <2>2. ASSUME NEW p \in Procs, Start(p)
        PROVE  commands' \in Nat /\ crashes' \in Nat
    <3>1. crashes' = crashes /\ (commands' = commands \/ commands' = commands + 1)
      BY <2>2, Zenon DEF Start, StartRun, StartBatch, StartCommand, Acquire
    <3> QED  BY <3>1 DEF TypeOK
  <2>3. CASE \E p \in Procs : Crash(p)
    BY <2>3 DEF Crash, TypeOK
  <2>4. CASE \E p \in Procs : Step(p)
    BY <2>4, StepCounts DEF TypeOK
  <2> QED  BY <2>1, <2>2, <2>3, <2>4 DEF Next
<1> QED  BY <1>1, <1>2, <1>3 DEF TypeOK, DatabaseType

LEMMA TypeInit == Init => TypeOK /\ JobsConsistent
<1> SUFFICES ASSUME Init PROVE TypeOK /\ JobsConsistent
  OBVIOUS
<1>1. IdleJob \in Job /\ JobOK(IdleJob) /\ IdleJob.pc = "idle"
  BY DEF IdleJob, Job, JobOK, Busy, Batches, RecordingCommands, JobStages, Selectors
<1>2. NewRecording \in RecordingRow
  BY DEF NewRecording, RecordingRow, Status
<1>3. NoDecision \in Decision
  BY DEF NoDecision, Decision
<1>4. <<>> \in Seq(Attempt)
  BY EmptySeq
<1>5. Unobserved \in TranscriptLanguage /\ NoSummaries \in [OutputLanguages -> Nat]
  BY DEF Unobserved, TranscriptLanguage, NoSummaries
<1>6. TypeOK
  BY <1>1, <1>2, <1>3, <1>4, <1>5 DEF Init, TypeOK
<1>7. JobsConsistent
  BY <1>1, PipelineAssumption DEF Init, JobsConsistent
<1> QED  BY <1>6, <1>7

\* Type correctness: in every reachable state of any number of processes and
\* recordings every row of the database and every job has its type.
THEOREM TypeCorrect == Spec => []TypeOK
<1>1. TypeOK /\ JobsConsistent /\ [Next]_vars => TypeOK' /\ JobsConsistent'
  BY TypeStep
<1> QED  BY <1>1, TypeInit, PTL DEF Spec

-----------------------------------------------------------------------------
(* The inductive invariant is inductive *)

\* Facts about attempts.
LEMMA UnfinishedAfterFinish ==
  ASSUME NEW atts \in Seq(Attempt), NEW outcome \in {"success", "failed"},
         \A i \in Unfinished(atts) : i = Len(atts)
  PROVE  Unfinished(FinishAttempt(atts, outcome)) = {}
<1>1. atts \in [1..Len(atts) -> Attempt] /\ Len(atts) \in Nat
  BY LenProperties
<1> QED  BY <1>1 DEF FinishAttempt, Unfinished, Attempt

LEMMA UnfinishedAfterAppend ==
  ASSUME NEW atts \in Seq(Attempt), Unfinished(atts) = {}, NEW a \in Attempt, NEW new,
         new = Append(atts, a)
  PROVE  /\ \A i \in Unfinished(new) : i = Len(new) /\ new[i].stage = a.stage
         /\ Len(new) # 0
<1>1. /\ Len(atts) \in Nat /\ DOMAIN atts = 1..Len(atts)
      /\ new \in Seq(Attempt) /\ Len(new) = Len(atts) + 1
      /\ \A i \in 1..Len(atts) : new[i] = atts[i]
      /\ new[Len(atts) + 1] = a
  BY AppendProperties, LenProperties
<1>2. DOMAIN new = 1..Len(atts) + 1
  BY <1>1, LenProperties
<1>3. ASSUME NEW i \in Unfinished(new)
      PROVE  i = Len(new) /\ new[i].stage = a.stage
  <2>1. i \in 1..Len(atts) + 1 /\ new[i].outcome = "running"
    BY <1>2 DEF Unfinished
  <2>2. i \notin 1..Len(atts)
    BY <1>1, <2>1 DEF Unfinished
  <2>3. i = Len(atts) + 1
    BY <1>1, <2>1, <2>2
  <2> QED  BY <1>1, <2>3
<1> QED  BY <1>1, <1>3

\* Facts about rows.
LEMMA TransitionFields ==
  ASSUME NEW row \in RecordingRow, NEW new \in Status
  PROVE  /\ Transition(row, new).status = new
         /\ Transition(row, new).failureStage =
              IF new = "failed" THEN row.failureStage ELSE ""
         /\ Transition(row, new).retranscriptionFailed = row.retranscriptionFailed
         /\ Transition(row, new).archived = row.archived
BY DEF Transition, RecordingRow

LEMMA TransitionStatus ==
  ASSUME NEW row \in RecordingRow, NEW new \in Status
  PROVE  Transition(row, new).status = new
BY TransitionFields, Zenon

LEMMA DerivedFields ==
  ASSUME NEW row \in RecordingRow, NEW atts, NEW t, NEW l, NEW s
  PROVE  /\ Derived(row, atts, t, l, s).status = row.status
         /\ Derived(row, atts, t, l, s).failureStage = row.failureStage
         /\ Derived(row, atts, t, l, s).retranscriptionFailed = row.retranscriptionFailed
         /\ Derived(row, atts, t, l, s).archived = row.archived
BY DEF Derived, RecordingRow

LEMMA ReconcileFields ==
  ASSUME TypeOK, NEW r \in Recordings, NEW atts, NEW l, NEW s
  PROVE  /\ Reconcile(r, atts, l, s).status = rec[r].status
         /\ Reconcile(r, atts, l, s).failureStage = rec[r].failureStage
         /\ Reconcile(r, atts, l, s).retranscriptionFailed = rec[r].retranscriptionFailed
         /\ Reconcile(r, atts, l, s).archived = rec[r].archived
<1>1. rec[r] \in RecordingRow
  BY DEF TypeOK
<1>2. Reconcile(r, atts, l, s) = rec[r]
      \/ Reconcile(r, atts, l, s) = Derived(rec[r], atts, transcript[r], l, s)
  BY Zenon DEF Reconcile
<1> QED  BY <1>1, <1>2, DerivedFields

\* A recording that neither the old nor the new job works on is not affected.
LEMMA HeldFrame ==
  ASSUME NEW r, NEW row, NEW atts, NEW j, NEW k, Held(r, row, atts, j),
         j.target # r, k.target # r,
         r \in k.todo => r \in j.todo /\ k.stage = j.stage
  PROVE  Held(r, row, atts, k)
BY DEF Held

LEMMA WorkingStages ==
  /\ DOMAIN Working = {"routing", "transcribing", "detecting", "summarizing"}
  /\ Working["routing"] = "routing" /\ Working["transcribing"] = "transcription"
  /\ Working["detecting"] = "summarization" /\ Working["summarizing"] = "summarization"
BY DEF Working

\* Outside an external call the lock holder has no attempt open.
LEMMA HeldQuiet ==
  ASSUME NEW r, NEW row, NEW atts, NEW j, Held(r, row, atts, j),
         j.pc \notin {"routing", "transcribing", "detecting", "summarizing"}
  PROVE  Unfinished(atts) = {}
BY WorkingStages DEF Held

\* Recovery leaves nothing in flight.
LEMMA RecoveredSafe ==
  ASSUME TypeOK, NEW r \in Recordings, RowSafe(rec[r], decision[r], attempts[r], transcript[r])
  PROVE  /\ RowSafe(RecoveredRow(r), decision[r], RecoveredAttempts(attempts[r]), transcript[r])
         /\ RecoveredRow(r).status # "transcribing"
         /\ RecoveredRow(r).archived = rec[r].archived
         /\ Unfinished(RecoveredAttempts(attempts[r])) = {}
<1> DEFINE row == rec[r]
           atts == attempts[r]
           ok == RecoveredStatus(r)
<1>1. /\ row \in RecordingRow /\ atts \in Seq(Attempt)
      /\ Unfinished(RecoveredAttempts(atts)) = {}
      /\ Transition(row, "routing") \in RecordingRow
  BY RecoveredAttemptsType, TransitionType DEF TypeOK, Status
<1>2. /\ ok \in RecordingRow
      /\ ok.status # "transcribing" /\ ok.archived = row.archived
      /\ ok.retranscriptionFailed = row.retranscriptionFailed
      /\ \/ ok.status = row.status /\ ok.failureStage = row.failureStage
         \/ /\ row.status = "transcribing" /\ ok.failureStage = row.failureStage
            /\ ok.status = IF transcript[r] # 0 THEN "transcribed" ELSE "ready"
         \/ row.status = "discovered" /\ ok.status = "routing" /\ ok.failureStage = ""
  <2>1. CASE row.status = "transcribing"
    <3>1. Unfinished(atts) # {} \/ ~row.archived
      BY <2>1 DEF RowSafe
    <3>2. ok = [row EXCEPT !.status = IF transcript[r] # 0 THEN "transcribed" ELSE "ready"]
      BY <2>1, <3>1 DEF RecoveredStatus
    <3> QED  BY <1>1, <2>1, <3>2 DEF RecordingRow, Status
  <2>2. CASE row.status = "discovered" /\ Unfinished(atts) # {}
    <3>1. ok = Transition(row, "routing")
      BY <2>2 DEF RecoveredStatus
    <3>2. "routing" \in Status
      BY DEF Status
    <3>3. ok.status = "routing" /\ ok.failureStage = "" /\ ok.archived = row.archived
          /\ ok.retranscriptionFailed = row.retranscriptionFailed
      BY <1>1, <3>1 DEF Transition, RecordingRow
    <3> QED  BY <1>1, <2>2, <3>1, <3>3 DEF RowSafe
  <2>3. CASE row.status # "transcribing" /\ ~(row.status = "discovered" /\ Unfinished(atts) # {})
    BY <1>1, <2>3 DEF RecoveredStatus
  <2> QED  BY <2>1, <2>2, <2>3
<1> HIDE DEF ok
<1>3. /\ RecoveredRow(r).status = ok.status
      /\ RecoveredRow(r).failureStage = ok.failureStage
      /\ RecoveredRow(r).retranscriptionFailed = ok.retranscriptionFailed
      /\ RecoveredRow(r).archived = ok.archived
  <2> DEFINE rc == Derived(ok, RecoveredAttempts(atts), transcript[r], Default(r),
                           summary[r][Default(r)])
  <2>1. /\ rc.status = ok.status /\ rc.failureStage = ok.failureStage
        /\ rc.retranscriptionFailed = ok.retranscriptionFailed /\ rc.archived = ok.archived
    <3>1. ok \in RecordingRow
      BY <1>2
    <3> QED  BY <3>1, DerivedFields
  <2>2. RecoveredRow(r) = rc \/ RecoveredRow(r) = ok
    BY Zenon DEF RecoveredRow, ok
  <2> QED  BY <2>1, <2>2
<1>4. RowSafe(RecoveredRow(r), decision[r], RecoveredAttempts(atts), transcript[r])
  BY <1>1, <1>2, <1>3 DEF RowSafe
<1> QED  BY <1>1, <1>2, <1>3, <1>4

\* A step that touches recording r only, on which the process may be at work.
LEMMA InvOne ==
  ASSUME Inv, TypeOK', JobsConsistent', NEW p \in Procs, lock = p, lock' = p,
         job[p].pc # "recover", job'[p].pc # "recover", NEW r \in Recordings,
         \A x \in Recordings \ {r} :
            /\ rec'[x] = rec[x] /\ decision'[x] = decision[x]
            /\ attempts'[x] = attempts[x] /\ transcript'[x] = transcript[x],
         job[p].target \in {r, None}, job'[p].target \in {r, None},
         job'[p].todo \subseteq job[p].todo \cup {r},
         job'[p].stage = job[p].stage \/ job'[p].todo \subseteq {r},
         RowSafe(rec'[r], decision'[r], attempts'[r], transcript'[r]),
         Held(r, rec'[r], attempts'[r], job'[p])
  PROVE  Inv'
<1>1. p # None /\ None \notin Recordings
  BY PipelineAssumption
<1>2. ASSUME NEW x \in Recordings
      PROVE  /\ RowSafe(rec'[x], decision'[x], attempts'[x], transcript'[x])
             /\ Held(x, rec'[x], attempts'[x], job'[p])
  <2>1. CASE x = r
    BY <2>1
  <2>2. CASE x # r
    <3>1. RowSafe(rec[x], decision[x], attempts[x], transcript[x])
          /\ Held(x, rec[x], attempts[x], job[p])
      BY <1>1 DEF Inv
    <3>2. Held(x, rec[x], attempts[x], job'[p])
      <4>1. job[p].target # x /\ job'[p].target # x
        BY <1>1, <2>2
      <4>2. x \in job'[p].todo => x \in job[p].todo /\ job'[p].stage = job[p].stage
        BY <2>2
      <4> QED  BY <3>1, <4>1, <4>2, HeldFrame
    <3> QED  BY <2>2, <3>1, <3>2
  <2> QED  BY <2>1, <2>2
<1> QED  BY <1>2 DEF Inv

\* What an action of a command may assume of the process and its recordings.
LEMMA Running ==
  ASSUME Inv, NEW p \in Procs, job[p].pc # "idle"
  PROVE  /\ lock = p /\ p # None /\ None \notin Recordings /\ job[p] \in Job /\ JobOK(job[p])
         /\ \A x \in Recordings :
              /\ rec[x] \in RecordingRow /\ decision[x] \in Decision
              /\ attempts[x] \in Seq(Attempt) /\ transcript[x] \in Nat
              /\ RowSafe(rec[x], decision[x], attempts[x], transcript[x])
              /\ job[p].pc # "recover" => Held(x, rec[x], attempts[x], job[p])
BY PipelineAssumption DEF Inv, JobsConsistent, TypeOK

\* Opening, closing and killing a command.
LEMMA InvOutside ==
  ASSUME Inv, TypeOK', JobsConsistent', UNCHANGED database,
         lock' = None \/ job'[lock'].pc = "recover"
  PROVE  Inv'
BY DEF Inv, database

LEMMA InvRecovered ==
  ASSUME Inv, TypeOK', JobsConsistent', NEW p \in Procs, lock' = p, RecoverInterruptions,
         job'[p].pc \notin Busy, job'[p].todo = {}
  PROVE  Inv'
<1>1. ASSUME NEW x \in Recordings
      PROVE  /\ RowSafe(rec'[x], decision'[x], attempts'[x], transcript'[x])
             /\ Held(x, rec'[x], attempts'[x], job'[p])
  <2>1. /\ RowSafe(RecoveredRow(x), decision[x], RecoveredAttempts(attempts[x]), transcript[x])
        /\ RecoveredRow(x).status # "transcribing"
        /\ Unfinished(RecoveredAttempts(attempts[x])) = {}
    BY RecoveredSafe DEF Inv
  <2>2. /\ rec'[x] = RecoveredRow(x) /\ attempts'[x] = RecoveredAttempts(attempts[x])
        /\ decision'[x] = decision[x] /\ transcript'[x] = transcript[x]
    BY DEF RecoverInterruptions
  <2> QED  BY <2>1, <2>2, WorkingStages DEF Held, Busy
<1> QED  BY <1>1 DEF Inv

LEMMA InvRunIngest ==
  ASSUME Inv, TypeOK', JobsConsistent', NEW p \in Procs, RunIngest(p)
  PROVE  Inv'
<1>1. /\ lock = p /\ job[p] \in Job /\ job[p].pc = "next" /\ job[p].target = None
      /\ None \notin Recordings
  BY Running DEF RunIngest, AtStage, JobOK
<1>2. lock' = p /\ job'[p].pc = "next" /\ job'[p].todo = {} /\ job'[p].target = None
  BY <1>1 DEF RunIngest, EnterStage, Job, Inv, TypeOK
<1>3. PICK S \in SUBSET {x \in Recordings : rec[x].status = "absent"} :
        rec' = [x \in Recordings |-> IF x \in S THEN [rec[x] EXCEPT !.status = "discovered"]
                                     ELSE rec[x]]
  BY DEF RunIngest
<1>4. ASSUME NEW x \in Recordings
      PROVE  /\ RowSafe(rec'[x], decision'[x], attempts'[x], transcript'[x])
             /\ Held(x, rec'[x], attempts'[x], job'[p])
  <2>1. /\ rec[x] \in RecordingRow /\ RowSafe(rec[x], decision[x], attempts[x], transcript[x])
        /\ Held(x, rec[x], attempts[x], job[p])
    BY <1>1, Running
  <2>2. decision'[x] = decision[x] /\ attempts'[x] = attempts[x] /\ transcript'[x] = transcript[x]
    BY DEF RunIngest
  <2>3. \/ rec'[x] = rec[x]
        \/ /\ rec[x].status = "absent" /\ rec'[x].status = "discovered"
           /\ rec'[x].failureStage = rec[x].failureStage
           /\ rec'[x].retranscriptionFailed = rec[x].retranscriptionFailed
           /\ rec'[x].archived = rec[x].archived
    BY <1>3, <2>1 DEF RecordingRow
  <2>4. Unfinished(attempts[x]) = {} /\ rec[x].status # "transcribing"
    BY <1>1, <2>1 DEF Held
  <2> QED  BY <1>2, <2>1, <2>2, <2>3, <2>4, WorkingStages DEF RowSafe, Held, Busy
<1> QED  BY <1>2, <1>4 DEF Inv

LEMMA InvSelectStage ==
  ASSUME Inv, TypeOK', JobsConsistent', NEW p \in Procs, SelectStage(p)
  PROVE  Inv'
<1>1. lock = p /\ job[p] \in Job /\ job[p].pc = "next" /\ job[p].todo = {}
  BY Running DEF SelectStage, AtStage
<1>2. PICK s \in {"enter", "route", "transcribe", "summarize"} :
        EnterStage(p, s, {x \in Recordings : Eligible(s, x)})
  BY DEF SelectStage
<1>3. /\ lock' = p /\ job'[p].pc = "next" /\ job'[p].target = job[p].target
      /\ job'[p].stage = s /\ job'[p].todo = {x \in Recordings : Eligible(s, x)}
  BY <1>1, <1>2 DEF SelectStage, EnterStage, Job, Inv, TypeOK
<1>4. ASSUME NEW x \in Recordings
      PROVE  /\ RowSafe(rec'[x], decision'[x], attempts'[x], transcript'[x])
             /\ Held(x, rec'[x], attempts'[x], job'[p])
  <2>1. /\ RowSafe(rec[x], decision[x], attempts[x], transcript[x])
        /\ Held(x, rec[x], attempts[x], job[p])
    BY <1>1, Running
  <2>2. UNCHANGED <<rec, decision, attempts, transcript>>
    BY DEF SelectStage, database
  <2>3. Held(x, rec[x], attempts[x], job'[p])
    BY <1>1, <1>3, <2>1 DEF Held, Eligible, Busy
  <2> QED  BY <2>1, <2>2, <2>3
<1> QED  BY <1>3, <1>4 DEF Inv

\* What the moves do to the fields of the job.
LEMMA JobFields ==
  ASSUME TypeOK, NEW p \in Procs
  PROVE  /\ Done(p) => /\ job'[p].pc = "next" /\ job'[p].target = None
                       /\ job'[p].todo = job[p].todo /\ job'[p].stage = job[p].stage
         /\ \A x \in Recordings : Leave(p, x) =>
              /\ job'[p].pc = "next" /\ job'[p].target = None
              /\ job'[p].todo = job[p].todo \ {x} /\ job'[p].stage = job[p].stage
         /\ \A x, pc : TakeUp(p, x, pc) =>
              /\ job'[p].pc = pc /\ job'[p].target = x
              /\ job'[p].todo = job[p].todo \ {x} /\ job'[p].stage = job[p].stage
         /\ \A pc : Goto(p, pc) =>
              /\ job'[p].pc = pc /\ job'[p].target = job[p].target
              /\ job'[p].todo = job[p].todo /\ job'[p].stage = job[p].stage
         /\ \A st, S, again : GoOn(p, st, S, again) =>
              /\ job'[p].pc = "next" /\ job'[p].target = None
              /\ job'[p].todo = S /\ job'[p].stage = st
<1>1. job \in [Procs -> Job] /\ job[p] \in Job
  BY DEF TypeOK
<1>2. ASSUME Done(p)
      PROVE  /\ job'[p].pc = "next" /\ job'[p].target = None
             /\ job'[p].todo = job[p].todo /\ job'[p].stage = job[p].stage
  BY <1>1, <1>2 DEF Done, Job
<1>3. ASSUME NEW x \in Recordings, Leave(p, x)
      PROVE  /\ job'[p].pc = "next" /\ job'[p].target = None
             /\ job'[p].todo = job[p].todo \ {x} /\ job'[p].stage = job[p].stage
  BY <1>1, <1>3 DEF Leave, Job
<1>4. ASSUME NEW x, NEW pc, TakeUp(p, x, pc)
      PROVE  /\ job'[p].pc = pc /\ job'[p].target = x
             /\ job'[p].todo = job[p].todo \ {x} /\ job'[p].stage = job[p].stage
  BY <1>1, <1>4 DEF TakeUp, Job
<1>5. ASSUME NEW pc, Goto(p, pc)
      PROVE  /\ job'[p].pc = pc /\ job'[p].target = job[p].target
             /\ job'[p].todo = job[p].todo /\ job'[p].stage = job[p].stage
  BY <1>1, <1>5 DEF Goto, Job
<1>6. ASSUME NEW st, NEW S, NEW again, GoOn(p, st, S, again)
      PROVE  /\ job'[p].pc = "next" /\ job'[p].target = None
             /\ job'[p].todo = S /\ job'[p].stage = st
  BY <1>1, <1>6 DEF GoOn, Job
<1> QED  BY <1>2, <1>3, <1>4, <1>5, <1>6

LEMMA InvEnterRouting ==
  ASSUME Inv, TypeOK', JobsConsistent', NEW p \in Procs, NEW r \in Recordings, EnterRouting(p, r)
  PROVE  Inv'
<1>1. /\ lock = p /\ job[p].pc = "next" /\ job[p].target = None /\ job[p].stage = "enter"
      /\ r \in job[p].todo
  BY Running DEF EnterRouting, Turn, JobOK
<1>2. /\ rec[r] \in RecordingRow /\ RowSafe(rec[r], decision[r], attempts[r], transcript[r])
      /\ Held(r, rec[r], attempts[r], job[p]) /\ rec \in [Recordings -> RecordingRow]
  BY <1>1, Running DEF Inv, TypeOK
<1>3. /\ lock' = p /\ job'[p].pc = "next" /\ job'[p].target = None
      /\ job'[p].todo = job[p].todo \ {r} /\ job'[p].stage = "enter"
  BY <1>1, JobFields DEF EnterRouting, Inv
<1>4. /\ rec'[r].status = "routing" /\ rec'[r].failureStage = ""
      /\ rec'[r].retranscriptionFailed = rec[r].retranscriptionFailed
      /\ rec'[r].archived = rec[r].archived
      /\ \A x \in Recordings \ {r} : rec'[x] = rec[x]
  BY <1>2 DEF EnterRouting, Transition, RecordingRow
<1>5. UNCHANGED <<decision, attempts, transcript>>
  BY DEF EnterRouting
<1>6. rec[r].status = "discovered" /\ ~rec[r].archived /\ Unfinished(attempts[r]) = {}
  <2>1. Unfinished(attempts[r]) = {}
    BY <1>1, <1>2, HeldQuiet
  <2> QED  BY <1>1, <1>2, <2>1 DEF Held
<1>7. RowSafe(rec'[r], decision'[r], attempts'[r], transcript'[r])
  BY <1>2, <1>4, <1>5, <1>6 DEF RowSafe
<1>8. Held(r, rec'[r], attempts'[r], job'[p])
  BY <1>1, <1>3, <1>4, <1>5, <1>6, Running DEF Held, Busy
<1> QED  BY <1>1, <1>3, <1>4, <1>5, <1>7, <1>8, InvOne

LEMMA DecideFields ==
  ASSUME TypeOK, NEW r \in Recordings, NEW prof, NEW confident, NEW ready \in BOOLEAN,
         Decide(r, prof, confident, ready)
  PROVE  /\ rec'[r].status \in {"ready", "needs_review"} /\ rec'[r].failureStage = ""
         /\ rec'[r].retranscriptionFailed = rec[r].retranscriptionFailed
         /\ rec'[r].archived = rec[r].archived
         /\ decision'[r].method = "automatic"
         /\ \A x \in Recordings \ {r} : rec'[x] = rec[x] /\ decision'[x] = decision[x]
<1>1. rec \in [Recordings -> RecordingRow] /\ decision \in [Recordings -> Decision]
  BY DEF TypeOK
<1> QED  BY <1>1 DEF Decide, Transition, RecordingRow

LEMMA InvRouteOne ==
  ASSUME Inv, TypeOK', JobsConsistent', NEW p \in Procs, NEW r \in Recordings, RouteOne(p, r)
  PROVE  Inv'
<1>1. /\ lock = p /\ job[p].pc = "next" /\ job[p].target = None /\ job[p].stage = "route"
      /\ r \in job[p].todo /\ lock' = p /\ TypeOK /\ None \notin Recordings
  BY Running DEF RouteOne, Turn, JobOK, Inv
<1>2. /\ attempts[r] \in Seq(Attempt) /\ attempts \in [Recordings -> Seq(Attempt)]
      /\ RowSafe(rec[r], decision[r], attempts[r], transcript[r])
      /\ Held(r, rec[r], attempts[r], job[p])
  BY <1>1, Running DEF TypeOK
<1>3. rec[r].status = "routing" /\ Unfinished(attempts[r]) = {}
  BY <1>1, <1>2, HeldQuiet DEF Held
<1>4. CASE Leave(p, r) /\ UNCHANGED database
  <2>1. /\ job'[p].pc = "next" /\ job'[p].target = None
        /\ job'[p].todo = job[p].todo \ {r} /\ job'[p].stage = "route"
    BY <1>1, <1>4, JobFields
  <2>2. UNCHANGED <<rec, decision, attempts, transcript>>
    BY <1>4 DEF database
  <2>3. Held(r, rec'[r], attempts'[r], job'[p])
    BY <1>1, <1>3, <2>1, <2>2 DEF Held, Busy
  <2> QED  BY <1>1, <1>2, <2>1, <2>2, <2>3, InvOne
<1>5. CASE /\ Decide(r, None, FALSE, FALSE) /\ Leave(p, r)
           /\ UNCHANGED <<attempts, transcript, language, summary>>
  <2>1. /\ job'[p].pc = "next" /\ job'[p].target = None
        /\ job'[p].todo = job[p].todo \ {r} /\ job'[p].stage = "route"
    BY <1>1, <1>5, JobFields
  <2>2. /\ rec'[r].status \in {"ready", "needs_review"} /\ rec'[r].failureStage = ""
        /\ rec'[r].retranscriptionFailed = rec[r].retranscriptionFailed
        /\ rec'[r].archived = rec[r].archived
        /\ decision'[r].method = "automatic"
        /\ \A x \in Recordings \ {r} : rec'[x] = rec[x] /\ decision'[x] = decision[x]
    BY <1>1, <1>5, DecideFields
  <2>3. RowSafe(rec'[r], decision'[r], attempts'[r], transcript'[r])
    BY <1>2, <1>3, <1>5, <2>2 DEF RowSafe
  <2>4. Held(r, rec'[r], attempts'[r], job'[p])
    BY <1>1, <1>3, <1>5, <2>1, <2>2 DEF Held, Busy
  <2> QED  BY <1>1, <1>5, <2>1, <2>2, <2>3, <2>4, InvOne
<1>6. CASE /\ ~rec[r].archived /\ TakeUp(p, r, "routing")
           /\ attempts' = [attempts EXCEPT ![r] =
                Append(@, NewAttempt("routing", 0, NoLanguage, FALSE))]
           /\ UNCHANGED <<rec, decision, transcript, language, summary>>
  <2>1. /\ job'[p].pc = "routing" /\ job'[p].target = r
        /\ job'[p].todo = job[p].todo \ {r} /\ job'[p].stage = "route"
    BY <1>1, <1>6, JobFields
  <2>2. /\ \A x \in Recordings \ {r} : attempts'[x] = attempts[x]
        /\ \A i \in Unfinished(attempts'[r]) :
             i = Len(attempts'[r]) /\ attempts'[r][i].stage = "routing"
        /\ Len(attempts'[r]) # 0
    <3> DEFINE a == NewAttempt("routing", 0, NoLanguage, FALSE)
    <3>1. attempts'[r] = Append(attempts[r], a)
      BY <1>2, <1>6
    <3>2. \A x \in Recordings \ {r} : attempts'[x] = attempts[x]
      BY <1>2, <1>6
    <3>3. a \in Attempt /\ a.stage = "routing"
      BY DEF NewAttempt, Attempt, Stages, Outcomes
    <3> HIDE DEF a
    <3>4. /\ \A i \in Unfinished(attempts'[r]) :
               i = Len(attempts'[r]) /\ attempts'[r][i].stage = a.stage
          /\ Len(attempts'[r]) # 0
      BY <1>2, <1>3, <3>1, <3>3, UnfinishedAfterAppend, Zenon
    <3> QED  BY <3>2, <3>3, <3>4
  <2>3. RowSafe(rec'[r], decision'[r], attempts'[r], transcript'[r])
    BY <1>2, <1>6 DEF RowSafe
  <2>4. Held(r, rec'[r], attempts'[r], job'[p])
    BY <1>3, <1>6, <2>1, <2>2, WorkingStages DEF Held, Busy
  <2> QED  BY <1>1, <1>6, <2>1, <2>2, <2>3, <2>4, InvOne
<1> QED  BY <1>4, <1>5, <1>6 DEF RouteOne

LEMMA InvRoutingFails ==
  ASSUME Inv, TypeOK', JobsConsistent', NEW p \in Procs, RoutingFails(p)
  PROVE  Inv'
<1> DEFINE r == job[p].target
<1>1. /\ lock = p /\ lock' = p /\ job[p].pc = "routing" /\ r \in Recordings /\ r \notin job[p].todo
      /\ TypeOK /\ None \notin Recordings /\ None \notin job[p].todo
  BY Running DEF RoutingFails, JobOK, Busy, Inv, Job
<1>2. /\ rec[r] \in RecordingRow /\ attempts[r] \in Seq(Attempt) /\ transcript[r] \in Nat
      /\ RowSafe(rec[r], decision[r], attempts[r], transcript[r])
      /\ Held(r, rec[r], attempts[r], job[p])
      /\ rec \in [Recordings -> RecordingRow] /\ attempts \in [Recordings -> Seq(Attempt)]
      /\ transcript \in [Recordings -> Nat]
  BY <1>1, Running DEF TypeOK
<1>3. /\ job'[p].pc = "next" /\ job'[p].target = None
      /\ job'[p].todo = job[p].todo /\ job'[p].stage = job[p].stage
  BY <1>1, JobFields DEF RoutingFails
<1>4. attempts'[r] = FinishAttempt(attempts[r], "failed")
      /\ \A x \in Recordings \ {r} : attempts'[x] = attempts[x]
  BY <1>1, <1>2 DEF RoutingFails
<1>5. Unfinished(attempts'[r]) = {}
  BY <1>2, <1>4, UnfinishedAfterFinish DEF Held
<1>6. /\ rec[r].status = "routing" /\ rec'[r].status = "failed" /\ rec'[r].failureStage = "routing"
      /\ rec'[r].retranscriptionFailed = rec[r].retranscriptionFailed
      /\ rec'[r].archived = rec[r].archived
      /\ \A x \in Recordings \ {r} : rec'[x] = rec[x]
      /\ UNCHANGED <<decision, transcript>>
  BY <1>1, <1>2 DEF RoutingFails, RecordFailure, RecordingRow, Held
<1>7. RowSafe(rec'[r], decision'[r], attempts'[r], transcript'[r])
  BY <1>2, <1>5, <1>6 DEF RowSafe
<1>8. Held(r, rec'[r], attempts'[r], job'[p])
  BY <1>1, <1>3, <1>5, <1>6 DEF Held, Busy
<1> QED  BY <1>1, <1>2, <1>3, <1>4, <1>6, <1>7, <1>8, InvOne

LEMMA InvRoutingSucceeds ==
  ASSUME Inv, TypeOK', JobsConsistent', NEW p \in Procs, RoutingSucceeds(p)
  PROVE  Inv'
<1> DEFINE r == job[p].target
<1>1. /\ lock = p /\ lock' = p /\ job[p].pc = "routing" /\ r \in Recordings /\ r \notin job[p].todo
      /\ TypeOK /\ None \notin Recordings /\ None \notin job[p].todo
  BY Running DEF RoutingSucceeds, JobOK, Busy, Inv, Job
<1>2. /\ rec[r] \in RecordingRow /\ attempts[r] \in Seq(Attempt) /\ transcript[r] \in Nat
      /\ RowSafe(rec[r], decision[r], attempts[r], transcript[r])
      /\ Held(r, rec[r], attempts[r], job[p])
      /\ rec \in [Recordings -> RecordingRow] /\ attempts \in [Recordings -> Seq(Attempt)]
      /\ transcript \in [Recordings -> Nat]
  BY <1>1, Running DEF TypeOK
<1>3. /\ job'[p].pc = "outcome" /\ job'[p].target = r
      /\ job'[p].todo = job[p].todo /\ job'[p].stage = job[p].stage
  BY <1>1, JobFields DEF RoutingSucceeds
<1>4. attempts'[r] = FinishAttempt(attempts[r], "success")
      /\ \A x \in Recordings \ {r} : attempts'[x] = attempts[x]
  BY <1>1, <1>2 DEF RoutingSucceeds
<1>5. Unfinished(attempts'[r]) = {}
  BY <1>2, <1>4, UnfinishedAfterFinish DEF Held
<1>6. UNCHANGED <<rec, decision, transcript>> /\ rec[r].status = "routing" /\ ~rec[r].archived
  BY <1>1, <1>2 DEF RoutingSucceeds, Held, Busy
<1>7. RowSafe(rec'[r], decision'[r], attempts'[r], transcript'[r])
  BY <1>2, <1>5, <1>6 DEF RowSafe
<1>8. Held(r, rec'[r], attempts'[r], job'[p])
  BY <1>1, <1>3, <1>5, <1>6, WorkingStages DEF Held, Busy
<1> QED  BY <1>1, <1>2, <1>3, <1>4, <1>6, <1>7, <1>8, InvOne

LEMMA InvApplyOutcome ==
  ASSUME Inv, TypeOK', JobsConsistent', NEW p \in Procs, ApplyOutcome(p)
  PROVE  Inv'
<1> DEFINE r == job[p].target
<1>1. /\ lock = p /\ lock' = p /\ job[p].pc = "outcome" /\ r \in Recordings /\ r \notin job[p].todo
      /\ TypeOK /\ None \notin Recordings /\ None \notin job[p].todo
  BY Running DEF ApplyOutcome, JobOK, Busy, Inv, Job
<1>2. /\ rec[r] \in RecordingRow /\ attempts[r] \in Seq(Attempt) /\ transcript[r] \in Nat
      /\ RowSafe(rec[r], decision[r], attempts[r], transcript[r])
      /\ Held(r, rec[r], attempts[r], job[p])
      /\ rec \in [Recordings -> RecordingRow] /\ attempts \in [Recordings -> Seq(Attempt)]
      /\ transcript \in [Recordings -> Nat]
  BY <1>1, Running DEF TypeOK
<1>3. /\ job'[p].pc = "next" /\ job'[p].target = None
      /\ job'[p].todo = job[p].todo /\ job'[p].stage = job[p].stage
  BY <1>1, JobFields DEF ApplyOutcome
<1>4. UNCHANGED <<attempts, transcript>>
  BY DEF ApplyOutcome
<1>5. Unfinished(attempts[r]) = {} /\ rec[r].status = "routing"
  <2>1. Unfinished(attempts[r]) = {}
    BY <1>1, <1>2, HeldQuiet
  <2> QED  BY <1>1, <1>2, <2>1 DEF Held
<1>6. /\ rec'[r].status \in {"ready", "needs_review"} /\ rec'[r].failureStage = ""
      /\ rec'[r].retranscriptionFailed = rec[r].retranscriptionFailed
      /\ rec'[r].archived = rec[r].archived
      /\ decision'[r].method = "automatic"
      /\ \A x \in Recordings \ {r} : rec'[x] = rec[x] /\ decision'[x] = decision[x]
  <2>1. PICK prof \in Profiles \cup {None}, confident \in BOOLEAN, ready \in BOOLEAN :
          Decide(r, prof, confident, ready)
    BY DEF ApplyOutcome
  <2>2. r \in Recordings /\ TypeOK
    BY <1>1
  <2> HIDE DEF r
  <2> QED  BY <2>1, <2>2, DecideFields
<1>7. RowSafe(rec'[r], decision'[r], attempts'[r], transcript'[r])
  BY <1>2, <1>4, <1>5, <1>6 DEF RowSafe
<1>8. Held(r, rec'[r], attempts'[r], job'[p])
  BY <1>1, <1>3, <1>4, <1>5, <1>6 DEF Held, Busy
<1> QED  BY <1>1, <1>2, <1>3, <1>4, <1>6, <1>7, <1>8, InvOne

LEMMA InvTranscribeOne ==
  ASSUME Inv, TypeOK', JobsConsistent', NEW p \in Procs, NEW r \in Recordings,
         TranscribeOne(p, r)
  PROVE  Inv'
<1>1. /\ lock = p /\ job[p].pc = "next" /\ job[p].target = None /\ job[p].stage = "transcribe"
      /\ r \in job[p].todo /\ lock' = p /\ TypeOK /\ None \notin Recordings
  BY Running DEF TranscribeOne, Turn, JobOK, Inv
<1>2. /\ rec[r] \in RecordingRow /\ rec \in [Recordings -> RecordingRow]
      /\ RowSafe(rec[r], decision[r], attempts[r], transcript[r])
      /\ Held(r, rec[r], attempts[r], job[p])
  BY <1>1, Running DEF TypeOK
<1>3. rec[r].status = "ready" /\ Unfinished(attempts[r]) = {}
      /\ UNCHANGED <<decision, attempts, transcript>>
  BY <1>1, <1>2, HeldQuiet DEF Held, TranscribeOne
<1>4. CASE Leave(p, r) /\ UNCHANGED rec
  <2>1. /\ job'[p].pc = "next" /\ job'[p].target = None
        /\ job'[p].todo = job[p].todo \ {r} /\ job'[p].stage = "transcribe"
    BY <1>1, <1>4, JobFields
  <2>2. Held(r, rec'[r], attempts'[r], job'[p])
    BY <1>1, <1>3, <1>4, <2>1 DEF Held, Busy
  <2> QED  BY <1>1, <1>2, <1>3, <1>4, <2>1, <2>2, InvOne
<1>5. CASE /\ CanTranscribe(r) /\ TakeUp(p, r, "claimed")
           /\ rec' = [rec EXCEPT ![r] = Transition(@, "transcribing")]
  <2>1. /\ job'[p].pc = "claimed" /\ job'[p].target = r
        /\ job'[p].todo = job[p].todo \ {r} /\ job'[p].stage = "transcribe"
    BY <1>1, <1>5, JobFields
  <2>2. /\ rec'[r].status = "transcribing" /\ rec'[r].failureStage = ""
        /\ rec'[r].retranscriptionFailed = rec[r].retranscriptionFailed
        /\ ~rec[r].archived /\ ~rec'[r].archived
        /\ \A x \in Recordings \ {r} : rec'[x] = rec[x]
    BY <1>2, <1>5 DEF CanTranscribe, Transition, RecordingRow
  <2>3. RowSafe(rec'[r], decision'[r], attempts'[r], transcript'[r])
    BY <1>2, <1>3, <2>2 DEF RowSafe
  <2>4. Held(r, rec'[r], attempts'[r], job'[p])
    BY <1>3, <2>1, <2>2, WorkingStages DEF Held, Busy
  <2> QED  BY <1>1, <1>3, <2>1, <2>2, <2>3, <2>4, InvOne
<1> QED  BY <1>4, <1>5 DEF TranscribeOne

LEMMA InvBeginTranscription ==
  ASSUME Inv, TypeOK', JobsConsistent', NEW p \in Procs, BeginTranscription(p)
  PROVE  Inv'
<1> DEFINE r == job[p].target
<1>1. /\ lock = p /\ lock' = p /\ job[p].pc = "claimed" /\ r \in Recordings /\ r \notin job[p].todo
      /\ TypeOK /\ None \notin Recordings /\ None \notin job[p].todo
  BY Running DEF BeginTranscription, JobOK, Busy, Inv, Job
<1>2. /\ rec[r] \in RecordingRow /\ attempts[r] \in Seq(Attempt) /\ transcript[r] \in Nat
      /\ RowSafe(rec[r], decision[r], attempts[r], transcript[r])
      /\ Held(r, rec[r], attempts[r], job[p])
      /\ rec \in [Recordings -> RecordingRow] /\ attempts \in [Recordings -> Seq(Attempt)]
      /\ transcript \in [Recordings -> Nat]
  BY <1>1, Running DEF TypeOK
<1>3. /\ job'[p].pc = "transcribing" /\ job'[p].target = r
      /\ job'[p].todo = job[p].todo /\ job'[p].stage = job[p].stage
  BY <1>1, JobFields DEF BeginTranscription
<1>4. /\ Unfinished(attempts[r]) = {}
      /\ rec[r].status = "transcribing" /\ ~rec[r].archived
  <2>1. Unfinished(attempts[r]) = {}
    BY <1>1, <1>2, HeldQuiet
  <2> QED  BY <1>1, <1>2, <2>1 DEF Held, Busy
<1>5. /\ \A x \in Recordings \ {r} : attempts'[x] = attempts[x]
      /\ \A i \in Unfinished(attempts'[r]) :
           i = Len(attempts'[r]) /\ attempts'[r][i].stage = "transcription"
      /\ Len(attempts'[r]) # 0
  <2> DEFINE a == NewAttempt("transcription", 0, NoLanguage, FALSE)
  <2>1. /\ attempts'[r] = Append(attempts[r], a)
        /\ \A x \in Recordings \ {r} : attempts'[x] = attempts[x]
    BY <1>1, <1>2 DEF BeginTranscription
  <2>2. a \in Attempt /\ a.stage = "transcription"
    BY DEF NewAttempt, Attempt, Stages, Outcomes
  <2> HIDE DEF a
  <2>3. /\ \A i \in Unfinished(attempts'[r]) :
             i = Len(attempts'[r]) /\ attempts'[r][i].stage = a.stage
        /\ Len(attempts'[r]) # 0
    BY <1>2, <1>4, <2>1, <2>2, UnfinishedAfterAppend, Zenon
  <2> QED  BY <2>1, <2>2, <2>3
<1>6. UNCHANGED <<rec, decision, transcript>>
  BY DEF BeginTranscription
<1>7. RowSafe(rec'[r], decision'[r], attempts'[r], transcript'[r])
  BY <1>2, <1>4, <1>6 DEF RowSafe
<1>8. Held(r, rec'[r], attempts'[r], job'[p])
  BY <1>1, <1>3, <1>4, <1>5, <1>6, WorkingStages DEF Held, Busy
<1> QED  BY <1>1, <1>3, <1>5, <1>6, <1>7, <1>8, InvOne

LEMMA InvTranscriptionFails ==
  ASSUME Inv, TypeOK', JobsConsistent', NEW p \in Procs, TranscriptionFails(p)
  PROVE  Inv'
<1> DEFINE r == job[p].target
<1>1. /\ lock = p /\ lock' = p /\ job[p].pc = "transcribing" /\ r \in Recordings /\ r \notin job[p].todo
      /\ TypeOK /\ None \notin Recordings /\ None \notin job[p].todo
  BY Running DEF TranscriptionFails, JobOK, Busy, Inv, Job
<1>2. /\ rec[r] \in RecordingRow /\ attempts[r] \in Seq(Attempt) /\ transcript[r] \in Nat
      /\ RowSafe(rec[r], decision[r], attempts[r], transcript[r])
      /\ Held(r, rec[r], attempts[r], job[p])
      /\ rec \in [Recordings -> RecordingRow] /\ attempts \in [Recordings -> Seq(Attempt)]
      /\ transcript \in [Recordings -> Nat]
  BY <1>1, Running DEF TypeOK
<1>3. /\ job'[p].pc = "next" /\ job'[p].target = None
      /\ job'[p].todo = job[p].todo /\ job'[p].stage = job[p].stage
  BY <1>1, JobFields DEF TranscriptionFails
<1>4. attempts'[r] = FinishAttempt(attempts[r], "failed")
      /\ \A x \in Recordings \ {r} : attempts'[x] = attempts[x]
  BY <1>1, <1>2 DEF TranscriptionFails
<1>5. Unfinished(attempts'[r]) = {}
  BY <1>2, <1>4, UnfinishedAfterFinish DEF Held
<1>6. /\ rec'[r].archived = rec[r].archived
      /\ IF transcript[r] # 0
         THEN rec'[r].status = "transcribed" /\ rec'[r].failureStage = ""
         ELSE /\ rec'[r].status = "failed" /\ rec'[r].failureStage = "transcription"
              /\ rec'[r].retranscriptionFailed = rec[r].retranscriptionFailed
      /\ \A x \in Recordings \ {r} : rec'[x] = rec[x]
      /\ UNCHANGED <<decision, transcript>>
  BY <1>1, <1>2 DEF TranscriptionFails, RecordFailure, RecordingRow
<1>7. RowSafe(rec'[r], decision'[r], attempts'[r], transcript'[r])
  BY <1>2, <1>5, <1>6 DEF RowSafe
<1>8. Held(r, rec'[r], attempts'[r], job'[p])
  BY <1>1, <1>3, <1>5, <1>6 DEF Held, Busy
<1> QED  BY <1>1, <1>2, <1>3, <1>4, <1>6, <1>7, <1>8, InvOne

LEMMA InvTranscriptionSucceeds ==
  ASSUME Inv, TypeOK', JobsConsistent', NEW p \in Procs, TranscriptionSucceeds(p)
  PROVE  Inv'
<1> DEFINE r == job[p].target
<1>1. /\ lock = p /\ lock' = p /\ job[p].pc = "transcribing" /\ r \in Recordings /\ r \notin job[p].todo
      /\ TypeOK /\ None \notin Recordings /\ None \notin job[p].todo
  BY Running DEF TranscriptionSucceeds, JobOK, Busy, Inv, Job
<1>2. /\ rec[r] \in RecordingRow /\ attempts[r] \in Seq(Attempt) /\ transcript[r] \in Nat
      /\ RowSafe(rec[r], decision[r], attempts[r], transcript[r])
      /\ Held(r, rec[r], attempts[r], job[p])
      /\ rec \in [Recordings -> RecordingRow] /\ attempts \in [Recordings -> Seq(Attempt)]
      /\ transcript \in [Recordings -> Nat]
  BY <1>1, Running DEF TypeOK
<1>3. /\ job'[p].pc = "next" /\ job'[p].target = None
      /\ job'[p].todo = job[p].todo /\ job'[p].stage = job[p].stage
  BY <1>1, JobFields DEF TranscriptionSucceeds
<1>4. attempts'[r] = FinishAttempt(attempts[r], "success")
      /\ \A x \in Recordings \ {r} : attempts'[x] = attempts[x]
  BY <1>1, <1>2 DEF TranscriptionSucceeds
<1>5. Unfinished(attempts'[r]) = {}
  BY <1>2, <1>4, UnfinishedAfterFinish DEF Held
<1>6. /\ rec'[r].archived = rec[r].archived
      /\ rec'[r].status = "transcribed" /\ rec'[r].failureStage = ""
      /\ rec'[r].retranscriptionFailed = FALSE
      /\ \A x \in Recordings \ {r} : rec'[x] = rec[x] /\ transcript'[x] = transcript[x]
      /\ UNCHANGED decision
  BY <1>1, <1>2 DEF TranscriptionSucceeds, RecordingRow
<1>7. transcript'[r] # 0
  <2>1. Len(attempts[r]) # 0
    BY <1>1, <1>2, WorkingStages DEF Held
  <2> QED  BY <1>1, <1>2, <2>1 DEF TranscriptionSucceeds
<1>8. RowSafe(rec'[r], decision'[r], attempts'[r], transcript'[r])
  BY <1>2, <1>5, <1>6, <1>7 DEF RowSafe
<1>9. Held(r, rec'[r], attempts'[r], job'[p])
  BY <1>1, <1>3, <1>5, <1>6 DEF Held, Busy
<1> QED  BY <1>1, <1>2, <1>3, <1>4, <1>6, <1>8, <1>9, InvOne

LEMMA Opened ==
  ASSUME TypeOK, NEW r \in Recordings, Unfinished(attempts[r]) = {}, NEW a \in Attempt,
         attempts' = [attempts EXCEPT ![r] = Append(@, a)]
  PROVE  /\ \A x \in Recordings \ {r} : attempts'[x] = attempts[x]
         /\ \A i \in Unfinished(attempts'[r]) :
              i = Len(attempts'[r]) /\ attempts'[r][i].stage = a.stage
         /\ Len(attempts'[r]) # 0
<1>1. attempts \in [Recordings -> Seq(Attempt)] /\ attempts[r] \in Seq(Attempt)
  BY DEF TypeOK
<1>2. attempts'[r] = Append(attempts[r], a) /\ \A x \in Recordings \ {r} : attempts'[x] = attempts[x]
  BY <1>1
<1>3. /\ \A i \in Unfinished(attempts'[r]) :
           i = Len(attempts'[r]) /\ attempts'[r][i].stage = a.stage
      /\ Len(attempts'[r]) # 0
  BY <1>1, <1>2, UnfinishedAfterAppend, Zenon
<1> QED  BY <1>2, <1>3

LEMMA InvSummarizeOne ==
  ASSUME Inv, TypeOK', JobsConsistent', NEW p \in Procs, NEW r \in Recordings,
         SummarizeOne(p, r)
  PROVE  Inv'
<1>1. /\ lock = p /\ job[p].pc = "next" /\ job[p].target = None /\ job[p].stage = "summarize"
      /\ r \in job[p].todo /\ lock' = p /\ TypeOK /\ None \notin Recordings
  BY Running DEF SummarizeOne, Turn, JobOK, Inv
<1>2. /\ attempts[r] \in Seq(Attempt) /\ attempts \in [Recordings -> Seq(Attempt)]
      /\ transcript[r] \in Nat
      /\ RowSafe(rec[r], decision[r], attempts[r], transcript[r])
      /\ Held(r, rec[r], attempts[r], job[p])
  BY <1>1, Running DEF TypeOK
<1>3. Unfinished(attempts[r]) = {} /\ UNCHANGED <<rec, decision, transcript>>
  <2>1. Unfinished(attempts[r]) = {}
    BY <1>1, <1>2, HeldQuiet
  <2> QED  BY <2>1 DEF SummarizeOne
<1>4. rec[r].status # "transcribing"
  BY <1>1, <1>2 DEF Held
<1>5. CASE Leave(p, r) /\ UNCHANGED attempts
  <2>1. /\ job'[p].pc = "next" /\ job'[p].target = None
        /\ job'[p].todo = job[p].todo \ {r} /\ job'[p].stage = "summarize"
    BY <1>1, <1>5, JobFields
  <2>2. Held(r, rec'[r], attempts'[r], job'[p])
    BY <1>1, <1>3, <1>4, <1>5, <2>1 DEF Held, Busy
  <2> QED  BY <1>1, <1>2, <1>3, <1>5, <2>1, <2>2, InvOne
<1>6. ASSUME NEW a \in Attempt, a.stage = "summarization",
             attempts' = [attempts EXCEPT ![r] = Append(@, a)],
             NEW pc \in {"detecting", "summarizing"}, TakeUp(p, r, pc), ~rec[r].archived
      PROVE  Inv'
  <2>1. /\ job'[p].pc = pc /\ job'[p].target = r
        /\ job'[p].todo = job[p].todo \ {r} /\ job'[p].stage = "summarize"
    BY <1>1, <1>6, JobFields
  <2>2. /\ \A x \in Recordings \ {r} : attempts'[x] = attempts[x]
        /\ \A i \in Unfinished(attempts'[r]) :
             i = Len(attempts'[r]) /\ attempts'[r][i].stage = "summarization"
        /\ Len(attempts'[r]) # 0
    BY <1>1, <1>3, <1>6, Opened
  <2>3. RowSafe(rec'[r], decision'[r], attempts'[r], transcript'[r])
    BY <1>2, <1>3, <1>6 DEF RowSafe
  <2>4. Held(r, rec'[r], attempts'[r], job'[p])
    BY <1>1, <1>3, <1>4, <1>6, <2>1, <2>2, WorkingStages DEF Held, Busy
  <2> QED  BY <1>1, <1>3, <2>1, <2>2, <2>3, <2>4, InvOne
<1>7. CASE /\ ~rec[r].archived /\ TakeUp(p, r, "detecting")
           /\ attempts' = [attempts EXCEPT ![r] =
                Append(@, NewAttempt("summarization", 0, NoLanguage, FALSE))]
  <2> DEFINE a == NewAttempt("summarization", 0, NoLanguage, FALSE)
  <2>1. a \in Attempt /\ a.stage = "summarization"
    BY DEF NewAttempt, Attempt, Stages, Outcomes
  <2>2. attempts' = [attempts EXCEPT ![r] = Append(@, a)]
    BY <1>7
  <2> HIDE DEF a
  <2> QED  BY <1>6, <1>7, <2>1, <2>2
<1>8. CASE BeginSummary(p, r, Requested(r, job[p].selector)) /\ TakeUp(p, r, "summarizing")
  <2>1. PICK a \in Attempt :
          a.stage = "summarization" /\ attempts' = [attempts EXCEPT ![r] = Append(@, a)]
    BY <1>1, <1>8, Begun
  <2>2. ~rec[r].archived
    BY <1>1, <1>8, Begun
  <2> QED  BY <1>6, <1>8, <2>1, <2>2
<1> QED  BY <1>5, <1>7, <1>8 DEF SummarizeOne

LEMMA InvSummarizationFails ==
  ASSUME Inv, TypeOK', JobsConsistent', NEW p \in Procs, SummarizationFails(p)
  PROVE  Inv'
<1> DEFINE r == job[p].target
<1>1. /\ lock = p /\ lock' = p /\ job[p].pc = "summarizing" /\ r \in Recordings /\ r \notin job[p].todo
      /\ TypeOK /\ None \notin Recordings /\ None \notin job[p].todo
  BY Running DEF SummarizationFails, JobOK, Busy, Inv, Job
<1>2. /\ rec[r] \in RecordingRow /\ attempts[r] \in Seq(Attempt) /\ transcript[r] \in Nat
      /\ RowSafe(rec[r], decision[r], attempts[r], transcript[r])
      /\ Held(r, rec[r], attempts[r], job[p])
      /\ rec \in [Recordings -> RecordingRow] /\ attempts \in [Recordings -> Seq(Attempt)]
  BY <1>1, Running DEF TypeOK
<1>3. /\ job'[p].pc = "next" /\ job'[p].target = None
      /\ job'[p].todo = job[p].todo /\ job'[p].stage = job[p].stage
  BY <1>1, JobFields DEF SummarizationFails
<1>4. /\ attempts'[r] = FinishAttempt(attempts[r], "failed")
      /\ \A x \in Recordings \ {r} : attempts'[x] = attempts[x]
  BY <1>1, <1>2 DEF SummarizationFails
<1>5. Unfinished(attempts'[r]) = {}
  BY <1>2, <1>4, UnfinishedAfterFinish DEF Held
<1>6. /\ rec'[r].status = rec[r].status /\ rec'[r].failureStage = rec[r].failureStage
      /\ rec'[r].retranscriptionFailed = rec[r].retranscriptionFailed
      /\ rec'[r].archived = rec[r].archived
      /\ \A x \in Recordings \ {r} : rec'[x] = rec[x]
  <2>1. /\ rec'[r] = Reconcile(r, FinishAttempt(attempts[r], "failed"), Generating(r),
                              summary[r][Generating(r)])
        /\ \A x \in Recordings \ {r} : rec'[x] = rec[x]
    BY <1>1, <1>2 DEF SummarizationFails
  <2> QED  BY <1>1, <2>1, ReconcileFields
<1>7. UNCHANGED <<decision, transcript>>
  BY DEF SummarizationFails
<1>8. RowSafe(rec'[r], decision'[r], attempts'[r], transcript'[r])
  BY <1>2, <1>5, <1>6, <1>7 DEF RowSafe
<1>9. Held(r, rec'[r], attempts'[r], job'[p])
  BY <1>1, <1>2, <1>3, <1>5, <1>6 DEF Held, Busy
<1> QED  BY <1>1, <1>2, <1>3, <1>4, <1>6, <1>7, <1>8, <1>9, InvOne

LEMMA InvSummarizationSucceeds ==
  ASSUME Inv, TypeOK', JobsConsistent', NEW p \in Procs, SummarizationSucceeds(p)
  PROVE  Inv'
<1> DEFINE r == job[p].target
<1>1. /\ lock = p /\ lock' = p /\ job[p].pc = "summarizing" /\ r \in Recordings /\ r \notin job[p].todo
      /\ TypeOK /\ None \notin Recordings /\ None \notin job[p].todo
  BY Running DEF SummarizationSucceeds, JobOK, Busy, Inv, Job
<1>2. /\ rec[r] \in RecordingRow /\ attempts[r] \in Seq(Attempt) /\ transcript[r] \in Nat
      /\ RowSafe(rec[r], decision[r], attempts[r], transcript[r])
      /\ Held(r, rec[r], attempts[r], job[p])
      /\ rec \in [Recordings -> RecordingRow] /\ attempts \in [Recordings -> Seq(Attempt)]
  BY <1>1, Running DEF TypeOK
<1>3. /\ \/ job'[p].pc = "next" /\ job'[p].target = None
         \/ job'[p].pc = "persisted" /\ job'[p].target = r
      /\ job'[p].todo = job[p].todo /\ job'[p].stage = job[p].stage
  <2>1. Done(p) \/ Goto(p, "persisted")
    BY DEF SummarizationSucceeds
  <2> QED  BY <1>1, <2>1, JobFields
<1>4. /\ attempts'[r] = FinishAttempt(attempts[r], "success")
      /\ \A x \in Recordings \ {r} : attempts'[x] = attempts[x]
  BY <1>1, <1>2 DEF SummarizationSucceeds
<1>5. Unfinished(attempts'[r]) = {}
  BY <1>2, <1>4, UnfinishedAfterFinish DEF Held
<1>6. /\ rec'[r].status = rec[r].status /\ rec'[r].failureStage = rec[r].failureStage
      /\ rec'[r].retranscriptionFailed = rec[r].retranscriptionFailed
      /\ rec'[r].archived = rec[r].archived
      /\ \A x \in Recordings \ {r} : rec'[x] = rec[x]
  <2>1. /\ rec'[r] = Reconcile(r, attempts[r], Generating(r), Len(attempts[r]))
        /\ \A x \in Recordings \ {r} : rec'[x] = rec[x]
    BY <1>1, <1>2 DEF SummarizationSucceeds
  <2> QED  BY <1>1, <2>1, ReconcileFields
<1>7. UNCHANGED <<decision, transcript>>
  BY DEF SummarizationSucceeds
<1>8. RowSafe(rec'[r], decision'[r], attempts'[r], transcript'[r])
  BY <1>2, <1>5, <1>6, <1>7 DEF RowSafe
<1>9. Held(r, rec'[r], attempts'[r], job'[p])
  BY <1>1, <1>2, <1>3, <1>5, <1>6, WorkingStages DEF Held, Busy
<1> QED  BY <1>1, <1>2, <1>3, <1>4, <1>6, <1>7, <1>8, <1>9, InvOne

LEMMA InvDetection ==
  ASSUME Inv, TypeOK', JobsConsistent', NEW p \in Procs,
         DetectionFails(p) \/ DetectionSucceeds(p)
  PROVE  Inv'
<1> DEFINE r == job[p].target
<1>1. /\ lock = p /\ lock' = p /\ job[p].pc = "detecting" /\ r \in Recordings /\ r \notin job[p].todo
      /\ TypeOK /\ None \notin Recordings /\ None \notin job[p].todo
  BY Running DEF DetectionFails, DetectionSucceeds, JobOK, Busy, Inv, Job
<1>2. /\ attempts[r] \in Seq(Attempt) /\ attempts \in [Recordings -> Seq(Attempt)]
      /\ RowSafe(rec[r], decision[r], attempts[r], transcript[r])
      /\ Held(r, rec[r], attempts[r], job[p])
  BY <1>1, Running DEF TypeOK
<1>3. /\ \/ job'[p].pc = "next" /\ job'[p].target = None
         \/ job'[p].pc = "detected" /\ job'[p].target = r
      /\ job'[p].todo = job[p].todo /\ job'[p].stage = job[p].stage
  <2>1. Done(p) \/ Goto(p, "detected")
    BY DEF DetectionFails, DetectionSucceeds
  <2> QED  BY <1>1, <2>1, JobFields
<1>4. /\ Unfinished(attempts'[r]) = {}
      /\ \A x \in Recordings \ {r} : attempts'[x] = attempts[x]
  <2>1. PICK o \in {"success", "failed"} :
          attempts' = [attempts EXCEPT ![r] = FinishAttempt(@, o)]
    BY DEF DetectionFails, DetectionSucceeds
  <2>2. attempts'[r] = FinishAttempt(attempts[r], o)
        /\ \A x \in Recordings \ {r} : attempts'[x] = attempts[x]
    BY <1>1, <1>2, <2>1
  <2> QED  BY <1>2, <2>2, UnfinishedAfterFinish DEF Held
<1>5. UNCHANGED <<rec, decision, transcript>>
  BY DEF DetectionFails, DetectionSucceeds
<1>6. RowSafe(rec'[r], decision'[r], attempts'[r], transcript'[r])
  BY <1>2, <1>4, <1>5 DEF RowSafe
<1>7. Held(r, rec'[r], attempts'[r], job'[p])
  BY <1>1, <1>2, <1>3, <1>4, <1>5, WorkingStages DEF Held, Busy
<1> QED  BY <1>1, <1>3, <1>4, <1>5, <1>6, <1>7, InvOne

LEMMA InvStoreLanguage ==
  ASSUME Inv, TypeOK', JobsConsistent', NEW p \in Procs,
         StoreDetectedLanguage(p) \/ StoreReportedLanguage(p)
  PROVE  Inv'
<1> DEFINE r == job[p].target
<1>1. /\ lock = p /\ lock' = p /\ job[p].pc \in {"detected", "persisted"}
      /\ r \in Recordings /\ r \notin job[p].todo
      /\ TypeOK /\ None \notin Recordings /\ None \notin job[p].todo
  BY Running DEF StoreDetectedLanguage, StoreReportedLanguage, JobOK, Busy, Inv, Job
<1>2. /\ RowSafe(rec[r], decision[r], attempts[r], transcript[r])
      /\ Held(r, rec[r], attempts[r], job[p])
  BY <1>1, Running
<1>3. /\ \/ job'[p].pc = "next" /\ job'[p].target = None
         \/ job'[p].pc = "resolved" /\ job'[p].target = r
      /\ job'[p].todo = job[p].todo /\ job'[p].stage = job[p].stage
  <2>1. Done(p) \/ Goto(p, "resolved")
    BY DEF StoreDetectedLanguage, StoreReportedLanguage
  <2> QED  BY <1>1, <2>1, JobFields
<1>4. UNCHANGED <<rec, decision, attempts, transcript>>
  BY DEF StoreDetectedLanguage, StoreReportedLanguage
<1>5. Held(r, rec'[r], attempts'[r], job'[p])
  BY <1>1, <1>2, <1>3, <1>4, WorkingStages DEF Held, Busy
<1> QED  BY <1>1, <1>2, <1>3, <1>4, <1>5, InvOne

LEMMA InvSummarizeDetected ==
  ASSUME Inv, TypeOK', JobsConsistent', NEW p \in Procs, SummarizeDetected(p)
  PROVE  Inv'
<1> DEFINE r == job[p].target
<1>1. /\ lock = p /\ lock' = p /\ job[p].pc = "resolved" /\ r \in Recordings /\ r \notin job[p].todo
      /\ TypeOK /\ None \notin Recordings /\ None \notin job[p].todo
  BY Running DEF SummarizeDetected, JobOK, Busy, Inv, Job
<1>2. /\ RowSafe(rec[r], decision[r], attempts[r], transcript[r])
      /\ Held(r, rec[r], attempts[r], job[p])
  BY <1>1, Running
<1>3. UNCHANGED <<rec, decision, transcript>> /\ Unfinished(attempts[r]) = {}
      /\ rec[r].status # "transcribing" /\ ~rec[r].archived
  <2>1. Unfinished(attempts[r]) = {}
    BY <1>1, <1>2, HeldQuiet
  <2> QED  BY <1>1, <1>2, <2>1 DEF SummarizeDetected, Held, Busy
<1>4. CASE Done(p) /\ UNCHANGED attempts
  <2>1. /\ job'[p].pc = "next" /\ job'[p].target = None
        /\ job'[p].todo = job[p].todo /\ job'[p].stage = job[p].stage
    BY <1>1, <1>4, JobFields
  <2>2. Held(r, rec'[r], attempts'[r], job'[p])
    BY <1>1, <1>2, <1>3, <1>4, <2>1 DEF Held, Busy
  <2> QED  BY <1>1, <1>2, <1>3, <1>4, <2>1, <2>2, InvOne
<1>5. CASE BeginSummary(p, r, Requested(r, job[p].selector)) /\ Goto(p, "summarizing")
  <2>1. /\ job'[p].pc = "summarizing" /\ job'[p].target = r
        /\ job'[p].todo = job[p].todo /\ job'[p].stage = job[p].stage
    BY <1>1, <1>5, JobFields
  <2>2. PICK a \in Attempt :
          a.stage = "summarization" /\ attempts' = [attempts EXCEPT ![r] = Append(@, a)]
    <3> HIDE DEF r
    <3> QED  BY <1>1, <1>5, Begun DEF r
  <2>3. /\ \A x \in Recordings \ {r} : attempts'[x] = attempts[x]
        /\ \A i \in Unfinished(attempts'[r]) :
             i = Len(attempts'[r]) /\ attempts'[r][i].stage = "summarization"
        /\ Len(attempts'[r]) # 0
    BY <1>1, <1>3, <2>2, Opened
  <2>4. RowSafe(rec'[r], decision'[r], attempts'[r], transcript'[r])
    BY <1>2, <1>3 DEF RowSafe
  <2>5. Held(r, rec'[r], attempts'[r], job'[p])
    BY <1>1, <1>2, <1>3, <2>1, <2>3, WorkingStages DEF Held, Busy
  <2> QED  BY <1>1, <1>3, <2>1, <2>3, <2>4, <2>5, InvOne
<1> QED  BY <1>4, <1>5 DEF SummarizeDetected

\* A command on one recording finds nothing in flight in it.
LEMMA Performing ==
  ASSUME Inv, NEW p \in Procs, job[p].pc = "perform"
  PROVE  LET r == job[p].target
         IN  /\ lock = p /\ TypeOK /\ r \in Recordings /\ job[p].todo = {}
             /\ rec[r] \in RecordingRow /\ decision[r] \in Decision
             /\ rec \in [Recordings -> RecordingRow] /\ decision \in [Recordings -> Decision]
             /\ RowSafe(rec[r], decision[r], attempts[r], transcript[r])
             /\ rec[r].status # "transcribing" /\ Unfinished(attempts[r]) = {}
<1> DEFINE r == job[p].target
<1>1. /\ lock = p /\ r \in Recordings /\ job[p].todo = {} /\ TypeOK
  BY Running DEF JobOK, Inv
<1>2. Held(r, rec[r], attempts[r], job[p])
      /\ RowSafe(rec[r], decision[r], attempts[r], transcript[r])
  BY <1>1, Running
<1>3. Unfinished(attempts[r]) = {}
  BY <1>2, HeldQuiet
<1>4. rec[r].status # "transcribing"
  BY <1>2 DEF Held
<1> QED  BY <1>1, <1>2, <1>3, <1>4 DEF TypeOK

\* It ends, or goes on with a stage for which it made its recording ready.
LEMMA InvPerform ==
  ASSUME Inv, TypeOK', JobsConsistent', NEW p \in Procs, job[p].pc = "perform",
         UNCHANGED <<attempts, transcript, lock>>, NEW r, r = job[p].target,
         \A x \in Recordings \ {r} : rec'[x] = rec[x] /\ decision'[x] = decision[x],
         job'[p].pc = "next", job'[p].target = None, job'[p].todo \subseteq {r},
         r \in job'[p].todo => \/ job'[p].stage = "route" /\ rec'[r].status = "routing"
                               \/ job'[p].stage = "transcribe" /\ rec'[r].status = "ready"
                               \/ job'[p].stage = "summarize",
         rec'[r].status # "transcribing",
         RowSafe(rec'[r], decision'[r], attempts[r], transcript[r])
  PROVE  Inv'
<1>1. lock = p /\ r \in Recordings /\ job[p].todo = {} /\ Unfinished(attempts[r]) = {}
  BY Performing
<1>2. None \notin Recordings
  BY PipelineAssumption
<1>3. Held(r, rec'[r], attempts'[r], job'[p])
  BY <1>1, <1>2 DEF Held, Busy
<1> QED  BY <1>1, <1>3, InvOne

LEMMA InvConfirmRouting ==
  ASSUME Inv, TypeOK', JobsConsistent', NEW p \in Procs, ConfirmRouting(p)
  PROVE  Inv'
<1> DEFINE r == job[p].target
<1>1. /\ job[p].pc = "perform" /\ lock = p /\ TypeOK /\ r \in Recordings /\ job[p].todo = {}
      /\ rec[r] \in RecordingRow /\ decision[r] \in Decision
      /\ rec \in [Recordings -> RecordingRow] /\ decision \in [Recordings -> Decision]
      /\ RowSafe(rec[r], decision[r], attempts[r], transcript[r])
      /\ rec[r].status # "transcribing" /\ Unfinished(attempts[r]) = {}
  BY Performing DEF ConfirmRouting, Performs
<1>2. /\ job'[p].pc = "next" /\ job'[p].target = None /\ job'[p].todo = {}
  BY <1>1, JobFields DEF ConfirmRouting
<1>3. /\ UNCHANGED <<rec, attempts, transcript, lock>>
      /\ \A x \in Recordings \ {r} : decision'[x] = decision[x]
      /\ decision'[r].method = decision[r].method
  BY <1>1 DEF ConfirmRouting, Decision
<1>4. RowSafe(rec'[r], decision'[r], attempts[r], transcript[r])
  BY <1>1, <1>3 DEF RowSafe
<1> QED  BY <1>1, <1>2, <1>3, <1>4, InvPerform

LEMMA InvTranscribeCommand ==
  ASSUME Inv, TypeOK', JobsConsistent', NEW p \in Procs, TranscribeCommand(p)
  PROVE  Inv'
<1> DEFINE r == job[p].target
<1>1. /\ job[p].pc = "perform" /\ lock = p /\ TypeOK /\ r \in Recordings /\ job[p].todo = {}
      /\ rec[r] \in RecordingRow /\ decision[r] \in Decision
      /\ rec \in [Recordings -> RecordingRow] /\ decision \in [Recordings -> Decision]
      /\ RowSafe(rec[r], decision[r], attempts[r], transcript[r])
      /\ rec[r].status # "transcribing" /\ Unfinished(attempts[r]) = {}
  BY Performing DEF TranscribeCommand, Performs
<1>2. /\ job'[p].pc = "next" /\ job'[p].target = None
      /\ job'[p].todo = {r} \cap {x \in Recordings : Eligible("transcribe", x)}
      /\ job'[p].stage = "transcribe"
  BY <1>1, JobFields DEF TranscribeCommand
<1>3. r \in job'[p].todo => rec[r].status = "ready"
  BY <1>2 DEF Eligible
<1>4. UNCHANGED <<rec, decision, attempts, transcript, lock>>
  BY DEF TranscribeCommand, database
<1> QED  BY <1>1, <1>2, <1>3, <1>4, InvPerform

LEMMA InvSummarizeCommand ==
  ASSUME Inv, TypeOK', JobsConsistent', NEW p \in Procs, SummarizeCommand(p)
  PROVE  Inv'
<1> DEFINE r == job[p].target
<1>1. /\ job[p].pc = "perform" /\ lock = p /\ TypeOK /\ r \in Recordings /\ job[p].todo = {}
      /\ rec[r] \in RecordingRow /\ decision[r] \in Decision
      /\ rec \in [Recordings -> RecordingRow] /\ decision \in [Recordings -> Decision]
      /\ RowSafe(rec[r], decision[r], attempts[r], transcript[r])
      /\ rec[r].status # "transcribing" /\ Unfinished(attempts[r]) = {}
  BY Performing DEF SummarizeCommand, Performs
<1>2. /\ job'[p].pc = "next" /\ job'[p].target = None
      /\ job'[p].todo = {r} /\ job'[p].stage = "summarize"
  BY <1>1, JobFields DEF SummarizeCommand
<1>3. UNCHANGED <<rec, decision, attempts, transcript, lock>>
  BY DEF SummarizeCommand, database
<1> QED  BY <1>1, <1>2, <1>3, InvPerform

LEMMA InvArchiveRecording ==
  ASSUME Inv, TypeOK', JobsConsistent', NEW p \in Procs, ArchiveRecording(p)
  PROVE  Inv'
<1> DEFINE r == job[p].target
<1>1. /\ job[p].pc = "perform" /\ lock = p /\ TypeOK /\ r \in Recordings /\ job[p].todo = {}
      /\ rec[r] \in RecordingRow /\ decision[r] \in Decision
      /\ rec \in [Recordings -> RecordingRow] /\ decision \in [Recordings -> Decision]
      /\ RowSafe(rec[r], decision[r], attempts[r], transcript[r])
      /\ rec[r].status # "transcribing" /\ Unfinished(attempts[r]) = {}
  BY Performing DEF ArchiveRecording, Performs
<1>2. /\ job'[p].pc = "next" /\ job'[p].target = None /\ job'[p].todo = {}
  BY <1>1, JobFields DEF ArchiveRecording
<1>3. /\ UNCHANGED <<decision, attempts, transcript, lock>>
      /\ \A x \in Recordings \ {r} : rec'[x] = rec[x]
      /\ rec'[r].status = rec[r].status /\ rec'[r].failureStage = rec[r].failureStage
      /\ rec'[r].retranscriptionFailed = rec[r].retranscriptionFailed
  BY <1>1 DEF ArchiveRecording, RecordingRow
<1>4. RowSafe(rec'[r], decision'[r], attempts[r], transcript[r])
  BY <1>1, <1>3 DEF RowSafe
<1> QED  BY <1>1, <1>2, <1>3, <1>4, InvPerform

LEMMA InvRestoreRecording ==
  ASSUME Inv, TypeOK', JobsConsistent', NEW p \in Procs, RestoreRecording(p)
  PROVE  Inv'
<1> DEFINE r == job[p].target
<1>1. /\ job[p].pc = "perform" /\ lock = p /\ TypeOK /\ r \in Recordings /\ job[p].todo = {}
      /\ rec[r] \in RecordingRow /\ decision[r] \in Decision
      /\ rec \in [Recordings -> RecordingRow] /\ decision \in [Recordings -> Decision]
      /\ RowSafe(rec[r], decision[r], attempts[r], transcript[r])
      /\ rec[r].status # "transcribing" /\ Unfinished(attempts[r]) = {}
  BY Performing DEF RestoreRecording, Performs
<1>2. /\ job'[p].pc = "next" /\ job'[p].target = None /\ job'[p].todo = {}
  BY <1>1, JobFields DEF RestoreRecording
<1>3. /\ UNCHANGED <<decision, attempts, transcript, lock>>
      /\ \A x \in Recordings \ {r} : rec'[x] = rec[x]
      /\ rec'[r].status = rec[r].status /\ rec'[r].failureStage = rec[r].failureStage
      /\ rec'[r].retranscriptionFailed = rec[r].retranscriptionFailed
  BY <1>1 DEF RestoreRecording, RecordingRow
<1>4. RowSafe(rec'[r], decision'[r], attempts[r], transcript[r])
  BY <1>1, <1>3 DEF RowSafe
<1> QED  BY <1>1, <1>2, <1>3, <1>4, InvPerform

LEMMA InvManualRoute ==
  ASSUME Inv, TypeOK', JobsConsistent', NEW p \in Procs, ManualRoute(p)
  PROVE  Inv'
<1> DEFINE r == job[p].target
<1>1. /\ job[p].pc = "perform" /\ lock = p /\ TypeOK /\ r \in Recordings /\ job[p].todo = {}
      /\ rec[r] \in RecordingRow /\ decision[r] \in Decision
      /\ rec \in [Recordings -> RecordingRow] /\ decision \in [Recordings -> Decision]
      /\ RowSafe(rec[r], decision[r], attempts[r], transcript[r])
      /\ rec[r].status # "transcribing" /\ Unfinished(attempts[r]) = {}
  BY Performing DEF ManualRoute, Performs
<1>2. UNCHANGED <<attempts, transcript, lock>>
  BY DEF ManualRoute
<1>3. CASE ~CanRoute(rec[r]) /\ Done(p) /\ UNCHANGED <<rec, decision>>
  <2>1. job'[p].pc = "next" /\ job'[p].target = None /\ job'[p].todo = {}
    BY <1>1, <1>3, JobFields
  <2> QED  BY <1>1, <1>2, <1>3, <2>1, InvPerform
<1>4. CASE /\ CanRoute(rec[r]) /\ RouteManually(r, job[p].profile)
           /\ Done(p) \/ (rec'[r].status = "ready" /\ GoOn(p, "transcribe", {r}, FALSE))
  <2> DEFINE prof == job[p].profile
             cleared == [rec[r] EXCEPT !.status = "ready", !.failureStage = "",
                                       !.retranscriptionFailed = FALSE]
  <2>1. /\ job'[p].pc = "next" /\ job'[p].target = None
        /\ job'[p].todo = {} \/ (/\ job'[p].todo = {r} /\ job'[p].stage = "transcribe"
                                 /\ rec'[r].status = "ready")
    <3>1. CASE Done(p)
      BY <1>1, <3>1, JobFields
    <3>2. CASE rec'[r].status = "ready" /\ GoOn(p, "transcribe", {r}, FALSE)
      <4>1. /\ job'[p].pc = "next" /\ job'[p].target = None
            /\ job'[p].todo = {r} /\ job'[p].stage = "transcribe"
        BY <1>1, <3>2, JobFields
      <4> QED  BY <3>2, <4>1
    <3> QED  BY <1>4, <3>1, <3>2
  <2>2. /\ cleared.status = "ready" /\ cleared.failureStage = "" /\ ~cleared.retranscriptionFailed
        /\ cleared.archived = rec[r].archived
    BY <1>1 DEF RecordingRow
  <2> HIDE DEF cleared
  <2>3. /\ \A x \in Recordings \ {r} : rec'[x] = rec[x] /\ decision'[x] = decision[x]
        /\ rec'[r] = rec[r] \/ rec'[r] = cleared
        /\ \/ decision'[r].method = decision[r].method
           \/ decision'[r].method = "manual" /\ (rec'[r].status = "ready" \/ rec'[r] = cleared)
    <3>1. CASE /\ decision' = [decision EXCEPT ![r] = [@ EXCEPT !.verified = TRUE]]
               /\ rec' = [rec EXCEPT ![r] = cleared] \/ rec' = rec
      BY <1>1, <3>1 DEF Decision
    <3>2. CASE /\ decision' = [decision EXCEPT ![r] =
                    [ordinal |-> @.ordinal + 1, method |-> "manual", profile |-> prof,
                     model |-> TRUE, verified |-> TRUE]]
               /\ rec' = IF rec[r].status # "ready" THEN [rec EXCEPT ![r] = cleared] ELSE rec
      BY <1>1, <3>2
    <3> QED  BY <1>4, <3>1, <3>2, Zenon DEF RouteManually, cleared
  <2>4. rec'[r].status # "transcribing"
    BY <1>1, <2>2, <2>3
  <2>5. RowSafe(rec'[r], decision'[r], attempts[r], transcript[r])
    BY <1>1, <2>2, <2>3 DEF RowSafe
  <2> QED  BY <1>1, <1>2, <2>1, <2>3, <2>4, <2>5, InvPerform
<1> QED  BY <1>3, <1>4 DEF ManualRoute

LEMMA InvRetry ==
  ASSUME Inv, TypeOK', JobsConsistent', NEW p \in Procs, Retry(p)
  PROVE  Inv'
<1> DEFINE r == job[p].target
<1>1. /\ job[p].pc = "perform" /\ lock = p /\ TypeOK /\ r \in Recordings /\ job[p].todo = {}
      /\ rec[r] \in RecordingRow /\ decision[r] \in Decision
      /\ rec \in [Recordings -> RecordingRow] /\ decision \in [Recordings -> Decision]
      /\ RowSafe(rec[r], decision[r], attempts[r], transcript[r])
      /\ rec[r].status # "transcribing" /\ Unfinished(attempts[r]) = {}
  BY Performing DEF Retry, Performs
<1>2. UNCHANGED <<decision, attempts, transcript, lock>>
  BY DEF Retry
<1>3. CASE Done(p) /\ UNCHANGED rec
  <2>1. job'[p].pc = "next" /\ job'[p].target = None /\ job'[p].todo = {}
    BY <1>1, <1>3, JobFields
  <2> QED  BY <1>1, <1>2, <1>3, <2>1, InvPerform
<1>4. CASE GoOn(p, "summarize", {r}, rec[r].resummarizationFailed) /\ UNCHANGED rec
  <2>1. /\ job'[p].pc = "next" /\ job'[p].target = None
        /\ job'[p].todo = {r} /\ job'[p].stage = "summarize"
    BY <1>1, <1>4, JobFields
  <2> QED  BY <1>1, <1>2, <1>4, <2>1, InvPerform
<1>5. CASE /\ ~rec[r].archived /\ RoutingFailed(rec[r]) /\ GoOn(p, "route", {r}, FALSE)
           /\ rec' = [rec EXCEPT ![r] = Transition(@, "routing")]
  <2>1. /\ job'[p].pc = "next" /\ job'[p].target = None
        /\ job'[p].todo = {r} /\ job'[p].stage = "route"
    BY <1>1, <1>5, JobFields
  <2>2. /\ rec'[r].status = "routing" /\ rec'[r].failureStage = "" /\ ~rec'[r].archived
        /\ rec'[r].retranscriptionFailed = rec[r].retranscriptionFailed
        /\ \A x \in Recordings \ {r} : rec'[x] = rec[x]
    BY <1>1, <1>5 DEF Transition, RecordingRow
  <2>3. RowSafe(rec'[r], decision'[r], attempts[r], transcript[r])
    BY <1>1, <1>2, <1>5, <2>2 DEF RowSafe, RoutingFailed
  <2> QED  BY <1>1, <1>2, <2>1, <2>2, <2>3, InvPerform
<1>6. CASE /\ ~rec[r].archived /\ GoOn(p, "transcribe", {r}, FALSE)
           /\ RetranscriptionFailed(rec[r]) \/ (rec[r].status = "failed" /\ ~RoutingFailed(rec[r]))
           /\ rec' = [rec EXCEPT ![r] = [@ EXCEPT !.status = "ready", !.failureStage = ""]]
  <2>1. /\ job'[p].pc = "next" /\ job'[p].target = None
        /\ job'[p].todo = {r} /\ job'[p].stage = "transcribe"
    BY <1>1, <1>6, JobFields
  <2>2. /\ rec'[r].status = "ready" /\ rec'[r].failureStage = "" /\ ~rec'[r].archived
        /\ rec'[r].retranscriptionFailed = rec[r].retranscriptionFailed
        /\ \A x \in Recordings \ {r} : rec'[x] = rec[x]
    BY <1>1, <1>6 DEF RecordingRow
  <2>3. RowSafe(rec'[r], decision'[r], attempts[r], transcript[r])
    BY <1>1, <1>2, <2>2 DEF RowSafe
  <2> QED  BY <1>1, <1>2, <2>1, <2>2, <2>3, InvPerform
<1> QED  BY <1>3, <1>4, <1>5, <1>6, Zenon DEF Retry

\* What the correction of the language leaves alone.
LEMMA Correcting ==
  ASSUME TypeOK, NEW p \in Procs, NEW r \in Recordings, r = job[p].target, SetLanguage(p)
  PROVE  /\ \A x \in Recordings \ {r} : rec'[x] = rec[x] /\ language'[x] = language[x]
         /\ rec'[r].status = rec[r].status /\ rec'[r].failureStage = rec[r].failureStage
         /\ rec'[r].retranscriptionFailed = rec[r].retranscriptionFailed
         /\ rec'[r].archived = rec[r].archived
<1>1. rec \in [Recordings -> RecordingRow] /\ rec[r] \in RecordingRow
      /\ language \in [Recordings -> TranscriptLanguage]
  BY DEF TypeOK
<1>2. CASE UNCHANGED <<rec, language>>
  BY <1>2
<1>3. CASE ~UNCHANGED <<rec, language>>
  <2>1. PICK l \in SourceLanguages :
          LET d == DefaultOf([language |-> l, by |-> "user"], decision[r])
          IN /\ language' = [language EXCEPT ![r] = [language |-> l, by |-> "user"]]
             /\ rec' = [rec EXCEPT ![r] =
                  Derived(@, attempts[r], transcript[r], d, summary[r][d])]
    BY <1>3 DEF SetLanguage
  <2> DEFINE d == DefaultOf([language |-> l, by |-> "user"], decision[r])
  <2>2. /\ rec'[r] = Derived(rec[r], attempts[r], transcript[r], d, summary[r][d])
        /\ \A x \in Recordings \ {r} : rec'[x] = rec[x] /\ language'[x] = language[x]
    BY <1>1, <2>1
  <2> HIDE DEF d
  <2> QED  BY <1>1, <2>2, DerivedFields
<1> QED  BY <1>2, <1>3

LEMMA InvSetLanguage ==
  ASSUME Inv, TypeOK', JobsConsistent', NEW p \in Procs, SetLanguage(p)
  PROVE  Inv'
<1> DEFINE r == job[p].target
<1>1. /\ job[p].pc = "perform" /\ lock = p /\ TypeOK /\ r \in Recordings /\ job[p].todo = {}
      /\ RowSafe(rec[r], decision[r], attempts[r], transcript[r])
      /\ rec[r].status # "transcribing" /\ Unfinished(attempts[r]) = {}
  BY Performing DEF SetLanguage, Performs
<1>2. job'[p].pc = "next" /\ job'[p].target = None /\ job'[p].todo = {}
  BY <1>1, JobFields DEF SetLanguage
<1>3. UNCHANGED <<decision, attempts, transcript, lock>>
  BY DEF SetLanguage
<1>4. /\ \A x \in Recordings \ {r} : rec'[x] = rec[x]
      /\ rec'[r].status = rec[r].status /\ rec'[r].failureStage = rec[r].failureStage
      /\ rec'[r].retranscriptionFailed = rec[r].retranscriptionFailed
      /\ rec'[r].archived = rec[r].archived
  BY <1>1, Correcting
<1>5. RowSafe(rec'[r], decision'[r], attempts[r], transcript[r])
  BY <1>1, <1>3, <1>4 DEF RowSafe
<1> QED  BY <1>1, <1>2, <1>3, <1>4, <1>5, InvPerform

\* The invariant is inductive, and implies what it was made for.
LEMMA InvInit == Init => Inv
<1> SUFFICES ASSUME Init
             PROVE  Inv
  OBVIOUS
<1>1. TypeOK /\ JobsConsistent
  BY TypeInit
<1>2. \A x \in Recordings : RowSafe(rec[x], decision[x], attempts[x], transcript[x])
  BY DEF Init, RowSafe, NewRecording, NoDecision, Unfinished
<1>3. lock = None
  BY DEF Init
<1> QED  BY <1>1, <1>2, <1>3 DEF Inv

LEMMA InvStart ==
  ASSUME Inv, TypeOK', JobsConsistent', NEW p \in Procs, NEW j, Acquire(p, j)
  PROVE  Inv'
<1>1. lock' = p /\ job'[p].pc = "recover" /\ UNCHANGED database
  BY DEF Acquire, Inv, TypeOK
<1> QED  BY <1>1, InvOutside

LEMMA InvRecover ==
  ASSUME Inv, TypeOK', JobsConsistent', NEW p \in Procs, Recover(p) \/ RunRecover(p)
  PROVE  Inv'
<1>1. lock = p /\ lock' = p /\ job[p] \in Job /\ job \in [Procs -> Job] /\ JobOK(job[p])
  BY Running DEF Recover, RunRecover, AtStage, Inv, TypeOK
<1>2. RecoverInterruptions
  BY DEF Recover, RunRecover
<1>3. job'[p].pc \notin Busy /\ job'[p].todo = {}
  <2>1. CASE Recover(p)
    <3>1. job[p].pc = "recover" /\ job[p].todo = {}
      BY <1>1, <2>1 DEF Recover, JobOK
    <3>2. job'[p].pc \in {"next", "perform"} /\ job'[p].todo = job[p].todo
      BY <1>1, <2>1 DEF Recover, Goto, Job
    <3> QED  BY <3>1, <3>2 DEF Busy
  <2>2. CASE RunRecover(p)
    BY <1>1, <2>2 DEF RunRecover, AtStage, EnterStage, Busy, Job
  <2> QED  BY <2>1, <2>2
<1> QED  BY <1>1, <1>2, <1>3, InvRecovered

LEMMA InvStep == Inv /\ [Next]_vars => Inv'
<1> SUFFICES ASSUME Inv, [Next]_vars
             PROVE  Inv'
  OBVIOUS
<1>1. TypeOK' /\ JobsConsistent'
  BY TypeStep DEF Inv
<1>2. CASE UNCHANGED vars
  BY <1>2 DEF vars, database, Inv, TypeOK, JobsConsistent
<1>3. ASSUME NEW p \in Procs, Start(p)
      PROVE  Inv'
  <2>1. PICK j : Acquire(p, j)
    BY <1>3 DEF Start, StartRun, StartBatch, StartCommand
  <2> QED  BY <1>1, <2>1, InvStart
<1>4. ASSUME NEW p \in Procs, Crash(p) \/ Finish(p)
      PROVE  Inv'
  <2>1. lock = p /\ lock' = None /\ UNCHANGED database
    BY <1>4, Running DEF Crash, Finish
  <2> QED  BY <1>1, <2>1, InvOutside
<1>5. ASSUME NEW p \in Procs, Step(p), ~Finish(p)
      PROVE  Inv'
  <2>1. CASE Recover(p) \/ RunRecover(p)
    BY <1>1, <2>1, InvRecover
  <2>2. CASE RunIngest(p) \/ SelectStage(p)
    BY <1>1, <2>2, InvRunIngest, InvSelectStage
  <2>3. CASE \E r \in Recordings :
               EnterRouting(p, r) \/ RouteOne(p, r) \/ TranscribeOne(p, r) \/ SummarizeOne(p, r)
    BY <1>1, <2>3, InvEnterRouting, InvRouteOne, InvTranscribeOne, InvSummarizeOne
  <2>4. CASE RoutingFails(p) \/ RoutingSucceeds(p) \/ ApplyOutcome(p)
    BY <1>1, <2>4, InvRoutingFails, InvRoutingSucceeds, InvApplyOutcome
  <2>5. CASE BeginTranscription(p) \/ TranscriptionFails(p) \/ TranscriptionSucceeds(p)
    BY <1>1, <2>5, InvBeginTranscription, InvTranscriptionFails, InvTranscriptionSucceeds
  <2>6. CASE \/ DetectionFails(p) \/ DetectionSucceeds(p) \/ StoreDetectedLanguage(p)
             \/ SummarizeDetected(p) \/ SummarizationFails(p) \/ SummarizationSucceeds(p)
             \/ StoreReportedLanguage(p)
    BY <1>1, <2>6, InvDetection, InvStoreLanguage, InvSummarizeDetected,
       InvSummarizationFails, InvSummarizationSucceeds
  <2>7. CASE ManualRoute(p) \/ ConfirmRouting(p) \/ TranscribeCommand(p) \/ SummarizeCommand(p)
    BY <1>1, <2>7, InvManualRoute, InvConfirmRouting, InvTranscribeCommand, InvSummarizeCommand
  <2>8. CASE Retry(p) \/ SetLanguage(p) \/ ArchiveRecording(p) \/ RestoreRecording(p)
    BY <1>1, <2>8, InvRetry, InvSetLanguage, InvArchiveRecording, InvRestoreRecording
  <2> QED  BY <1>5, <2>1, <2>2, <2>3, <2>4, <2>5, <2>6, <2>7, <2>8, Zenon DEF Step
<1> QED  BY <1>2, <1>3, <1>4, <1>5, Zenon DEF Next

\* The actions that change decisions.
LEMMA DecisionChanges ==
  ASSUME [Next]_vars, decision' # decision
  PROVE  \E p \in Procs : \/ \E x \in Recordings : RouteOne(p, x)
                          \/ ApplyOutcome(p) \/ ManualRoute(p) \/ ConfirmRouting(p)
<1>1. PICK p \in Procs : Start(p) \/ Step(p) \/ Crash(p)
  BY DEF Next, vars, database
<1>2. Step(p)
  BY <1>1 DEF Start, StartRun, StartBatch, StartCommand, Acquire, Crash, database
<1> QED
  BY <1>2 DEF Step, Recover, RunRecover, RecoverInterruptions, RunIngest, SelectStage, Finish,
       EnterRouting, TranscribeOne, SummarizeOne, RoutingFails, RoutingSucceeds,
       BeginTranscription, TranscriptionFails, TranscriptionSucceeds, DetectionFails,
       DetectionSucceeds, StoreDetectedLanguage, SummarizeDetected, SummarizationFails,
       SummarizationSucceeds, StoreReportedLanguage, TranscribeCommand, SummarizeCommand,
       Retry, SetLanguage, ArchiveRecording, RestoreRecording, database

-----------------------------------------------------------------------------
(* The theorems *)

\* What every command may rely on, whatever commands, failures, process deaths
\* and recoveries came before it: the inductive invariant always holds.
THEOREM Invariance == Spec => []Inv
<1> QED  BY InvInit, InvStep, PTL DEF Spec

\* The status of a recording always agrees with its active transcript, for any
\* number of recordings, commands and process deaths.
THEOREM StatusTruthful == Spec => []StatusMatchesTranscript
<1>1. Inv => StatusMatchesTranscript
  BY DEF Inv, RowSafe, StatusMatchesTranscript
<1> QED  BY <1>1, Invariance, PTL

\* An attempt without an outcome always belongs to the call the lock holder is
\* making, or waits for the recovery of the next command.
THEOREM AttemptsHaveOwner == Spec => []AttemptsOwned
<1>1. Inv => AttemptsOwned
  BY DEF Inv, Held, AttemptsOwned
<1> QED  BY <1>1, Invariance, PTL

\* A profile the user selected is final: no interleaving of router, crash,
\* recovery, retry and command lets an automatic decision replace it.
THEOREM ManualChoiceFinal == Spec => ManualDecisionFinal
<1>1. ASSUME Inv, [Next]_vars
      PROVE  [\A r \in Recordings :
                decision[r].method = "manual" => decision'[r].method = "manual"]_vars
  <2> SUFFICES ASSUME NEW r \in Recordings, decision[r].method = "manual",
                      decision'[r].method # "manual"
               PROVE  FALSE
    OBVIOUS
  <2>1. decision' # decision /\ decision \in [Recordings -> Decision] /\ TypeOK
    BY <1>1 DEF Inv, TypeOK
  <2>2. PICK p \in Procs : \/ \E x \in Recordings : RouteOne(p, x)
                           \/ ApplyOutcome(p) \/ ManualRoute(p) \/ ConfirmRouting(p)
    BY <1>1, <2>1, DecisionChanges
  <2>3. lock = p /\ job[p] \in Job /\ JobOK(job[p]) /\ p # None
        /\ RowSafe(rec[r], decision[r], attempts[r], transcript[r])
        /\ Held(r, rec[r], attempts[r], job[p])
    BY <1>1, <2>2, Running DEF RouteOne, Turn, ApplyOutcome, ManualRoute, ConfirmRouting, Performs
  <2>4. rec[r].status # "routing"
    BY <2>3 DEF RowSafe
  <2>5. CASE \E x \in Recordings : RouteOne(p, x)
    <3>1. PICK x \in Recordings : RouteOne(p, x)
      BY <2>5
    <3>2. x # r
      BY <2>3, <2>4, <3>1 DEF RouteOne, Turn, Held
    <3> QED  BY <2>1, <3>1, <3>2 DEF RouteOne, Decide, database
  <2>6. CASE ApplyOutcome(p)
    <3>1. job[p].target # r
      BY <2>3, <2>4, <2>6 DEF ApplyOutcome, Held
    <3> QED  BY <2>1, <2>6, <3>1 DEF ApplyOutcome, Decide
  <2>7. CASE ManualRoute(p)
    <3>1. UNCHANGED decision \/ RouteManually(job[p].target, job[p].profile)
      BY <2>7 DEF ManualRoute
    <3>2. decision[r] \in Decision
      BY <2>1
    <3>3. ~ UNCHANGED decision
      BY <2>1
    <3> QED  BY <2>1, <3>1, <3>2, <3>3 DEF RouteManually, Decision
  <2>8. CASE ConfirmRouting(p)
    BY <2>1, <2>8 DEF ConfirmRouting, Decision
  <2> QED  BY <2>2, <2>5, <2>6, <2>7, <2>8
<1> QED  BY <1>1, Invariance, PTL DEF Spec, ManualDecisionFinal

-----------------------------------------------------------------------------
(* Steps: what one step can do to one recording, and the properties of     *)
(* steps that follow from it: archived recordings are frozen, failed ones  *)
(* come back only on request, and every status write is an edge of module  *)
(* StatusMachine.                                                          *)

\* The table of legal edges.
Edges == Machine!AllowedTransitions

Untouched(r) ==
  /\ rec'[r] = rec[r] /\ decision'[r] = decision[r] /\ attempts'[r] = attempts[r]
  /\ transcript'[r] = transcript[r] /\ language'[r] = language[r] /\ summary'[r] = summary[r]

Ingested(r) ==
  /\ rec[r].status = "absent"
  /\ rec'[r] = [rec[r] EXCEPT !.status = "discovered"]
  /\ transcript'[r] = transcript[r]

\* The user archives or restores the recording.
Filed(p, r) ==
  /\ job[p].pc = "perform" /\ job[p].target = r
  /\ \E b \in BOOLEAN : rec'[r] = [rec[r] EXCEPT !.archived = b]
  /\ decision'[r] = decision[r] /\ attempts'[r] = attempts[r]
  /\ transcript'[r] = transcript[r] /\ language'[r] = language[r] /\ summary'[r] = summary[r]

\* The user corrects the language of its transcript.
Corrected(p, r) ==
  /\ job[p].pc = "perform" /\ job[p].cmd = "set_language" /\ job[p].target = r
  /\ rec'[r].status = rec[r].status /\ rec'[r].archived = rec[r].archived
  /\ decision'[r] = decision[r] /\ attempts'[r] = attempts[r]
  /\ transcript'[r] = transcript[r] /\ summary'[r] = summary[r]

\* A stage or a command worked on the recording.
Worked(p, r) ==
  /\ ~rec[r].archived /\ ~rec'[r].archived
  /\ \/ rec'[r].status = rec[r].status /\ transcript'[r] = transcript[r]
     \/ rec'[r].status \in Edges[rec[r].status] /\ transcript'[r] = transcript[r]
     \/ /\ rec[r].status = "transcribing" /\ rec'[r].status = "transcribed"
        /\ transcript'[r] # 0
  /\ rec[r].status = "failed" /\ rec'[r].status # "failed" =>
       job[p].cmd \in {"retry", "route"} /\ job[p].target = r

\* All that a step of a command can do to recording r.
Fate(p, r) ==
  \/ Untouched(r) \/ Ingested(r) \/ RecoverInterruptions
  \/ Filed(p, r) \/ Corrected(p, r) \/ Worked(p, r)

\* Edges that the pipeline uses.
LEMMA UsedEdges ==
  /\ Edges["absent"] = {"discovered"}
  /\ "routing" \in Edges["discovered"]
  /\ {"needs_review", "ready", "failed"} \subseteq Edges["routing"]
  /\ "ready" \in Edges["needs_review"]
  /\ {"transcribing", "ready"} \subseteq Edges["ready"]
  /\ {"transcribed", "failed", "ready"} \subseteq Edges["transcribing"]
  /\ "ready" \in Edges["transcribed"]
  /\ {"routing", "ready"} \subseteq Edges["failed"]
BY DEF Edges, Machine!AllowedTransitions

\* No edge leads back to "absent".
LEMMA NeverAbsentAgain ==
  \A s \in Status : "absent" \notin Edges[s]
BY DEF Edges, Machine!AllowedTransitions, Status

\* What the process working on a recording knows of it.
LEMMA Works ==
  ASSUME Inv, NEW p \in Procs, job[p].pc \in Busy
  PROVE  LET r == job[p].target
         IN  /\ r \in Recordings
             /\ rec[r] \in RecordingRow /\ attempts[r] \in Seq(Attempt) /\ transcript[r] \in Nat
             /\ rec \in [Recordings -> RecordingRow] /\ decision \in [Recordings -> Decision]
             /\ attempts \in [Recordings -> Seq(Attempt)]
             /\ transcript \in [Recordings -> Nat]
             /\ language \in [Recordings -> TranscriptLanguage]
             /\ summary \in [Recordings -> [OutputLanguages -> Nat]]
             /\ RowSafe(rec[r], decision[r], attempts[r], transcript[r])
             /\ ~rec[r].archived
             /\ job[p].pc \in {"routing", "outcome"} => rec[r].status = "routing"
             /\ job[p].pc \in {"claimed", "transcribing"} => rec[r].status = "transcribing"
             /\ job[p].pc = "transcribing" => Len(attempts[r]) # 0
<1> DEFINE r == job[p].target
<1>1. r \in Recordings /\ job[p].pc # "idle" /\ job[p].pc # "recover" /\ TypeOK
  BY Running DEF JobOK, Busy, Inv
<1>2. /\ rec[r] \in RecordingRow /\ attempts[r] \in Seq(Attempt) /\ transcript[r] \in Nat
      /\ RowSafe(rec[r], decision[r], attempts[r], transcript[r])
      /\ Held(r, rec[r], attempts[r], job[p])
  BY <1>1, Running
<1> QED  BY <1>1, <1>2, WorkingStages DEF Held, TypeOK

\* What a stage knows of the recording whose turn it is.
LEMMA Takes ==
  ASSUME Inv, NEW p \in Procs, NEW s, NEW r \in Recordings, Turn(p, s, r)
  PROVE  /\ job[p].pc = "next" /\ TypeOK
         /\ rec[r] \in RecordingRow /\ attempts[r] \in Seq(Attempt)
         /\ s = "enter" => rec[r].status = "discovered" /\ ~rec[r].archived
         /\ s = "route" => rec[r].status = "routing"
         /\ s = "transcribe" => rec[r].status = "ready"
<1>1. job[p].pc = "next" /\ job[p].stage = s /\ r \in job[p].todo
  BY DEF Turn
<1>2. rec[r] \in RecordingRow /\ attempts[r] \in Seq(Attempt)
      /\ Held(r, rec[r], attempts[r], job[p])
  BY <1>1, Running
<1> QED  BY <1>1, <1>2 DEF Held, Inv

\* A stage that takes recordings off its list.
LEMMA FateOfStages ==
  ASSUME Inv, NEW p \in Procs, NEW x \in Recordings, NEW r \in Recordings,
         EnterRouting(p, x) \/ RouteOne(p, x) \/ TranscribeOne(p, x) \/ SummarizeOne(p, x)
  PROVE  Fate(p, r)
<1>1. /\ rec \in [Recordings -> RecordingRow] /\ decision \in [Recordings -> Decision]
      /\ attempts \in [Recordings -> Seq(Attempt)]
      /\ rec[x] \in RecordingRow
  BY DEF Inv, TypeOK
<1>2. CASE EnterRouting(p, x)
  <2>1. rec[x].status = "discovered" /\ ~rec[x].archived
    BY <1>2, Takes DEF EnterRouting
  <2>2. rec'[x].status = "routing" /\ rec'[x].archived = rec[x].archived
        /\ \A y \in Recordings \ {x} : rec'[y] = rec[y]
    BY <1>1, <1>2 DEF EnterRouting, Transition, RecordingRow
  <2>3. UNCHANGED <<decision, attempts, transcript, language, summary>>
    BY <1>2 DEF EnterRouting
  <2> QED  BY <2>1, <2>2, <2>3, UsedEdges DEF Fate, Worked, Untouched
<1>3. CASE RouteOne(p, x)
  <2>1. rec[x].status = "routing" /\ TypeOK
    BY <1>3, Takes DEF RouteOne
  <2>2. CASE UNCHANGED database
    BY <2>2 DEF database, Fate, Untouched
  <2>3. CASE /\ ~rec[x].archived /\ Decide(x, None, FALSE, FALSE)
             /\ UNCHANGED <<attempts, transcript, language, summary>>
    <3>1. /\ rec'[x].status \in {"ready", "needs_review"} /\ rec'[x].archived = rec[x].archived
          /\ \A y \in Recordings \ {x} : rec'[y] = rec[y] /\ decision'[y] = decision[y]
      BY <2>1, <2>3, DecideFields
    <3> QED  BY <2>1, <2>3, <3>1, UsedEdges DEF Fate, Worked, Untouched
  <2>4. CASE /\ ~rec[x].archived
             /\ attempts' = [attempts EXCEPT ![x] =
                  Append(@, NewAttempt("routing", 0, NoLanguage, FALSE))]
             /\ UNCHANGED <<rec, decision, transcript, language, summary>>
    <3>1. \A y \in Recordings \ {x} : attempts'[y] = attempts[y]
      BY <1>1, <2>4
    <3> QED  BY <2>1, <2>4, <3>1 DEF Fate, Worked, Untouched
  <2> QED  BY <1>3, <2>2, <2>3, <2>4 DEF RouteOne
<1>4. CASE TranscribeOne(p, x)
  <2>1. rec[x].status = "ready" /\ UNCHANGED <<decision, attempts, transcript, language, summary>>
    BY <1>4, Takes DEF TranscribeOne
  <2>2. CASE UNCHANGED rec
    BY <2>1, <2>2 DEF Fate, Untouched
  <2>3. CASE CanTranscribe(x) /\ rec' = [rec EXCEPT ![x] = Transition(@, "transcribing")]
    <3>1. /\ rec'[x].status = "transcribing" /\ ~rec[x].archived /\ ~rec'[x].archived
          /\ \A y \in Recordings \ {x} : rec'[y] = rec[y]
      BY <1>1, <2>3 DEF CanTranscribe, Transition, RecordingRow
    <3> QED  BY <2>1, <3>1, UsedEdges DEF Fate, Worked, Untouched
  <2> QED  BY <1>4, <2>2, <2>3 DEF TranscribeOne
<1>5. CASE SummarizeOne(p, x)
  <2>1. UNCHANGED <<rec, decision, transcript, language, summary>>
    BY <1>5 DEF SummarizeOne
  <2>2. CASE UNCHANGED attempts
    BY <2>1, <2>2 DEF Fate, Untouched
  <2>3. CASE ~rec[x].archived /\ \E a : attempts' = [attempts EXCEPT ![x] = Append(@, a)]
    <3>1. \A y \in Recordings \ {x} : attempts'[y] = attempts[y]
      BY <1>1, <2>3
    <3> QED  BY <2>1, <2>3, <3>1 DEF Fate, Worked, Untouched
  <2> QED  BY <1>5, <2>2, <2>3, Zenon DEF SummarizeOne, BeginSummary, CanSummarize
<1> QED  BY <1>2, <1>3, <1>4, <1>5

\* An action of the process that is busy with a recording.
LEMMA FateOfWork ==
  ASSUME Inv, NEW p \in Procs, NEW r \in Recordings, job[p].pc \in Busy, Step(p)
  PROVE  Fate(p, r)
<1> DEFINE t == job[p].target
<1>1. /\ t \in Recordings
      /\ rec[t] \in RecordingRow /\ attempts[t] \in Seq(Attempt) /\ transcript[t] \in Nat
      /\ rec \in [Recordings -> RecordingRow] /\ decision \in [Recordings -> Decision]
      /\ attempts \in [Recordings -> Seq(Attempt)]
      /\ transcript \in [Recordings -> Nat]
      /\ language \in [Recordings -> TranscriptLanguage]
      /\ summary \in [Recordings -> [OutputLanguages -> Nat]]
      /\ TypeOK
      /\ RowSafe(rec[t], decision[t], attempts[t], transcript[t])
      /\ ~rec[t].archived
      /\ job[p].pc \in {"routing", "outcome"} => rec[t].status = "routing"
      /\ job[p].pc \in {"claimed", "transcribing"} => rec[t].status = "transcribing"
      /\ job[p].pc = "transcribing" => Len(attempts[t]) # 0
  BY Works DEF Inv
<1> DEFINE Others == \A y \in Recordings \ {t} : Untouched(y)
<1>2. ASSUME Others, Worked(p, t)
      PROVE  Fate(p, r)
  BY <1>2 DEF Fate
<1>3. CASE RoutingFails(p)
  <2>1. rec'[t].status = "failed" /\ rec'[t].archived = rec[t].archived
        /\ transcript' = transcript
    BY <1>1, <1>3 DEF RoutingFails, RecordFailure, RecordingRow
  <2>2. rec[t].status = "routing" /\ Others
    BY <1>1, <1>3 DEF RoutingFails, Untouched
  <2> QED  BY <1>1, <1>2, <2>1, <2>2, UsedEdges DEF Worked
<1>4. CASE RoutingSucceeds(p)
  <2>1. Others /\ rec' = rec /\ transcript' = transcript
    BY <1>1, <1>4 DEF RoutingSucceeds, Untouched
  <2> QED  BY <1>1, <1>2, <2>1 DEF Worked
<1>5. CASE ApplyOutcome(p)
  <2>1. PICK prof \in Profiles \cup {None}, confident \in BOOLEAN, ready \in BOOLEAN :
          Decide(t, prof, confident, ready)
    BY <1>5 DEF ApplyOutcome
  <2>2. /\ rec'[t].status \in {"ready", "needs_review"} /\ rec'[t].archived = rec[t].archived
        /\ \A y \in Recordings \ {t} : rec'[y] = rec[y] /\ decision'[y] = decision[y]
    <3>1. TypeOK
      BY DEF Inv
    <3>2. PICK x \in Recordings : x = t
      BY <1>1
    <3>3. Decide(x, prof, confident, ready)
      BY <2>1, <3>2
    <3>4. /\ rec'[x].status \in {"ready", "needs_review"} /\ rec'[x].archived = rec[x].archived
          /\ \A y \in Recordings \ {x} : rec'[y] = rec[y] /\ decision'[y] = decision[y]
      BY <3>1, <3>3, DecideFields
    <3> QED  BY <3>2, <3>4
  <2>3. rec[t].status = "routing" /\ UNCHANGED <<attempts, transcript, language, summary>>
    BY <1>1, <1>5 DEF ApplyOutcome
  <2>4. Others
    BY <2>2, <2>3 DEF Untouched
  <2> QED  BY <1>1, <1>2, <2>2, <2>3, <2>4, UsedEdges DEF Worked
<1>6. CASE BeginTranscription(p)
  <2>1. Others /\ rec' = rec /\ transcript' = transcript
    BY <1>1, <1>6 DEF BeginTranscription, Untouched
  <2> QED  BY <1>1, <1>2, <2>1 DEF Worked
<1>7. CASE TranscriptionFails(p)
  <2>1. rec'[t].status \in {"transcribed", "failed"} /\ rec'[t].archived = rec[t].archived
        /\ transcript' = transcript
    BY <1>1, <1>7 DEF TranscriptionFails, RecordFailure, RecordingRow
  <2>2. rec[t].status = "transcribing" /\ Others
    BY <1>1, <1>7 DEF TranscriptionFails, Untouched
  <2> QED  BY <1>1, <1>2, <2>1, <2>2, UsedEdges DEF Worked
<1>8. CASE TranscriptionSucceeds(p)
  <2>1. rec'[t].status = "transcribed" /\ rec'[t].archived = rec[t].archived
    BY <1>1, <1>8 DEF TranscriptionSucceeds, RecordingRow
  <2>2. rec[t].status = "transcribing" /\ transcript'[t] # 0 /\ Others
    BY <1>1, <1>8 DEF TranscriptionSucceeds, Untouched
  <2> QED  BY <1>1, <1>2, <2>1, <2>2 DEF Worked
<1>9. CASE SummarizationFails(p)
  <2>1. rec'[t] = Reconcile(t, FinishAttempt(attempts[t], "failed"), Generating(t),
                            summary[t][Generating(t)])
    BY <1>1, <1>9 DEF SummarizationFails
  <2>2. rec'[t].status = rec[t].status /\ rec'[t].archived = rec[t].archived
    BY <1>1, <2>1, ReconcileFields
  <2>3. transcript' = transcript /\ Others
    BY <1>1, <1>9 DEF SummarizationFails, Untouched
  <2> QED  BY <1>1, <1>2, <2>2, <2>3 DEF Worked
<1>10. CASE SummarizationSucceeds(p)
  <2>1. rec'[t] = Reconcile(t, attempts[t], Generating(t), Len(attempts[t]))
    BY <1>1, <1>10 DEF SummarizationSucceeds
  <2>2. rec'[t].status = rec[t].status /\ rec'[t].archived = rec[t].archived
    BY <1>1, <2>1, ReconcileFields
  <2>3. transcript' = transcript /\ Others
    BY <1>1, <1>10 DEF SummarizationSucceeds, Untouched
  <2> QED  BY <1>1, <1>2, <2>2, <2>3 DEF Worked
<1>11. CASE \/ DetectionFails(p) \/ DetectionSucceeds(p) \/ StoreDetectedLanguage(p)
            \/ StoreReportedLanguage(p)
  <2>1. UNCHANGED <<rec, decision, transcript, summary>>
    BY <1>11 DEF DetectionFails, DetectionSucceeds, StoreDetectedLanguage, StoreReportedLanguage
  <2>2. \A y \in Recordings \ {t} : attempts'[y] = attempts[y] /\ language'[y] = language[y]
    BY <1>1, <1>11
    DEF DetectionFails, DetectionSucceeds, StoreDetectedLanguage, StoreReportedLanguage
  <2> QED  BY <1>1, <1>2, <2>1, <2>2 DEF Worked, Untouched
<1>12. CASE SummarizeDetected(p)
  <2>1. UNCHANGED <<rec, decision, transcript, language, summary>>
    BY <1>12 DEF SummarizeDetected
  <2>2. attempts' = attempts \/ \E a : attempts' = [attempts EXCEPT ![t] = Append(@, a)]
    BY <1>12, Zenon DEF SummarizeDetected, BeginSummary
  <2>3. \A y \in Recordings \ {t} : attempts'[y] = attempts[y]
    BY <1>1, <2>2
  <2> QED  BY <1>1, <1>2, <2>1, <2>3 DEF Worked, Untouched
<1> QED
  BY <1>3, <1>4, <1>5, <1>6, <1>7, <1>8, <1>9, <1>10, <1>11, <1>12
  DEF Step, Busy, Recover, RunRecover, RunIngest, SelectStage, Finish, AtStage, Turn,
      EnterRouting, RouteOne, TranscribeOne, SummarizeOne, ManualRoute, ConfirmRouting,
      TranscribeCommand, SummarizeCommand, Retry, SetLanguage, ArchiveRecording,
      RestoreRecording, Performs

\* A command on one recording.
LEMMA FateOfCommands ==
  ASSUME Inv, NEW p \in Procs, NEW r \in Recordings, job[p].pc = "perform", Step(p)
  PROVE  Fate(p, r)
<1> DEFINE t == job[p].target
           Others == \A y \in Recordings \ {t} : Untouched(y)
<1>1. /\ t \in Recordings /\ rec[t] \in RecordingRow
      /\ rec \in [Recordings -> RecordingRow] /\ decision \in [Recordings -> Decision]
  BY Performing
<1>2. ASSUME Others, Worked(p, t)
      PROVE  Fate(p, r)
  BY <1>2 DEF Fate
<1>3. CASE ManualRoute(p)
  <2>1. UNCHANGED <<attempts, transcript, language, summary>> /\ job[p].cmd = "route"
    BY <1>3 DEF ManualRoute, Performs
  <2>2. CASE UNCHANGED <<rec, decision>>
    BY <2>1, <2>2 DEF Fate, Untouched
  <2>3. CASE CanRoute(rec[t]) /\ RouteManually(t, job[p].profile)
    <3> DEFINE cleared == [rec[t] EXCEPT !.status = "ready", !.failureStage = "",
                                         !.retranscriptionFailed = FALSE]
    <3>1. /\ ~rec[t].archived
          /\ rec[t].status \in {"routing", "needs_review", "ready", "transcribed", "failed"}
      BY <2>3 DEF CanRoute, RoutingFailed
    <3>2. cleared.status = "ready" /\ cleared.archived = rec[t].archived
      BY <1>1 DEF RecordingRow
    <3>3. /\ rec' = rec \/ rec' = [rec EXCEPT ![t] = cleared]
          /\ \A y \in Recordings \ {t} : decision'[y] = decision[y]
      BY <1>1, <2>3 DEF RouteManually
    <3> HIDE DEF cleared
    <3>4. Others /\ rec'[t] \in {rec[t], cleared}
      BY <1>1, <2>1, <3>3 DEF Untouched
    <3>5. rec[t].status \in Status /\ "ready" \in Edges[rec[t].status]
      BY <3>1, UsedEdges DEF Status
    <3> QED  BY <1>2, <2>1, <3>1, <3>2, <3>4, <3>5 DEF Worked
  <2> QED  BY <1>3, <2>2, <2>3 DEF ManualRoute
<1>4. CASE ConfirmRouting(p)
  <2>1. UNCHANGED <<rec, attempts, transcript, language, summary>>
        /\ (UNCHANGED decision \/ ~rec[t].archived)
        /\ \A y \in Recordings \ {t} : decision'[y] = decision[y]
    BY <1>1, <1>4 DEF ConfirmRouting
  <2> QED  BY <1>1, <2>1 DEF Fate, Untouched, Worked
<1>5. CASE TranscribeCommand(p) \/ SummarizeCommand(p)
  BY <1>5 DEF TranscribeCommand, SummarizeCommand, database, Fate, Untouched
<1>6. CASE Retry(p)
  <2>1. UNCHANGED <<decision, attempts, transcript, language, summary>> /\ job[p].cmd = "retry"
    BY <1>6 DEF Retry, Performs
  <2>2. CASE UNCHANGED rec
    BY <2>1, <2>2 DEF Fate, Untouched
  <2>3. CASE /\ ~rec[t].archived /\ RoutingFailed(rec[t])
             /\ rec' = [rec EXCEPT ![t] = Transition(@, "routing")]
    <3>1. /\ rec'[t].status = "routing" /\ rec'[t].archived = rec[t].archived
          /\ rec[t].status = "failed" /\ \A y \in Recordings \ {t} : rec'[y] = rec[y]
      BY <1>1, <2>3 DEF Transition, RoutingFailed, RecordingRow
    <3> QED  BY <1>1, <1>2, <2>1, <2>3, <3>1, UsedEdges DEF Worked, Untouched
  <2>4. CASE /\ ~rec[t].archived
             /\ RetranscriptionFailed(rec[t]) \/ (rec[t].status = "failed" /\ ~RoutingFailed(rec[t]))
             /\ rec' = [rec EXCEPT ![t] = [@ EXCEPT !.status = "ready", !.failureStage = ""]]
    <3>1. /\ rec'[t].status = "ready" /\ rec'[t].archived = rec[t].archived
          /\ rec[t].status \in {"transcribed", "failed"}
          /\ \A y \in Recordings \ {t} : rec'[y] = rec[y]
      BY <1>1, <2>4 DEF RetranscriptionFailed, RecordingRow
    <3> QED  BY <1>1, <1>2, <2>1, <2>4, <3>1, UsedEdges DEF Worked, Untouched
  <2> QED  BY <1>6, <2>2, <2>3, <2>4, Zenon DEF Retry
<1>7. CASE ArchiveRecording(p) \/ RestoreRecording(p)
  <2>1. UNCHANGED <<decision, attempts, transcript, language, summary>>
        /\ \/ rec' = rec
           \/ \E b \in BOOLEAN : rec' = [rec EXCEPT ![t] = [@ EXCEPT !.archived = b]]
    BY <1>7 DEF ArchiveRecording, RestoreRecording
  <2> QED  BY <1>1, <2>1 DEF Fate, Untouched, Filed
<1>8. CASE SetLanguage(p)
  <2>1. PICK x \in Recordings : x = t
    BY <1>1
  <2>2. /\ \A y \in Recordings \ {x} : rec'[y] = rec[y] /\ language'[y] = language[y]
        /\ rec'[x].status = rec[x].status /\ rec'[x].archived = rec[x].archived
    BY <1>1, <1>8, <2>1, Correcting DEF Inv
  <2>3. UNCHANGED <<decision, attempts, transcript, summary>> /\ job[p].cmd = "set_language"
    BY <1>8 DEF SetLanguage, Performs
  <2> QED  BY <2>1, <2>2, <2>3 DEF Fate, Untouched, Corrected
<1> QED
  BY <1>3, <1>4, <1>5, <1>6, <1>7, <1>8
  DEF Step, Recover, RunRecover, RunIngest, SelectStage, Finish, AtStage, Turn, EnterRouting,
      RouteOne, TranscribeOne, SummarizeOne, RoutingFails, RoutingSucceeds, ApplyOutcome,
      BeginTranscription, TranscriptionFails, TranscriptionSucceeds, DetectionFails,
      DetectionSucceeds, StoreDetectedLanguage, SummarizeDetected, SummarizationFails,
      SummarizationSucceeds, StoreReportedLanguage

\* A step of the process that holds the lock, whichever it is.
LEMMA StepFate ==
  ASSUME Inv, NEW p \in Procs, NEW r \in Recordings, Step(p)
  PROVE  Fate(p, r)
<1>1. CASE job[p].pc \in Busy \cup {"perform"}
  BY <1>1, FateOfWork, FateOfCommands
<1>2. CASE job[p].pc \notin Busy \cup {"perform"}
  <2>1. CASE Recover(p) \/ RunRecover(p)
    BY <2>1 DEF Recover, RunRecover, Fate
  <2>2. CASE RunIngest(p)
    <3>1. PICK S \in SUBSET {x \in Recordings : rec[x].status = "absent"} :
            rec' = [x \in Recordings |-> IF x \in S THEN [rec[x] EXCEPT !.status = "discovered"]
                                         ELSE rec[x]]
      BY <2>2 DEF RunIngest
    <3>2. UNCHANGED <<decision, attempts, transcript, language, summary>>
      BY <2>2 DEF RunIngest
    <3> QED  BY <3>1, <3>2 DEF Fate, Untouched, Ingested
  <2>3. CASE SelectStage(p) \/ Finish(p)
    BY <2>3 DEF SelectStage, Finish, database, Fate, Untouched
  <2>4. CASE \E x \in Recordings :
               EnterRouting(p, x) \/ RouteOne(p, x) \/ TranscribeOne(p, x) \/ SummarizeOne(p, x)
    BY <2>4, FateOfStages
  <2> QED
    BY <1>2, <2>1, <2>2, <2>3, <2>4
    DEF Step, Busy, RoutingFails, RoutingSucceeds, ApplyOutcome, BeginTranscription,
        TranscriptionFails, TranscriptionSucceeds, DetectionFails, DetectionSucceeds,
        StoreDetectedLanguage, SummarizeDetected, SummarizationFails, SummarizationSucceeds,
        StoreReportedLanguage, ManualRoute, ConfirmRouting, TranscribeCommand,
        SummarizeCommand, Retry, SetLanguage, ArchiveRecording, RestoreRecording, Performs
<1> QED  BY <1>1, <1>2

\* What recovery does to a recording.
LEMMA RecoveryFate ==
  ASSUME Inv, NEW r \in Recordings
  PROVE  /\ \/ RecoveredRow(r).status = rec[r].status
            \/ RecoveredRow(r).status \in Edges[rec[r].status] /\ rec[r].status # "failed"
         /\ rec[r].archived =>
              RecoveredRow(r) = rec[r] /\ RecoveredAttempts(attempts[r]) = attempts[r]
<1> DEFINE row == rec[r]
           ok == RecoveredStatus(r)
<1>1. /\ row \in RecordingRow /\ attempts[r] \in Seq(Attempt)
      /\ RowSafe(row, decision[r], attempts[r], transcript[r])
  BY DEF Inv, TypeOK
<1>2. ok \in RecordingRow
      /\ \/ ok.status = row.status
         \/ ok.status \in Edges[row.status] /\ row.status \in {"transcribing", "discovered"}
  <2>1. CASE row.status = "transcribing"
    BY <1>1, <2>1, UsedEdges DEF RecoveredStatus, RecordingRow, Status
  <2>2. CASE row.status = "discovered" /\ Unfinished(attempts[r]) # {}
    <3>1. ok = Transition(row, "routing") /\ "routing" \in Status
      BY <2>2 DEF RecoveredStatus, Status
    <3>2. ok \in RecordingRow /\ ok.status = "routing"
      <4>1. /\ Transition(row, "routing") \in RecordingRow
            /\ Transition(row, "routing").status = "routing"
        BY <1>1, <3>1, TransitionType, TransitionFields
      <4> QED  BY <3>1, <4>1, Zenon
    <3>3. "routing" \in Edges[row.status] /\ row.status = "discovered"
      BY <2>2, UsedEdges
    <3> QED  BY <3>2, <3>3, Zenon
  <2>3. CASE row.status # "transcribing" /\ ~(row.status = "discovered" /\ Unfinished(attempts[r]) # {})
    BY <1>1, <2>3 DEF RecoveredStatus
  <2> QED  BY <2>1, <2>2, <2>3
<1>3. RecoveredRow(r).status = ok.status
  <2>1. Derived(ok, RecoveredAttempts(attempts[r]), transcript[r], Default(r),
                summary[r][Default(r)]).status = ok.status
    BY <1>2, DerivedFields
  <2> QED  BY <2>1, Zenon DEF RecoveredRow
<1>4. ASSUME row.archived
      PROVE  RecoveredRow(r) = row /\ RecoveredAttempts(attempts[r]) = attempts[r]
  <2>1. row.status # "transcribing" /\ Unfinished(attempts[r]) = {}
    BY <1>1, <1>4 DEF RowSafe
  <2>2. RecoveredRow(r) = row
    BY <2>1 DEF RecoveredRow, RecoveredStatus
  <2>3. \A i \in DOMAIN attempts[r] : attempts[r][i].outcome # "running"
    BY <2>1 DEF Unfinished
  <2>4. attempts[r] \in [1..Len(attempts[r]) -> Attempt]
    BY <1>1, LenProperties
  <2> QED  BY <2>2, <2>3, <2>4 DEF RecoveredAttempts
<1> QED  BY <1>2, <1>3, <1>4

-----------------------------------------------------------------------------
(* No command names a recording that does not exist *)

KnownTo(j, r) == j.target = r \/ r \in j.todo

Known ==
  \A r \in Recordings :
    rec[r].status = "absent" =>
      ~rec[r].archived /\ \A p \in Procs : ~KnownTo(job[p], r)

\* A step of a command gets to know only recordings that exist.
LEMMA StepKnowsExisting ==
  ASSUME Inv, NEW p \in Procs, Step(p), ~Finish(p), NEW r \in Recordings,
         rec[r].status = "absent", ~KnownTo(job[p], r)
  PROVE  ~KnownTo(job'[p], r)
<1>1. job \in [Procs -> Job] /\ job[p] \in Job /\ None \notin Recordings /\ TypeOK
  BY PipelineAssumption DEF Inv, TypeOK
<1>2. CASE \E pc : Goto(p, pc)
  BY <1>1, <1>2, JobFields DEF KnownTo
<1>3. CASE Done(p)
  BY <1>1, <1>3, JobFields DEF KnownTo
<1>4. CASE \E x \in Recordings : Leave(p, x)
  BY <1>1, <1>4, JobFields DEF KnownTo
<1>5. CASE \E x \in job[p].todo : \E pc : TakeUp(p, x, pc)
  BY <1>1, <1>5, JobFields DEF KnownTo
<1>6. CASE \E s, again : \E S \in SUBSET {job[p].target} : GoOn(p, s, S, again)
  BY <1>1, <1>6, JobFields DEF KnownTo
<1>7. CASE \E s, S : EnterStage(p, s, S) /\ r \notin S
  BY <1>1, <1>7 DEF EnterStage, Job, KnownTo
<1>8. CASE \/ Recover(p) \/ RoutingSucceeds(p) \/ BeginTranscription(p)
           \/ DetectionSucceeds(p) \/ StoreDetectedLanguage(p)
  BY <1>2, <1>8
  DEF Recover, RoutingSucceeds, BeginTranscription, DetectionSucceeds, StoreDetectedLanguage
<1>9. CASE RunRecover(p) \/ RunIngest(p) \/ SelectStage(p)
  BY <1>7, <1>9 DEF RunRecover, RunIngest, SelectStage, Eligible
<1>10. CASE \E x \in Recordings :
              EnterRouting(p, x) \/ RouteOne(p, x) \/ TranscribeOne(p, x) \/ SummarizeOne(p, x)
  BY <1>4, <1>5, <1>10 DEF EnterRouting, RouteOne, TranscribeOne, SummarizeOne, Turn
<1>11. CASE \/ RoutingFails(p) \/ ApplyOutcome(p) \/ TranscriptionFails(p)
            \/ TranscriptionSucceeds(p) \/ DetectionFails(p) \/ SummarizationFails(p)
            \/ StoreReportedLanguage(p) \/ ConfirmRouting(p) \/ SetLanguage(p)
            \/ ArchiveRecording(p) \/ RestoreRecording(p)
  BY <1>3, <1>11 DEF RoutingFails, ApplyOutcome, TranscriptionFails, TranscriptionSucceeds,
       DetectionFails, SummarizationFails, StoreReportedLanguage, ConfirmRouting, SetLanguage,
       ArchiveRecording, RestoreRecording
<1>12. CASE ManualRoute(p) \/ Retry(p) \/ TranscribeCommand(p) \/ SummarizeCommand(p)
  <2>1. Done(p) \/ \E s, again : \E S \in SUBSET {job[p].target} : GoOn(p, s, S, again)
    BY <1>12, Zenon DEF ManualRoute, Retry, TranscribeCommand, SummarizeCommand
  <2> QED  BY <1>3, <1>6, <2>1
<1>13. CASE SummarizeDetected(p) \/ SummarizationSucceeds(p)
  <2>1. Done(p) \/ \E pc : Goto(p, pc)
    BY <1>13, Zenon DEF SummarizeDetected, SummarizationSucceeds
  <2> QED  BY <1>2, <1>3, <2>1
<1> QED  BY <1>8, <1>9, <1>10, <1>11, <1>12, <1>13, Zenon DEF Step

\* A process comes to know only recordings that exist.
LEMMA KnowsExisting ==
  ASSUME Inv, NEW p \in Procs, Start(p) \/ Step(p) \/ Crash(p), NEW r \in Recordings,
         rec[r].status = "absent", \A q \in Procs : ~KnownTo(job[q], r)
  PROVE  \A q \in Procs : ~KnownTo(job'[q], r)
<1>1. job \in [Procs -> Job] /\ job[p] \in Job /\ None \notin Recordings /\ TypeOK
  BY PipelineAssumption DEF Inv, TypeOK
<1>2. SUFFICES ~KnownTo(job'[p], r) /\ \A q \in Procs \ {p} : job'[q] = job[q]
  BY Zenon
<1>3. IdleJob.target = None /\ IdleJob.todo = {}
  BY DEF IdleJob
<1>4. CASE Start(p)
  <2>1. CASE StartRun(p) \/ \E c \in Batches : StartBatch(p, c)
    <3>1. PICK c, stages : Acquire(p, [IdleJob EXCEPT !.cmd = c, !.stages = stages])
      BY <2>1 DEF StartRun, StartBatch
    <3>2. PICK j : j = [IdleJob EXCEPT !.cmd = c, !.stages = stages]
      OBVIOUS
    <3>3. j.target = None /\ j.todo = {}
      BY <3>2 DEF IdleJob
    <3>4. job'[p] = [j EXCEPT !.pc = "recover"] /\ \A q \in Procs \ {p} : job'[q] = job[q]
      BY <1>1, <3>1, <3>2 DEF Acquire
    <3> QED  BY <1>1, <3>3, <3>4 DEF KnownTo
  <2>2. CASE \E c \in RecordingCommands, x \in Recordings, prof \in Profiles \cup {None},
               sel \in Selectors, again \in BOOLEAN : StartCommand(p, c, x, prof, sel, again)
    BY <1>1, <2>2 DEF StartCommand, Acquire, IdleJob, KnownTo
  <2> QED  BY <1>4, <2>1, <2>2 DEF Start
<1>5. CASE Crash(p) \/ Finish(p)
  BY <1>1, <1>3, <1>5 DEF Crash, Finish, KnownTo
<1>6. CASE Step(p) /\ ~Finish(p)
  <2>1. JobMove(p)
    BY <1>6, StepMoves DEF Inv
  <2>2. \A q \in Procs \ {p} : job'[q] = job[q]
    BY <1>1, <2>1 DEF JobMove, Resume, Goto, Done, Leave, TakeUp, GoOn, EnterStage
  <2>3. ~KnownTo(job'[p], r)
    BY <1>6, StepKnowsExisting
  <2> QED  BY <2>2, <2>3
<1> QED  BY <1>4, <1>5, <1>6, Zenon

LEMMA KnownInit == Init => Known
<1>1. ~NewRecording.archived /\ IdleJob.target = None /\ IdleJob.todo = {}
  BY DEF NewRecording, IdleJob
<1> QED  BY <1>1, PipelineAssumption DEF Init, Known, KnownTo

LEMMA KnownStep ==
  ASSUME Inv, Known, [Next]_vars
  PROVE  Known'
<1>1. CASE UNCHANGED vars
  BY <1>1 DEF vars, database, Known, KnownTo
<1>2. ASSUME NEW p \in Procs, Start(p) \/ Step(p) \/ Crash(p), NEW r \in Recordings,
             rec'[r].status = "absent"
      PROVE  ~rec'[r].archived /\ \A q \in Procs : ~KnownTo(job'[q], r)
  <2>1. rec[r] \in RecordingRow /\ rec[r].status \in Status
    BY DEF Inv, TypeOK, RecordingRow
  <2>2. /\ rec[r].status = "absent"
        /\ rec'[r].archived = rec[r].archived \/ Filed(p, r) \/ ~rec'[r].archived
    <3>1. CASE UNCHANGED database
      BY <1>2, <3>1 DEF database
    <3>2. CASE Step(p)
      <4>1. Fate(p, r)
        BY <3>2, StepFate
      <4>2. CASE RecoverInterruptions
        <5>1. rec'[r] = RecoveredRow(r) /\ RecoveredRow(r).archived = rec[r].archived
          BY <4>2, RecoveredSafe DEF RecoverInterruptions, Inv
        <5>2. RecoveredRow(r).status = rec[r].status
          BY <1>2, <2>1, <5>1, RecoveryFate, NeverAbsentAgain
        <5> QED  BY <1>2, <5>1, <5>2
      <4>3. CASE Untouched(r) \/ Ingested(r) \/ Filed(p, r) \/ Corrected(p, r)
        BY <1>2, <2>1, <4>3 DEF Untouched, Ingested, Filed, Corrected, RecordingRow
      <4>4. CASE Worked(p, r)
        BY <1>2, <2>1, <4>4, NeverAbsentAgain DEF Worked
      <4> QED  BY <4>1, <4>2, <4>3, <4>4 DEF Fate
    <3>3. CASE Start(p) \/ Crash(p)
      BY <3>1, <3>3, Zenon DEF Start, StartRun, StartBatch, StartCommand, Acquire, Crash
    <3> QED  BY <1>2, <3>2, <3>3
  <2>3. ~rec[r].archived /\ \A q \in Procs : ~KnownTo(job[q], r)
    BY <2>2 DEF Known
  <2>4. ~Filed(p, r)
    BY <2>3 DEF Filed, KnownTo
  <2>5. \A q \in Procs : ~KnownTo(job'[q], r)
    BY <1>2, <2>2, <2>3, KnowsExisting
  <2> QED  BY <2>2, <2>3, <2>4, <2>5
<1> QED  BY <1>1, <1>2 DEF Next, Known

\* Only recordings that exist are archived or named by a command.
LEMMA Knowing == Spec => [](Inv /\ Known)
<1>1. Inv /\ Known /\ [Next]_vars => (Inv /\ Known)'
  BY InvStep, KnownStep
<1> QED  BY <1>1, InvInit, KnownInit, PTL DEF Spec

-----------------------------------------------------------------------------
(* The theorems *)

\* The actions that change the database.
LEMMA ByStep ==
  ASSUME [Next]_vars, ~UNCHANGED database
  PROVE  \E p \in Procs : Step(p)
<1>1. PICK p \in Procs : Start(p) \/ Step(p) \/ Crash(p)
  BY DEF Next, vars
<1>2. Step(p)
  BY <1>1, Zenon DEF Start, StartRun, StartBatch, StartCommand, Acquire, Crash
<1> QED  BY <1>2

\* An archived recording stays as it is until the user restores it, whatever
\* stage, retry or recovery the other commands perform; only the correction of
\* the language of its transcript is let through.
THEOREM ArchivedStayFrozen == Spec => ArchivedFrozen
<1>1. ASSUME Inv, Known, [Next]_vars
      PROVE  [\A r \in Recordings :
                rec[r].archived =>
                  /\ decision'[r] = decision[r] /\ attempts'[r] = attempts[r]
                  /\ transcript'[r] = transcript[r] /\ summary'[r] = summary[r]
                  /\ \/ /\ rec'[r] = [rec[r] EXCEPT !.archived = rec'[r].archived]
                        /\ language'[r] = language[r]
                     \/ /\ lock # None /\ job[lock].cmd = "set_language" /\ job[lock].target = r
                        /\ rec'[r].status = rec[r].status]_vars
  <2> SUFFICES ASSUME NEW r \in Recordings, rec[r].archived
               PROVE  /\ decision'[r] = decision[r] /\ attempts'[r] = attempts[r]
                      /\ transcript'[r] = transcript[r] /\ summary'[r] = summary[r]
                      /\ \/ /\ rec'[r] = [rec[r] EXCEPT !.archived = rec'[r].archived]
                            /\ language'[r] = language[r]
                         \/ /\ lock # None /\ job[lock].cmd = "set_language"
                            /\ job[lock].target = r /\ rec'[r].status = rec[r].status
    OBVIOUS
  <2>1. rec[r] \in RecordingRow
    BY <1>1 DEF Inv, TypeOK
  <2>2. CASE Untouched(r)
    BY <2>1, <2>2 DEF Untouched, RecordingRow
  <2>3. CASE ~Untouched(r)
    <3>1. PICK p \in Procs : Step(p)
      BY <1>1, <2>3, ByStep DEF Untouched, database
    <3>2. Fate(p, r) /\ ~Ingested(r) /\ ~Worked(p, r)
      BY <1>1, <3>1, StepFate DEF Known, Ingested, Worked
    <3>3. ~RecoverInterruptions
      <4> SUFFICES ASSUME RecoverInterruptions
                   PROVE  Untouched(r)
        BY <2>3
      <4>1. RecoveredRow(r) = rec[r] /\ RecoveredAttempts(attempts[r]) = attempts[r]
        BY <1>1, RecoveryFate
      <4> QED  BY <4>1 DEF RecoverInterruptions, Untouched
    <3>4. CASE Filed(p, r)
      BY <2>1, <3>4 DEF Filed, RecordingRow
    <3>5. CASE Corrected(p, r)
      <4>1. lock = p /\ p # None
        BY <1>1, <3>5, Running DEF Corrected
      <4> QED  BY <3>5, <4>1 DEF Corrected
    <3> QED  BY <2>3, <3>2, <3>3, <3>4, <3>5 DEF Fate
  <2> QED  BY <2>2, <2>3
<1> QED  BY <1>1, Knowing, PTL DEF Spec, ArchivedFrozen

\* A failed recording leaves that state only by a retry or a manual route of
\* that very recording.
THEOREM FailedStaysFailed == Spec => FailedNeedsCommand
<1>1. ASSUME Inv, [Next]_vars
      PROVE  [\A r \in Recordings :
                rec[r].status = "failed" /\ rec'[r].status # "failed" =>
                  /\ lock # None
                  /\ job[lock].cmd \in {"retry", "route"} /\ job[lock].target = r]_vars
  <2> SUFFICES ASSUME NEW r \in Recordings, rec[r].status = "failed", rec'[r].status # "failed"
               PROVE  /\ lock # None
                      /\ job[lock].cmd \in {"retry", "route"} /\ job[lock].target = r
    OBVIOUS
  <2>1. PICK p \in Procs : Step(p)
    BY <1>1, ByStep DEF database
  <2>2. lock = p /\ p # None
    BY <1>1, <2>1, StepMoves, Running DEF Inv
  <2>3. rec[r] \in RecordingRow /\ Fate(p, r)
    BY <1>1, <2>1, StepFate DEF Inv, TypeOK
  <2>4. ~RecoverInterruptions
    BY <1>1, RecoveryFate DEF RecoverInterruptions
  <2>5. Worked(p, r)
    BY <2>3, <2>4 DEF Fate, Untouched, Ingested, Filed, Corrected, RecordingRow
  <2> QED  BY <2>2, <2>5 DEF Worked
<1> QED  BY <1>1, Invariance, PTL DEF Spec, FailedNeedsCommand

LEMMA MachineStarts == Init => Machine!MachineInit
<1> SUFFICES ASSUME Init
             PROVE  Machine!MachineInit
  OBVIOUS
<1>1. NewRecording.status = "absent"
  BY DEF NewRecording
<1>2. \A r \in Recordings : rec[r].status = "absent" /\ (transcript[r] # 0) = FALSE
  BY <1>1 DEF Init
<1> QED  BY <1>2, Zenon DEF Machine!MachineInit

LEMMA MachineSteps ==
  ASSUME Inv, Inv', [Next]_vars
  PROVE  [Machine!MachineNext]_(Machine!machineVars)
<1> DEFINE had(r) == transcript[r] # 0
           has(r) == transcript'[r] # 0
           from(r) == rec[r].status
           to(r) == rec'[r].status
<1>1. /\ \A r \in Recordings : from(r) \in Status /\ to(r) \in Status
      /\ Status \subseteq Machine!Status
  BY DEF Inv, TypeOK, RecordingRow, Status, Machine!Status
<1>2. ASSUME NEW r \in Recordings
      PROVE  \/ to(r) = from(r) /\ has(r) = had(r)
             \/ /\ to(r) \in Edges[from(r)]
                /\ to(r) = "failed" => ~has(r)
                /\ to(r) = "transcribed" => has(r)
                /\ \/ has(r) = had(r)
                   \/ ~had(r) /\ has(r) /\ from(r) = "transcribing" /\ to(r) = "transcribed"
  <2>1. (to(r) = "failed" => ~has(r)) /\ (to(r) = "transcribed" => has(r))
    BY DEF Inv, RowSafe
  <2>2. rec[r] \in RecordingRow
    BY DEF Inv, TypeOK
  <2>3. CASE Untouched(r)
    BY <2>3 DEF Untouched
  <2>4. CASE ~Untouched(r)
    <3>1. PICK p \in Procs : Step(p)
      BY <2>4, ByStep DEF Untouched, database
    <3>2. CASE RecoverInterruptions
      BY <2>1, <3>2, RecoveryFate DEF RecoverInterruptions
    <3>3. CASE Ingested(r) \/ Filed(p, r) \/ Corrected(p, r)
      BY <2>1, <2>2, <3>3, UsedEdges DEF Ingested, Filed, Corrected, RecordingRow
    <3>4. CASE Worked(p, r)
      BY <2>1, <3>4, UsedEdges DEF Worked
    <3> QED  BY <2>4, <3>1, <3>2, <3>3, <3>4, StepFate DEF Fate
  <2> QED  BY <2>3, <2>4
<1>3. ASSUME NEW r \in Recordings
      PROVE  Machine!Edge(r) \/ Machine!Rest(r)
  BY <1>2 DEF Machine!Edge, Machine!Rest, Edges
<1>4. /\ [x \in Recordings |-> to(x)] \in [Recordings -> Machine!Status]
      /\ [x \in Recordings |-> has(x)] \in [Recordings -> BOOLEAN]
  BY <1>1
<1>5. Machine!MachineNext
  BY <1>3, <1>4 DEF Machine!MachineNext
<1> QED  BY <1>5

\* Every write of a status, wherever in the pipeline, is an edge of the state
\* machine that statemachine.py declares, and no transcript is ever lost.
THEOREM ImplementsStateMachine == Spec => FollowsStateMachine
<1>1. Inv /\ Inv' /\ [Next]_vars => [Machine!MachineNext]_(Machine!machineVars)
  BY MachineSteps
<1> QED  BY <1>1, MachineStarts, Invariance, PTL DEF Spec, FollowsStateMachine, Machine!MachineSpec

\* The recovery that `brain run' performs again, after the one that opened the
\* command, changes no row, whatever the process before it left behind.
THEOREM SecondRecoveryIdle == Spec => RecoveryIdempotent
<1>1. ASSUME Inv, [Next]_vars
      PROVE  [\A p \in Procs : RunRecover(p) => UNCHANGED database]_vars
  <2> SUFFICES ASSUME NEW p \in Procs, RunRecover(p)
               PROVE  UNCHANGED database
    OBVIOUS
  <2>1. job[p].pc = "next" /\ RecoverInterruptions
    BY DEF RunRecover, AtStage
  <2>2. /\ rec \in [Recordings -> RecordingRow]
        /\ attempts \in [Recordings -> Seq(Attempt)]
    BY <1>1 DEF Inv, TypeOK
  <2>3. ASSUME NEW r \in Recordings
        PROVE  RecoveredRow(r) = rec[r] /\ RecoveredAttempts(attempts[r]) = attempts[r]
    <3>1. Held(r, rec[r], attempts[r], job[p])
      BY <1>1, <2>1, Running
    <3>2. Unfinished(attempts[r]) = {}
      BY <2>1, <3>1, HeldQuiet
    <3>3. rec[r].status # "transcribing"
      BY <2>1, <3>1 DEF Held
    <3>4. RecoveredRow(r) = rec[r]
      BY <3>2, <3>3 DEF RecoveredRow, RecoveredStatus
    <3>5. attempts[r] \in [1..Len(attempts[r]) -> Attempt]
      BY <2>2, LenProperties
    <3>6. \A i \in DOMAIN attempts[r] : attempts[r][i].outcome # "running"
      BY <3>2 DEF Unfinished
    <3> QED  BY <3>4, <3>5, <3>6 DEF RecoveredAttempts
  <2>4. rec' = rec /\ attempts' = attempts
    BY <2>1, <2>2, <2>3 DEF RecoverInterruptions
  <2> QED  BY <2>1, <2>4 DEF RecoverInterruptions, database
<1> QED  BY <1>1, Invariance, PTL DEF Spec, RecoveryIdempotent

-----------------------------------------------------------------------------
(* Summaries: how far the summary fields of a recording may be from those  *)
(* of its default language, and what a batch may summarize by itself.  An  *)
(* invariant of its own, inductive given Inv.                              *)

\* The summary fields of the row are those of language l, in which the active
\* transcript t has summary s.
Faithful(row, atts, t, l, s) ==
  LET failures == SummaryFailures(atts, t, l, s)
  IN /\ row.summaryStatus = "not_ready" <=> t = 0
     /\ row.summaryStatus = "current" <=> s # 0
     /\ t # 0 /\ s = 0 => (row.summaryStatus = "failed" <=> failures # {})
     /\ row.resummarizationFailed <=> (s # 0 /\ failures # {})

\* An attempt that names a language summarizes an older transcript; the others
\* are of another stage, or detect a language.
Ancestry(atts) ==
  \A i \in DOMAIN atts :
    IF atts[i].language = NoLanguage THEN atts[i].transcript = 0 /\ ~atts[i].automatic
    ELSE /\ atts[i].stage = "summarization"
         /\ atts[i].transcript # 0 /\ atts[i].transcript < i

\* The active transcript t is that of an attempt, and a successful summarization
\* of it has left a summary in its language.
Provenance(atts, t, s) ==
  /\ t <= Len(atts)
  /\ \A i \in DOMAIN atts :
       /\ atts[i].language # NoLanguage /\ atts[i].outcome = "success"
       /\ atts[i].transcript = t
       => s[atts[i].language] # 0

\* A summary being generated is of the active transcript, and that of a batch in
\* the default language d: what recovery makes of it, the row will say.
Pending(atts, t, d) ==
  \A i \in DOMAIN atts :
    atts[i].outcome = "running" /\ atts[i].language # NoLanguage =>
      atts[i].transcript = t /\ (atts[i].automatic => atts[i].language = d)

Once(atts, t, lang) ==
  \A i, k \in DOMAIN atts :
    /\ atts[i].automatic /\ atts[k].automatic /\ i # k
    /\ atts[i].transcript = atts[k].transcript
    => /\ atts[i].language # atts[k].language
       /\ atts[i].transcript = t => lang.by = "user"

\* What a batch takes up because its summary is missing, no batch has tried.
Untried(row, atts, t, lang) ==
  lang.by # "user" /\ row.summaryStatus = "missing" =>
    \A i \in DOMAIN atts :
      atts[i].automatic /\ atts[i].transcript = t => atts[i].outcome = "running"

\* Once the user has entered the language, the fields are those of the default d.
Entered(row, atts, t, lang, d, s) ==
  lang.by = "user" => lang.language # NoLanguage /\ Faithful(row, atts, t, d, s[d])

Sound(row, atts, t, lang, d, s) ==
  /\ Ancestry(atts) /\ Provenance(atts, t, s) /\ Pending(atts, t, d)
  /\ Once(atts, t, lang) /\ Untried(row, atts, t, lang)
  /\ Entered(row, atts, t, lang, d, s)

\* What the lock holder, executing job j, knows of a recording: whether the attempt
\* it has open names a language, and whether the transcript had one; the summaries
\* of the recordings on the list of a batch are still missing.
Expects(r, row, atts, lang, j) ==
  /\ j.target = r /\ j.pc \in {"routing", "transcribing", "detecting"} =>
       atts[Len(atts)].language = NoLanguage
  /\ j.target = r /\ j.pc = "detecting" => atts[Len(atts)].stage = "summarization"
  /\ j.target = r /\ j.pc = "summarizing" =>
       atts[Len(atts)].language # NoLanguage /\ atts[Len(atts)].outcome = "running"
  /\ j.target = r /\ j.pc \in {"detecting", "detected", "persisted"} =>
       lang.language = NoLanguage
  /\ r \in j.todo /\ j.stage = "summarize" /\ j.cmd \in Batches =>
       row.summaryStatus = "missing"

\* A batch asks for the default language, which is never unknown.
Directed(j) ==
  j.cmd \in Batches =>
    j.selector = "default" /\ j.pc \notin {"detecting", "detected", "resolved"}

SoundNow(r) == Sound(rec[r], attempts[r], transcript[r], language[r], Default(r), summary[r])

SummaryInv ==
  /\ \A r \in Recordings : SoundNow(r)
  /\ lock # None =>
       /\ Directed(job[lock])
       /\ \A r \in Recordings : Expects(r, rec[r], attempts[r], language[r], job[lock])

-----------------------------------------------------------------------------
(* Lemmas about lists of attempts and their summaries *)

\* Two lists of attempts that differ in outcomes only.
SameAttempts(atts, new) ==
  /\ Len(new) = Len(atts) /\ DOMAIN new = DOMAIN atts
  /\ \A i \in DOMAIN atts : /\ new[i].stage = atts[i].stage
                            /\ new[i].transcript = atts[i].transcript
                            /\ new[i].language = atts[i].language
                            /\ new[i].automatic = atts[i].automatic

LEMMA FinishKeeps ==
  ASSUME NEW atts \in Seq(Attempt), NEW outcome \in Outcomes
  PROVE  /\ SameAttempts(atts, FinishAttempt(atts, outcome))
         /\ \A i \in DOMAIN atts : FinishAttempt(atts, outcome)[i].outcome =
              IF i = Len(atts) THEN outcome ELSE atts[i].outcome
<1>1. atts \in [1..Len(atts) -> Attempt] /\ Len(atts) \in Nat
  BY LenProperties
<1>2. Len(FinishAttempt(atts, outcome)) = Len(atts)
  BY FinishAttemptType
<1> QED  BY <1>1, <1>2 DEF SameAttempts, FinishAttempt, Attempt

LEMMA RecoveryKeeps ==
  ASSUME NEW atts \in Seq(Attempt)
  PROVE  /\ SameAttempts(atts, RecoveredAttempts(atts))
         /\ \A i \in DOMAIN atts : RecoveredAttempts(atts)[i].outcome =
              IF atts[i].outcome = "running" THEN "interrupted" ELSE atts[i].outcome
<1>1. atts \in [1..Len(atts) -> Attempt] /\ Len(atts) \in Nat
  BY LenProperties
<1>2. RecoveredAttempts(atts) \in Seq(Attempt)
      /\ DOMAIN RecoveredAttempts(atts) = 1..Len(atts)
  BY <1>1, RecoveredAttemptsType DEF RecoveredAttempts
<1>3. Len(RecoveredAttempts(atts)) = Len(atts)
  BY <1>1, <1>2, LenProperties
<1> QED  BY <1>1, <1>3 DEF SameAttempts, RecoveredAttempts, Attempt

LEMMA AppendKeeps ==
  ASSUME NEW atts \in Seq(Attempt), NEW a \in Attempt
  PROVE  LET new == Append(atts, a)
         IN  /\ Len(atts) \in Nat /\ Len(new) = Len(atts) + 1
             /\ DOMAIN atts = 1..Len(atts) /\ DOMAIN new = 1..Len(atts) + 1
             /\ \A i \in DOMAIN atts : new[i] = atts[i]
             /\ new[Len(atts) + 1] = a
BY AppendProperties, LenProperties

LEMMA SameKeeps ==
  ASSUME NEW atts, NEW new, SameAttempts(atts, new), NEW t, NEW lang
  PROVE  /\ Ancestry(atts) => Ancestry(new)
         /\ Once(atts, t, lang) => Once(new, t, lang)
BY DEF SameAttempts, Ancestry, Once

\* What the row is derived to be in a language is faithful to it.
LEMMA DerivedFaithful ==
  ASSUME NEW row \in RecordingRow, NEW atts, NEW t, NEW l, NEW s, t # 0
  PROVE  /\ Faithful(Derived(row, atts, t, l, s), atts, t, l, s)
         /\ Derived(row, atts, t, l, s).summaryStatus = "missing" <=>
              s = 0 /\ SummaryFailures(atts, t, l, s) = {}
BY DEF Faithful, Derived, RecordingRow

\* The fields of the row that concern summaries.
SameFields(row, new) ==
  /\ new.summaryStatus = row.summaryStatus
  /\ new.resummarizationFailed = row.resummarizationFailed

\* The failures in language l are the same, after whichever summary.
SameFailures(atts, new, t, l) ==
  \A k : SummaryFailures(new, t, l, k) = SummaryFailures(atts, t, l, k)

LEMMA FaithfulFrame ==
  ASSUME NEW row, NEW new, NEW atts, NEW natts, NEW t, NEW l, NEW s,
         Faithful(row, atts, t, l, s), SameFields(row, new), SameFailures(atts, natts, t, l)
  PROVE  Faithful(new, natts, t, l, s)
BY DEF Faithful, SameFields, SameFailures

\* The language the user entered decides by itself.
LEMMA UserDecides ==
  ASSUME NEW t, NEW d, NEW e, t.language # NoLanguage, t.by = "user"
  PROVE  DefaultOf(t, d) = DefaultOf(t, e)
BY Zenon DEF DefaultOf, resolve_default_language

\* The default language may change while no summary is being generated.
LEMMA SoundFrame ==
  ASSUME NEW row, NEW new, NEW atts, NEW t, NEW lang, NEW d, NEW e, NEW s,
         Sound(row, atts, t, lang, d, s), SameFields(row, new),
         e = d \/ Unfinished(atts) = {}, lang.by = "user" => e = d
  PROVE  Sound(new, atts, t, lang, e, s)
<1>1. Pending(atts, t, e)
  BY DEF Sound, Pending, Unfinished
<1>2. Entered(new, atts, t, lang, e, s)
  BY FaithfulFrame DEF Sound, Entered, SameFailures
<1> QED  BY <1>1, <1>2 DEF Sound, Untried, SameFields

\* Closing an attempt that names no language.
LEMMA FinishOther ==
  ASSUME NEW row, NEW new, NEW atts \in Seq(Attempt), NEW outcome \in Outcomes \ {"running"},
         NEW t, NEW lang, NEW d \in OutputLanguages, NEW s,
         Sound(row, atts, t, lang, d, s), SameFields(row, new),
         atts[Len(atts)].language = NoLanguage
  PROVE  LET done == FinishAttempt(atts, outcome)
         IN  /\ Sound(new, done, t, lang, d, s)
             /\ SameFailures(atts, done, t, d)
<1> DEFINE done == FinishAttempt(atts, outcome)
<1>1. /\ SameAttempts(atts, done) /\ outcome # "running"
      /\ \A i \in DOMAIN atts :
           done[i].outcome = IF i = Len(atts) THEN outcome ELSE atts[i].outcome
  BY FinishKeeps
<1> HIDE DEF done
<1>2. Ancestry(done) /\ Once(done, t, lang)
  BY <1>1, SameKeeps DEF Sound
<1>3. ~atts[Len(atts)].automatic \/ Len(atts) \notin DOMAIN atts
  BY DEF Sound, Ancestry
<1>4. SameFailures(atts, done, t, d)
  BY <1>1, LanguageTypes DEF SummaryFailures, SameAttempts, SameFailures
<1>5. Provenance(done, t, s) /\ Pending(done, t, d)
  BY <1>1 DEF Sound, Provenance, Pending, SameAttempts
<1>6. Untried(new, done, t, lang)
  BY <1>1, <1>3 DEF Sound, Untried, SameAttempts, SameFields
<1>7. Entered(new, done, t, lang, d, s)
  BY <1>4, FaithfulFrame DEF Sound, Entered
<1> QED  BY <1>2, <1>4, <1>5, <1>6, <1>7 DEF Sound, done

\* A batch may summarize transcript t in language d.
Permits(atts, t, lang, d) ==
  \A i \in DOMAIN atts : atts[i].automatic /\ atts[i].transcript = t =>
    atts[i].language # d /\ lang.by = "user"

\* An attempt that may be begun: one that names no language, or a summarization of
\* the active transcript t, in the default language d if it is automatic.
Fit(a, atts, t, lang, d) ==
  /\ a.outcome = "running"
  /\ IF a.language = NoLanguage THEN a.transcript = 0 /\ ~a.automatic
     ELSE a.stage = "summarization" /\ a.transcript = t /\ t # 0
  /\ a.automatic => a.language = d /\ Permits(atts, t, lang, d)

LEMMA OpenAny ==
  ASSUME NEW row, NEW atts \in Seq(Attempt), NEW a \in Attempt, NEW t \in Nat, NEW lang,
         NEW d \in OutputLanguages, NEW s,
         Sound(row, atts, t, lang, d, s), Fit(a, atts, t, lang, d)
  PROVE  LET new == Append(atts, a)
         IN  /\ Sound(row, new, t, lang, d, s)
             /\ SameFailures(atts, new, t, d)
<1> DEFINE new == Append(atts, a)
           n == Len(atts)
<1>1. /\ n \in Nat /\ Len(new) = n + 1 /\ DOMAIN atts = 1..n /\ DOMAIN new = 1..n + 1
      /\ \A i \in 1..n : new[i] = atts[i]
      /\ new[n + 1] = a
  BY AppendKeeps
<1>2. t <= n
  BY DEF Sound, Provenance
<1> HIDE DEF new, n
<1>3. \A i \in DOMAIN new : i \in 1..n \/ i = n + 1
  BY <1>1
<1>4. SameFailures(atts, new, t, d)
  <2> SUFFICES ASSUME NEW k
               PROVE  SummaryFailures(new, t, d, k) = SummaryFailures(atts, t, d, k)
    BY DEF SameFailures
  <2>1. n + 1 \notin SummaryFailures(new, t, d, k)
    BY <1>1 DEF SummaryFailures, FailureOutcomes, Fit
  <2> QED  BY <1>1, <1>3, <2>1 DEF SummaryFailures
<1>5. Ancestry(new)
  <2> SUFFICES ASSUME NEW i \in DOMAIN new
               PROVE  IF new[i].language = NoLanguage
                      THEN new[i].transcript = 0 /\ ~new[i].automatic
                      ELSE /\ new[i].stage = "summarization"
                           /\ new[i].transcript # 0 /\ new[i].transcript < i
    BY DEF Ancestry
  <2>1. CASE i \in 1..n
    BY <1>1, <2>1 DEF Sound, Ancestry
  <2>2. CASE i = n + 1
    BY <1>1, <1>2, <2>2 DEF Fit
  <2> QED  BY <1>3, <2>1, <2>2
<1>6. Provenance(new, t, s)
  <2>1. \A i \in DOMAIN new : new[i].outcome = "success" => i \in 1..n
    BY <1>1, <1>3 DEF Fit
  <2> QED  BY <1>1, <1>2, <2>1 DEF Sound, Provenance
<1>7. Pending(new, t, d)
  <2>1. a.language # NoLanguage => a.transcript = t /\ (a.automatic => a.language = d)
    BY DEF Fit
  <2> QED  BY <1>1, <1>3, <2>1 DEF Sound, Pending
<1>8. Once(new, t, lang)
  <2> SUFFICES ASSUME NEW i \in DOMAIN new, NEW k \in DOMAIN new, new[i].automatic,
                      new[k].automatic, i # k, new[i].transcript = new[k].transcript
               PROVE  /\ new[i].language # new[k].language
                      /\ new[i].transcript = t => lang.by = "user"
    BY DEF Once
  <2>1. CASE i \in 1..n /\ k \in 1..n
    BY <1>1, <2>1 DEF Sound, Once
  <2>2. a.automatic => a.transcript = t /\ a.language = d
    BY DEF Fit
  <2>3. CASE i = n + 1 /\ k \in 1..n
    BY <1>1, <2>2, <2>3 DEF Permits, Fit
  <2>4. CASE k = n + 1 /\ i \in 1..n
    BY <1>1, <2>2, <2>4 DEF Permits, Fit
  <2> QED  BY <1>3, <2>1, <2>3, <2>4
<1>9. Untried(row, new, t, lang)
  BY <1>1, <1>3 DEF Sound, Untried, Fit
<1>10. Entered(row, new, t, lang, d, s)
  BY <1>4, FaithfulFrame DEF Sound, Entered, SameFields
<1> QED  BY <1>4, <1>5, <1>6, <1>7, <1>8, <1>9, <1>10 DEF Sound, new

\* A batch may take up a recording whose summary is missing.
LEMMA MissingMeansUntried ==
  ASSUME NEW row, NEW atts \in Seq(Attempt), NEW t, NEW lang, NEW d \in OutputLanguages, NEW s,
         Sound(row, atts, t, lang, d, s), row.summaryStatus = "missing", Unfinished(atts) = {}
  PROVE  Permits(atts, t, lang, d)
<1> SUFFICES ASSUME NEW i \in DOMAIN atts, atts[i].automatic, atts[i].transcript = t
             PROVE  atts[i].language # d /\ lang.by = "user"
  BY DEF Permits
<1>1. i \in Nat /\ i > 0 /\ atts[i] \in Attempt /\ atts[i].outcome # "running"
  BY LenProperties DEF Unfinished
<1>2. lang.by = "user"
  BY <1>1 DEF Sound, Untried
<1>3. s[d] = 0 /\ SummaryFailures(atts, t, d, 0) = {}
  BY <1>2 DEF Sound, Entered, Faithful
<1>4. ASSUME atts[i].language = d
      PROVE  FALSE
  <2>1. atts[i].language # NoLanguage /\ atts[i].stage = "summarization"
    BY <1>4, LanguageTypes DEF Sound, Ancestry
  <2>2. atts[i].outcome \in {"success", "failed", "interrupted"}
    BY <1>1 DEF Attempt, Outcomes
  <2>3. atts[i].outcome = "success"
    BY <1>1, <1>3, <1>4, <2>1, <2>2 DEF SummaryFailures, FailureOutcomes
  <2> QED  BY <1>3, <1>4, <2>1, <2>3 DEF Sound, Provenance
<1> QED  BY <1>2, <1>4

-----------------------------------------------------------------------------
(* What steps do to summaries *)

NextDefault(x) == DefaultOf(language'[x], decision'[x])

FaithfulNow(x) ==
  Faithful(rec[x], attempts[x], transcript[x], Default(x), summary[x][Default(x)])

FaithfulNext(x) ==
  Faithful(rec'[x], attempts'[x], transcript'[x], NextDefault(x), summary'[x][NextDefault(x)])

\* What SummaryStatusTruthful says of a step and recording x, but for the language
\* the user entered.
Told(x) ==
  \/ FaithfulNow(x) /\ NextDefault(x) = Default(x)
  \/ DefaultAttemptEnds(x)
  \/ transcript'[x] # transcript[x]
  => FaithfulNext(x)

SoundNext(x) ==
  Sound(rec'[x], attempts'[x], transcript'[x], language'[x], NextDefault(x), summary'[x])

\* What there is to show of a step of process p: for one recording, and for all.
After(p, x) ==
  SoundNext(x) /\ Told(x) /\ Expects(x, rec'[x], attempts'[x], language'[x], job'[p])

Shown == SummaryInv' /\ \A x \in Recordings : Told(x)

LEMMA Defaults ==
  ASSUME NEW x
  PROVE  /\ Default(x) \in OutputLanguages /\ NextDefault(x) \in OutputLanguages
         /\ decision'[x] = decision[x] /\ language'[x] = language[x] =>
              NextDefault(x) = Default(x)
BY DefaultType DEF Default, NextDefault

LEMMA ToldFrame ==
  ASSUME NEW x, SameFields(rec[x], rec'[x]), transcript'[x] = transcript[x],
         ~DefaultAttemptEnds(x),
         NextDefault(x) = Default(x) =>
           /\ summary'[x][Default(x)] = summary[x][Default(x)]
           /\ SameFailures(attempts[x], attempts'[x], transcript[x], Default(x))
  PROVE  Told(x)
BY FaithfulFrame DEF Told, FaithfulNow, FaithfulNext

\* Nothing that the invariant speaks of changes for recording x, or only its
\* decision, while it has no attempt open.
Still(x) ==
  /\ SameFields(rec[x], rec'[x])
  /\ attempts'[x] = attempts[x] /\ transcript'[x] = transcript[x]
  /\ language'[x] = language[x] /\ summary'[x] = summary[x]
  /\ decision'[x] = decision[x] \/ Unfinished(attempts[x]) = {}

LEMMA StillAfter ==
  ASSUME SummaryInv, NEW p \in Procs, lock = p, p # None, NEW x \in Recordings, Still(x)
  PROVE  /\ SoundNext(x) /\ Told(x)
         /\ Expects(x, rec[x], attempts[x], language[x], job[p])
<1>1. /\ Sound(rec[x], attempts[x], transcript[x], language[x], Default(x), summary[x])
      /\ Expects(x, rec[x], attempts[x], language[x], job[p])
  BY DEF SummaryInv, SoundNow
<1>2. NextDefault(x) = Default(x) \/ Unfinished(attempts[x]) = {}
  BY Defaults DEF Still
<1>3. language[x].by = "user" => NextDefault(x) = Default(x)
  BY <1>1, UserDecides DEF Sound, Entered, Still, NextDefault, Default
<1>4. SoundNext(x)
  BY <1>1, <1>2, <1>3, SoundFrame DEF Still, SoundNext
<1>5. ~DefaultAttemptEnds(x)
  BY DEF Still, DefaultAttemptEnds, Unfinished
<1>6. Told(x)
  BY <1>5, ToldFrame DEF Still, SameFailures
<1> QED  BY <1>1, <1>4, <1>6

\* A command never changes its name, nor what it was given.
LEMMA SameCommand ==
  ASSUME Inv, NEW p \in Procs, Step(p), ~Finish(p)
  PROVE  /\ job'[p].cmd = job[p].cmd /\ job'[p].profile = job[p].profile
         /\ job'[p].selector = job[p].selector
         /\ lock = p /\ lock' = p /\ p # None
<1> DEFINE Same == /\ job'[p].cmd = job[p].cmd /\ job'[p].profile = job[p].profile
                   /\ job'[p].selector = job[p].selector
<1>1. job \in [Procs -> Job] /\ job[p] \in Job
  BY DEF Inv, TypeOK
<1>2. JobMove(p) /\ lock' = lock /\ lock = p /\ p # None
  BY StepMoves, Running DEF Inv
<1>3. ASSUME NEW pc, Goto(p, pc)
      PROVE  Same
  BY <1>1, <1>3 DEF Goto, Job
<1>4. ASSUME Done(p)
      PROVE  Same
  BY <1>1, <1>4 DEF Done, Job
<1>5. ASSUME NEW x, Leave(p, x)
      PROVE  Same
  BY <1>1, <1>5 DEF Leave, Job
<1>6. ASSUME NEW x, NEW pc, TakeUp(p, x, pc)
      PROVE  Same
  BY <1>1, <1>6 DEF TakeUp, Job
<1>7. ASSUME NEW st, NEW S, NEW again, GoOn(p, st, S, again)
      PROVE  Same
  BY <1>1, <1>7 DEF GoOn, Job
<1>8. ASSUME NEW st, NEW S, EnterStage(p, st, S)
      PROVE  Same
  BY <1>1, <1>8 DEF EnterStage, Job
<1> HIDE DEF Same
<1>9. Same
  BY <1>2, <1>3, <1>4, <1>5, <1>6, <1>7, <1>8, Zenon DEF JobMove, Resume
<1> QED  BY <1>2, <1>9 DEF Same

\* The conclusion of a step, from what it shows of every recording.
LEMMA AllShown ==
  ASSUME Inv, SummaryInv, NEW p \in Procs, Step(p), ~Finish(p),
         job'[p].pc \in {"detecting", "detected", "resolved"} => job[p].cmd \notin Batches,
         \A x \in Recordings : After(p, x)
  PROVE  Shown
<1>1. /\ job'[p].cmd = job[p].cmd /\ job'[p].selector = job[p].selector
      /\ lock = p /\ lock' = p /\ p # None
  BY SameCommand
<1>2. Directed(job[p])
  BY <1>1 DEF SummaryInv
<1>3. Directed(job'[p])
  BY <1>1, <1>2 DEF Directed
<1>4. \A x \in Recordings :
        /\ SoundNow(x)' /\ Told(x)
        /\ Expects(x, rec'[x], attempts'[x], language'[x], job'[p])
  BY DEF After, SoundNext, SoundNow, NextDefault, Default
<1> QED  BY <1>1, <1>3, <1>4 DEF SummaryInv, Shown

\* A step that touches recording r only.
LEMMA SummaryOne ==
  ASSUME Inv, SummaryInv, NEW p \in Procs, Step(p), ~Finish(p), NEW r \in Recordings,
         \A x \in Recordings \ {r} : Still(x),
         job[p].target \in {r, None}, job'[p].target \in {r, None},
         job'[p].todo \subseteq job[p].todo \cup {r},
         job'[p].stage = job[p].stage \/ job'[p].todo \subseteq {r},
         job'[p].pc \in {"detecting", "detected", "resolved"} => job[p].cmd \notin Batches,
         After(p, r)
  PROVE  Shown
<1>1. job'[p].cmd = job[p].cmd /\ lock = p /\ lock' = p /\ p # None
  BY SameCommand
<1>2. ASSUME NEW x \in Recordings
      PROVE  After(p, x)
  <2>1. CASE x = r
    BY <2>1
  <2>2. CASE x # r
    <3>1. /\ SoundNext(x) /\ Told(x)
          /\ Expects(x, rec[x], attempts[x], language[x], job[p])
      BY <1>1, <2>2, StillAfter
    <3>2. Still(x) /\ job'[p].target # x
          /\ (x \in job'[p].todo => x \in job[p].todo /\ job'[p].stage = job[p].stage)
      BY <2>2, PipelineAssumption
    <3>3. Expects(x, rec'[x], attempts'[x], language'[x], job'[p])
      BY <1>1, <3>1, <3>2 DEF Expects, Still, SameFields
    <3> QED  BY <3>1, <3>3 DEF After
  <2> QED  BY <2>1, <2>2
<1> QED  BY <1>2, AllShown

\* A step that touches no attempt, no transcript and no summary, and after which
\* the process has no recording on its list but old ones.
LEMMA SummaryQuiet ==
  ASSUME Inv, SummaryInv, NEW p \in Procs, Step(p), ~Finish(p),
         \A x \in Recordings : Still(x),
         job'[p].pc \in {"next", "perform", "claimed"},
         \/ job'[p].todo \subseteq job[p].todo /\ job'[p].stage = job[p].stage
         \/ job[p].cmd \notin Batches
         \/ \A x \in job'[p].todo : job'[p].stage = "summarize" =>
                                      rec'[x].summaryStatus = "missing"
  PROVE  Shown
<1>1. job'[p].cmd = job[p].cmd /\ lock = p /\ lock' = p /\ p # None
  BY SameCommand
<1>2. ASSUME NEW x \in Recordings
      PROVE  After(p, x)
  <2>1. /\ SoundNext(x) /\ Told(x)
        /\ Expects(x, rec[x], attempts[x], language[x], job[p])
    BY <1>1, StillAfter
  <2>2. Expects(x, rec'[x], attempts'[x], language'[x], job'[p])
    BY <1>1, <2>1 DEF Expects, Still, SameFields
  <2> QED  BY <2>1, <2>2 DEF After
<1> QED  BY <1>2, AllShown

LEMMA SummaryRecovered ==
  ASSUME Inv, SummaryInv, NEW p \in Procs, Recover(p) \/ RunRecover(p)
  PROVE  Shown
<1>1. job[p] \in Job /\ job \in [Procs -> Job] /\ Step(p) /\ ~Finish(p) /\ RecoverInterruptions
  BY DEF Inv, TypeOK, Step, Recover, RunRecover, RecoverInterruptions, AtStage, Finish
<1>2. job'[p].pc \in {"next", "perform"} /\ job'[p].todo = {}
  <2>1. CASE Recover(p)
    <3>1. job[p].pc = "recover" /\ job[p].todo = {}
      BY <2>1, Running DEF Recover, JobOK
    <3>2. job'[p].pc \in {"next", "perform"} /\ job'[p].todo = job[p].todo
      BY <1>1, <2>1 DEF Recover, Goto, Job
    <3> QED  BY <3>1, <3>2
  <2>2. CASE RunRecover(p)
    BY <1>1, <2>2 DEF RunRecover, AtStage, EnterStage, Job
  <2> QED  BY <2>1, <2>2
<1>3. ASSUME NEW x \in Recordings
      PROVE  After(p, x)
  <2> DEFINE atts == attempts[x]
             new == RecoveredAttempts(atts)
             t == transcript[x]
             lang == language[x]
             s == summary[x]
             d == Default(x)
             ok == RecoveredStatus(x)
  <2>1. /\ rec[x] \in RecordingRow /\ atts \in Seq(Attempt) /\ d \in OutputLanguages
        /\ Sound(rec[x], atts, t, lang, d, s) /\ DOMAIN atts = 1..Len(atts) /\ Len(atts) \in Nat
    BY Defaults, LenProperties DEF Inv, TypeOK, SummaryInv, SoundNow
  <2>2. /\ rec'[x] = RecoveredRow(x) /\ attempts'[x] = new /\ transcript'[x] = t
        /\ summary'[x] = s /\ language'[x] = lang /\ NextDefault(x) = d
    BY <1>1, Defaults DEF RecoverInterruptions
  <2>3. /\ SameAttempts(atts, new)
        /\ \A i \in DOMAIN atts : new[i].outcome =
             IF atts[i].outcome = "running" THEN "interrupted" ELSE atts[i].outcome
    BY <2>1, RecoveryKeeps
  <2>4. ok \in RecordingRow /\ SameFields(rec[x], ok)
    BY <2>1 DEF RecoveredStatus, Transition, SameFields, RecordingRow, Status
  <2>5. IF \E i \in Unfinished(atts) : /\ atts[i].stage = "summarization"
                                       /\ atts[i].transcript = t /\ atts[i].language = d
        THEN RecoveredRow(x) = Derived(ok, new, t, d, s[d])
        ELSE RecoveredRow(x) = ok
    BY Zenon DEF RecoveredRow
  <2> HIDE DEF ok, new, t, s, d, lang, atts
  <2>6. Ancestry(new) /\ Provenance(new, t, s) /\ Pending(new, t, d) /\ Once(new, t, lang)
    <3>1. Ancestry(new) /\ Once(new, t, lang)
      BY <2>1, <2>3, SameKeeps DEF Sound
    <3> QED  BY <2>1, <2>3, <3>1 DEF Sound, Provenance, Pending, SameAttempts
  <2>7. d # NoLanguage
    BY <2>1, LanguageTypes
  <2>8. Sound(rec'[x], new, t, lang, d, s) /\ Told(x)
    <3>1. CASE \E i \in Unfinished(atts) : /\ atts[i].stage = "summarization"
                                           /\ atts[i].transcript = t /\ atts[i].language = d
      <4>1. PICK i \in Unfinished(atts) : /\ atts[i].stage = "summarization"
                                          /\ atts[i].transcript = t /\ atts[i].language = d
        BY <3>1
      <4>2. t # 0 /\ i \in DOMAIN atts /\ i > 0
        BY <2>1, <2>7, <4>1 DEF Sound, Ancestry, Unfinished
      <4>3. rec'[x] = Derived(ok, new, t, d, s[d])
        BY <2>2, <2>5, <3>1
      <4>4. /\ Faithful(rec'[x], new, t, d, s[d])
            /\ rec'[x].summaryStatus = "missing" <=>
                 s[d] = 0 /\ SummaryFailures(new, t, d, s[d]) = {}
        BY <2>4, <4>2, <4>3, DerivedFaithful
      <4>5. s[d] = 0 => i \in SummaryFailures(new, t, d, s[d])
        BY <2>3, <4>1, <4>2 DEF SummaryFailures, FailureOutcomes, SameAttempts, Unfinished
      <4>6. rec'[x].summaryStatus # "missing"
        BY <4>4, <4>5
      <4>7. Sound(rec'[x], new, t, lang, d, s)
        BY <2>1, <2>6, <4>4, <4>6 DEF Sound, Untried, Entered
      <4> QED  BY <2>2, <4>4, <4>7 DEF Told, FaithfulNext
    <3>2. CASE ~ \E i \in Unfinished(atts) : /\ atts[i].stage = "summarization"
                                             /\ atts[i].transcript = t /\ atts[i].language = d
      <4>1. rec'[x] = ok
        BY <2>2, <2>5, <3>2
      <4>2. SameFailures(atts, new, t, d)
        BY <2>3, <3>2 DEF SameFailures, SummaryFailures, FailureOutcomes, SameAttempts, Unfinished
      <4>3. ASSUME lang.by # "user", rec[x].summaryStatus = "missing", NEW i \in DOMAIN atts,
                   atts[i].automatic, atts[i].transcript = t
            PROVE  FALSE
        <5>1. atts[i].outcome = "running" /\ atts[i].language # NoLanguage
          BY <2>1, <4>3 DEF Sound, Untried, Ancestry
        <5>2. atts[i].language = d /\ atts[i].stage = "summarization"
          BY <2>1, <4>3, <5>1 DEF Sound, Pending, Ancestry
        <5> QED  BY <3>2, <4>3, <5>1, <5>2 DEF Unfinished
      <4>4. Untried(rec'[x], new, t, lang)
        BY <2>3, <2>4, <4>1, <4>3 DEF Untried, SameAttempts, SameFields
      <4>5. Entered(rec'[x], new, t, lang, d, s)
        BY <2>1, <2>4, <4>1, <4>2, FaithfulFrame DEF Sound, Entered
      <4>6. ~DefaultAttemptEnds(x)
        <5>1. \A i \in Unfinished(atts) : atts[i].language = d => atts[i].stage = "summarization"
          BY <2>1, <2>7 DEF Sound, Ancestry, Unfinished
        <5> QED  BY <3>2, <5>1 DEF DefaultAttemptEnds, atts, t, d
      <4>7. SameFields(rec[x], rec'[x])
        BY <2>4, <4>1
      <4>8. Told(x)
        BY <2>2, <4>2, <4>6, <4>7, ToldFrame DEF atts, t, d, s
      <4> QED  BY <2>6, <4>4, <4>5, <4>8 DEF Sound
    <3> QED  BY <3>1, <3>2
  <2>9. Expects(x, rec'[x], attempts'[x], language'[x], job'[p])
    BY <1>2 DEF Expects
  <2> QED  BY <2>2, <2>8, <2>9 DEF After, SoundNext
<1> QED  BY <1>1, <1>2, <1>3, AllShown

\* The row of a recording changes, but not what SummaryInv reads of it.
LEMMA TransitionSame ==
  ASSUME NEW row \in RecordingRow, NEW new
  PROVE  SameFields(row, Transition(row, new))
BY DEF SameFields, Transition, RecordingRow

LEMMA SummaryStages ==
  ASSUME Inv, SummaryInv, NEW p \in Procs,
         RunIngest(p) \/ SelectStage(p) \/ \E x \in Recordings : EnterRouting(p, x)
  PROVE  Shown
<1>1. /\ job[p] \in Job /\ job \in [Procs -> Job] /\ Step(p) /\ ~Finish(p)
      /\ rec \in [Recordings -> RecordingRow]
  BY DEF Inv, TypeOK, Step, RunIngest, SelectStage, EnterRouting, AtStage, Turn, Finish
<1>2. CASE RunIngest(p)
  <2>1. job'[p].pc = "next" /\ job'[p].todo = {}
    BY <1>1, <1>2 DEF RunIngest, AtStage, EnterStage, Job
  <2>2. \A x \in Recordings : SameFields(rec[x], rec'[x])
    <3>1. PICK S \in SUBSET {x \in Recordings : rec[x].status = "absent"} :
            rec' = [x \in Recordings |-> IF x \in S THEN [rec[x] EXCEPT !.status = "discovered"]
                                         ELSE rec[x]]
      BY <1>2 DEF RunIngest
    <3> QED  BY <1>1, <3>1 DEF SameFields, RecordingRow
  <2>3. \A x \in Recordings : Still(x)
    BY <1>2, <2>2 DEF RunIngest, Still
  <2> QED  BY <1>1, <2>1, <2>3, SummaryQuiet
<1>3. CASE SelectStage(p)
  <2>1. PICK st \in {"enter", "route", "transcribe", "summarize"} :
          AtStage(p, st) /\ EnterStage(p, st, {r \in Recordings : Eligible(st, r)})
    BY <1>3 DEF SelectStage
  <2>2. /\ job'[p].pc = "next" /\ job'[p].stage = st
        /\ job'[p].todo = {r \in Recordings : Eligible(st, r)}
    BY <1>1, <2>1 DEF AtStage, EnterStage, Job
  <2>3. UNCHANGED database
    BY <1>3 DEF SelectStage
  <2>4. \A x \in Recordings : Still(x)
    BY <2>3 DEF database, Still, SameFields
  <2>5. \A x \in job'[p].todo : job'[p].stage = "summarize" => rec'[x].summaryStatus = "missing"
    BY <2>2, <2>3 DEF Eligible, database
  <2> QED  BY <1>1, <2>2, <2>4, <2>5, SummaryQuiet
<1>4. CASE \E x \in Recordings : EnterRouting(p, x)
  <2>1. PICK x \in Recordings : EnterRouting(p, x)
    BY <1>4
  <2>2. /\ job'[p].pc = "next" /\ job'[p].stage = job[p].stage
        /\ job'[p].todo \subseteq job[p].todo
    BY <2>1, JobFields DEF EnterRouting, Inv
  <2>3. rec' = [rec EXCEPT ![x] = Transition(rec[x], "routing")]
        /\ UNCHANGED <<decision, attempts, transcript, language, summary>>
    BY <2>1 DEF EnterRouting
  <2>4. \A y \in Recordings : Still(y)
    BY <1>1, <2>3, TransitionSame DEF Still, SameFields
  <2> QED  BY <1>1, <2>2, <2>4, SummaryQuiet
<1> QED  BY <1>2, <1>3, <1>4

\* The commands on one recording change no summary, and what they take up is not
\* on the list of a batch.
LEMMA SummaryCommands ==
  ASSUME Inv, SummaryInv, NEW p \in Procs,
         \/ ManualRoute(p) \/ ConfirmRouting(p) \/ TranscribeCommand(p) \/ SummarizeCommand(p)
         \/ Retry(p) \/ ArchiveRecording(p) \/ RestoreRecording(p)
  PROVE  Shown
<1>1. job[p].pc = "perform" /\ job[p].cmd \notin Batches
  BY DEF ManualRoute, ConfirmRouting, TranscribeCommand, SummarizeCommand, Retry,
         ArchiveRecording, RestoreRecording, Performs, Batches
<1>2. PICK r \in Recordings : r = job[p].target
  BY <1>1, Performing
<1>3. /\ Step(p) /\ ~Finish(p) /\ rec \in [Recordings -> RecordingRow]
      /\ decision \in [Recordings -> Decision]
      /\ rec[r] \in RecordingRow /\ TypeOK /\ Unfinished(attempts[r]) = {}
  BY <1>1, <1>2, Performing DEF Step, Finish
<1>4. job'[p].pc = "next"
  <2>1. Done(p) \/ \E st, S, again : GoOn(p, st, S, again)
    BY Zenon DEF ManualRoute, ConfirmRouting, TranscribeCommand, SummarizeCommand, Retry,
         ArchiveRecording, RestoreRecording
  <2> QED  BY <1>3, <2>1, JobFields
<1>5. /\ UNCHANGED <<attempts, transcript, language, summary>>
      /\ \/ rec' = rec
         \/ rec' = [rec EXCEPT ![r] = [@ EXCEPT !.status = "ready", !.failureStage = "",
                                                !.retranscriptionFailed = FALSE]]
         \/ rec' = [rec EXCEPT ![r] = Transition(@, "routing")]
         \/ rec' = [rec EXCEPT ![r] = [@ EXCEPT !.status = "ready", !.failureStage = ""]]
         \/ \E b : rec' = [rec EXCEPT ![r] = [@ EXCEPT !.archived = b]]
  <2>1. CASE ManualRoute(p)
    BY <1>2, <2>1 DEF ManualRoute, RouteManually
  <2>2. CASE ConfirmRouting(p) \/ TranscribeCommand(p) \/ SummarizeCommand(p)
    BY <2>2 DEF ConfirmRouting, TranscribeCommand, SummarizeCommand, database
  <2>3. CASE Retry(p)
    BY <1>2, <2>3 DEF Retry
  <2>4. CASE ArchiveRecording(p) \/ RestoreRecording(p)
    BY <1>2, <2>4 DEF ArchiveRecording, RestoreRecording
  <2> QED  BY <2>1, <2>2, <2>3, <2>4
<1>6. ASSUME NEW w, SameFields(rec[r], w), rec' = [rec EXCEPT ![r] = w]
      PROVE  \A x \in Recordings : SameFields(rec[x], rec'[x])
  BY <1>3, <1>6 DEF SameFields
<1>7. \A x \in Recordings : SameFields(rec[x], rec'[x])
  <2>1. CASE rec' = rec
    BY <2>1 DEF SameFields
  <2>2. CASE rec' = [rec EXCEPT ![r] = [@ EXCEPT !.status = "ready", !.failureStage = "",
                                                !.retranscriptionFailed = FALSE]]
    <3>1. SameFields(rec[r], [rec[r] EXCEPT !.status = "ready", !.failureStage = "",
                                            !.retranscriptionFailed = FALSE])
      BY <1>3 DEF SameFields, RecordingRow
    <3> QED  BY <1>6, <2>2, <3>1
  <2>3. CASE rec' = [rec EXCEPT ![r] = Transition(@, "routing")]
    BY <1>3, <1>6, <2>3, TransitionSame
  <2>4. CASE rec' = [rec EXCEPT ![r] = [@ EXCEPT !.status = "ready", !.failureStage = ""]]
    <3>1. SameFields(rec[r], [rec[r] EXCEPT !.status = "ready", !.failureStage = ""])
      BY <1>3 DEF SameFields, RecordingRow
    <3> QED  BY <1>6, <2>4, <3>1
  <2>5. CASE \E b : rec' = [rec EXCEPT ![r] = [@ EXCEPT !.archived = b]]
    <3>1. PICK b : rec' = [rec EXCEPT ![r] = [@ EXCEPT !.archived = b]]
      BY <2>5
    <3>2. SameFields(rec[r], [rec[r] EXCEPT !.archived = b])
      BY <1>3 DEF SameFields, RecordingRow
    <3> QED  BY <1>6, <3>1, <3>2
  <2> QED  BY <1>5, <2>1, <2>2, <2>3, <2>4, <2>5
<1>8. \A x \in Recordings \ {r} : decision'[x] = decision[x]
  <2>1. \/ decision' = decision
        \/ \E d : decision' = [decision EXCEPT ![r] = d]
    BY <1>2 DEF ManualRoute, RouteManually, ConfirmRouting, TranscribeCommand, SummarizeCommand,
         Retry, ArchiveRecording, RestoreRecording, database
  <2> QED  BY <1>3, <2>1
<1>9. \A x \in Recordings : Still(x)
  BY <1>3, <1>5, <1>7, <1>8 DEF Still
<1> QED  BY <1>1, <1>3, <1>4, <1>9, SummaryQuiet

\* The recording the process works on, or is about to: what is known of it.
AtHand(p, r) ==
  /\ TypeOK /\ rec[r] \in RecordingRow /\ attempts[r] \in Seq(Attempt)
  /\ transcript[r] \in Nat /\ Default(r) \in OutputLanguages
  /\ rec \in [Recordings -> RecordingRow] /\ decision \in [Recordings -> Decision]
  /\ attempts \in [Recordings -> Seq(Attempt)] /\ transcript \in [Recordings -> Nat]
  /\ language \in [Recordings -> TranscriptLanguage]
  /\ summary \in [Recordings -> [OutputLanguages -> Nat]]
  /\ Sound(rec[r], attempts[r], transcript[r], language[r], Default(r), summary[r])
  /\ Expects(r, rec[r], attempts[r], language[r], job[p]) /\ Directed(job[p])
  /\ job[p].pc \notin {"routing", "transcribing", "detecting", "summarizing"} =>
       Unfinished(attempts[r]) = {}

LEMMA AtTurn ==
  ASSUME Inv, SummaryInv, NEW p \in Procs, NEW st, NEW r \in Recordings, Turn(p, st, r)
  PROVE  /\ job[p].pc = "next" /\ job[p].stage = st /\ r \in job[p].todo /\ job[p].target = None
         /\ AtHand(p, r) /\ Unfinished(attempts[r]) = {}
<1>1. job[p].pc = "next" /\ job[p].stage = st /\ r \in job[p].todo
  BY DEF Turn
<1>2. lock = p /\ p # None /\ job[p].target = None /\ Held(r, rec[r], attempts[r], job[p])
  BY <1>1, Running DEF JobOK
<1>3. Unfinished(attempts[r]) = {}
  BY <1>1, <1>2, HeldQuiet
<1> QED  BY <1>1, <1>2, <1>3, Defaults DEF SummaryInv, SoundNow, Inv, TypeOK, AtHand

\* An attempt a with which the process begins to work on recording r.
LEMMA OpenedAfter ==
  ASSUME NEW p \in Procs, NEW r \in Recordings, NEW a \in Attempt, AtHand(p, r),
         attempts'[r] = Append(attempts[r], a),
         Fit(a, attempts[r], transcript[r], language[r], Default(r)),
         UNCHANGED <<rec, decision, transcript, language, summary>>,
         r \notin job'[p].todo,
         IF a.language = NoLanguage
         THEN /\ job'[p].pc \in {"routing", "transcribing", "detecting"}
              /\ job'[p].pc = "detecting" =>
                   language[r].language = NoLanguage /\ a.stage = "summarization"
         ELSE job'[p].pc = "summarizing"
  PROVE  After(p, r)
<1> DEFINE atts == attempts[r]
           t == transcript[r]
           d == Default(r)
<1>1. /\ rec[r] \in RecordingRow /\ atts \in Seq(Attempt) /\ t \in Nat /\ d \in OutputLanguages
      /\ Sound(rec[r], atts, t, language[r], d, summary[r])
      /\ NextDefault(r) = d
  BY Defaults DEF AtHand
<1>2. /\ Sound(rec[r], attempts'[r], t, language[r], d, summary[r])
      /\ SameFailures(atts, attempts'[r], t, d)
  <2>1. Fit(a, atts, t, language[r], d) /\ attempts'[r] = Append(atts, a)
    OBVIOUS
  <2> HIDE DEF atts, t, d
  <2>2. /\ Sound(rec[r], Append(atts, a), t, language[r], d, summary[r])
        /\ SameFailures(atts, Append(atts, a), t, d)
    BY <1>1, <2>1, OpenAny
  <2> QED  BY <2>1, <2>2
<1>3. /\ attempts'[r][Len(attempts'[r])] = a
      /\ \A i \in DOMAIN atts : attempts'[r][i] = atts[i]
  BY <1>1, AppendKeeps
<1>4. ~DefaultAttemptEnds(r)
  BY <1>3 DEF DefaultAttemptEnds, Unfinished
<1>5. Told(r)
  BY <1>2, <1>4, ToldFrame DEF SameFields
<1>6. Expects(r, rec'[r], attempts'[r], language'[r], job'[p])
  BY <1>3 DEF Expects, Fit
<1> QED  BY <1>1, <1>2, <1>5, <1>6 DEF After, SoundNext

LEMMA SummaryRouteOne ==
  ASSUME Inv, SummaryInv, NEW p \in Procs, NEW r \in Recordings, RouteOne(p, r)
  PROVE  Shown
<1>1. /\ Turn(p, "route", r) /\ Step(p) /\ ~Finish(p)
  BY DEF RouteOne, Step, Finish, Turn
<1>2. /\ job[p].pc = "next" /\ job[p].target = None
      /\ AtHand(p, r) /\ Unfinished(attempts[r]) = {}
  BY <1>1, AtTurn
<1>3. TypeOK /\ rec[r] \in RecordingRow /\ rec \in [Recordings -> RecordingRow]
      /\ attempts \in [Recordings -> Seq(Attempt)] /\ decision \in [Recordings -> Decision]
  BY <1>2 DEF AtHand
<1>4. CASE UNCHANGED database /\ Leave(p, r)
  <2>1. \A x \in Recordings : Still(x)
    BY <1>4 DEF database, Still, SameFields
  <2>2. /\ job'[p].pc = "next" /\ job'[p].stage = job[p].stage
        /\ job'[p].todo \subseteq job[p].todo
    BY <1>3, <1>4, JobFields
  <2> QED  BY <1>1, <2>1, <2>2, SummaryQuiet
<1>5. CASE /\ Decide(r, None, FALSE, FALSE) /\ Leave(p, r)
           /\ UNCHANGED <<attempts, transcript, language, summary>>
  <2>1. \A x \in Recordings : Still(x)
    BY <1>2, <1>3, <1>5, TransitionSame DEF Decide, Still, SameFields
  <2>2. /\ job'[p].pc = "next" /\ job'[p].stage = job[p].stage
        /\ job'[p].todo \subseteq job[p].todo
    BY <1>3, <1>5, JobFields
  <2> QED  BY <1>1, <2>1, <2>2, SummaryQuiet
<1>6. CASE /\ attempts' = [attempts EXCEPT ![r] =
                Append(@, NewAttempt("routing", 0, NoLanguage, FALSE))]
           /\ TakeUp(p, r, "routing") /\ UNCHANGED <<rec, decision, transcript, language, summary>>
  <2> DEFINE a == NewAttempt("routing", 0, NoLanguage, FALSE)
  <2>1. /\ a \in Attempt /\ a.outcome = "running" /\ a.transcript = 0
        /\ a.automatic = FALSE /\ a.language = NoLanguage
    BY DEF NewAttempt, Attempt, Stages, Outcomes
  <2>2. attempts'[r] = Append(attempts[r], a)
    BY <1>3, <1>6
  <2> HIDE DEF a
  <2>3. /\ job'[p].pc = "routing" /\ job'[p].target = r /\ job'[p].stage = job[p].stage
        /\ job'[p].todo = job[p].todo \ {r}
    BY <1>3, <1>6, JobFields
  <2>4. \A x \in Recordings \ {r} : Still(x)
    BY <1>3, <1>6 DEF Still, SameFields
  <2>5. UNCHANGED <<rec, decision, transcript, language, summary>>
    BY <1>6
  <2>6. After(p, r)
    BY <1>2, <2>1, <2>2, <2>3, <2>5, OpenedAfter DEF Fit
  <2> QED  BY <1>1, <1>2, <2>3, <2>4, <2>6, SummaryOne
<1> QED  BY <1>4, <1>5, <1>6 DEF RouteOne

LEMMA SummaryTranscribeOne ==
  ASSUME Inv, SummaryInv, NEW p \in Procs, NEW r \in Recordings, TranscribeOne(p, r)
  PROVE  Shown
<1>1. /\ Step(p) /\ ~Finish(p) /\ rec \in [Recordings -> RecordingRow] /\ TypeOK
  BY DEF TranscribeOne, Step, Finish, Turn, Inv, TypeOK
<1>2. rec' = rec \/ rec' = [rec EXCEPT ![r] = Transition(@, "transcribing")]
  BY DEF TranscribeOne
<1>3. \A x \in Recordings : SameFields(rec[x], rec'[x])
  BY <1>1, <1>2, TransitionSame DEF SameFields
<1>4. \A x \in Recordings : Still(x)
  BY <1>3 DEF TranscribeOne, Still
<1>5. /\ job'[p].pc \in {"next", "claimed"} /\ job'[p].stage = job[p].stage
      /\ job'[p].todo \subseteq job[p].todo
  <2>1. Leave(p, r) \/ TakeUp(p, r, "claimed")
    BY DEF TranscribeOne
  <2> QED  BY <1>1, <2>1, JobFields
<1> QED  BY <1>1, <1>4, <1>5, SummaryQuiet

\* The summary begins, in the language asked for.
LEMMA BegunAfter ==
  ASSUME NEW p \in Procs, NEW r \in Recordings, AtHand(p, r), Unfinished(attempts[r]) = {},
         BeginSummary(p, r, Requested(r, job[p].selector)),
         UNCHANGED <<rec, decision, transcript, language, summary>>,
         r \notin job'[p].todo, job'[p].pc = "summarizing",
         job[p].cmd \in Batches => rec[r].summaryStatus = "missing"
  PROVE  After(p, r) /\ \A x \in Recordings \ {r} : Still(x)
<1>1. /\ TypeOK /\ transcript[r] # 0 /\ attempts[r] \in Seq(Attempt)
      /\ attempts \in [Recordings -> Seq(Attempt)] /\ Default(r) \in OutputLanguages
      /\ Sound(rec[r], attempts[r], transcript[r], language[r], Default(r), summary[r])
      /\ Directed(job[p])
  BY DEF AtHand, BeginSummary, CanSummarize
<1>2. PICK a \in Attempt :
        /\ a.stage = "summarization" /\ a.outcome = "running"
        /\ a.transcript = transcript[r] /\ a.language = Requested(r, job[p].selector)
        /\ a.automatic = (job[p].cmd \in Batches)
        /\ attempts' = [attempts EXCEPT ![r] = Append(@, a)]
  BY <1>1, Begun
<1>3. a.language # NoLanguage
  BY <1>1, <1>2, Begun, LanguageTypes
<1>4. attempts'[r] = Append(attempts[r], a)
      /\ \A x \in Recordings \ {r} : attempts'[x] = attempts[x]
  BY <1>1, <1>2
<1>5. a.automatic =>
        /\ a.language = Default(r)
        /\ Permits(attempts[r], transcript[r], language[r], Default(r))
  <2> SUFFICES ASSUME job[p].cmd \in Batches
               PROVE  /\ a.language = Default(r)
                      /\ Permits(attempts[r], transcript[r], language[r], Default(r))
    BY <1>2, Zenon
  <2>1. a.language = Default(r)
    BY <1>1, <1>2 DEF Directed, Requested
  <2>2. rec[r].summaryStatus = "missing"
    OBVIOUS
  <2> QED  BY <1>1, <2>1, <2>2, MissingMeansUntried
<1>6. After(p, r)
  <2>1. Fit(a, attempts[r], transcript[r], language[r], Default(r))
    BY <1>1, <1>2, <1>3, <1>5, Zenon DEF Fit
  <2> QED  BY <1>3, <1>4, <2>1, OpenedAfter
<1>7. \A x \in Recordings \ {r} : Still(x)
  BY <1>4 DEF Still, SameFields
<1> QED  BY <1>6, <1>7

LEMMA SummarySummarizeOne ==
  ASSUME Inv, SummaryInv, NEW p \in Procs, NEW r \in Recordings, SummarizeOne(p, r)
  PROVE  Shown
<1>1. /\ Turn(p, "summarize", r) /\ Step(p) /\ ~Finish(p)
      /\ UNCHANGED <<rec, decision, transcript, language, summary>>
  BY DEF SummarizeOne, Step, Finish, Turn
<1>2. /\ job[p].pc = "next" /\ job[p].target = None /\ job[p].stage = "summarize"
      /\ r \in job[p].todo /\ AtHand(p, r) /\ Unfinished(attempts[r]) = {}
  BY <1>1, AtTurn
<1>3. /\ TypeOK /\ attempts \in [Recordings -> Seq(Attempt)] /\ Directed(job[p])
      /\ job[p].selector \in Selectors
      /\ job[p].cmd \in Batches => rec[r].summaryStatus = "missing"
  <2>1. Expects(r, rec[r], attempts[r], language[r], job[p]) /\ TypeOK
    BY <1>2 DEF AtHand
  <2> QED  BY <1>2, <2>1 DEF AtHand, Expects, TypeOK, Job
<1>4. CASE Leave(p, r) /\ UNCHANGED attempts
  <2>1. \A x \in Recordings : Still(x)
    BY <1>1, <1>4 DEF Still, SameFields
  <2>2. /\ job'[p].pc = "next" /\ job'[p].stage = job[p].stage
        /\ job'[p].todo \subseteq job[p].todo
    BY <1>3, <1>4, JobFields
  <2> QED  BY <1>1, <2>1, <2>2, SummaryQuiet
<1>5. CASE /\ Requested(r, job[p].selector) = NoLanguage /\ TakeUp(p, r, "detecting")
           /\ attempts' = [attempts EXCEPT ![r] =
                Append(@, NewAttempt("summarization", 0, NoLanguage, FALSE))]
  <2> DEFINE a == NewAttempt("summarization", 0, NoLanguage, FALSE)
  <2>1. /\ a \in Attempt /\ a.outcome = "running" /\ a.transcript = 0
        /\ a.automatic = FALSE /\ a.language = NoLanguage /\ a.stage = "summarization"
    BY DEF NewAttempt, Attempt, Stages, Outcomes
  <2>2. attempts'[r] = Append(attempts[r], a)
    BY <1>3, <1>5
  <2> HIDE DEF a
  <2>3. /\ job'[p].pc = "detecting" /\ job'[p].target = r /\ job'[p].stage = job[p].stage
        /\ job'[p].todo = job[p].todo \ {r}
    BY <1>3, <1>5, JobFields
  <2>4. language[r].language = NoLanguage /\ job[p].cmd \notin Batches
    <3>1. language[r].language = NoLanguage
      BY <1>3, <1>5, RequestedType, LanguageTypes
    <3>2. job[p].selector # "default"
      BY <1>5, Defaults, LanguageTypes DEF Requested
    <3> QED  BY <1>3, <3>1, <3>2 DEF Directed
  <2>5. \A x \in Recordings \ {r} : Still(x)
    BY <1>1, <1>3, <1>5 DEF Still, SameFields
  <2>6. After(p, r)
    BY <1>1, <1>2, <2>1, <2>2, <2>3, <2>4, OpenedAfter DEF Fit
  <2> QED  BY <1>1, <1>2, <2>3, <2>4, <2>5, <2>6, SummaryOne
<1>6. CASE BeginSummary(p, r, Requested(r, job[p].selector)) /\ TakeUp(p, r, "summarizing")
  <2>1. /\ job'[p].pc = "summarizing" /\ job'[p].target = r /\ job'[p].stage = job[p].stage
        /\ job'[p].todo = job[p].todo \ {r}
    BY <1>3, <1>6, JobFields
  <2>2. After(p, r) /\ \A x \in Recordings \ {r} : Still(x)
    BY <1>1, <1>2, <1>3, <1>6, <2>1, BegunAfter
  <2> QED  BY <1>1, <1>2, <2>1, <2>2, SummaryOne
<1> QED  BY <1>4, <1>5, <1>6 DEF SummarizeOne

\* The recording the process is busy with.
LEMMA AtWork ==
  ASSUME Inv, SummaryInv, NEW p \in Procs, job[p].pc \in Busy \cup {"perform"},
         NEW r \in Recordings, r = job[p].target
  PROVE  /\ r \notin job[p].todo /\ AtHand(p, r)
         /\ job[p].pc \in {"routing", "transcribing", "detecting", "summarizing"} =>
              Len(attempts[r]) # 0
         /\ \A i \in Unfinished(attempts[r]) : i = Len(attempts[r])
<1>1. /\ lock = p /\ p # None /\ r \notin job[p].todo
      /\ job[p].pc # "recover" /\ job[p].pc # "idle" /\ TypeOK
  BY Running DEF JobOK, Busy, Inv
<1>2. Held(r, rec[r], attempts[r], job[p])
  BY <1>1, Running
<1>3. job[p].pc \notin {"routing", "transcribing", "detecting", "summarizing"} =>
        Unfinished(attempts[r]) = {}
  BY <1>2, HeldQuiet
<1>4. /\ job[p].pc \in {"routing", "transcribing", "detecting", "summarizing"} =>
           Len(attempts[r]) # 0
      /\ \A i \in Unfinished(attempts[r]) : i = Len(attempts[r])
  BY <1>2, WorkingStages DEF Held
<1> QED  BY <1>1, <1>3, <1>4, Defaults DEF SummaryInv, SoundNow, TypeOK, AtHand

LEMMA Target ==
  ASSUME Inv, NEW p \in Procs, job[p].pc \in Busy \cup {"perform"}
  PROVE  \E r \in Recordings : r = job[p].target
BY Running DEF JobOK, Busy

\* An attempt that names no language ends; the row changes, but not its summary
\* fields.
LEMMA SummaryOtherEnds ==
  ASSUME Inv, SummaryInv, NEW p \in Procs,
         \/ RoutingFails(p) \/ RoutingSucceeds(p) \/ TranscriptionFails(p)
         \/ DetectionFails(p) \/ DetectionSucceeds(p)
  PROVE  Shown
<1>1. job[p].pc \in {"routing", "transcribing", "detecting"} /\ Step(p) /\ ~Finish(p)
  BY DEF RoutingFails, RoutingSucceeds, TranscriptionFails, DetectionFails, DetectionSucceeds,
         Step, Finish
<1>2. PICK r \in Recordings : r = job[p].target
  BY <1>1, Target DEF Busy
<1>3. /\ r \notin job[p].todo /\ AtHand(p, r)
  BY <1>1, <1>2, AtWork DEF Busy
<1>4. /\ TypeOK /\ rec[r] \in RecordingRow /\ attempts[r] \in Seq(Attempt)
      /\ rec \in [Recordings -> RecordingRow] /\ attempts \in [Recordings -> Seq(Attempt)]
      /\ Default(r) \in OutputLanguages
      /\ Sound(rec[r], attempts[r], transcript[r], language[r], Default(r), summary[r])
      /\ attempts[r][Len(attempts[r])].language = NoLanguage
      /\ job[p].pc = "detecting" => language[r].language = NoLanguage /\ job[p].cmd \notin Batches
  <2>1. Expects(r, rec[r], attempts[r], language[r], job[p]) /\ Directed(job[p])
    BY <1>3 DEF AtHand
  <2>2. /\ attempts[r][Len(attempts[r])].language = NoLanguage
        /\ job[p].pc = "detecting" => language[r].language = NoLanguage
    BY <1>1, <1>2, <2>1 DEF Expects
  <2>3. job[p].pc = "detecting" => job[p].cmd \notin Batches
    BY <2>1 DEF Directed
  <2> QED  BY <1>3, <2>2, <2>3 DEF AtHand
<1>5. PICK o \in {"success", "failed"} :
        attempts' = [attempts EXCEPT ![r] = FinishAttempt(@, o)]
  BY <1>2 DEF RoutingFails, RoutingSucceeds, TranscriptionFails, DetectionFails,
              DetectionSucceeds
<1>6. UNCHANGED <<decision, transcript, language, summary>>
  BY DEF RoutingFails, RoutingSucceeds, TranscriptionFails, DetectionFails, DetectionSucceeds
<1>7. SameFields(rec[r], rec'[r]) /\ \A x \in Recordings \ {r} : rec'[x] = rec[x]
  <2>1. \A st, has, i : SameFields(rec[r], RecordFailure(rec[r], st, has, i))
    BY <1>4 DEF SameFields, RecordFailure, RecordingRow
  <2>2. \/ rec' = rec
        \/ \E st, has, i : rec' = [rec EXCEPT ![r] = RecordFailure(rec[r], st, has, i)]
    <3>1. CASE RoutingFails(p)
      BY <1>2, <3>1 DEF RoutingFails
    <3>2. CASE RoutingSucceeds(p) \/ DetectionFails(p) \/ DetectionSucceeds(p)
      BY <3>2 DEF RoutingSucceeds, DetectionFails, DetectionSucceeds
    <3>3. CASE TranscriptionFails(p)
      BY <1>2, <3>3 DEF TranscriptionFails
    <3> QED  BY <3>1, <3>2, <3>3
  <2> QED  BY <1>4, <2>1, <2>2 DEF SameFields
<1>8. attempts'[r] = FinishAttempt(attempts[r], o) /\ o \in Outcomes \ {"running"}
  BY <1>4, <1>5 DEF Outcomes
<1>9. /\ Sound(rec'[r], attempts'[r], transcript[r], language[r], Default(r), summary[r])
      /\ SameFailures(attempts[r], attempts'[r], transcript[r], Default(r))
  BY <1>4, <1>7, <1>8, FinishOther
<1>10. ~DefaultAttemptEnds(r)
  <2>1. \A i \in DOMAIN attempts[r] : attempts'[r][i].outcome # attempts[r][i].outcome =>
          i = Len(attempts[r])
    BY <1>4, <1>8, FinishKeeps
  <2> QED  BY <1>4, <2>1, LanguageTypes DEF DefaultAttemptEnds, Unfinished
<1>11. NextDefault(r) = Default(r)
  BY <1>6, Defaults
<1>12. /\ job'[p].pc \in {"next", "outcome", "detected"} /\ job'[p].target \in {r, None}
       /\ job'[p].stage = job[p].stage /\ job'[p].todo = job[p].todo
       /\ job'[p].pc = "detected" => job[p].pc = "detecting"
  <2>1. \/ Done(p) \/ Goto(p, "outcome")
        \/ Goto(p, "detected") /\ job[p].pc = "detecting"
    BY DEF RoutingFails, RoutingSucceeds, TranscriptionFails, DetectionFails, DetectionSucceeds
  <2> QED  BY <1>2, <1>4, <2>1, JobFields
<1>13. After(p, r)
  <2>1. Told(r)
    BY <1>6, <1>7, <1>9, <1>10, ToldFrame
  <2>2. Expects(r, rec'[r], attempts'[r], language'[r], job'[p])
    BY <1>3, <1>4, <1>6, <1>12 DEF Expects
  <2> QED  BY <1>6, <1>9, <1>11, <2>1, <2>2 DEF After, SoundNext
<1>14. \A x \in Recordings \ {r} : Still(x)
  BY <1>4, <1>5, <1>6, <1>7 DEF Still, SameFields
<1> QED  BY <1>1, <1>2, <1>4, <1>12, <1>13, <1>14, SummaryOne

LEMMA SummaryApplyOutcome ==
  ASSUME Inv, SummaryInv, NEW p \in Procs, ApplyOutcome(p)
  PROVE  Shown
<1>1. job[p].pc = "outcome" /\ Step(p) /\ ~Finish(p)
  BY DEF ApplyOutcome, Step, Finish
<1>2. PICK r \in Recordings : r = job[p].target
  BY <1>1, Target DEF Busy
<1>3. /\ TypeOK /\ rec \in [Recordings -> RecordingRow] /\ decision \in [Recordings -> Decision]
      /\ Unfinished(attempts[r]) = {}
  BY <1>1, <1>2, AtWork DEF Busy, AtHand
<1>4. PICK new, d : /\ rec' = [rec EXCEPT ![r] = Transition(rec[r], new)]
                    /\ decision' = [decision EXCEPT ![r] = d]
  BY <1>2 DEF ApplyOutcome, Decide
<1>5. \A x \in Recordings : Still(x)
  BY <1>3, <1>4, TransitionSame DEF ApplyOutcome, Still, SameFields
<1>6. job'[p].pc = "next" /\ job'[p].stage = job[p].stage /\ job'[p].todo = job[p].todo
  BY <1>3, JobFields DEF ApplyOutcome
<1> QED  BY <1>1, <1>5, <1>6, SummaryQuiet

LEMMA SummaryBeginTranscription ==
  ASSUME Inv, SummaryInv, NEW p \in Procs, BeginTranscription(p)
  PROVE  Shown
<1> DEFINE a == NewAttempt("transcription", 0, NoLanguage, FALSE)
<1>1. job[p].pc = "claimed" /\ Step(p) /\ ~Finish(p)
      /\ UNCHANGED <<rec, decision, transcript, language, summary>>
  BY DEF BeginTranscription, Step, Finish
<1>2. PICK r \in Recordings : r = job[p].target
  BY <1>1, Target DEF Busy
<1>3. r \notin job[p].todo /\ AtHand(p, r)
  BY <1>1, <1>2, AtWork DEF Busy
<1>4. TypeOK /\ attempts \in [Recordings -> Seq(Attempt)]
  BY <1>3 DEF AtHand
<1>5. /\ a \in Attempt /\ a.outcome = "running" /\ a.transcript = 0
      /\ a.automatic = FALSE /\ a.language = NoLanguage
  BY DEF NewAttempt, Attempt, Stages, Outcomes
<1>6. attempts' = [attempts EXCEPT ![r] = Append(attempts[r], a)]
  BY <1>2 DEF BeginTranscription
<1> HIDE DEF a
<1>7. attempts'[r] = Append(attempts[r], a) /\ \A x \in Recordings \ {r} : Still(x)
  BY <1>1, <1>4, <1>6 DEF Still, SameFields
<1>8. /\ job'[p].pc = "transcribing" /\ job'[p].target = r
      /\ job'[p].stage = job[p].stage /\ job'[p].todo = job[p].todo
  BY <1>2, <1>4, JobFields DEF BeginTranscription
<1>9. After(p, r)
  BY <1>1, <1>3, <1>5, <1>7, <1>8, OpenedAfter DEF Fit
<1> QED  BY <1>1, <1>2, <1>7, <1>8, <1>9, SummaryOne

\* The language a model reports changes the default, and no field.
LEMMA SummaryStoresLanguage ==
  ASSUME Inv, SummaryInv, NEW p \in Procs, StoreDetectedLanguage(p) \/ StoreReportedLanguage(p)
  PROVE  Shown
<1>1. /\ job[p].pc \in {"detected", "persisted"} /\ Step(p) /\ ~Finish(p)
      /\ UNCHANGED <<rec, decision, attempts, transcript, summary>>
  BY DEF StoreDetectedLanguage, StoreReportedLanguage, Step, Finish
<1>2. PICK r \in Recordings : r = job[p].target
  BY <1>1, Target DEF Busy
<1>3. r \notin job[p].todo /\ AtHand(p, r) /\ Unfinished(attempts[r]) = {}
  BY <1>1, <1>2, AtWork DEF Busy, AtHand
<1> DEFINE atts == attempts[r]
           t == transcript[r]
           d == Default(r)
<1>4. /\ TypeOK /\ language \in [Recordings -> TranscriptLanguage]
      /\ Sound(rec[r], atts, t, language[r], d, summary[r])
      /\ Expects(r, rec[r], atts, language[r], job[p]) /\ Directed(job[p])
  BY <1>3 DEF AtHand
<1>5. language[r].language = NoLanguage /\ language[r].by # "user"
      /\ (job[p].pc = "detected" => job[p].cmd \notin Batches)
  BY <1>1, <1>2, <1>4 DEF Expects, Sound, Entered, Directed
<1>6. /\ language'[r].by # "user"
      /\ \A x \in Recordings \ {r} : language'[x] = language[x]
  <2>1. \/ language' = language
        \/ \E l \in SourceLanguages :
             language' = [language EXCEPT ![r] = [language |-> l, by |-> "llm_detection"]]
    BY <1>2, Zenon DEF StoreDetectedLanguage, StoreReportedLanguage
  <2>2. CASE language' = language
    BY <1>5, <2>2
  <2>3. ASSUME NEW l \in SourceLanguages,
               language' = [language EXCEPT ![r] = [language |-> l, by |-> "llm_detection"]]
        PROVE  /\ language'[r].by # "user"
               /\ \A x \in Recordings \ {r} : language'[x] = language[x]
    BY <1>4, <2>3
  <2> QED  BY <2>1, <2>2, <2>3
<1> HIDE DEF atts, t, d
<1>7. SoundNext(r)
  <2>1. Pending(atts, t, NextDefault(r))
    BY <1>3 DEF Pending, Unfinished, atts
  <2>2. Once(atts, t, language'[r])
    BY <1>4, <1>5 DEF Sound, Once
  <2>3. Untried(rec[r], atts, t, language'[r])
    BY <1>4, <1>5 DEF Sound, Untried
  <2>4. Entered(rec[r], atts, t, language'[r], NextDefault(r), summary[r])
    BY <1>6 DEF Entered
  <2>5. Sound(rec[r], atts, t, language'[r], NextDefault(r), summary[r])
    BY <1>4, <2>1, <2>2, <2>3, <2>4 DEF Sound
  <2> QED  BY <1>1, <2>5 DEF SoundNext, atts, t
<1>8. Told(r)
  <2>1. ~DefaultAttemptEnds(r)
    BY <1>3 DEF DefaultAttemptEnds
  <2> QED  BY <1>1, <2>1, ToldFrame DEF SameFields, SameFailures
<1>9. /\ job'[p].pc \in {"next", "resolved"} /\ job'[p].target \in {r, None}
      /\ job'[p].stage = job[p].stage /\ job'[p].todo = job[p].todo
      /\ job'[p].pc = "resolved" => job[p].pc = "detected"
  <2>1. Done(p) \/ (Goto(p, "resolved") /\ job[p].pc = "detected")
    BY Zenon DEF StoreDetectedLanguage, StoreReportedLanguage
  <2> QED  BY <1>2, <1>4, <2>1, JobFields
<1>10. After(p, r)
  <2>1. Expects(r, rec'[r], attempts'[r], language'[r], job'[p])
    BY <1>3, <1>9 DEF Expects
  <2> QED  BY <1>7, <1>8, <2>1 DEF After
<1>11. \A x \in Recordings \ {r} : Still(x)
  BY <1>1, <1>6 DEF Still, SameFields
<1> QED  BY <1>1, <1>2, <1>5, <1>9, <1>10, <1>11, SummaryOne

LEMMA SummarySummarizeDetected ==
  ASSUME Inv, SummaryInv, NEW p \in Procs, SummarizeDetected(p)
  PROVE  Shown
<1>1. /\ job[p].pc = "resolved" /\ Step(p) /\ ~Finish(p)
      /\ UNCHANGED <<rec, decision, transcript, language, summary>>
  BY DEF SummarizeDetected, Step, Finish
<1>2. PICK r \in Recordings : r = job[p].target
  BY <1>1, Target DEF Busy
<1>3. r \notin job[p].todo /\ AtHand(p, r) /\ Unfinished(attempts[r]) = {}
  BY <1>1, <1>2, AtWork DEF Busy, AtHand
<1>4. TypeOK /\ job[p].cmd \notin Batches
  BY <1>1, <1>3 DEF AtHand, Directed
<1>5. CASE Done(p) /\ UNCHANGED attempts
  <2>1. \A x \in Recordings : Still(x)
    BY <1>1, <1>5 DEF Still, SameFields
  <2>2. /\ job'[p].pc = "next" /\ job'[p].stage = job[p].stage /\ job'[p].todo = job[p].todo
    BY <1>4, <1>5, JobFields
  <2> QED  BY <1>1, <2>1, <2>2, SummaryQuiet
<1>6. CASE BeginSummary(p, r, Requested(r, job[p].selector)) /\ Goto(p, "summarizing")
  <2>1. /\ job'[p].pc = "summarizing" /\ job'[p].target = r /\ job'[p].stage = job[p].stage
        /\ job'[p].todo = job[p].todo
    BY <1>2, <1>4, <1>6, JobFields
  <2>2. After(p, r) /\ \A x \in Recordings \ {r} : Still(x)
    BY <1>1, <1>3, <1>4, <1>6, <2>1, BegunAfter
  <2> QED  BY <1>1, <1>2, <2>1, <2>2, SummaryOne
<1> QED  BY <1>2, <1>5, <1>6 DEF SummarizeDetected

\* No attempt has summarized the new transcript, which is younger than them all.
LEMMA SummaryTranscriptionSucceeds ==
  ASSUME Inv, SummaryInv, NEW p \in Procs, TranscriptionSucceeds(p)
  PROVE  Shown
<1>1. job[p].pc = "transcribing" /\ Step(p) /\ ~Finish(p)
  BY DEF TranscriptionSucceeds, Step, Finish
<1>2. PICK r \in Recordings : r = job[p].target
  BY <1>1, Target DEF Busy
<1> DEFINE atts == attempts[r]
           n == Len(atts)
           new == FinishAttempt(atts, "success")
           e == NextDefault(r)
<1>3. /\ r \notin job[p].todo /\ AtHand(p, r) /\ n # 0
      /\ \A i \in Unfinished(atts) : i = n
  BY <1>1, <1>2, AtWork DEF Busy
<1>4. /\ TypeOK /\ rec[r] \in RecordingRow /\ atts \in Seq(Attempt) /\ n \in Nat
      /\ rec \in [Recordings -> RecordingRow] /\ attempts \in [Recordings -> Seq(Attempt)]
      /\ transcript \in [Recordings -> Nat] /\ language \in [Recordings -> TranscriptLanguage]
      /\ summary \in [Recordings -> [OutputLanguages -> Nat]]
      /\ Sound(rec[r], atts, transcript[r], language[r], Default(r), summary[r])
      /\ DOMAIN atts = 1..n /\ "success" \in Outcomes
  BY <1>3, LenProperties DEF AtHand, Outcomes
<1>5. /\ rec'[r].summaryStatus = "missing" /\ rec'[r].resummarizationFailed = FALSE
      /\ attempts'[r] = new /\ transcript'[r] = n /\ language'[r] = Unobserved
      /\ summary'[r] = NoSummaries
      /\ \A x \in Recordings \ {r} : Still(x)
  BY <1>2, <1>4 DEF TranscriptionSucceeds, Still, SameFields, RecordingRow
<1>6. /\ SameAttempts(atts, new)
      /\ \A i \in DOMAIN atts : new[i].outcome = IF i = n THEN "success" ELSE atts[i].outcome
  BY <1>4, FinishKeeps
<1> HIDE DEF new, e
<1>7. ASSUME NEW i \in DOMAIN new
      PROVE  new[i].transcript < n
  <2>1. i \in 1..n /\ new[i].transcript = atts[i].transcript
    BY <1>4, <1>6 DEF SameAttempts
  <2>2. /\ atts[i] \in Attempt
        /\ atts[i].transcript = 0 \/ atts[i].transcript < i
    BY <1>4, <2>1, ElementOfSeq DEF Sound, Ancestry
  <2>3. atts[i].transcript \in Nat /\ i <= n /\ i \in Nat
    BY <1>4, <2>1, <2>2 DEF Attempt
  <2> QED  BY <1>3, <1>4, <2>1, <2>2, <2>3
<1>8. ASSUME NEW i \in DOMAIN new
      PROVE  new[i].outcome # "running"
  BY <1>3, <1>4, <1>6 DEF SameAttempts, Unfinished
<1>9. Len(new) = n /\ n <= n
  BY <1>4, <1>6 DEF SameAttempts
<1> HIDE DEF n
<1>10. e \in OutputLanguages /\ NoSummaries[e] = 0 /\ Unobserved.by # "user"
  BY Defaults DEF NoSummaries, Unobserved, Unset, e
<1>11. \A i \in DOMAIN new : new[i].transcript # n
  BY <1>3, <1>4, <1>7
<1>12. SoundNext(r)
  <2>1. Ancestry(new)
    BY <1>4, <1>6, SameKeeps DEF Sound
  <2>2. Provenance(new, n, NoSummaries)
    BY <1>9, <1>11 DEF Provenance
  <2>3. Pending(new, n, e)
    BY <1>8 DEF Pending
  <2>4. Once(new, n, Unobserved)
    <3>1. Once(new, transcript[r], language[r])
      BY <1>4, <1>6, SameKeeps DEF Sound
    <3> QED  BY <1>11, <3>1 DEF Once
  <2>5. Untried(rec'[r], new, n, Unobserved)
    BY <1>11 DEF Untried
  <2>6. Entered(rec'[r], new, n, Unobserved, e, NoSummaries)
    BY <1>10 DEF Entered
  <2>7. Sound(rec'[r], new, n, Unobserved, e, NoSummaries)
    BY <2>1, <2>2, <2>3, <2>4, <2>5, <2>6 DEF Sound
  <2> QED  BY <1>5, <2>7 DEF SoundNext, e
<1>13. Told(r)
  <2>1. SummaryFailures(new, n, e, 0) = {}
    BY <1>11 DEF SummaryFailures
  <2>2. Faithful(rec'[r], new, n, e, 0)
    BY <1>3, <1>5, <2>1 DEF Faithful
  <2> QED  BY <1>5, <1>10, <2>2 DEF Told, FaithfulNext, e
<1>14. /\ job'[p].pc = "next" /\ job'[p].target = None
       /\ job'[p].stage = job[p].stage /\ job'[p].todo = job[p].todo
  BY <1>4, JobFields DEF TranscriptionSucceeds
<1>15. After(p, r)
  <2>1. Expects(r, rec'[r], attempts'[r], language'[r], job'[p])
    BY <1>3, <1>14 DEF Expects
  <2> QED  BY <1>12, <1>13, <2>1 DEF After
<1> QED  BY <1>1, <1>2, <1>5, <1>14, <1>15, SummaryOne

\* The summary that is being generated: of the active transcript, in some language.
LEMMA Generated ==
  ASSUME Inv, SummaryInv, NEW p \in Procs, job[p].pc = "summarizing",
         NEW r \in Recordings, r = job[p].target
  PROVE  LET n == Len(attempts[r])
         IN  /\ AtHand(p, r) /\ r \notin job[p].todo /\ n \in Nat /\ n > 0
             /\ DOMAIN attempts[r] = 1..n
             /\ attempts[r][n].stage = "summarization" /\ attempts[r][n].outcome = "running"
             /\ attempts[r][n].transcript = transcript[r] /\ transcript[r] # 0
             /\ Generating(r) = attempts[r][n].language /\ Generating(r) \in OutputLanguages
             /\ attempts[r][n].automatic => Generating(r) = Default(r)
<1> DEFINE n == Len(attempts[r])
<1>1. /\ r \notin job[p].todo /\ AtHand(p, r) /\ n # 0
  BY AtWork DEF Busy
<1>2. /\ attempts[r] \in Seq(Attempt)
      /\ Sound(rec[r], attempts[r], transcript[r], language[r], Default(r), summary[r])
      /\ Expects(r, rec[r], attempts[r], language[r], job[p])
  BY <1>1 DEF AtHand
<1>3. n \in Nat /\ n > 0 /\ DOMAIN attempts[r] = 1..n /\ n \in 1..n
  BY <1>1, <1>2, LenProperties
<1>4. attempts[r][n].language # NoLanguage /\ attempts[r][n].outcome = "running"
  BY <1>2 DEF Expects
<1>5. attempts[r][n] \in Attempt
  BY <1>2, <1>3, ElementOfSeq
<1> HIDE DEF n
<1>6. /\ attempts[r][n].stage = "summarization" /\ attempts[r][n].transcript # 0
      /\ attempts[r][n].transcript = transcript[r]
      /\ attempts[r][n].automatic => attempts[r][n].language = Default(r)
  BY <1>2, <1>3, <1>4 DEF Sound, Ancestry, Pending
<1>7. attempts[r][n].language \in OutputLanguages
  BY <1>4, <1>5 DEF Attempt
<1> QED  BY <1>1, <1>3, <1>4, <1>6, <1>7 DEF Generating, n

\* Only the end of an attempt in the default language touches the fields.
LEMMA SummarySummarizationEnds ==
  ASSUME Inv, SummaryInv, NEW p \in Procs, SummarizationFails(p) \/ SummarizationSucceeds(p)
  PROVE  Shown
<1>1. job[p].pc = "summarizing" /\ Step(p) /\ ~Finish(p)
      /\ UNCHANGED <<decision, transcript, language>>
  BY DEF SummarizationFails, SummarizationSucceeds, Step, Finish
<1>2. PICK r \in Recordings : r = job[p].target
  BY <1>1, Target DEF Busy
<1> DEFINE atts == attempts[r]
           n == Len(atts)
           t == transcript[r]
           d == Default(r)
           l == Generating(r)
           s == summary[r]
           ns == summary'[r]
<1>3. /\ AtHand(p, r) /\ r \notin job[p].todo /\ n \in Nat /\ n > 0 /\ DOMAIN atts = 1..n
      /\ atts[n].stage = "summarization" /\ atts[n].outcome = "running"
      /\ atts[n].transcript = t /\ t # 0 /\ l = atts[n].language /\ l \in OutputLanguages
      /\ atts[n].automatic => l = d
  BY <1>1, <1>2, Generated
<1>4. /\ TypeOK /\ rec[r] \in RecordingRow /\ atts \in Seq(Attempt) /\ d \in OutputLanguages
      /\ rec \in [Recordings -> RecordingRow] /\ attempts \in [Recordings -> Seq(Attempt)]
      /\ summary \in [Recordings -> [OutputLanguages -> Nat]]
      /\ Sound(rec[r], atts, t, language[r], d, s)
      /\ \A i \in Unfinished(atts) : i = n
  BY <1>1, <1>2, <1>3, AtWork DEF AtHand, Busy
<1>5. PICK o \in {"failed", "success"} : \E basis \in {atts, FinishAttempt(atts, o)} :
        /\ attempts' = [attempts EXCEPT ![r] = FinishAttempt(atts, o)]
        /\ rec' = [rec EXCEPT ![r] = Reconcile(r, basis, l, ns[l])]
        /\ basis = atts => o = "success"
        /\ IF o = "success" THEN summary' = [summary EXCEPT ![r] = [@ EXCEPT ![l] = n]]
           ELSE summary' = summary
  <2>1. CASE SummarizationFails(p)
    <3>1. /\ attempts' = [attempts EXCEPT ![r] = FinishAttempt(atts, "failed")]
          /\ rec' = [rec EXCEPT ![r] = Reconcile(r, FinishAttempt(atts, "failed"), l, s[l])]
          /\ summary' = summary
      BY <1>2, <2>1 DEF SummarizationFails
    <3>2. FinishAttempt(atts, "failed")[n].outcome = "failed"
      <4>1. n \in DOMAIN atts /\ "failed" \in Outcomes
        BY <1>3 DEF Outcomes
      <4> QED  BY <1>4, <4>1, FinishKeeps
    <3> QED  BY <1>3, <3>1, <3>2
  <2>2. CASE SummarizationSucceeds(p)
    <3>1. /\ attempts' = [attempts EXCEPT ![r] = FinishAttempt(atts, "success")]
          /\ rec' = [rec EXCEPT ![r] = Reconcile(r, atts, l, n)]
          /\ summary' = [summary EXCEPT ![r] = [@ EXCEPT ![l] = n]]
      BY <1>2, <2>2 DEF SummarizationSucceeds
    <3>2. ns[l] = n
      BY <1>3, <1>4, <3>1
    <3> QED  BY <3>1, <3>2
  <2> QED  BY <2>1, <2>2
<1> DEFINE new == FinishAttempt(atts, o)
<1>6. PICK basis \in {atts, new} :
         /\ attempts' = [attempts EXCEPT ![r] = new]
         /\ rec' = [rec EXCEPT ![r] = Reconcile(r, basis, l, ns[l])]
         /\ basis = atts => o = "success"
         /\ IF o = "success" THEN summary' = [summary EXCEPT ![r] = [@ EXCEPT ![l] = n]]
            ELSE summary' = summary
  BY <1>5
<1>7. /\ SameAttempts(atts, new) /\ o # "running"
      /\ \A i \in DOMAIN atts : new[i].outcome = IF i = n THEN o ELSE atts[i].outcome
  BY <1>4, <1>5, FinishKeeps DEF Outcomes
<1>8. /\ attempts'[r] = new /\ rec'[r] = Reconcile(r, basis, l, ns[l])
      /\ ns[l] = IF o = "success" THEN n ELSE s[l]
      /\ \A m \in OutputLanguages : m # l => ns[m] = s[m]
  BY <1>3, <1>4, <1>6
<1>9. \A x \in Recordings \ {r} : Still(x)
  <2>1. \A x \in Recordings \ {r} :
          rec'[x] = rec[x] /\ attempts'[x] = attempts[x] /\ summary'[x] = summary[x]
    BY <1>4, <1>6
  <2> QED  BY <1>1, <2>1 DEF Still, SameFields
<1>10. NextDefault(r) = d
  BY <1>1, Defaults
<1>11. Reconcile(r, basis, l, ns[l]) =
         IF l = d THEN Derived(rec[r], basis, t, l, ns[l]) ELSE rec[r]
  BY DEF Reconcile
<1> HIDE DEF new, n, t, d, l, s, ns, atts
<1>12. Ancestry(new) /\ Once(new, t, language[r]) /\ Pending(new, t, d)
  <2>1. Ancestry(new) /\ Once(new, t, language[r])
    BY <1>4, <1>7, SameKeeps DEF Sound
  <2>2. \A i \in DOMAIN new : new[i].outcome # "running"
    BY <1>4, <1>7 DEF SameAttempts, Unfinished
  <2> QED  BY <2>1, <2>2 DEF Pending
<1>13. Provenance(new, t, ns)
  <2> SUFFICES ASSUME NEW i \in DOMAIN new, new[i].language # NoLanguage,
                      new[i].outcome = "success", new[i].transcript = t
               PROVE  ns[new[i].language] # 0
    BY <1>4, <1>7 DEF Sound, Provenance, SameAttempts
  <2>1. i \in DOMAIN atts /\ new[i].language = atts[i].language /\ i \in 1..n
        /\ atts[i].transcript = t
    BY <1>3, <1>7 DEF SameAttempts
  <2>2. CASE i = n
    BY <1>3, <1>7, <1>8, <2>1, <2>2
  <2>3. CASE i # n
    <3>1. atts[i].outcome = "success" /\ s[atts[i].language] # 0
      BY <1>4, <1>7, <2>1, <2>3 DEF Sound, Provenance
    <3>2. atts[i].language \in OutputLanguages
      <4>1. atts[i] \in Attempt
        BY <1>4, <2>1, ElementOfSeq DEF n
      <4> QED  BY <2>1, <4>1 DEF Attempt
    <3> QED  BY <1>3, <1>8, <2>1, <3>1, <3>2
  <2> QED  BY <2>2, <2>3
<1>14. SoundNext(r) /\ Told(r)
  <2>1. CASE l = d
    <3>1. rec'[r] = Derived(rec[r], basis, t, d, ns[d])
      BY <1>8, <1>11, <2>1
    <3>2. /\ Faithful(rec'[r], basis, t, d, ns[d])
          /\ rec'[r].summaryStatus = "missing" <=>
               ns[d] = 0 /\ SummaryFailures(basis, t, d, ns[d]) = {}
      BY <1>3, <1>4, <3>1, DerivedFaithful
    <3>3. SameFailures(basis, new, t, d)
      <4>1. CASE basis = new
        BY <4>1 DEF SameFailures
      <4>2. CASE basis = atts
        BY <1>3, <1>6, <1>7, <4>2 DEF SameFailures, SummaryFailures, SameAttempts, FailureOutcomes
      <4> QED  BY <1>6, <4>1, <4>2
    <3>4. Faithful(rec'[r], new, t, d, ns[d])
      BY <3>2, <3>3, FaithfulFrame DEF SameFields
    <3>5. rec'[r].summaryStatus # "missing"
      <4>1. CASE o = "success"
        BY <1>3, <1>8, <2>1, <3>2, <4>1
      <4>2. CASE o # "success"
        <5>1. new[n].outcome = "failed" /\ n \in DOMAIN new /\ n > 0
          BY <1>3, <1>5, <1>7, <4>2 DEF SameAttempts
        <5>2. n \in SummaryFailures(new, t, d, 0)
          BY <1>3, <1>7, <2>1, <5>1 DEF SummaryFailures, FailureOutcomes, SameAttempts
        <5> QED  BY <3>2, <3>3, <5>2 DEF SameFailures
      <4> QED  BY <4>1, <4>2
    <3>6. Sound(rec'[r], new, t, language[r], d, ns)
      BY <1>4, <1>12, <1>13, <3>4, <3>5 DEF Sound, Untried, Entered
    <3> QED  BY <1>1, <1>8, <1>10, <3>4, <3>6 DEF SoundNext, Told, FaithfulNext, t, ns
  <2>2. CASE l # d
    <3>1. rec'[r] = rec[r] /\ ns[d] = s[d] /\ ~atts[n].automatic
      BY <1>3, <1>4, <1>8, <1>11, <2>2
    <3>2. SameFailures(atts, new, t, d)
      BY <1>3, <1>7, <2>2 DEF SameFailures, SummaryFailures, SameAttempts
    <3>3. Untried(rec'[r], new, t, language[r])
      BY <1>3, <1>4, <1>7, <3>1 DEF Sound, Untried, SameAttempts
    <3>4. Entered(rec'[r], new, t, language[r], d, ns)
      BY <1>4, <3>1, <3>2, FaithfulFrame DEF Sound, Entered, SameFields
    <3>5. Sound(rec'[r], new, t, language[r], d, ns)
      BY <1>12, <1>13, <3>3, <3>4 DEF Sound
    <3>6. ~DefaultAttemptEnds(r)
      BY <1>3, <1>4, <2>2 DEF DefaultAttemptEnds, atts, t, d
    <3>7. Told(r)
      BY <1>1, <1>8, <3>1, <3>2, <3>6, ToldFrame DEF SameFields, atts, t, d, s, ns
    <3> QED  BY <1>1, <1>8, <1>10, <3>5, <3>7 DEF SoundNext, t, ns
  <2> QED  BY <2>1, <2>2
<1>15. /\ job'[p].pc \in {"next", "persisted"} /\ job'[p].target \in {r, None}
       /\ job'[p].stage = job[p].stage /\ job'[p].todo = job[p].todo
       /\ job'[p].pc = "persisted" => language[r].language = NoLanguage
  <2>1. Done(p) \/ (Goto(p, "persisted") /\ language[r].language = NoLanguage)
    BY <1>2 DEF SummarizationFails, SummarizationSucceeds
  <2> QED  BY <1>2, <1>4, <2>1, JobFields
<1>16. After(p, r)
  <2>1. Expects(r, rec'[r], attempts'[r], language'[r], job'[p])
    BY <1>1, <1>3, <1>15 DEF Expects
  <2> QED  BY <1>14, <2>1 DEF After
<1> QED  BY <1>1, <1>2, <1>9, <1>15, <1>16, SummaryOne

\* The correction of the language derives the fields for the default it leads to.
LEMMA SummarySetLanguage ==
  ASSUME Inv, SummaryInv, NEW p \in Procs, SetLanguage(p)
  PROVE  Shown
<1>1. /\ job[p].pc = "perform" /\ job[p].cmd \notin Batches /\ Step(p) /\ ~Finish(p)
      /\ UNCHANGED <<decision, attempts, transcript, summary>> /\ Done(p)
  BY DEF SetLanguage, Performs, Batches, Step, Finish
<1>2. PICK r \in Recordings : r = job[p].target
  BY <1>1, Target
<1> DEFINE atts == attempts[r]
           t == transcript[r]
           d == NextDefault(r)
           s == summary[r]
<1>3. /\ AtHand(p, r) /\ r \notin job[p].todo /\ Unfinished(atts) = {}
  BY <1>1, <1>2, AtWork DEF AtHand
<1>4. /\ TypeOK /\ rec[r] \in RecordingRow /\ rec \in [Recordings -> RecordingRow]
      /\ language \in [Recordings -> TranscriptLanguage]
      /\ Sound(rec[r], atts, t, language[r], Default(r), s)
  BY <1>3 DEF AtHand
<1>5. /\ job'[p].pc = "next" /\ job'[p].target = None
      /\ job'[p].stage = job[p].stage /\ job'[p].todo = job[p].todo
  BY <1>1, <1>4, JobFields
<1>6. CASE UNCHANGED <<rec, language>>
  <2>1. \A x \in Recordings : Still(x)
    BY <1>1, <1>6 DEF Still, SameFields
  <2> QED  BY <1>1, <1>5, <2>1, SummaryQuiet
<1>7. CASE ~UNCHANGED <<rec, language>>
  <2>1. t # 0
    BY <1>2, <1>7 DEF SetLanguage
  <2>2. PICK l \in SourceLanguages :
          LET e == DefaultOf([language |-> l, by |-> "user"], decision[r])
          IN /\ language' = [language EXCEPT ![r] = [language |-> l, by |-> "user"]]
             /\ rec' = [rec EXCEPT ![r] = Derived(@, atts, t, e, s[e])]
    BY <1>2, <1>7 DEF SetLanguage
  <2>3. /\ language'[r] = [language |-> l, by |-> "user"]
        /\ language'[r].language # NoLanguage /\ language'[r].by = "user"
    BY <1>4, <2>2, PipelineAssumption
  <2>4. rec'[r] = Derived(rec[r], atts, t, d, s[d])
    BY <1>1, <1>4, <2>2, <2>3 DEF NextDefault
  <2>5. \A x \in Recordings \ {r} : Still(x)
    BY <1>1, <1>4, <2>2 DEF Still, SameFields
  <2> HIDE DEF atts, t, d, s
  <2>6. Faithful(rec'[r], atts, t, d, s[d])
    BY <1>4, <2>1, <2>4, DerivedFaithful
  <2>7. Once(atts, t, language'[r])
    BY <1>4, <2>3 DEF Sound, Once
  <2>8. Sound(rec'[r], atts, t, language'[r], d, s)
    BY <1>3, <1>4, <2>3, <2>6, <2>7 DEF Sound, Pending, Unfinished, Untried, Entered
  <2>9. SoundNext(r) /\ Told(r)
    BY <1>1, <2>6, <2>8 DEF SoundNext, Told, FaithfulNext, atts, t, d, s
  <2>10. Expects(r, rec'[r], attempts'[r], language'[r], job'[p])
    BY <1>3, <1>5 DEF Expects
  <2> QED  BY <1>1, <1>2, <1>5, <2>5, <2>9, <2>10, SummaryOne DEF After
<1> QED  BY <1>6, <1>7

LEMMA SummaryInit == Init => SummaryInv
<1> SUFFICES ASSUME Init
             PROVE  SummaryInv
  OBVIOUS
<1>1. lock = None
  BY DEF Init
<1>2. ASSUME NEW r \in Recordings
      PROVE  SoundNow(r)
  <2>1. /\ attempts[r] = <<>> /\ transcript[r] = 0 /\ summary[r] = NoSummaries
        /\ rec[r].summaryStatus = "not_ready" /\ rec[r].resummarizationFailed = FALSE
        /\ language[r].by # "user" /\ Default(r) \in OutputLanguages
    BY Defaults DEF Init, NewRecording, Unobserved, Unset
  <2>2. DOMAIN attempts[r] = {} /\ Len(attempts[r]) = 0
    BY <2>1
  <2> QED  BY <2>1, <2>2 DEF SoundNow, Sound, Ancestry, Provenance, Pending, Once, Untried, Entered
<1> QED  BY <1>1, <1>2 DEF SummaryInv

\* Opening, closing and killing a command, and what else changes no row.
LEMMA SummaryOutside ==
  ASSUME Inv, SummaryInv, UNCHANGED database,
         lock' # None => /\ Directed(job'[lock'])
                         /\ \A r \in Recordings :
                              Expects(r, rec[r], attempts[r], language[r], job'[lock'])
  PROVE  Shown
<1>1. /\ \A x \in Recordings : rec'[x] = rec[x] /\ decision'[x] = decision[x]
      /\ UNCHANGED <<rec, decision, attempts, transcript, language, summary>>
  BY DEF database
<1>2. ASSUME NEW x \in Recordings
      PROVE  SoundNow(x)' /\ Told(x)
  <2>1. ~DefaultAttemptEnds(x)
    BY <1>1 DEF DefaultAttemptEnds, Unfinished
  <2>2. Told(x)
    BY <1>1, <2>1, ToldFrame DEF SameFields, SameFailures
  <2> QED  BY <1>1, <2>2 DEF SummaryInv, SoundNow, Default
<1> QED  BY <1>1, <1>2 DEF SummaryInv, Shown

LEMMA SummaryStart ==
  ASSUME Inv, SummaryInv, NEW p \in Procs, Start(p)
  PROVE  Shown
<1> DEFINE JustOpened == /\ job'[p].pc = "recover" /\ job'[p].todo = {}
                         /\ job'[p].cmd \in Batches => job'[p].selector = "default"
<1>1. ASSUME NEW j, Acquire(p, j)
      PROVE  /\ lock' = p /\ UNCHANGED database
             /\ job'[p] = [j EXCEPT !.pc = "recover"]
  BY <1>1 DEF Acquire, Inv, TypeOK
<1>2. ASSUME StartRun(p)
      PROVE  JustOpened /\ lock' = p /\ UNCHANGED database
  <2> DEFINE j == [IdleJob EXCEPT !.cmd = "run", !.stages = BatchStages("run")]
  <2>1. job'[p] = [j EXCEPT !.pc = "recover"] /\ lock' = p /\ UNCHANGED database
    BY <1>1, <1>2 DEF StartRun
  <2> QED  BY <2>1 DEF IdleJob
<1>3. ASSUME NEW c \in Batches, StartBatch(p, c)
      PROVE  JustOpened /\ lock' = p /\ UNCHANGED database
  <2> DEFINE j == [IdleJob EXCEPT !.cmd = c, !.stages = BatchStages(c)]
  <2>1. job'[p] = [j EXCEPT !.pc = "recover"] /\ lock' = p /\ UNCHANGED database
    BY <1>1, <1>3 DEF StartBatch
  <2> QED  BY <2>1 DEF IdleJob
<1>4. ASSUME NEW c \in RecordingCommands, NEW r \in Recordings, NEW prof, NEW sel, NEW again,
             StartCommand(p, c, r, prof, sel, again)
      PROVE  JustOpened /\ lock' = p /\ UNCHANGED database
  <2> DEFINE j == [IdleJob EXCEPT !.cmd = c, !.target = r, !.profile = prof,
                                  !.selector = sel, !.regenerate = again]
  <2>1. job'[p] = [j EXCEPT !.pc = "recover"] /\ lock' = p /\ UNCHANGED database
    BY <1>1, <1>4 DEF StartCommand
  <2>2. c \notin Batches
    BY DEF Batches, RecordingCommands
  <2> QED  BY <2>1, <2>2 DEF IdleJob
<1> HIDE DEF JustOpened
<1>5. JustOpened /\ lock' = p /\ UNCHANGED database
  BY <1>2, <1>3, <1>4, Zenon DEF Start
<1> QED  BY <1>5, SummaryOutside DEF Directed, Expects, JustOpened

\* Every step keeps the invariant, and tells the truth about the summary fields.
LEMMA SummaryStep ==
  ASSUME Inv, SummaryInv, [Next]_vars
  PROVE  Shown
<1>1. CASE UNCHANGED vars
  <2>1. lock' = lock /\ job' = job /\ UNCHANGED database
    BY <1>1 DEF vars
  <2> QED  BY <2>1, SummaryOutside DEF SummaryInv
<1>2. ASSUME NEW p \in Procs, Crash(p) \/ Finish(p)
      PROVE  Shown
  <2>1. lock' = None /\ UNCHANGED database
    BY <1>2, Running DEF Crash, Finish
  <2> QED  BY <2>1, SummaryOutside
<1>3. ASSUME NEW p \in Procs, Step(p), ~Finish(p)
      PROVE  Shown
  <2>1. CASE Recover(p) \/ RunRecover(p)
    BY <2>1, SummaryRecovered
  <2>2. CASE RunIngest(p) \/ SelectStage(p) \/ \E r \in Recordings : EnterRouting(p, r)
    BY <2>2, SummaryStages
  <2>3. CASE \E r \in Recordings : RouteOne(p, r) \/ TranscribeOne(p, r) \/ SummarizeOne(p, r)
    BY <2>3, SummaryRouteOne, SummaryTranscribeOne, SummarySummarizeOne
  <2>4. CASE \/ RoutingFails(p) \/ RoutingSucceeds(p) \/ TranscriptionFails(p)
             \/ DetectionFails(p) \/ DetectionSucceeds(p)
    BY <2>4, SummaryOtherEnds
  <2>5. CASE ApplyOutcome(p) \/ BeginTranscription(p) \/ TranscriptionSucceeds(p)
    BY <2>5, SummaryApplyOutcome, SummaryBeginTranscription, SummaryTranscriptionSucceeds
  <2>6. CASE \/ StoreDetectedLanguage(p) \/ StoreReportedLanguage(p) \/ SummarizeDetected(p)
             \/ SummarizationFails(p) \/ SummarizationSucceeds(p)
    BY <2>6, SummaryStoresLanguage, SummarySummarizeDetected, SummarySummarizationEnds
  <2>7. CASE \/ ManualRoute(p) \/ ConfirmRouting(p) \/ TranscribeCommand(p)
             \/ SummarizeCommand(p) \/ Retry(p) \/ ArchiveRecording(p) \/ RestoreRecording(p)
    BY <2>7, SummaryCommands
  <2>8. CASE SetLanguage(p)
    BY <2>8, SummarySetLanguage
  <2> QED  BY <1>3, <2>1, <2>2, <2>3, <2>4, <2>5, <2>6, <2>7, <2>8, Zenon DEF Step
<1> QED  BY <1>1, <1>2, <1>3, SummaryStart, Zenon DEF Next

LEMMA SummaryInvariance == Spec => [](Inv /\ SummaryInv)
<1>1. Inv /\ SummaryInv /\ [Next]_vars => SummaryInv'
  BY SummaryStep DEF Shown
<1> QED  BY <1>1, InvInit, InvStep, SummaryInit, PTL DEF Spec

\* Every process finds the recording it works on as it left it, and a transcript
\* whose language it is about to store still without one.
THEOREM WorkStaysInPlace == Spec => []WorkInPlace
<1>1. Inv /\ SummaryInv => WorkInPlace
  <2> SUFFICES ASSUME Inv, SummaryInv, lock # None
               PROVE  WorkInPlace
    BY DEF WorkInPlace
  <2>1. lock \in Procs
    BY DEF Inv, TypeOK
  <2>2. JobOK(job[lock])
    BY <2>1 DEF Inv, JobsConsistent
  <2>3. CASE job[lock].pc \notin Busy
    BY <2>3, WorkingStages DEF Busy, WorkInPlace
  <2>4. CASE job[lock].pc \in Busy
    <3>1. PICK r \in Recordings : r = job[lock].target
      BY <2>2, <2>4 DEF JobOK
    <3>2. job[lock].pc # "recover"
      BY <2>4 DEF Busy
    <3>3. Held(r, rec[r], attempts[r], job[lock])
      BY <3>2 DEF Inv
    <3>4. Expects(r, rec[r], attempts[r], language[r], job[lock])
      BY DEF SummaryInv
    <3> QED  BY <2>4, <3>1, <3>3, <3>4, WorkingStages DEF Held, Expects, Busy, WorkInPlace
  <2> QED  BY <2>3, <2>4
<1> QED  BY <1>1, SummaryInvariance, PTL

\* The summary fields of a recording become untrue only when its default language
\* changes by a routing decision or by what a model reports; the end of an attempt
\* in the default language, a new transcript and the correction of the language
\* make them true again, whatever failed or died meanwhile.
THEOREM SummaryTruthful == Spec => SummaryStatusTruthful
<1>1. Init => \A r \in Recordings : Truthful(r)
  <2> SUFFICES ASSUME Init, NEW r \in Recordings
               PROVE  Truthful(r)
    OBVIOUS
  <2>1. /\ attempts[r] = <<>> /\ transcript[r] = 0 /\ summary[r][Default(r)] = 0
        /\ rec[r].summaryStatus = "not_ready" /\ rec[r].resummarizationFailed = FALSE
    BY Defaults DEF Init, NewRecording, NoSummaries
  <2> QED  BY <2>1 DEF Truthful
<1>2. ASSUME Inv, SummaryInv, [Next]_vars
      PROVE  [\A r \in Recordings :
                \/ Truthful(r) /\ Default(r)' = Default(r)
                \/ DefaultAttemptEnds(r)
                \/ transcript'[r] # transcript[r]
                \/ language'[r].by = "user"
                => Truthful(r)']_vars
  <2> SUFFICES ASSUME NEW r \in Recordings,
                      \/ Truthful(r) /\ Default(r)' = Default(r)
                      \/ DefaultAttemptEnds(r)
                      \/ transcript'[r] # transcript[r]
                      \/ language'[r].by = "user"
               PROVE  Truthful(r)'
    OBVIOUS
  <2>1. Told(r) /\ SoundNow(r)'
    <3>1. Shown
      BY <1>2, SummaryStep
    <3> QED  BY <3>1 DEF Shown, SummaryInv
  <2>2. Default(r)' = NextDefault(r)
    BY DEF Default, NextDefault
  <2>3. (Truthful(r) => FaithfulNow(r)) /\ (FaithfulNext(r) => Truthful(r)')
    BY <2>2 DEF Truthful, FaithfulNow, FaithfulNext, Faithful
  <2>4. CASE language'[r].by = "user"
    BY <2>1, <2>2, <2>3, <2>4 DEF SoundNow, Sound, Entered, FaithfulNext
  <2>5. CASE language'[r].by # "user"
    BY <2>1, <2>2, <2>3, <2>5 DEF Told
  <2> QED  BY <2>4, <2>5
<1> QED  BY <1>1, <1>2, SummaryInvariance, PTL DEF Spec, SummaryStatusTruthful

\* A batch summarizes a transcript at most once in a language, and in a second
\* language only after the user has corrected that of the transcript: whatever
\* failed, whatever died, and however its default language changed.
THEOREM AutomaticOnce == Spec => []AutomaticSummaryOnce
<1>1. SummaryInv => AutomaticSummaryOnce
  BY DEF SummaryInv, SoundNow, Sound, Once, AutomaticSummaryOnce
<1> QED  BY <1>1, SummaryInvariance, PTL
=============================================================================
