------------------------------ MODULE Pipeline ------------------------------
(***************************************************************************)
(* The processing pipeline of one Brain database: ingest, routing,         *)
(* transcription and summarization of recordings, the commands a user      *)
(* gives from the command line or the web, the exclusive pipeline lock,    *)
(* process death at any point, and the recovery the next command performs. *)
(*                                                                         *)
(* Every database transaction of the code is one action, so a process can  *)
(* die between any two of them.  A call to MacWhisper or to the language   *)
(* model lies between the action that creates its attempt and the action   *)
(* that stores its result.                                                 *)
(*                                                                         *)
(* A transcript has summaries in several output languages.  The fields of  *)
(* its recording are about the default one, which is derived anew whenever *)
(* it is asked for: from the language the user entered, else the active    *)
(* routing decision, else the language a model reported.                   *)
(*                                                                         *)
(* Abstracted here: which audio file is read (an unusable source only      *)
(* parks the recording), the content of transcripts and summaries, topic   *)
(* sections, and the post-commit search synchronization.                   *)
(***************************************************************************)
EXTENDS Naturals, Sequences, FiniteSets, Languages

CONSTANTS
  Recordings,   \* audio contents that can be found in the inbox
  Profiles,     \* the configured transcription profiles
  ChineseProfiles,  \* those of them named cantonese or mandarin
  SourceLanguages,  \* what a model may report and a user may enter
  Procs,        \* processes that issue commands (CLI invocations, web workers)
  None,         \* no process, no profile, no recording
  MaxCommands,  \* bound: explicit user commands given over a behaviour
  MaxCrashes    \* bound: process deaths over a behaviour

ASSUME PipelineAssumption ==
  /\ None \notin Recordings /\ None \notin Profiles /\ None \notin Procs
  /\ ChineseProfiles \subseteq Profiles
  /\ SourceLanguages # {} /\ NoLanguage \notin SourceLanguages
  /\ \A l \in SourceLanguages : canonicalize_language(l) = l
  /\ MaxCommands \in Nat /\ MaxCrashes \in Nat

VARIABLES
  rec,         \* rec[r]: the Recording row
  decision,    \* decision[r]: the active RoutingDecision, or NoDecision
  attempts,    \* attempts[r]: the ProcessingAttempt rows of r, oldest first
  transcript,  \* transcript[r]: attempt that made the active Transcript, 0 if none
  language,    \* language[r]: language of the active Transcript, and who named it
  summary,     \* summary[r][l]: attempt that made its active Summary in l, 0 if none
  lock,        \* the process holding the pipeline flock, or None
  job,         \* job[p]: the command process p executes
  commands,    \* explicit commands given so far
  crashes      \* process deaths so far

database == <<rec, decision, attempts, transcript, language, summary>>
vars == <<database, lock, job, commands, crashes>>

Machine == INSTANCE StatusMachine
             WITH status <- [r \in Recordings |-> rec[r].status],
                  hasTranscript <- [r \in Recordings |-> transcript[r] # 0]

-----------------------------------------------------------------------------
(* Rows *)

Stages == {"routing", "transcription", "summarization"}
Outcomes == {"running", "success", "failed", "interrupted"}
FailureOutcomes == {"failed", "interrupted"}

\* The languages a summary may be generated in.
OutputLanguages ==
  {ZhHant, English} \cup {output_language_for_source(l) : l \in SourceLanguages}

\* transcript, language and automatic describe summaries only: the version and
\* the language (the provenance in context_json), and the generation mode.  The
\* detection of a source language is a summarization attempt without them.
Attempt == [stage : Stages, outcome : Outcomes, transcript : Nat,
            language : OutputLanguages \cup {NoLanguage}, automatic : BOOLEAN]

Status == {"absent", "discovered", "routing", "needs_review", "ready",
           "transcribing", "transcribed", "failed"}

RecordingRow ==
  [status : Status,
   failureStage : {"", "routing", "transcription"},
   retranscriptionFailed : BOOLEAN,
   summaryStatus : {"not_ready", "missing", "current", "failed"},
   resummarizationFailed : BOOLEAN,
   lastFailed : Nat,              \* last_failed_attempt, 0 if null
   archived : BOOLEAN]

NewRecording ==
  [status |-> "absent", failureStage |-> "", retranscriptionFailed |-> FALSE,
   summaryStatus |-> "not_ready", resummarizationFailed |-> FALSE,
   lastFailed |-> 0, archived |-> FALSE]

\* ordinal counts the decisions made for the recording; profile is None when the
\* routes disagree; model says that the decision carries the model of its profile.
Decision == [ordinal : Nat, method : {"none", "automatic", "manual"},
             profile : Profiles \cup {None}, model : BOOLEAN, verified : BOOLEAN]

NoDecision == [ordinal |-> 0, method |-> "none", profile |-> None, model |-> FALSE,
               verified |-> FALSE]

\* `language_observed' and `language_observed_verified_by'.
TranscriptLanguage ==
  [language : SourceLanguages \cup {NoLanguage}, by : {Unset, "llm_detection", "user"}]

Unobserved == [language |-> NoLanguage, by |-> Unset]
NoSummaries == [l \in OutputLanguages |-> 0]

\* The default output language of a transcript of language t under decision d.
DefaultOf(t, d) ==
  resolve_default_language(t,
    IF d = NoDecision THEN {}
    ELSE {[chinese |-> d.profile \in ChineseProfiles,
           automatic |-> d.method = "automatic", verified |-> d.verified]})

Default(r) == DefaultOf(language[r], decision[r])

\* NoLanguage: the original of a transcript whose language nobody knows.
Requested(r, selector) ==
  IF selector = "default" THEN Default(r)
  ELSE resolve_output_language(language[r], {}, selector)

(* Commands *)

Batches == {"run", "ingest", "route_pending", "transcribe_ready", "summarize_pending"}
RecordingCommands == {"route", "confirm", "transcribe", "summarize", "retry",
                      "set_language", "archive", "restore"}

\* Mutant: the run forgets to take discovered recordings up.
BatchStagesNoEntry(c) ==
  IF c = "run" THEN <<"recover", "ingest", "route", "transcribe", "summarize">>
  ELSE <<>>

\* The stages a batch command works through; the others act on one recording.
BatchStages(c) ==
  CASE c = "run" -> <<"recover", "ingest", "enter", "route", "transcribe", "summarize">>
    [] c = "ingest" -> <<"ingest">>
    [] c = "route_pending" -> <<"route">>
    [] c = "transcribe_ready" -> <<"transcribe">>
    [] c = "summarize_pending" -> <<"summarize">>
    [] OTHER -> <<>>

JobStages == {"recover", "ingest", "enter", "route", "transcribe", "summarize"}

\* pc of a process: idle; recover and perform open a command; next works off
\* `todo' and then `stages'; the others are inside one recording.
Job == [pc : {"idle", "recover", "perform", "next", "routing", "outcome",
              "claimed", "transcribing", "detecting", "detected", "resolved",
              "summarizing", "persisted"},
        cmd : Batches \cup RecordingCommands \cup {"none"},
        stages : Seq(JobStages),
        stage : JobStages \cup {"none"},
        todo : SUBSET Recordings,
        target : Recordings \cup {None},
        profile : Profiles \cup {None},
        selector : Selectors,
        regenerate : BOOLEAN]

IdleJob == [pc |-> "idle", cmd |-> "none", stages |-> <<>>, stage |-> "none",
            todo |-> {}, target |-> None, profile |-> None, selector |-> "default",
            regenerate |-> FALSE]

Init ==
  /\ rec = [r \in Recordings |-> NewRecording]
  /\ decision = [r \in Recordings |-> NoDecision]
  /\ attempts = [r \in Recordings |-> <<>>]
  /\ transcript = [r \in Recordings |-> 0]
  /\ language = [r \in Recordings |-> Unobserved]
  /\ summary = [r \in Recordings |-> NoSummaries]
  /\ lock = None
  /\ job = [p \in Procs |-> IdleJob]
  /\ commands = 0
  /\ crashes = 0

-----------------------------------------------------------------------------
(* What several handlers share *)

Unfinished(atts) == {i \in DOMAIN atts : atts[i].outcome = "running"}

\* `transition': the new status, and a failure stage survives only in failed.
Transition(row, new) ==
  [row EXCEPT !.status = new,
              !.failureStage = IF new = "failed" THEN @ ELSE ""]

\* Mutant: a failure does not look at the active transcript.
RecordFailureAlways(row, stage, hasTranscript, attempt) ==
  [row EXCEPT !.status = "failed", !.failureStage = stage]

\* `record_failure': a failed retranscription keeps the recording transcribed
\* and raises its marker; any other failure makes the recording failed.
RecordFailure(row, stage, hasTranscript, attempt) ==
  IF stage = "transcription" /\ hasTranscript
  THEN [row EXCEPT !.status = "transcribed", !.failureStage = "",
                   !.retranscriptionFailed = TRUE, !.lastFailed = attempt]
  ELSE [row EXCEPT !.status = "failed", !.failureStage = stage]

\* Mutant: interrupted attempts do not count as failures.
SummaryFailuresUninterrupted(atts, t, l, after) ==
  {i \in DOMAIN atts : /\ atts[i].stage = "summarization" /\ atts[i].outcome = "failed"
                       /\ atts[i].transcript = t /\ atts[i].language = l /\ i > after}

\* The failed attempts to summarize version t in language l that are newer than
\* attempt `after'.
SummaryFailures(atts, t, l, after) ==
  {i \in DOMAIN atts : /\ atts[i].stage = "summarization"
                       /\ atts[i].outcome \in FailureOutcomes
                       /\ atts[i].transcript = t /\ atts[i].language = l
                       /\ i > after}

Newest(S) == CHOOSE i \in S : \A j \in S : j <= i

\* The summary fields of the row, derived from the attempts at the active
\* transcript t in language l and the active summary s in it (0 if none).
Derived(row, atts, t, l, s) ==
  LET failures == SummaryFailures(atts, t, l, s)
      newest == IF failures = {} THEN 0 ELSE Newest(failures)
  IN [row EXCEPT !.summaryStatus = IF s # 0 THEN "current"
                                   ELSE IF failures # {} THEN "failed"
                                   ELSE "missing",
                 !.resummarizationFailed = s # 0 /\ failures # {},
                 !.lastFailed = newest]

\* Mutant: whichever language was summarized is taken for the default one.
ReconcileAnyLanguage(r, atts, l, s) == Derived(rec[r], atts, transcript[r], l, s)

\* The reconciler, after an event of language l.  It writes the recording only
\* if l is its default language at this moment; nothing else writes it, so that
\* the fields may stay those of an earlier default.
Reconcile(r, atts, l, s) ==
  IF l = Default(r) THEN Derived(rec[r], atts, transcript[r], l, s) ELSE rec[r]

\* Mutant: the generation mode is not stored.
NewAttemptModeless(stage, t, l, automatic) ==
  [stage |-> stage, outcome |-> "running", transcript |-> t, language |-> l]

NewAttempt(stage, t, l, automatic) ==
  [stage |-> stage, outcome |-> "running", transcript |-> t, language |-> l,
   automatic |-> automatic]

\* The attempt the process is busy with is the last row of its recording.
FinishAttempt(atts, outcome) == [atts EXCEPT ![Len(atts)].outcome = outcome]

Goto(p, pc) == job' = [job EXCEPT ![p] = [@ EXCEPT !.pc = pc]]

\* On to the next item of the list, whatever became of recording r.
Leave(p, r) ==
  job' = [job EXCEPT ![p] = [@ EXCEPT !.pc = "next", !.target = None, !.todo = job[p].todo \ {r}]]

\* The process is done with the recording it worked on.
Done(p) == job' = [job EXCEPT ![p] = [@ EXCEPT !.pc = "next", !.target = None]]

\* The process takes recording r off the list and works on it.
TakeUp(p, r, pc) ==
  job' = [job EXCEPT ![p] = [@ EXCEPT !.pc = pc, !.target = r, !.todo = job[p].todo \ {r}]]

\* A command on one recording that goes on with a stage of the pipeline.
GoOn(p, stage, S, again) ==
  job' = [job EXCEPT ![p] = [@ EXCEPT !.pc = "next", !.target = None, !.stage = stage,
                                      !.todo = S, !.regenerate = again]]

-----------------------------------------------------------------------------
(* Opening and closing a command *)

\* Mutant: the command does not test the lock.
AcquireUnlocked(p, j) ==
  /\ job[p].pc = "idle"
  /\ lock' = p
  /\ job' = [job EXCEPT ![p] = [j EXCEPT !.pc = "recover"]]
  /\ UNCHANGED <<database, crashes>>

\* The flock is taken without waiting: a command that finds it held gives up
\* (exit code 3, or a 409 page) and changes nothing.
Acquire(p, j) ==
  /\ lock = None
  /\ job[p].pc = "idle"
  /\ lock' = p
  /\ job' = [job EXCEPT ![p] = [j EXCEPT !.pc = "recover"]]
  /\ UNCHANGED <<database, crashes>>

\* `brain run' may be given at any time and as often as one likes.
StartRun(p) ==
  /\ Acquire(p, [IdleJob EXCEPT !.cmd = "run", !.stages = BatchStages("run")])
  /\ UNCHANGED commands

StartBatch(p, c) ==
  /\ commands < MaxCommands
  /\ Acquire(p, [IdleJob EXCEPT !.cmd = c, !.stages = BatchStages(c)])
  /\ commands' = commands + 1

\* prof is the profile of a route command, sel and again the --language and the
\* --regenerate of a summarize command.
StartCommand(p, c, r, prof, sel, again) ==
  /\ commands < MaxCommands
  /\ rec[r].status # "absent"
  /\ (prof # None) = (c = "route")
  /\ again \/ sel # "default" => c = "summarize"
  /\ Acquire(p, [IdleJob EXCEPT !.cmd = c, !.target = r, !.profile = prof,
                                !.selector = sel, !.regenerate = again])
  /\ commands' = commands + 1

\* Mutant: recovery closes transcription attempts only.
RecoveredTranscriptions(atts) ==
  [i \in DOMAIN atts |-> IF atts[i].outcome = "running" /\ atts[i].stage = "transcription"
                         THEN [atts[i] EXCEPT !.outcome = "interrupted"]
                         ELSE atts[i]]

\* `recover_interruptions', one transaction, as a relation between database
\* states: close every unfinished attempt, bring in-flight recordings back to a
\* safe state, and reconcile the summary fields after an interrupted
\* summarization.
RecoveredAttempts(atts) ==
  [i \in DOMAIN atts |-> IF atts[i].outcome = "running"
                         THEN [atts[i] EXCEPT !.outcome = "interrupted"]
                         ELSE atts[i]]

\* Mutant: an interrupted transcription is a failed one.
RecoveredStatusFailed(r) ==
  IF rec[r].status = "transcribing" THEN [rec[r] EXCEPT !.status = "failed"] ELSE rec[r]

\* Mutant: only recordings with an unfinished attempt are brought back.
RecoveredStatusTouched(r) ==
  IF rec[r].status = "transcribing" /\ Unfinished(attempts[r]) # {}
  THEN [rec[r] EXCEPT !.status = IF transcript[r] # 0 THEN "transcribed" ELSE "ready"]
  ELSE rec[r]

RecoveredStatus(r) ==
  LET touched == Unfinished(attempts[r]) # {}
      row == rec[r]
  IN IF row.status = "transcribing" /\ (touched \/ ~row.archived)
     THEN [row EXCEPT !.status = IF transcript[r] # 0 THEN "transcribed" ELSE "ready"]
     ELSE IF row.status = "discovered" /\ touched
     THEN Transition(row, "routing")
     ELSE row

\* Mutant: the summary fields are not reconciled.
RecoveredRowUnreconciled(r) == RecoveredStatus(r)

RecoveredRow(r) ==
  IF \E i \in Unfinished(attempts[r]) :
       /\ attempts[r][i].stage = "summarization"
       /\ attempts[r][i].transcript = transcript[r]
       /\ attempts[r][i].language = Default(r)
  THEN Derived(RecoveredStatus(r), RecoveredAttempts(attempts[r]), transcript[r], Default(r),
               summary[r][Default(r)])
  ELSE RecoveredStatus(r)

RecoverInterruptions ==
  /\ attempts' = [r \in Recordings |-> RecoveredAttempts(attempts[r])]
  /\ rec' = [r \in Recordings |-> RecoveredRow(r)]
  /\ UNCHANGED <<decision, transcript, language, summary>>

\* Mutant: the command opens without recovering.
RecoverNothing(p) ==
  /\ job[p].pc = "recover"
  /\ Goto(p, IF job[p].cmd \in Batches THEN "next" ELSE "perform")
  /\ UNCHANGED <<database, lock, commands, crashes>>

\* Every locked command recovers before anything else.
Recover(p) ==
  /\ job[p].pc = "recover"
  /\ RecoverInterruptions
  /\ Goto(p, IF job[p].cmd \in Batches THEN "next" ELSE "perform")
  /\ UNCHANGED <<lock, commands, crashes>>

\* End of the command: the lock is released.
Finish(p) ==
  /\ job[p].pc = "next" /\ job[p].todo = {} /\ job[p].stages = <<>>
  /\ lock' = None
  /\ job' = [job EXCEPT ![p] = IdleJob]
  /\ UNCHANGED <<database, commands, crashes>>

\* The process is killed, or an exception escapes the command: no further
\* statement of it runs, and the kernel frees the lock.
Crash(p) ==
  /\ job[p].pc # "idle"
  /\ crashes < MaxCrashes
  /\ lock' = IF lock = p THEN None ELSE lock
  /\ job' = [job EXCEPT ![p] = IdleJob]
  /\ crashes' = crashes + 1
  /\ UNCHANGED <<database, commands>>

-----------------------------------------------------------------------------
(* Batch stages *)

AtStage(p, s) ==
  /\ job[p].pc = "next" /\ job[p].todo = {}
  /\ job[p].stages # <<>> /\ Head(job[p].stages) = s

EnterStage(p, s, S) ==
  job' = [job EXCEPT ![p] = [@ EXCEPT !.stage = s, !.todo = S, !.stages = Tail(job[p].stages)]]

\* `run_pipeline' recovers once more before it starts.
RunRecover(p) ==
  /\ AtStage(p, "recover")
  /\ RecoverInterruptions
  /\ EnterStage(p, "recover", {})
  /\ UNCHANGED <<lock, commands, crashes>>

\* New audio contents become recordings.
RunIngest(p) ==
  /\ AtStage(p, "ingest")
  /\ \E S \in SUBSET {r \in Recordings : rec[r].status = "absent"} :
       rec' = [r \in Recordings |-> IF r \in S THEN [rec[r] EXCEPT !.status = "discovered"]
                                    ELSE rec[r]]
  /\ EnterStage(p, "ingest", {})
  /\ UNCHANGED <<decision, attempts, transcript, language, summary, lock, commands, crashes>>

\* Mutant: archived recordings are not left out.
EligibleArchived(s, r) ==
  \/ s = "enter" /\ rec[r].status = "discovered"
  \/ s = "route" /\ rec[r].status = "routing"
  \/ s = "transcribe" /\ rec[r].status = "ready"
  \/ /\ s = "summarize" /\ rec[r].status = "transcribed" /\ rec[r].summaryStatus = "missing"

\* Mutant: the transcription batch takes up failed recordings as well.
EligibleFailed(s, r) ==
  /\ ~rec[r].archived
  /\ \/ s = "enter" /\ rec[r].status = "discovered"
     \/ s = "route" /\ rec[r].status = "routing"
     \/ s = "transcribe" /\ rec[r].status \in {"ready", "failed"}

\* The recordings a stage takes up; archived ones never.
Eligible(s, r) ==
  /\ ~rec[r].archived
  /\ \/ s = "enter" /\ rec[r].status = "discovered"
     \/ s = "route" /\ rec[r].status = "routing"
     \/ s = "transcribe" /\ rec[r].status = "ready"
     \/ /\ s = "summarize"
        /\ rec[r].status = "transcribed" /\ rec[r].summaryStatus = "missing"

SelectStage(p) ==
  /\ \E s \in {"enter", "route", "transcribe", "summarize"} :
       /\ AtStage(p, s)
       /\ EnterStage(p, s, {r \in Recordings : Eligible(s, r)})
  /\ UNCHANGED <<database, lock, commands, crashes>>

\* Recording r of the list of stage s is next.
Turn(p, s, r) == job[p].pc = "next" /\ job[p].stage = s /\ r \in job[p].todo

EnterRouting(p, r) ==
  /\ Turn(p, "enter", r)
  /\ rec' = [rec EXCEPT ![r] = Transition(@, "routing")]
  /\ Leave(p, r)
  /\ UNCHANGED <<decision, attempts, transcript, language, summary, lock, commands, crashes>>

-----------------------------------------------------------------------------
(* Routing *)

\* `_apply_outcome': the automatic decision replaces the active one, and the
\* recording is ready, or waits for review.  A confident outcome carries the
\* model of its profile and is ready, unless the configuration makes automatic
\* suggestions wait; below the confidence threshold the suggested route is
\* stored as the profile name, without a model.
Decide(r, prof, confident, ready) ==
  /\ confident => prof # None
  /\ ready => confident
  /\ decision' = [decision EXCEPT ![r] =
       [ordinal |-> @.ordinal + 1, method |-> "automatic", profile |-> prof,
        model |-> confident, verified |-> FALSE]]
  /\ rec' = [rec EXCEPT ![r] = Transition(@, IF ready THEN "ready" ELSE "needs_review")]

\* Routing starts: skipped when archived, decided at once when routing is
\* disabled, parked when no usable source is found, else an attempt is created.
RouteOne(p, r) ==
  /\ Turn(p, "route", r)
  /\ \/ /\ Leave(p, r)
        /\ UNCHANGED database
     \/ /\ ~rec[r].archived
        /\ Decide(r, None, FALSE, FALSE)
        /\ Leave(p, r)
        /\ UNCHANGED <<attempts, transcript, language, summary>>
     \/ /\ ~rec[r].archived
        /\ attempts' = [attempts EXCEPT ![r] = Append(@, NewAttempt("routing", 0, NoLanguage, FALSE))]
        /\ TakeUp(p, r, "routing")
        /\ UNCHANGED <<rec, decision, transcript, language, summary>>
  /\ UNCHANGED <<lock, commands, crashes>>

RoutingFails(p) ==
  LET r == job[p].target IN
  /\ job[p].pc = "routing"
  /\ attempts' = [attempts EXCEPT ![r] = FinishAttempt(@, "failed")]
  /\ rec' = [rec EXCEPT ![r] = RecordFailure(@, "routing", transcript[r] # 0, Len(attempts[r]))]
  /\ Done(p)
  /\ UNCHANGED <<decision, transcript, language, summary, lock, commands, crashes>>

\* The attempt is saved as finished before, and apart from, the decision.
RoutingSucceeds(p) ==
  /\ job[p].pc = "routing"
  /\ attempts' = [attempts EXCEPT ![job[p].target] = FinishAttempt(@, "success")]
  /\ Goto(p, "outcome")
  /\ UNCHANGED <<rec, decision, transcript, language, summary, lock, commands, crashes>>

ApplyOutcome(p) ==
  /\ job[p].pc = "outcome"
  /\ \E prof \in Profiles \cup {None}, confident, ready \in BOOLEAN :
       Decide(job[p].target, prof, confident, ready)
  /\ Done(p)
  /\ UNCHANGED <<attempts, transcript, language, summary, lock, commands, crashes>>

-----------------------------------------------------------------------------
(* Transcription *)

\* A recording is taken up for transcription when it has a decision that names
\* a model; an unusable source parks it.
CanTranscribe(r) ==
  /\ ~rec[r].archived
  /\ rec[r].status \in {"ready", "transcribed", "failed"}
  /\ decision[r].model

\* The claim of the recording and its attempt are two commits.
TranscribeOne(p, r) ==
  /\ Turn(p, "transcribe", r)
  /\ \/ /\ Leave(p, r)
        /\ UNCHANGED rec
     \/ /\ CanTranscribe(r)
        /\ rec' = [rec EXCEPT ![r] = Transition(@, "transcribing")]
        /\ TakeUp(p, r, "claimed")
  /\ UNCHANGED <<decision, attempts, transcript, language, summary, lock, commands, crashes>>

BeginTranscription(p) ==
  /\ job[p].pc = "claimed"
  /\ attempts' = [attempts EXCEPT ![job[p].target] =
                    Append(@, NewAttempt("transcription", 0, NoLanguage, FALSE))]
  /\ Goto(p, "transcribing")
  /\ UNCHANGED <<rec, decision, transcript, language, summary, lock, commands, crashes>>

\* Normalization, MacWhisper, its timeout or the validation of its output fails.
TranscriptionFails(p) ==
  LET r == job[p].target IN
  /\ job[p].pc = "transcribing"
  /\ attempts' = [attempts EXCEPT ![r] = FinishAttempt(@, "failed")]
  /\ rec' = [rec EXCEPT ![r] =
               RecordFailure(@, "transcription", transcript[r] # 0, Len(attempts[r]))]
  /\ Done(p)
  /\ UNCHANGED <<decision, transcript, language, summary, lock, commands, crashes>>

\* The new transcript supersedes the active one; it has no language and no
\* summary yet.
TranscriptionSucceeds(p) ==
  LET r == job[p].target IN
  /\ job[p].pc = "transcribing"
  /\ attempts' = [attempts EXCEPT ![r] = FinishAttempt(@, "success")]
  /\ transcript' = [transcript EXCEPT ![r] = Len(attempts[r])]
  /\ language' = [language EXCEPT ![r] = Unobserved]
  /\ summary' = [summary EXCEPT ![r] = NoSummaries]
  /\ rec' = [rec EXCEPT ![r] = [@ EXCEPT !.status = "transcribed", !.failureStage = "",
                                         !.retranscriptionFailed = FALSE, !.lastFailed = 0,
                                         !.summaryStatus = "missing",
                                         !.resummarizationFailed = FALSE]]
  /\ Done(p)
  /\ UNCHANGED <<decision, lock, commands, crashes>>

-----------------------------------------------------------------------------
(* Summarization of the active transcript *)

CanSummarize(r, l, again) ==
  /\ ~rec[r].archived
  /\ transcript[r] # 0
  /\ l # NoLanguage
  /\ summary[r][l] = 0 \/ again

BeginSummary(p, r, l) ==
  /\ CanSummarize(r, l, job[p].regenerate)
  /\ attempts' = [attempts EXCEPT ![r] =
       Append(@, NewAttempt("summarization", transcript[r], l, job[p].cmd \in Batches))]

\* Skipped when it cannot be done or is switched off in the configuration.  The
\* original language, if nobody knows it, is detected first.
SummarizeOne(p, r) ==
  LET l == Requested(r, job[p].selector) IN
  /\ Turn(p, "summarize", r)
  /\ \/ /\ Leave(p, r)
        /\ UNCHANGED attempts
     \/ /\ ~rec[r].archived /\ transcript[r] # 0 /\ l = NoLanguage
        /\ attempts' = [attempts EXCEPT ![r] =
             Append(@, NewAttempt("summarization", 0, NoLanguage, FALSE))]
        /\ TakeUp(p, r, "detecting")
     \/ /\ BeginSummary(p, r, l)
        /\ TakeUp(p, r, "summarizing")
  /\ UNCHANGED <<rec, decision, transcript, language, summary, lock, commands, crashes>>

\* No variant is concerned by a detection: nothing is reconciled.
DetectionFails(p) ==
  /\ job[p].pc = "detecting"
  /\ attempts' = [attempts EXCEPT ![job[p].target] = FinishAttempt(@, "failed")]
  /\ Done(p)
  /\ UNCHANGED <<rec, decision, transcript, language, summary, lock, commands, crashes>>

\* The attempt and the language it found are two commits.
DetectionSucceeds(p) ==
  /\ job[p].pc = "detecting"
  /\ attempts' = [attempts EXCEPT ![job[p].target] = FinishAttempt(@, "success")]
  /\ Goto(p, "detected")
  /\ UNCHANGED <<rec, decision, transcript, language, summary, lock, commands, crashes>>

\* It may change the default language; the fields of the recording stay.
StoreDetectedLanguage(p) ==
  /\ job[p].pc = "detected"
  /\ \E l \in SourceLanguages :
       language' = [language EXCEPT ![job[p].target] = [language |-> l, by |-> "llm_detection"]]
  /\ Goto(p, "resolved")
  /\ UNCHANGED <<rec, decision, attempts, transcript, summary, lock, commands, crashes>>

\* The same call goes on with the language now known.
SummarizeDetected(p) ==
  LET r == job[p].target
      l == Requested(r, job[p].selector)
  IN /\ job[p].pc = "resolved"
     /\ \/ /\ ~CanSummarize(r, l, job[p].regenerate)
           /\ Done(p)
           /\ UNCHANGED attempts
        \/ /\ BeginSummary(p, r, l)
           /\ Goto(p, "summarizing")
     /\ UNCHANGED <<rec, decision, transcript, language, summary, lock, commands, crashes>>

\* The language of the summary that is being generated for recording r.
Generating(r) == attempts[r][Len(attempts[r])].language

\* The model is unreachable, answers too late or nothing valid, or the input is
\* too large: the attempt is finished and the state reconciled in one commit.
SummarizationFails(p) ==
  LET r == job[p].target
      l == Generating(r)
      atts == FinishAttempt(attempts[r], "failed")
  IN /\ job[p].pc = "summarizing"
     /\ attempts' = [attempts EXCEPT ![r] = atts]
     /\ rec' = [rec EXCEPT ![r] = Reconcile(r, atts, l, summary[r][l])]
     /\ Done(p)
     /\ UNCHANGED <<decision, transcript, language, summary, lock, commands, crashes>>

\* `persist_summary': refused, with no write, once the recording is archived.
SummarizationSucceeds(p) ==
  LET r == job[p].target
      l == Generating(r)
  IN /\ job[p].pc = "summarizing"
     /\ ~rec[r].archived
     /\ summary' = [summary EXCEPT ![r] = [@ EXCEPT ![l] = Len(attempts[r])]]
     /\ rec' = [rec EXCEPT ![r] = Reconcile(r, attempts[r], l, Len(attempts[r]))]
     /\ attempts' = [attempts EXCEPT ![r] = FinishAttempt(@, "success")]
     /\ IF language[r].language = NoLanguage THEN Goto(p, "persisted") ELSE Done(p)
     /\ UNCHANGED <<decision, transcript, language, lock, commands, crashes>>

\* The language the summary reports, if any, becomes that of a transcript that
\* had none, in a commit of its own; the fields of the recording stay.
StoreReportedLanguage(p) ==
  /\ job[p].pc = "persisted"
  /\ \/ UNCHANGED language
     \/ \E l \in SourceLanguages :
          language' = [language EXCEPT ![job[p].target] =
                         [language |-> l, by |-> "llm_detection"]]
  /\ Done(p)
  /\ UNCHANGED <<rec, decision, attempts, transcript, summary, lock, commands, crashes>>

-----------------------------------------------------------------------------
(* Commands on one recording *)

Performs(p, c) == job[p].pc = "perform" /\ job[p].cmd = c

RoutingFailed(row) == row.status = "failed" /\ row.failureStage = "routing"

CanRoute(row) ==
  /\ ~row.archived
  /\ row.status \in {"routing", "needs_review", "ready", "transcribed"} \/ RoutingFailed(row)

\* Mutant: a recording that waits for the router is left waiting.
RouteManuallyWaiting(r, prof) ==
  /\ decision[r].profile # prof
  /\ decision' = [decision EXCEPT ![r] =
       [ordinal |-> @.ordinal + 1, method |-> "manual", profile |-> prof,
        model |-> TRUE, verified |-> TRUE]]
  /\ rec' = IF rec[r].status # "routing" THEN [rec EXCEPT ![r].status = "ready"] ELSE rec

\* The user selected profile prof.  Selecting the active profile verifies the
\* decision in place; another profile appends a verified manual decision and
\* makes the recording ready, for a retranscription if it is transcribed.
RouteManually(r, prof) ==
  LET row == rec[r]
      cleared == [row EXCEPT !.status = "ready", !.failureStage = "",
                             !.retranscriptionFailed = FALSE]
      limbo == row.status \in {"needs_review", "routing"} \/ RoutingFailed(row)
  IN \/ /\ decision[r].profile = prof
        /\ decision' = [decision EXCEPT ![r] = [@ EXCEPT !.verified = TRUE]]
        /\ rec' = IF limbo THEN [rec EXCEPT ![r] = cleared] ELSE rec
     \/ /\ decision[r].profile # prof
        /\ decision' = [decision EXCEPT ![r] =
             [ordinal |-> @.ordinal + 1, method |-> "manual", profile |-> prof,
              model |-> TRUE, verified |-> TRUE]]
        /\ rec' = IF row.status # "ready" THEN [rec EXCEPT ![r] = cleared] ELSE rec

ManualRoute(p) ==
  LET r == job[p].target IN
  /\ Performs(p, "route")
  /\ \/ /\ ~CanRoute(rec[r])
        /\ Done(p)
        /\ UNCHANGED <<rec, decision>>
     \/ /\ CanRoute(rec[r])
        /\ RouteManually(r, job[p].profile)
        \* --transcribe-now goes on under the same lock if the recording is ready
        /\ \/ Done(p)
           \/ rec'[r].status = "ready" /\ GoOn(p, "transcribe", {r}, FALSE)
  /\ UNCHANGED <<attempts, transcript, language, summary, lock, commands, crashes>>

ConfirmRouting(p) ==
  LET r == job[p].target IN
  /\ Performs(p, "confirm")
  /\ decision' = IF decision[r] = NoDecision \/ rec[r].archived THEN decision
                 ELSE [decision EXCEPT ![r] = [@ EXCEPT !.verified = TRUE]]
  /\ Done(p)
  /\ UNCHANGED <<rec, attempts, transcript, language, summary, lock, commands, crashes>>

TranscribeCommand(p) ==
  LET r == job[p].target IN
  /\ Performs(p, "transcribe")
  /\ GoOn(p, "transcribe", {r} \cap {x \in Recordings : Eligible("transcribe", x)}, FALSE)
  /\ UNCHANGED <<database, lock, commands, crashes>>

SummarizeCommand(p) ==
  /\ Performs(p, "summarize")
  /\ GoOn(p, "summarize", {job[p].target}, job[p].regenerate)
  /\ UNCHANGED <<database, lock, commands, crashes>>

RetranscriptionFailed(row) == row.status = "transcribed" /\ row.retranscriptionFailed

SummaryFailed(row) ==
  /\ row.status = "transcribed" /\ ~RetranscriptionFailed(row)
  /\ row.summaryStatus = "failed" \/ row.resummarizationFailed

\* `retry': the failed stage is made eligible again and then run.  No failure
\* marker is cleared before the retry has an outcome.
Retry(p) ==
  LET r == job[p].target
      row == rec[r]
  IN
  /\ Performs(p, "retry")
  /\ \/ /\ \/ row.archived
           \/ /\ row.status # "failed" /\ ~RetranscriptionFailed(row) /\ ~SummaryFailed(row)
        /\ Done(p)
        /\ UNCHANGED rec
     \/ /\ ~row.archived /\ SummaryFailed(row)
        /\ GoOn(p, "summarize", {r}, row.resummarizationFailed)
        /\ UNCHANGED rec
     \/ /\ ~row.archived /\ RoutingFailed(row)
        /\ rec' = [rec EXCEPT ![r] = Transition(@, "routing")]
        /\ GoOn(p, "route", {r}, FALSE)
     \/ /\ ~row.archived
        /\ RetranscriptionFailed(row) \/ (row.status = "failed" /\ ~RoutingFailed(row))
        /\ rec' = [rec EXCEPT ![r] = [@ EXCEPT !.status = "ready", !.failureStage = ""]]
        /\ GoOn(p, "transcribe", {r}, FALSE)
  /\ UNCHANGED <<decision, attempts, transcript, language, summary, lock, commands, crashes>>

\* `set_transcript_language': the user corrects the language of the active
\* transcript, and the fields become those of the default that follows from it.
\* An unusable code, or no active transcript, is an error; archived is not.
SetLanguage(p) ==
  LET r == job[p].target IN
  /\ Performs(p, "set_language")
  /\ \/ UNCHANGED <<rec, language>>
     \/ /\ transcript[r] # 0
        /\ \E l \in SourceLanguages :
             LET default == DefaultOf([language |-> l, by |-> "user"], decision[r])
             IN /\ language' = [language EXCEPT ![r] = [language |-> l, by |-> "user"]]
                /\ rec' = [rec EXCEPT ![r] =
                     Derived(@, attempts[r], transcript[r], default, summary[r][default])]
  /\ Done(p)
  /\ UNCHANGED <<decision, attempts, transcript, summary, lock, commands, crashes>>

\* Refused while the recording has an unfinished attempt.
ArchiveRecording(p) ==
  LET r == job[p].target IN
  /\ Performs(p, "archive")
  /\ rec' = IF Unfinished(attempts[r]) # {} THEN rec
            ELSE [rec EXCEPT ![r] = [@ EXCEPT !.archived = TRUE]]
  /\ Done(p)
  /\ UNCHANGED <<decision, attempts, transcript, language, summary, lock, commands, crashes>>

RestoreRecording(p) ==
  /\ Performs(p, "restore")
  /\ rec' = [rec EXCEPT ![job[p].target] = [@ EXCEPT !.archived = FALSE]]
  /\ Done(p)
  /\ UNCHANGED <<decision, attempts, transcript, language, summary, lock, commands, crashes>>

-----------------------------------------------------------------------------
(* The specification *)

\* What the process does next while it holds the lock.
Step(p) ==
  \/ Recover(p) \/ RunRecover(p) \/ RunIngest(p) \/ SelectStage(p) \/ Finish(p)
  \/ \E r \in Recordings :
       EnterRouting(p, r) \/ RouteOne(p, r) \/ TranscribeOne(p, r) \/ SummarizeOne(p, r)
  \/ RoutingFails(p) \/ RoutingSucceeds(p) \/ ApplyOutcome(p)
  \/ BeginTranscription(p) \/ TranscriptionFails(p) \/ TranscriptionSucceeds(p)
  \/ DetectionFails(p) \/ DetectionSucceeds(p) \/ StoreDetectedLanguage(p)
  \/ SummarizeDetected(p) \/ SummarizationFails(p) \/ SummarizationSucceeds(p)
  \/ StoreReportedLanguage(p)
  \/ ManualRoute(p) \/ ConfirmRouting(p) \/ TranscribeCommand(p) \/ SummarizeCommand(p)
  \/ Retry(p) \/ SetLanguage(p) \/ ArchiveRecording(p) \/ RestoreRecording(p)

Start(p) ==
  \/ StartRun(p)
  \/ \E c \in Batches : StartBatch(p, c)
  \/ \E c \in RecordingCommands, r \in Recordings, prof \in Profiles \cup {None},
        sel \in Selectors, again \in BOOLEAN : StartCommand(p, c, r, prof, sel, again)

Next == \E p \in Procs : Start(p) \/ Step(p) \/ Crash(p)

Spec == Init /\ [][Next]_vars

\* A command that holds the lock goes on until it ends: MacWhisper and the
\* language model are called with timeouts.  The user gives `brain run' again
\* and again: nothing in the program schedules it.
Fairness ==
  /\ \A p \in Procs : WF_vars(Step(p))
  /\ WF_vars(\E p \in Procs : StartRun(p))

FairSpec == Spec /\ Fairness

-----------------------------------------------------------------------------
(* Properties *)

TypeOK ==
  /\ rec \in [Recordings -> RecordingRow]
  /\ decision \in [Recordings -> Decision]
  /\ attempts \in [Recordings -> Seq(Attempt)]
  /\ transcript \in [Recordings -> Nat]
  /\ language \in [Recordings -> TranscriptLanguage]
  /\ summary \in [Recordings -> [OutputLanguages -> Nat]]
  /\ lock \in Procs \cup {None}
  /\ job \in [Procs -> Job]
  /\ commands \in Nat
  /\ crashes \in Nat

\* The pc at which a process waits for an external call, and the attempt it has
\* open meanwhile.
Working == [routing |-> "routing", transcribing |-> "transcription",
            detecting |-> "summarization", summarizing |-> "summarization"]

\* An attempt without an outcome is the newest one of the recording on which the
\* lock holder is working, in the stage it is working on; or it was left behind
\* by a process that died, and then no command has got past recovery since.
\* (The schema allows one unfinished attempt per recording and stage; a second
\* one would make the next `create' raise.)
AttemptsOwned ==
  \A r \in Recordings : \A i \in Unfinished(attempts[r]) :
    \/ lock = None
    \/ job[lock].pc = "recover"
    \/ /\ job[lock].pc \in DOMAIN Working
       /\ job[lock].target = r
       /\ i = Len(attempts[r])
       /\ attempts[r][i].stage = Working[job[lock].pc]

\* The status of a recording agrees with its active transcript: none before the
\* first success (in particular a failed recording has none), one ever after,
\* whichever of the direct status writes, recoveries and retries came between.
StatusMatchesTranscript ==
  \A r \in Recordings :
    /\ rec[r].status = "transcribed" => transcript[r] # 0
    /\ transcript[r] # 0 => rec[r].status \in {"ready", "transcribing", "transcribed"}
    /\ rec[r].retranscriptionFailed => transcript[r] # 0
    /\ rec[r].failureStage # "" <=> rec[r].status = "failed"

\* The summary fields of the row are those of its default language: current
\* exactly when the active transcript has a summary in it, failed exactly when
\* its last attempt in it ended otherwise and there is none.
Truthful(r) ==
  LET row == rec[r]
      s == summary[r][Default(r)]
      failures == SummaryFailures(attempts[r], transcript[r], Default(r), s)
  IN /\ row.summaryStatus = "not_ready" <=> transcript[r] = 0
     /\ row.summaryStatus = "current" <=> s # 0
     /\ transcript[r] # 0 /\ s = 0 => (row.summaryStatus = "failed" <=> failures # {})
     /\ row.resummarizationFailed <=> (s # 0 /\ failures # {})

\* The step gives an outcome to an attempt at r's transcript in its default language.
DefaultAttemptEnds(r) ==
  \E i \in Unfinished(attempts[r]) :
    /\ attempts[r][i].transcript = transcript[r] /\ attempts[r][i].language = Default(r)
    /\ attempts'[r][i].outcome # "running"

\* The summary fields, true at first, become untrue only when the default
\* language of the transcript changes, by a routing decision or by the language
\* a model reported.  They are true again after the next attempt in the default
\* language has ended, well or not or by the death of its process, after the
\* next transcript, and as long as the language is one the user entered.
SummaryStatusTruthful ==
  /\ \A r \in Recordings : Truthful(r)
  /\ [][\A r \in Recordings :
          \/ Truthful(r) /\ Default(r)' = Default(r)
          \/ DefaultAttemptEnds(r)
          \/ transcript'[r] # transcript[r]
          \/ language'[r].by = "user"
          => Truthful(r)']_vars

\* A transcript is summarized automatically at most once in a language, and
\* a second time in another one only after the user has corrected its language:
\* `brain run' never repeats by itself what failed, what a dead process left
\* behind, or what a change of the default language has put out of date.
AutomaticSummaryOnce ==
  \A r \in Recordings : \A i, j \in DOMAIN attempts[r] :
    /\ attempts[r][i].automatic /\ attempts[r][j].automatic /\ i # j
    /\ attempts[r][i].transcript = attempts[r][j].transcript
    => /\ attempts[r][i].language # attempts[r][j].language
       /\ attempts[r][i].transcript = transcript[r] => language[r].by = "user"

\* The process that works on a recording finds it in the state it left it in:
\* the transitions it is about to make are legal.
WorkInPlace ==
  lock # None =>
    LET pc == job[lock].pc
        r == job[lock].target
    IN /\ pc \in {"routing", "outcome"} => rec[r].status = "routing"
       /\ pc \in {"claimed", "transcribing"} => rec[r].status = "transcribing"
       /\ pc \in DOMAIN Working
               \cup {"outcome", "claimed", "detected", "resolved", "persisted"} => ~rec[r].archived
       /\ pc \in {"detected", "persisted"} => language[r].language = NoLanguage

\* A profile the user selected is never replaced by the automatic router, which
\* may still be running, or run again after a crash or a retry.
ManualDecisionFinal ==
  [][\A r \in Recordings :
       decision[r].method = "manual" => decision'[r].method = "manual"]_vars

\* A failed recording comes back only at the user's request for that recording:
\* neither `brain run' nor recovery retries it.
FailedNeedsCommand ==
  [][\A r \in Recordings :
       rec[r].status = "failed" /\ rec'[r].status # "failed" =>
         /\ lock # None
         /\ job[lock].cmd \in {"retry", "route"} /\ job[lock].target = r]_vars

\* Nothing happens to an archived recording until it is restored: no stage, no
\* retry, no recovery changes its row, its decision, its attempts, its transcript
\* or its summaries.  The correction of the language alone goes through.
ArchivedFrozen ==
  [][\A r \in Recordings :
       rec[r].archived =>
         /\ decision'[r] = decision[r] /\ attempts'[r] = attempts[r]
         /\ transcript'[r] = transcript[r] /\ summary'[r] = summary[r]
         /\ \/ /\ rec'[r] = [rec[r] EXCEPT !.archived = rec'[r].archived]
               /\ language'[r] = language[r]
            \/ /\ lock # None /\ job[lock].cmd = "set_language" /\ job[lock].target = r
               /\ rec'[r].status = rec[r].status]_vars

\* Recovery is idempotent: the second one of `brain run' finds nothing to do.
RecoveryIdempotent == [][\A p \in Procs : RunRecover(p) => UNCHANGED database]_vars

\* Every status write of the pipeline follows the declared state machine.
FollowsStateMachine == Machine!MachineSpec

\* What a dead process left in flight is brought back to a safe state.
InFlight(r) == rec[r].status = "transcribing" \/ Unfinished(attempts[r]) # {}
InFlightEnds == \A r \in Recordings : InFlight(r) ~> ~InFlight(r)

\* A recording that was found is taken up for routing, unless it is archived.
DiscoveredIsRouted ==
  \A r \in Recordings :
    rec[r].status = "discovered" ~> (rec[r].status # "discovered" \/ rec[r].archived)

\* Violated: a recording that is ready has a decision that names a model.
ReadyNamesModel ==
  \A r \in Recordings : rec[r].status = "ready" => decision[r].model

\* Violated: the retranscription marker points at the failed transcription.
MarkerNamesTranscription ==
  \A r \in Recordings :
    rec[r].status = "transcribed" /\ rec[r].retranscriptionFailed =>
      /\ rec[r].lastFailed # 0
      /\ attempts[r][rec[r].lastFailed].stage = "transcription"
=============================================================================
