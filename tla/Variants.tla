------------------------------ MODULE Variants ------------------------------
(***************************************************************************)
(* The summaries of one recording: in each output language, of the whole   *)
(* recording and of each topic section of its layout.                      *)
(*                                                                         *)
(* Every operation holds the pipeline lock, so operations do not           *)
(* interleave; but a summary takes calls to a model between transactions,  *)
(* the process may die between any two of them, and a page submits a form  *)
(* that was rendered at any earlier time, once or several times.           *)
(* src/src/workflow/services/summarize.py, variant_state.py,               *)
(* segmentation.py, archive.py, web_actions.py.                            *)
(***************************************************************************)
EXTENDS Languages, Layouts

CONSTANTS
  Segments,          \* segments of every transcript
  SourceLanguages,   \* what a model may report and a user may enter
  RoutingDecisions,  \* active routing decisions the recording may have
  Payloads,          \* what the editor may submit
  Requested,         \* selectors that are asked for
  MaxTranscripts, MaxVersions, MaxAttempts, MaxCrashes, MaxChanges, MaxForms

ASSUME VariantsAssumption ==
  /\ Segments \in Nat \ {0}
  /\ NoLanguage \notin SourceLanguages /\ Requested \subseteq Selectors
  /\ \A l \in SourceLanguages : canonicalize_language(l) = l
  /\ {MaxTranscripts, MaxVersions, MaxAttempts, MaxCrashes, MaxChanges, MaxForms} \subseteq Nat

VARIABLES
  transcripts,       \* sequence of [language, by]; the last is the active one
  decisions,         \* the active routing decision, in a set
  versions,          \* sequence of [transcript, layout, active]
  archived,          \* the recording is archived
  archivedSections,
  attempts,          \* sequence of [section, language, outcome]; a detection has no language
  summaries,         \* sequence of [section, language, attempt, active]
  rows,              \* the variant rows: scope -> [status, regen, failed]
  recording,         \* summary_status, resummarization_failed, last_failed_attempt
  op,                \* the operation that holds the pipeline lock
  form,              \* the page a user has open
  crashes, changes, rendered   \* counters, for the bounds only

content == <<transcripts, decisions, versions, archived, archivedSections>>
results == <<attempts, summaries, rows, recording>>
counters == <<crashes, changes, rendered>>
vars == <<content, results, op, form, counters>>

-----------------------------------------------------------------------------
(* State *)

Ordinals == 0 .. Segments - 1
Today == "today"

\* A Section; version 0 is the fixed section of the whole transcript.
Whole(t) == [transcript |-> t, version |-> 0, ordinal |-> 0]
Topic(v, n) == [transcript |-> versions[v].transcript, version |-> v, ordinal |-> n]
TopicsOf(v) == {Topic(v, n) : n \in 1 .. TopicCount(versions[v].layout.splits)}
Topics == UNION {TopicsOf(v) : v \in DOMAIN versions}
Scope(section, language) == <<section, language>>

ActiveTranscript == Len(transcripts)
ActiveVersions(t) == {v \in DOMAIN versions : versions[v].transcript = t /\ versions[v].active}
CurrentLayout(t) == {versions[v].layout : v \in ActiveVersions(t)}

NewTranscript == [language |-> NoLanguage, by |-> Unset]
NoFailure == 0
NoSummary == [status |-> "missing", regen |-> FALSE, failed |-> NoFailure]
FailureOutcomes == {"failed", "interrupted"}
Unfinished == {a \in DOMAIN attempts : attempts[a].outcome = "running"}
NoOp == [pc |-> "idle", section |-> Whole(1), selector |-> "default", regenerate |-> FALSE,
         language |-> NoLanguage, attempt |-> 0]
NoForm == [kind |-> "none"]

\* Mutant: a command starts without recovering.
LockedWithoutRecovery == op.pc = "idle"

\* Under the lock and after `recover_interruptions' of the command that took it.
Locked == op.pc = "idle" /\ Unfinished = {}

\* The layout that is stored for a payload; `current' holds the one in use.
LayoutFor(t, payload, current) ==
  canonical_layout_from_rows([transcript |-> t, start |-> payload.start, end |-> payload.end], t, Ordinals,
                             save_segmented_version(t, payload, current, Ordinals, Today).rows)

Init ==
  /\ transcripts = <<NewTranscript>>
  /\ decisions \in RoutingDecisions
  \* a layout may have been saved before
  /\ versions \in {<<>>} \cup
       {<<[transcript |-> 1, active |-> TRUE, layout |-> LayoutFor(1, p, {})]>> : p \in Payloads}
  /\ archived = FALSE /\ archivedSections = {}
  /\ attempts = <<>> /\ summaries = <<>> /\ rows = [scope \in {} |-> {}]
  /\ recording = NoSummary
  /\ op = NoOp /\ form = NoForm
  /\ crashes = 0 /\ changes = 0 /\ rendered = 0

-----------------------------------------------------------------------------
(* variant_state.py *)

\* Mutant: failures that a later summary has made good are counted.
MatchingFailureOfAnyAge(atts, section, language, after) ==
  Max({NoFailure} \cup
      {a \in DOMAIN atts : /\ atts[a].outcome \in FailureOutcomes
                           /\ atts[a].section = section /\ atts[a].language = language})
\* The newest finished failure of exactly this scope, after an ordinal.
MatchingFailure(atts, section, language, after) ==
  Max({NoFailure} \cup
      {a \in DOMAIN atts : /\ atts[a].outcome \in FailureOutcomes /\ a > after
                           /\ atts[a].section = section /\ atts[a].language = language})

\* Mutant: a topic section in the default language counts as the recording.
FollowsRecordingInEverySection(section, language, trs, decs) ==
  /\ section.transcript = Len(trs)
  /\ language = resolve_default_language(trs[section.transcript], decs)
\* `is_default': the Recording follows only the whole section of its active
\* transcript, in the language that is the default at this moment.
FollowsRecording(section, language, trs, decs) ==
  /\ section.transcript = Len(trs) /\ section.ordinal = 0
  /\ language = resolve_default_language(trs[section.transcript], decs)

\* What the summaries and attempts of a scope amount to.
VariantState(section, language, atts, sums) ==
  LET active == {i \in DOMAIN sums : /\ sums[i].section = section /\ sums[i].language = language
                                     /\ sums[i].active}
      failure == MatchingFailure(atts, section, language, 0)
      newer(i) == MatchingFailure(atts, section, language, sums[i].attempt)
  IN IF active = {}
     THEN [status |-> IF failure = NoFailure THEN "missing" ELSE "failed",
           regen |-> FALSE, failed |-> failure]
     ELSE LET i == CHOOSE i \in active : TRUE
          IN [status |-> "current", regen |-> newer(i) # NoFailure, failed |-> newer(i)]

\* `reconcile_variant_state', over what the same transaction has written.
Reconcile(section, language, atts, sums, trs) ==
  LET state == VariantState(section, language, atts, sums)
      mine == Scope(section, language)
  IN /\ rows' = [scope \in DOMAIN rows \cup {mine} |-> IF scope = mine THEN state ELSE rows[scope]]
     /\ recording' = IF FollowsRecording(section, language, trs, decisions) THEN state ELSE recording

\* `recover_interruptions': the attempt of a dead process is closed, and its
\* failure counted for the scope the attempt names, if it names one.
Recover ==
  /\ op.pc = "idle"
  /\ \E a \in Unfinished :
       /\ attempts' = [attempts EXCEPT ![a].outcome = "interrupted"]
       /\ \/ /\ is_valid_output_identity(attempts[a].language)
             /\ Reconcile(attempts[a].section, attempts[a].language, attempts', summaries, transcripts)
          \/ ~is_valid_output_identity(attempts[a].language) /\ UNCHANGED <<rows, recording>>
  /\ UNCHANGED <<content, summaries, op, form, counters>>

-----------------------------------------------------------------------------
(* Summaries: summarize_one and summarize_section_one *)

OutputLanguage(section, selector) ==
  resolve_output_language(transcripts[section.transcript], decisions, selector)

\* Mutant: the sections of every layout of the transcript are live.
RequireTopicSection(section) ==
  /\ section.version # 0
  /\ section.transcript = ActiveTranscript
  /\ section \in TopicsOf(section.version)
RequireActiveTopicSection(section) ==
  /\ section.version # 0
  /\ section.transcript = ActiveTranscript
  /\ section \in TopicsOf(section.version) /\ versions[section.version].active

\* Skips and refusals of both functions.
MaySummarize(section) ==
  /\ ~archived
  /\ \/ section.version = 0 /\ section.transcript = ActiveTranscript
     \/ RequireActiveTopicSection(section) /\ section \notin archivedSections

HasActive(section, language) ==
  \E i \in DOMAIN summaries : /\ summaries[i].section = section /\ summaries[i].active
                              /\ summaries[i].language = language

BeginAttempt(section, language) ==
  /\ Len(attempts) < MaxAttempts
  /\ attempts' = Append(attempts, [section |-> section, language |-> language, outcome |-> "running"])

\* The attempt names its scope; tags were synchronized before (Tags).
StartGeneration(section, selector, regenerate) ==
  LET language == OutputLanguage(section, selector)
  IN \/ /\ HasActive(section, language) /\ ~regenerate
        /\ op' = NoOp
        /\ UNCHANGED attempts
     \/ /\ ~HasActive(section, language) \/ regenerate
        /\ BeginAttempt(section, language)
        /\ op' = [pc |-> "generating", section |-> section, selector |-> selector,
                  regenerate |-> regenerate, language |-> language, attempt |-> Len(attempts) + 1]

\* The original of an unknown language is detected first, in an attempt of its own.
StartDetection(section, selector, regenerate) ==
  /\ BeginAttempt(section, NoLanguage)
  /\ op' = [pc |-> "detecting", section |-> section, selector |-> selector,
            regenerate |-> regenerate, language |-> NoLanguage, attempt |-> Len(attempts) + 1]

StartSummary(section, selector, regenerate) ==
  /\ MaySummarize(section)
  /\ \/ OutputLanguage(section, selector) = NoLanguage /\ StartDetection(section, selector, regenerate)
     \/ OutputLanguage(section, selector) # NoLanguage /\ StartGeneration(section, selector, regenerate)

\* `brain summarize', and `brain run' with the default selector.
SummarizeRecording(selector, regenerate) ==
  /\ Locked
  /\ StartSummary(Whole(ActiveTranscript), selector, regenerate)
  /\ UNCHANGED <<content, summaries, rows, recording, form, counters>>

Finish(a, outcome) == attempts' = [attempts EXCEPT ![a].outcome = outcome]

DetectionFails ==
  /\ op.pc = "detecting"
  /\ Finish(op.attempt, "failed") /\ op' = NoOp
  /\ UNCHANGED <<content, summaries, rows, recording, form, counters>>

DetectionSucceeds(l) ==
  /\ op.pc = "detecting"
  /\ Finish(op.attempt, "success") /\ op' = [op EXCEPT !.pc = "detected", !.language = l]
  /\ UNCHANGED <<content, summaries, rows, recording, form, counters>>

SetLanguage(t, l, by) == transcripts' = [transcripts EXCEPT ![t] = [language |-> l, by |-> by]]

\* The language is committed before the summary is begun.
StoreDetectedLanguage ==
  /\ op.pc = "detected"
  /\ SetLanguage(op.section.transcript, op.language, "llm_detection")
  /\ op' = [op EXCEPT !.pc = "resolved"]
  /\ UNCHANGED <<decisions, versions, archived, archivedSections, results, form, counters>>

Generate ==
  /\ op.pc = "resolved"
  /\ StartGeneration(op.section, op.selector, op.regenerate)
  /\ UNCHANGED <<content, summaries, rows, recording, form, counters>>

\* `_finish_attempt_failure': the model failed or the input was too large.
GenerationFails ==
  /\ op.pc = "generating" /\ is_valid_output_identity(op.language)
  /\ Finish(op.attempt, "failed")
  /\ Reconcile(op.section, op.language, attempts', summaries, transcripts)
  /\ op' = NoOp
  /\ UNCHANGED <<content, summaries, form, counters>>

\* "und" is a source language but no output: the reconciliation inside the last
\* transaction raises, nothing is written and the attempt stays unfinished.
ReconciliationRaises ==
  /\ op.pc = "generating" /\ ~is_valid_output_identity(op.language)
  /\ op' = NoOp
  /\ UNCHANGED <<content, results, form, counters>>

\* Mutant: a new summary supersedes those in the other languages.
SupersededInEveryLanguage(section, language) ==
  [i \in DOMAIN summaries |->
     IF summaries[i].section = section THEN [summaries[i] EXCEPT !.active = FALSE] ELSE summaries[i]]

\* `persist_summary': the layout and the archive are looked at again.
Superseded(section, language) ==
  [i \in DOMAIN summaries |->
     IF summaries[i].section = section /\ summaries[i].language = language
     THEN [summaries[i] EXCEPT !.active = FALSE] ELSE summaries[i]]

PersistSummary ==
  /\ op.pc = "generating" /\ is_valid_output_identity(op.language)
  /\ MaySummarize(op.section)
  /\ Finish(op.attempt, "success")
  /\ summaries' = Append(Superseded(op.section, op.language),
                         [section |-> op.section, language |-> op.language,
                          attempt |-> op.attempt, active |-> TRUE])
  /\ Reconcile(op.section, op.language, attempts', summaries', transcripts)
  /\ LET unknown == op.section.version = 0 /\ transcripts[op.section.transcript].language = NoLanguage
     IN op' = IF unknown THEN [op EXCEPT !.pc = "persisted"] ELSE NoOp
  /\ UNCHANGED <<content, form, counters>>

\* `summarize_one' stores the language the model reported, in a transaction of its
\* own and without a reconciliation; or the model reported none that is one.
StoreReportedLanguage(l) ==
  /\ op.pc = "persisted"
  /\ \/ l = NoLanguage /\ UNCHANGED transcripts
     \/ l # NoLanguage /\ SetLanguage(op.section.transcript, l, "llm_detection")
  /\ op' = NoOp
  /\ UNCHANGED <<decisions, versions, archived, archivedSections, results, form, counters>>

-----------------------------------------------------------------------------
(* What changes the evidence *)

\* `set_transcript_language'
SetTranscriptLanguage(l) ==
  /\ Locked /\ changes < MaxChanges
  /\ SetLanguage(ActiveTranscript, l, "user")
  /\ Reconcile(Whole(ActiveTranscript),
               resolve_default_language(transcripts'[ActiveTranscript], decisions),
               attempts, summaries, transcripts')
  /\ changes' = changes + 1
  /\ UNCHANGED <<decisions, versions, archived, archivedSections, attempts, summaries, op, form,
                 crashes, rendered>>

\* A routing decision replaces the active one (Pipeline); no summary is looked at.
\* The recording is transcribed again or goes back to its transcript (Retranscribe or not).
Reroute(d) ==
  /\ Locked /\ ~archived /\ changes < MaxChanges /\ d # decisions
  /\ decisions' = d /\ changes' = changes + 1
  /\ UNCHANGED <<transcripts, versions, archived, archivedSections, results, op, form,
                 crashes, rendered>>

\* `_persist_transcript' activates a new transcript.
Retranscribe ==
  /\ Locked /\ ~archived /\ Len(transcripts) < MaxTranscripts
  /\ transcripts' = Append(transcripts, NewTranscript)
  /\ recording' = NoSummary
  /\ UNCHANGED <<decisions, versions, archived, archivedSections, attempts, summaries, rows,
                 op, form, counters>>

\* `archive_recording', `restore_recording'
ArchiveRecording ==
  /\ Locked /\ changes < MaxChanges
  /\ archived' = ~archived /\ changes' = changes + 1
  /\ UNCHANGED <<transcripts, decisions, versions, archivedSections, results, op, form,
                 crashes, rendered>>

Crash ==
  /\ op.pc # "idle" /\ crashes < MaxCrashes
  /\ op' = NoOp /\ crashes' = crashes + 1
  /\ UNCHANGED <<content, results, form, changes, rendered>>

-----------------------------------------------------------------------------
(* Forms.  A page carries the fingerprint of the state it was rendered from.
   `seen' and `generations' are no part of the form: what was on the page, and
   how many summaries the submissions of the form have begun. *)

\* Mutant: the fingerprint names the transcript only.
TranscriptFingerprint == [transcript |-> ActiveTranscript]
segmentation_fingerprint == [transcript |-> ActiveTranscript, versions |-> ActiveVersions(ActiveTranscript)]

\* The attempts of the section are found by the scope in their provenance, which
\* the attempts of a detection do not have; a count and the newest stand for all.
SectionAttempts(section) ==
  {a \in DOMAIN attempts : attempts[a].section = section /\ attempts[a].language # NoLanguage}
\* Mutant: the attempts are left out.
NoAttemptState(section) == <<>>
AttemptState(section) ==
  LET mine == SectionAttempts(section)
  IN [count |-> Cardinality(mine),
      latest |-> IF mine = {} THEN <<>> ELSE <<Max(mine), attempts[Max(mine)].outcome>>]

section_state_fingerprint(section) ==
  [archived |-> archived, sectionArchived |-> section \in archivedSections,
   section |-> section,
   language |-> transcripts[section.transcript],
   default |-> OutputLanguage(section, "default"),
   original |-> OutputLanguage(section, "original"),
   attempts |-> AttemptState(section),
   rows |-> {<<scope[2], rows[scope]>> : scope \in {s \in DOMAIN rows : s[1] = section}},
   summaries |-> {i \in DOMAIN summaries : summaries[i].section = section /\ summaries[i].active}]

section_restore_fingerprint(section) ==
  [archived |-> archived, sectionArchived |-> section \in archivedSections, section |-> section,
   transcriptActive |-> section.transcript = ActiveTranscript,
   layoutActive |-> versions[section.version].active]

\* `build_variant_view' for a section.
Mode(section, selector) ==
  LET mine == {scope \in DOMAIN rows : scope[1] = section}
      actionable == RequireActiveTopicSection(section) /\ section \notin archivedSections /\ ~archived
  IN ModeForSelector(TRUE, actionable, FALSE,
                     OutputLanguage(section, selector), OutputLanguage(section, "default"),
                     {summaries[i].language : i \in {j \in DOMAIN summaries :
                         summaries[j].section = section /\ summaries[j].active}},
                     [l \in {scope[2] : scope \in mine} |-> rows[Scope(section, l)].status],
                     recording.status)

Open(page) ==
  /\ rendered < MaxForms /\ rendered' = rendered + 1
  /\ form' = page
  /\ UNCHANGED <<content, results, op, crashes, changes>>

OpenEditor ==
  /\ ~archived
  /\ Open([kind |-> "layout", fingerprint |-> segmentation_fingerprint,
           seen |-> <<ActiveTranscript, CurrentLayout(ActiveTranscript)>>])
OpenSection(section, selector) ==
  /\ RequireActiveTopicSection(section) /\ Mode(section, selector) # "none"
  /\ Open([kind |-> "summary", section |-> section, selector |-> selector,
           mode |-> Mode(section, selector), fingerprint |-> section_state_fingerprint(section),
           generations |-> 0])
OpenArchive(section) ==
  /\ ~archived
  /\ \/ /\ section \in archivedSections
        /\ Open([kind |-> "restore", section |-> section,
                 fingerprint |-> section_restore_fingerprint(section)])
     \/ /\ section \notin archivedSections /\ RequireActiveTopicSection(section)
        /\ Open([kind |-> "archive", section |-> section,
                 fingerprint |-> section_state_fingerprint(section)])

\* No layout of the transcript is active any more.
Replaced(t) ==
  [i \in DOMAIN versions |-> [versions[i] EXCEPT !.active = versions[i].active /\ versions[i].transcript # t]]

\* `execute_segmentation_save' and `_save_locked'.
SaveLayout(payload) ==
  LET saved == save_segmented_version(ActiveTranscript, payload, CurrentLayout(ActiveTranscript),
                                      Ordinals, Today)
      v == [transcript |-> ActiveTranscript, active |-> TRUE,
            layout |-> LayoutFor(ActiveTranscript, payload, CurrentLayout(ActiveTranscript))]
  IN /\ Locked /\ Len(versions) < MaxVersions
     /\ form.kind = "layout"
     /\ form.fingerprint = segmentation_fingerprint
     /\ ~archived
     /\ saved.result = "saved"
     /\ versions' = Append(Replaced(ActiveTranscript), v)
     /\ UNCHANGED <<transcripts, decisions, archived, archivedSections, results, op, form, counters>>

\* `execute_section_summarize'
SummarizeSection ==
  /\ Locked
  /\ form.kind = "summary"
  /\ ~archived /\ form.section \notin archivedSections
  /\ RequireActiveTopicSection(form.section)
  /\ form.fingerprint = section_state_fingerprint(form.section)
  /\ form.mode = Mode(form.section, form.selector)
  /\ StartSummary(form.section, form.selector, form.mode = "regenerate")
  /\ form' = IF op'.pc = "generating" THEN [form EXCEPT !.generations = @ + 1] ELSE form
  /\ UNCHANGED <<content, summaries, rows, recording, counters>>

\* `execute_section_archive' with `archive_section' or `restore_section'.
ArchiveSection ==
  /\ Locked
  /\ form.kind = "archive" /\ ~archived
  /\ RequireActiveTopicSection(form.section)
  /\ form.fingerprint = section_state_fingerprint(form.section)
  /\ archivedSections' = archivedSections \cup {form.section}
  /\ UNCHANGED <<transcripts, decisions, versions, archived, results, op, form, counters>>

RestoreSection ==
  /\ Locked
  /\ form.kind = "restore" /\ ~archived
  /\ form.fingerprint = section_restore_fingerprint(form.section)
  /\ archivedSections' = archivedSections \ {form.section}
  /\ UNCHANGED <<transcripts, decisions, versions, archived, results, op, form, counters>>

-----------------------------------------------------------------------------

Next ==
  \/ Recover
  \/ \E selector \in Requested, regenerate \in BOOLEAN : SummarizeRecording(selector, regenerate)
  \/ DetectionFails
  \/ \E l \in SourceLanguages : DetectionSucceeds(l)
  \/ StoreDetectedLanguage
  \/ Generate
  \/ GenerationFails
  \/ ReconciliationRaises
  \/ PersistSummary
  \/ \E l \in SourceLanguages \cup {NoLanguage} : StoreReportedLanguage(l)
  \/ \E l \in SourceLanguages : SetTranscriptLanguage(l)
  \/ \E d \in RoutingDecisions : Reroute(d)
  \/ Retranscribe
  \/ ArchiveRecording
  \/ Crash
  \/ OpenEditor
  \/ \E section \in Topics, selector \in Requested : OpenSection(section, selector)
  \/ \E section \in Topics : OpenArchive(section)
  \/ \E payload \in Payloads : SaveLayout(payload)
  \/ SummarizeSection
  \/ ArchiveSection
  \/ RestoreSection

Spec == Init /\ [][Next]_vars

-----------------------------------------------------------------------------
(* Properties *)

Sections == {Whole(t) : t \in DOMAIN transcripts} \cup Topics
OutputLanguages == {l \in SourceLanguages : is_valid_output_identity(l)} \cup {English, ZhHant}
Failed(a) == attempts[a].outcome \in FailureOutcomes

Languages == SourceLanguages \cup {NoLanguage, English, ZhHant}
States == [status : {"missing", "failed", "current"}, regen : BOOLEAN, failed : Nat]

ContentTyped ==
  /\ transcripts \in Seq([language : SourceLanguages \cup {NoLanguage}, by : {Unset, "user", "llm_detection"}])
  /\ transcripts # <<>> /\ decisions \in RoutingDecisions
  /\ \A v \in DOMAIN versions : versions[v].transcript \in DOMAIN transcripts /\ versions[v].active \in BOOLEAN
  /\ archived \in BOOLEAN /\ archivedSections \subseteq Topics
AttemptsTyped ==
  attempts \in Seq([section : Sections, language : Languages, outcome : {"running", "success"} \cup FailureOutcomes])
SummariesTyped ==
  /\ summaries \in Seq([section : Sections, language : OutputLanguages, attempt : DOMAIN attempts, active : BOOLEAN])
  /\ \A i \in DOMAIN summaries : attempts[summaries[i].attempt].outcome = "success"
RowsTyped ==
  /\ DOMAIN rows \subseteq Sections \X OutputLanguages /\ rows \in [DOMAIN rows -> States]
  /\ recording \in States
OpTyped ==
  /\ op \in [pc : {"idle", "detecting", "detected", "resolved", "generating", "persisted"}, section : Sections,
             selector : Selectors, regenerate : BOOLEAN, language : Languages, attempt : {0} \cup DOMAIN attempts]
  /\ \A a, b \in Unfinished : a = b

\* The types of the variables; a summary is of an attempt that succeeded, a row of
\* a section there is and a language that may be an output, and one attempt at
\* the most is unfinished, whoever died.
TypeOK == ContentTyped /\ AttemptsTyped /\ SummariesTyped /\ RowsTyped /\ OpTyped

\* In every committed state the row of a scope says what its summaries and failed
\* attempts say, across crashes, recoveries, new layouts, transcripts and languages:
\* it is `current' exactly when a summary is active, and blames exactly the newest
\* failure of that scope that no later summary of it has made good.
\* (reconcile_variant_state, src/src/workflow/services/variant_state.py:168-288)
RowsExplained ==
  \A section \in Sections, l \in OutputLanguages :
    LET scope == Scope(section, l)
        mine == {i \in DOMAIN summaries : summaries[i].section = section /\ summaries[i].language = l}
        open == {a \in DOMAIN attempts :
                   /\ Failed(a) /\ attempts[a].section = section /\ attempts[a].language = l
                   /\ \A i \in mine : summaries[i].attempt < a}
    IN /\ mine # {} \/ open # {} => scope \in DOMAIN rows
       /\ scope \in DOMAIN rows =>
            /\ (rows[scope].status = "current") <=> (mine # {})
            /\ (rows[scope].status = "failed") <=> (mine = {} /\ open # {})
            /\ rows[scope].regen <=> (mine # {} /\ open # {})
            /\ IF open = {} THEN rows[scope].failed = NoFailure
               ELSE rows[scope].failed \in open /\ \A a \in open : a <= rows[scope].failed

\* A scope that was ever summarized has exactly one active summary, the newest one:
\* no other language, section, failure, layout or transcript takes it away.
\* (persist_summary, src/src/workflow/services/summarize.py:1312-1319)
NewestSummaryIsActive ==
  \A i \in DOMAIN summaries :
    summaries[i].active <=>
      \A j \in DOMAIN summaries :
        summaries[j].section = summaries[i].section /\ summaries[j].language = summaries[i].language
          => j <= i

\* The summary state of the recording changes only to that of the variant that is at
\* this moment the default of the active transcript, or to nothing with a new
\* transcript: never to that of a section, of another language, of an old transcript
\* or of a default an attempt was started under.
\* (src/src/workflow/services/variant_state.py:253-287, docs/project-status.md:2516-2519)
RecordingFollowsDefault ==
  [][recording' # recording =>
       \/ Len(transcripts') > Len(transcripts) /\ recording'.status = "missing"
       \/ LET t == Len(transcripts')
              scope == Scope(Whole(t), resolve_default_language(transcripts'[t], decisions'))
          IN scope \in DOMAIN rows' /\ recording' = rows'[scope]]_vars

\* A new layout replaces the layout that was on the page it was edited on: a form of
\* an older layout or transcript, or the same form once more, saves nothing.
\* (execute_segmentation_save, src/src/workflow/services/web_actions.py:1333-1362)
LayoutReplacesWhatWasSeen ==
  [][Len(versions') > Len(versions) => form.seen = <<ActiveTranscript, CurrentLayout(ActiveTranscript)>>]_vars

\* Work on a topic section is begun, stored or archived only while the section is
\* one of the layout in use: old layouts are history, whatever page asks.
\* (require_active_topic_section, src/src/workflow/services/segmentation.py:514-573)
InUse(section) ==
  /\ section.transcript = ActiveTranscript
  /\ \E v \in ActiveVersions(ActiveTranscript) : section \in TopicsOf(v)
  /\ section \notin archivedSections /\ ~archived
HistoryIsReadOnly ==
  [][\A section \in {attempts'[a].section : a \in DOMAIN attempts' \ DOMAIN attempts}
                    \cup {summaries'[i].section : i \in DOMAIN summaries' \ DOMAIN summaries}
                    \cup (archivedSections' \ archivedSections) :
       section.version # 0 => InUse(section)]_vars

\* One form of a section begins at most one summary in a known language, however
\* often it is submitted and however its first submission ended.
\* (section_state_fingerprint, src/src/workflow/services/web_actions.py:733-877)
OneSummaryPerForm == form.kind = "summary" => form.generations <= 1

=============================================================================
