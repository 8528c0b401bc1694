# Brain: a TLA+ model of the transcript workflow

Brain turns audio recordings found in an inbox into transcripts (MacWhisper),
summaries (a local language model), topic sections, tags and a searchable
library. It is a Django application over one SQLite database, driven by a command
line (`brain ...`) and by a local web server. This directory models its
concurrent and persistent core, checks it with TLC and proves the central
invariants with TLAPS. Sources are named relative to `src/src/workflow/services/`
unless a path says otherwise.

## Inventory

| Component | State | Operations | What makes it correct |
|---|---|---|---|
| Pipeline (`pipeline.py`) | the `Recording` row, its active `RoutingDecision` | recover, ingest, route, transcribe, retry, manual route, confirm, run | statuses agree with transcripts; no failure is retried unasked; the user's decision is final; nothing stays in flight |
| Status machine (`statemachine.py`) | none of its own | `transition`, `record_failure` | every status write of the program is an edge of the table |
| Lock (`pipeline_lock.py`) | a `flock` | take without waiting, release, release at process death | at most one command works; a recovery never touches the work of a live process |
| Attempts (`transcription.py`, `summarize.py`) | `ProcessingAttempt` rows, numbered per stage | create, finish, interrupt | an unfinished attempt has an owner, or waits for recovery |
| Summaries (`summarize.py`, `variant_state.py`) | `Summary`, `SummaryVariantState`, summary fields of the recording | summarize, persist, reconcile, detect language, set language | the fields say what summaries and attempts in the default language say, unless that has changed; one automatic attempt per transcript and language |
| Web actions (`web_actions.py`) | a rendered page with a state fingerprint | render, submit, refuse, accept | a stale form is not executed; a duplicate submission repeats no success (but see finding 3) |
| Archive (`archive.py`) | `archived_at` of recordings and sections | archive, restore | nothing happens to what is archived, but for a correction of its language |
| Ingest (`ingest.py`) | `AudioSource` rows, the inbox | discover, observe, hash, attach, detach, reconcile | a recording is the content of its sources; no torn read is hashed; one canonical source |
| Source validation (`pipeline.py`) | reads and repairs sources | validate before routing and transcription | content that changed is never processed under the old identity |
| Segmentation (`segmentation.py`) | versions of a layout, sections | save, activate, archive section | sections partition the transcript; one active layout |
| Tags (`tags.py`) | `Tag`, `TagAssignment` | sync, add, confirm, suppress, create, select, materialize | what the user did survives regeneration |
| Search index (`search_index.py`, `search_sync.py`) | registry and full text table | reconcile after commit, rebuild, status | the index equals the database, or a callback, a failure or a status says that it does not |
| Embedding index (`embedding_index.py`, `embedding_sync.py`) | generations, vectors | rebuild, validate, promote, repair, sync | at most one active generation, complete when promoted |
| Search and Ask (`search_query.py`, `search_fusion.py`, `semantic_query.py`, `ask.py`) | none, but many reads without a lock | keyword, semantic and hybrid search, Ask | what is shown is of one state; an answer cites what still stands; ranking is deterministic and bounded |
| Library (`query.py`, `review.py`, `views/library_return.py`) | none | list, filter, count, review, return to a list | filters partition the items; links and signed tokens lead back to the same list |
| Router (`routing.py`, `audiosamples.py`) | none | sample, transcribe with three candidates, gate, classify | an automatic route is one that nothing observed contradicts |
| Generation of a summary (`chunking.py`, `summarize.py`) | none | plan chunks, ask, repair, reduce, merge | a summary stands on every chunk, once and in order, within bounded requests |
| Languages (`langresolve.py`, `languages.py`) | none | canonicalize, resolve | Python and SQL agree |

How they interact. A command of the command line and a web action are the same
thing: take the pipeline lock (or give up: exit code 3, page 409), recover what a
dead process left, do the work, release the lock. Inside, stages communicate
through the database only: a stage selects rows by status, works on each, and
writes statuses the next stage selects by. Pages are rendered, and tags edited,
without the lock. Search synchronization runs in `on_commit` callbacks.

What is hard. A process can die between any two transactions. External calls take
minutes and lie between the transaction that opens an attempt and the one that
stores its result. Most status writes bypass `transition`. Markers are spread
over seven columns of the recording, written by five functions. Forms are
submitted long after they were rendered. The default output language of a transcript
is derived anew at each use, while the summary fields of its recording are stored.
`PROJECT.json` lists these hazards line
by line, with the property that covers each one, or why none does yet.

## Modules

| Module | Contents |
|---|---|
| `StatusMachine` | the abstract specification of statuses: legal edges, and that a transcript is never lost |
| `Pipeline` | the core: rows, lock, commands, stages, recovery, archive; properties |
| `WebActions` | extends `Pipeline` by one browser page and its fingerprint |
| `Variants` | one recording in every output language and topic section: detection, generation, storage, recovery, layouts, corrections, late pages |
| `Layouts`, `Languages` | operators `Variants` is built from: trim & split layouts; language policy |
| `Tags` | tag definitions and assignments: the model suggests, the user decides, without a lock |
| `Ingest` | files, sources, the stability wait, hashing, attachment, and the validation before a stage |
| `SearchIndex` | operators: the documents the database calls for, reconciliation, rebuild, status |
| `GenerationStore` | the abstract specification of the embedding generations |
| `IndexSync` | callbacks after commits, rebuild, promotion and repair of both indexes |
| `Search` | semantic search, hybrid search and Ask, read by read, next to commits |
| `Selection` | operators: candidate selection, ranking, counting, fusion |
| `Sorting` | what `sorted` returns; `Selection`, `Layouts` and `Library` list with it |
| `Router` | operators: the automatic router as a function of what it observes |
| `Generation` | operators: the plan of chunks, the request protocol, reduction (recursive) |
| `Library` | operators: filters, items, review page and badge, links and tokens, cards |
| `AlgorithmChecks`, `LibraryChecks` | the operators against reference definitions over bounded inputs |
| `MC*` | instances for TLC |
| `PipelineProofs` | theorems about `Pipeline` |
| `WebActionsProofs` | theorems about `WebActions`, on top of those |
| `AlgorithmProofs` | theorems about the operators of `Router`, `Selection`, `Library`, `Layouts` and `Languages` |
| `TagsProofs` | theorems about `Tags` |
| `SearchProofs` | theorems about `Search` |
| `IndexSyncProofs` | lemmas about `SearchIndex`, theorems about `IndexSync` |
| `IngestProofs` | theorems about `Ingest` |
| `VariantsProofs` | theorems about `Variants` |

The modules share no state: a component that a second one only observes is there
in the abstraction the second one needs. `Pipeline` takes the router's outcome as
a choice, and `Router` says which outcomes there are; the lock of `Pipeline` is a
single `op` in `Variants` and `Ingest`, for which the proofs of `Pipeline`
(`Held`) are the reason; the synchronization every writer schedules is an action
of `IndexSync`, a flag in `Tags` and a commit in `Search`.

### `Pipeline`

`rec[r]`, `decision[r]`, `attempts[r]`, `transcript[r]`, `language[r]`, `summary[r]`
stand for the `Recording` row, the active `RoutingDecision`, the `ProcessingAttempt`
rows in the order of their creation, the active transcript, the language stored with it
and who named it, and its active summary in each output language; transcripts and
summaries are named by the attempt that made them (0 if there is none). `lock` is the flock and
`job[p]` what process `p` executes: its `pc`, the stages a batch command still has
before it, the list `todo` it works off and the recording it is in.

Every transaction of the code is one action. Transcribing, for example, is
`TranscribeOne` (the status, `pipeline.py:662-696`), `BeginTranscription` (the
attempt, `transcription.py:446`), then `TranscriptionFails` (`_finish_failure`) or
`TranscriptionSucceeds` (`_persist_transcript`); `Crash` may come between any two.
A stage evaluates its query once (`SelectStage`) and then works off the result in
any order. A summary takes up to four commits: the detection of an unknown original
language (`DetectionSucceeds`), the language it found (`StoreDetectedLanguage`), the
attempt (`BeginSummary`) and the summary with its reconciliation
(`SummarizationSucceeds`); if the transcript still had no language, the one the
model reports is stored in one more (`StoreReportedLanguage`). An exception that escapes a command has
the effect of `Crash`: no further statement runs and the lock is freed.

`Default(r)` is `resolve_default_language`, computed from the language and the decision
at each use as in the code. `Reconcile` writes the fields of the recording only for an
event in that language (`variant_state.py:257-262`); a reroute, a confirmation, a
detection and a reported language change the default and write nothing, so that the
fields may be about an older default. `SetLanguage` (`brain transcript-language --set`)
reconciles the new default in its own transaction. It makes a transcript `missing`
again when there is no summary in the new default (`tests/test_multilingual_correction.py`),
and a run then summarizes it.

Abstracted: the content of transcripts and summaries; which source file is read
(an unusable one parks the recording, which is the "skipped" disjunct of
`RouteOne` and `TranscribeOne`); the score of the router (any outcome); topic sections,
whose attempts, forms and variant rows are in `Variants`; the source language `und`, in
which no summary can be stored (`SourceLanguages` has canonical tags of any kind, the
refusal is in `Variants`); search synchronization.
`ingest` is several transactions in the code; a run that dies in the middle of it
has made fewer recordings, which `RunIngest` allows by choosing any subset.

### `WebActions`

`form` is the page: the recording, the fingerprint it carries, what it offers for each
language selector (`first`, `retry_summary` or `regenerate`, `OfferedMode`) and, for the
properties, the failed stage it shows, how many attempts and which summaries there
were. The fingerprint has what `state_fingerprint` has: of the summaries that in the
default language and the set of languages that have one, of the attempts the one that
is first by an ordinal counted per stage. `Render` needs no lock. `Submit` takes it like any command; after the recovery
`RefuseForm` or `AcceptForm` compares fingerprints (`execute_web_action`), and only
then the action itself runs, by the actions of `Pipeline`; for a summary the mode is
derived again under the lock (`Mode`) and has to be the one of the form (`Permitted`). The comparison and the
action are two steps here but run under one lock. A page is not rendered while a
submission of it is being compared: a second page would be a second form, and
one is enough to submit it twice.

### `Variants`, `Layouts`, `Languages`

One recording, its transcripts, the versions of its layouts, its summaries and
variant rows. `op` is the operation that holds the pipeline lock: language
detection, generation, storage, the language the model reports, and
reconciliation are separate transactions, and `Crash` may come between any two.
`form` is one page opened at any time and submitted any number of times. A row is
computed by `reconcile_variant_state` in the transaction that stores a result, so
the reconciliation is part of that action; what a recovery reconciles is part of
`Recover`. `Layouts` has what a submitted layout may be, what is stored, and the two
readers of a stored layout, Python and SQL (`SavedLayoutsAreRead` in `LibraryChecks`
says that both read back what was saved); `Languages` the two resolutions of
`default` and `original`.

### `Tags`

The rows of one recording and of its sections over two layouts, the tag
definitions, and `indexed`, what the keyword index has of them. A web edit is one
action: the code repeats a contended transaction as a whole. `request` is a tag
that was read for an edit before the transaction (its scope may be archived or
replaced in between), `op` the summary being written and the tags that were offered
to the model when it was started. `scheduled` is the callback of the commit.

### `Ingest`

`disk` is the inbox as it is, changed by the user between any two steps;
`sources` the `AudioSource` rows. A stamp stands for size and modification time.
`op` walks through a pass, one transaction or one access to the file system a
step: reconciliation, scan, hashing (a read may be torn: any digest of what the
file was during the read), attachment, and the validation before routing or
transcription, which ends by saving the row it was started with. `op.ranked` is which
sources were canonical when the list of them was read: they are tried first, and a
later write goes by that reading. `silent` counts changes that size and time do not
show. `unreckoned` and `unranked` are ghosts: the recordings for which a
`_recalculate_recording` is owed, be it for the audio status or for the choice of
a canonical source (the one for a file that is gone makes no choice).

### `SearchIndex`, `IndexSync`, `GenerationStore`

`SearchIndex` computes from the rows of a recording the documents it calls for; a
content hash is represented by the document it is the hash of. In `IndexSync` an
`Edit` commits and its process then runs its callback, while others commit: the
keys before, the reconciliation, the keys that are gone, page by page the missing
vectors, a request, and a write that reads rows and generation again. `Locked` is
the holder of the pipeline lock, which also rebuilds and repairs; editors of tags
have no lock. Where the code only logs (a failed reconciliation, a suppressed
sync), a ghost variable remembers it for the properties. `GenerationStore` is what
the searches rely on, and `ImplementsStore` the refinement.

### `Search`, `Selection`

`db` is the database with its version, `op` the query in progress, each read of
it a step, as the connection reads without a transaction. `Begin` to `Recheck`
make the query ready, `SelectCandidates` to `LookupTitles` are the keyword
component, `CountVectors` to `VerifyGeneration` the semantic one, and Ask goes on
with its evidence and the model. Ask looks at its evidence twice, by five statements
without a transaction each time (`LookAtOwners` to `LookAtSectionSummaries`), which
are steps between which others commit; the reads of the documents' rows and of the
section of a summary are steps before them. `Selection` has the two engines and the fusion as
functions of what matched.

### `Router`, `Generation`, `Library`

Functions. `Router` maps windows, transcripts as counts, and answers of the
classifier to an outcome. `Generation` maps lengths and replies to the requests and
the result. `Library` maps query parameters and recordings to items, counts,
links and tokens. `AlgorithmChecks` and `LibraryChecks` state what they are for as
assumptions, which TLC evaluates in the run `search`.

## Runs

| Run | Instance | Shows |
|---|---|---|
| `pipeline` | 1 recording, a Chinese and a European profile, a Chinese and an English source, 2 processes, 2 commands besides any number of `run`, 2 process deaths | the safety and action properties, and that `Pipeline` implements `StatusMachine` |
| `pipeline_live` | 1 recording, 1 profile, 2 processes, 2 commands, 1 death | nothing stays in flight; what was discovered is routed |
| `web` | 1 recording, a European profile, a Cantonese source, a web and a command-line process, 2 commands, 1 death | no form repeats a success the fingerprint can notice; a retry retries what the page showed |
| `variants` | 2 segments, 2 transcripts, 2 layouts, 2 attempts, 1 crash, 1 change of language or route, 2 forms | variant rows, active summaries, the recording's fields, late pages |
| `tags` | 2 tags, a limit of 2, 2 summaries, 2 layouts, 2 edits | user decisions, suggestions, the index |
| `ingest` | 2 paths, 2 contents, 3 changes, one of them silent, 1 crash | sources, hashes, what a stage reads, and that the wait ends |
| `index` | 1 recording in 3 versions, 1 editor and the lock holder, 2 models, batches of 3, 2 edits, 1 failure or death, 2 generations, 1 change of the model | both indexes, promotion, the refinement, convergence |
| `search` | 4 documents of 2 recordings, 3 commits | results of one state, evidence that stands; the checks of the pure algorithms |
| `ready_without_model`, `marker_lost`, `duplicate_submission`, `ingest_stuck` | violations | see Findings |

Bounds. `MaxCommands` bounds the explicit commands, `MaxCrashes` the deaths; `brain
run` is not bounded, and attempts are bounded by both, because no stage retries by
itself. Recordings share nothing but the lock and the job of its holder, so one
recording shows what the stages do to a row, and the proofs hold for any number. Two
commands and two deaths, with runs between them, are enough for the scenarios the
properties are about: a reroute or a correction that changes the default of a
transcript with a summary, a failure or an attempt left behind, a failure and its retry,
an archive and a retry, and deaths in the work and in the next run. Two source languages, one Chinese and
one not, give every default and an original of either kind; `web` has the Chinese one
only: a recording routed as European is first summarized in English, and once its
language is known its default is Chinese, with an English summary beside it.

In `index` two edits are what it takes to have a commit during the callback or the
rebuild of another one, two generations what a promotion supersedes; a batch of
three lies between the numbers of documents of the versions, so that there are one page
and two. In `tags` two summaries are one that is replaced or overtaken, and two
layouts one that is history; a tag is enough per role. In `variants` two versions
are a layout and its replacement, two attempts a failure and its repetition. In
`ingest` two paths are a copy, and two contents a replacement; three changes are a
write, its replacement and a deletion or return. In `search` a commit takes
the place of a change, its synchronization, a promotion or an archive, and the
longest query lies between any two; the four documents are a title, a segment of a topic
section of its recording, and of another recording the summary of a section and
of the whole.

Symmetry is used in safety runs only (`pipeline`, `tags`).

Deadlock is not checked where the bounds let the system stop (`index`, `variants`,
`tags`, `ingest`).

Fairness.
- `Pipeline`: a process that holds the lock takes its steps (external
  calls have timeouts: `timeout_for`, the HTTP timeout of the model client), and
  `brain run` is given again and again. The second is an assumption about the user
  (or a scheduler outside the repository): nothing in the program starts it, and
  without it nothing is ever recovered. Both are weak fairness of actions that stay
  enabled.
- `IndexSync`: a callback goes on, as its requests have timeouts. No command is
  assumed: what converges does so by callbacks alone.
- `Ingest`: a pass or validation that was begun goes on, time passes, and ordinary
  passes are made again and again, also when other commands take turns (strong
  fairness). Passes with `--now` are not assumed.

## Properties

- `AttemptsOwned`, `WorkInPlace`: what a stage relies on when its external call
  returns, minutes after it read the row.
- `StatusMatchesTranscript`: status, failure stage, retranscription marker and
  active transcript agree, whichever path wrote them.
- `SummaryStatusTruthful`: the summary fields are those of the default language at
  first; only a change of that language makes them untrue; and they are true again after
  the next attempt in it has ended, by an outcome or by a death and the recovery,
  after a new transcript, and after a correction by the user. That they may stay untrue
  in between is the code's doing (`PROJECT.json`, at `summarize.py:1684`).
- `AutomaticSummaryOnce`: at most one automatic attempt per transcript and language, and
  none in a second language unless the user has corrected the language of the
  transcript. A reroute or a detected language does not cause another attempt.
- `ManualDecisionFinal`, `FailedNeedsCommand`, `ArchivedFrozen`,
  `RecoveryIdempotent`: what no step may do.
- `FollowsStateMachine`: refinement of `StatusMachine`.
- `InFlightEnds`, `DiscoveredIsRouted`: liveness.
- `SuccessInvalidatesForm`, `RetriesStageShown`: what the fingerprint does achieve. Every
  success ends the form it could be repeated from, except for what `Overlooked` names: a
  new version of a summary that was there in another language than the default
  (see Findings), and a detection whose language was not stored because its process died.
- `RowsExplained`: a variant row says what summaries and failures of its scope say.
  `NewestSummaryIsActive`; `RecordingFollowsDefault`: the recording's fields change only
  to those of the variant that is the default at that moment.
- `LayoutReplacesWhatWasSeen`, `HistoryIsReadOnly`, `OneSummaryPerForm`: late pages
  neither overwrite a newer layout, nor touch old sections, nor begin a summary
  twice. The last speaks of a known language: a form of a section in an unknown one can
  begin a detection and, submitted once more, a summary.
- `UserDecisionsStand`, `SuggestionsAreCurrent`, `OneLiveScopeChanges`,
  `TagChangesReachIndex`: tags, against summaries that are written meanwhile.
- `SourcesReconciled`, `HashesAreTrusted`, `StageReadsItsRecording`, `WaitEnds`: files
  that change between any two steps. `HashesAreTrusted` needs that size and time
  tell contents apart; `StageReadsItsRecording` does not, as the validation hashes.
- `SearchStaleExplained`, `UncoveredExplained`: nothing is stale without a callback
  in progress, a failure or a documented no-op. `PromotedIsCurrent`: computed page
  by page, complete at promotion. `ImplementsStore`; `Converges` (liveness).
- `ResultsAreOfOneState`, `AnswerEvidenceStands`: many reads without a transaction. The
  second says of each part of the evidence only that it stood at some moment after the
  model had answered, which is all that five statements one after the other can give.

Checked as assumptions, over bounded inputs: the heap of the semantic engine
selects what selecting from everything would (`StreamingSelectsTheBest`), counts and
truncation marks are exact or say they are not, fusion respects ranks; chunks cover
a transcript, summaries stand on every chunk, requests are bounded; every item has
one status, filters partition, links and tokens lead back to the same list, a
found document belongs to the item that shows it.

## Findings

1. `ready_without_model`. A low-confidence route is stored with the suggested
   profile and without a model. Selecting that very profile takes the
   "already active" branch of `manual_route`, which makes the recording ready
   and leaves the model empty; `transcribe_one` then skips it for ever.
2. `marker_lost`. `last_failed_attempt` serves both the retranscription marker and
   the summary reconciler, which overwrites it.
3. `duplicate_submission`. The newest attempt of the fingerprint is chosen by an
   ordinal that is counted per stage.
4. `ingest_stuck`. A file that is gone when it is to be hashed loses the time since
   which it was stable, and ordinary passes never set it again: when it comes
   back it waits for ever, unless a pass is made with `--now`.

Smaller divergences between code and text, met while modelling and visible in the
definitions:

- `brain transcript-language --set` (`summarize.py:2088-2168`) does not test `archived_at`,
  as the other commands do: it changes the language and the summary fields of an archived
  recording, although "explicit pipeline mutations refuse safely" (`models.py:178-179`,
  `archive.py:23`). `ArchivedFrozen` excepts it.
- The fingerprint of a page knows that there is a summary in a language, but not which
  one, unless the language is the default (`web_actions.py:227`). A form that regenerates
  another one is accepted again after it has succeeded, while an attempt of a stage with
  more attempts stands for the newest one (finding 3); the docstring (lines 204-207) says
  that cannot be. `SuccessInvalidatesForm` excepts it (`Overlooked`).
- `routing.py:185-201` and the comment at `test_routing.py:70-71` call the script weak
  evidence that never decides alone; when neither candidate has a marker and both are in
  traditional script, it does (`ScriptAloneDecides`).
- `audiosamples.py:136-141` says "Works for any PCM width/channels", but its callers
  (lines 243-245) leave the width at two bytes: 8- and 32-bit samples are read as 16-bit
  ones, and an odd number of bytes raises (`OnlySixteenBitsAreUnderstood`).
- `chunking.py:16-18`: a chunk that is exactly full passes no overlap on
  (`AFullChunkPassesNothingOn`).
- `_reduce_layer` "fails cleanly BEFORE any HTTP call"; a single partial summary that is
  too large is found only after others were reduced (`TooLargeIsFoundLate`).
- A recording of up to 45 seconds has windows that touch, and rounding makes them one or
  leaves three; one window never passes the gate (`WindowsAreApart`,
  `OneWindowNeedsTheClassifier`). `MAX_CLASSIFIER_CALLS = 3` is never reached
  (`ClassifierIsAskedTwice`).
- `query.py:1708` excludes over a relation with many rows: a recording that was transcribed
  anew, split, summarized by section and joined again is in neither of the two lists
  "with" and "without summary" (`SummaryListsLeaveSomeOut`).
- `context_processors.py:21-45` says page and badge "cannot drift"; the badge counts a
  recording with a failed retranscription whose retry is under way, the page does not
  (`BadgeCountsTheReview`).
- The keyword search has no final comparison of `data_version`; only the hybrid search,
  whose semantic component has one, is in `ResultsAreOfOneState`.
- A change of a tag's spelling by `sync_tags` schedules no synchronization, so the index
  keeps the old one until something else does; and a synchronization that overlaps one of
  the same recording can leave a vector of a document that is gone
  (`embedding_sync.py:127`), which `repair` removes. `TagChangesReachIndex` and
  `UncoveredExplained` are stated for what is promised beside these.

## Proofs

### `Pipeline`

`PipelineProofs` proves, for every number of recordings, profiles, processes, commands and deaths, from the assumption that `None` is not one of them, the
Chinese profiles are profiles, the source languages are canonical tags and the two bounds
are numbers:

| Theorem | Says |
|---|---|
| `TypeCorrect` | `Spec => []TypeOK` |
| `Invariance` | `Spec => []Inv` |
| `StatusTruthful` | `Spec => []StatusMatchesTranscript` |
| `AttemptsHaveOwner` | `Spec => []AttemptsOwned` |
| `WorkStaysInPlace` | `Spec => []WorkInPlace` |
| `ManualChoiceFinal` | `Spec => ManualDecisionFinal` |
| `FailedStaysFailed` | `Spec => FailedNeedsCommand` |
| `ArchivedStayFrozen` | `Spec => ArchivedFrozen` |
| `SecondRecoveryIdle` | `Spec => RecoveryIdempotent` |
| `ImplementsStateMachine` | `Spec => FollowsStateMachine` |
| `SummaryTruthful` | `Spec => SummaryStatusTruthful` |
| `AutomaticOnce` | `Spec => []AutomaticSummaryOnce` |

The argument. None of the properties is inductive alone: that a transcription
finds its recording in `transcribing` depends on no other process being past
the recovery, on the recording not being archived meanwhile, and on the status
having matched the transcript before. `Inv` has three layers. `JobsConsistent`:
exactly the lock holder executes a command, and its job is well formed. `RowSafe`
speaks of one recording whatever runs: it contains the status property, that an
archived recording has nothing to recover, and that a manual decision never goes
with a status from which the router is reached. `Held` speaks of one recording
and the lock holder past its recovery: only what it is working on is in flight,
and the recordings of its list still have the status for which they were
selected. `RowSafe` survives process deaths; `Held` is re-established by every
recovery (`RecoveredSafe`, `InvRecovered`).

`InvOne` is the frame argument: a step that touches one recording only has to
show `RowSafe` and `Held` for that one. Each action then has a lemma of its own,
and `InvStep` collects them. `TypeCorrect` is proved first, with the invariant of
jobs, since every other lemma needs the types.

The second part classifies what a step of a command can do to one recording
(`Fate`, `StepFate`): nothing, create it, recover it, archive or restore it, or work
on it, which it does only while it is not archived and along the edges of the state
machine. The step properties and the refinement are read off that classification;
`MachineSteps` adds from `Inv'` that `failed` goes without and `transcribed` with a
transcript. `ArchivedStayFrozen` needs one more invariant, `Known`: ingest cannot
touch an archived recording, since no command names one that does not exist.

The third part, on summaries, has an invariant of its own, `SummaryInv`, inductive
relative to `Inv`. `Ancestry` says that an attempt is younger than the transcript it
summarizes, so that a new transcript, named by the newest attempt, has none, and an
attempt at an older one cannot become one at the active one again; `Provenance`, that a
success has left a summary. With these, what ends an attempt in the default language
derives the fields anew (`Faithful`), and every other step keeps what they are derived
from. A recovery does so for the attempt that was left behind, which `Pending` says is
one at the active transcript. `Entered` is the case of a language the user entered: no
route and no model changes the default any more, so that the fields stay true. For
`AutomaticSummaryOnce`, `Untried` says that `missing` means no batch has ever tried the
transcript, unless the user has corrected it; then `missing` is true by `Entered`, and
no attempt in that language was made, by a batch or by anybody (`MissingMeansUntried`).
`Expects` carries `missing` from the moment a batch selects its list to the moment it
takes a recording off it, and `Directed` that a batch asks for the default language,
which is never unknown: a batch detects nothing.

### `WebActions`

`WebActionsProofs` extends that to the pages, for any set of web processes:

| Theorem | Says |
|---|---|
| `WebInvariance` | `WebSpec => []WebInv`, and so `Inv` |
| `SuccessEndsForm` | `WebSpec => SuccessInvalidatesForm` |
| `RetryIsOfStageShown` | `WebSpec => RetriesStageShown` |

`WebSpec` does not imply `Spec`: a refused form ends its command by a step that no
command has. `Inv` and `SummaryInv` are therefore shown of that step separately. The rest
is about what the fingerprint leaves out. `Phase` divides the life of a recording at its
first decision: before it there are attempts of the router only, and no step leads back
(`Course` is what any step may do to a recording, one lemma per action). `PageHolds`
relates a page to that life: an attempt of the router that is younger than the page
means that the page shows no decision, and a younger success that is `Noticeable` has
left something that the page does not have: a transcript, a summary in a language
that had none, or a newer one in a language that had. An accepted form shows the present
transcript, languages, decision and default summary (`Shows`); so nothing but the router
can have succeeded, on a recording still undecided, or what `Overlooked` names
(`UnnoticedSuccess`). On an undecided recording all attempts are the router's, the ordinal
counted per stage is the position, and the fingerprint names the newest attempt after
all (`LastAttemptType`). It is only later that it does not, which is finding 3.
The failed stage is not in the fingerprint, but the decision is, and of two failed stages
the router's is the one without a decision.

### `Router`

`AlgorithmProofs` begins with the router. For every configuration, observation and
answer it proves:

| Theorem | Says |
|---|---|
| `AutomaticRouteIsSupported` | an automatic route is one nothing observed contradicts |
| `ReadyDecisionNamesItsModel` | a decision that lets a recording be transcribed unasked names a model |
| `GateNeedsMarkers` | no route by the gate without a colloquial marker of its language |
| `ScriptAloneDecides` | the divergence above, as a fact |
| `ClassifierIsAskedTwice` | at most two requests, whatever is answered |
| `WindowsAreApart` | windows are in order, within the recording, and never overlap |
| `OneWindowNeedsTheClassifier` | a recording sampled in one window never passes the gate |

They need no induction: each follows from the definitions by cases, with the
arithmetic of scores and windows in lemmas of its own. `AlgorithmChecks` shows that
none of them is about nothing (`EveryReasonOccurs`).

### `Selection`

Of the engines of the searches and of their fusion, for any rows, hits and limits:

| Theorem | Says |
|---|---|
| `TruncationIsReported` | the keyword engine reports a truncation exactly when it left a row out |
| `SearchListsTheBest` | keyword results are ordered, bounded, one per unit, and lose nothing silently |
| `HeapKeepsTheBest` | the heap of the semantic engine has the best of what was offered; pushes commute |
| `GroupKeepsTheBest` | so does a group, for each of its units |
| `FusionRespectsRanks` | the fusion is a strict order that respects both rankings |
| `FusionListsEachOnce` | fused results are ordered, bounded, name each identity once, and lose nothing silently |

Their hypotheses are what the queries return: rows of finitely many documents with
their types (`IsRows`) and term counts (`Scored`), entries whose keys differ because a
key ends in the document (`IsEntries`), hits with a rank (`Hits`), bounds of at least
one row. Three of the statements need a word. The code adds the fractions of a fused
score in floating point, the model exactly: for ranks up to 200, the most a component
returns, floating point never reverses two exact scores, but it tells some apart that are
equal (ranks 6 and 39 against 12 and 28), so that those two do not come in the order
of their identities. `TruncationIsReported` is about rows that matched, `SearchListsTheBest`
about what the user reads: `truncated` false means that whatever is not shown stands
behind a full page. And the theorems on heap and group are about one push each: that a
whole stream leaves the best, a fold, takes induction and is checked by TLC.

The argument is one of positions. Each order of the code is a strict total one
(`EntriesAreOrdered`, `FusionIsAnOrder`); so the elements of a finite set
have as many different numbers of predecessors as there are elements, and by
cardinality every number below that is taken. A list in which an element stands behind
as many as are less is then in order, without repetitions, and has them all. That is
also how `Sorting` defines `Sorted`: `SetToSortSeq` of the community modules chooses
among all permutations and leaves nothing to reason about. A window function with
`row_number() <= limit` is such a position too, so the bounds per unit
and in all count the rows they keep; `OfferKeepsTheBest` says that what a full heap
throws out stands behind all that it keeps.

### `Layouts`, `Library`, `Languages`

Of what Python and SQL compute twice:

| Theorem | Says |
|---|---|
| `ReadersAgree` | of whatever rows are stored, both readers believe a layout or neither |
| `SavedLayoutsAreRead` | what was saved is read back as it was, and saving it again changes nothing |
| `SegmentsAreFoundOnce` | in a layout that SQL believes, a segment of the range leads to exactly one item |
| `SqlResolvesLikePython` | both resolutions of the default output language agree |

The readers differ in kind: Python goes through the rows in their order and compares
each with the one before, SQL asks of every row for the maximum of those below it. They
agree since ordinals are unique in a version (a constraint of the table, `IsSections`),
so that the rows below the first wrong one rise (`Rising`) and their maximum is the
last of them. Finite ranges have a least bad row because numbers are well founded; that
takes the place of induction. `SavedLayoutsAreRead` goes from the submitted payload,
sorted by `Ascending`, to rows and back; the titles the server gave carry the date of
the first save, which does no harm on a later one because the code compares a payload
with what is active before it looks at titles. `SegmentsAreFoundOnce` takes the intervals of such rows, which partition the range, into the items of a
search. `SqlResolvesLikePython` is a case analysis of two chains of conditions, for a
transcript whose language is stored canonically (`langresolve.py:96-101`).
`LibraryChecks` and `AlgorithmChecks` check most of these on bounded inputs as well.

### `Tags`

`TagsProofs` assumes of the constants what `TagsAssumption` says, and proves for
any tags and scopes:

| Theorem | Says |
|---|---|
| `TagsTypeCorrect` | `Spec => []TypeOK` |
| `SuggestionsStayCurrent` | `Spec => []SuggestionsAreCurrent` |
| `IndexHearsOfTags` | `Spec => TagChangesReachIndex` |
| `UserDecisionsStay` | `Spec => UserDecisionsStand` |
| `OneScopeChanges` | `Spec => OneLiveScopeChanges` |

`Inv` says what a row may look like (`Shape`) and that the scope of the summary
that is being written stays in use while it is (`Writing`): layout and archive wait
for the lock, while edits of tags do not. Every edit makes rows of one scope the
user's (`UserEdit`), and materialization leaves behind what the model suggests and
the user has not decided (`SuggestedBy`); the four properties follow from these two.

### `Search`

`SearchProofs` proves, for any finite set of documents, any owners and any number
of commits, `SearchesSeeOneState` (`Spec => ResultsAreOfOneState`) and
`AnswersCiteWhatStands` (`Spec => AnswerEvidenceStands`). The invariant makes the
argument of the code explicit. `Read` says, place by place, what a query has learnt
if nothing was committed since it took its `data_version` (`Fresh`): the sources
compared so far are indexed as they are; a query that was not embedded has nothing in
its scope; the traversal has been through all rows up to `last`, each with its
vector. That the vectors are no more than the documents follows from the count at
the end alone, by cardinality of finite sets. A commit of anybody raises the version
and so makes `Fresh` false for good: no action of another process has to be looked
at beyond that (`CommitKeepsInv`). What is not `Fresh` is refused by
`VerifyVersion`. Ask is different, since it answers in spite of commits, and the
property speaks of moments that are past: `stood` collects what has been true of
the evidence since the model answered, and `Evidence` says that it contains what is
true now, at every moment, and what each statement of the last look has found.

### `SearchIndex`, `IndexSync`

`IndexSyncProofs` assumes `IndexAssumption`: a document key is made of primary keys,
so that it tells the recording and, of one version of the recording, the document;
and the database has an order of all keys. For any recordings, versions, processes,
batch size and numbers of commits and failures it proves

| Theorem | Says |
|---|---|
| `IndexInvariance` | `Spec => []IndexInv` |
| `IndexTypeCorrect` | `Spec => []TypeOK` |
| `StaleRowsAreExplained` | `Spec => []SearchStaleExplained` |
| `MissingVectorsAreExplained` | `Spec => []UncoveredExplained` |
| `PromotionsAreCurrent` | `Spec => PromotedIsCurrent` |
| `GenerationsImplementStore` | `Spec => ImplementsStore` |

It begins with the facts about one transaction: a reconciliation makes of a
recording what the database calls for and leaves the rows and texts of the others
(`ReconciledIsExpected`, `ReconciledLeavesOthers`, `ReconciledKeepsTexts`), and a
healthy `status`, which compares keys by two unlike queries, means that the index
equals what the database calls for (`HealthyIsWanted`).

None of the properties is inductive. `IndexInv` adds what each part may rely on.
`Validated`: what a rebuild validated is still so unless `data_version` has moved,
since every commit of another process moves it and the lock's holder is the rebuild;
hence a promotion, which reads it again under the write lock, is of the current
database. `JobHolds`: the generation under construction is nobody else's, as
callbacks write only into active ones, and its vectors lie before the next page.
`CallbackHolds` and `Covering`: a document of the active generation has its vector,
or is of a recording given up, or a callback will come to it: it has not begun yet,
or the document is after its last page or in its batch. For that, pages skip nothing
(`PageSkipsNothing`, by the order of the keys) and a write takes no present
document's vector away (`CoveredStays`). A rebuild of the keyword index may bring
rows that have no vector; they are of recordings the index was wrong about, for which
a callback is due or a failure is recorded for both indexes: `StaleExplained` is
stronger than the property for this reason.

### `Ingest`

`IngestProofs` proves, for any paths, contents and number of changes and crashes:

| Theorem | Says |
|---|---|
| `IngestInvariant` | `Spec => []IngestInv` |
| `TypeCorrect` | `Spec => []TypeOK` |
| `RecordingsFollowSources` | `Spec => []SourcesReconciled` |
| `DigestsAreTrue` | `Spec => []HashesAreTrusted` |
| `StagesReadTheirRecording` | `Spec => []StageReadsItsRecording` |

Files change between any two steps, so the invariant says what an operation knows in
spite of it. `IngestHolds` and `StageHolds` speak of rows, which only the holder of
the lock writes: the path that is hashed is attached to nothing, those a validation
still has before it are present sources of its recording, and the audio status it has
read is right unless a recalculation is owed. `ReadHolds` speaks of the file: what was
seen before a read is still there unless the file was touched since. What size and
time tell is a chain of stamps: no stamp is from the future (`DiskStamps`, `RowStamps`,
`OpStamp`), so a change that shows in them takes a stamp that neither a row nor the
operation has; `RowsTrusted` and `ReadTrusted` draw the conclusion, under `silent = 0`.
`StageReadsItsRecording` needs none of that, as the validation hashes what it hands on.

The proof splits every step in two. What it does to the rows is one of few kinds
(rows kept, one row saved that is attached, loose or detached, ranks recalculated, an
audio status stored), and each kind keeps `AudioStatusTrue`, `OneCanonical`, types and
trust (`DataSteps`); what it does to the operation is a lemma per action (`...Inv`).

### `Variants`

`VariantsProofs` proves, for any number of segments, languages, transcripts, layouts,
attempts and crashes:

| Theorem | Says |
|---|---|
| `VariantsInvariant` | `Spec => []VariantsInv` |
| `TypeCorrect` | `Spec => []TypeOK` |
| `RowsAreExplained` | `Spec => []RowsExplained` |
| `NewestIsActive` | `Spec => []NewestSummaryIsActive` |
| `FormsAreUsedOnce` | `Spec => []OneSummaryPerForm` |
| `RecordingOnlyFollowsDefault` | `Spec => RecordingFollowsDefault` |
| `LayoutsReplaceWhatWasSeen` | `Spec => LayoutReplacesWhatWasSeen` |
| `HistoryIsNotWritten` | `Spec => HistoryIsReadOnly` |
| `PersistRecheckAgrees` | `Spec => [](op.pc = "generating" => MaySummarize(op.section))` |

`OpHolds`: the attempt of the operation that holds the lock is the newest and the only
unfinished one. `OpLive`: what could be summarized when the operation began can be
when it ends, as layout and archive wait for the lock; the second look that
`persist_summary` takes therefore never differs, which is `PersistRecheckAgrees`.
`SummariesInOrder` makes the newest attempt the newest summary. With these,
reconciling one scope computes what `RowsExplained` demands (`VariantStateExplains`),
and a step keeps the summaries and failures of every other scope (`SameEvidence`); the
sections of a new layout have none. `FormHolds` is what a page remembers: layouts
there were, and a count of attempts. A generation begun from a form raises that
count for good, so that the form does not match again.

## Plan

The components the repository's core consists of are modelled. What remains, in
this order:

1. Lemmas for every input about what is only evaluated so far: links and filters of
   `Library` beyond those of a search by segments, and the plan of chunks, which would
   have to be written without recursion first.
2. `Transcription runner`: which JSON is accepted.
3. Several recordings in one `Library` request with paging.

## Not modelled

Rendering and exports, diagnostics, configuration parsing, schema migrations, the
network clients: they keep no state of their own, or run once before any command.
Vector encoding is floating-point arithmetic. The SQL of the engines and the
folding of text are abstracted to the rows and terms that match. `PROJECT.json`
lists every component with the reason.

Every safety invariant and action property that a run checks is also proved. Only
model-checked: liveness (`InFlightEnds`, `DiscoveredIsRouted`, `Converges`,
`WaitEnds`), which needs fairness and ENABLED and so is out of the reach of TLAPS
here; `Generation`, whose reduction is recursive; the folds of a whole stream of
documents in `Selection`, which take induction over data; and those assumptions of
`AlgorithmChecks` and `LibraryChecks` that no theorem above states for every input:
pages and links, tokens, badges, titles and the agreement of filters.
