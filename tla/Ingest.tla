------------------------------- MODULE Ingest -------------------------------
(***************************************************************************)
(* From files in the inbox to recordings, and back: what is in the inbox   *)
(* is found, watched until it is stable, hashed and attached to the        *)
(* recording of its content; and before a recording is processed its file  *)
(* is looked up and hashed again.                                          *)
(*                                                                         *)
(* One process at a time holds the pipeline lock, and may die between any  *)
(* two of its transactions.  The user's files know no lock: every stat and *)
(* every read of the process finds them as they are at that moment.        *)
(* src/src/workflow/services/ingest.py, pipeline.py.                       *)
(***************************************************************************)
EXTENDS Naturals

CONSTANTS
  Paths,             \* paths of the inbox: numbers, in the order of their length
  Contents,          \* what a file may contain; a recording is named by its content
  MaxChanges,        \* changes of files, and of storage.inbox, by the user
  MaxSilent,         \* of these, changes to a size and a time that there were before
  MaxCrashes

Torn == "torn"       \* a digest of parts of two contents
Empty == "empty"
ZeroSize == 0        \* the stamp of an empty file, which is never attached

\* The stamp of a file is its size and modification time: the number of the
\* change that brought them.
Stamps == 0 .. MaxChanges
Absent == [content |-> "absent", stamp |-> 0]

ASSUME IngestAssumption ==
  /\ Paths \subseteq Nat \ {0}
  /\ {Torn, Empty, "absent", "none", ""} \cap Contents = {}
  /\ {MaxChanges, MaxSilent, MaxCrashes} \subseteq Nat

VARIABLES
  disk,              \* path -> file
  inbox,             \* the paths that are in the configured inbox
  sources,           \* the AudioSource rows: path -> row
  audio,             \* audio_status is present: of each recording there is
  op,                \* the operation that holds the pipeline lock
  changes, silent, crashes,   \* counters, for the bounds only
  unreckoned,        \* recordings with a change of a source that their audio status does not count
  unranked           \* recordings with a source that came back, and no choice of a canonical one since

env == <<disk, inbox>>
counters == <<changes, silent, crashes>>
owed == <<unreckoned, unranked>>
vars == <<env, sources, audio, op, counters, owed>>

-----------------------------------------------------------------------------
(* State *)

Recordings == DOMAIN audio
Known == DOMAIN sources
NoRecording == "none"
Nothing == ""

NewRow(stamp) ==
  [recording |-> NoRecording, state |-> "observing", present |-> TRUE, canonical |-> FALSE,
   stamp |-> stamp, since |-> "recent"]

\* A row with other values in the columns that are written together.
Discovery(row, state, since) == [row EXCEPT !.state = state, !.since = since]
Placed(row, present, canonical) == [row EXCEPT !.present = present, !.canonical = canonical]
Restamped(row, stamp) == [row EXCEPT !.stamp = stamp]
Attached(row, recording) == [row EXCEPT !.recording = recording, !.state = "hashed"]

\* ranked: the sources that were canonical when the operation read its list of
\* them; before: the file at the first stat; read: its digest; next: where to go
\* on; audio: the audio status in the row a stage was started with; owed: that row
\* was to be recalculated.
NoOp == [pc |-> "idle", respect |-> TRUE, todo |-> {}, ranked |-> {}, path |-> 0, before |-> Absent,
         read |-> Nothing, recording |-> NoRecording, canonical |-> FALSE, next |-> "idle",
         touched |-> FALSE, audio |-> TRUE, owed |-> FALSE]

Init ==
  /\ disk = [p \in Paths |-> Absent] /\ inbox = Paths
  /\ sources = [p \in {} |-> {}] /\ audio = [r \in {} |-> TRUE]
  /\ op = NoOp /\ changes = 0 /\ silent = 0 /\ crashes = 0 /\ unreckoned = {} /\ unranked = {}

\* The table f with value v in the row of x.
Stored(f, x, v) == [y \in DOMAIN f \cup {x} |-> IF y = x THEN v ELSE f[y]]
Save(path, row) == sources' = Stored(sources, path, row)

PresentOf(r, srcs) == {p \in DOMAIN srcs : srcs[p].recording = r /\ srcs[p].present}

\* `_record_audio_status'
AudioStatus(r, srcs) == PresentOf(r, srcs) # {}

\* Mutant: a source that is not preferred any more stays canonical.
PreferredToo(r, srcs) ==
  [p \in DOMAIN srcs |->
     IF p \in PresentOf(r, srcs) /\ \A q \in PresentOf(r, srcs) : p <= q
     THEN Placed(srcs[p], TRUE, TRUE) ELSE srcs[p]]
\* `_ensure_canonical': the shortest of the present paths; missing ones are not looked at.
EnsureCanonical(r, srcs) ==
  [p \in DOMAIN srcs |->
     IF p \in PresentOf(r, srcs)
     THEN Placed(srcs[p], TRUE, \A q \in PresentOf(r, srcs) : p <= q) ELSE srcs[p]]

\* The recording is recalculated; when a file is gone, no other one is made canonical.
Recalculated(r, srcs, canonical) ==
  /\ sources' = IF canonical THEN EnsureCanonical(r, srcs) ELSE srcs
  /\ audio' = Stored(audio, r, AudioStatus(r, srcs))
  /\ unreckoned' = unreckoned \ {r}
  /\ unranked' = IF canonical THEN unranked \ {r} ELSE unranked

-----------------------------------------------------------------------------
(* The user's files, and time *)

Change(p, file) ==
  /\ changes < MaxChanges /\ changes' = changes + 1
  /\ disk' = [disk EXCEPT ![p] = file]
  /\ op' = [op EXCEPT !.touched = @ \/ (op.path = p /\ op.pc \in {"hash_read", "validate_read", "stage"})]

\* A file is created, replaced or changed; size and time are new, or they are
\* those of an earlier file.
WriteFile ==
  /\ \E p \in Paths, content \in Contents, stamp \in 1 .. changes + 1 :
       /\ content # disk[p].content
       /\ silent' = IF stamp <= changes THEN silent + 1 ELSE silent
       /\ Change(p, [content |-> content, stamp |-> stamp])
  /\ silent' <= MaxSilent
  /\ UNCHANGED <<inbox, sources, audio, crashes, owed>>

EmptyFile ==
  /\ \E p \in Paths : disk[p].content # Empty /\ Change(p, [content |-> Empty, stamp |-> ZeroSize])
  /\ UNCHANGED <<inbox, sources, audio, silent, crashes, owed>>

DeleteFile ==
  /\ \E p \in Paths : disk[p] # Absent /\ Change(p, Absent)
  /\ UNCHANGED <<inbox, sources, audio, silent, crashes, owed>>

\* Another inbox is configured, or a link in it leads elsewhere.
MoveInbox ==
  /\ changes < MaxChanges /\ changes' = changes + 1
  /\ op.pc = "idle"
  /\ \E p \in Paths : inbox' = IF p \in inbox THEN inbox \ {p} ELSE inbox \cup {p}
  /\ UNCHANGED <<disk, sources, audio, op, silent, crashes, owed>>

\* file_stable_seconds pass.
Elapse ==
  /\ \E p \in Known : sources[p].since = "recent"
  /\ sources' = [p \in Known |-> IF sources[p].since = "recent"
                                 THEN Discovery(sources[p], sources[p].state, "elapsed") ELSE sources[p]]
  /\ UNCHANGED <<env, audio, op, counters, owed>>

-----------------------------------------------------------------------------
(* `ingest' *)

Idle == op.pc = "idle"
Canonical == {p \in Known : sources[p].canonical}

\* An ordinary pass, or one of `brain run --now'; the known sources are read at once.
StartIngest(respect) ==
  /\ Idle
  /\ op' = [NoOp EXCEPT !.pc = "reconcile", !.respect = respect, !.todo = Known, !.ranked = Canonical]
  /\ UNCHANGED <<env, sources, audio, counters, owed>>

\* First every known source: did its file go, or come back?
ReconcileSame(p) ==
  /\ p \notin inbox \/ sources[p].present = (disk[p] # Absent)
  /\ op' = [op EXCEPT !.todo = @ \ {p}]
  /\ UNCHANGED <<sources, owed>>

\* The whole row is saved as it was read, before its recording is recalculated.
ReconcileMoved(p) ==
  LET row == sources[p]
      back == disk[p] # Absent
  IN /\ p \in inbox /\ row.present # back
     /\ Save(p, Placed(row, back, p \in op.ranked))
     /\ \/ /\ row.recording = NoRecording
           /\ op' = [op EXCEPT !.todo = @ \ {p}]
           /\ UNCHANGED owed
        \/ /\ row.recording # NoRecording
           /\ op' = [op EXCEPT !.pc = "recalculate", !.next = "reconcile", !.recording = row.recording,
                               !.canonical = back, !.todo = @ \ {p}]
           /\ unreckoned' = unreckoned \cup {row.recording}
           /\ unranked' = IF back THEN unranked \cup {row.recording} ELSE unranked

Reconcile ==
  /\ op.pc = "reconcile"
  /\ \E p \in op.todo : ReconcileSame(p) \/ ReconcileMoved(p)
  /\ UNCHANGED <<env, audio, counters>>

\* The recording is recalculated in a transaction of its own; the row of the
\* source has been committed already.
Recalculate ==
  /\ op.pc = "recalculate"
  /\ Recalculated(op.recording, sources, op.canonical)
  /\ \/ /\ op.next = "validate_restamp"
        /\ op' = [op EXCEPT !.pc = op.next, !.next = "idle", !.canonical = FALSE]
     \/ /\ op.next # "validate_restamp"
        /\ op' = [op EXCEPT !.pc = op.next, !.next = "idle", !.canonical = FALSE, !.recording = NoRecording]
  /\ UNCHANGED <<env, counters>>

\* `discover_audio_files'
Discover ==
  /\ op.pc = "reconcile" /\ op.todo = {}
  /\ op' = [op EXCEPT !.pc = "discover", !.ranked = {}, !.todo = {p \in inbox : disk[p] # Absent}]
  /\ UNCHANGED <<env, sources, audio, counters, owed>>

\* Mutant: the wait starts again whenever the source is seen.
RestartedWait(row) == Discovery(row, row.state, "recent")
\* A source that failed to be hashed waits again.
Waiting(row) == IF row.state = "failed" THEN Discovery(row, "observing", "recent") ELSE row

\* Mutant: the state of a detached row is not reset.
DetachedState(row) == [row EXCEPT !.recording = NoRecording, !.canonical = FALSE, !.since = "recent"]
Detached(row) ==
  [row EXCEPT !.recording = NoRecording, !.canonical = FALSE, !.state = "observing", !.since = "recent"]

\* The row of a path as the scan has it; a known one is present.
Observed(p) == IF p \in Known THEN Waiting(Placed(sources[p], TRUE, sources[p].canonical)) ELSE NewRow(disk[p].stamp)
\* `_hash_source' is called at once, or the source is left for another pass.
HashNow(row) == row.state = "hashing" \/ ~op.respect \/ row.since = "elapsed"

Scanned(p) == op' = [op EXCEPT !.todo = @ \ {p}]

\* Then every file of the inbox that can still be stat'ed.
ScanVanished ==
  /\ op.pc = "discover"
  /\ \E p \in op.todo : disk[p] = Absent /\ Scanned(p)
  /\ UNCHANGED <<env, sources, audio, counters, owed>>

\* An attached source whose file is as it was; it is saved as present.
ScanAttached ==
  /\ op.pc = "discover"
  /\ \E p \in op.todo \cap Known :
       LET row == sources[p]
       IN /\ disk[p] # Absent /\ row.recording # NoRecording /\ disk[p].stamp = row.stamp
          /\ Save(p, Observed(p))
          /\ unreckoned' = IF row.present THEN unreckoned ELSE unreckoned \cup {row.recording}
          /\ unranked' = IF row.present THEN unranked ELSE unranked \cup {row.recording}
          /\ Scanned(p)
  /\ UNCHANGED <<env, audio, counters>>

\* `reconcile_changed_source' of an attached source; the file is hashed at once or later.
ScanReplaced ==
  /\ op.pc = "discover"
  /\ \E p \in op.todo \cap Known :
       LET row == sources[p]
       IN /\ disk[p] # Absent /\ row.recording # NoRecording /\ disk[p].stamp # row.stamp
          /\ Save(p, Detached(Observed(p)))
          /\ unreckoned' = unreckoned \cup {row.recording}
          /\ op' = [op EXCEPT !.pc = "recalculate", !.next = "restamp", !.recording = row.recording,
                              !.canonical = TRUE, !.path = p, !.before = disk[p], !.todo = @ \ {p}]
  /\ UNCHANGED <<env, audio, counters, unranked>>

NextFile == [op EXCEPT !.pc = "discover", !.path = 0, !.before = Absent, !.read = Nothing, !.touched = FALSE]

\* The new size and time, in a third transaction; then the pass goes on.
Restamp ==
  /\ op.pc = "restamp"
  /\ LET row == Restamped(sources[op.path], op.before.stamp)
     IN \/ op.respect /\ Save(op.path, row) /\ op' = NextFile
        \/ /\ ~op.respect
           /\ Save(op.path, Discovery(row, "hashing", row.since)) /\ op' = [op EXCEPT !.pc = "hash"]
  /\ UNCHANGED <<env, audio, counters, owed>>

\* A source that is new, or not attached: it goes on waiting, or is hashed.
ScanUnattached ==
  /\ op.pc = "discover"
  /\ \E p \in op.todo :
       LET row == Observed(p)
       IN /\ disk[p] # Absent /\ row.recording = NoRecording
          /\ \/ HashNow(row) /\ Save(p, Discovery(row, "hashing", row.since))
                /\ op' = [op EXCEPT !.pc = "hash", !.path = p, !.todo = @ \ {p}]
             \/ ~HashNow(row) /\ Save(p, row) /\ Scanned(p)
  /\ UNCHANGED <<env, audio, counters, owed>>

EndIngest ==
  /\ op.pc = "discover" /\ op.todo = {}
  /\ op' = NoOp
  /\ UNCHANGED <<env, sources, audio, counters, owed>>

-----------------------------------------------------------------------------
(* `_hash_source': a stat, the read, and another stat *)

\* What may be read of the file at a path, if it was `before' at the start.
Reads(p, before) ==
  IF ~op.touched THEN {disk[p].content} ELSE ({before.content, disk[p].content} \ {"absent"}) \cup {Torn}

\* The file is gone: the source is to be observed again, without a start.
HashVanished ==
  /\ op.pc = "hash" /\ disk[op.path] = Absent
  /\ Save(op.path, Discovery(sources[op.path], "observing", "never"))
  /\ op' = NextFile
  /\ UNCHANGED <<env, audio, counters, owed>>

HashBefore ==
  /\ op.pc = "hash" /\ disk[op.path] # Absent
  /\ op' = [op EXCEPT !.pc = "hash_read", !.before = disk[op.path], !.touched = FALSE]
  /\ UNCHANGED <<env, sources, audio, counters, owed>>

HashRead ==
  /\ op.pc = "hash_read"
  /\ \E digest \in Reads(op.path, op.before) :
       op' = [op EXCEPT !.pc = "hash_after", !.read = digest, !.touched = FALSE]
  /\ UNCHANGED <<env, sources, audio, counters, owed>>

\* It could not be opened.
HashError ==
  /\ op.pc = "hash_read" /\ disk[op.path] = Absent
  /\ Save(op.path, Discovery(sources[op.path], "failed", sources[op.path].since))
  /\ op' = NextFile
  /\ UNCHANGED <<env, audio, counters, owed>>

\* Mutant: what the second stat says is not looked at.
AsAtFirst(row, before, after) == after # Absent /\ before.stamp = row.stamp /\ before.stamp # ZeroSize
\* The two stats agree with each other and with the row; an empty file never does.
Unchanged(row, before, after) ==
  /\ after # Absent /\ after.stamp = before.stamp
  /\ after.stamp = row.stamp /\ after.stamp # ZeroSize

\* A torn read is not trusted: the wait starts again.
HashDiscarded ==
  LET row == sources[op.path]
      after == disk[op.path]
  IN /\ op.pc = "hash_after" /\ ~Unchanged(row, op.before, after)
     /\ Save(op.path, Discovery(Restamped(row, IF after = Absent THEN row.stamp ELSE after.stamp),
                                "observing", "recent"))
     /\ op' = NextFile
     /\ UNCHANGED <<env, audio, counters, owed>>

\* `_attach_hashed_source', one transaction: the recording of this content,
\* a new one or one that has other files.
Attach ==
  LET row == sources[op.path]
  IN /\ op.pc = "hash_after" /\ Unchanged(row, op.before, disk[op.path])
     /\ Recalculated(op.read, Stored(sources, op.path, Attached(row, op.read)), TRUE)
     /\ op' = NextFile
     /\ UNCHANGED <<env, counters>>

-----------------------------------------------------------------------------
(* `validate_source_for_processing' and the stage that follows it *)

\* The present sources are tried, those first that are canonical now.
StartStage ==
  /\ Idle
  /\ \E r \in Recordings :
       op' = [NoOp EXCEPT !.pc = "validate", !.recording = r, !.todo = PresentOf(r, sources),
                          !.ranked = Canonical, !.audio = audio[r], !.owed = r \in unreckoned]
  /\ UNCHANGED <<env, sources, audio, counters, owed>>

\* In the order in which they were first seen, which may be any.
TriedNext == IF op.todo \cap op.ranked = {} THEN op.todo ELSE op.todo \cap op.ranked

\* No source is left: the recording is recalculated and skipped.
ValidateNone ==
  /\ op.pc = "validate" /\ op.todo = {}
  /\ Recalculated(op.recording, sources, TRUE)
  /\ op' = NoOp
  /\ UNCHANGED <<env, counters>>

ValidateOutside ==
  /\ op.pc = "validate"
  /\ \E p \in TriedNext \ inbox : op' = [op EXCEPT !.todo = @ \ {p}]
  /\ UNCHANGED <<env, sources, audio, counters, owed>>

\* `_mark_source_missing', one transaction.
MarkMissing(p) ==
  /\ Recalculated(op.recording, Stored(sources, p, Placed(sources[p], FALSE, FALSE)), TRUE)
  /\ op' = [op EXCEPT !.pc = "validate", !.path = 0, !.before = Absent, !.touched = FALSE, !.todo = @ \ {p}]

\* `reconcile_changed_source': the row of the source, and then the recording.
Detach(p, stat) ==
  /\ Save(p, Detached(sources[p]))
  /\ unreckoned' = unreckoned \cup {op.recording}
  /\ op' = [op EXCEPT !.pc = "recalculate", !.next = "validate_restamp", !.canonical = TRUE,
                      !.path = p, !.before = stat, !.todo = @ \ {p}]
  /\ UNCHANGED <<audio, unranked>>

ValidateStat ==
  /\ op.pc = "validate"
  /\ \E p \in TriedNext \cap inbox :
       \/ disk[p] = Absent /\ MarkMissing(p)
       \/ /\ disk[p] # Absent /\ (disk[p].stamp # sources[p].stamp \/ disk[p].stamp = ZeroSize)
          /\ Detach(p, disk[p])
       \/ /\ disk[p] # Absent /\ disk[p].stamp = sources[p].stamp /\ disk[p].stamp # ZeroSize
          /\ op' = [op EXCEPT !.pc = "validate_read", !.path = p, !.before = disk[p], !.touched = FALSE]
          /\ UNCHANGED <<sources, audio, owed>>
  /\ UNCHANGED <<env, counters>>

ValidateRestamp ==
  /\ op.pc = "validate_restamp"
  /\ Save(op.path, Restamped(sources[op.path], op.before.stamp))
  /\ op' = [op EXCEPT !.pc = "validate", !.path = 0, !.before = Absent, !.touched = FALSE]
  /\ UNCHANGED <<env, audio, counters, owed>>

ValidateUnreadable ==
  /\ op.pc = "validate_read" /\ disk[op.path] = Absent
  /\ MarkMissing(op.path)
  /\ UNCHANGED <<env, counters>>

\* Mutant: size and time are enough.
SameStamp(digest) == disk[op.path].stamp = sources[op.path].stamp
\* Two torn reads are never the same.
SameContent(digest) == digest = op.recording /\ digest # Torn

\* The only canonical source of the recording, if it was not a canonical one when
\* the sources were read.
Promoted(path) ==
  IF path \in op.ranked THEN sources
  ELSE [p \in Known |-> IF sources[p].recording = op.recording
                        THEN Placed(sources[p], sources[p].present, p = path) ELSE sources[p]]

\* The file is hashed; it is the recording's, and is promoted, or is detached.
ValidateRead ==
  /\ op.pc = "validate_read"
  /\ \E digest \in Reads(op.path, op.before) :
       \/ /\ SameContent(digest)
          /\ sources' = Promoted(op.path)
          /\ op' = [op EXCEPT !.pc = "stage", !.todo = {}, !.before = Absent]
          /\ UNCHANGED <<audio, owed>>
       \/ ~SameContent(digest) /\ Detach(op.path, op.before)
  /\ UNCHANGED <<env, counters>>

\* Routing or transcription saves the whole row that it was started with, which
\* is older than the validation, reads the file and ends.
EndStage ==
  /\ op.pc = "stage" /\ op' = NoOp
  /\ audio' = [audio EXCEPT ![op.recording] = op.audio]
  /\ unreckoned' = IF op.owed THEN unreckoned \cup {op.recording} ELSE unreckoned
  /\ UNCHANGED <<env, sources, counters, unranked>>

-----------------------------------------------------------------------------
Crash ==
  /\ ~Idle /\ crashes < MaxCrashes /\ crashes' = crashes + 1
  /\ op' = NoOp
  /\ UNCHANGED <<env, sources, audio, changes, silent, owed>>

Ingesting ==
  \/ Reconcile \/ Recalculate \/ Discover \/ ScanVanished \/ ScanAttached \/ ScanReplaced \/ Restamp
  \/ ScanUnattached \/ EndIngest
  \/ HashVanished \/ HashBefore \/ HashRead \/ HashError \/ HashDiscarded \/ Attach

Validating ==
  \/ ValidateNone \/ ValidateOutside \/ ValidateStat \/ ValidateRestamp \/ ValidateUnreadable \/ ValidateRead
  \/ EndStage

Next ==
  \/ WriteFile \/ EmptyFile \/ DeleteFile \/ MoveInbox \/ Elapse
  \/ StartIngest(TRUE) \/ StartIngest(FALSE) \/ Ingesting
  \/ StartStage \/ Validating
  \/ Crash

Spec == Init /\ [][Next]_vars

\* A command that has the lock goes on until it ends or dies; time passes; and
\* ordinary passes are made again and again.  Passes with --now are not.
FairSpec ==
  /\ Spec /\ WF_vars(Ingesting \/ Validating) /\ WF_vars(Elapse)
  /\ SF_vars(StartIngest(TRUE))
-----------------------------------------------------------------------------
(* Properties *)

Digests == Contents \cup {Torn, Empty}
Files == {Absent} \cup [content : Contents \cup {Empty}, stamp : Stamps]

Rows == [recording : Digests \cup {NoRecording}, state : {"observing", "hashing", "hashed", "failed"},
         present : BOOLEAN, canonical : BOOLEAN, stamp : Stamps, since : {"recent", "elapsed", "never"}]
Operations ==
  [pc : {"idle", "reconcile", "recalculate", "discover", "restamp", "hash", "hash_read", "hash_after",
         "validate", "validate_read", "validate_restamp", "stage"},
   respect : BOOLEAN, todo : SUBSET Paths, ranked : SUBSET Paths, path : Paths \cup {0}, before : Files,
   read : Digests \cup {Nothing}, recording : Digests \cup {NoRecording}, canonical : BOOLEAN,
   next : {"idle", "reconcile", "restamp", "validate_restamp"}, touched : BOOLEAN, audio : BOOLEAN,
   owed : BOOLEAN]

FilesTyped == disk \in [Paths -> Files] /\ inbox \subseteq Paths
SourcesTyped ==
  /\ Known \subseteq Paths /\ sources \in [Known -> Rows]
  /\ \A p \in Known :
       /\ sources[p].recording \in Recordings \cup {NoRecording}
       /\ sources[p].state = "hashed" <=> sources[p].recording # NoRecording
       /\ sources[p].canonical => sources[p].state = "hashed"
AudioTyped ==
  /\ Recordings \subseteq Digests /\ audio \in [Recordings -> BOOLEAN]
  /\ unreckoned \subseteq Recordings /\ unranked \subseteq Recordings
OpTyped == op \in Operations /\ op.recording \in Recordings \cup {NoRecording}
CountersTyped == changes \in 0 .. MaxChanges /\ silent \in Nat /\ crashes \in Nat

\* The types of the variables; a row is attached if and only if its state is
\* hashed, as only _attach_hashed_source and _detach_for_rehash change either.
TypeOK == FilesTyped /\ SourcesTyped /\ AudioTyped /\ OpTyped /\ CountersTyped

\* Outside the two transactions of a change, a recording says that its audio is
\* present exactly when one of its files is; and once a source that came back was
\* followed by a choice, no two present files of it are both the canonical one.
\* What crashed between the two, and a file that came back between reconciliation
\* and scan, stays as it is until the recording is recalculated.
AudioStatusTrue ==
  \A r \in Recordings \ unreckoned : audio[r] <=> \E p \in Known : sources[p].recording = r /\ sources[p].present
OneCanonical ==
  \A r \in Recordings \ unranked : \A p, q \in Known :
    (/\ sources[p].recording = r /\ sources[p].present /\ sources[p].canonical
     /\ sources[q].recording = r /\ sources[q].present /\ sources[q].canonical) => p = q
SourcesReconciled == AudioStatusTrue /\ OneCanonical

\* As long as size and time tell contents apart, no recording has a digest that
\* was read while its file changed, and a file that is as its attached row says
\* has the content of the recording.
HashesAreTrusted ==
  silent = 0 =>
    /\ Torn \notin Recordings
    /\ \A p \in Known : (sources[p].recording # NoRecording /\ disk[p] # Absent /\ disk[p].stamp = sources[p].stamp)
                        => disk[p].content = sources[p].recording

\* Routing and transcription read a file with the content of the recording,
\* whatever size and time say, unless it is changed after it was looked up.
StageReadsItsRecording ==
  (op.pc = "stage" /\ ~op.touched) => disk[op.path].content = op.recording

Ingestable(p) == p \in inbox /\ disk[p] # Absent /\ disk[p].content # Empty
Unattached(p) == p \in Known /\ sources[p].recording = NoRecording

\* The stability wait of a file ends: it is attached, whatever crashed in
\* between, unless it goes away, is empty or vanished once before it was hashed.
WaitEnds ==
  \A p \in Paths : (Unattached(p) /\ sources[p].since # "never")
                   ~> (~Unattached(p) \/ ~Ingestable(p) \/ sources[p].since = "never")

\* "Rows in OBSERVING/HASHING with a null recording are recovered by the next
\* brain ingest: OBSERVING rows re-enter the stability wait", models.py:118.
PresentFileIsAttached ==
  \A p \in Paths : Unattached(p) ~> (~Unattached(p) \/ ~Ingestable(p))
=============================================================================
