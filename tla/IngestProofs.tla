---------------------------- MODULE IngestProofs ----------------------------
(***************************************************************************)
(* Ingest, for any paths and contents and any number of changes of files:  *)
(* an inductive invariant, and the safety properties that follow.          *)
(***************************************************************************)
EXTENDS Ingest, TLAPS

-----------------------------------------------------------------------------
(* The inductive invariant *)

Hashing == {"restamp", "hash", "hash_read", "hash_after"}
Checking == {"validate", "validate_read", "validate_restamp", "stage"}

\* What a recalculation is a part of.
Where == IF op.pc = "recalculate" THEN op.next ELSE op.pc

\* What an ingest knows of the rows of its list, and of the path it is at.
IngestHolds ==
  /\ Where = "reconcile" =>
       op.todo \subseteq Known /\ \A p \in op.todo \cap op.ranked : sources[p].recording # NoRecording
  /\ Where \in Hashing => op.path \in Known /\ sources[op.path].recording = NoRecording
  /\ op.pc = "recalculate" => op.next # "idle" /\ op.recording # NoRecording

\* What a stage knows of the recording it validates.
StageHolds ==
  /\ Where \in Checking =>
       /\ op.recording # NoRecording
       /\ \A p \in op.todo : p \in Known /\ sources[p].recording = op.recording /\ sources[p].present
       /\ op.todo # {} /\ ~op.owed => op.audio
  /\ op.pc \in {"validate_read", "stage"} =>
       /\ op.path \in Known
       /\ sources[op.path].recording = op.recording /\ sources[op.path].present
       /\ ~op.owed => op.audio
  /\ Where = "validate_restamp" => op.path \in Known /\ sources[op.path].recording = NoRecording

\* What the process has seen of a file that it hashes.
ReadHolds ==
  /\ op.pc = "hash_read" => op.before # Absent
  /\ op.pc \in {"hash_read", "validate_read"} /\ ~op.touched => disk[op.path] = op.before
  /\ op.pc = "hash_after" => op.read \in Digests

\* Stamps are those of changes there were.
DiskStamps == \A p \in Paths : disk[p].stamp <= changes
RowStamps == \A p \in Known : sources[p].stamp <= changes
OpStamp == op.before.stamp <= changes

\* As long as every stamp is new: what it tells of an attached file, and of one
\* that is hashed.
RowsTrusted ==
  silent = 0 =>
    /\ Torn \notin Recordings
    /\ \A p \in Known : sources[p].recording # NoRecording =>
         /\ sources[p].stamp # ZeroSize
         /\ disk[p].stamp = sources[p].stamp => disk[p].content = sources[p].recording
ReadTrusted ==
  silent = 0 /\ op.path \in Paths /\ op.before.stamp # ZeroSize /\ disk[op.path].stamp = op.before.stamp =>
    /\ op.pc = "hash_read" => ~op.touched
    /\ op.pc = "hash_after" => disk[op.path].content = op.read

IngestInv ==
  /\ TypeOK /\ IngestHolds /\ StageHolds /\ ReadHolds
  /\ DiskStamps /\ RowStamps /\ OpStamp /\ RowsTrusted /\ ReadTrusted
  /\ AudioStatusTrue /\ OneCanonical /\ StageReadsItsRecording

-----------------------------------------------------------------------------
(* Rows, and the operation that is none *)

LEMMA PlacedRow ==
  \A row \in Rows, present, canonical \in BOOLEAN :
    LET new == Placed(row, present, canonical)
    IN /\ new \in Rows /\ new.present = present /\ new.canonical = canonical
       /\ new.recording = row.recording /\ new.state = row.state /\ new.stamp = row.stamp /\ new.since = row.since
<1> TAKE row \in Rows, present, canonical \in BOOLEAN
<1> PICK new : new = [row EXCEPT !.present = present, !.canonical = canonical]
  OBVIOUS
<1> QED BY DEF Rows, Placed

LEMMA DiscoveryRow ==
  \A row \in Rows, state \in {"observing", "hashing", "hashed", "failed"}, since \in {"recent", "elapsed", "never"} :
    LET new == Discovery(row, state, since)
    IN /\ new \in Rows /\ new.state = state /\ new.since = since
       /\ new.recording = row.recording /\ new.present = row.present /\ new.canonical = row.canonical
       /\ new.stamp = row.stamp
<1> TAKE row \in Rows, state \in {"observing", "hashing", "hashed", "failed"}, since \in {"recent", "elapsed", "never"}
<1> QED BY DEF Rows, Discovery

LEMMA RestampedRow ==
  \A row \in Rows, stamp \in Stamps :
    LET new == Restamped(row, stamp)
    IN /\ new \in Rows /\ new.stamp = stamp
       /\ new.recording = row.recording /\ new.present = row.present /\ new.canonical = row.canonical
       /\ new.state = row.state /\ new.since = row.since
BY DEF Rows, Restamped

LEMMA AttachedRow ==
  \A row \in Rows, recording \in Digests :
    LET new == Attached(row, recording)
    IN /\ new \in Rows /\ new.recording = recording /\ new.state = "hashed"
       /\ new.present = row.present /\ new.canonical = row.canonical
       /\ new.stamp = row.stamp /\ new.since = row.since
BY DEF Rows, Attached

LEMMA DetachedRow ==
  \A row \in Rows :
    LET new == Detached(row)
    IN /\ new \in Rows /\ new.recording = NoRecording /\ new.canonical = FALSE /\ new.state = "observing"
       /\ new.present = row.present /\ new.stamp = row.stamp /\ new.since = "recent"
BY DEF Rows, Detached

LEMMA NewRowIs ==
  \A stamp \in Stamps :
    LET new == NewRow(stamp)
    IN /\ new \in Rows /\ new.recording = NoRecording /\ new.canonical = FALSE /\ new.state = "observing"
       /\ new.present = TRUE /\ new.stamp = stamp /\ new.since = "recent"
BY DEF Rows, NewRow, NoRecording

LEMMA NoOpIs ==
  /\ NoOp \in Operations /\ NoOp.pc = "idle" /\ NoOp.todo = {} /\ NoOp.path = 0 /\ NoOp.before = Absent
  /\ NoOp.recording = NoRecording /\ NoOp.next = "idle" /\ NoOp.touched = FALSE /\ NoOp.owed = FALSE
BY DEF NoOp, Operations, Files, Digests, NoRecording, Absent

LEMMA Constants ==
  /\ Paths \subseteq Nat /\ 0 \notin Paths /\ MaxChanges \in Nat
  /\ Contents \cap {Torn, Empty, "absent", NoRecording} = {}
BY IngestAssumption DEF NoRecording

LEMMA FilesAre ==
  /\ Absent \in Files /\ Absent.stamp = ZeroSize /\ ZeroSize \in Stamps
  /\ \A content \in Contents \cup {Empty}, stamp \in Stamps : [content |-> content, stamp |-> stamp] \in Files
  /\ \A file \in Files :
       file.stamp \in Stamps /\ file.content \in Contents \cup {Empty, "absent"} /\ file.content # Torn
<1>1. 0 \in Stamps
  BY Constants DEF Stamps
<1>2. Absent \in Files /\ Absent.stamp = ZeroSize /\ ZeroSize \in Stamps
  BY <1>1 DEF Files, Absent, ZeroSize
<1>3. \A content \in Contents \cup {Empty}, stamp \in Stamps : [content |-> content, stamp |-> stamp] \in Files
  BY DEF Files
<1>4. ASSUME NEW file \in Files
      PROVE  file.stamp \in Stamps /\ file.content \in Contents \cup {Empty, "absent"}
  BY <1>1 DEF Files, Absent
<1>5. Torn \notin Contents \cup {Empty, "absent"}
  BY Constants DEF Torn, Empty
<1> QED BY <1>2, <1>3, <1>4, <1>5

-----------------------------------------------------------------------------
(* What a step writes into the tables *)

\* Row p is written, and no other one.
Saved(p, row) ==
  /\ Known' = Known \cup {p} /\ sources'[p] = row
  /\ \A q \in Known : q # p => sources'[q] = sources[q]
  /\ sources' \in [Known' -> Rows]

LEMMA SaveIs ==
  ASSUME SourcesTyped, NEW p \in Paths, NEW row \in Rows, Save(p, row)
  PROVE  Saved(p, row)
<1>1. sources' = [q \in Known \cup {p} |-> IF q = p THEN row ELSE sources[q]]
  BY DEF Save, Stored, Known
<1>2. \A q \in Known \cup {p} : (IF q = p THEN row ELSE sources[q]) \in Rows
  BY DEF SourcesTyped
<1> QED BY <1>1, <1>2 DEF Saved, Known

\* The rows srcs, of which r is recalculated.
RowsRanked(r, srcs, canonical) ==
  /\ Known' = DOMAIN srcs /\ sources' \in [Known' -> Rows]
  /\ \A q \in Known' :
       /\ sources'[q].recording = srcs[q].recording /\ sources'[q].present = srcs[q].present
       /\ sources'[q].state = srcs[q].state /\ sources'[q].stamp = srcs[q].stamp
       /\ sources'[q].canonical =
            IF canonical /\ srcs[q].recording = r /\ srcs[q].present
            THEN \A p \in Known' : srcs[p].recording = r /\ srcs[p].present => q <= p
            ELSE srcs[q].canonical
AudioRanked(r, srcs) ==
  /\ Recordings' = Recordings \cup {r} /\ audio' \in [Recordings' -> BOOLEAN]
  /\ audio'[r] = (\E q \in DOMAIN srcs : srcs[q].recording = r /\ srcs[q].present)
  /\ \A x \in Recordings : x # r => audio'[x] = audio[x]

LEMMA RecalculatedIs ==
  ASSUME NEW srcs, srcs \in [DOMAIN srcs -> Rows], NEW r, NEW canonical \in BOOLEAN, AudioTyped,
         Recalculated(r, srcs, canonical)
  PROVE  RowsRanked(r, srcs, canonical) /\ AudioRanked(r, srcs)
<1> DEFINE first(q) == \A p \in PresentOf(r, srcs) : q <= p
<1>1. \A q \in DOMAIN srcs : q \in PresentOf(r, srcs) <=> srcs[q].recording = r /\ srcs[q].present
  BY DEF PresentOf
<1>2. \A q \in DOMAIN srcs :
        first(q) = \A p \in DOMAIN srcs : srcs[p].recording = r /\ srcs[p].present => q <= p
  BY DEF PresentOf
<1>3. ASSUME canonical PROVE RowsRanked(r, srcs, canonical)
  <2>1. sources' = [q \in DOMAIN srcs |-> IF q \in PresentOf(r, srcs) THEN Placed(srcs[q], TRUE, first(q)) ELSE srcs[q]]
    BY <1>3 DEF Recalculated, EnsureCanonical
  <2>2. \A q \in DOMAIN srcs : srcs[q] \in Rows /\ first(q) \in BOOLEAN
    OBVIOUS
  <2> HIDE DEF first
  <2>3. \A q \in DOMAIN srcs :
          LET new == Placed(srcs[q], TRUE, first(q))
          IN /\ new \in Rows /\ new.present = TRUE /\ new.canonical = first(q)
             /\ new.recording = srcs[q].recording /\ new.state = srcs[q].state /\ new.stamp = srcs[q].stamp
    BY <2>2, PlacedRow
  <2>4. Known' = DOMAIN srcs
    BY <2>1 DEF Known
  <2>5. sources' \in [Known' -> Rows]
    BY <2>1, <2>2, <2>3, <2>4
  <2>6. \A q \in Known' :
          sources'[q] = IF srcs[q].recording = r /\ srcs[q].present THEN Placed(srcs[q], TRUE, first(q)) ELSE srcs[q]
    BY <2>1, <2>4, <1>1
  <2>7. ASSUME NEW q \in Known'
        PROVE  /\ sources'[q].recording = srcs[q].recording /\ sources'[q].present = srcs[q].present
               /\ sources'[q].state = srcs[q].state /\ sources'[q].stamp = srcs[q].stamp
               /\ sources'[q].canonical = IF srcs[q].recording = r /\ srcs[q].present THEN first(q)
                                          ELSE srcs[q].canonical
    <3>1. CASE srcs[q].recording = r /\ srcs[q].present
      <4>1. srcs[q].present = TRUE
        BY <3>1, <2>2, <2>4 DEF Rows
      <4>2. sources'[q] = Placed(srcs[q], TRUE, first(q))
        BY <2>6, <3>1
      <4> QED BY <2>3, <2>4, <3>1, <4>1, <4>2
    <3>2. CASE ~(srcs[q].recording = r /\ srcs[q].present)
      <4>1. sources'[q] = srcs[q]
        BY <2>6, <3>2
      <4> QED BY <3>2, <4>1
    <3> QED BY <3>1, <3>2
  <2>8. \A q \in Known' : first(q) = \A p \in Known' : srcs[p].recording = r /\ srcs[p].present => q <= p
    BY <1>2, <2>4
  <2>9. ASSUME NEW q \in Known'
        PROVE  sources'[q].canonical =
                 IF canonical /\ srcs[q].recording = r /\ srcs[q].present
                 THEN \A p \in Known' : srcs[p].recording = r /\ srcs[p].present => q <= p
                 ELSE srcs[q].canonical
    BY <2>7, <2>8, <1>3
  <2> QED BY <2>4, <2>5, <2>7, <2>9 DEF RowsRanked
<1>4. ASSUME ~canonical PROVE RowsRanked(r, srcs, canonical)
  <2>1. sources' = srcs
    BY <1>4 DEF Recalculated
  <2> QED BY <2>1, <1>4 DEF RowsRanked, Known
<1>5. audio' = [x \in Recordings \cup {r} |-> IF x = r THEN PresentOf(r, srcs) # {} ELSE audio[x]]
  BY DEF Recalculated, Stored, AudioStatus, Recordings
<1>6. AudioRanked(r, srcs)
  <2>1. PresentOf(r, srcs) # {} <=> \E q \in DOMAIN srcs : srcs[q].recording = r /\ srcs[q].present
    BY DEF PresentOf
  <2>2. Recordings' = Recordings \cup {r}
    BY <1>5 DEF Recordings
  <2> QED BY <1>5, <2>1, <2>2 DEF AudioRanked, AudioTyped
<1> QED BY <1>3, <1>4, <1>6

-----------------------------------------------------------------------------
(* The six things that a step may do to the tables *)

\* At most the canonical source of a recording is chosen.
RowsKept(r, path) ==
  /\ Known' = Known /\ sources' \in [Known -> Rows] /\ r # NoRecording
  /\ \A q \in Known :
       /\ sources'[q].recording = sources[q].recording /\ sources'[q].present = sources[q].present
       /\ sources'[q].state = sources[q].state /\ sources'[q].stamp = sources[q].stamp
  /\ \/ \A q \in Known : sources'[q].canonical = sources[q].canonical
     \/ \A q \in Known : sources'[q].canonical = IF sources[q].recording = r THEN q = path ELSE sources[q].canonical
  /\ UNCHANGED <<audio, owed>>

\* A source without a recording is written, and stays without one.
LooseSaved(p, row) ==
  /\ Saved(p, row) /\ p \in Paths /\ row \in Rows
  /\ p \in Known => sources[p].recording = NoRecording
  /\ row.recording = NoRecording /\ ~row.canonical /\ row.state # "hashed" /\ row.stamp <= changes
  /\ UNCHANGED <<audio, owed>>

\* A source of a recording is found or missed.
AttachedSaved(p, row) ==
  /\ Saved(p, row) /\ p \in Known /\ row \in Rows
  /\ row.recording = sources[p].recording /\ row.recording # NoRecording
  /\ row.state = "hashed" /\ row.stamp = sources[p].stamp
  /\ UNCHANGED audio
  /\ \/ unreckoned' = unreckoned \cup {row.recording}
     \/ unreckoned' = unreckoned /\ row.present = sources[p].present
  /\ \/ unranked' = unranked \cup {row.recording}
     \/ /\ unranked' = unranked
        /\ row.present => sources[p].present /\ row.canonical = sources[p].canonical

\* A source loses its recording.
DetachedSaved(p, row) ==
  /\ Saved(p, row) /\ p \in Known /\ row \in Rows
  /\ sources[p].recording # NoRecording
  /\ row.recording = NoRecording /\ ~row.canonical /\ row.state # "hashed" /\ row.stamp = sources[p].stamp
  /\ unreckoned' = unreckoned \cup {sources[p].recording}
  /\ UNCHANGED <<audio, unranked>>

\* What is attached to r, as long as every stamp is new.
Trusting(r, srcs) ==
  silent = 0 =>
    /\ r # Torn \/ r \in Recordings
    /\ \A q \in Known : srcs[q].recording # sources[q].recording =>
         /\ srcs[q].stamp # ZeroSize
         /\ disk[q].stamp = srcs[q].stamp => disk[q].content = r

\* A recording is recalculated, after one of its sources was changed perhaps.
Ranked(r, srcs, canonical) ==
  /\ r \in Digests /\ srcs \in [Known -> Rows] /\ canonical \in BOOLEAN
  /\ RowsRanked(r, srcs, canonical) /\ AudioRanked(r, srcs)
  /\ \A q \in Known :
       /\ srcs[q].stamp = sources[q].stamp
       /\ \/ srcs[q] = sources[q]
          \/ /\ canonical /\ srcs[q].recording = r /\ srcs[q].state = "hashed"
             /\ sources[q].recording \in {r, NoRecording}
  /\ Trusting(r, srcs)
  /\ unreckoned' = unreckoned \ {r}
  /\ unranked' = IF canonical THEN unranked \ {r} ELSE unranked

\* The audio status of a recording is written.
AudioSaved(r, status) ==
  /\ r \in Recordings /\ status \in BOOLEAN
  /\ audio' = [audio EXCEPT ![r] = status]
  /\ \/ unreckoned' = unreckoned \cup {r}
     \/ unreckoned' = unreckoned /\ status /\ \E q \in Known : sources[q].recording = r /\ sources[q].present
  /\ UNCHANGED <<sources, unranked>>

DataStep ==
  \/ \E r \in Digests, path \in Paths \cup {0} : RowsKept(r, path)
  \/ \E p \in Paths, row \in Rows : LooseSaved(p, row) \/ AttachedSaved(p, row) \/ DetachedSaved(p, row)
  \/ \E r \in Digests, srcs \in [Known -> Rows], canonical \in BOOLEAN : Ranked(r, srcs, canonical)
  \/ \E r \in Digests, status \in BOOLEAN : AudioSaved(r, status)

LEMMA DigestsAreNone == NoRecording \notin Digests /\ Empty \in Digests
BY Constants DEF Digests, Torn, Empty, NoRecording

LEMMA QuietStep ==
  ASSUME SourcesTyped, UNCHANGED <<sources, audio, owed>>
  PROVE  DataStep
<1>1. RowsKept(Empty, 0)
  BY DigestsAreNone DEF RowsKept, SourcesTyped, Known
<1> QED BY <1>1, DigestsAreNone DEF DataStep

LEMMA ElapseStep ==
  ASSUME SourcesTyped, Elapse
  PROVE  RowsKept(Empty, 0) /\ DataStep
<1>1. sources' = [p \in Known |-> IF sources[p].since = "recent"
                                 THEN Discovery(sources[p], sources[p].state, "elapsed") ELSE sources[p]]
  BY DEF Elapse
<1>2. ASSUME NEW p \in Known
      PROVE  LET row == Discovery(sources[p], sources[p].state, "elapsed")
             IN /\ row \in Rows /\ sources[p] \in Rows
                /\ row.recording = sources[p].recording /\ row.present = sources[p].present
                /\ row.state = sources[p].state /\ row.stamp = sources[p].stamp
                /\ row.canonical = sources[p].canonical
  <2>1. sources[p] \in Rows
    BY DEF SourcesTyped
  <2>2. sources[p].state \in {"observing", "hashing", "hashed", "failed"}
    BY <2>1 DEF Rows
  <2> QED BY <2>1, <2>2, DiscoveryRow
<1>3. Known' = Known
  BY <1>1 DEF Known
<1>4. UNCHANGED <<audio, owed>>
  BY DEF Elapse
<1>5. sources' \in [Known -> Rows]
  BY <1>1, <1>2
<1>6. \A p \in Known : sources'[p] \in {sources[p], Discovery(sources[p], sources[p].state, "elapsed")}
  BY <1>1
<1>7. RowsKept(Empty, 0)
  BY <1>2, <1>3, <1>4, <1>5, <1>6, DigestsAreNone DEF RowsKept
<1> QED BY <1>7, DigestsAreNone DEF DataStep

LEMMA OneSaved ==
  ASSUME NEW p \in Paths, NEW row \in Rows, LooseSaved(p, row) \/ AttachedSaved(p, row) \/ DetachedSaved(p, row)
  PROVE  DataStep
BY DEF DataStep

\* The rows of the list of an ingest, and of the path it is at.
LEMMA KnownRow ==
  ASSUME TypeOK, RowStamps, NEW p \in Known
  PROVE  /\ p \in Paths /\ sources[p] \in Rows /\ sources[p].stamp <= changes
         /\ sources[p].recording \in Recordings \cup {NoRecording}
         /\ sources[p].state = "hashed" <=> sources[p].recording # NoRecording
         /\ sources[p].canonical => sources[p].state = "hashed"
BY DEF TypeOK, SourcesTyped, RowStamps

LEMMA ReconcileStep ==
  ASSUME IngestInv, Reconcile
  PROVE  DataStep
<1> USE DEF IngestInv
<1>1. PICK p \in op.todo : ReconcileSame(p) \/ ReconcileMoved(p)
  BY DEF Reconcile
<1>2. op.pc = "reconcile" /\ UNCHANGED audio
  BY DEF Reconcile
<1>3. p \in Known /\ (p \in op.ranked => sources[p].recording # NoRecording)
  BY <1>2 DEF IngestHolds, Where
<1>4. CASE ReconcileSame(p)
  BY <1>2, <1>4, QuietStep DEF ReconcileSame, TypeOK
<1>5. CASE ReconcileMoved(p)
  <2> DEFINE back == disk[p] # Absent
             ranked == p \in op.ranked
  <2>1. PICK row : row = Placed(sources[p], back, ranked)
    OBVIOUS
  <2>2. Save(p, row) /\ sources[p].present # back
    BY <1>5, <2>1 DEF ReconcileMoved
  <2>3. sources[p] \in Rows /\ back \in BOOLEAN /\ ranked \in BOOLEAN
    BY <1>3, KnownRow
  <2> HIDE DEF back, ranked
  <2>4. /\ row \in Rows /\ row.present = back /\ row.canonical = ranked
        /\ row.recording = sources[p].recording /\ row.state = sources[p].state /\ row.stamp = sources[p].stamp
    BY <2>1, <2>3, PlacedRow
  <2>5. Saved(p, row)
    BY <1>3, <2>2, <2>4, KnownRow, SaveIs DEF TypeOK
  <2>6. \/ sources[p].recording = NoRecording /\ UNCHANGED owed
        \/ /\ sources[p].recording # NoRecording
           /\ unreckoned' = unreckoned \cup {sources[p].recording}
           /\ unranked' = IF back THEN unranked \cup {sources[p].recording} ELSE unranked
    BY <1>5 DEF ReconcileMoved, back
  <2>7. CASE sources[p].recording = NoRecording
    <3>1. UNCHANGED owed /\ row.canonical = FALSE
      BY <2>6, <2>7, <2>4, <2>3, <1>3 DEF ranked
    <3>2. LooseSaved(p, row)
      BY <1>2, <1>3, <2>4, <2>5, <2>7, <3>1, KnownRow DEF LooseSaved
    <3> QED BY <3>2, <2>4, <1>3, KnownRow, OneSaved
  <2>8. CASE sources[p].recording # NoRecording
    <3>1. AttachedSaved(p, row)
      BY <1>2, <1>3, <2>3, <2>4, <2>5, <2>6, <2>8, KnownRow DEF AttachedSaved
    <3> QED BY <3>1, <2>4, <1>3, KnownRow, OneSaved
  <2> QED BY <2>7, <2>8
<1> QED BY <1>1, <1>4, <1>5

LEMMA RankedStep ==
  ASSUME TypeOK, NEW r \in Digests, NEW srcs \in [Known -> Rows], NEW canonical \in BOOLEAN,
         Recalculated(r, srcs, canonical),
         \A q \in Known :
           /\ srcs[q].stamp = sources[q].stamp
           /\ \/ srcs[q] = sources[q]
              \/ /\ canonical /\ srcs[q].recording = r /\ srcs[q].state = "hashed"
                 /\ sources[q].recording \in {r, NoRecording},
         Trusting(r, srcs)
  PROVE  Ranked(r, srcs, canonical) /\ DataStep
<1>1. DOMAIN srcs = Known
  OBVIOUS
<1>2. srcs \in [DOMAIN srcs -> Rows]
  BY <1>1
<1>3. RowsRanked(r, srcs, canonical) /\ AudioRanked(r, srcs)
  BY <1>2, RecalculatedIs DEF TypeOK
<1>4. unreckoned' = unreckoned \ {r} /\ unranked' = IF canonical THEN unranked \ {r} ELSE unranked
  BY DEF Recalculated
<1>5. Ranked(r, srcs, canonical)
  BY <1>3, <1>4 DEF Ranked
<1> QED BY <1>5 DEF DataStep

LEMMA SameRowsStep ==
  ASSUME TypeOK, NEW r \in Recordings, NEW canonical \in BOOLEAN, Recalculated(r, sources, canonical)
  PROVE  Ranked(r, sources, canonical) /\ DataStep
<1>1. r \in Digests /\ sources \in [Known -> Rows] /\ Trusting(r, sources)
  BY DEF TypeOK, AudioTyped, SourcesTyped, Trusting
<1> QED BY <1>1, RankedStep

LEMMA RecalculateStep ==
  ASSUME IngestInv, Recalculate
  PROVE  DataStep
<1>1. op.recording \in Recordings /\ op.canonical \in BOOLEAN
  BY DEF IngestInv, IngestHolds, TypeOK, OpTyped, Operations, Recalculate
<1>2. Recalculated(op.recording, sources, op.canonical)
  BY DEF Recalculate
<1> QED BY <1>1, <1>2, SameRowsStep DEF IngestInv

LEMMA ObservedRow ==
  ASSUME TypeOK, RowStamps, DiskStamps, NEW p \in Paths
  PROVE  LET row == Observed(p)
         IN /\ row \in Rows /\ row.stamp <= changes /\ row.present = TRUE
            /\ row.recording = (IF p \in Known THEN sources[p].recording ELSE NoRecording)
            /\ row.canonical = (IF p \in Known THEN sources[p].canonical ELSE FALSE)
            /\ row.recording # NoRecording => row.state = "hashed"
            /\ row.recording = NoRecording => row.state # "hashed" /\ row.canonical = FALSE
            /\ p \in Known => row.stamp = sources[p].stamp
<1>1. CASE p \notin Known
  <2>1. Observed(p) = NewRow(disk[p].stamp)
    BY <1>1 DEF Observed
  <2>2. disk[p].stamp \in Stamps /\ disk[p].stamp <= changes
    BY Constants DEF TypeOK, FilesTyped, Files, Absent, Stamps, DiskStamps, CountersTyped
  <2>3. PICK row : row = NewRow(disk[p].stamp)
    OBVIOUS
  <2>4. /\ row \in Rows /\ row.recording = NoRecording /\ row.canonical = FALSE
        /\ row.state = "observing" /\ row.present = TRUE /\ row.stamp = disk[p].stamp
    BY <2>2, <2>3, NewRowIs
  <2> QED BY <1>1, <2>1, <2>2, <2>3, <2>4
<1>2. CASE p \in Known
  <2>1. PICK row : row = Placed(sources[p], TRUE, sources[p].canonical)
    OBVIOUS
  <2>2. Observed(p) = Waiting(row)
    BY <1>2, <2>1 DEF Observed
  <2>3. /\ row \in Rows /\ row.present = TRUE /\ row.canonical = sources[p].canonical
        /\ row.recording = sources[p].recording /\ row.state = sources[p].state /\ row.stamp = sources[p].stamp
    <3>1. sources[p] \in Rows /\ sources[p].canonical \in BOOLEAN
      BY <1>2, KnownRow DEF Rows
    <3> QED BY <2>1, <3>1, PlacedRow
  <2>4. CASE row.state = "failed"
    <3>1. Observed(p) = Discovery(row, "observing", "recent")
      BY <2>2, <2>4 DEF Waiting
    <3>2. /\ Observed(p) \in Rows /\ Observed(p).state = "observing" /\ Observed(p).stamp = row.stamp
          /\ Observed(p).recording = row.recording /\ Observed(p).canonical = row.canonical
          /\ Observed(p).present = row.present
      BY <2>3, <3>1, DiscoveryRow
    <3>3. row.recording = NoRecording /\ row.canonical = FALSE /\ row.stamp <= changes
      BY <1>2, <2>3, <2>4, KnownRow DEF Rows
    <3> QED BY <1>2, <2>3, <3>2, <3>3
  <2>5. CASE row.state # "failed"
    <3>1. Observed(p) = row
      BY <2>2, <2>5 DEF Waiting
    <3> QED BY <1>2, <2>3, <3>1, KnownRow DEF Rows
  <2> QED BY <2>4, <2>5
<1> QED BY <1>1, <1>2

LEMMA ScanAttachedStep ==
  ASSUME IngestInv, ScanAttached
  PROVE  DataStep
<1> USE DEF IngestInv
<1>1. PICK p \in op.todo \cap Known :
        /\ sources[p].recording # NoRecording /\ Save(p, Observed(p))
        /\ unreckoned' = IF sources[p].present THEN unreckoned ELSE unreckoned \cup {sources[p].recording}
        /\ unranked' = IF sources[p].present THEN unranked ELSE unranked \cup {sources[p].recording}
  BY DEF ScanAttached
<1>2. PICK row : row = Observed(p)
  OBVIOUS
<1>3. p \in Paths /\ sources[p].present \in BOOLEAN
  BY <1>1, KnownRow DEF Rows
<1>4. /\ row \in Rows /\ row.present = TRUE /\ row.recording = sources[p].recording /\ row.state = "hashed"
      /\ row.canonical = sources[p].canonical /\ row.stamp = sources[p].stamp
  BY <1>1, <1>2, <1>3, ObservedRow
<1>5. Saved(p, row)
  BY <1>1, <1>2, <1>3, <1>4, SaveIs DEF TypeOK
<1>6. UNCHANGED audio
  BY DEF ScanAttached
<1>7. AttachedSaved(p, row)
  BY <1>1, <1>3, <1>4, <1>5, <1>6 DEF AttachedSaved
<1> QED BY <1>3, <1>4, <1>7, OneSaved

\* A row that is detached, wherever that happens.
LEMMA DetachStep ==
  ASSUME TypeOK, NEW p \in Known, NEW old \in Rows, old.stamp = sources[p].stamp,
         sources[p].recording # NoRecording, Save(p, Detached(old)),
         unreckoned' = unreckoned \cup {sources[p].recording}, UNCHANGED <<audio, unranked>>
  PROVE  DataStep
<1>1. PICK row : row = Detached(old)
  OBVIOUS
<1>2. /\ row \in Rows /\ row.recording = NoRecording /\ row.canonical = FALSE /\ row.state = "observing"
      /\ row.stamp = sources[p].stamp
  BY <1>1, DetachedRow
<1>3. p \in Paths
  BY DEF TypeOK, SourcesTyped
<1>4. Saved(p, row)
  BY <1>1, <1>2, <1>3, SaveIs DEF TypeOK
<1>5. DetachedSaved(p, row)
  BY <1>2, <1>4 DEF DetachedSaved
<1> QED BY <1>2, <1>3, <1>5, OneSaved

LEMMA ScanReplacedStep ==
  ASSUME IngestInv, ScanReplaced
  PROVE  DataStep
<1> USE DEF IngestInv
<1>1. PICK p \in op.todo \cap Known :
        /\ sources[p].recording # NoRecording /\ Save(p, Detached(Observed(p)))
        /\ unreckoned' = unreckoned \cup {sources[p].recording}
  BY DEF ScanReplaced
<1>2. UNCHANGED <<audio, unranked>>
  BY DEF ScanReplaced
<1>3. Observed(p) \in Rows /\ Observed(p).stamp = sources[p].stamp
  BY <1>1, KnownRow, ObservedRow
<1> QED BY <1>1, <1>2, <1>3, DetachStep

\* A row that stays without a recording, wherever it is written.
LEMMA LooseStep ==
  ASSUME TypeOK, NEW p \in Paths, NEW row \in Rows, p \in Known => sources[p].recording = NoRecording,
         row.recording = NoRecording, ~row.canonical, row.state # "hashed", row.stamp <= changes,
         Save(p, row), UNCHANGED <<audio, owed>>
  PROVE  DataStep
<1>1. Saved(p, row)
  BY SaveIs DEF TypeOK
<1>2. LooseSaved(p, row)
  BY <1>1 DEF LooseSaved
<1> QED BY <1>2, OneSaved

LEMMA ScanUnattachedStep ==
  ASSUME IngestInv, ScanUnattached
  PROVE  DataStep
<1> USE DEF IngestInv
<1>1. PICK p \in op.todo :
        /\ Observed(p).recording = NoRecording
        /\ Save(p, Discovery(Observed(p), "hashing", Observed(p).since)) \/ Save(p, Observed(p))
  BY DEF ScanUnattached
<1>2. UNCHANGED <<audio, owed>>
  BY DEF ScanUnattached
<1>3. PICK row : row = Observed(p)
  OBVIOUS
<1>4. p \in Paths
  BY <1>1 DEF TypeOK, OpTyped, Operations
<1>5. /\ row \in Rows /\ row.stamp <= changes /\ row.recording = NoRecording
      /\ row.state # "hashed" /\ row.canonical = FALSE
      /\ p \in Known => sources[p].recording = NoRecording
  BY <1>1, <1>3, <1>4, ObservedRow
<1>6. CASE Save(p, row)
  BY <1>2, <1>4, <1>5, <1>6, LooseStep
<1>7. CASE Save(p, Discovery(row, "hashing", row.since))
  <2>1. PICK new : new = Discovery(row, "hashing", row.since)
    OBVIOUS
  <2>2. row.since \in {"recent", "elapsed", "never"}
    BY <1>5 DEF Rows
  <2>3. /\ new \in Rows /\ new.stamp = row.stamp /\ new.recording = row.recording
        /\ new.canonical = row.canonical /\ new.state = "hashing"
    BY <1>5, <2>1, <2>2, DiscoveryRow
  <2> QED BY <1>2, <1>4, <1>5, <1>7, <2>1, <2>3, LooseStep
<1> QED BY <1>1, <1>3, <1>6, <1>7

\* The path an ingest is hashing, and the file it saw there.
LEMMA HashedRow ==
  ASSUME IngestInv, Where \in Hashing \/ Where = "validate_restamp"
  PROVE  /\ op.path \in Known /\ op.path \in Paths /\ sources[op.path] \in Rows
         /\ sources[op.path].recording = NoRecording /\ sources[op.path].canonical = FALSE
         /\ sources[op.path].state # "hashed" /\ sources[op.path].stamp <= changes
<1>1. op.path \in Known /\ sources[op.path].recording = NoRecording
  BY DEF IngestInv, IngestHolds, StageHolds
<1> QED BY <1>1, KnownRow DEF IngestInv, Rows

\* The row of that path with another state and another stamp.
LEMMA HashedSaved ==
  ASSUME IngestInv, Where \in Hashing \/ Where = "validate_restamp",
         NEW state \in {"observing", "hashing", "failed"}, NEW since \in {"recent", "elapsed", "never"},
         NEW old \in Rows, old.recording = NoRecording, ~old.canonical, old.stamp <= changes,
         Save(op.path, Discovery(old, state, since)), UNCHANGED <<audio, owed>>
  PROVE  DataStep
<1>1. PICK new : new = Discovery(old, state, since)
  OBVIOUS
<1>2. /\ new \in Rows /\ new.stamp = old.stamp /\ new.recording = NoRecording
      /\ ~new.canonical /\ new.state = state
  BY <1>1, DiscoveryRow
<1>3. state # "hashed"
  OBVIOUS
<1> QED BY <1>1, <1>2, <1>3, HashedRow, LooseStep DEF IngestInv

LEMMA RestampedSaved ==
  ASSUME IngestInv, Where \in Hashing \/ Where = "validate_restamp",
         NEW stamp \in Stamps, stamp <= changes
  PROVE  LET row == Restamped(sources[op.path], stamp)
         IN /\ row \in Rows /\ row.recording = NoRecording /\ ~row.canonical /\ row.stamp <= changes
            /\ row.since \in {"recent", "elapsed", "never"} /\ row.state # "hashed"
<1>1. PICK row : row = Restamped(sources[op.path], stamp)
  OBVIOUS
<1>2. /\ row \in Rows /\ row.recording = NoRecording /\ ~row.canonical /\ row.stamp <= changes
      /\ row.state # "hashed"
  BY <1>1, HashedRow, RestampedRow
<1>3. row.since \in {"recent", "elapsed", "never"}
  BY <1>2 DEF Rows
<1> QED BY <1>1, <1>2, <1>3

LEMMA SeenStamps ==
  ASSUME IngestInv
  PROVE  /\ op.before.stamp \in Stamps /\ op.before.stamp <= changes
         /\ \A p \in Paths : disk[p].stamp \in Stamps /\ disk[p].stamp <= changes
<1>1. 0 \in Stamps
  BY Constants DEF Stamps
<1>2. \A f \in Files : f.stamp \in Stamps
  BY <1>1 DEF Files, Absent
<1>3. op.before \in Files /\ \A p \in Paths : disk[p] \in Files
  BY DEF IngestInv, TypeOK, OpTyped, Operations, FilesTyped
<1> QED BY <1>2, <1>3 DEF IngestInv, OpStamp, DiskStamps

LEMMA RestampStep ==
  ASSUME IngestInv, Restamp \/ ValidateRestamp
  PROVE  DataStep
<1> DEFINE stamp == op.before.stamp
           row == Restamped(sources[op.path], stamp)
<1>1. Where \in Hashing \/ Where = "validate_restamp"
  BY DEF Where, Hashing, Restamp, ValidateRestamp
<1>2. Save(op.path, row) \/ Save(op.path, Discovery(row, "hashing", row.since))
  BY DEF Restamp, ValidateRestamp
<1>3. UNCHANGED <<audio, owed>>
  BY DEF Restamp, ValidateRestamp
<1>4. /\ row \in Rows /\ row.recording = NoRecording /\ ~row.canonical /\ row.stamp <= changes
      /\ row.since \in {"recent", "elapsed", "never"} /\ row.state # "hashed"
  BY <1>1, SeenStamps, RestampedSaved
<1> HIDE DEF row
<1>5. CASE Save(op.path, row)
  BY <1>1, <1>3, <1>4, <1>5, HashedRow, LooseStep DEF IngestInv
<1>6. CASE Save(op.path, Discovery(row, "hashing", row.since))
  BY <1>1, <1>3, <1>4, <1>6, HashedSaved
<1> QED BY <1>2, <1>5, <1>6

LEMMA HashStep ==
  ASSUME IngestInv, HashVanished \/ HashError \/ HashDiscarded
  PROVE  DataStep
<1> DEFINE row == sources[op.path]
<1>1. Where \in Hashing
  BY DEF Where, Hashing, HashVanished, HashError, HashDiscarded
<1>2. /\ row \in Rows /\ row.recording = NoRecording /\ ~row.canonical /\ row.stamp <= changes
      /\ row.since \in {"recent", "elapsed", "never"} /\ op.path \in Paths
  BY <1>1, HashedRow DEF Rows
<1>3. UNCHANGED <<audio, owed>>
  BY DEF HashVanished, HashError, HashDiscarded
<1>4. CASE HashVanished
  <2>1. Save(op.path, Discovery(row, "observing", "never"))
    BY <1>4 DEF HashVanished
  <2> HIDE DEF row
  <2> QED BY <1>1, <1>2, <1>3, <2>1, HashedSaved
<1>5. CASE HashError
  <2>1. Save(op.path, Discovery(row, "failed", row.since))
    BY <1>5 DEF HashError
  <2> HIDE DEF row
  <2> QED BY <1>1, <1>2, <1>3, <2>1, HashedSaved
<1>6. CASE HashDiscarded
  <2> DEFINE after == disk[op.path]
             stamp == IF after = Absent THEN row.stamp ELSE after.stamp
  <2>1. Save(op.path, Discovery(Restamped(row, stamp), "observing", "recent"))
    BY <1>6 DEF HashDiscarded
  <2>2. stamp \in Stamps /\ stamp <= changes
    BY <1>2, SeenStamps DEF Rows
  <2> HIDE DEF stamp
  <2>3. PICK new : new = Restamped(row, stamp)
    OBVIOUS
  <2>4. new \in Rows /\ new.recording = NoRecording /\ ~new.canonical /\ new.stamp <= changes
    BY <1>1, <2>2, <2>3, RestampedSaved
  <2> QED BY <1>1, <1>3, <2>1, <2>3, <2>4, HashedSaved
<1> QED BY <1>4, <1>5, <1>6

\* The table with another row of a source that there is.
LEMMA StoredIs ==
  ASSUME SourcesTyped, NEW p \in Known, NEW row \in Rows
  PROVE  LET srcs == Stored(sources, p, row)
         IN /\ srcs \in [Known -> Rows] /\ srcs[p] = row
            /\ \A q \in Known : q # p => srcs[q] = sources[q]
<1>1. Stored(sources, p, row) = [q \in Known |-> IF q = p THEN row ELSE sources[q]]
  <2>1. DOMAIN sources \cup {p} = Known
    BY DEF Known
  <2> QED BY <2>1 DEF Stored
<1>2. \A q \in Known : (IF q = p THEN row ELSE sources[q]) \in Rows
  BY DEF SourcesTyped
<1> QED BY <1>1, <1>2

LEMMA AttachStep ==
  ASSUME IngestInv, Attach
  PROVE  DataStep
<1>1. Where \in Hashing /\ op.read \in Digests
  BY DEF Where, Hashing, Attach, IngestInv, ReadHolds
<1>2. PICK row : row = Attached(sources[op.path], op.read)
  OBVIOUS
<1>3. /\ row \in Rows /\ row.recording = op.read /\ row.state = "hashed" /\ row.stamp = sources[op.path].stamp
  BY <1>1, <1>2, HashedRow, AttachedRow
<1>4. PICK srcs : srcs = Stored(sources, op.path, row)
  OBVIOUS
<1>5. srcs \in [Known -> Rows] /\ srcs[op.path] = row /\ \A q \in Known : q # op.path => srcs[q] = sources[q]
  BY <1>1, <1>3, <1>4, HashedRow, StoredIs DEF IngestInv, TypeOK
<1>6. Recalculated(op.read, srcs, TRUE)
  BY <1>2, <1>4 DEF Attach
<1>7. sources[op.path].recording = NoRecording
  BY <1>1, HashedRow
<1>8. ASSUME NEW q \in Known
      PROVE  /\ srcs[q].stamp = sources[q].stamp
             /\ \/ srcs[q] = sources[q]
                \/ /\ TRUE /\ srcs[q].recording = op.read /\ srcs[q].state = "hashed"
                   /\ sources[q].recording \in {op.read, NoRecording}
  BY <1>3, <1>5, <1>7
<1>9. TypeOK
  BY DEF IngestInv
<1>10. Trusting(op.read, srcs)
  <2>1. /\ disk[op.path].stamp = op.before.stamp /\ disk[op.path].stamp = row.stamp
        /\ op.before.stamp # ZeroSize /\ op.pc = "hash_after" /\ op.path \in Paths
    BY <1>1, <1>3, HashedRow DEF Attach, Unchanged
  <2>2. silent = 0 => disk[op.path].content = op.read
    BY <2>1 DEF IngestInv, ReadTrusted
  <2>3. disk[op.path].content # Torn
    BY <2>1, <1>9, FilesAre DEF TypeOK, FilesTyped
  <2> QED BY <1>3, <1>5, <2>1, <2>2, <2>3 DEF Trusting
<1> QED BY <1>1, <1>5, <1>6, <1>8, <1>9, <1>10, RankedStep

LEMMA ValidateNoneStep ==
  ASSUME IngestInv, ValidateNone
  PROVE  DataStep
<1>1. op.recording \in Recordings
  BY DEF IngestInv, StageHolds, Where, Checking, TypeOK, OpTyped, ValidateNone
<1>2. Recalculated(op.recording, sources, TRUE) /\ TypeOK
  BY DEF ValidateNone, IngestInv
<1> QED BY <1>1, <1>2, SameRowsStep

LEMMA MarkMissingStep ==
  ASSUME IngestInv, NEW p \in Known, sources[p].recording = op.recording, op.recording # NoRecording,
         MarkMissing(p)
  PROVE  /\ DataStep /\ Known' = Known
         /\ \A q \in Known : q # p =>
              sources'[q].recording = sources[q].recording /\ sources'[q].present = sources[q].present
<1>1. op.recording \in Digests
  BY DEF IngestInv, TypeOK, OpTyped, AudioTyped
<1>2. PICK row : row = Placed(sources[p], FALSE, FALSE)
  OBVIOUS
<1>3. row \in Rows /\ row.recording = op.recording /\ row.state = "hashed" /\ row.stamp = sources[p].stamp
  BY <1>2, KnownRow, PlacedRow DEF IngestInv
<1>4. PICK srcs : srcs = Stored(sources, p, row)
  OBVIOUS
<1>5. srcs \in [Known -> Rows] /\ srcs[p] = row /\ \A q \in Known : q # p => srcs[q] = sources[q]
  BY <1>3, <1>4, StoredIs DEF IngestInv, TypeOK
<1>6. Recalculated(op.recording, srcs, TRUE)
  BY <1>2, <1>4 DEF MarkMissing
<1>7. ASSUME NEW q \in Known
      PROVE  /\ srcs[q].stamp = sources[q].stamp
             /\ \/ srcs[q] = sources[q]
                \/ /\ TRUE /\ srcs[q].recording = op.recording /\ srcs[q].state = "hashed"
                   /\ sources[q].recording \in {op.recording, NoRecording}
  BY <1>3, <1>5
<1>8. TypeOK
  BY DEF IngestInv
<1>9. Trusting(op.recording, srcs)
  BY <1>3, <1>5, <1>8 DEF Trusting, TypeOK, OpTyped
<1>10. Ranked(op.recording, srcs, TRUE) /\ DataStep
  BY <1>1, <1>5, <1>6, <1>7, <1>8, <1>9, RankedStep
<1>11. DOMAIN srcs = Known
  BY <1>5
<1> QED BY <1>5, <1>10, <1>11 DEF Ranked, RowsRanked

LEMMA DetachCheckedStep ==
  ASSUME IngestInv, NEW p \in Known, sources[p].recording = op.recording, op.recording # NoRecording,
         NEW stat, Detach(p, stat)
  PROVE  DataStep
<1>1. Save(p, Detached(sources[p])) /\ unreckoned' = unreckoned \cup {op.recording} /\ UNCHANGED <<audio, unranked>>
  BY DEF Detach
<1>2. sources[p] \in Rows /\ TypeOK
  BY KnownRow DEF IngestInv
<1> QED BY <1>1, <1>2, DetachStep

\* The path of a stage, and those that it has still to look at.
LEMMA CheckedRows ==
  ASSUME IngestInv
  PROVE  /\ Where \in Checking => op.recording # NoRecording /\ op.recording \in Recordings /\ op.recording \in Digests
         /\ op.pc = "validate" => \A p \in TriedNext : p \in Known /\ sources[p].recording = op.recording
         /\ op.pc \in {"validate_read", "stage"} =>
              op.path \in Known /\ op.path \in Paths /\ sources[op.path].recording = op.recording
<1>1. op.pc = "validate" => Where \in Checking
  BY DEF Where, Checking
<1>2. \A p \in TriedNext : p \in op.todo
  BY DEF TriedNext
<1> QED BY <1>1, <1>2 DEF IngestInv, StageHolds, TypeOK, OpTyped, AudioTyped, SourcesTyped

LEMMA ValidateStatStep ==
  ASSUME IngestInv, ValidateStat
  PROVE  DataStep
<1>1. op.pc = "validate" /\ Where \in Checking
  BY DEF ValidateStat, Where, Checking
<1>2. PICK p \in TriedNext \cap inbox :
        MarkMissing(p) \/ Detach(p, disk[p]) \/ UNCHANGED <<sources, audio, owed>>
  BY DEF ValidateStat
<1>3. p \in Known /\ sources[p].recording = op.recording /\ op.recording # NoRecording
  BY <1>1, <1>2, CheckedRows
<1>4. SourcesTyped
  BY DEF IngestInv, TypeOK
<1> QED BY <1>2, <1>3, <1>4, MarkMissingStep, DetachCheckedStep, QuietStep

LEMMA ValidateUnreadableStep ==
  ASSUME IngestInv, ValidateUnreadable
  PROVE  DataStep
<1>1. op.pc = "validate_read" /\ Where \in Checking /\ MarkMissing(op.path)
  BY DEF ValidateUnreadable, Where, Checking
<1> QED BY <1>1, CheckedRows, MarkMissingStep

LEMMA PromotedIs ==
  ASSUME IngestInv, op.pc = "validate_read", sources' = Promoted(op.path), UNCHANGED <<audio, owed>>
  PROVE  RowsKept(op.recording, op.path) /\ DataStep
<1>1. /\ op.recording # NoRecording /\ op.recording \in Digests /\ op.path \in Paths
  BY CheckedRows DEF Where, Checking
<1>2. SourcesTyped /\ \A p \in Known : sources[p] \in Rows /\ sources[p].present \in BOOLEAN
  BY DEF IngestInv, TypeOK, SourcesTyped, Rows
<1>3. CASE op.path \in op.ranked
  <2>1. sources' = sources
    BY <1>3 DEF Promoted
  <2>2. RowsKept(op.recording, op.path)
    BY <1>1, <1>2, <2>1 DEF RowsKept, SourcesTyped, Known
  <2> QED BY <1>1, <2>2 DEF DataStep
<1>4. CASE op.path \notin op.ranked
  <2> DEFINE canonical(p) == p = op.path
  <2>1. sources' = [p \in Known |-> IF sources[p].recording = op.recording
                                    THEN Placed(sources[p], sources[p].present, canonical(p)) ELSE sources[p]]
    BY <1>4 DEF Promoted
  <2>2. \A p \in Known : canonical(p) \in BOOLEAN
    OBVIOUS
  <2>3. \A p \in Known : canonical(p) = (p = op.path)
    OBVIOUS
  <2> HIDE DEF canonical
  <2>4. \A p \in Known :
          LET new == Placed(sources[p], sources[p].present, canonical(p))
          IN /\ new \in Rows /\ new.canonical = canonical(p) /\ new.present = sources[p].present
             /\ new.recording = sources[p].recording /\ new.state = sources[p].state /\ new.stamp = sources[p].stamp
    BY <1>2, <2>2, PlacedRow
  <2>5. Known' = Known
    BY <2>1 DEF Known
  <2>6. \A p \in Known :
          sources'[p] = IF sources[p].recording = op.recording
                        THEN Placed(sources[p], sources[p].present, canonical(p)) ELSE sources[p]
    BY <2>1
  <2>7. sources' \in [Known -> Rows]
    BY <2>1, <2>4, <1>2
  <2>8. \A p \in Known :
           /\ sources'[p].recording = sources[p].recording /\ sources'[p].present = sources[p].present
           /\ sources'[p].state = sources[p].state /\ sources'[p].stamp = sources[p].stamp
           /\ sources'[p].canonical = IF sources[p].recording = op.recording THEN canonical(p) ELSE sources[p].canonical
    BY <2>4, <2>6
  <2>9. RowsKept(op.recording, op.path)
    BY <1>1, <2>3, <2>5, <2>7, <2>8 DEF RowsKept
  <2> QED BY <1>1, <2>9 DEF DataStep
<1> QED BY <1>3, <1>4

LEMMA ValidateReadStep ==
  ASSUME IngestInv, ValidateRead
  PROVE  DataStep
<1>1. op.pc = "validate_read" /\ Where \in Checking
  BY DEF ValidateRead, Where, Checking
<1>2. \/ sources' = Promoted(op.path) /\ UNCHANGED <<audio, owed>>
      \/ Detach(op.path, op.before)
  BY DEF ValidateRead
<1> QED BY <1>1, <1>2, CheckedRows, PromotedIs, DetachCheckedStep

LEMMA EndStageStep ==
  ASSUME IngestInv, EndStage
  PROVE  DataStep
<1>1. op.pc = "stage" /\ Where \in Checking
  BY DEF EndStage, Where, Checking
<1>2. op.recording \in Recordings /\ op.recording \in Digests
  BY <1>1, CheckedRows
<1>3. op.audio \in BOOLEAN /\ op.owed \in BOOLEAN
  BY DEF IngestInv, TypeOK, OpTyped, Operations
<1>4. /\ op.path \in Known /\ sources[op.path].recording = op.recording /\ sources[op.path].present
      /\ ~op.owed => op.audio
  BY <1>1 DEF IngestInv, StageHolds
<1>5. AudioSaved(op.recording, op.audio)
  BY <1>2, <1>3, <1>4 DEF EndStage, AudioSaved
<1> QED BY <1>2, <1>3, <1>5 DEF DataStep

Quiet ==
  \/ WriteFile \/ EmptyFile \/ DeleteFile \/ MoveInbox \/ StartIngest(TRUE) \/ StartIngest(FALSE)
  \/ Discover \/ ScanVanished \/ EndIngest \/ HashBefore \/ HashRead \/ StartStage \/ ValidateOutside
  \/ Crash \/ UNCHANGED vars

LEMMA DataSteps ==
  ASSUME IngestInv, [Next]_vars
  PROVE  DataStep
<1>1. SourcesTyped
  BY DEF IngestInv, TypeOK
<1>2. CASE Quiet
  <2>1. UNCHANGED <<sources, audio, owed>>
    BY <1>2 DEF Quiet, WriteFile, EmptyFile, DeleteFile, MoveInbox, StartIngest, Discover, ScanVanished, EndIngest,
         HashBefore, HashRead, StartStage, ValidateOutside, Crash, vars
  <2> QED BY <1>1, <2>1, QuietStep
<1>3. CASE ~Quiet
  <2>1. \/ Elapse \/ Reconcile \/ Recalculate \/ ScanAttached \/ ScanReplaced \/ Restamp \/ ScanUnattached
        \/ HashVanished \/ HashError \/ HashDiscarded \/ Attach
        \/ ValidateNone \/ ValidateStat \/ ValidateRestamp \/ ValidateUnreadable \/ ValidateRead \/ EndStage
    BY <1>3 DEF Quiet, Next, Ingesting, Validating
  <2> QED BY <1>1, <2>1, ElapseStep, ReconcileStep, RecalculateStep, ScanAttachedStep, ScanReplacedStep, RestampStep,
       ScanUnattachedStep, HashStep, AttachStep, ValidateNoneStep, ValidateStatStep, ValidateUnreadableStep,
       ValidateReadStep, EndStageStep
<1> QED BY <1>2, <1>3

-----------------------------------------------------------------------------
(* What is true of the tables after a step *)

LEMMA ChangesGrow ==
  ASSUME CountersTyped, [Next]_vars
  PROVE  CountersTyped' /\ changes <= changes'
<1>1. CASE \/ WriteFile \/ EmptyFile \/ DeleteFile \/ MoveInbox
  BY <1>1, Constants DEF CountersTyped, WriteFile, EmptyFile, DeleteFile, MoveInbox, Change
<1>2. CASE Crash
  BY <1>2, Constants DEF CountersTyped, Crash
<1>3. CASE ~(WriteFile \/ EmptyFile \/ DeleteFile \/ MoveInbox \/ Crash)
  <2>1. UNCHANGED counters
    BY <1>3 DEF Next, Ingesting, Validating, vars, counters, Elapse, StartIngest, Reconcile, Recalculate, Discover,
         ScanVanished, ScanAttached, ScanReplaced, Restamp, ScanUnattached, EndIngest, HashVanished, HashBefore,
         HashRead, HashError, HashDiscarded, Attach, ValidateNone, ValidateOutside, ValidateStat, ValidateRestamp,
         ValidateUnreadable, ValidateRead, EndStage, StartStage
  <2> QED BY <2>1, Constants DEF CountersTyped, counters
<1> QED BY <1>1, <1>2, <1>3

\* What every one of the six kinds says of the rows: who is known, and each row is
\* as before, loose, or of the recording that the step is about.
LEMMA RowsTyped ==
  ASSUME TypeOK, RowStamps, DataStep, changes \in Nat, changes' \in Nat, changes <= changes'
  PROVE  /\ SourcesTyped' /\ AudioTyped' /\ RowStamps'
<1> USE DEF TypeOK
<1>0. NoRecording \notin Digests /\ Recordings \subseteq Digests /\ Known \subseteq Paths /\ \A p \in Known : sources[p].stamp \in Nat
  BY DigestsAreNone, Constants DEF AudioTyped, SourcesTyped, Rows, Stamps
<1>1. ASSUME NEW r \in Digests, NEW path \in Paths \cup {0}, RowsKept(r, path)
      PROVE  SourcesTyped' /\ AudioTyped' /\ RowStamps'
  <2>1. UNCHANGED <<audio, unreckoned, unranked>> /\ Known' = Known /\ UNCHANGED Recordings
    BY <1>1 DEF RowsKept, owed, Recordings
  <2>2. SourcesTyped'
    BY <1>1, <2>1 DEF RowsKept, SourcesTyped
  <2>3. AudioTyped'
    BY <2>1 DEF AudioTyped
  <2>4. RowStamps'
    BY <1>0, <1>1 DEF RowsKept, RowStamps
  <2> QED BY <2>2, <2>3, <2>4
<1>2. ASSUME NEW p \in Paths, NEW row \in Rows, LooseSaved(p, row) \/ AttachedSaved(p, row) \/ DetachedSaved(p, row)
      PROVE  SourcesTyped' /\ AudioTyped' /\ RowStamps'
  <2>1. /\ UNCHANGED audio /\ Saved(p, row) /\ UNCHANGED Recordings
        /\ unreckoned' \subseteq Recordings /\ unranked' \subseteq Recordings
    BY <1>2 DEF LooseSaved, AttachedSaved, DetachedSaved, owed, Recordings, AudioTyped, SourcesTyped
  <2>2. /\ row.recording \in Recordings \cup {NoRecording} /\ row.stamp <= changes
        /\ row.state = "hashed" <=> row.recording # NoRecording
        /\ row.canonical => row.state = "hashed"
    BY <1>2 DEF LooseSaved, AttachedSaved, DetachedSaved, SourcesTyped, RowStamps
  <2>3. SourcesTyped'
    BY <2>1, <2>2 DEF Saved, SourcesTyped
  <2>4. AudioTyped'
    BY <2>1 DEF AudioTyped
  <2>5. row.stamp \in Nat
    BY Constants DEF Rows, Stamps
  <2>6. RowStamps'
    BY <1>0, <2>1, <2>2, <2>5 DEF Saved, RowStamps
  <2> QED BY <2>3, <2>4, <2>6
<1>3. ASSUME NEW r \in Digests, NEW srcs \in [Known -> Rows], NEW canonical \in BOOLEAN, Ranked(r, srcs, canonical)
      PROVE  SourcesTyped' /\ AudioTyped' /\ RowStamps'
  <2>1. DOMAIN srcs = Known
    OBVIOUS
  <2>2. /\ Known' = Known /\ sources' \in [Known -> Rows] /\ Recordings' = Recordings \cup {r}
        /\ audio' \in [Recordings' -> BOOLEAN] /\ unreckoned' \subseteq Recordings' /\ unranked' \subseteq Recordings'
    BY <1>3, <2>1 DEF Ranked, RowsRanked, AudioRanked, AudioTyped
  <2>3. \A q \in Known :
          /\ sources'[q].recording = srcs[q].recording /\ sources'[q].state = srcs[q].state
          /\ sources'[q].stamp = srcs[q].stamp
          /\ sources'[q].canonical => srcs[q].recording = r \/ srcs[q].canonical
    BY <1>3, <2>1, <2>2 DEF Ranked, RowsRanked
  <2>4. \A q \in Known :
          /\ srcs[q].stamp = sources[q].stamp
          /\ \/ srcs[q] = sources[q]
             \/ srcs[q].recording = r /\ srcs[q].state = "hashed"
    BY <1>3 DEF Ranked
  <2>5. ASSUME NEW q \in Known
        PROVE  /\ srcs[q].recording \in Recordings' \cup {NoRecording}
               /\ srcs[q].state = "hashed" <=> srcs[q].recording # NoRecording
               /\ srcs[q].canonical => srcs[q].state = "hashed"
    BY <1>0, <2>2, <2>4 DEF SourcesTyped
  <2>6. SourcesTyped'
    BY <1>0, <2>2, <2>3, <2>5 DEF SourcesTyped
  <2>7. AudioTyped'
    BY <1>0, <2>2 DEF AudioTyped
  <2>8. RowStamps'
    BY <1>0, <2>2, <2>3, <2>4 DEF RowStamps
  <2> QED BY <2>6, <2>7, <2>8
<1>4. ASSUME NEW r \in Digests, NEW status \in BOOLEAN, AudioSaved(r, status)
      PROVE  SourcesTyped' /\ AudioTyped' /\ RowStamps'
  <2>1. UNCHANGED <<sources, unranked>> /\ audio' \in [Recordings -> BOOLEAN] /\ Recordings' = Recordings
        /\ unreckoned' \subseteq Recordings
    BY <1>4 DEF AudioSaved, AudioTyped, Recordings
  <2>2. Known' = Known
    BY <2>1 DEF Known
  <2>3. SourcesTyped'
    BY <2>1, <2>2 DEF SourcesTyped
  <2>4. RowStamps'
    BY <1>0, <2>1, <2>2 DEF RowStamps
  <2> QED BY <2>1, <2>3, <2>4 DEF AudioTyped
<1> QED BY <1>1, <1>2, <1>3, <1>4 DEF DataStep

LEMMA AudioStatusKept ==
  ASSUME TypeOK, DataStep, AudioStatusTrue
  PROVE  AudioStatusTrue'
<1> USE DEF TypeOK
<1>0. NoRecording \notin Recordings /\ Recordings \subseteq Digests
  BY DigestsAreNone DEF AudioTyped
<1>1. ASSUME NEW r \in Digests, NEW path \in Paths \cup {0}, RowsKept(r, path)
      PROVE  AudioStatusTrue'
  BY <1>1 DEF RowsKept, AudioStatusTrue, owed, Recordings
<1>2. ASSUME NEW p \in Paths, NEW row \in Rows, LooseSaved(p, row) \/ AttachedSaved(p, row) \/ DetachedSaved(p, row)
      PROVE  AudioStatusTrue'
  <2>1. UNCHANGED audio /\ UNCHANGED Recordings /\ Saved(p, row)
    BY <1>2 DEF LooseSaved, AttachedSaved, DetachedSaved, Recordings
  <2>2. ASSUME NEW x \in Recordings, x \notin unreckoned'
        PROVE  /\ x \notin unreckoned
               /\ row.recording = x /\ row.present <=> p \in Known /\ sources[p].recording = x /\ sources[p].present
    BY <1>0, <1>2, <2>2 DEF LooseSaved, AttachedSaved, DetachedSaved, owed
  <2>3. ASSUME NEW x \in Recordings, x \notin unreckoned'
        PROVE  audio'[x] <=> \E q \in Known' : sources'[q].recording = x /\ sources'[q].present
    <3>1. audio[x] <=> \E q \in Known : sources[q].recording = x /\ sources[q].present
      BY <2>2, <2>3 DEF AudioStatusTrue
    <3>2. (\E q \in Known : sources[q].recording = x /\ sources[q].present)
            <=> \E q \in Known' : sources'[q].recording = x /\ sources'[q].present
      BY <2>1, <2>2, <2>3 DEF Saved
    <3> QED BY <2>1, <3>1, <3>2
  <2> QED BY <2>1, <2>3 DEF AudioStatusTrue
<1>3. ASSUME NEW r \in Digests, NEW srcs \in [Known -> Rows], NEW canonical \in BOOLEAN, Ranked(r, srcs, canonical)
      PROVE  AudioStatusTrue'
  <2>1. DOMAIN srcs = Known
    OBVIOUS
  <2>2. /\ Known' = Known /\ Recordings' = Recordings \cup {r} /\ unreckoned' = unreckoned \ {r}
        /\ audio'[r] = (\E q \in Known : srcs[q].recording = r /\ srcs[q].present)
        /\ \A x \in Recordings : x # r => audio'[x] = audio[x]
        /\ \A q \in Known : sources'[q].recording = srcs[q].recording /\ sources'[q].present = srcs[q].present
    BY <1>3, <2>1 DEF Ranked, RowsRanked, AudioRanked
  <2>3. \A q \in Known : srcs[q] = sources[q] \/ (srcs[q].recording = r /\ sources[q].recording \in {r, NoRecording})
    BY <1>3 DEF Ranked
  <2>4. ASSUME NEW x \in Recordings' \ unreckoned'
        PROVE  audio'[x] <=> \E q \in Known : sources'[q].recording = x /\ sources'[q].present
    <3>1. CASE x = r
      BY <2>2, <3>1
    <3>2. CASE x # r
      <4>1. x \in Recordings \ unreckoned /\ audio'[x] = audio[x]
        BY <2>2, <2>4, <3>2
      <4>2. \A q \in Known : (srcs[q].recording = x /\ srcs[q].present) <=> (sources[q].recording = x /\ sources[q].present)
        BY <1>0, <2>3, <3>2, <4>1
      <4> QED BY <2>2, <4>1, <4>2 DEF AudioStatusTrue
    <3> QED BY <3>1, <3>2
  <2> QED BY <2>2, <2>4 DEF AudioStatusTrue
<1>4. ASSUME NEW r \in Digests, NEW status \in BOOLEAN, AudioSaved(r, status)
      PROVE  AudioStatusTrue'
  <2>1. Known' = Known /\ UNCHANGED sources /\ Recordings' = Recordings /\ unreckoned \subseteq unreckoned'
    BY <1>4 DEF AudioSaved, Known, Recordings
  <2>2. ASSUME NEW x \in Recordings \ unreckoned'
        PROVE  audio'[x] <=> \E q \in Known : sources[q].recording = x /\ sources[q].present
    BY <1>4, <2>1 DEF AudioSaved, AudioStatusTrue, Recordings
  <2> QED BY <2>1, <2>2 DEF AudioStatusTrue
<1> QED BY <1>1, <1>2, <1>3, <1>4 DEF DataStep

LEMMA OneCanonicalKept ==
  ASSUME TypeOK, DataStep, OneCanonical
  PROVE  OneCanonical'
<1> USE DEF TypeOK
<1>0. NoRecording \notin Recordings /\ Recordings \subseteq Digests /\ Known \subseteq Nat
  BY DigestsAreNone, Constants DEF AudioTyped, SourcesTyped
<1> DEFINE Chosen(x, q) == sources[q].recording = x /\ sources[q].present /\ sources[q].canonical
<1>h. \A x \in Recordings \ unranked : \A p, q \in Known : Chosen(x, p) /\ Chosen(x, q) => p = q
  BY DEF OneCanonical
<1>1. ASSUME NEW r \in Digests, NEW path \in Paths \cup {0}, RowsKept(r, path)
      PROVE  OneCanonical'
  <2>1. UNCHANGED <<Known, Recordings, unranked>>
    BY <1>1 DEF RowsKept, owed, Recordings
  <2>2. ASSUME NEW x \in Recordings \ unranked, NEW p \in Known, NEW q \in Known,
               sources'[p].recording = x /\ sources'[p].present /\ sources'[p].canonical,
               sources'[q].recording = x /\ sources'[q].present /\ sources'[q].canonical
        PROVE  p = q
    <3>1. /\ sources[p].recording = x /\ sources[p].present /\ sources[q].recording = x /\ sources[q].present
      BY <1>1, <2>2 DEF RowsKept
    <3>2. CASE \A i \in Known : sources'[i].canonical = sources[i].canonical
      <4>1. Chosen(x, p) /\ Chosen(x, q)
        BY <2>2, <3>1, <3>2
      <4> QED BY <1>h, <4>1
    <3>3. CASE \A i \in Known : sources'[i].canonical = IF sources[i].recording = r THEN i = path ELSE sources[i].canonical
      <4>1. CASE x = r
        BY <2>2, <3>1, <3>3, <4>1
      <4>2. CASE x # r
        <5>1. Chosen(x, p) /\ Chosen(x, q)
          BY <2>2, <3>1, <3>3, <4>2
        <5> QED BY <1>h, <5>1
      <4> QED BY <4>1, <4>2
    <3> QED BY <1>1, <3>2, <3>3 DEF RowsKept
  <2> QED BY <2>1, <2>2 DEF OneCanonical
<1>2. ASSUME NEW p \in Paths, NEW row \in Rows, LooseSaved(p, row) \/ AttachedSaved(p, row) \/ DetachedSaved(p, row)
      PROVE  OneCanonical'
  <2>1. UNCHANGED Recordings /\ Saved(p, row) /\ unranked \subseteq unranked'
    BY <1>2 DEF LooseSaved, AttachedSaved, DetachedSaved, Recordings, owed
  <2>2. ASSUME NEW x \in Recordings, x \notin unranked', row.recording = x, row.present, row.canonical
        PROVE  p \in Known /\ Chosen(x, p)
    BY <1>0, <1>2, <2>2 DEF LooseSaved, AttachedSaved, DetachedSaved, owed
  <2>3. ASSUME NEW x \in Recordings, x \notin unranked', NEW q \in Known',
               sources'[q].recording = x /\ sources'[q].present /\ sources'[q].canonical
        PROVE  q \in Known /\ Chosen(x, q)
    BY <2>1, <2>2, <2>3 DEF Saved
  <2> QED BY <2>1, <2>3, <1>h DEF OneCanonical
<1>3. ASSUME NEW r \in Digests, NEW srcs \in [Known -> Rows], NEW canonical \in BOOLEAN, Ranked(r, srcs, canonical)
      PROVE  OneCanonical'
  <2>1. DOMAIN srcs = Known
    OBVIOUS
  <2>2. /\ Known' = Known /\ Recordings' = Recordings \cup {r}
        /\ \A q \in Known :
             /\ sources'[q].recording = srcs[q].recording /\ sources'[q].present = srcs[q].present
             /\ sources'[q].canonical =
                  IF canonical /\ srcs[q].recording = r /\ srcs[q].present
                  THEN \A p \in Known : srcs[p].recording = r /\ srcs[p].present => q <= p
                  ELSE srcs[q].canonical
    BY <1>3, <2>1 DEF Ranked, RowsRanked, AudioRanked
  <2>3. \A q \in Known : srcs[q] = sources[q] \/ (canonical /\ srcs[q].recording = r /\ sources[q].recording \in {r, NoRecording})
    BY <1>3 DEF Ranked
  <2>4. unranked' = IF canonical THEN unranked \ {r} ELSE unranked
    BY <1>3 DEF Ranked
  <2>5. ASSUME NEW x \in Recordings' \ unranked', NEW p \in Known, NEW q \in Known,
               sources'[p].recording = x /\ sources'[p].present /\ sources'[p].canonical,
               sources'[q].recording = x /\ sources'[q].present /\ sources'[q].canonical
        PROVE  p = q
    <3>1. CASE canonical /\ x = r
      <4>1. p <= q /\ q <= p
        BY <2>2, <2>5, <3>1
      <4> QED BY <1>0, <4>1
    <3>2. CASE ~canonical /\ x \notin Recordings
      <4>1. sources[p].recording = x /\ p \in Known
        BY <2>2, <2>3, <2>5, <3>2
      <4>2. x \in Recordings \cup {NoRecording} /\ x \in Digests
        BY <4>1, <2>2, <1>0, <3>2 DEF SourcesTyped
      <4> QED BY <3>2, <4>2, DigestsAreNone
    <3>3. CASE x \in Recordings /\ (~canonical \/ x # r)
      <4>1. x \in Recordings \ unranked
        BY <2>4, <2>5, <3>3
      <4>2. srcs[p] = sources[p] /\ srcs[q] = sources[q]
        BY <2>2, <2>3, <2>5, <3>3
      <4>3. Chosen(x, p) /\ Chosen(x, q)
        BY <2>2, <2>5, <3>3, <4>2
      <4> QED BY <1>h, <4>1, <4>3
    <3> QED BY <2>2, <2>5, <3>1, <3>2, <3>3
  <2> QED BY <2>2, <2>5 DEF OneCanonical
<1>4. ASSUME NEW r \in Digests, NEW status \in BOOLEAN, AudioSaved(r, status)
      PROVE  OneCanonical'
  <2>1. UNCHANGED <<Known, sources, Recordings, unranked>>
    BY <1>4 DEF AudioSaved, Known, Recordings
  <2> QED BY <2>1 DEF OneCanonical
<1> QED BY <1>1, <1>2, <1>3, <1>4 DEF DataStep

-----------------------------------------------------------------------------
(* The files, and what the stamps of rows tell of them *)

\* The user writes, empties or deletes the file at p.
FileChanged(p, file) ==
  /\ p \in Paths /\ file \in Files /\ Change(p, file)
  /\ UNCHANGED <<inbox, sources, audio, owed>>
  /\ file.stamp <= changes'
  /\ silent' = 0 => silent = 0 /\ (file.stamp = ZeroSize \/ file.stamp = changes')

LEMMA FileSteps ==
  ASSUME TypeOK, WriteFile \/ EmptyFile \/ DeleteFile
  PROVE  \E p \in Paths, file \in Files : FileChanged(p, file)
<1>0. changes \in Nat /\ silent \in Nat /\ MaxChanges \in Nat /\ 0 \in Nat
  BY Constants DEF TypeOK, CountersTyped
<1>1. CASE WriteFile
  <2>1. PICK p \in Paths, content \in Contents, stamp \in 1 .. changes + 1 :
          /\ silent' = IF stamp <= changes THEN silent + 1 ELSE silent
          /\ Change(p, [content |-> content, stamp |-> stamp])
    BY <1>1 DEF WriteFile
  <2>2. PICK file : file = [content |-> content, stamp |-> stamp]
    OBVIOUS
  <2>3. changes < MaxChanges /\ changes' = changes + 1
    BY <2>1 DEF Change
  <2>4. stamp \in Stamps /\ stamp <= changes' /\ (stamp > changes => stamp = changes')
    BY <1>0, <2>1, <2>3 DEF Stamps
  <2>5. file \in Files /\ file.stamp = stamp
    BY <2>2, <2>4, FilesAre
  <2>6. silent' = 0 => silent = 0 /\ stamp = changes'
    BY <1>0, <2>1, <2>4
  <2>7. UNCHANGED <<inbox, sources, audio, owed>>
    BY <1>1 DEF WriteFile
  <2>8. FileChanged(p, file)
    BY <2>1, <2>2, <2>4, <2>5, <2>6, <2>7 DEF FileChanged
  <2> QED BY <2>5, <2>8
<1>2. ASSUME NEW p \in Paths, NEW file \in Files, file.stamp = ZeroSize, Change(p, file),
             UNCHANGED <<inbox, sources, audio, silent, owed>>
      PROVE  \E q \in Paths, new \in Files : FileChanged(q, new)
  <2>1. ZeroSize <= changes'
    BY <1>0, <1>2 DEF Change, ZeroSize
  <2>2. FileChanged(p, file)
    BY <1>2, <2>1 DEF FileChanged
  <2> QED BY <2>2
<1>3. CASE EmptyFile
  <2>1. PICK p \in Paths : Change(p, [content |-> Empty, stamp |-> ZeroSize])
    BY <1>3 DEF EmptyFile
  <2>2. [content |-> Empty, stamp |-> ZeroSize] \in Files
    BY FilesAre
  <2>3. UNCHANGED <<inbox, sources, audio, silent, owed>>
    BY <1>3 DEF EmptyFile
  <2> QED BY <1>2, <2>1, <2>2, <2>3
<1>4. CASE DeleteFile
  <2>1. PICK p \in Paths : Change(p, Absent)
    BY <1>4 DEF DeleteFile
  <2>2. UNCHANGED <<inbox, sources, audio, silent, owed>>
    BY <1>4 DEF DeleteFile
  <2> QED BY <1>2, <2>1, <2>2, FilesAre
<1> QED BY <1>1, <1>3, <1>4

\* Every other step leaves the files alone.
LEMMA OtherSteps ==
  ASSUME [Next]_vars, ~(WriteFile \/ EmptyFile \/ DeleteFile)
  PROVE  UNCHANGED <<disk, silent>> /\ (UNCHANGED inbox \/ MoveInbox)
<1>1. CASE MoveInbox
  BY <1>1 DEF MoveInbox
<1>2. CASE ~MoveInbox
  BY <1>2 DEF Next, Ingesting, Validating, vars, counters, env, Elapse, StartIngest, Reconcile, Recalculate, Discover,
       ScanVanished, ScanAttached, ScanReplaced, Restamp, ScanUnattached, EndIngest, HashVanished, HashBefore,
       HashRead, HashError, HashDiscarded, Attach, ValidateNone, ValidateOutside, ValidateStat, ValidateRestamp,
       ValidateUnreadable, ValidateRead, EndStage, StartStage, Crash
<1> QED BY <1>1, <1>2

LEMMA FilesKept ==
  ASSUME TypeOK, DiskStamps, [Next]_vars
  PROVE  FilesTyped' /\ DiskStamps' /\ (silent' = 0 => silent = 0)
<1>1. CountersTyped' /\ changes <= changes' /\ changes \in Nat /\ changes' \in Nat
  BY ChangesGrow, Constants DEF TypeOK, CountersTyped
<1>2. \A p \in Paths : disk[p].stamp \in Nat
  BY Constants DEF TypeOK, FilesTyped, Files, Absent, Stamps
<1>3. CASE WriteFile \/ EmptyFile \/ DeleteFile
  <2>1. PICK p \in Paths, file \in Files : FileChanged(p, file)
    BY <1>3, FileSteps
  <2>2. disk' = [disk EXCEPT ![p] = file] /\ UNCHANGED inbox
    BY <2>1 DEF FileChanged, Change
  <2>3. FilesTyped'
    BY <2>2 DEF TypeOK, FilesTyped
  <2>4. DiskStamps'
    BY <1>1, <1>2, <2>1, <2>2 DEF FileChanged, DiskStamps, TypeOK, FilesTyped
  <2> QED BY <2>1, <2>3, <2>4 DEF FileChanged
<1>4. CASE ~(WriteFile \/ EmptyFile \/ DeleteFile)
  <2>1. UNCHANGED <<disk, silent>> /\ (UNCHANGED inbox \/ MoveInbox)
    BY <1>4, OtherSteps
  <2>2. FilesTyped'
    BY <2>1 DEF TypeOK, FilesTyped, MoveInbox
  <2>3. DiskStamps'
    BY <1>1, <1>2, <2>1 DEF DiskStamps
  <2> QED BY <2>1, <2>2, <2>3
<1> QED BY <1>3, <1>4

LEMMA RowsTrustedKept ==
  ASSUME IngestInv, [Next]_vars
  PROVE  RowsTrusted'
<1> USE DEF IngestInv
<1>0. NoRecording \notin Digests /\ Recordings \subseteq Digests /\ Known \subseteq Paths
  BY DigestsAreNone DEF TypeOK, AudioTyped, SourcesTyped
<1>1. CASE WriteFile \/ EmptyFile \/ DeleteFile
  <2>1. PICK p \in Paths, file \in Files : FileChanged(p, file)
    BY <1>1, FileSteps
  <2>2. UNCHANGED <<Known, sources, Recordings>> /\ disk' = [disk EXCEPT ![p] = file] /\ changes' = changes + 1
    BY <2>1 DEF FileChanged, Change, Known, Recordings
  <2>3. \A q \in Known : sources[q].stamp < changes'
    BY <2>2, Constants DEF TypeOK, CountersTyped, SourcesTyped, Rows, Stamps, RowStamps
  <2>4. ASSUME silent' = 0, NEW q \in Known, sources[q].recording # NoRecording
        PROVE  /\ sources[q].stamp # ZeroSize
               /\ disk'[q].stamp = sources[q].stamp => disk'[q].content = sources[q].recording
    <3>1. /\ sources[q].stamp # ZeroSize
          /\ disk[q].stamp = sources[q].stamp => disk[q].content = sources[q].recording
      BY <2>1, <2>4 DEF FileChanged, RowsTrusted
    <3>2. CASE q = p
      <4>1. file.stamp # sources[q].stamp
        BY <2>1, <2>2, <2>3, <2>4, <3>1, Constants DEF FileChanged, TypeOK, SourcesTyped, Rows, Stamps, CountersTyped
      <4>2. disk'[q] = file
        BY <2>2, <3>2 DEF TypeOK, FilesTyped
      <4> QED BY <3>1, <4>1, <4>2
    <3>3. CASE q # p
      BY <2>2, <3>1, <3>3 DEF TypeOK, FilesTyped
    <3> QED BY <3>2, <3>3
  <2> QED BY <2>1, <2>2, <2>4 DEF RowsTrusted, FileChanged
<1>2. CASE ~(WriteFile \/ EmptyFile \/ DeleteFile)
  <2>1. UNCHANGED <<disk, silent>> /\ DataStep
    BY <1>2, OtherSteps, DataSteps
  <2>2. SUFFICES ASSUME silent = 0
                 PROVE  /\ Torn \notin Recordings'
                        /\ \A p \in Known' : sources'[p].recording # NoRecording =>
                             /\ sources'[p].stamp # ZeroSize
                             /\ disk[p].stamp = sources'[p].stamp => disk[p].content = sources'[p].recording
    BY <2>1 DEF RowsTrusted
  <2>3. /\ Torn \notin Recordings
        /\ \A p \in Known : sources[p].recording # NoRecording =>
             /\ sources[p].stamp # ZeroSize
             /\ disk[p].stamp = sources[p].stamp => disk[p].content = sources[p].recording
    BY <2>2 DEF RowsTrusted
  <2>4. CASE \E r \in Digests, path \in Paths \cup {0} : RowsKept(r, path)
    BY <2>3, <2>4 DEF RowsKept, Recordings
  <2>5. ASSUME NEW p \in Paths, NEW row \in Rows, LooseSaved(p, row) \/ AttachedSaved(p, row) \/ DetachedSaved(p, row)
        PROVE  /\ Torn \notin Recordings'
               /\ \A q \in Known' : sources'[q].recording # NoRecording =>
                    /\ sources'[q].stamp # ZeroSize
                    /\ disk[q].stamp = sources'[q].stamp => disk[q].content = sources'[q].recording
    <3>1. UNCHANGED Recordings /\ Saved(p, row)
      BY <2>5 DEF LooseSaved, AttachedSaved, DetachedSaved, Recordings
    <3>2. row.recording = NoRecording \/ (p \in Known /\ row.recording = sources[p].recording /\ row.stamp = sources[p].stamp)
      BY <2>5 DEF LooseSaved, AttachedSaved, DetachedSaved
    <3> QED BY <2>3, <3>1, <3>2 DEF Saved
  <2>6. ASSUME NEW r \in Digests, NEW srcs \in [Known -> Rows], NEW canonical \in BOOLEAN, Ranked(r, srcs, canonical)
        PROVE  /\ Torn \notin Recordings'
               /\ \A q \in Known' : sources'[q].recording # NoRecording =>
                    /\ sources'[q].stamp # ZeroSize
                    /\ disk[q].stamp = sources'[q].stamp => disk[q].content = sources'[q].recording
    <3>1. DOMAIN srcs = Known
      OBVIOUS
    <3>2. /\ Known' = Known /\ Recordings' = Recordings \cup {r}
          /\ \A q \in Known : sources'[q].recording = srcs[q].recording /\ sources'[q].stamp = srcs[q].stamp
      BY <2>6, <3>1 DEF Ranked, RowsRanked, AudioRanked
    <3>3. Trusting(r, srcs) /\ \A q \in Known : srcs[q].stamp = sources[q].stamp /\ (srcs[q] = sources[q] \/ srcs[q].recording = r)
      BY <2>6 DEF Ranked
    <3> QED BY <2>2, <2>3, <3>2, <3>3 DEF Trusting
  <2>7. CASE \E r \in Digests, status \in BOOLEAN : AudioSaved(r, status)
    BY <2>3, <2>7 DEF AudioSaved, Recordings, Known
  <2> QED BY <2>1, <2>4, <2>5, <2>6, <2>7 DEF DataStep
<1> QED BY <1>1, <1>2

-----------------------------------------------------------------------------
(* What the process knows, after a step *)

\* The conjuncts about the operation.
OpInv ==
  /\ OpTyped /\ IngestHolds /\ StageHolds /\ ReadHolds /\ OpStamp /\ ReadTrusted
  /\ StageReadsItsRecording

LEMMA RecordingsGrow ==
  ASSUME DataStep
  PROVE  Recordings \subseteq Recordings'
<1>1. UNCHANGED audio => Recordings' = Recordings
  BY DEF Recordings
<1>2. ASSUME NEW r, NEW status, AudioSaved(r, status)
      PROVE  Recordings' = Recordings
  BY <1>2 DEF AudioSaved, Recordings
<1>3. ASSUME NEW r, NEW srcs, NEW canonical, Ranked(r, srcs, canonical)
      PROVE  Recordings \subseteq Recordings'
  BY <1>3 DEF Ranked, AudioRanked
<1> QED BY <1>1, <1>2, <1>3 DEF DataStep, RowsKept, LooseSaved, AttachedSaved, DetachedSaved

\* Nothing is known between two files, and between two operations.
LEMMA ElsewhereInv ==
  ASSUME op' \in Operations, op'.recording \in Recordings' \cup {NoRecording}, op'.pc \in {"idle", "discover"},
         op'.before.stamp <= changes'
  PROVE  OpInv'
BY DEF OpInv, OpTyped, IngestHolds, StageHolds, ReadHolds, OpStamp, ReadTrusted, StageReadsItsRecording, Where,
   Hashing, Checking

LEMMA NoOpInv ==
  ASSUME op' = NoOp, changes' \in Nat
  PROVE  OpInv'
<1>1. NoOp.before.stamp <= changes'
  BY NoOpIs, FilesAre, Constants DEF ZeroSize
<1> QED BY <1>1, NoOpIs, ElsewhereInv

LEMMA NextFileIs ==
  ASSUME TypeOK
  PROVE  /\ NextFile \in Operations /\ NextFile.pc = "discover" /\ NextFile.before = Absent
         /\ NextFile.recording = op.recording
<1>1. op \in Operations /\ Absent \in Files
  BY FilesAre DEF TypeOK, OpTyped
<1> QED BY <1>1 DEF NextFile, Operations

LEMMA NextFileInv ==
  ASSUME TypeOK, DataStep, op' = NextFile, changes' \in Nat
  PROVE  OpInv'
<1>1. NextFile.before.stamp <= changes'
  BY NextFileIs, FilesAre, Constants DEF ZeroSize
<1>2. op.recording \in Recordings' \cup {NoRecording}
  BY RecordingsGrow DEF TypeOK, OpTyped
<1> QED BY <1>1, <1>2, NextFileIs, ElsewhereInv

\* The files and the operation stay, and so do the recording and the place of every row.
LEMMA SameOpInv ==
  ASSUME IngestInv, DataStep, UNCHANGED <<disk, op>>, Known' = Known,
         \A q \in Known : sources'[q].recording = sources[q].recording /\ sources'[q].present = sources[q].present,
         changes \in Nat, changes' \in Nat, changes <= changes', silent' = 0 => silent = 0
  PROVE  OpInv'
<1> USE DEF IngestInv, TypeOK
<1>1. OpTyped'
  BY RecordingsGrow DEF OpTyped
<1>2. IngestHolds' /\ StageHolds'
  BY DEF IngestHolds, StageHolds, Where
<1>3. ReadHolds' /\ ReadTrusted' /\ StageReadsItsRecording'
  BY DEF ReadHolds, ReadTrusted, StageReadsItsRecording
<1>4. OpStamp'
  BY SeenStamps, Constants DEF OpStamp, Stamps
<1> QED BY <1>1, <1>2, <1>3, <1>4 DEF OpInv

LEMMA FileOpInv ==
  ASSUME IngestInv, NEW p \in Paths, NEW file \in Files, FileChanged(p, file)
  PROVE  OpInv'
<1> DEFINE seen == op.path = p /\ op.pc \in {"hash_read", "validate_read", "stage"}
<1>0. /\ op \in Operations /\ op' = [op EXCEPT !.touched = op.touched \/ seen]
      /\ UNCHANGED sources /\ Known' = Known /\ Recordings' = Recordings
      /\ disk' = [disk EXCEPT ![p] = file] /\ disk \in [Paths -> Files]
      /\ changes' = changes + 1 /\ changes \in Nat /\ op.touched \in BOOLEAN /\ seen \in BOOLEAN
  BY Constants DEF FileChanged, Change, IngestInv, TypeOK, OpTyped, Operations, FilesTyped, CountersTyped, Known, Recordings
<1>1. PICK touched \in BOOLEAN : touched = (op.touched \/ seen)
  BY <1>0
<1>2. /\ op' \in Operations /\ op'.touched = touched /\ op'.pc = op.pc /\ op'.todo = op.todo /\ op'.ranked = op.ranked
      /\ op'.path = op.path /\ op'.before = op.before /\ op'.read = op.read /\ op'.recording = op.recording
      /\ op'.next = op.next /\ op'.audio = op.audio /\ op'.owed = op.owed
  BY <1>0, <1>1 DEF Operations
<1>3. OpTyped'
  BY <1>0, <1>2 DEF OpTyped, IngestInv, TypeOK
<1>4. Where' = Where
  BY <1>2 DEF Where
<1>5. IngestHolds' /\ StageHolds'
  BY <1>0, <1>2, <1>4 DEF IngestHolds, StageHolds, IngestInv
<1>6. \A q \in Paths : q # p => disk'[q] = disk[q]
  BY <1>0
<1>7. ~touched /\ op.pc \in {"hash_read", "validate_read", "stage"} => ~op.touched /\ op.path # p
  BY <1>1
<1>8. op.pc \in {"hash_read", "validate_read", "stage"} => op.path \in Paths
  BY HashedRow, CheckedRows DEF Where, Hashing
<1>9. ReadHolds' /\ StageReadsItsRecording'
  BY <1>2, <1>6, <1>7, <1>8 DEF ReadHolds, StageReadsItsRecording, IngestInv
<1>10. op.before.stamp \in Nat /\ op.before.stamp <= changes
  BY SeenStamps, Constants DEF Stamps
<1>11. OpStamp'
  BY <1>0, <1>2, <1>10 DEF OpStamp
<1>12. ReadTrusted'
  <2>1. CASE op.path = p
    <3>1. disk'[p] = file
      BY <1>0
    <3>2. silent' = 0 => file.stamp = ZeroSize \/ file.stamp = changes'
      BY DEF FileChanged
    <3>3. op.before.stamp # changes'
      BY <1>0, <1>10
    <3> QED BY <1>2, <2>1, <3>1, <3>2, <3>3 DEF ReadTrusted
  <2>2. CASE op.path # p
    <3>1. touched <=> op.touched
      BY <1>0, <1>1, <2>2
    <3>2. silent' = 0 => silent = 0
      BY DEF FileChanged
    <3>3. op.path \in Paths => disk'[op.path] = disk[op.path]
      BY <1>6, <2>2
    <3> QED BY <1>2, <3>1, <3>2, <3>3 DEF ReadTrusted, IngestInv
  <2> QED BY <2>1, <2>2
<1> QED BY <1>3, <1>5, <1>9, <1>11, <1>12 DEF OpInv

\* Row p is written: who is known, and what is left as it was.
LEMMA SavePlain ==
  ASSUME NEW p, NEW row, Save(p, row)
  PROVE  Known' = Known \cup {p} /\ sources'[p] = row /\ \A q \in Known : q # p => sources'[q] = sources[q]
<1>1. sources' = [q \in Known \cup {p} |-> IF q = p THEN row ELSE sources[q]]
  BY DEF Save, Stored, Known
<1> QED BY <1>1 DEF Known

LEMMA StartIngestInv ==
  ASSUME IngestInv, NEW respect \in BOOLEAN, StartIngest(respect), changes' \in Nat
  PROVE  OpInv'
<1>1. /\ Known \subseteq Paths /\ Canonical \subseteq Paths
      /\ \A p \in Known : p \in Canonical => sources[p].recording # NoRecording
  BY DEF IngestInv, TypeOK, SourcesTyped, Canonical
<1>2. op' = [NoOp EXCEPT !.pc = "reconcile", !.respect = respect, !.todo = Known, !.ranked = Canonical]
      /\ UNCHANGED sources
  BY DEF StartIngest
<1>3. /\ op' \in Operations /\ op'.pc = "reconcile" /\ op'.todo = Known /\ op'.ranked = Canonical
      /\ op'.recording = NoRecording /\ op'.before = Absent
  BY <1>1, <1>2, NoOpIs DEF Operations
<1>4. OpTyped'
  BY <1>3 DEF OpTyped
<1>5. IngestHolds' /\ StageHolds' /\ ReadHolds' /\ ReadTrusted' /\ StageReadsItsRecording'
  BY <1>1, <1>2, <1>3 DEF IngestHolds, StageHolds, ReadHolds, ReadTrusted, StageReadsItsRecording, Where, Hashing, Checking,
       Known
<1>6. OpStamp'
  BY <1>3, FilesAre DEF OpStamp, ZeroSize
<1> QED BY <1>4, <1>5, <1>6 DEF OpInv

LEMMA ReconcileInv ==
  ASSUME IngestInv, DataStep, Reconcile, changes' \in Nat, changes <= changes', changes \in Nat
  PROVE  OpInv'
<1>1. PICK p \in op.todo : ReconcileSame(p) \/ ReconcileMoved(p)
  BY DEF Reconcile
<1>2. op.pc = "reconcile" /\ Where = "reconcile"
  BY DEF Reconcile, Where
<1>3. p \in Known /\ op.todo \subseteq Known /\ \A q \in op.todo \cap op.ranked : sources[q].recording # NoRecording
  BY <1>2 DEF IngestInv, IngestHolds
<1>4. op \in Operations /\ op.recording \in Recordings \cup {NoRecording} /\ Recordings \subseteq Digests
      /\ Recordings \subseteq Recordings' /\ sources[p].recording \in Recordings \cup {NoRecording}
  BY <1>3, RecordingsGrow, KnownRow DEF IngestInv, TypeOK, OpTyped, AudioTyped
<1>5. op.before.stamp <= changes'
  BY SeenStamps, Constants DEF Stamps
<1>6. ASSUME Known' = Known, \A q \in Known : sources'[q].recording = sources[q].recording,
             op' \in Operations, op'.recording \in Recordings' \cup {NoRecording},
             op'.before = op.before, op'.todo = op.todo \ {p}, op'.ranked = op.ranked,
             \/ op'.pc = "reconcile"
             \/ op'.pc = "recalculate" /\ op'.next = "reconcile" /\ op'.recording # NoRecording
      PROVE  OpInv'
  <2>1. Where' = "reconcile"
    BY <1>6 DEF Where
  <2>2. OpTyped' /\ OpStamp'
    BY <1>5, <1>6 DEF OpTyped, OpStamp
  <2>3. IngestHolds'
    BY <1>3, <1>6, <2>1 DEF IngestHolds, Hashing
  <2>4. StageHolds' /\ ReadHolds' /\ ReadTrusted' /\ StageReadsItsRecording'
    BY <1>6, <2>1 DEF StageHolds, ReadHolds, ReadTrusted, StageReadsItsRecording, Checking
  <2> QED BY <2>2, <2>3, <2>4 DEF OpInv
<1>7. CASE ReconcileSame(p)
  <2>1. op' = [op EXCEPT !.todo = op.todo \ {p}] /\ UNCHANGED sources
    BY <1>7 DEF ReconcileSame
  <2>2. /\ op' \in Operations /\ op'.recording = op.recording /\ op'.before = op.before
        /\ op'.todo = op.todo \ {p} /\ op'.ranked = op.ranked /\ op'.pc = "reconcile"
    BY <1>2, <1>4, <2>1 DEF Operations
  <2> QED BY <1>4, <1>6, <2>1, <2>2 DEF Known
<1>8. CASE ReconcileMoved(p)
  <2> DEFINE back == disk[p] # Absent
             ranked == p \in op.ranked
  <2>1. Save(p, Placed(sources[p], back, ranked))
    BY <1>8 DEF ReconcileMoved
  <2>2. Placed(sources[p], back, ranked).recording = sources[p].recording
    <3>1. sources[p] \in Rows /\ back \in BOOLEAN /\ ranked \in BOOLEAN
      BY <1>3, KnownRow DEF IngestInv
    <3> HIDE DEF back, ranked
    <3> QED BY <3>1, PlacedRow
  <2>3. Known' = Known /\ \A q \in Known : sources'[q].recording = sources[q].recording
    BY <1>3, <2>1, <2>2, SavePlain
  <2>4. CASE sources[p].recording = NoRecording
    <3>1. op' = [op EXCEPT !.todo = op.todo \ {p}]
      BY <1>8, <2>4 DEF ReconcileMoved
    <3>2. /\ op' \in Operations /\ op'.recording = op.recording /\ op'.before = op.before
          /\ op'.todo = op.todo \ {p} /\ op'.ranked = op.ranked /\ op'.pc = "reconcile"
      BY <1>2, <1>4, <3>1 DEF Operations
    <3> QED BY <1>4, <1>6, <2>3, <3>2
  <2>5. CASE sources[p].recording # NoRecording
    <3>1. op' = [op EXCEPT !.pc = "recalculate", !.next = "reconcile", !.recording = sources[p].recording,
                           !.canonical = back, !.todo = op.todo \ {p}]
      BY <1>8, <2>5 DEF ReconcileMoved
    <3>2. back \in BOOLEAN
      OBVIOUS
    <3> HIDE DEF back
    <3>3. /\ op' \in Operations /\ op'.recording = sources[p].recording /\ op'.before = op.before
          /\ op'.todo = op.todo \ {p} /\ op'.ranked = op.ranked /\ op'.pc = "recalculate" /\ op'.next = "reconcile"
      BY <1>4, <3>1, <3>2 DEF Operations
    <3> QED BY <1>4, <1>6, <2>3, <2>5, <3>3
  <2> QED BY <2>4, <2>5
<1> QED BY <1>1, <1>7, <1>8

LEMMA RecalculateInv ==
  ASSUME IngestInv, DataStep, Recalculate, changes' \in Nat, changes <= changes', changes \in Nat
  PROVE  OpInv'
<1> USE DEF IngestInv
<1>1. op.recording \in Recordings /\ op.canonical \in BOOLEAN /\ op.pc = "recalculate" /\ Where = op.next
      /\ op.next \in {"reconcile", "restamp", "validate_restamp"}
  BY DEF IngestHolds, TypeOK, OpTyped, Operations, Recalculate, Where
<1>2. Ranked(op.recording, sources, op.canonical)
  BY <1>1, SameRowsStep DEF Recalculate
<1>3. Known' = Known /\ \A q \in Known :
         sources'[q].recording = sources[q].recording /\ sources'[q].present = sources[q].present
  BY <1>2 DEF Ranked, RowsRanked, Known
<1>4. op \in Operations /\ UNCHANGED disk /\ Recordings \subseteq Recordings' /\ Recordings \subseteq Digests
  BY RecordingsGrow DEF TypeOK, OpTyped, AudioTyped, Recalculate, env
<1>5. PICK recording \in {op.recording, NoRecording} :
         /\ op.next = "validate_restamp" <=> recording = op.recording
         /\ op' = [op EXCEPT !.pc = op.next, !.next = "idle", !.canonical = FALSE, !.recording = recording]
  <2>1. op.recording # NoRecording
    BY <1>1 DEF IngestHolds
  <2>2. CASE op.next = "validate_restamp"
    <3>1. op' = [op EXCEPT !.pc = op.next, !.next = "idle", !.canonical = FALSE]
      BY <2>2 DEF Recalculate
    <3>2. op' = [op EXCEPT !.pc = op.next, !.next = "idle", !.canonical = FALSE, !.recording = op.recording]
      BY <1>4, <3>1 DEF Operations
    <3> QED BY <2>1, <2>2, <3>2
  <2>3. CASE op.next # "validate_restamp"
    BY <2>1, <2>3 DEF Recalculate
  <2> QED BY <2>2, <2>3
<1>6. /\ op' \in Operations /\ op'.pc = op.next /\ op'.recording = recording /\ op'.todo = op.todo
      /\ op'.ranked = op.ranked /\ op'.path = op.path /\ op'.before = op.before /\ op'.audio = op.audio
      /\ op'.owed = op.owed
  BY <1>1, <1>4, <1>5 DEF Operations
<1>7. OpTyped'
  BY <1>1, <1>4, <1>6 DEF OpTyped
<1>8. Where' = Where
  BY <1>1, <1>6 DEF Where
<1>9. IngestHolds'
  BY <1>1, <1>3, <1>6, <1>8 DEF IngestHolds
<1>10. StageHolds'
  <2>1. CASE op.next = "validate_restamp"
    BY <1>1, <1>3, <1>5, <1>6, <1>8, <2>1 DEF StageHolds, Checking
  <2>2. CASE op.next # "validate_restamp"
    BY <1>1, <1>6, <1>8, <2>2 DEF StageHolds, Checking
  <2> QED BY <2>1, <2>2
<1>11. ReadHolds' /\ ReadTrusted' /\ StageReadsItsRecording'
  BY <1>1, <1>6 DEF ReadHolds, ReadTrusted, StageReadsItsRecording
<1>12. OpStamp'
  BY <1>6, SeenStamps, Constants DEF OpStamp, Stamps
<1> QED BY <1>7, <1>9, <1>10, <1>11, <1>12 DEF OpInv

\* Where an ingest is at a path that has no recording.
LEMMA HashingInv ==
  ASSUME op' \in Operations, op'.recording \in Recordings' \cup {NoRecording}, op'.before.stamp <= changes',
         op'.path \in Known', sources'[op'.path].recording = NoRecording,
         \/ op'.pc \in {"restamp", "hash"}
         \/ op'.pc = "recalculate" /\ op'.next = "restamp" /\ op'.recording # NoRecording
  PROVE  OpInv'
<1>1. Where' \in {"restamp", "hash"}
  BY DEF Where
<1>2. IngestHolds' /\ StageHolds'
  BY <1>1 DEF IngestHolds, StageHolds, Checking
<1> QED BY <1>1, <1>2 DEF OpInv, OpTyped, ReadHolds, ReadTrusted, OpStamp, StageReadsItsRecording

LEMMA ScanReplacedInv ==
  ASSUME IngestInv, DataStep, ScanReplaced, changes' \in Nat, changes <= changes', changes \in Nat
  PROVE  OpInv'
<1> USE DEF IngestInv
<1>1. PICK p \in op.todo \cap Known :
        /\ sources[p].recording # NoRecording /\ Save(p, Detached(Observed(p)))
        /\ op' = [op EXCEPT !.pc = "recalculate", !.next = "restamp", !.recording = sources[p].recording,
                            !.canonical = TRUE, !.path = p, !.before = disk[p], !.todo = op.todo \ {p}]
  BY DEF ScanReplaced
<1>2. p \in Paths /\ sources[p].recording \in Recordings /\ Recordings \subseteq Recordings' /\ Recordings \subseteq Digests
  BY <1>1, KnownRow, RecordingsGrow DEF TypeOK, AudioTyped
<1>3. op \in Operations /\ disk[p] \in Files /\ disk[p].stamp <= changes'
  BY <1>2, SeenStamps, Constants DEF TypeOK, OpTyped, FilesTyped, Stamps
<1>4. /\ op' \in Operations /\ op'.pc = "recalculate" /\ op'.next = "restamp" /\ op'.recording = sources[p].recording
      /\ op'.path = p /\ op'.before = disk[p]
  BY <1>1, <1>2, <1>3 DEF Operations
<1>5. Detached(Observed(p)).recording = NoRecording
  BY <1>2, ObservedRow, DetachedRow
<1>6. p \in Known' /\ sources'[p].recording = NoRecording
  BY <1>1, <1>5, SavePlain
<1> QED BY <1>1, <1>2, <1>3, <1>4, <1>6, HashingInv

LEMMA RestampInv ==
  ASSUME IngestInv, DataStep, Restamp, changes' \in Nat, changes <= changes', changes \in Nat
  PROVE  OpInv'
<1>1. Where \in Hashing
  BY DEF Where, Hashing, Restamp
<1>2. op \in Operations /\ op.recording \in Recordings' \cup {NoRecording} /\ op.before.stamp <= changes'
  BY SeenStamps, RecordingsGrow, Constants DEF IngestInv, TypeOK, OpTyped, Stamps
<1> DEFINE row == Restamped(sources[op.path], op.before.stamp)
<1>3. row \in Rows /\ row.recording = NoRecording /\ row.since \in {"recent", "elapsed", "never"}
  BY <1>1, SeenStamps, RestampedSaved
<1>4. \/ op' = NextFile
      \/ Save(op.path, Discovery(row, "hashing", row.since)) /\ op' = [op EXCEPT !.pc = "hash"]
  BY DEF Restamp
<1> HIDE DEF row
<1>5. CASE op' = NextFile
  BY <1>5, NextFileInv DEF IngestInv
<1>6. CASE Save(op.path, Discovery(row, "hashing", row.since)) /\ op' = [op EXCEPT !.pc = "hash"]
  <2>1. Discovery(row, "hashing", row.since).recording = NoRecording
    BY <1>3, DiscoveryRow
  <2>2. op.path \in Known' /\ sources'[op.path].recording = NoRecording
    BY <1>6, <2>1, SavePlain
  <2>3. op' \in Operations /\ op'.pc = "hash" /\ op'.path = op.path /\ op'.before = op.before /\ op'.recording = op.recording
    BY <1>2, <1>6 DEF Operations
  <2> QED BY <1>2, <2>2, <2>3, HashingInv
<1> QED BY <1>4, <1>5, <1>6

\* A path of the scan is done with, or was a directory entry only.
LEMMA ScannedInv ==
  ASSUME IngestInv, DataStep, op.pc = "discover", NEW p, Scanned(p), changes' \in Nat, changes <= changes', changes \in Nat
  PROVE  OpInv'
<1>1. op \in Operations /\ op.recording \in Recordings' \cup {NoRecording} /\ op.before.stamp <= changes'
  BY SeenStamps, RecordingsGrow, Constants DEF IngestInv, TypeOK, OpTyped, Stamps
<1>2. op' = [op EXCEPT !.todo = op.todo \ {p}]
  BY DEF Scanned
<1>3. op' \in Operations /\ op'.pc = "discover" /\ op'.before = op.before /\ op'.recording = op.recording
  BY <1>1, <1>2 DEF Operations
<1> QED BY <1>1, <1>3, ElsewhereInv

LEMMA ScanUnattachedInv ==
  ASSUME IngestInv, DataStep, ScanUnattached, changes' \in Nat, changes <= changes', changes \in Nat
  PROVE  OpInv'
<1>1. op \in Operations /\ op.recording \in Recordings' \cup {NoRecording} /\ op.before.stamp <= changes'
      /\ op.pc = "discover"
  BY SeenStamps, RecordingsGrow, Constants DEF IngestInv, TypeOK, OpTyped, Stamps, ScanUnattached
<1>2. PICK p \in op.todo :
        /\ Observed(p).recording = NoRecording
        /\ \/ /\ Save(p, Discovery(Observed(p), "hashing", Observed(p).since))
              /\ op' = [op EXCEPT !.pc = "hash", !.path = p, !.todo = op.todo \ {p}]
           \/ Scanned(p)
  BY DEF ScanUnattached
<1>3. CASE Scanned(p)
  BY <1>1, <1>3, ScannedInv
<1>4. CASE /\ Save(p, Discovery(Observed(p), "hashing", Observed(p).since))
           /\ op' = [op EXCEPT !.pc = "hash", !.path = p, !.todo = op.todo \ {p}]
  <2>1. p \in Paths
    BY <1>1 DEF Operations
  <2>2. PICK row : row = Observed(p)
    OBVIOUS
  <2>3. row \in Rows /\ row.recording = NoRecording
    BY <1>2, <2>1, <2>2, ObservedRow DEF IngestInv
  <2>4. row.since \in {"recent", "elapsed", "never"}
    BY <2>3 DEF Rows
  <2>5. Discovery(row, "hashing", row.since).recording = NoRecording
    BY <2>3, <2>4, DiscoveryRow
  <2>6. p \in Known' /\ sources'[p].recording = NoRecording
    BY <1>4, <2>2, <2>5, SavePlain
  <2>7. op' \in Operations /\ op'.pc = "hash" /\ op'.path = p /\ op'.before = op.before /\ op'.recording = op.recording
    BY <1>1, <1>4, <2>1 DEF Operations
  <2> QED BY <1>1, <2>6, <2>7, HashingInv
<1> QED BY <1>2, <1>3, <1>4

LEMMA ReadsAre ==
  ASSUME FilesTyped, NEW p \in Paths, NEW before \in Files, NEW digest \in Reads(p, before),
         before # Absent, ~op.touched => disk[p] = before
  PROVE  digest \in Digests /\ (~op.touched => digest = disk[p].content)
<1>1. \A f \in Files : f # Absent => f.content \in Contents \cup {Empty}
  BY DEF Files
<1>2. disk[p] \in Files /\ disk[p].content \in Contents \cup {Empty, "absent"}
  BY FilesAre DEF FilesTyped
<1>3. "absent" \notin Contents /\ Torn \in Digests /\ Contents \cup {Empty} \subseteq Digests
  BY Constants DEF Digests
<1>4. CASE ~op.touched
  BY <1>1, <1>3, <1>4 DEF Reads
<1>5. CASE op.touched
  BY <1>1, <1>2, <1>3, <1>5 DEF Reads
<1> QED BY <1>4, <1>5

LEMMA HashBeforeInv ==
  ASSUME IngestInv, DataStep, HashBefore, changes' \in Nat, changes <= changes', changes \in Nat
  PROVE  OpInv'
<1>1. Where \in Hashing /\ op.pc = "hash" /\ UNCHANGED <<disk, sources>> /\ disk[op.path] # Absent
      /\ op' = [op EXCEPT !.pc = "hash_read", !.before = disk[op.path], !.touched = FALSE]
  BY DEF Where, Hashing, HashBefore, env
<1>2. op.path \in Known /\ op.path \in Paths /\ sources[op.path].recording = NoRecording
  BY <1>1, HashedRow
<1>3. op \in Operations /\ op.recording \in Recordings' \cup {NoRecording} /\ disk[op.path] \in Files
      /\ disk[op.path].stamp <= changes'
  <2>1. op \in Operations /\ op.recording \in Recordings' \cup {NoRecording}
    BY RecordingsGrow DEF IngestInv, TypeOK, OpTyped
  <2>2. disk[op.path] \in Files
    BY <1>2 DEF IngestInv, TypeOK, FilesTyped
  <2>3. disk[op.path].stamp <= changes'
    <3>1. disk[op.path].stamp \in Stamps /\ disk[op.path].stamp <= changes
      BY <1>2, SeenStamps
    <3>2. disk[op.path].stamp \in Nat
      BY <3>1, Constants DEF Stamps
    <3> QED BY <3>1, <3>2
  <2> QED BY <2>1, <2>2, <2>3
<1>4. /\ op' \in Operations /\ op'.pc = "hash_read" /\ op'.path = op.path /\ op'.before = disk[op.path]
      /\ op'.touched = FALSE /\ op'.recording = op.recording
  BY <1>1, <1>3 DEF Operations
<1>5. IngestHolds' /\ StageHolds'
  BY <1>1, <1>2, <1>4 DEF IngestHolds, StageHolds, Where, Hashing, Checking, Known
<1>6. ReadHolds' /\ ReadTrusted' /\ StageReadsItsRecording'
  BY <1>1, <1>4 DEF ReadHolds, ReadTrusted, StageReadsItsRecording
<1> QED BY <1>3, <1>4, <1>5, <1>6 DEF OpInv, OpTyped, OpStamp

LEMMA HashReadInv ==
  ASSUME IngestInv, DataStep, HashRead, changes' \in Nat, changes <= changes', changes \in Nat
  PROVE  OpInv'
<1>1. Where \in Hashing /\ op.pc = "hash_read" /\ UNCHANGED <<disk, sources, silent>>
  BY DEF Where, Hashing, HashRead, env, counters
<1>2. op.path \in Known /\ op.path \in Paths /\ sources[op.path].recording = NoRecording
  BY <1>1, HashedRow
<1>3. op \in Operations /\ op.recording \in Recordings' \cup {NoRecording} /\ op.before \in Files
      /\ op.before.stamp <= changes'
  BY <1>2, SeenStamps, RecordingsGrow, Constants DEF IngestInv, TypeOK, OpTyped, Stamps, Operations
<1>4. op.before # Absent /\ (~op.touched => disk[op.path] = op.before)
  BY <1>1 DEF IngestInv, ReadHolds
<1>5. PICK digest \in Reads(op.path, op.before) :
         op' = [op EXCEPT !.pc = "hash_after", !.read = digest, !.touched = FALSE]
  BY DEF HashRead
<1>6. digest \in Digests /\ (~op.touched => digest = disk[op.path].content)
  BY <1>2, <1>3, <1>4, <1>5, ReadsAre DEF IngestInv, TypeOK
<1>7. /\ op' \in Operations /\ op'.pc = "hash_after" /\ op'.path = op.path /\ op'.before = op.before
      /\ op'.read = digest /\ op'.recording = op.recording
  BY <1>3, <1>5, <1>6 DEF Operations
<1>8. IngestHolds' /\ StageHolds'
  BY <1>1, <1>2, <1>7 DEF IngestHolds, StageHolds, Where, Hashing, Checking, Known
<1>9. ReadHolds' /\ StageReadsItsRecording'
  BY <1>6, <1>7 DEF ReadHolds, StageReadsItsRecording
<1>10. ReadTrusted'
  BY <1>1, <1>6, <1>7 DEF ReadTrusted, IngestInv
<1> QED BY <1>3, <1>7, <1>8, <1>9, <1>10 DEF OpInv, OpTyped, OpStamp

LEMMA StartStageInv ==
  ASSUME IngestInv, DataStep, StartStage, changes' \in Nat, changes <= changes', changes \in Nat
  PROVE  OpInv'
<1> USE DEF IngestInv
<1>1. PICK r \in Recordings :
       op' = [NoOp EXCEPT !.pc = "validate", !.recording = r, !.todo = PresentOf(r, sources),
                          !.ranked = Canonical, !.audio = audio[r], !.owed = r \in unreckoned]
  BY DEF StartStage
<1>2. UNCHANGED <<sources, audio>>
  BY DEF StartStage
<1>3. /\ r \in Digests /\ audio[r] \in BOOLEAN /\ Canonical \subseteq Paths
      /\ PresentOf(r, sources) \subseteq Paths
  BY DEF TypeOK, AudioTyped, SourcesTyped, Canonical, PresentOf, Known
<1>4. PICK owed0 \in BOOLEAN : owed0 <=> r \in unreckoned
  OBVIOUS
<1>5. op' = [NoOp EXCEPT !.pc = "validate", !.recording = r, !.todo = PresentOf(r, sources),
                         !.ranked = Canonical, !.audio = audio[r], !.owed = owed0]
  BY <1>1, <1>4
<1>6. /\ op' \in Operations /\ op'.pc = "validate" /\ op'.recording = r /\ op'.todo = PresentOf(r, sources)
      /\ op'.audio = audio[r] /\ op'.owed = owed0 /\ op'.before = Absent
  BY <1>3, <1>5, NoOpIs DEF Operations
<1>7. \A p \in PresentOf(r, sources) : p \in Known /\ sources[p].recording = r /\ sources[p].present
  BY DEF PresentOf, Known
<1>8. PresentOf(r, sources) # {} /\ ~owed0 => audio[r]
  BY <1>4, <1>7 DEF AudioStatusTrue
<1>9. r # NoRecording /\ r \in Recordings'
  BY <1>3, DigestsAreNone, RecordingsGrow
<1>10. IngestHolds' /\ StageHolds'
  <2>1. Where' = "validate" /\ Known' = Known
    BY <1>2, <1>6 DEF Where, Known
  <2> QED BY <1>2, <1>6, <1>7, <1>8, <1>9, <2>1 DEF IngestHolds, StageHolds, Hashing
<1>11. ReadHolds' /\ ReadTrusted' /\ StageReadsItsRecording'
  BY <1>6 DEF ReadHolds, ReadTrusted, StageReadsItsRecording
<1>12. OpStamp'
  BY <1>6, FilesAre DEF OpStamp, ZeroSize
<1> QED BY <1>6, <1>9, <1>10, <1>11, <1>12 DEF OpInv, OpTyped

\* Where a stage goes on with the sources that are left.
LEMMA ValidatingInv ==
  ASSUME op' \in Operations, op'.recording \in Recordings', op'.recording # NoRecording, op'.before.stamp <= changes',
         \A p \in op'.todo : p \in Known' /\ sources'[p].recording = op'.recording /\ sources'[p].present,
         op'.todo # {} /\ ~op'.owed => op'.audio,
         \/ op'.pc = "validate"
         \/ /\ op'.pc = "validate_restamp" \/ (op'.pc = "recalculate" /\ op'.next = "validate_restamp")
            /\ op'.path \in Known' /\ sources'[op'.path].recording = NoRecording
  PROVE  OpInv'
<1>1. Where' \in {"validate", "validate_restamp"} /\ (op'.pc = "validate" => Where' = "validate")
  BY DEF Where
<1>2. IngestHolds' /\ StageHolds'
  BY <1>1 DEF IngestHolds, StageHolds, Hashing
<1> QED BY <1>1, <1>2 DEF OpInv, OpTyped, ReadHolds, ReadTrusted, OpStamp, StageReadsItsRecording

\* What a stage knows while it looks for its file.
LEMMA Checked ==
  ASSUME IngestInv, DataStep, Where \in Checking, changes' \in Nat, changes <= changes', changes \in Nat
  PROVE  /\ op \in Operations /\ op.recording \in Recordings' /\ op.recording # NoRecording
         /\ op.before \in Files /\ op.before.stamp <= changes' /\ Absent.stamp <= changes'
         /\ \A p \in op.todo : p \in Known /\ sources[p].recording = op.recording /\ sources[p].present
         /\ op.todo # {} /\ ~op.owed => op.audio
<1>1. op \in Operations /\ op.before \in Files
  BY DEF IngestInv, TypeOK, OpTyped, Operations
<1>2. op.before.stamp <= changes' /\ Absent.stamp <= changes'
  BY SeenStamps, FilesAre, Constants DEF Stamps, ZeroSize
<1>3. op.recording \in Recordings' /\ op.recording # NoRecording
  BY CheckedRows, RecordingsGrow
<1> QED BY <1>1, <1>2, <1>3 DEF IngestInv, StageHolds

LEMMA ValidateOutsideInv ==
  ASSUME IngestInv, DataStep, ValidateOutside, changes' \in Nat, changes <= changes', changes \in Nat
  PROVE  OpInv'
<1>1. PICK p \in TriedNext \ inbox : op' = [op EXCEPT !.todo = op.todo \ {p}]
  BY DEF ValidateOutside
<1>2. op.pc = "validate" /\ Where \in Checking /\ UNCHANGED <<sources, Known>>
  BY DEF ValidateOutside, Where, Checking, Known
<1>3. /\ op' \in Operations /\ op'.pc = "validate" /\ op'.recording = op.recording /\ op'.todo = op.todo \ {p}
      /\ op'.before = op.before /\ op'.audio = op.audio /\ op'.owed = op.owed
  BY <1>1, <1>2, Checked DEF Operations
<1> QED BY <1>2, <1>3, Checked, ValidatingInv

LEMMA MarkMissingInv ==
  ASSUME IngestInv, DataStep, Where \in Checking, changes' \in Nat, changes <= changes', changes \in Nat,
         NEW p \in Known, sources[p].recording = op.recording, MarkMissing(p)
  PROVE  OpInv'
<1>1. op' = [op EXCEPT !.pc = "validate", !.path = 0, !.before = Absent, !.touched = FALSE, !.todo = op.todo \ {p}]
  BY DEF MarkMissing
<1>2. /\ op' \in Operations /\ op'.pc = "validate" /\ op'.recording = op.recording /\ op'.todo = op.todo \ {p}
      /\ op'.before = Absent /\ op'.audio = op.audio /\ op'.owed = op.owed
  BY <1>1, Checked, FilesAre DEF Operations
<1>3. Known' = Known /\ \A q \in Known : q # p =>
        sources'[q].recording = sources[q].recording /\ sources'[q].present = sources[q].present
  BY Checked, MarkMissingStep
<1> QED BY <1>2, <1>3, Checked, ValidatingInv

LEMMA DetachInv ==
  ASSUME IngestInv, DataStep, Where \in Checking, changes' \in Nat, changes <= changes', changes \in Nat,
         NEW p \in Known, NEW stat \in Files, stat.stamp <= changes', Detach(p, stat)
  PROVE  OpInv'
<1>0. p \in Paths /\ sources[p] \in Rows
  BY KnownRow DEF IngestInv
<1>1. op' = [op EXCEPT !.pc = "recalculate", !.next = "validate_restamp", !.canonical = TRUE,
                       !.path = p, !.before = stat, !.todo = op.todo \ {p}]
  BY DEF Detach
<1>2. /\ op' \in Operations /\ op'.pc = "recalculate" /\ op'.next = "validate_restamp" /\ op'.recording = op.recording
      /\ op'.todo = op.todo \ {p} /\ op'.path = p
      /\ op'.before = stat /\ op'.audio = op.audio /\ op'.owed = op.owed
  BY <1>0, <1>1, Checked DEF Operations
<1>3. Detached(sources[p]).recording = NoRecording
  BY <1>0, DetachedRow
<1>4. Known' = Known /\ sources'[p].recording = NoRecording /\ \A q \in Known : q # p => sources'[q] = sources[q]
  BY <1>3, SavePlain DEF Detach
<1> QED BY <1>2, <1>4, Checked, ValidatingInv

LEMMA ValidateRestampInv ==
  ASSUME IngestInv, DataStep, ValidateRestamp, changes' \in Nat, changes <= changes', changes \in Nat
  PROVE  OpInv'
<1>1. Where = "validate_restamp" /\ Where \in Checking
  BY DEF ValidateRestamp, Where, Checking
<1>2. op' = [op EXCEPT !.pc = "validate", !.path = 0, !.before = Absent, !.touched = FALSE]
  BY DEF ValidateRestamp
<1>3. /\ op' \in Operations /\ op'.pc = "validate" /\ op'.recording = op.recording /\ op'.todo = op.todo
      /\ op'.before = Absent /\ op'.audio = op.audio /\ op'.owed = op.owed
  BY <1>1, <1>2, Checked, FilesAre DEF Operations
<1>4. Known' = Known /\ \A q \in Known : q # op.path => sources'[q] = sources[q]
  BY <1>1, HashedRow, SavePlain DEF ValidateRestamp
<1>5. sources[op.path].recording = NoRecording
  BY <1>1, HashedRow
<1> QED BY <1>1, <1>3, <1>4, <1>5, Checked, ValidatingInv

LEMMA ValidateStatInv ==
  ASSUME IngestInv, DataStep, ValidateStat, changes' \in Nat, changes <= changes', changes \in Nat
  PROVE  OpInv'
<1>1. Where \in Checking /\ op.pc = "validate" /\ UNCHANGED disk
  BY DEF Where, Checking, ValidateStat, env
<1>2. PICK p \in TriedNext \cap inbox :
        \/ MarkMissing(p) \/ Detach(p, disk[p])
        \/ /\ disk[p] # Absent
           /\ op' = [op EXCEPT !.pc = "validate_read", !.path = p, !.before = disk[p], !.touched = FALSE]
           /\ UNCHANGED <<sources, audio, owed>>
  BY DEF ValidateStat
<1>3. p \in op.todo /\ p \in Known /\ sources[p].recording = op.recording /\ sources[p].present
  BY <1>1, <1>2, Checked DEF TriedNext
<1>4. p \in Paths /\ disk[p] \in Files /\ disk[p].stamp <= changes'
  BY <1>3, SeenStamps, Constants DEF IngestInv, TypeOK, SourcesTyped, FilesTyped, Stamps
<1>5. CASE MarkMissing(p) \/ Detach(p, disk[p])
  BY <1>1, <1>3, <1>4, <1>5, MarkMissingInv, DetachInv
<1>6. CASE /\ op' = [op EXCEPT !.pc = "validate_read", !.path = p, !.before = disk[p], !.touched = FALSE]
           /\ UNCHANGED <<sources, audio, owed>>
  <2>1. /\ op' \in Operations /\ op'.pc = "validate_read" /\ op'.path = p /\ op'.before = disk[p]
        /\ op'.recording = op.recording /\ op'.todo = op.todo /\ op'.audio = op.audio /\ op'.owed = op.owed
    BY <1>1, <1>4, <1>6, Checked DEF Operations
  <2>2. Where' = "validate_read" /\ UNCHANGED <<sources, Known>>
    BY <1>6, <2>1 DEF Where, Known
  <2>3. IngestHolds'
    BY <2>1, <2>2 DEF IngestHolds, Hashing
  <2>4. StageHolds'
    BY <1>1, <1>3, <2>1, <2>2, Checked DEF StageHolds
  <2>5. ReadHolds' /\ ReadTrusted' /\ StageReadsItsRecording'
    BY <1>1, <2>1 DEF ReadHolds, ReadTrusted, StageReadsItsRecording
  <2> QED BY <1>1, <1>4, <2>1, <2>3, <2>4, <2>5, Checked DEF OpInv, OpTyped, OpStamp
<1> QED BY <1>2, <1>5, <1>6

LEMMA ValidateUnreadableInv ==
  ASSUME IngestInv, DataStep, ValidateUnreadable, changes' \in Nat, changes <= changes', changes \in Nat
  PROVE  OpInv'
<1>1. op.pc = "validate_read" /\ Where \in Checking /\ MarkMissing(op.path)
  BY DEF ValidateUnreadable, Where, Checking
<1> QED BY <1>1, CheckedRows, MarkMissingInv

LEMMA ValidateReadInv ==
  ASSUME IngestInv, DataStep, ValidateRead, changes' \in Nat, changes <= changes', changes \in Nat
  PROVE  OpInv'
<1>1. op.pc = "validate_read" /\ Where \in Checking /\ UNCHANGED disk
  BY DEF ValidateRead, Where, Checking, env
<1>2. op.path \in Known /\ op.path \in Paths /\ sources[op.path].recording = op.recording /\ sources[op.path].present
      /\ (~op.owed => op.audio)
  BY <1>1, CheckedRows DEF IngestInv, StageHolds
<1>3. PICK digest \in Reads(op.path, op.before) :
       \/ /\ SameContent(digest)
          /\ sources' = Promoted(op.path)
          /\ op' = [op EXCEPT !.pc = "stage", !.todo = {}, !.before = Absent]
          /\ UNCHANGED <<audio, owed>>
       \/ Detach(op.path, op.before)
  BY DEF ValidateRead
<1>4. CASE Detach(op.path, op.before)
  BY <1>1, <1>2, <1>4, Checked, DetachInv
<1>5. CASE /\ SameContent(digest)
           /\ sources' = Promoted(op.path)
           /\ op' = [op EXCEPT !.pc = "stage", !.todo = {}, !.before = Absent]
           /\ UNCHANGED <<audio, owed>>
  <2>1. /\ op' \in Operations /\ op'.pc = "stage" /\ op'.path = op.path /\ op'.before = Absent /\ op'.todo = {}
        /\ op'.recording = op.recording /\ op'.touched = op.touched /\ op'.audio = op.audio /\ op'.owed = op.owed
    BY <1>1, <1>5, Checked, FilesAre DEF Operations
  <2>2. Where' = "stage"
    BY <2>1 DEF Where
  <2>3. RowsKept(op.recording, op.path)
    BY <1>1, <1>5, PromotedIs
  <2>4. Known' = Known /\ sources'[op.path].recording = op.recording /\ sources'[op.path].present
    BY <1>2, <2>3 DEF RowsKept
  <2>5. IngestHolds' /\ StageHolds'
    BY <1>1, <1>2, <2>1, <2>2, <2>4, Checked DEF IngestHolds, StageHolds, Hashing
  <2>6. ~op.touched => disk[op.path].content = op.recording
    BY <1>3, <1>5 DEF Reads, SameContent
  <2>7. ReadHolds' /\ ReadTrusted' /\ StageReadsItsRecording'
    BY <1>1, <2>1, <2>6 DEF ReadHolds, ReadTrusted, StageReadsItsRecording
  <2> QED BY <1>1, <2>1, <2>5, <2>7, Checked DEF OpInv, OpTyped, OpStamp
<1> QED BY <1>3, <1>4, <1>5

-----------------------------------------------------------------------------
(* Every step keeps the invariant *)

\* Steps that end an operation, or go on to another file of the scan.
LEMMA EndedInv ==
  ASSUME IngestInv, DataStep, changes' \in Nat, changes <= changes', changes \in Nat,
         \/ EndIngest \/ ValidateNone \/ EndStage \/ Crash
         \/ HashVanished \/ HashError \/ HashDiscarded \/ Attach
  PROVE  OpInv'
<1>1. op' = NoOp \/ op' = NextFile
  BY DEF EndIngest, ValidateNone, EndStage, Crash, HashVanished, HashError, HashDiscarded, Attach
<1> QED BY <1>1, NoOpInv, NextFileInv DEF IngestInv

LEMMA DiscoveringInv ==
  ASSUME IngestInv, DataStep, changes' \in Nat, changes <= changes', changes \in Nat,
         Discover \/ ScanVanished \/ ScanAttached
  PROVE  OpInv'
<1>1. CASE Discover
  <2>1. op \in Operations /\ op.recording \in Recordings' \cup {NoRecording} /\ inbox \subseteq Paths
    BY RecordingsGrow DEF IngestInv, TypeOK, OpTyped, FilesTyped
  <2>2. PICK todo \in SUBSET Paths : todo = {p \in inbox : disk[p] # Absent}
    BY <2>1
  <2>3. op' = [op EXCEPT !.pc = "discover", !.ranked = {}, !.todo = todo]
    BY <1>1, <2>2 DEF Discover
  <2>4. op' \in Operations /\ op'.pc = "discover" /\ op'.before = op.before /\ op'.recording = op.recording
    BY <2>1, <2>3 DEF Operations
  <2>5. op.before.stamp <= changes'
    BY SeenStamps, Constants DEF Stamps
  <2> QED BY <2>1, <2>4, <2>5, ElsewhereInv
<1>2. CASE ScanVanished \/ ScanAttached
  <2>1. op.pc = "discover" /\ \E p \in op.todo : Scanned(p)
    BY <1>2 DEF ScanVanished, ScanAttached
  <2> QED BY <2>1, ScannedInv
<1> QED BY <1>1, <1>2

LEMMA StillInv ==
  ASSUME IngestInv, DataStep, [Next]_vars, changes' \in Nat, changes <= changes', changes \in Nat,
         MoveInbox \/ Elapse \/ UNCHANGED vars
  PROVE  OpInv'
<1>1. UNCHANGED <<disk, op>> /\ (silent' = 0 => silent = 0)
  BY DEF MoveInbox, Elapse, vars, env, counters
<1>2. Known' = Known /\ \A q \in Known : sources'[q].recording = sources[q].recording /\ sources'[q].present = sources[q].present
  <2>1. CASE Elapse
    BY <2>1, ElapseStep DEF RowsKept, IngestInv, TypeOK
  <2>2. CASE MoveInbox \/ UNCHANGED vars
    BY <2>2 DEF MoveInbox, vars, Known
  <2> QED BY <2>1, <2>2
<1> QED BY <1>1, <1>2, SameOpInv

LEMMA OpInvKept ==
  ASSUME IngestInv, DataStep, [Next]_vars
  PROVE  OpInv'
<1>1. changes' \in Nat /\ changes <= changes' /\ changes \in Nat
  BY ChangesGrow, Constants DEF IngestInv, TypeOK, CountersTyped
<1>2. CASE WriteFile \/ EmptyFile \/ DeleteFile
  <2>1. PICK p \in Paths, file \in Files : FileChanged(p, file)
    BY <1>2, FileSteps DEF IngestInv
  <2> QED BY <2>1, FileOpInv
<1>3. CASE MoveInbox \/ Elapse \/ UNCHANGED vars
  BY <1>1, <1>3, StillInv
<1>4. CASE StartIngest(TRUE) \/ StartIngest(FALSE)
  BY <1>1, <1>4, StartIngestInv
<1>5. CASE \/ EndIngest \/ ValidateNone \/ EndStage \/ Crash
           \/ HashVanished \/ HashError \/ HashDiscarded \/ Attach
  BY <1>1, <1>5, EndedInv
<1>6. CASE Discover \/ ScanVanished \/ ScanAttached
  BY <1>1, <1>6, DiscoveringInv
<1>7. CASE Reconcile \/ Recalculate \/ ScanReplaced \/ Restamp \/ ScanUnattached \/ HashBefore \/ HashRead
  BY <1>1, <1>7, ReconcileInv, RecalculateInv, ScanReplacedInv, RestampInv, ScanUnattachedInv, HashBeforeInv, HashReadInv
<1>8. CASE \/ StartStage \/ ValidateOutside \/ ValidateStat \/ ValidateRestamp \/ ValidateUnreadable \/ ValidateRead
  BY <1>1, <1>8, StartStageInv, ValidateOutsideInv, ValidateStatInv, ValidateRestampInv, ValidateUnreadableInv, ValidateReadInv
<1> QED BY <1>2, <1>3, <1>4, <1>5, <1>6, <1>7, <1>8 DEF Next, Ingesting, Validating

LEMMA IngestInvInit ==
  ASSUME Init
  PROVE  IngestInv
<1>1. Known = {} /\ Recordings = {} /\ op = NoOp /\ 0 \in Stamps
  BY FilesAre DEF Init, Known, Recordings, ZeroSize
<1>2. sources \in [Known -> Rows] /\ audio \in [Recordings -> BOOLEAN]
  BY <1>1 DEF Init
<1>3. TypeOK
  BY <1>1, <1>2, NoOpIs, FilesAre, Constants
     DEF Init, TypeOK, FilesTyped, SourcesTyped, AudioTyped, OpTyped, CountersTyped
<1>4. IngestHolds /\ StageHolds /\ ReadHolds /\ ReadTrusted /\ StageReadsItsRecording
  BY <1>1, NoOpIs DEF IngestHolds, StageHolds, ReadHolds, ReadTrusted, StageReadsItsRecording, Where, Hashing, Checking
<1>5. RowStamps /\ RowsTrusted /\ AudioStatusTrue /\ OneCanonical
  BY <1>1 DEF RowStamps, RowsTrusted, AudioStatusTrue, OneCanonical
<1>6. DiskStamps /\ OpStamp
  BY <1>1, NoOpIs, FilesAre DEF DiskStamps, OpStamp, Init, ZeroSize
<1> QED BY <1>3, <1>4, <1>5, <1>6 DEF IngestInv

LEMMA IngestInvKept ==
  ASSUME IngestInv, [Next]_vars
  PROVE  IngestInv'
<1>1. DataStep
  BY DataSteps
<1>2. changes' \in Nat /\ changes <= changes' /\ changes \in Nat /\ CountersTyped'
  BY ChangesGrow, Constants DEF IngestInv, TypeOK, CountersTyped
<1>3. SourcesTyped' /\ AudioTyped' /\ RowStamps'
  BY <1>1, <1>2, RowsTyped DEF IngestInv
<1>4. AudioStatusTrue' /\ OneCanonical'
  BY <1>1, AudioStatusKept, OneCanonicalKept DEF IngestInv
<1>5. FilesTyped' /\ DiskStamps'
  BY FilesKept DEF IngestInv
<1>6. RowsTrusted'
  BY RowsTrustedKept
<1>7. OpInv'
  BY <1>1, OpInvKept
<1> QED BY <1>2, <1>3, <1>4, <1>5, <1>6, <1>7 DEF IngestInv, OpInv, TypeOK

\* What the process knows of the files, the rows and the recordings at each of
\* its steps, and what size and time tell of content.
THEOREM IngestInvariant == Spec => []IngestInv
<1>1. Init => IngestInv
  BY IngestInvInit
<1>2. IngestInv /\ [Next]_vars => IngestInv'
  BY IngestInvKept
<1> QED BY <1>1, <1>2, PTL DEF Spec

-----------------------------------------------------------------------------
(* The properties *)

\* Every variable has its type, and a source row is attached to a recording if
\* and only if its discovery state is hashed.
THEOREM TypeCorrect == Spec => []TypeOK
<1>1. IngestInv => TypeOK
  BY DEF IngestInv
<1> QED BY <1>1, IngestInvariant, PTL

\* A recording says that its audio is present exactly when one of its files is,
\* and has one canonical source at the most, except where a transaction of
\* _recalculate_recording is still owed.
THEOREM RecordingsFollowSources == Spec => []SourcesReconciled
<1>1. IngestInv => SourcesReconciled
  BY DEF IngestInv, SourcesReconciled
<1> QED BY <1>1, IngestInvariant, PTL

\* As long as no change keeps the size and the time of a file, _hash_source never
\* attaches a torn digest, and a file that is as its attached row says has the
\* content of its recording.
THEOREM DigestsAreTrue == Spec => []HashesAreTrusted
<1>1. IngestInv => HashesAreTrusted
  <2>1. ASSUME IngestInv, silent = 0, NEW p \in Known, sources[p].recording # NoRecording,
               disk[p].stamp = sources[p].stamp
        PROVE  disk[p].content = sources[p].recording
    BY <2>1 DEF IngestInv, RowsTrusted
  <2>2. ASSUME IngestInv, silent = 0
        PROVE  Torn \notin Recordings
    BY <2>2 DEF IngestInv, RowsTrusted
  <2> QED BY <2>1, <2>2 DEF HashesAreTrusted
<1> QED BY <1>1, IngestInvariant, PTL

\* Routing and transcription read a file with the content of their recording,
\* whatever size and time say of it, unless it is changed after
\* validate_source_for_processing looked it up.
THEOREM StagesReadTheirRecording == Spec => []StageReadsItsRecording
<1>1. IngestInv => StageReadsItsRecording
  BY DEF IngestInv
<1> QED BY <1>1, IngestInvariant, PTL
=============================================================================
