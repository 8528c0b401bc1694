--------------------------- MODULE IndexSyncProofs ---------------------------
(***************************************************************************)
(* The two search indexes, for any recordings, processes, versions of the  *)
(* database, commits and failures.  IndexInv says what holds between any   *)
(* two steps of callbacks, rebuilds and repairs that overlap; the safety   *)
(* properties of IndexSync and the refinement of GenerationStore follow.   *)
(***************************************************************************)
EXTENDS IndexSync, FiniteSetTheorems, SequenceTheorems, WellFoundedInduction, TLAPS

-----------------------------------------------------------------------------
(* SearchIndex: what reconciling one recording, rebuilding everything and  *)
(* a healthy status say about the registry and the full text table, for    *)
(* any rows of the database and any index.                                 *)
-----------------------------------------------------------------------------
(* Documents *)

LEMMA ExpectedAreOfRecording ==
  ASSUME NEW r, NEW src, NEW d \in Expected(r, src)
  PROVE  d.recording = r
<1>1. CASE d \in SegmentDocuments(r, src)
  <2>1. PICK t \in ActiveTranscripts(src) : \E n \in DOMAIN t.segments :
          d = Document(<<"segment", t.id, n>>, r, t.id, NoId, "", "", t.segments[n], {})
    BY <1>1 DEF SegmentDocuments
  <2>2. PICK n \in DOMAIN t.segments :
          d = Document(<<"segment", t.id, n>>, r, t.id, NoId, "", "", t.segments[n], {})
    BY <2>1
  <2> QED BY <2>2 DEF Document
<1>2. CASE d = RecordingDocument(r, src)
  BY <1>2 DEF RecordingDocument, Document
<1>3. CASE \E s \in WholeSummaries(src) \cup SectionSummaries(src) : d = SummaryDocument(r, src, s)
  BY <1>3 DEF SummaryDocument, Document
<1> QED BY <1>1, <1>2, <1>3 DEF Expected

\* A row is legitimate only if the database calls for a document with its key, although
\* the two are computed by different queries.
LEMMA LegitimateIsExpected ==
  ASSUME NEW r, NEW src, NEW row, Legitimate(r, src, row)
  PROVE  row.key \in KeysOf(Expected(r, src))
<1>1. CASE row.key = <<"recording", r, 0>>
  <2>1. RecordingDocument(r, src) \in Expected(r, src)
    BY DEF Expected
  <2>2. RecordingDocument(r, src).key = <<"recording", r, 0>>
    BY DEF RecordingDocument, Document
  <2> QED BY <1>1, <2>1, <2>2 DEF KeysOf
<1>2. CASE \E t \in ActiveTranscripts(src) : \E n \in DOMAIN t.segments :
             /\ row.key = <<"segment", t.id, n>> /\ row.transcript = t.id
             /\ t.segments[n] # Blank
  <2>0. PICK t \in ActiveTranscripts(src) : \E n \in DOMAIN t.segments :
          row.key = <<"segment", t.id, n>> /\ t.segments[n] # Blank
    BY <1>2
  <2>1. PICK n \in DOMAIN t.segments : row.key = <<"segment", t.id, n>> /\ t.segments[n] # Blank
    BY <2>0
  <2>2. PICK d : d = Document(<<"segment", t.id, n>>, r, t.id, NoId, "", "", t.segments[n], {})
    OBVIOUS
  <2>3. d \in {Document(<<"segment", t.id, m>>, r, t.id, NoId, "", "", t.segments[m], {}) :
               m \in {i \in DOMAIN t.segments : t.segments[i] # Blank}}
    BY <2>1, <2>2
  <2>5. d \in SegmentDocuments(r, src)
    BY <2>3 DEF SegmentDocuments
  <2>4. d.key = row.key
    BY <2>1, <2>2 DEF Document
  <2> QED BY <2>5, <2>4 DEF Expected, KeysOf
<1>3. CASE \E s \in WholeSummaries(src) \cup SectionSummaries(src) :
             /\ row.key = <<"summary", s.id, 0>> /\ row.summary = s.id
             /\ row.transcript = s.transcript /\ row.language = s.language
  <2>1. PICK s \in WholeSummaries(src) \cup SectionSummaries(src) : row.key = <<"summary", s.id, 0>>
    BY <1>3
  <2>2. SummaryDocument(r, src, s) \in Expected(r, src)
    BY DEF Expected
  <2>3. SummaryDocument(r, src, s).key = row.key
    BY <2>1 DEF SummaryDocument, Document
  <2> QED BY <2>2, <2>3 DEF KeysOf
<1> QED BY <1>1, <1>2, <1>3 DEF Legitimate

-----------------------------------------------------------------------------
(* Reconciliation *)

LEMMA ReconciledParts ==
  ASSUME NEW r, NEW src, NEW idx
  PROVE  LET want == Expected(r, src)
             stale == {d \in RowsOf(idx.registry, r) : ~Legitimate(r, src, d)}
         IN /\ Reconciled(r, src, idx).registry = {d \in idx.registry \ stale : d.key \notin KeysOf(want)} \cup want
            /\ Reconciled(r, src, idx).fts =
                 {f \in {g \in idx.fts : g.key \notin KeysOf(stale)} : f.key \notin KeysOf(want)} \cup FullTexts(want)
BY DEF Reconciled, UpsertExpected, DeleteNoncanonical

\* Afterwards the index has of the recording what the database calls for, with its texts.
LEMMA ReconciledIsExpected ==
  ASSUME NEW r, NEW src, NEW idx
  PROVE  /\ RowsOf(Reconciled(r, src, idx).registry, r) = Expected(r, src)
         /\ FullTexts(Expected(r, src)) \subseteq Reconciled(r, src, idx).fts
<1> DEFINE want == Expected(r, src)
<1> DEFINE stale == {d \in RowsOf(idx.registry, r) : ~Legitimate(r, src, d)}
<1> DEFINE after == Reconciled(r, src, idx)
<1>1. after.registry = {d \in idx.registry \ stale : d.key \notin KeysOf(want)} \cup want
  BY ReconciledParts
<1>6. after.fts = {f \in {g \in idx.fts : g.key \notin KeysOf(stale)} : f.key \notin KeysOf(want)} \cup FullTexts(want)
  BY ReconciledParts
<1>3. \A d \in want : d.recording = r
  BY ExpectedAreOfRecording
<1>4. \A d \in idx.registry \ stale : d.recording = r => d.key \in KeysOf(want)
  BY LegitimateIsExpected DEF RowsOf
<1> HIDE DEF want, stale, after
<1>5. RowsOf(after.registry, r) = want
  BY <1>1, <1>3, <1>4 DEF RowsOf
<1>2. FullTexts(want) \subseteq after.fts
  BY <1>6
<1> QED BY <1>2, <1>5 DEF want, after

\* Of another recording it has what it had, since no key is that of two recordings.
LEMMA ReconciledLeavesOthers ==
  ASSUME NEW r, NEW src, NEW idx, NEW q, q # r,
         \A d \in RowsOf(idx.registry, q) : d.key \notin KeysOf(Expected(r, src))
  PROVE  RowsOf(Reconciled(r, src, idx).registry, q) = RowsOf(idx.registry, q)
<1> DEFINE want == Expected(r, src)
<1> DEFINE stale == {d \in RowsOf(idx.registry, r) : ~Legitimate(r, src, d)}
<1> DEFINE after == Reconciled(r, src, idx)
<1>1. after.registry = {d \in idx.registry \ stale : d.key \notin KeysOf(want)} \cup want
  BY ReconciledParts
<1>2. \A d \in want : d.recording = r
  BY ExpectedAreOfRecording
<1>3. \A d \in stale : d.recording = r
  BY DEF RowsOf
<1>4. \A d \in idx.registry : d.recording = q => d.key \notin KeysOf(want)
  BY DEF RowsOf
<1> HIDE DEF want, stale, after
<1>5. RowsOf(after.registry, q) = RowsOf(idx.registry, q)
  BY <1>1, <1>2, <1>3, <1>4 DEF RowsOf
<1> QED BY <1>5 DEF after

\* The texts of other documents stay.
LEMMA ReconciledKeepsTexts ==
  ASSUME NEW r, NEW src, NEW idx, NEW f \in idx.fts,
         f.key \notin KeysOf(Expected(r, src)), f.key \notin KeysOf(RowsOf(idx.registry, r))
  PROVE  f \in Reconciled(r, src, idx).fts
<1>1. f.key \notin KeysOf({d \in RowsOf(idx.registry, r) : ~Legitimate(r, src, d)})
  BY DEF KeysOf
<1> QED BY <1>1, ReconciledParts

\* No row comes from anywhere else, and keys stay unique.
LEMMA ReconciledAddsExpected ==
  ASSUME NEW r, NEW src, NEW idx
  PROVE  Reconciled(r, src, idx).registry \subseteq idx.registry \cup Expected(r, src)
BY ReconciledParts

UniqueKeys(rows) == \A d, e \in rows : d.key = e.key => d = e

LEMMA ReconciledKeepsKeysUnique ==
  ASSUME NEW r, NEW src, NEW idx, UniqueKeys(idx.registry), UniqueKeys(Expected(r, src))
  PROVE  UniqueKeys(Reconciled(r, src, idx).registry)
<1> DEFINE want == Expected(r, src)
<1> DEFINE stale == {d \in RowsOf(idx.registry, r) : ~Legitimate(r, src, d)}
<1>1. PICK rows : rows = Reconciled(r, src, idx).registry
  OBVIOUS
<1>2. rows = {d \in idx.registry \ stale : d.key \notin KeysOf(want)} \cup want
  BY <1>1, ReconciledParts
<1>3. UniqueKeys(want)
  OBVIOUS
<1> HIDE DEF want, stale
<1>4. UniqueKeys(rows)
  BY <1>2, <1>3 DEF UniqueKeys, KeysOf
<1> QED BY <1>1, <1>4

-----------------------------------------------------------------------------
(* Status *)

Wanted(sources) == UNION {Expected(r, sources[r]) : r \in DOMAIN sources}

\* A healthy status means what it says: the registry is what the database calls for, and
\* every document has its text.  `status' compares by keys and by two different queries.
LEMMA HealthyIsWanted ==
  ASSUME NEW sources, NEW idx, UniqueKeys(idx.registry),
         \A d \in idx.registry : d.recording \in DOMAIN sources,
         Healthy(sources, idx)
  PROVE  /\ idx.registry = Wanted(sources)
         /\ FullTexts(Wanted(sources)) \subseteq idx.fts
<1> DEFINE want == Wanted(sources)
<1> DEFINE Row(key) == CHOOSE d \in idx.registry : d.key = key
<1> DEFINE present == {d \in want : d.key \in KeysOf(idx.registry)}
<1> DEFINE Texts(key) == {f \in idx.fts : f.key = key}
<1>1. want = present
  BY DEF Healthy, Report, Wanted
<1>2. \A d \in present : Row(d.key) = d
  BY DEF Healthy, Report, Wanted
<1>3. \A d \in present : Texts(d.key) # {}
  BY DEF Healthy, Report, Wanted
<1>4. \A d \in present : Texts(d.key) \in {{}, {FullText(Row(d.key))}}
  BY DEF Healthy, Report, Wanted
<1>5. \A r \in DOMAIN sources : \A d \in RowsOf(idx.registry, r) : Legitimate(r, sources[r], d)
  BY DEF Healthy, Report
<1>6. \A d \in want : d \in idx.registry
  <2> TAKE d \in want
  <2>1. \E e \in idx.registry : e.key = d.key
    BY <1>1 DEF KeysOf
  <2>2. Row(d.key) \in idx.registry
    BY <2>1
  <2> QED BY <1>1, <1>2, <2>2
<1>7. \A d \in idx.registry : d \in want
  <2> TAKE d \in idx.registry
  <2>1. d.key \in KeysOf(Expected(d.recording, sources[d.recording]))
    BY <1>5, LegitimateIsExpected DEF RowsOf
  <2>2. PICK e \in Expected(d.recording, sources[d.recording]) : e.key = d.key
    BY <2>1 DEF KeysOf
  <2>3. e \in want
    BY <2>2 DEF Wanted
  <2>4. e \in idx.registry
    BY <1>6, <2>3
  <2>5. e = d
    BY <2>2, <2>4 DEF UniqueKeys
  <2> QED BY <2>3, <2>5
<1>8. \A d \in want : FullText(d) \in idx.fts
  <2> TAKE d \in want
  <2>1. d \in present /\ Row(d.key) = d
    BY <1>1, <1>2
  <2>2. Texts(d.key) = {FullText(d)}
    BY <1>3, <1>4, <2>1
  <2>3. FullText(d) \in Texts(d.key)
    BY <2>2
  <2> QED BY <2>3
<1>9. FullTexts(want) \subseteq idx.fts
  BY <1>8 DEF FullTexts
<1> QED BY <1>6, <1>7, <1>9

-----------------------------------------------------------------------------
(* Numbers *)

Below == {ss \in Nat \X Nat : ss[1] < ss[2]}

LEMMA BelowIsWellFounded == IsWellFoundedOn(Below, Nat)
BY NatLessThanWellFounded DEF OpToRel, Below

LEMMA LeastNumber ==
  ASSUME NEW S, S \subseteq Nat, S # {}
  PROVE  \E x \in S : \A y \in S : x <= y
<1>1. PICK x \in S : \A y \in S : ~ (<<y, x>> \in Below)
  BY BelowIsWellFounded, WFMin
<1>2. ASSUME NEW y \in S PROVE x <= y
  <2>1. x \in Nat /\ y \in Nat
    OBVIOUS
  <2>2. <<y, x>> \notin Below
    BY <1>1
  <2>3. ~ (y < x)
    BY <2>1, <2>2 DEF Below
  <2> QED BY <2>1, <2>3
<1> QED BY <1>2

LEMMA GreatestNumber ==
  ASSUME NEW n \in Nat, NEW S, S \subseteq 0..n, S # {}
  PROVE  \E x \in S : \A y \in S : y <= x
<1> DEFINE T == {n - s : s \in S}
<1>0. \A s \in S : n - s \in Nat
  OBVIOUS
<1>1. T \subseteq Nat /\ T # {}
  BY <1>0
<1>2. PICK t \in T : \A u \in T : t <= u
  BY <1>1, LeastNumber
<1>3. PICK x \in S : t = n - x
  OBVIOUS
<1>4. ASSUME NEW y \in S PROVE y <= x
  <2>1. n - y \in T
    OBVIOUS
  <2>2. n - x <= n - y
    BY <1>2, <1>3, <2>1
  <2> QED BY <2>2
<1> QED BY <1>4

-----------------------------------------------------------------------------
(* The types, and what holds of each part *)

\* Every row the index can have.
Rows == UNION {UNION {Expected(r, v) : v \in Versions[r]} : r \in Recordings}
Keys == {KeyOrder[i] : i \in DOMAIN KeyOrder}

Callbacks ==
  [pc : {"idle", "capture", "reconcile", "begin", "remove", "classify", "embed"},
   recording : Recordings \cup {"none"}, keys : SUBSET Keys, captured : BOOLEAN,
   active : Nat, after : Nat, work : SUBSET Rows]
Jobs ==
  [pc : {"idle", "create", "persist", "read", "validate", "promote", "repair"},
   model : Models \cup {"none"}, generation : Nat, prior : Nat, after : Nat,
   page : SUBSET Rows, snapshot : SUBSET Rows, orphans : SUBSET Keys]
Generations ==
  [model : Models, state : {"building", "active", "superseded", "failed"}, vectors : SUBSET Rows]

Types ==
  /\ source \in [Recordings -> UNION {Versions[r] : r \in Recordings}]
  /\ \A r \in Recordings : source[r] \in Versions[r]
  /\ index.registry \subseteq Rows
  /\ generations \in Seq(Generations)
  /\ callback \in [Procs -> Callbacks]
  /\ \A p \in Procs : callback[p].pc # "idle" => callback[p].recording \in Recordings
  /\ job \in Jobs
  /\ moved \in BOOLEAN
  /\ configured \in Models

\* One row and one vector of a document, one active generation.
Unique ==
  /\ UniqueKeys(index.registry)
  /\ \A g \in DOMAIN generations : UniqueKeys(generations[g].vectors)
  /\ \A g, h \in ActiveGenerations : g = h

\* What a job may rely on about the generation it works on.
JobHolds ==
  /\ job.pc # "idle" => callback[Locked].pc = "idle"
  /\ job.pc = "idle" => job.generation = 0
  /\ job.pc = "create" =>
       job.model \in Models /\ job.generation = 0 /\ job.after = 0 /\ Len(generations) < MaxGenerations
  /\ job.pc \in {"persist", "read", "validate", "promote"} =>
       job.generation \in DOMAIN generations /\ generations[job.generation].state = "building"
  /\ job.pc = "repair" =>
       job.generation \in DOMAIN generations /\ generations[job.generation].state = "active"
  /\ job.pc \in {"persist", "read"} =>
       \A v \in generations[job.generation].vectors : Position(v.key) <= job.after
  /\ job.pc \in {"create", "persist"} => \A d \in job.page : Position(d.key) > job.after

\* The index and the vectors of g are what the database calls for.
IndexCurrent == index.registry = Wanted(source) /\ FullTexts(Wanted(source)) \subseteq index.fts
Complete(g) == IndexCurrent /\ generations[g].vectors = index.registry

\* What was validated stands until another process commits.
Validated == job.pc = "promote" /\ ~moved => Complete(job.generation)

\* What a callback may rely on about the generation it syncs.
CallbackHolds ==
  \A p \in Procs :
    /\ callback[p].active \in 0..Len(generations)
    /\ callback[p].pc \in {"remove", "classify", "embed"} => callback[p].active # 0
    /\ callback[p].pc = "begin" => callback[p].captured
    /\ callback[p].captured => ActiveGenerations # {}
    /\ callback[p].pc \in {"capture", "reconcile", "begin"} => callback[p].after = 0

\* A recording the index is wrong about has a callback to come, or was given up for both indexes.
StaleExplained ==
  \A r \in Recordings : SearchStale(r) => Reconciling(r) \/ r \in searchLost \cap embeddingLost

\* Callback p has yet to come to the document d of r in the active generation.
WillCover(p, r, d) ==
  /\ Subject(p) = r
  /\ \/ callback[p].pc \in {"capture", "reconcile", "begin"}
     \/ callback[p].pc \in {"remove", "classify", "embed"} /\ callback[p].active = Active
          /\ (Position(d.key) > callback[p].after \/ (callback[p].pc = "embed" /\ d \in callback[p].work))

GivenUp == embeddingLost \cup incompatible \cup withoutGeneration

Covering ==
  Active # 0 =>
    \A r \in Recordings : \A d \in RowsOf(index.registry, r) :
      d \in ActiveVectors \/ r \in GivenUp \/ \E p \in Procs : WillCover(p, r, d)

IndexInv ==
  Types /\ Unique /\ JobHolds /\ Validated /\ CallbackHolds /\ StaleExplained /\ Covering

-----------------------------------------------------------------------------
(* Rows *)

LEMMA RowsAreOfRecordings ==
  ASSUME NEW d \in Rows
  PROVE  /\ d.recording \in Recordings
         /\ \E v \in Versions[d.recording] : d \in Expected(d.recording, v)
         /\ d.key \in Keys
<1>1. PICK r \in Recordings : d \in UNION {Expected(r, v) : v \in Versions[r]}
  BY DEF Rows
<1>2. PICK v \in Versions[r] : d \in Expected(r, v)
  BY <1>1
<1>3. d.recording = r
  BY <1>2, ExpectedAreOfRecording
<1>4. d.key \in KeysOf(Expected(r, v))
  BY <1>2 DEF KeysOf
<1> QED BY <1>2, <1>3, <1>4, IndexAssumption DEF Keys

LEMMA ExpectedAreRows ==
  ASSUME NEW r \in Recordings, NEW v \in Versions[r]
  PROVE  Expected(r, v) \subseteq Rows
BY DEF Rows

LEMMA KeysTellRecordings ==
  ASSUME NEW d \in Rows, NEW e \in Rows, d.key = e.key
  PROVE  d.recording = e.recording
BY RowsAreOfRecordings, IndexAssumption

LEMMA ExpectedKeysUnique ==
  ASSUME NEW r \in Recordings, NEW v \in Versions[r]
  PROVE  UniqueKeys(Expected(r, v))
BY IndexAssumption DEF UniqueKeys

LEMMA RowsKeysAreKeys ==
  ASSUME NEW S \in SUBSET Rows
  PROVE  KeysOf(S) \subseteq Keys
BY RowsAreOfRecordings DEF KeysOf

\* All documents the database calls for.
LEMMA WantedRows ==
  ASSUME NEW sources, DOMAIN sources = Recordings, \A r \in Recordings : sources[r] \in Versions[r]
  PROVE  /\ Wanted(sources) \subseteq Rows
         /\ UniqueKeys(Wanted(sources))
         /\ \A r \in Recordings : RowsOf(Wanted(sources), r) = Expected(r, sources[r])
<1>1. ASSUME NEW d \in Wanted(sources)
      PROVE  d.recording \in Recordings /\ d \in Expected(d.recording, sources[d.recording])
  <2>1. PICK r \in Recordings : d \in Expected(r, sources[r])
    BY <1>1 DEF Wanted
  <2> QED BY <2>1, ExpectedAreOfRecording
<1>2. Wanted(sources) \subseteq Rows
  BY <1>1, ExpectedAreRows
<1>3. UniqueKeys(Wanted(sources))
  <2> SUFFICES ASSUME NEW d \in Wanted(sources), NEW e \in Wanted(sources), d.key = e.key
               PROVE  d = e
    BY DEF UniqueKeys
  <2>1. d.recording = e.recording
    BY <1>2, KeysTellRecordings
  <2> QED BY <1>1, <2>1, ExpectedKeysUnique DEF UniqueKeys
<1>4. ASSUME NEW r \in Recordings PROVE RowsOf(Wanted(sources), r) = Expected(r, sources[r])
  <2>1. \A d \in Expected(r, sources[r]) : d \in Wanted(sources) /\ d.recording = r
    BY ExpectedAreOfRecording DEF Wanted
  <2> QED BY <1>1, <2>1 DEF RowsOf
<1> QED BY <1>2, <1>3, <1>4

-----------------------------------------------------------------------------
(* Pages *)

LEMMA PositionOfKey ==
  ASSUME NEW key \in Keys
  PROVE  Position(key) \in 1..Len(KeyOrder) /\ KeyOrder[Position(key)] = key
<1>1. \E i \in DOMAIN KeyOrder : KeyOrder[i] = key
  BY DEF Keys
<1>2. Position(key) \in DOMAIN KeyOrder /\ KeyOrder[Position(key)] = key
  BY <1>1 DEF Position
<1> QED BY <1>2, IndexAssumption

LEMMA PositionsAreNumbers ==
  ASSUME NEW d \in Rows
  PROVE  Position(d.key) \in Nat /\ Position(d.key) \in 1..Len(KeyOrder)
BY RowsAreOfRecordings, PositionOfKey, IndexAssumption

\* The position of the last of some rows.
LEMMA LastIsGreatest ==
  ASSUME NEW S \in SUBSET Rows, NEW default \in Nat
  PROVE  /\ LastPosition(S, default) \in Nat
         /\ S = {} => LastPosition(S, default) = default
         /\ \A d \in S : Position(d.key) <= LastPosition(S, default)
         /\ S # {} => \E d \in S : Position(d.key) = LastPosition(S, default)
<1>1. CASE S = {}
  BY <1>1 DEF LastPosition
<1>2. CASE S # {}
  <2> DEFINE P == {Position(d.key) : d \in S}
  <2>1. P \subseteq 0..Len(KeyOrder) /\ P # {} /\ Len(KeyOrder) \in Nat
    BY <1>2, PositionsAreNumbers, IndexAssumption
  <2>2. \E x \in P : \A y \in P : y <= x
    BY <2>1, GreatestNumber
  <2>3. \E x \in P : \A d \in S : Position(d.key) <= x
    BY <2>2
  <2>4. PICK last : last = LastPosition(S, default)
    OBVIOUS
  <2>5. last = CHOOSE i \in P : \A d \in S : Position(d.key) <= i
    BY <1>2, <2>4 DEF LastPosition
  <2>6. last \in P /\ \A d \in S : Position(d.key) <= last
    BY <2>3, <2>5
  <2>7. last \in Nat
    BY <2>1, <2>6
  <2> QED BY <1>2, <2>4, <2>6, <2>7
<1> QED BY <1>1, <1>2

LEMMA PageIsOfRows ==
  ASSUME NEW S, NEW after
  PROVE  NextPage(S, after) \subseteq S /\ \A d \in NextPage(S, after) : Position(d.key) > after
BY DEF NextPage

LEMMA RowsAreFinite == \A S \in SUBSET Rows : UniqueKeys(S) => IsFiniteSet(S)
<1> SUFFICES ASSUME NEW S \in SUBSET Rows, UniqueKeys(S) PROVE IsFiniteSet(S)
  OBVIOUS
<1> DEFINE f == [d \in S |-> Position(d.key)]
<1>1. \A d, e \in S : Position(d.key) = Position(e.key) => d = e
  BY RowsAreOfRecordings, PositionOfKey DEF UniqueKeys
<1>2. f \in Injection(S, 1..Len(KeyOrder))
  BY <1>1, PositionsAreNumbers DEF Injection, IsInjective
<1>3. IsFiniteSet(1..Len(KeyOrder))
  BY IndexAssumption, FS_Interval
<1> QED BY <1>2, <1>3, FS_Injection

\* A page is the next rows in order: what comes after its last row is not skipped.
LEMMA PageSkipsNothing ==
  ASSUME NEW S \in SUBSET Rows, UniqueKeys(S), NEW after \in Nat,
         NEW d \in S, Position(d.key) > after,
         NEW e \in NextPage(S, after), Position(d.key) <= Position(e.key)
  PROVE  d \in NextPage(S, after)
<1> DEFINE rest == {x \in S : Position(x.key) > after}
<1> DEFINE Before(x) == {y \in rest : Position(y.key) < Position(x.key)}
<1>1. e \in S /\ Cardinality(Before(e)) < BatchSize
  BY DEF NextPage
<1>2. Before(d) \subseteq Before(e)
  <2>1. \A y \in S : Position(y.key) \in Nat
    BY PositionsAreNumbers
  <2> QED BY <1>1, <2>1
<1>3. IsFiniteSet(Before(e))
  BY RowsAreFinite, FS_Subset
<1>4. /\ Cardinality(Before(d)) <= Cardinality(Before(e))
      /\ Cardinality(Before(d)) \in Nat /\ Cardinality(Before(e)) \in Nat
  BY <1>2, <1>3, FS_Subset, FS_CardinalityType
<1>5. Cardinality(Before(d)) < BatchSize
  BY <1>1, <1>4, IndexAssumption
<1> QED BY <1>5 DEF NextPage

\* There is a page as long as there are rows.
LEMMA PageIsNotEmpty ==
  ASSUME NEW S \in SUBSET Rows, NEW after \in Nat, NEW d \in S, Position(d.key) > after
  PROVE  NextPage(S, after) # {}
<1> DEFINE rest == {x \in S : Position(x.key) > after}
<1> DEFINE P == {Position(x.key) : x \in rest}
<1>1. P \subseteq Nat /\ P # {}
  BY PositionsAreNumbers
<1>2. PICK least \in P : \A y \in P : least <= y
  BY <1>1, LeastNumber
<1>3. PICK x \in rest : Position(x.key) = least
  BY <1>2
<1>4. {y \in rest : Position(y.key) < Position(x.key)} = {}
  <2>1. \A y \in rest : Position(y.key) \in Nat /\ least <= Position(y.key) /\ least \in Nat
    BY <1>1, <1>2
  <2> QED BY <1>3, <2>1
<1>5. Cardinality({y \in rest : Position(y.key) < Position(x.key)}) < BatchSize
  <2>1. Cardinality({}) = 0 /\ 0 < BatchSize
    BY FS_EmptySet, IndexAssumption
  <2> HIDE DEF rest
  <2> QED BY ONLY <1>4, <2>1
<1>6. x \in NextPage(S, after)
  BY <1>3, <1>5 DEF NextPage
<1> QED BY <1>6

-----------------------------------------------------------------------------
(* Types *)

\* Steps of a callback that leave both indexes alone.
CallbackOnly(p) ==
  \/ Capture(p) \/ CaptureFails(p) \/ ReconcileFails(p) \/ BeginSync(p) \/ SkipSync(p)
  \/ ClassifyPage(p) \/ RefuseSync(p) \/ SyncFails(p) \/ Die(p)

\* Steps of a job, or of the user, that leave both indexes alone.
JobOnly == StartRebuild \/ ReadPage \/ ReadDataVersion \/ Validate \/ StartRepair \/ RepairRefused

Rebuilding == RebuildRefused \/ RebuildFails

LEMMA NextCases ==
  ASSUME Next
  PROVE  \/ \E p \in Procs : \E r \in Recordings : \E v \in Versions[r] : Edit(p, r, v)
         \/ \E p \in Procs : \/ CallbackOnly(p) \/ Reconcile(p) \/ DeleteRemovedKeys(p) \/ PersistSync(p)
         \/ \E m \in Models : Reconfigure(m)
         \/ SearchRebuild \/ JobOnly
         \/ CreateGeneration \/ PersistBatch \/ Promote \/ Rebuilding \/ PersistRepairBatch \/ DeleteOrphans
BY DEF Next, CallbackStep, JobStep, CallbackOnly, JobOnly, Rebuilding

LEMMA NoCallbackIsACallback ==
  /\ NoCallback \in Callbacks /\ NoCallback.pc = "idle" /\ NoCallback.active = 0
  /\ NoCallback.recording = "none" /\ ~NoCallback.captured /\ NoCallback.work = {} /\ NoCallback.after = 0
BY DEF NoCallback, Callbacks

LEMMA NoJobIsAJob == NoJob \in Jobs /\ NoJob.pc = "idle" /\ NoJob.generation = 0
BY DEF NoJob, Jobs

LEMMA GenerationOfTypes ==
  ASSUME Types, NEW g \in DOMAIN generations
  PROVE  generations[g] \in Generations /\ g \in 1..Len(generations) /\ g \in Nat /\ g # 0
BY DEF Types

\* What a step does to the callback of p, if it is well formed.
LEMMA CallbackTypes ==
  ASSUME Types, NEW p \in Procs, NEW c \in Callbacks, callback' = [callback EXCEPT ![p] = c],
         c.pc # "idle" => c.recording \in Recordings
  PROVE  /\ callback' \in [Procs -> Callbacks]
         /\ \A q \in Procs : callback'[q].pc # "idle" => callback'[q].recording \in Recordings
BY DEF Types

LEMMA RowsOfAreRows ==
  ASSUME Types, NEW r
  PROVE  RowsOf(index.registry, r) \in SUBSET Rows
BY DEF Types, RowsOf

LEMMA ActiveIsAGeneration ==
  ASSUME Types
  PROVE  /\ Active # 0 => Active \in ActiveGenerations
         /\ Active \in 0..Len(generations)
         /\ ActiveGenerations # {} => Active # 0
<1>1. ActiveGenerations \subseteq DOMAIN generations /\ DOMAIN generations = 1..Len(generations) /\ Len(generations) \in Nat
  BY DEF ActiveGenerations, Types
<1>2. CASE ActiveGenerations = {}
  BY <1>1, <1>2 DEF Active
<1>3. CASE ActiveGenerations # {}
  <2>1. Active \in ActiveGenerations
    BY <1>3 DEF Active
  <2> QED BY <1>1, <2>1
<1> QED BY <1>2, <1>3

\* The callback c that a step of callback p, which leaves both indexes alone, leads to.
Dropped(p, c) == c = NoCallback /\ Finish(p)
Captured(p, c) ==
  /\ callback[p].pc = "capture" /\ c.pc = "reconcile"
  /\ c.recording = callback[p].recording /\ c.active = callback[p].active /\ c.after = callback[p].after
  /\ c.captured => callback[p].captured \/ Active # 0
Begun(p, c) ==
  /\ callback[p].pc = "begin" /\ c.pc \in {"remove", "classify"} /\ c.active = Active
  /\ c.recording = callback[p].recording /\ c.captured = callback[p].captured /\ c.after = callback[p].after
Paged(p, c) ==
  LET page == NextPage(RowsOf(index.registry, Subject(p)), callback[p].after)
      work == page \ generations[callback[p].active].vectors
  IN /\ callback[p].pc = "classify" /\ page # {}
     /\ c.pc = (IF work = {} THEN "classify" ELSE "embed")
     /\ c.recording = callback[p].recording /\ c.captured = callback[p].captured /\ c.active = callback[p].active
     /\ c.after = LastPosition(page, 0) /\ c.work = work

LEMMA CallbackOnlyTypes ==
  ASSUME Types, NEW p \in Procs, CallbackOnly(p)
  PROVE  \E c \in Callbacks :
           /\ callback' = [callback EXCEPT ![p] = c]
           /\ c.pc # "idle" => c.recording \in Recordings
           /\ Dropped(p, c) \/ Captured(p, c) \/ Begun(p, c) \/ Paged(p, c)
<1> DEFINE Goal == \E c \in Callbacks :
                     /\ callback' = [callback EXCEPT ![p] = c]
                     /\ c.pc # "idle" => c.recording \in Recordings
                     /\ Dropped(p, c) \/ Captured(p, c) \/ Begun(p, c) \/ Paged(p, c)
<1>0. /\ callback \in [Procs -> Callbacks] /\ callback[p] \in Callbacks
      /\ callback[p].pc # "idle" => callback[p].recording \in Recordings
      /\ index.registry \subseteq Rows
  BY DEF Types
<1>1. ASSUME Finish(p) PROVE Goal
  <2>1. callback' = [callback EXCEPT ![p] = NoCallback]
    BY <1>1 DEF Finish
  <2>2. Dropped(p, NoCallback)
    BY <1>1 DEF Dropped
  <2> QED BY <2>1, <2>2, NoCallbackIsACallback
<1>3. CASE Capture(p)
  <2>1. PICK keys : keys = IF Active = 0 THEN {} ELSE KeysOf(RowsOf(index.registry, Subject(p)))
    OBVIOUS
  <2>2. keys \in SUBSET Keys
    BY <2>1, RowsOfAreRows, RowsKeysAreKeys
  <2>3. PICK captured \in BOOLEAN : captured = (Active # 0)
    OBVIOUS
  <2>4. PICK c : c = [callback[p] EXCEPT !.pc = "reconcile", !.captured = captured, !.keys = keys]
    OBVIOUS
  <2>5. /\ c \in Callbacks /\ c.recording = callback[p].recording /\ c.pc = "reconcile"
        /\ c.active = callback[p].active /\ c.after = callback[p].after /\ c.captured = captured
    BY <1>0, <2>2, <2>4 DEF Callbacks
  <2>6. callback' = [callback EXCEPT ![p] = c]
    BY <1>3, <2>1, <2>3, <2>4 DEF Capture
  <2>7. callback[p].pc = "capture"
    BY <1>3 DEF Capture, In
  <2>8. Captured(p, c)
    BY <2>3, <2>5, <2>7 DEF Captured
  <2> QED BY <1>0, <2>5, <2>6, <2>7, <2>8
<1>4. CASE CaptureFails(p)
  <2>1. PICK c : c = [callback[p] EXCEPT !.pc = "reconcile"]
    OBVIOUS
  <2>2. /\ c \in Callbacks /\ c.recording = callback[p].recording /\ c.pc = "reconcile"
        /\ c.active = callback[p].active /\ c.after = callback[p].after /\ c.captured = callback[p].captured
    BY <1>0, <2>1 DEF Callbacks
  <2>3. callback' = [callback EXCEPT ![p] = c] /\ callback[p].pc = "capture"
    BY <1>4, <2>1 DEF CaptureFails, Go, In
  <2>4. Captured(p, c)
    BY <2>2, <2>3 DEF Captured
  <2> QED BY <1>0, <2>2, <2>3, <2>4
<1>5. CASE ReconcileFails(p) \/ SkipSync(p) \/ RefuseSync(p) \/ SyncFails(p) \/ Die(p)
  BY <1>1, <1>5 DEF ReconcileFails, SkipSync, RefuseSync, SyncFails, Die
<1>6. CASE BeginSync(p)
  <2>1. PICK gone : gone = callback[p].keys \ KeysOf(index.registry)
    OBVIOUS
  <2>2. gone \in SUBSET Keys
    BY <1>0, <2>1 DEF Callbacks
  <2>3. Active \in Nat
    BY ActiveIsAGeneration DEF Types
  <2>4. PICK pc \in {"classify", "remove"} : pc = IF gone = {} THEN "classify" ELSE "remove"
    OBVIOUS
  <2>5. PICK c : c = [callback[p] EXCEPT !.active = Active, !.keys = gone, !.pc = pc]
    OBVIOUS
  <2>6. /\ c \in Callbacks /\ c.recording = callback[p].recording /\ c.pc = pc /\ c.active = Active
        /\ c.captured = callback[p].captured /\ c.after = callback[p].after
    BY <1>0, <2>2, <2>3, <2>4, <2>5 DEF Callbacks
  <2>7. callback' = [callback EXCEPT ![p] = c]
    BY <1>6, <2>1, <2>4, <2>5 DEF BeginSync
  <2>8. callback[p].pc = "begin"
    BY <1>6 DEF BeginSync, In
  <2>9. Begun(p, c)
    BY <2>4, <2>6, <2>8 DEF Begun
  <2> QED BY <1>0, <2>6, <2>7, <2>8, <2>9
<1>7. CASE ClassifyPage(p)
  <2>1. PICK page : page = NextPage(RowsOf(index.registry, Subject(p)), callback[p].after)
    OBVIOUS
  <2>2. PICK work : work = page \ generations[callback[p].active].vectors
    OBVIOUS
  <2>3. page \in SUBSET Rows /\ work \in SUBSET Rows
    BY <2>1, <2>2, RowsOfAreRows, PageIsOfRows
  <2>4. CASE page = {}
    BY <1>1, <1>7, <2>1, <2>4 DEF ClassifyPage
  <2>5. CASE page # {}
    <3>1. PICK last : last = LastPosition(page, 0)
      OBVIOUS
    <3>2. last \in Nat
      BY <2>3, <3>1, LastIsGreatest
    <3>3. PICK pc \in {"classify", "embed"} : pc = IF work = {} THEN "classify" ELSE "embed"
      OBVIOUS
    <3>4. PICK c : c = [callback[p] EXCEPT !.after = last, !.work = work, !.pc = pc]
      OBVIOUS
    <3>5. /\ c \in Callbacks /\ c.recording = callback[p].recording /\ c.pc = pc /\ c.work = work
          /\ c.captured = callback[p].captured /\ c.active = callback[p].active /\ c.after = last
      BY <1>0, <2>3, <3>2, <3>3, <3>4 DEF Callbacks
    <3>6. callback' = [callback EXCEPT ![p] = c]
      BY <1>7, <2>1, <2>2, <2>5, <3>1, <3>3, <3>4 DEF ClassifyPage
    <3>7. callback[p].pc = "classify"
      BY <1>7 DEF ClassifyPage, In
    <3>8. Paged(p, c)
      BY <2>1, <2>2, <2>5, <3>1, <3>3, <3>5, <3>7 DEF Paged
    <3> QED BY <1>0, <3>5, <3>6, <3>7, <3>8
  <2> QED BY <2>4, <2>5
<1> QED BY <1>3, <1>4, <1>5, <1>6, <1>7 DEF CallbackOnly

-----------------------------------------------------------------------------
(* What a step does to the generations *)

Written(g, V) == generations' = [generations EXCEPT ![g].vectors = V]

LEMMA VectorsWritten ==
  ASSUME Types, NEW g \in DOMAIN generations, NEW V \in SUBSET Rows, Written(g, V)
  PROVE  /\ generations' \in Seq(Generations) /\ Len(generations') = Len(generations)
         /\ DOMAIN generations' = DOMAIN generations
         /\ generations'[g].vectors = V
         /\ \A h \in DOMAIN generations :
              /\ generations'[h].state = generations[h].state
              /\ h # g => generations'[h] = generations[h]
<1>1. generations \in Seq(Generations) /\ generations[g] \in Generations
  BY GenerationOfTypes DEF Types
<1>2. PICK e \in Generations : e = [generations[g] EXCEPT !.vectors = V]
  BY <1>1 DEF Generations
<1>3. e.vectors = V /\ e.state = generations[g].state
  BY <1>1, <1>2 DEF Generations
<1>4. generations' = [generations EXCEPT ![g] = e]
  BY <1>1, <1>2 DEF Written
<1>5. generations' \in Seq(Generations) /\ Len(generations') = Len(generations)
  BY <1>1, <1>4, ExceptSeq
<1>6. DOMAIN generations' = DOMAIN generations /\ generations'[g] = e
  BY <1>1, <1>4
<1>7. \A h \in DOMAIN generations : h # g => generations'[h] = generations[h]
  BY <1>1, <1>4
<1> QED BY <1>3, <1>5, <1>6, <1>7

\* Vectors of present rows are written into a generation that is in use.
Adds ==
  \E g \in DOMAIN generations : \E work \in SUBSET index.registry :
    /\ generations[g].state \in {"building", "active"}
    /\ Written(g, Overwrite(generations[g].vectors, work))

\* Vectors go, none of a document that exists.
Removes ==
  \E g \in DOMAIN generations : \E V \in SUBSET generations[g].vectors :
    /\ \A v \in generations[g].vectors \ V : v.key \notin KeysOf(index.registry)
    /\ generations[g].state = "active"
    /\ Written(g, V)

Begins(model) ==
  /\ Len(generations) < MaxGenerations
  /\ generations' = Append(generations, [model |-> model, state |-> "building", vectors |-> {}])

Abandons ==
  \E g \in DOMAIN generations :
    /\ generations[g].state = "building"
    /\ generations' = [generations EXCEPT ![g].state = "failed"]

LEMMA PersistBatchAdds ==
  ASSUME Types, Unique, JobHolds, PersistBatch
  PROVE  /\ job.generation \in DOMAIN generations /\ generations[job.generation].state = "building"
         /\ job.page \subseteq index.registry
         /\ Written(job.generation, Overwrite(generations[job.generation].vectors, job.page))
         /\ Written(job.generation, generations[job.generation].vectors \cup job.page)
<1>1. /\ job.pc = "persist" /\ job.page \subseteq index.registry
      /\ job.generation \in DOMAIN generations /\ generations[job.generation].state = "building"
  BY DEF PersistBatch, JobHolds
<1>2. PICK old : old = generations[job.generation].vectors
  OBVIOUS
<1>3. old \subseteq Rows /\ job.page \subseteq Rows /\ job.after \in Nat
  BY <1>1, <1>2, GenerationOfTypes DEF Types, Jobs, Generations
<1>4. /\ \A v \in old : Position(v.key) <= job.after
      /\ \A d \in job.page : Position(d.key) > job.after
  BY <1>1, <1>2 DEF JobHolds
<1>5. \A v \in old : v.key \notin KeysOf(job.page)
  BY <1>3, <1>4, PositionsAreNumbers DEF KeysOf
<1>6. Overwrite(old, job.page) = old \cup job.page
  BY <1>5 DEF Overwrite
<1>7. Written(job.generation, old \cup job.page)
  BY <1>2 DEF PersistBatch, Written
<1> QED BY <1>1, <1>2, <1>6, <1>7

LEMMA PersistSyncAdds ==
  ASSUME Types, CallbackHolds, NEW p \in Procs, PersistSync(p)
  PROVE  LET g == callback[p].active IN
         /\ g \in DOMAIN generations /\ generations[g].state = "active"
         /\ callback[p].work \subseteq index.registry
         /\ Written(g, Overwrite(generations[g].vectors, callback[p].work))
<1>1. callback[p].pc = "embed"
  BY DEF PersistSync, In
<1>2. callback[p].active \in DOMAIN generations
  BY <1>1 DEF CallbackHolds, Types
<1> QED BY <1>2 DEF PersistSync, Unchanged, StillActive, Written

LEMMA DeleteRemovedKeysRemoves ==
  ASSUME Types, CallbackHolds, NEW p \in Procs, DeleteRemovedKeys(p)
  PROVE  LET g == callback[p].active
             V == {v \in generations[g].vectors : v.key \notin callback[p].keys \ KeysOf(index.registry)}
         IN /\ g \in DOMAIN generations /\ generations[g].state = "active"
            /\ Written(g, V)
<1>1. callback[p].pc = "remove"
  BY DEF DeleteRemovedKeys, In
<1>2. callback[p].active \in DOMAIN generations
  BY <1>1 DEF CallbackHolds, Types
<1> QED BY <1>2 DEF DeleteRemovedKeys, StillActive, Written

LEMMA PersistRepairBatchAdds ==
  ASSUME Types, JobHolds, PersistRepairBatch
  PROVE  LET g == job.generation
             work == NextPage(job.page, 0)
         IN /\ g \in DOMAIN generations /\ generations[g].state = "active"
            /\ work \subseteq index.registry
            /\ Written(g, Overwrite(generations[g].vectors, work))
<1>1. job.generation \in DOMAIN generations
  BY DEF PersistRepairBatch, JobHolds
<1> QED BY <1>1 DEF PersistRepairBatch, Unchanged, StillActive, Written

LEMMA DeleteOrphansRemoves ==
  ASSUME Types, JobHolds, DeleteOrphans
  PROVE  LET g == job.generation
             V == {v \in generations[g].vectors : v.key \notin job.orphans \ KeysOf(index.registry)}
         IN /\ g \in DOMAIN generations /\ generations[g].state = "active"
            /\ Written(g, V)
<1>1. job.generation \in DOMAIN generations /\ generations[job.generation].state = "active"
  BY DEF DeleteOrphans, JobHolds
<1> QED BY <1>1 DEF DeleteOrphans, Written

LEMMA RebuildingFails ==
  ASSUME Types, JobHolds, Rebuilding
  PROVE  /\ UNCHANGED <<source, index, callback, moved, configured, ghosts>> /\ job' = NoJob
         /\ generations' = generations \/ Abandons
         /\ job.pc # "idle" /\ job.pc # "repair"
<1>1. /\ job.pc \in {"create", "persist", "read", "validate", "promote"}
      /\ RebuildStops(TRUE) \/ RebuildStops(FALSE)
  BY DEF Rebuilding, RebuildRefused, RebuildFails
<1>2. job.generation # 0 => job.generation \in DOMAIN generations /\ generations[job.generation].state = "building"
  BY <1>1 DEF JobHolds
<1> QED BY <1>1, <1>2 DEF RebuildStops, Abandons

LEMMA GenerationFailed ==
  ASSUME Types, Abandons
  PROVE  /\ generations' \in Seq(Generations) /\ Len(generations') = Len(generations)
         /\ DOMAIN generations' = DOMAIN generations
         /\ \A h \in DOMAIN generations :
              /\ generations'[h].vectors = generations[h].vectors
              /\ generations'[h].state = "active" <=> generations[h].state = "active"
<1>1. PICK g \in DOMAIN generations :
        generations[g].state = "building" /\ generations' = [generations EXCEPT ![g].state = "failed"]
  BY DEF Abandons
<1>2. generations \in Seq(Generations) /\ generations[g] \in Generations
  BY GenerationOfTypes DEF Types
<1>3. PICK e \in Generations : e = [generations[g] EXCEPT !.state = "failed"]
  BY <1>2 DEF Generations
<1>4. e.vectors = generations[g].vectors /\ e.state = "failed"
  BY <1>2, <1>3 DEF Generations
<1>5. generations' = [generations EXCEPT ![g] = e]
  BY <1>1, <1>2, <1>3
<1>6. generations' \in Seq(Generations) /\ Len(generations') = Len(generations)
  BY <1>2, <1>5, ExceptSeq
<1>7. DOMAIN generations' = DOMAIN generations
      /\ \A h \in DOMAIN generations : generations'[h] = IF h = g THEN e ELSE generations[h]
  BY <1>2, <1>5
<1> QED BY <1>1, <1>4, <1>6, <1>7

LEMMA GenerationBegun ==
  ASSUME Types, NEW model \in Models, Begins(model)
  PROVE  /\ generations' \in Seq(Generations) /\ Len(generations') = Len(generations) + 1
         /\ DOMAIN generations' = 1..(Len(generations) + 1)
         /\ \A h \in DOMAIN generations : generations'[h] = generations[h]
         /\ generations'[Len(generations) + 1].state = "building"
         /\ generations'[Len(generations) + 1].vectors = {}
<1>1. PICK e : e = [model |-> model, state |-> "building", vectors |-> {}]
  OBVIOUS
<1>2. e \in Generations /\ e.state = "building" /\ e.vectors = {}
  BY <1>1 DEF Generations
<1>3. generations' = Append(generations, e) /\ generations \in Seq(Generations)
  BY <1>1 DEF Begins, Types
<1> QED BY <1>2, <1>3, AppendProperties

LEMMA GenerationPromoted ==
  ASSUME Types, Unique, JobHolds, Promote
  PROVE  LET g == job.generation IN
         /\ generations' \in Seq(Generations) /\ Len(generations') = Len(generations)
         /\ DOMAIN generations' = DOMAIN generations
         /\ g \in DOMAIN generations /\ generations[g].state = "building"
         /\ \A h \in DOMAIN generations :
              /\ generations'[h].vectors = generations[h].vectors
              /\ generations'[h].state = "active" <=> h = g
              /\ generations'[h].state = IF h = g THEN "active"
                                         ELSE IF h \in ActiveGenerations THEN "superseded"
                                         ELSE generations[h].state
<1> DEFINE g == job.generation
<1>1. /\ job.pc = "promote" /\ Active = job.prior /\ generations' = Promoted(g)
      /\ g \in DOMAIN generations /\ generations[g].state = "building"
  BY DEF Promote, Promotable, JobHolds
<1>2. generations \in Seq(Generations) /\ DOMAIN generations = 1..Len(generations) /\ Len(generations) \in Nat
  BY DEF Types
<1>3. \A h \in DOMAIN generations : h \in ActiveGenerations <=> h = job.prior
  <2> TAKE h \in DOMAIN generations
  <2>1. h # 0
    BY <1>2
  <2>2. h \in ActiveGenerations => h = Active
    BY ActiveIsAGeneration DEF Unique
  <2>3. h = Active => h \in ActiveGenerations
    BY <2>1, ActiveIsAGeneration
  <2> QED BY <1>1, <2>2, <2>3
<1>4. g # job.prior
  BY <1>1, <1>3 DEF ActiveGenerations
<1>5. DOMAIN generations' = DOMAIN generations
  BY <1>1 DEF Promoted
<1>6. ASSUME NEW h \in DOMAIN generations
      PROVE  /\ generations'[h] \in Generations /\ generations'[h].vectors = generations[h].vectors
             /\ generations'[h].state = IF h = job.prior THEN "superseded"
                                        ELSE IF h = g THEN "active" ELSE generations[h].state
  <2>1. generations[h] \in Generations
    BY GenerationOfTypes
  <2>2. PICK state \in {"building", "active", "superseded", "failed"} :
          state = IF h = job.prior THEN "superseded" ELSE IF h = g THEN "active" ELSE generations[h].state
    BY <2>1 DEF Generations
  <2>3. generations'[h] = [generations[h] EXCEPT !.state = state]
    BY <1>1, <2>2 DEF Promoted
  <2> QED BY <2>1, <2>2, <2>3 DEF Generations
<1>7. generations' = [h \in 1..Len(generations) |-> generations'[h]]
  BY <1>1, <1>2 DEF Promoted
<1>8. generations' \in Seq(Generations) /\ Len(generations') = Len(generations)
  <2>1. PICK e : e = generations'
    OBVIOUS
  <2>2. e = [h \in 1..Len(generations) |-> e[h]] /\ \A h \in 1..Len(generations) : e[h] \in Generations
    BY <1>2, <1>6, <1>7, <2>1
  <2>3. e \in [1..Len(generations) -> Generations]
    BY <2>2
  <2>4. e \in Seq(Generations) /\ Len(e) = Len(generations)
    BY <1>2, <2>3
  <2> QED BY <2>1, <2>4
<1>9. \A h \in DOMAIN generations :
        generations'[h].state = IF h = g THEN "active"
                                ELSE IF h \in ActiveGenerations THEN "superseded" ELSE generations[h].state
  BY <1>3, <1>4, <1>6
<1>10. \A h \in DOMAIN generations : generations'[h].state = "active" <=> h = g
  BY <1>9 DEF ActiveGenerations
<1> QED BY <1>1, <1>5, <1>6, <1>8, <1>9, <1>10

-----------------------------------------------------------------------------
(* Types are kept *)

LEMMA CallbackOnlyFrame ==
  ASSUME NEW p \in Procs, CallbackOnly(p)
  PROVE  /\ UNCHANGED <<source, index, generations, moved, configured>>
         /\ job' = job \/ job' = NoJob
BY DEF CallbackOnly, Capture, CaptureFails, ReconcileFails, BeginSync, SkipSync, ClassifyPage, RefuseSync,
       SyncFails, Die, quietSync

LEMMA JobOnlyFrame ==
  ASSUME JobOnly
  PROVE  UNCHANGED <<source, index, generations, callback, configured, ghosts>>
BY DEF JobOnly, StartRebuild, ReadPage, ReadDataVersion, Validate, StartRepair, RepairRefused,
       quietJob, unsynced, ghosts, counters

LEMMA JobOnlyTypes ==
  ASSUME Types, JobOnly
  PROVE  job' \in Jobs /\ moved' \in BOOLEAN
<1>0. job \in Jobs /\ moved \in BOOLEAN /\ configured \in Models /\ index.registry \in SUBSET Rows
  BY DEF Types
<1>1. CASE StartRebuild
  <2>1. PICK page \in SUBSET Rows : page = NextPage(index.registry, 0)
    BY <1>0, PageIsOfRows
  <2>2. job' = [NoJob EXCEPT !.pc = "create", !.model = configured, !.page = page]
    BY <1>1, <2>1 DEF StartRebuild
  <2>3. job' \in Jobs
    BY <1>0, <2>1, <2>2, NoJobIsAJob DEF Jobs
  <2> QED BY <1>0, <1>1, <2>3 DEF StartRebuild
<1>2. CASE ReadPage
  <2>1. PICK page \in SUBSET Rows : page = NextPage(index.registry, job.after)
    BY <1>0, PageIsOfRows
  <2>2. job' = [job EXCEPT !.pc = "persist", !.page = page]
    BY <1>2, <2>1 DEF ReadPage
  <2> QED BY <1>0, <1>2, <2>1, <2>2 DEF ReadPage, Jobs
<1>3. CASE ReadDataVersion
  BY <1>0, <1>3 DEF ReadDataVersion, Jobs
<1>4. CASE Validate
  BY <1>0, <1>4 DEF Validate, Jobs
<1>5. CASE StartRepair
  <2>1. Active \in DOMAIN generations
    BY <1>5, ActiveIsAGeneration DEF StartRepair, ActiveGenerations
  <2>2. PICK vectors \in SUBSET Rows : vectors = generations[Active].vectors
    BY <2>1, GenerationOfTypes DEF Generations
  <2>3. PICK page \in SUBSET Rows : page = index.registry \ vectors
    BY <1>0
  <2>4. PICK orphans \in SUBSET Keys : orphans = KeysOf(vectors) \ KeysOf(index.registry)
    BY RowsKeysAreKeys
  <2>5. Active \in Nat
    BY <2>1, GenerationOfTypes
  <2>6. job' = [NoJob EXCEPT !.pc = "repair", !.generation = Active, !.page = page, !.orphans = orphans]
    BY <1>5, <2>2, <2>3, <2>4 DEF StartRepair
  <2>7. job' \in Jobs
    BY <2>3, <2>4, <2>5, <2>6, NoJobIsAJob DEF Jobs
  <2> QED BY <1>0, <1>5, <2>7 DEF StartRepair
<1>6. CASE RepairRefused
  BY <1>0, <1>6, NoJobIsAJob DEF RepairRefused
<1> QED BY <1>1, <1>2, <1>3, <1>4, <1>5, <1>6 DEF JobOnly

LEMMA OverwriteRows ==
  ASSUME NEW V \in SUBSET Rows, NEW work \in SUBSET Rows
  PROVE  Overwrite(V, work) \in SUBSET Rows
BY DEF Overwrite

LEMMA GoTypes ==
  ASSUME Types, NEW p \in Procs, callback[p].pc # "idle",
         NEW pc \in {"capture", "reconcile", "begin", "remove", "classify", "embed"}, Go(p, pc)
  PROVE  /\ callback' \in [Procs -> Callbacks]
         /\ \A q \in Procs : callback'[q].pc # "idle" => callback'[q].recording \in Recordings
         /\ callback'[p] = [callback[p] EXCEPT !.pc = pc]
         /\ \A q \in Procs : q # p => callback'[q] = callback[q]
<1>1. callback \in [Procs -> Callbacks] /\ callback[p] \in Callbacks /\ callback[p].recording \in Recordings
  BY DEF Types
<1>2. PICK c : c = [callback[p] EXCEPT !.pc = pc]
  OBVIOUS
<1>3. c \in Callbacks /\ c.recording = callback[p].recording
  BY <1>1, <1>2 DEF Callbacks
<1>4. callback' = [callback EXCEPT ![p] = c]
  BY <1>2 DEF Go
<1> QED BY <1>1, <1>2, <1>3, <1>4, CallbackTypes

LEMMA FinishTypes ==
  ASSUME Types, NEW p \in Procs, Finish(p)
  PROVE  /\ callback' \in [Procs -> Callbacks]
         /\ \A q \in Procs : callback'[q].pc # "idle" => callback'[q].recording \in Recordings
         /\ callback'[p] = NoCallback
         /\ \A q \in Procs : q # p => callback'[q] = callback[q]
<1>1. callback \in [Procs -> Callbacks] /\ callback' = [callback EXCEPT ![p] = NoCallback]
  BY DEF Types, Finish
<1> QED BY <1>1, NoCallbackIsACallback, CallbackTypes

\* The callback p is in after an edit, and the one after it has written vectors.
LEMMA EditTypes ==
  ASSUME Types, NEW p \in Procs, NEW r \in Recordings, NEW v \in Versions[r], Edit(p, r, v)
  PROVE  /\ callback' \in [Procs -> Callbacks]
         /\ \A q \in Procs : callback'[q].pc # "idle" => callback'[q].recording \in Recordings
         /\ callback'[p] \in Callbacks /\ callback'[p].pc = "capture" /\ callback'[p].recording = r
         /\ callback'[p].active = 0 /\ callback'[p].after = 0 /\ ~callback'[p].captured
         /\ callback[p].pc = "idle"
         /\ \A q \in Procs : q # p => callback'[q] = callback[q]
         /\ source' \in [Recordings -> UNION {Versions[q] : q \in Recordings}]
         /\ \A q \in Recordings : source'[q] = IF q = r THEN v ELSE source[q]
<1>1. PICK c : c = [NoCallback EXCEPT !.pc = "capture", !.recording = r]
  OBVIOUS
<1>2. /\ c \in Callbacks /\ c.pc = "capture" /\ c.recording = r /\ c.active = 0
      /\ c.after = 0 /\ ~c.captured
  BY <1>1, NoCallbackIsACallback DEF Callbacks
<1>3. callback' = [callback EXCEPT ![p] = c] /\ callback[p].pc = "idle"
  BY <1>1 DEF Edit
<1>4. callback \in [Procs -> Callbacks]
  BY DEF Types
<1>5. /\ source' \in [Recordings -> UNION {Versions[q] : q \in Recordings}]
      /\ \A q \in Recordings : source'[q] = IF q = r THEN v ELSE source[q]
  BY DEF Edit, Types
<1> QED BY <1>2, <1>3, <1>4, <1>5, CallbackTypes

LEMMA PersistSyncTypes ==
  ASSUME Types, NEW p \in Procs, PersistSync(p)
  PROVE  /\ callback' \in [Procs -> Callbacks]
         /\ \A q \in Procs : callback'[q].pc # "idle" => callback'[q].recording \in Recordings
         /\ callback'[p] = [callback[p] EXCEPT !.pc = "classify", !.work = {}]
         /\ \A q \in Procs : q # p => callback'[q] = callback[q]
<1>1. /\ callback \in [Procs -> Callbacks] /\ callback[p] \in Callbacks /\ callback[p].recording \in Recordings
  BY DEF Types, PersistSync, In
<1>2. PICK c : c = [callback[p] EXCEPT !.pc = "classify", !.work = {}]
  OBVIOUS
<1>3. c \in Callbacks /\ c.recording = callback[p].recording
  BY <1>1, <1>2 DEF Callbacks
<1>4. callback' = [callback EXCEPT ![p] = c]
  BY <1>2 DEF PersistSync
<1> QED BY <1>1, <1>2, <1>3, <1>4, CallbackTypes

LEMMA ReconcileTypes ==
  ASSUME Types, NEW p \in Procs, Reconcile(p)
  PROVE  /\ callback' \in [Procs -> Callbacks]
         /\ \A q \in Procs : callback'[q].pc # "idle" => callback'[q].recording \in Recordings
         /\ \A q \in Procs : q # p => callback'[q] = callback[q]
         /\ callback'[p] = IF callback[p].captured THEN [callback[p] EXCEPT !.pc = "begin"] ELSE NoCallback
         /\ index'.registry \subseteq Rows
         /\ Subject(p) \in Recordings /\ callback[p].pc = "reconcile"
<1>1. callback[p].pc = "reconcile" /\ Subject(p) \in Recordings
  BY DEF Reconcile, In, Subject, Types
<1>2. index'.registry \subseteq index.registry \cup Expected(Subject(p), source[Subject(p)])
  BY ReconciledAddsExpected DEF Reconcile
<1>3. index'.registry \subseteq Rows
  BY <1>1, <1>2, ExpectedAreRows DEF Types
<1>4. CASE callback[p].captured
  <2>1. Go(p, "begin")
    BY <1>4 DEF Reconcile
  <2> QED BY <1>1, <1>3, <1>4, <2>1, GoTypes
<1>5. CASE ~callback[p].captured
  <2>1. Finish(p)
    BY <1>5 DEF Reconcile
  <2> QED BY <1>1, <1>3, <1>5, <2>1, FinishTypes
<1> QED BY <1>4, <1>5

\* The job after each of its writes.
LEMMA CreateGenerationTypes ==
  ASSUME Types, JobHolds, CreateGeneration
  PROVE  /\ job' \in Jobs /\ Begins(job.model) /\ job.model \in Models
         /\ job'.pc = "persist" /\ job'.generation = Len(generations) + 1
         /\ job'.after = 0 /\ job'.page = job.page /\ job.pc = "create"
         /\ UNCHANGED <<source, index, callback, moved, configured, ghosts>>
<1>1. job \in Jobs /\ Active \in Nat /\ Len(generations) + 1 \in Nat
  BY ActiveIsAGeneration DEF Types
<1>2. job.pc = "create" /\ Len(generations) < MaxGenerations /\ job.model \in Models /\ job.after = 0
  BY DEF CreateGeneration, JobHolds
<1>3. Begins(job.model)
  BY <1>2 DEF CreateGeneration, Begins
<1>4. PICK n \in Nat : n = Len(generations) + 1
  BY <1>1
<1>5. job' = [job EXCEPT !.pc = "persist", !.prior = Active, !.generation = n]
  BY <1>4 DEF CreateGeneration
<1>6. /\ job' \in Jobs /\ job'.pc = "persist" /\ job'.generation = n
      /\ job'.after = job.after /\ job'.page = job.page
  BY <1>1, <1>5 DEF Jobs
<1> QED BY <1>2, <1>3, <1>4, <1>6 DEF CreateGeneration, quietJob, unsynced, ghosts

LEMMA PersistBatchTypes ==
  ASSUME Types, PersistBatch
  PROVE  /\ job' \in Jobs /\ job'.pc = "read" /\ job'.generation = job.generation
         /\ job'.after = LastPosition(job.page, job.after) /\ job.pc = "persist"
         /\ UNCHANGED <<source, index, callback, moved, configured, ghosts>>
<1>1. job \in Jobs /\ job.page \in SUBSET Rows /\ job.after \in Nat /\ job.snapshot \cup job.page \in SUBSET Rows
  BY DEF Types, Jobs
<1>2. PICK last \in Nat : last = LastPosition(job.page, job.after)
  BY <1>1, LastIsGreatest
<1>3. PICK snapshot \in SUBSET Rows : snapshot = job.snapshot \cup job.page
  BY <1>1
<1>4. job' = [job EXCEPT !.pc = "read", !.snapshot = snapshot, !.page = {}, !.after = last]
  BY <1>1, <1>2, <1>3 DEF PersistBatch
<1>5. job' \in Jobs /\ job'.pc = "read" /\ job'.generation = job.generation /\ job'.after = last
  BY <1>1, <1>4 DEF Jobs
<1> QED BY <1>2, <1>5 DEF PersistBatch, quietJob, unsynced, ghosts

LEMMA PromoteTypes ==
  ASSUME Promote
  PROVE  /\ job' = NoJob /\ job.pc = "promote" /\ ~moved
         /\ UNCHANGED <<source, index, callback, moved, configured, searchLost>>
         /\ embeddingLost' = {} /\ incompatible' = {} /\ withoutGeneration' = {}
BY DEF Promote, Promotable, quietJob

LEMMA PersistRepairBatchTypes ==
  ASSUME Types, PersistRepairBatch
  PROVE  /\ job' \in Jobs /\ job'.pc = "repair" /\ job'.generation = job.generation /\ job.pc = "repair"
         /\ UNCHANGED <<source, index, callback, moved, configured, ghosts>>
<1>1. job \in Jobs /\ job.pc = "repair"
  BY DEF Types, PersistRepairBatch
<1>2. PICK page \in SUBSET Rows : page = job.page \ NextPage(job.page, 0)
  BY <1>1 DEF Jobs
<1>3. job' = [job EXCEPT !.page = page]
  BY <1>1, <1>2 DEF PersistRepairBatch
<1>4. job' \in Jobs /\ job'.pc = job.pc /\ job'.generation = job.generation
  BY <1>1, <1>3 DEF Jobs
<1> QED BY <1>1, <1>4 DEF PersistRepairBatch, quietJob, unsynced, ghosts

LEMMA DeleteOrphansTypes ==
  ASSUME DeleteOrphans
  PROVE  /\ job' = NoJob /\ job.pc = "repair"
         /\ UNCHANGED <<source, index, callback, moved, configured, searchLost>>
BY DEF DeleteOrphans, quietJob

LEMMA TypesKept ==
  ASSUME IndexInv, Next
  PROVE  Types'
<1>0. Types /\ Unique /\ JobHolds /\ CallbackHolds
  BY DEF IndexInv
<1>1. ASSUME NEW p \in Procs, NEW r \in Recordings, NEW v \in Versions[r], Edit(p, r, v) PROVE Types'
  <2>1. moved' \in BOOLEAN
    BY <1>0, <1>1 DEF Edit, Commit, Types
  <2>2. \A q \in Recordings : source'[q] = IF q = r THEN v ELSE source[q]
    BY <1>0, <1>1, EditTypes
  <2>3. \A q \in Recordings : source[q] \in Versions[q]
    BY <1>0 DEF Types
  <2>4. \A q \in Recordings : source'[q] \in Versions[q]
    BY <2>2, <2>3
  <2>5. UNCHANGED <<index, generations, job, configured>>
    BY <1>1 DEF Edit
  <2> QED BY <1>0, <1>1, <2>1, <2>4, <2>5, EditTypes DEF Types
<1>2. ASSUME NEW p \in Procs, CallbackOnly(p) PROVE Types'
  <2>1. PICK c \in Callbacks : callback' = [callback EXCEPT ![p] = c] /\ (c.pc # "idle" => c.recording \in Recordings)
    BY <1>0, <1>2, CallbackOnlyTypes
  <2>2. /\ callback' \in [Procs -> Callbacks]
        /\ \A q \in Procs : callback'[q].pc # "idle" => callback'[q].recording \in Recordings
    BY <1>0, <2>1, CallbackTypes
  <2> QED BY <1>0, <1>2, <2>2, CallbackOnlyFrame, NoJobIsAJob DEF Types
<1>3. ASSUME NEW p \in Procs, Reconcile(p) PROVE Types'
  <2>1. moved' \in BOOLEAN
    BY <1>0, <1>3 DEF Reconcile, Commit, Types
  <2> QED BY <1>0, <1>3, <2>1, ReconcileTypes DEF Reconcile, quietSync, Types
<1>4. ASSUME NEW p \in Procs, DeleteRemovedKeys(p) PROVE Types'
  <2>1. moved' \in BOOLEAN
    BY <1>0, <1>4 DEF DeleteRemovedKeys, Commit, Types
  <2>2. callback[p].pc # "idle" /\ Go(p, "classify")
    BY <1>4 DEF DeleteRemovedKeys, In
  <2>3. PICK g \in DOMAIN generations : \E V \in SUBSET generations[g].vectors : Written(g, V)
    BY <1>0, <1>4, DeleteRemovedKeysRemoves
  <2>4. generations' \in Seq(Generations)
    BY <1>0, <2>3, VectorsWritten, GenerationOfTypes DEF Generations
  <2> QED BY <1>0, <1>4, <2>1, <2>2, <2>4, GoTypes DEF DeleteRemovedKeys, quietSync, Types
<1>5. ASSUME NEW p \in Procs, PersistSync(p) PROVE Types'
  <2>1. moved' \in BOOLEAN
    BY <1>0, <1>5 DEF PersistSync, Commit, Types
  <2>2. PICK g \in DOMAIN generations : \E work \in SUBSET index.registry :
          Written(g, Overwrite(generations[g].vectors, work))
    BY <1>0, <1>5, PersistSyncAdds
  <2>3. generations' \in Seq(Generations)
    BY <1>0, <2>2, VectorsWritten, GenerationOfTypes, OverwriteRows DEF Generations, Types
  <2> QED BY <1>0, <1>5, <2>1, <2>3, PersistSyncTypes DEF PersistSync, quietSync, Types
<1>6. ASSUME NEW m \in Models, Reconfigure(m) PROVE Types'
  BY <1>0, <1>6 DEF Reconfigure, Types
<1>7. CASE SearchRebuild
  <2>1. index'.registry \subseteq Rows
    <3>1. index'.registry = Wanted(source)
      BY <1>7 DEF SearchRebuild, Rebuilt, Wanted
    <3> QED BY <1>0, <3>1, WantedRows DEF Types
  <2> QED BY <1>0, <1>7, <2>1 DEF SearchRebuild, Types
<1>8. CASE JobOnly
  BY <1>0, <1>8, JobOnlyTypes, JobOnlyFrame DEF Types
<1>9. CASE CreateGeneration
  BY <1>0, <1>9, CreateGenerationTypes, GenerationBegun DEF Types
<1>10. CASE PersistBatch
  <2>1. PICK g \in DOMAIN generations : \E work \in SUBSET index.registry :
          Written(g, Overwrite(generations[g].vectors, work))
    BY <1>0, <1>10, PersistBatchAdds
  <2>2. generations' \in Seq(Generations)
    BY <1>0, <2>1, VectorsWritten, GenerationOfTypes, OverwriteRows DEF Generations, Types
  <2> QED BY <1>0, <1>10, <2>2, PersistBatchTypes DEF Types
<1>11. CASE Promote
  BY <1>0, <1>11, PromoteTypes, GenerationPromoted, NoJobIsAJob DEF Types
<1>12. CASE Rebuilding
  BY <1>0, <1>12, RebuildingFails, GenerationFailed, NoJobIsAJob DEF Types
<1>13. CASE PersistRepairBatch
  <2>1. PICK g \in DOMAIN generations : \E work \in SUBSET index.registry :
          Written(g, Overwrite(generations[g].vectors, work))
    BY <1>0, <1>13, PersistRepairBatchAdds
  <2>2. generations' \in Seq(Generations)
    BY <1>0, <2>1, VectorsWritten, GenerationOfTypes, OverwriteRows DEF Generations, Types
  <2> QED BY <1>0, <1>13, <2>2, PersistRepairBatchTypes DEF Types
<1>14. CASE DeleteOrphans
  <2>1. PICK g \in DOMAIN generations : \E V \in SUBSET generations[g].vectors : Written(g, V)
    BY <1>0, <1>14, DeleteOrphansRemoves
  <2>2. generations' \in Seq(Generations)
    BY <1>0, <2>1, VectorsWritten, GenerationOfTypes DEF Generations
  <2> QED BY <1>0, <1>14, <2>2, DeleteOrphansTypes, NoJobIsAJob DEF Types
<1> QED
  BY <1>1, <1>2, <1>3, <1>4, <1>5, <1>6, <1>7, <1>8, <1>9, <1>10, <1>11, <1>12, <1>13, <1>14, NextCases

-----------------------------------------------------------------------------
(* The initial states *)

LEMMA NothingActive == ASSUME generations = <<>> PROVE ActiveGenerations = {} /\ Active = 0 /\ Len(generations) = 0
<1>1. DOMAIN generations = {}
  OBVIOUS
<1> QED BY <1>1 DEF ActiveGenerations, Active

LEMMA InitInv == Init => IndexInv
<1> SUFFICES ASSUME Init PROVE IndexInv
  OBVIOUS
<1>1. /\ source \in [Recordings -> UNION {Versions[r] : r \in Recordings}]
      /\ \A r \in Recordings : source[r] \in Versions[r]
      /\ generations = <<>> /\ job = NoJob /\ moved = FALSE
      /\ callback = [p \in Procs |-> NoCallback]
  BY DEF Init
<1>2. index.registry \subseteq Rows /\ UniqueKeys(index.registry)
  <2>1. CASE \E old \in [Recordings -> UNION {Versions[r] : r \in Recordings}] :
               /\ \A r \in Recordings : old[r] \in Versions[r]
               /\ index = Rebuilt(old)
    <3>1. PICK old \in [Recordings -> UNION {Versions[r] : r \in Recordings}] :
               (\A r \in Recordings : old[r] \in Versions[r]) /\ index = Rebuilt(old)
      BY <2>1
    <3>2. index.registry = Wanted(old)
      BY <3>1 DEF Rebuilt, Wanted
    <3> QED BY <3>1, <3>2, WantedRows
  <2>2. CASE index = [registry |-> Rebuilt(source).registry, fts |-> {OrphanText}]
    <3>2. index.registry = Wanted(source)
      BY <2>2 DEF Rebuilt, Wanted
    <3> QED BY <1>1, <3>2, WantedRows
  <2> QED BY <2>1, <2>2 DEF Init
<1>3. configured \in Models
  BY IndexAssumption DEF Init
<1>4. Types
  <2>1. generations \in Seq(Generations)
    BY <1>1
  <2>2. callback \in [Procs -> Callbacks]
    BY <1>1, NoCallbackIsACallback
  <2>3. \A p \in Procs : callback[p].pc = "idle"
    BY <1>1, NoCallbackIsACallback
  <2>4. job \in Jobs
    BY <1>1, NoJobIsAJob
  <2>5. moved \in BOOLEAN
    BY <1>1
  <2> QED BY <1>1, <1>2, <1>3, <2>1, <2>2, <2>3, <2>4, <2>5 DEF Types
<1>5. ActiveGenerations = {} /\ Active = 0 /\ Len(generations) = 0
  BY <1>1, NothingActive
<1>6. Unique
  BY <1>1, <1>2, <1>5 DEF Unique
<1>7. JobHolds /\ Validated
  BY <1>1, NoJobIsAJob DEF JobHolds, Validated
<1>8. CallbackHolds
  BY <1>1, <1>5, NoCallbackIsACallback DEF CallbackHolds
<1>9. StaleExplained
  BY DEF StaleExplained, SearchStale, Init
<1>10. Covering
  BY <1>5 DEF Covering
<1> QED BY <1>4, <1>6, <1>7, <1>8, <1>9, <1>10 DEF IndexInv

-----------------------------------------------------------------------------
(* What a step does to the two indexes *)

LEMMA IndexSteps ==
  ASSUME IndexInv, Next
  PROVE  \/ generations' = generations /\ (index' = index \/ SearchRebuild \/ \E p \in Procs : Reconcile(p))
         \/ index' = index /\ (Adds \/ Removes \/ Abandons \/ Promote \/ \E model \in Models : Begins(model))
<1> DEFINE Quiet == generations' = generations /\ (index' = index \/ SearchRebuild \/ \E p \in Procs : Reconcile(p))
<1> DEFINE Busy == index' = index /\ (Adds \/ Removes \/ Abandons \/ Promote \/ \E model \in Models : Begins(model))
<1>0. Types /\ Unique /\ JobHolds /\ CallbackHolds
  BY DEF IndexInv
<1>1. ASSUME NEW p \in Procs, NEW r \in Recordings, NEW v \in Versions[r], Edit(p, r, v) PROVE Quiet
  BY <1>1 DEF Edit
<1>2. ASSUME NEW p \in Procs, CallbackOnly(p) PROVE Quiet
  BY <1>2, CallbackOnlyFrame
<1>3. ASSUME NEW p \in Procs, Reconcile(p) PROVE Quiet
  BY <1>3 DEF Reconcile
<1>4. ASSUME NEW p \in Procs, DeleteRemovedKeys(p) PROVE Busy
  <2>1. index' = index
    BY <1>4 DEF DeleteRemovedKeys
  <2> QED BY <1>0, <1>4, <2>1, DeleteRemovedKeysRemoves DEF Removes
<1>5. ASSUME NEW p \in Procs, PersistSync(p) PROVE Busy
  BY <1>0, <1>5, PersistSyncAdds DEF PersistSync, Adds
<1>6. ASSUME NEW m \in Models, Reconfigure(m) PROVE Quiet
  BY <1>6 DEF Reconfigure
<1>7. CASE SearchRebuild
  BY <1>7 DEF SearchRebuild
<1>8. CASE JobOnly
  BY <1>8, JobOnlyFrame
<1>9. CASE CreateGeneration
  BY <1>0, <1>9, CreateGenerationTypes
<1>10. CASE PersistBatch
  BY <1>0, <1>10, PersistBatchAdds, PersistBatchTypes DEF Adds
<1>11. CASE Promote
  BY <1>11, PromoteTypes
<1>12. CASE Rebuilding
  BY <1>0, <1>12, RebuildingFails
<1>13. CASE PersistRepairBatch
  BY <1>0, <1>13, PersistRepairBatchAdds, PersistRepairBatchTypes DEF Adds
<1>14. CASE DeleteOrphans
  BY <1>0, <1>14, DeleteOrphansRemoves, DeleteOrphansTypes DEF Removes
<1> QED
  BY <1>1, <1>2, <1>3, <1>4, <1>5, <1>6, <1>7, <1>8, <1>9, <1>10, <1>11, <1>12, <1>13, <1>14, NextCases

\* The generations change otherwise than by a promotion.
Quietly ==
  \/ generations' = generations
  \/ \E g \in DOMAIN generations : \E V \in SUBSET Rows : Written(g, V)
  \/ \E model \in Models : Begins(model)
  \/ Abandons

\* A generation in use goes on being the one in use.
LEMMA ActiveKept ==
  ASSUME Types, Quietly
  PROVE  /\ ActiveGenerations' = ActiveGenerations /\ Active' = Active
         /\ Len(generations) \in Nat /\ Len(generations') \in Nat /\ Len(generations') >= Len(generations)
         /\ DOMAIN generations \subseteq DOMAIN generations'
<1>0. DOMAIN generations = 1..Len(generations) /\ Len(generations) \in Nat
  BY DEF Types
<1>1. /\ ActiveGenerations' = ActiveGenerations
      /\ Len(generations') \in Nat /\ Len(generations') >= Len(generations)
      /\ DOMAIN generations \subseteq DOMAIN generations'
  <2>1. CASE generations' = generations
    BY <1>0, <2>1 DEF ActiveGenerations
  <2>2. CASE \E g \in DOMAIN generations : \E V \in SUBSET Rows : Written(g, V)
    BY <1>0, <2>2, VectorsWritten DEF ActiveGenerations
  <2>3. ASSUME NEW model \in Models, Begins(model)
        PROVE  /\ ActiveGenerations' = ActiveGenerations
               /\ Len(generations') \in Nat /\ Len(generations') >= Len(generations)
               /\ DOMAIN generations \subseteq DOMAIN generations'
    <3>1. /\ DOMAIN generations' = 1..(Len(generations) + 1)
          /\ Len(generations') = Len(generations) + 1
          /\ \A h \in DOMAIN generations : generations'[h] = generations[h]
          /\ generations'[Len(generations) + 1].state = "building"
      BY <2>3, GenerationBegun
    <3>2. DOMAIN generations' = DOMAIN generations \cup {Len(generations) + 1}
      BY <1>0, <3>1
    <3> QED BY <1>0, <3>1, <3>2 DEF ActiveGenerations
  <2>4. CASE Abandons
    BY <1>0, <2>4, GenerationFailed DEF ActiveGenerations
  <2> QED BY <2>1, <2>2, <2>3, <2>4 DEF Quietly
<1>2. Active' = Active
  BY <1>1 DEF Active
<1> QED BY <1>0, <1>1, <1>2

LEMMA QuietSteps ==
  ASSUME IndexInv, Next
  PROVE  Quietly \/ Promote
<1>0. Types
  BY DEF IndexInv
<1>1. ASSUME Adds PROVE Quietly
  <2>1. PICK g \in DOMAIN generations : \E work \in SUBSET index.registry :
          Written(g, Overwrite(generations[g].vectors, work))
    BY <1>1 DEF Adds
  <2> QED BY <1>0, <2>1, GenerationOfTypes, OverwriteRows DEF Quietly, Generations, Types
<1>2. ASSUME Removes PROVE Quietly
  <2>1. PICK g \in DOMAIN generations : \E V \in SUBSET generations[g].vectors : Written(g, V)
    BY <1>2 DEF Removes
  <2> QED BY <1>0, <2>1, GenerationOfTypes DEF Quietly, Generations
<1> QED BY <1>1, <1>2, IndexSteps DEF Quietly

-----------------------------------------------------------------------------
(* One row and one vector of a document, one active generation *)

LEMMA OverwriteUnique ==
  ASSUME NEW V, NEW work, UniqueKeys(V), UniqueKeys(work)
  PROVE  UniqueKeys(Overwrite(V, work))
BY DEF Overwrite, UniqueKeys, KeysOf

LEMMA UniqueRowsKept ==
  ASSUME IndexInv, Next
  PROVE  UniqueKeys(index'.registry)
<1>0. Types /\ UniqueKeys(index.registry)
  BY DEF IndexInv, Unique
<1>1. CASE index' = index
  BY <1>0, <1>1
<1>2. CASE SearchRebuild
  <2>1. index'.registry = Wanted(source)
    BY <1>2 DEF SearchRebuild, Rebuilt, Wanted
  <2> QED BY <1>0, <2>1, WantedRows DEF Types
<1>3. ASSUME NEW p \in Procs, Reconcile(p) PROVE UniqueKeys(index'.registry)
  <2>1. UniqueKeys(Expected(Subject(p), source[Subject(p)]))
    BY <1>0, <1>3, ReconcileTypes, ExpectedKeysUnique DEF Types
  <2>2. index' = Reconciled(Subject(p), source[Subject(p)], index)
    BY <1>3 DEF Reconcile
  <2> QED BY <1>0, <2>1, <2>2, ReconciledKeepsKeysUnique
<1> QED BY <1>1, <1>2, <1>3, IndexSteps

LEMMA UniqueVectorsKept ==
  ASSUME IndexInv, Next
  PROVE  \A g \in DOMAIN generations' : UniqueKeys(generations'[g].vectors)
<1> DEFINE Goal == \A g \in DOMAIN generations' : UniqueKeys(generations'[g].vectors)
<1>0. Types /\ UniqueKeys(index.registry) /\ \A g \in DOMAIN generations : UniqueKeys(generations[g].vectors)
  BY DEF IndexInv, Unique
<1>1. CASE generations' = generations
  BY <1>0, <1>1
<1>2. ASSUME NEW g \in DOMAIN generations, NEW V \in SUBSET Rows, UniqueKeys(V), Written(g, V) PROVE Goal
  BY <1>0, <1>2, VectorsWritten
<1>3. CASE Adds
  <2>1. PICK g \in DOMAIN generations : \E work \in SUBSET index.registry :
          Written(g, Overwrite(generations[g].vectors, work))
    BY <1>3 DEF Adds
  <2>2. PICK work \in SUBSET index.registry : Written(g, Overwrite(generations[g].vectors, work))
    BY <2>1
  <2>3. Overwrite(generations[g].vectors, work) \in SUBSET Rows
    BY <1>0, GenerationOfTypes, OverwriteRows DEF Generations, Types
  <2>4. UniqueKeys(work)
    BY <1>0 DEF UniqueKeys
  <2>5. UniqueKeys(Overwrite(generations[g].vectors, work))
    BY <1>0, <2>4, OverwriteUnique
  <2> QED BY <1>2, <2>2, <2>3, <2>5
<1>4. CASE Removes
  <2>1. PICK g \in DOMAIN generations : \E V \in SUBSET generations[g].vectors : Written(g, V)
    BY <1>4 DEF Removes
  <2>2. PICK V \in SUBSET generations[g].vectors : Written(g, V)
    BY <2>1
  <2>3. V \in SUBSET Rows
    BY <1>0, GenerationOfTypes DEF Generations
  <2>4. UniqueKeys(V)
    BY <1>0 DEF UniqueKeys
  <2> QED BY <1>2, <2>2, <2>3, <2>4
<1>5. CASE Abandons
  BY <1>0, <1>5, GenerationFailed
<1>6. CASE Promote
  BY <1>0, <1>6, GenerationPromoted DEF IndexInv
<1>7. ASSUME NEW model \in Models, Begins(model) PROVE Goal
  <2>1. /\ DOMAIN generations' = 1..(Len(generations) + 1)
        /\ \A h \in DOMAIN generations : generations'[h] = generations[h]
        /\ generations'[Len(generations) + 1].vectors = {}
    BY <1>0, <1>7, GenerationBegun
  <2>2. DOMAIN generations = 1..Len(generations) /\ Len(generations) \in Nat
    BY <1>0 DEF Types
  <2>3. \A g \in DOMAIN generations' : g \in DOMAIN generations \/ g = Len(generations) + 1
    BY <2>1, <2>2
  <2>4. UniqueKeys({})
    BY DEF UniqueKeys
  <2> QED BY <1>0, <2>1, <2>3, <2>4
<1> QED BY <1>1, <1>3, <1>4, <1>5, <1>6, <1>7, IndexSteps

LEMMA UniqueKept ==
  ASSUME IndexInv, Next
  PROVE  Unique'
<1>0. Types /\ Unique /\ JobHolds
  BY DEF IndexInv
<1>1. \A g, h \in ActiveGenerations' : g = h
  <2>1. CASE Quietly
    BY <1>0, <2>1, ActiveKept DEF Unique
  <2>2. CASE Promote
    BY <1>0, <2>2, GenerationPromoted DEF ActiveGenerations
  <2> QED BY <2>1, <2>2, QuietSteps
<1> QED BY <1>1, UniqueRowsKept, UniqueVectorsKept DEF Unique

-----------------------------------------------------------------------------
(* What a job and a callback rely on *)

\* Steps of other processes and of the callbacks: they leave the job alone.
Foreign ==
  \/ \E p \in Procs : \/ \E r \in Recordings : \E v \in Versions[r] : Edit(p, r, v)
                      \/ CallbackOnly(p) \/ Reconcile(p) \/ DeleteRemovedKeys(p) \/ PersistSync(p)
  \/ \E m \in Models : Reconfigure(m)
  \/ SearchRebuild

LEMMA BusyCallback ==
  ASSUME NEW p \in Procs, CallbackOnly(p) \/ Reconcile(p) \/ DeleteRemovedKeys(p) \/ PersistSync(p)
  PROVE  /\ callback[p].pc # "idle" \/ (p = Locked /\ job' = NoJob)
         /\ job' = job \/ (p = Locked /\ job' = NoJob)
BY DEF CallbackOnly, Capture, CaptureFails, ReconcileFails, BeginSync, SkipSync, ClassifyPage, RefuseSync,
       SyncFails, Die, Reconcile, DeleteRemovedKeys, PersistSync, In, quietSync

LEMMA ForeignLeaves ==
  ASSUME IndexInv, Foreign
  PROVE  /\ job' = job \/ job' = NoJob
         /\ job'.pc # "idle" => callback'[Locked].pc = "idle"
         /\ Len(generations') = Len(generations) /\ DOMAIN generations' = DOMAIN generations
         /\ \A h \in DOMAIN generations :
              /\ generations'[h].state = generations[h].state
              /\ generations[h].state = "building" => generations'[h] = generations[h]
<1> DEFINE JobGoal == (job' = job \/ job' = NoJob) /\ (job'.pc # "idle" => callback'[Locked].pc = "idle")
<1> DEFINE GenGoal == /\ Len(generations') = Len(generations) /\ DOMAIN generations' = DOMAIN generations
                      /\ \A h \in DOMAIN generations :
                           /\ generations'[h].state = generations[h].state
                           /\ generations[h].state = "building" => generations'[h] = generations[h]
<1>0. /\ Types /\ Unique /\ CallbackHolds /\ Locked \in Procs
      /\ job.pc # "idle" => callback[Locked].pc = "idle"
      /\ NoJob.pc = "idle"
  BY NoJobIsAJob DEF IndexInv, JobHolds, Procs
<1>1. ASSUME NEW p \in Procs, NEW r \in Recordings, NEW v \in Versions[r], Edit(p, r, v) PROVE JobGoal /\ GenGoal
  <2>1. p = Locked => job.pc = "idle"
    BY <1>1 DEF Edit
  <2>2. UNCHANGED <<job, generations>>
    BY <1>1 DEF Edit
  <2>3. p # Locked => callback'[Locked] = callback[Locked]
    BY <1>0, <1>1, EditTypes
  <2> QED BY <1>0, <2>1, <2>2, <2>3
<1>2. ASSUME NEW p \in Procs, callback[p].pc # "idle" \/ (p = Locked /\ job' = NoJob),
             job' = job \/ (p = Locked /\ job' = NoJob),
             NEW c, callback' = [callback EXCEPT ![p] = c]
      PROVE  JobGoal
  <2>1. p # Locked => callback'[Locked] = callback[Locked]
    BY <1>0, <1>2 DEF Types
  <2> QED BY <1>0, <1>2, <2>1
<1>3. ASSUME NEW p \in Procs, CallbackOnly(p) PROVE JobGoal /\ GenGoal
  <2>1. \E c : callback' = [callback EXCEPT ![p] = c]
    BY <1>0, <1>3, CallbackOnlyTypes
  <2>2. JobGoal
    BY <1>2, <1>3, <2>1, BusyCallback
  <2> QED BY <1>3, <2>2, CallbackOnlyFrame
<1>4. ASSUME NEW p \in Procs, Reconcile(p) PROVE JobGoal /\ GenGoal
  <2>1. generations' = generations
    BY <1>4 DEF Reconcile
  <2>2. p # Locked => callback'[Locked] = callback[Locked]
    BY <1>0, <1>4, ReconcileTypes
  <2> QED BY <1>0, <1>4, <2>1, <2>2, BusyCallback
<1>5. ASSUME NEW g \in DOMAIN generations, generations[g].state = "active", NEW V \in SUBSET Rows, Written(g, V)
      PROVE  GenGoal
  BY <1>0, <1>5, VectorsWritten
<1>6. ASSUME NEW p \in Procs, DeleteRemovedKeys(p) PROVE JobGoal /\ GenGoal
  <2>1. callback[p].pc # "idle" /\ Go(p, "classify")
    BY <1>6 DEF DeleteRemovedKeys, In
  <2>2. p # Locked => callback'[Locked] = callback[Locked]
    BY <1>0, <2>1, GoTypes
  <2>3. PICK g \in DOMAIN generations : generations[g].state = "active" /\ \E V \in SUBSET generations[g].vectors : Written(g, V)
    BY <1>0, <1>6, DeleteRemovedKeysRemoves
  <2>4. GenGoal
    BY <1>0, <1>5, <2>3, GenerationOfTypes DEF Generations
  <2> QED BY <1>0, <1>6, <2>2, <2>4, BusyCallback
<1>7. ASSUME NEW p \in Procs, PersistSync(p) PROVE JobGoal /\ GenGoal
  <2>1. p # Locked => callback'[Locked] = callback[Locked]
    BY <1>0, <1>7, PersistSyncTypes
  <2>2. PICK g \in DOMAIN generations : generations[g].state = "active" /\ \E work \in SUBSET index.registry :
          Written(g, Overwrite(generations[g].vectors, work))
    BY <1>0, <1>7, PersistSyncAdds
  <2>3. GenGoal
    BY <1>0, <1>5, <2>2, GenerationOfTypes, OverwriteRows DEF Generations, Types
  <2> QED BY <1>0, <1>7, <2>1, <2>3, BusyCallback
<1>8. ASSUME NEW m \in Models, Reconfigure(m) PROVE JobGoal /\ GenGoal
  BY <1>0, <1>8 DEF Reconfigure
<1>9. CASE SearchRebuild
  BY <1>0, <1>9 DEF SearchRebuild
<1> QED BY <1>1, <1>3, <1>4, <1>6, <1>7, <1>8, <1>9 DEF Foreign

LEMMA JobHoldsKept ==
  ASSUME IndexInv, Next
  PROVE  JobHolds'
<1>0. Types /\ Unique /\ JobHolds /\ CallbackHolds /\ DOMAIN generations = 1..Len(generations) /\ Len(generations) \in Nat
  BY DEF IndexInv, Types
<1>1. CASE Foreign
  <2>1. CASE job' = NoJob
    BY <2>1, NoJobIsAJob DEF JobHolds
  <2>2. CASE job' = job
    BY <1>0, <1>1, <2>2, ForeignLeaves DEF JobHolds
  <2> QED BY <1>1, <2>1, <2>2, ForeignLeaves
<1>2. CASE JobOnly
  <2>0. UNCHANGED <<generations, callback, index>>
    BY <1>2, JobOnlyFrame
  <2>1. CASE StartRebuild
    <3>1. PICK page : page = NextPage(index.registry, 0)
      OBVIOUS
    <3>2. job' = [NoJob EXCEPT !.pc = "create", !.model = configured, !.page = page]
      BY <2>1, <3>1 DEF StartRebuild
    <3>3. /\ job'.pc = "create" /\ job'.model = configured /\ job'.page = page
          /\ job'.generation = 0 /\ job'.after = 0
      BY <3>2 DEF NoJob
    <3>4. \A d \in page : Position(d.key) > 0
      BY <3>1, PageIsOfRows
    <3>5. callback[Locked].pc = "idle" /\ Len(generations) < MaxGenerations /\ configured \in Models
      BY <1>0, <2>1 DEF StartRebuild, LockedIdle, Types
    <3> QED BY <2>0, <3>3, <3>4, <3>5 DEF JobHolds
  <2>2. CASE ReadPage
    <3>1. PICK page : page = NextPage(index.registry, job.after)
      OBVIOUS
    <3>2. job' = [job EXCEPT !.pc = "persist", !.page = page] /\ job.pc = "read" /\ job \in Jobs
      BY <1>0, <2>2, <3>1 DEF ReadPage, Types
    <3>3. job'.pc = "persist" /\ job'.page = page /\ job'.generation = job.generation /\ job'.after = job.after
      BY <3>2 DEF Jobs
    <3>4. \A d \in page : Position(d.key) > job.after
      BY <3>1, PageIsOfRows
    <3> QED BY <1>0, <2>0, <3>2, <3>3, <3>4 DEF JobHolds
  <2>3. CASE ReadDataVersion \/ Validate
    <3>1. /\ job \in Jobs /\ job.pc \in {"read", "validate"}
          /\ job' = [job EXCEPT !.pc = "validate"] \/ job' = [job EXCEPT !.pc = "promote"]
      BY <1>0, <2>3 DEF ReadDataVersion, Validate, Types
    <3>2. job'.pc \in {"validate", "promote"} /\ job'.generation = job.generation
      BY <3>1 DEF Jobs
    <3> QED BY <1>0, <2>0, <3>1, <3>2 DEF JobHolds
  <2>4. CASE StartRepair
    <3>1. PICK page : page = index.registry \ generations[Active].vectors
      OBVIOUS
    <3>2. PICK orphans : orphans = KeysOf(generations[Active].vectors) \ KeysOf(index.registry)
      OBVIOUS
    <3>3. job' = [NoJob EXCEPT !.pc = "repair", !.generation = Active, !.page = page, !.orphans = orphans]
      BY <2>4, <3>1, <3>2 DEF StartRepair
    <3>4. job'.pc = "repair" /\ job'.generation = Active
      BY <3>3 DEF NoJob
    <3>5. Active \in ActiveGenerations /\ callback[Locked].pc = "idle"
      BY <1>0, <2>4, ActiveIsAGeneration DEF StartRepair, LockedIdle
    <3> QED BY <2>0, <3>4, <3>5 DEF JobHolds, ActiveGenerations
  <2>5. CASE RepairRefused
    BY <2>5, NoJobIsAJob DEF RepairRefused, JobHolds
  <2> QED BY <1>2, <2>1, <2>2, <2>3, <2>4, <2>5 DEF JobOnly
<1>3. CASE CreateGeneration
  <2>1. PICK n : n = Len(generations) + 1
    OBVIOUS
  <2>2. /\ job'.pc = "persist" /\ job'.generation = n /\ job'.after = 0 /\ job'.page = job.page
        /\ job.pc = "create" /\ UNCHANGED callback
    BY <1>0, <1>3, <2>1, CreateGenerationTypes
  <2>3. n \in DOMAIN generations' /\ generations'[n].state = "building" /\ generations'[n].vectors = {}
    BY <1>0, <1>3, <2>1, CreateGenerationTypes, GenerationBegun
  <2>4. callback[Locked].pc = "idle" /\ \A d \in job.page : Position(d.key) > 0
    BY <1>0, <2>2 DEF JobHolds
  <2> QED BY <2>2, <2>3, <2>4 DEF JobHolds
<1>4. CASE PersistBatch
  <2>1. PICK g \in DOMAIN generations : g = job.generation /\ generations[g].state = "building"
    BY <1>0, <1>4, PersistBatchAdds
  <2>2. PICK old \in SUBSET Rows : old = generations[g].vectors
    BY <1>0, GenerationOfTypes DEF Generations
  <2>3. PICK page \in SUBSET Rows : page = job.page
    BY <1>0 DEF Types, Jobs
  <2>4. PICK V \in SUBSET Rows : V = old \cup page
    OBVIOUS
  <2>5. Written(g, V)
    BY <1>0, <1>4, <2>1, <2>2, <2>3, <2>4, PersistBatchAdds
  <2>6. g \in DOMAIN generations' /\ generations'[g].state = "building" /\ generations'[g].vectors = V
    BY <1>0, <2>1, <2>5, VectorsWritten
  <2>7. PICK last : last = LastPosition(page, job.after)
    OBVIOUS
  <2>8. job'.pc = "read" /\ job'.generation = g /\ job'.after = last /\ job.pc = "persist" /\ UNCHANGED callback
    BY <1>0, <1>4, <2>1, <2>3, <2>7, PersistBatchTypes
  <2>9. /\ \A v \in old : Position(v.key) <= job.after
        /\ \A d \in page : Position(d.key) > job.after
        /\ callback[Locked].pc = "idle"
    BY <1>0, <2>1, <2>2, <2>3, <2>8 DEF JobHolds
  <2>10. job.after \in Nat
    BY <1>0 DEF Types, Jobs
  <2>11. /\ last \in Nat /\ \A d \in page : Position(d.key) <= last
         /\ page = {} => last = job.after
         /\ page # {} => \E d \in page : Position(d.key) = last
    BY <2>7, <2>10, LastIsGreatest
  <2>12. job.after <= last
    BY <2>9, <2>10, <2>11
  <2>13. \A v \in V : Position(v.key) <= last
    <3>1. \A v \in V : Position(v.key) \in Nat
      BY PositionsAreNumbers
    <3> QED BY <2>4, <2>9, <2>10, <2>11, <2>12, <3>1
  <2> QED BY <2>6, <2>8, <2>9, <2>13 DEF JobHolds
<1>5. CASE Promote \/ Rebuilding \/ DeleteOrphans
  <2>1. job' = NoJob
    BY <1>0, <1>5, PromoteTypes, RebuildingFails, DeleteOrphansTypes
  <2> QED BY <2>1, NoJobIsAJob DEF JobHolds
<1>6. CASE PersistRepairBatch
  <2>1. PICK g \in DOMAIN generations : g = job.generation /\ generations[g].state = "active"
          /\ \E work \in SUBSET index.registry : Written(g, Overwrite(generations[g].vectors, work))
    BY <1>0, <1>6, PersistRepairBatchAdds
  <2>2. g \in DOMAIN generations' /\ generations'[g].state = "active"
    BY <1>0, <2>1, VectorsWritten, GenerationOfTypes, OverwriteRows DEF Generations, Types
  <2>3. job'.pc = "repair" /\ job'.generation = g /\ job.pc = "repair" /\ UNCHANGED callback
    BY <1>0, <1>6, <2>1, PersistRepairBatchTypes
  <2> QED BY <1>0, <2>2, <2>3 DEF JobHolds
<1> QED BY <1>1, <1>2, <1>3, <1>4, <1>5, <1>6, NextCases DEF Foreign

\* The callbacks of other processes go on where they were.
LEMMA CallbackHoldsKept ==
  ASSUME IndexInv, Next
  PROVE  CallbackHolds'
<1> DEFINE Holds(c, n, some) ==
      /\ c.active \in 0..n
      /\ c.pc \in {"remove", "classify", "embed"} => c.active # 0
      /\ c.pc = "begin" => c.captured
      /\ c.captured => some
      /\ c.pc \in {"capture", "reconcile", "begin"} => c.after = 0
<1>0. /\ Types /\ Unique /\ JobHolds
      /\ \A q \in Procs : Holds(callback[q], Len(generations), ActiveGenerations # {})
  BY DEF IndexInv, CallbackHolds
<1>1. PICK some \in BOOLEAN : some = (ActiveGenerations # {})
  OBVIOUS
<1>2. PICK someAfter \in BOOLEAN : someAfter = (ActiveGenerations' # {})
  OBVIOUS
<1>3. Len(generations) \in Nat /\ Len(generations') \in Nat /\ Len(generations') >= Len(generations) /\ (some => someAfter)
  <2>1. CASE Quietly
    BY <1>0, <1>1, <1>2, <2>1, ActiveKept
  <2>2. CASE Promote
    <3>1. Len(generations') = Len(generations) /\ Len(generations) \in Nat
      BY <1>0, <2>2, GenerationPromoted DEF Types
    <3>2. job.generation \in ActiveGenerations'
      BY <1>0, <2>2, GenerationPromoted DEF ActiveGenerations
    <3> QED BY <1>2, <3>1, <3>2
  <2> QED BY <2>1, <2>2, QuietSteps
<1>4. SUFFICES \A q \in Procs : Holds(callback'[q], Len(generations'), someAfter)
  BY <1>2 DEF CallbackHolds
<1>5. ASSUME NEW q \in Procs PROVE Holds(callback[q], Len(generations'), someAfter)
  <2>1. Holds(callback[q], Len(generations), some)
    BY <1>0, <1>1
  <2>2. \A i \in 0..Len(generations) : i \in 0..Len(generations')
    BY <1>3
  <2> QED BY <1>3, <2>1, <2>2
<1>6. ASSUME NEW p \in Procs, \A q \in Procs : q # p => callback'[q] = callback[q],
             Holds(callback'[p], Len(generations'), someAfter)
      PROVE  \A q \in Procs : Holds(callback'[q], Len(generations'), someAfter)
  <2> HIDE DEF Holds
  <2> QED BY <1>5, <1>6
<1>7. Holds(NoCallback, Len(generations'), someAfter)
  BY <1>3, NoCallbackIsACallback
<1>8. CASE UNCHANGED callback
  BY <1>5, <1>8
<1>9. ASSUME NEW p \in Procs, NEW r \in Recordings, NEW v \in Versions[r], Edit(p, r, v)
      PROVE  \A q \in Procs : Holds(callback'[q], Len(generations'), someAfter)
  <2>1. Holds(callback'[p], Len(generations'), someAfter)
    BY <1>0, <1>3, <1>9, EditTypes
  <2> QED BY <1>0, <1>6, <1>9, <2>1, EditTypes
<1>10. ASSUME NEW p \in Procs, CallbackOnly(p)
       PROVE  \A q \in Procs : Holds(callback'[q], Len(generations'), someAfter)
  <2>1. PICK c \in Callbacks :
           /\ callback' = [callback EXCEPT ![p] = c]
           /\ Dropped(p, c) \/ Captured(p, c) \/ Begun(p, c) \/ Paged(p, c)
    BY <1>0, <1>10, CallbackOnlyTypes
  <2>2. callback'[p] = c /\ \A q \in Procs : q # p => callback'[q] = callback[q]
    BY <1>0, <2>1 DEF Types
  <2>3. Holds(callback[p], Len(generations'), someAfter)
    BY <1>5
  <2>4. Active # 0 => ActiveGenerations # {}
    BY <1>0, ActiveIsAGeneration
  <2>5. ActiveGenerations # {} => Active # 0
    BY <1>0, ActiveIsAGeneration
  <2>6. Active \in 0..Len(generations')
    BY <1>0, <1>3, ActiveIsAGeneration
  <2>7. Holds(c, Len(generations'), someAfter)
    <3>1. CASE Dropped(p, c)
      BY <1>7, <3>1 DEF Dropped
    <3>2. CASE Captured(p, c)
      BY <1>1, <1>3, <2>3, <2>4, <3>2 DEF Captured
    <3>3. CASE Begun(p, c)
      <4>1. callback[p].captured /\ some
        BY <1>0, <1>1, <3>3 DEF Begun
      <4>2. Active # 0
        BY <1>1, <2>5, <4>1
      <4> QED BY <2>3, <2>6, <3>3, <4>1, <4>2, <1>3 DEF Begun
    <3>4. CASE Paged(p, c)
      <4>1. /\ c.pc \in {"classify", "embed"} /\ c.captured = callback[p].captured
            /\ c.active = callback[p].active /\ callback[p].pc = "classify"
        BY <3>4 DEF Paged
      <4> QED BY <2>3, <4>1
    <3> QED BY <2>1, <3>1, <3>2, <3>3, <3>4
  <2> QED BY <1>6, <2>2, <2>7
<1>11. ASSUME NEW p \in Procs, Reconcile(p)
       PROVE  \A q \in Procs : Holds(callback'[q], Len(generations'), someAfter)
  <2>1. callback[p].pc = "reconcile" /\ callback[p] \in Callbacks
    BY <1>0, <1>11, ReconcileTypes DEF Types
  <2>2. CASE callback[p].captured
    <3>1. callback'[p] = [callback[p] EXCEPT !.pc = "begin"]
      BY <1>0, <1>11, <2>2, ReconcileTypes
    <3>2. /\ callback'[p].pc = "begin" /\ callback'[p].active = callback[p].active
          /\ callback'[p].captured = callback[p].captured /\ callback'[p].after = callback[p].after
      BY <2>1, <3>1 DEF Callbacks
    <3>3. Holds(callback'[p], Len(generations'), someAfter)
      BY <1>5, <2>1, <2>2, <3>2
    <3> QED BY <1>0, <1>6, <1>11, <3>3, ReconcileTypes
  <2>3. CASE ~callback[p].captured
    <3>1. callback'[p] = NoCallback /\ \A q \in Procs : q # p => callback'[q] = callback[q]
      BY <1>0, <1>11, <2>3, ReconcileTypes
    <3>2. Holds(callback'[p], Len(generations'), someAfter)
      BY <1>7, <3>1
    <3> QED BY <1>6, <3>1, <3>2
  <2> QED BY <2>2, <2>3
<1>12. ASSUME NEW p \in Procs, DeleteRemovedKeys(p)
       PROVE  \A q \in Procs : Holds(callback'[q], Len(generations'), someAfter)
  <2>1. callback[p].pc = "remove" /\ Go(p, "classify") /\ callback[p] \in Callbacks
    BY <1>0, <1>12 DEF DeleteRemovedKeys, In, Types
  <2>2. /\ callback'[p] = [callback[p] EXCEPT !.pc = "classify"]
        /\ \A q \in Procs : q # p => callback'[q] = callback[q]
    BY <1>0, <2>1, GoTypes
  <2>3. /\ callback'[p].pc = "classify" /\ callback'[p].active = callback[p].active
        /\ callback'[p].captured = callback[p].captured
    BY <2>1, <2>2 DEF Callbacks
  <2>4. Holds(callback'[p], Len(generations'), someAfter)
    BY <1>5, <2>1, <2>3
  <2> QED BY <1>6, <2>2, <2>4
<1>13. ASSUME NEW p \in Procs, PersistSync(p)
       PROVE  \A q \in Procs : Holds(callback'[q], Len(generations'), someAfter)
  <2>1. callback[p].pc = "embed" /\ callback[p] \in Callbacks
    BY <1>0, <1>13 DEF PersistSync, In, Types
  <2>2. /\ callback'[p] = [callback[p] EXCEPT !.pc = "classify", !.work = {}]
        /\ \A q \in Procs : q # p => callback'[q] = callback[q]
    BY <1>0, <1>13, PersistSyncTypes
  <2>3. /\ callback'[p].pc = "classify" /\ callback'[p].active = callback[p].active
        /\ callback'[p].captured = callback[p].captured
    BY <2>1, <2>2 DEF Callbacks
  <2>4. Holds(callback'[p], Len(generations'), someAfter)
    BY <1>5, <2>1, <2>3
  <2> QED BY <1>6, <2>2, <2>4
<1>14. ASSUME NEW m \in Models, Reconfigure(m) PROVE UNCHANGED callback
  BY <1>14 DEF Reconfigure
<1>15. CASE SearchRebuild
  BY <1>8, <1>15 DEF SearchRebuild
<1>16. CASE JobOnly \/ CreateGeneration \/ PersistBatch \/ Promote \/ Rebuilding \/ PersistRepairBatch \/ DeleteOrphans
  BY <1>0, <1>8, <1>16, JobOnlyFrame, CreateGenerationTypes, PersistBatchTypes, PromoteTypes, RebuildingFails,
     PersistRepairBatchTypes, DeleteOrphansTypes
<1> HIDE DEF Holds
<1> QED BY <1>8, <1>9, <1>10, <1>11, <1>12, <1>13, <1>14, <1>15, <1>16, NextCases

-----------------------------------------------------------------------------
(* What was validated *)

\* Another process that commits is noticed.
LEMMA ValidatedKept ==
  ASSUME IndexInv, Next
  PROVE  Validated'
<1>0. /\ Types /\ Unique /\ JobHolds /\ Validated
      /\ job.pc # "idle" => callback[Locked].pc = "idle"
  BY DEF IndexInv, JobHolds
<1>1. SUFFICES ASSUME job'.pc = "promote", ~moved'
               PROVE  Complete(job.generation)' 
  BY DEF Validated
<1>2. job' # NoJob
  BY <1>1, NoJobIsAJob
<1>3. ASSUME UNCHANGED <<source, index, generations, moved>>, job' = job PROVE Complete(job.generation)'
  BY <1>0, <1>1, <1>3 DEF Validated, Complete, IndexCurrent, Wanted
<1>4. ASSUME NEW p \in Procs, job' = job, callback[p].pc # "idle", Commit(p) PROVE FALSE
  BY <1>0, <1>1, <1>4 DEF Commit
<1>5. ASSUME NEW p \in Procs, NEW r \in Recordings, NEW v \in Versions[r], Edit(p, r, v) PROVE FALSE
  BY <1>1, <1>5 DEF Edit, Commit
<1>6. ASSUME NEW p \in Procs, CallbackOnly(p) PROVE Complete(job.generation)'
  BY <1>2, <1>3, <1>6, CallbackOnlyFrame
<1>7. ASSUME NEW p \in Procs, Reconcile(p) \/ DeleteRemovedKeys(p) \/ PersistSync(p) PROVE FALSE
  <2>1. callback[p].pc # "idle" /\ job' = job
    BY <1>2, <1>7, BusyCallback
  <2>2. Commit(p)
    BY <1>7 DEF Reconcile, DeleteRemovedKeys, PersistSync
  <2> QED BY <1>4, <2>1, <2>2
<1>8. ASSUME NEW m \in Models, Reconfigure(m) PROVE Complete(job.generation)'
  BY <1>3, <1>8 DEF Reconfigure
<1>9. CASE SearchRebuild
  BY <1>1, <1>9 DEF SearchRebuild, LockedIdle
<1>10. CASE JobOnly
  <2>1. CASE Validate
    <3>1. /\ job \in Jobs /\ job' = [job EXCEPT !.pc = "promote"] /\ Valid
          /\ UNCHANGED <<source, index, generations>>
      BY <1>0, <2>1 DEF Validate, quietJob, Types
    <3>2. job'.generation = job.generation
      BY <3>1 DEF Jobs
    <3>3. /\ UniqueKeys(index.registry)
          /\ \A d \in index.registry : d.recording \in DOMAIN source
      BY <1>0, RowsAreOfRecordings DEF Types, Unique
    <3>4. index.registry = Wanted(source) /\ FullTexts(Wanted(source)) \subseteq index.fts
      BY <3>1, <3>3, HealthyIsWanted DEF Valid
    <3>5. generations[job.generation].vectors = index.registry
      BY <3>1 DEF Valid
    <3> QED BY <3>1, <3>2, <3>4, <3>5 DEF Complete, IndexCurrent, Wanted
  <2>2. CASE StartRebuild
    BY <1>1, <2>2 DEF StartRebuild, NoJob
  <2>3. CASE ReadPage \/ ReadDataVersion
    BY <1>0, <1>1, <2>3 DEF ReadPage, ReadDataVersion, Jobs, Types
  <2>4. CASE StartRepair
    BY <1>1, <2>4 DEF StartRepair, NoJob
  <2>5. CASE RepairRefused
    BY <1>2, <2>5 DEF RepairRefused
  <2> QED BY <1>10, <2>1, <2>2, <2>3, <2>4, <2>5 DEF JobOnly
<1>11. CASE CreateGeneration \/ PersistBatch \/ PersistRepairBatch
  BY <1>0, <1>1, <1>11, CreateGenerationTypes, PersistBatchTypes, PersistRepairBatchTypes
<1>12. CASE Promote \/ Rebuilding \/ DeleteOrphans
  BY <1>0, <1>2, <1>12, PromoteTypes, RebuildingFails, DeleteOrphansTypes
<1> QED BY <1>5, <1>6, <1>7, <1>8, <1>9, <1>10, <1>11, <1>12, NextCases

-----------------------------------------------------------------------------
(* The keyword index *)

LEMMA CurrentIsNotStale ==
  ASSUME Types, IndexCurrent, NEW r \in Recordings
  PROVE  ~SearchStale(r)
<1>1. RowsOf(index.registry, r) = Expected(r, source[r])
  BY WantedRows DEF IndexCurrent, Types
<1>2. \A d \in Expected(r, source[r]) : d \in Wanted(source)
  BY DEF Wanted, Types
<1>3. \A d \in Expected(r, source[r]) : FullText(d) \in index.fts
  BY <1>2 DEF IndexCurrent, FullTexts
<1> QED BY <1>1, <1>3 DEF SearchStale

LEMMA HealthyIsCurrent ==
  ASSUME Types, Unique, Healthy(source, index)
  PROVE  IndexCurrent
<1>1. \A d \in index.registry : d.recording \in DOMAIN source
  BY RowsAreOfRecordings DEF Types
<1> QED BY <1>1, HealthyIsWanted DEF Unique, IndexCurrent

\* A recording that another one's reconciliation left alone is as stale as before.
LEMMA ReconcileLeavesOthers ==
  ASSUME Types, NEW p \in Procs, Reconcile(p), NEW q \in Recordings, q # Subject(p)
  PROVE  /\ RowsOf(index'.registry, q) = RowsOf(index.registry, q)
         /\ SearchStale(q)' => SearchStale(q)
<1> DEFINE r == Subject(p)
<1>0. /\ r \in Recordings /\ source[r] \in Versions[r] /\ source[q] \in Versions[q]
      /\ index' = Reconciled(r, source[r], index) /\ source' = source
      /\ Expected(r, source[r]) \subseteq Rows /\ Expected(q, source[q]) \subseteq Rows /\ index.registry \subseteq Rows
  BY ReconcileTypes, ExpectedAreRows DEF Reconcile, quietSync, Types
<1>1. \A d \in Rows : d.recording = q => d.key \notin KeysOf(Expected(r, source[r]))
  BY <1>0, KeysTellRecordings, ExpectedAreOfRecording DEF KeysOf
<1>2. \A d \in Rows : d.recording = q => d.key \notin KeysOf(RowsOf(index.registry, r))
  BY <1>0, KeysTellRecordings DEF KeysOf, RowsOf
<1>3. RowsOf(index'.registry, q) = RowsOf(index.registry, q)
  <2>1. \A d \in RowsOf(index.registry, q) : d.key \notin KeysOf(Expected(r, source[r]))
    BY <1>0, <1>1 DEF RowsOf
  <2> QED BY <1>0, <2>1, ReconciledLeavesOthers
<1>4. ASSUME NEW d \in Expected(q, source[q]), FullText(d) \in index.fts PROVE FullText(d) \in index'.fts
  <2>1. d \in Rows /\ d.recording = q /\ FullText(d).key = d.key
    BY <1>0, ExpectedAreOfRecording DEF FullText
  <2>2. FullText(d).key \notin KeysOf(Expected(r, source[r])) /\ FullText(d).key \notin KeysOf(RowsOf(index.registry, r))
    BY <1>1, <1>2, <2>1
  <2> QED BY <1>0, <1>4, <2>2, ReconciledKeepsTexts
<1> QED BY <1>0, <1>3, <1>4 DEF SearchStale

\* A failure is recorded for both indexes before the recording is reconciled.
LEMMA DroppedIsRecorded ==
  ASSUME Types, NEW p \in Procs, CallbackOnly(p), Finish(p), callback[p].pc \in {"capture", "reconcile"}
  PROVE  Subject(p) \in searchLost' \cap embeddingLost'
<1>1. callback'[p].pc = "idle"
  BY FinishTypes, NoCallbackIsACallback
<1>2. ReconcileFails(p) \/ Die(p) \/ Capture(p) \/ CaptureFails(p)
  BY DEF CallbackOnly, BeginSync, SkipSync, ClassifyPage, RefuseSync, SyncFails, In
<1>3. ~Capture(p) /\ ~CaptureFails(p)
  <2>1. \A c : callback' = [callback EXCEPT ![p] = c] => callback'[p] = c
    BY DEF Types
  <2>2. ASSUME CaptureFails(p) PROVE FALSE
    <3>1. Go(p, "reconcile") /\ callback[p].pc # "idle"
      BY <2>2 DEF CaptureFails, In
    <3>2. callback'[p] = [callback[p] EXCEPT !.pc = "reconcile"] /\ callback[p] \in Callbacks
      BY <3>1, GoTypes DEF Types
    <3> QED BY <1>1, <3>2 DEF Callbacks
  <2>3. ASSUME Capture(p) PROVE FALSE
    <3>1. PICK c : callback' = [callback EXCEPT ![p] = c] /\ (Dropped(p, c) \/ Captured(p, c) \/ Begun(p, c) \/ Paged(p, c))
      BY CallbackOnlyTypes
    <3>2. PICK keys : keys = IF Active = 0 THEN {} ELSE KeysOf(RowsOf(index.registry, Subject(p)))
      OBVIOUS
    <3>3. PICK captured : captured = (Active # 0)
      OBVIOUS
    <3>4. callback' = [callback EXCEPT ![p] = [callback[p] EXCEPT !.pc = "reconcile", !.captured = captured, !.keys = keys]]
      BY <2>3, <3>2, <3>3 DEF Capture
    <3>5. callback'[p] = [callback[p] EXCEPT !.pc = "reconcile", !.captured = captured, !.keys = keys]
      BY <2>1, <3>4
    <3>6. callback[p] \in Callbacks
      BY DEF Types
    <3> QED BY <1>1, <3>5, <3>6 DEF Callbacks
  <2> QED BY <2>2, <2>3
<1> QED BY <1>2, <1>3 DEF ReconcileFails, Die

\* The failed are not forgotten by steps that leave both indexes alone.
LEMMA LostStayLost ==
  ASSUME NEW p \in Procs, CallbackOnly(p)
  PROVE  /\ searchLost \subseteq searchLost' /\ embeddingLost \subseteq embeddingLost'
         /\ incompatible \subseteq incompatible' /\ withoutGeneration \subseteq withoutGeneration'
BY DEF CallbackOnly, Capture, CaptureFails, ReconcileFails, BeginSync, SkipSync, ClassifyPage, RefuseSync,
       SyncFails, Die, ghosts

LEMMA StaleExplainedKept ==
  ASSUME IndexInv, Next
  PROVE  StaleExplained'
<1>0. /\ Types /\ Unique /\ JobHolds /\ Validated /\ CallbackHolds
      /\ \A q \in Recordings : SearchStale(q) => Reconciling(q) \/ q \in searchLost \cap embeddingLost
  BY DEF IndexInv, StaleExplained
<1>1. SUFFICES ASSUME NEW q \in Recordings, SearchStale(q)'
               PROVE  Reconciling(q)' \/ q \in searchLost' \cap embeddingLost'
  BY DEF StaleExplained
<1> DEFINE Goal == Reconciling(q)' \/ q \in searchLost' \cap embeddingLost'
<1>2. ASSUME UNCHANGED <<source, index>> PROVE Reconciling(q) \/ q \in searchLost \cap embeddingLost
  BY <1>0, <1>1, <1>2 DEF SearchStale
<1>3. ASSUME UNCHANGED <<source, index, callback, searchLost, embeddingLost>> PROVE Goal
  <2>1. Reconciling(q)' = Reconciling(q)
    BY <1>3 DEF Reconciling, Subject
  <2> QED BY <1>2, <1>3, <2>1
\* Only the callback of p changes.
<1>4. ASSUME NEW p \in Procs, \A p2 \in Procs : p2 # p => callback'[p2] = callback[p2],
             Reconciling(q), Subject(p) # q \/ callback[p].pc \notin {"capture", "reconcile"}
      PROVE  Reconciling(q)'
  BY <1>4 DEF Reconciling, Subject
<1>5. ASSUME NEW p \in Procs, NEW r \in Recordings, NEW v \in Versions[r], Edit(p, r, v) PROVE Goal
  <2>1. /\ callback'[p].pc = "capture" /\ callback'[p].recording = r /\ callback[p].pc = "idle"
        /\ \A p2 \in Procs : p2 # p => callback'[p2] = callback[p2]
        /\ \A x \in Recordings : source'[x] = IF x = r THEN v ELSE source[x]
    BY <1>0, <1>5, EditTypes
  <2>2. UNCHANGED <<index, searchLost, embeddingLost>>
    BY <1>5 DEF Edit, ghosts
  <2>3. CASE q = r
    BY <2>1, <2>3 DEF Reconciling, Subject
  <2>4. CASE q # r
    <3>1. SearchStale(q)
      BY <1>1, <2>1, <2>2, <2>4 DEF SearchStale
    <3> QED BY <1>0, <1>4, <2>1, <2>2, <3>1
  <2> QED BY <2>3, <2>4
<1>6. ASSUME NEW p \in Procs, CallbackOnly(p) PROVE Goal
  <2>0. UNCHANGED <<source, index>>
    BY <1>6, CallbackOnlyFrame
  <2>1. PICK c \in Callbacks :
           /\ callback' = [callback EXCEPT ![p] = c]
           /\ Dropped(p, c) \/ Captured(p, c) \/ Begun(p, c) \/ Paged(p, c)
    BY <1>0, <1>6, CallbackOnlyTypes
  <2>2. callback'[p] = c /\ \A p2 \in Procs : p2 # p => callback'[p2] = callback[p2]
    BY <1>0, <2>1 DEF Types
  <2>3. CASE q \in searchLost \cap embeddingLost
    BY <1>6, <2>3, LostStayLost
  <2>4. CASE Reconciling(q)
    <3>1. CASE Subject(p) # q \/ callback[p].pc \notin {"capture", "reconcile"}
      BY <1>4, <2>2, <2>4, <3>1
    <3>2. CASE Subject(p) = q /\ callback[p].pc \in {"capture", "reconcile"}
      <4>1. CASE Dropped(p, c)
        BY <1>0, <1>6, <3>2, <4>1, DroppedIsRecorded DEF Dropped
      <4>2. CASE Captured(p, c)
        BY <2>2, <3>2, <4>2 DEF Captured, Reconciling, Subject
      <4>3. CASE Begun(p, c) \/ Paged(p, c)
        BY <3>2, <4>3 DEF Begun, Paged
      <4> QED BY <2>1, <4>1, <4>2, <4>3
    <3> QED BY <3>1, <3>2
  <2> QED BY <1>2, <2>0, <2>3, <2>4
<1>7. ASSUME NEW p \in Procs, Reconcile(p) PROVE Goal
  <2>1. CASE q = Subject(p)
    <3>1. index' = Reconciled(q, source[q], index) /\ source' = source
      BY <1>7, <2>1 DEF Reconcile, quietSync
    <3>2. RowsOf(index'.registry, q) = Expected(q, source[q]) /\ FullTexts(Expected(q, source[q])) \subseteq index'.fts
      BY <3>1, ReconciledIsExpected
    <3>3. \A d \in Expected(q, source[q]) : FullText(d) \in FullTexts(Expected(q, source[q]))
      BY DEF FullTexts
    <3>4. ~SearchStale(q)'
      BY <3>1, <3>2, <3>3 DEF SearchStale
    <3> QED BY <1>1, <3>4
  <2>2. CASE q # Subject(p)
    <3>1. SearchStale(q)
      BY <1>0, <1>1, <1>7, <2>2, ReconcileLeavesOthers
    <3>2. \A p2 \in Procs : p2 # p => callback'[p2] = callback[p2]
      BY <1>0, <1>7, ReconcileTypes
    <3>3. searchLost' = searchLost \ {Subject(p)} /\ embeddingLost' = embeddingLost
      BY <1>7 DEF Reconcile
    <3> QED BY <1>0, <1>4, <2>2, <3>1, <3>2, <3>3
  <2> QED BY <2>1, <2>2
<1>8. ASSUME NEW p \in Procs, DeleteRemovedKeys(p) \/ PersistSync(p) PROVE Goal
  <2>1. UNCHANGED <<source, index, searchLost, embeddingLost>> /\ callback[p].pc \in {"remove", "embed"}
    BY <1>8 DEF DeleteRemovedKeys, PersistSync, In, quietSync, ghosts
  <2>2. \A p2 \in Procs : p2 # p => callback'[p2] = callback[p2]
    <3>1. CASE DeleteRemovedKeys(p)
      <4>1. Go(p, "classify")
        BY <3>1 DEF DeleteRemovedKeys
      <4> QED BY <1>0, <2>1, <4>1, GoTypes
    <3>2. CASE PersistSync(p)
      BY <1>0, <3>2, PersistSyncTypes
    <3> QED BY <1>8, <3>1, <3>2
  <2> QED BY <1>2, <1>4, <2>1, <2>2
<1>9. ASSUME NEW m \in Models, Reconfigure(m) PROVE Goal
  BY <1>3, <1>9 DEF Reconfigure, ghosts
<1>10. CASE SearchRebuild
  <2>1. index'.registry = Wanted(source) /\ index'.fts = FullTexts(Wanted(source)) /\ source' = source
    BY <1>10 DEF SearchRebuild, Rebuilt, Wanted
  <2>2. RowsOf(index'.registry, q) = Expected(q, source[q])
    BY <1>0, <2>1, WantedRows DEF Types
  <2>3. \A d \in Expected(q, source[q]) : FullText(d) \in index'.fts
    BY <1>0, <2>1 DEF Wanted, FullTexts, Types
  <2> QED BY <1>1, <2>1, <2>2, <2>3 DEF SearchStale
<1>11. CASE JobOnly \/ CreateGeneration \/ PersistBatch \/ Rebuilding \/ PersistRepairBatch
  BY <1>0, <1>3, <1>11, JobOnlyFrame, CreateGenerationTypes, PersistBatchTypes, RebuildingFails,
     PersistRepairBatchTypes DEF ghosts
<1>12. ASSUME UNCHANGED <<source, index>>, IndexCurrent PROVE FALSE
  <2>1. SearchStale(q)
    BY <1>1, <1>12 DEF SearchStale
  <2> QED BY <1>0, <1>12, <2>1, CurrentIsNotStale
<1>13. CASE Promote
  BY <1>0, <1>12, <1>13, PromoteTypes DEF Validated, Complete
<1>14. CASE DeleteOrphans
  <2>1. UNCHANGED <<source, index, callback, searchLost>>
    BY <1>14, DeleteOrphansTypes
  <2>2. embeddingLost' = embeddingLost \/ Healthy(source, index)
    BY <1>14 DEF DeleteOrphans
  <2>3. CASE Healthy(source, index)
    BY <1>0, <1>12, <2>1, <2>3, HealthyIsCurrent
  <2> QED BY <1>3, <2>1, <2>2, <2>3
<1> QED BY <1>5, <1>6, <1>7, <1>8, <1>9, <1>10, <1>11, <1>13, <1>14, NextCases

-----------------------------------------------------------------------------
(* The vectors *)

\* A vector of a present document's content is neither overwritten nor removed.
LEMMA CoveredStays ==
  ASSUME Types, Unique, Active # 0, NEW d \in index.registry, d \in ActiveVectors,
         \/ generations' = generations
         \/ Adds \/ Removes \/ Abandons
         \/ \E model \in Models : Begins(model)
  PROVE  d \in generations'[Active].vectors
<1>0. Active \in DOMAIN generations /\ d \in generations[Active].vectors
  BY ActiveIsAGeneration DEF ActiveGenerations, ActiveVectors
<1>1. CASE generations' = generations
  BY <1>0, <1>1
<1>2. CASE Adds
  <2>1. PICK g \in DOMAIN generations : \E work \in SUBSET index.registry :
          Written(g, Overwrite(generations[g].vectors, work))
    BY <1>2 DEF Adds
  <2>2. PICK work \in SUBSET index.registry : Written(g, Overwrite(generations[g].vectors, work))
    BY <2>1
  <2>3. PICK V : V = Overwrite(generations[g].vectors, work)
    OBVIOUS
  <2>4. V \in SUBSET Rows
    BY <2>3, GenerationOfTypes, OverwriteRows DEF Generations, Types
  <2>5. d \in generations[g].vectors => d \in V
    <3>1. ASSUME d.key \in KeysOf(work) PROVE d \in work
      BY <3>1 DEF KeysOf, Unique, UniqueKeys
    <3> QED BY <2>3, <3>1 DEF Overwrite
  <2> QED BY <1>0, <2>2, <2>3, <2>4, <2>5, VectorsWritten
<1>3. CASE Removes
  <2>1. PICK g \in DOMAIN generations : \E V \in SUBSET generations[g].vectors :
          (\A v \in generations[g].vectors \ V : v.key \notin KeysOf(index.registry)) /\ Written(g, V)
    BY <1>3 DEF Removes
  <2>2. PICK V \in SUBSET generations[g].vectors :
          (\A v \in generations[g].vectors \ V : v.key \notin KeysOf(index.registry)) /\ Written(g, V)
    BY <2>1
  <2>3. V \in SUBSET Rows
    BY GenerationOfTypes DEF Generations
  <2>4. d \in generations[g].vectors => d \in V
    BY <2>2 DEF KeysOf
  <2> QED BY <1>0, <2>2, <2>3, <2>4, VectorsWritten
<1>4. CASE Abandons
  BY <1>0, <1>4, GenerationFailed
<1>5. ASSUME NEW model \in Models, Begins(model) PROVE d \in generations'[Active].vectors
  BY <1>0, <1>5, GenerationBegun
<1> QED BY <1>1, <1>2, <1>3, <1>4, <1>5

\* A callback that goes on has no document of a batch left behind: it is ahead, in the
\* batch, or has its vector.
LEMMA CallbackGoesOn ==
  ASSUME Types, Unique, CallbackHolds, NEW p \in Procs, CallbackOnly(p),
         NEW r \in Recordings, NEW d \in RowsOf(index.registry, r), WillCover(p, r, d)
  PROVE  \/ d \in ActiveVectors
         \/ r \in embeddingLost' \cup incompatible'
         \/ WillCover(p, r, d)'
<1>0. PICK c \in Callbacks :
         /\ callback' = [callback EXCEPT ![p] = c]
         /\ Dropped(p, c) \/ Captured(p, c) \/ Begun(p, c) \/ Paged(p, c)
  BY CallbackOnlyTypes
<1>1. callback'[p] = c /\ Active' = Active /\ Subject(p) = r
  <2>1. Active' = Active
    BY CallbackOnlyFrame, ActiveKept DEF Quietly
  <2> QED BY <1>0, <2>1 DEF Types, WillCover
<1>2. /\ d \in RowsOf(index.registry, r) /\ RowsOf(index.registry, r) \in SUBSET Rows /\ d \in Rows
      /\ Position(d.key) \in 1..Len(KeyOrder) /\ Position(d.key) \in Nat
      /\ UniqueKeys(RowsOf(index.registry, r))
      /\ callback[p].after \in Nat
  <2>1. d \in RowsOf(index.registry, r) /\ d \in index.registry /\ d \in Rows /\ RowsOf(index.registry, r) \in SUBSET Rows
    BY RowsOfAreRows DEF RowsOf, Types
  <2>2. UniqueKeys(RowsOf(index.registry, r))
    BY DEF Unique, UniqueKeys, RowsOf
  <2>3. callback[p].after \in Nat
    BY DEF Types, Callbacks
  <2> QED BY <2>1, <2>2, <2>3, PositionsAreNumbers
<1>3. CASE Captured(p, c)
  BY <1>1, <1>3 DEF Captured, WillCover, Subject
<1>4. CASE Begun(p, c)
  <2>1. callback[p].after = 0 /\ c.after = 0 /\ c.active = Active /\ c.pc \in {"remove", "classify"} /\ c.recording = r
    BY <1>1, <1>4 DEF Begun, CallbackHolds, Subject
  <2>2. Position(d.key) > 0
    BY <1>2, IndexAssumption
  <2> QED BY <1>1, <2>1, <2>2 DEF WillCover, Subject
<1>5. CASE Paged(p, c)
  <2>1. PICK page : page = NextPage(RowsOf(index.registry, r), callback[p].after)
    OBVIOUS
  <2>2. PICK work : work = page \ generations[callback[p].active].vectors
    OBVIOUS
  <2>3. /\ callback[p].pc = "classify" /\ page # {} /\ c.pc = (IF work = {} THEN "classify" ELSE "embed")
        /\ c.recording = r /\ c.active = callback[p].active /\ c.after = LastPosition(page, 0) /\ c.work = work
    BY <1>1, <1>5, <2>1, <2>2 DEF Paged, Subject
  <2>4. callback[p].active = Active /\ Position(d.key) > callback[p].after
    BY <2>3 DEF WillCover
  <2>5. page \in SUBSET Rows
    BY <1>2, <2>1, PageIsOfRows
  <2>6. PICK e \in page : Position(e.key) = LastPosition(page, 0)
    BY <2>3, <2>5, LastIsGreatest
  <2>7. CASE Position(d.key) > c.after
    BY <1>1, <2>3, <2>4, <2>7 DEF WillCover, Subject
  <2>8. CASE ~(Position(d.key) > c.after)
    <3>1. Position(e.key) \in Nat /\ Position(d.key) <= Position(e.key)
      BY <1>2, <2>3, <2>5, <2>6, <2>8, PositionsAreNumbers
    <3>2. d \in page
      BY <1>2, <2>1, <2>4, <3>1, PageSkipsNothing
    <3>3. CASE d \in ActiveVectors
      BY <3>3
    <3>4. CASE d \notin ActiveVectors
      <4>1. d \in work
        BY <2>2, <2>4, <3>2, <3>4 DEF ActiveVectors
      <4> QED BY <1>1, <2>3, <2>4, <4>1 DEF WillCover, Subject
    <3> QED BY <3>3, <3>4
  <2> QED BY <2>7, <2>8
<1>6. CASE Dropped(p, c)
  <2>1. callback[p].pc # "idle" /\ Finish(p) /\ c.pc = "idle"
    BY <1>6, NoCallbackIsACallback DEF Dropped, WillCover
  <2>2. ASSUME ClassifyPage(p) PROVE FALSE
    <3>1. callback[p].pc = "classify" /\ Position(d.key) > callback[p].after
      BY <2>2 DEF ClassifyPage, In, WillCover
    <3>2. PICK page : page = NextPage(RowsOf(index.registry, r), callback[p].after)
      OBVIOUS
    <3>3. page # {}
      BY <1>2, <3>1, <3>2, PageIsNotEmpty
    <3>4. PICK work : work = page \ generations[callback[p].active].vectors
      OBVIOUS
    <3>5. PICK last : last = LastPosition(page, 0)
      OBVIOUS
    <3>6. PICK pc \in {"classify", "embed"} : pc = IF work = {} THEN "classify" ELSE "embed"
      OBVIOUS
    <3>7. PICK c2 : c2 = [callback[p] EXCEPT !.after = last, !.work = work, !.pc = pc]
      OBVIOUS
    <3>8. callback' = [callback EXCEPT ![p] = c2]
      BY <1>1, <2>2, <3>2, <3>3, <3>4, <3>5, <3>6, <3>7 DEF ClassifyPage
    <3>9. callback[p] \in Callbacks /\ callback'[p] = c2
      BY <3>8 DEF Types
    <3>10. c2.pc = pc
      BY <3>7, <3>9 DEF Callbacks
    <3> QED BY <1>1, <2>1, <3>6, <3>9, <3>10
  <2>3. ASSUME BeginSync(p) PROVE FALSE
    <3>1. PICK gone : gone = callback[p].keys \ KeysOf(index.registry)
      OBVIOUS
    <3>2. PICK pc \in {"classify", "remove"} : pc = IF gone = {} THEN "classify" ELSE "remove"
      OBVIOUS
    <3>3. PICK c2 : c2 = [callback[p] EXCEPT !.active = Active, !.keys = gone, !.pc = pc]
      OBVIOUS
    <3>4. callback' = [callback EXCEPT ![p] = c2]
      BY <2>3, <3>1, <3>2, <3>3 DEF BeginSync
    <3>5. callback[p] \in Callbacks /\ callback'[p] = c2
      BY <3>4 DEF Types
    <3>6. c2.pc = pc
      BY <3>3, <3>5 DEF Callbacks
    <3> QED BY <1>1, <2>1, <3>2, <3>5, <3>6
  <2>4. callback[p].pc \in {"capture", "reconcile"} => r \in embeddingLost'
    BY <1>1, <2>1, DroppedIsRecorded
  <2>5. CallbackOnly(p) /\ callback[p].pc \notin {"capture", "reconcile"} =>
          SkipSync(p) \/ RefuseSync(p) \/ SyncFails(p) \/ Die(p) \/ ClassifyPage(p) \/ BeginSync(p)
    BY DEF CallbackOnly, Capture, CaptureFails, ReconcileFails, In
  <2>6. SkipSync(p) => r \in incompatible'
    BY <1>1 DEF SkipSync
  <2>7. RefuseSync(p) \/ SyncFails(p) \/ Die(p) => r \in embeddingLost'
    BY <1>1, <2>1 DEF RefuseSync, SyncFails, Die
  <2> QED BY <2>2, <2>3, <2>4, <2>5, <2>6, <2>7
<1> QED BY <1>0, <1>3, <1>4, <1>5, <1>6

\* A document that a callback other than p was to cover is still to be covered.
LEMMA OthersGoOn ==
  ASSUME NEW p \in Procs, \A q \in Procs : q # p => callback'[q] = callback[q], Active' = Active,
         NEW q \in Procs, q # p, NEW r, NEW d, WillCover(q, r, d)
  PROVE  WillCover(q, r, d)'
BY DEF WillCover, Subject

LEMMA CoveringKept ==
  ASSUME IndexInv, Next
  PROVE  Covering'
<1>0. Types /\ Unique /\ JobHolds /\ Validated /\ CallbackHolds /\ StaleExplained /\ Covering
  BY DEF IndexInv
<1> DEFINE Covered(r, d) == d \in ActiveVectors \/ r \in GivenUp \/ \E p \in Procs : WillCover(p, r, d)
<1>1. SUFFICES ASSUME Active' # 0, NEW r \in Recordings, NEW d \in RowsOf(index'.registry, r)
               PROVE  Covered(r, d)'
  BY DEF Covering
<1>2. CASE Promote
  <2>1. Complete(job.generation)
    BY <1>0, <1>2, PromoteTypes DEF Validated
  <2>2. PICK g \in DOMAIN generations : g = job.generation
    BY <1>0, <1>2, GenerationPromoted
  <2>3. generations'[g].vectors = index.registry /\ index' = index
    BY <1>0, <1>2, <2>1, <2>2, GenerationPromoted, PromoteTypes DEF Complete
  <2>4. ActiveGenerations' = {g}
    BY <1>0, <1>2, <2>2, GenerationPromoted DEF ActiveGenerations
  <2>5. Active' = g
    BY <2>4 DEF Active
  <2> QED BY <1>1, <2>3, <2>5 DEF ActiveVectors, RowsOf
<1>3. ASSUME Quietly
      PROVE  Active' = Active /\ Active # 0
  BY <1>0, <1>1, <1>3, ActiveKept
\* The vectors of documents that stay stay.
<1>4. ASSUME d \in index.registry, d \in ActiveVectors, ~Promote PROVE d \in ActiveVectors'
  <2>1. Active' = Active /\ Active # 0
    BY <1>3, <1>4, QuietSteps
  <2>2. \/ generations' = generations
        \/ Adds \/ Removes \/ Abandons
        \/ \E model \in Models : Begins(model)
    BY <1>4, IndexSteps
  <2>3. d \in generations'[Active].vectors
    BY <1>0, <1>4, <2>1, <2>2, CoveredStays
  <2> QED BY <2>1, <2>3 DEF ActiveVectors
\* A document that was there before was covered.
<1>5. ASSUME d \in RowsOf(index.registry, r), ~Promote PROVE Covered(r, d) /\ Active' = Active /\ Active # 0 /\ d \in index.registry
  BY <1>0, <1>3, <1>5, QuietSteps DEF Covering, RowsOf
<1>6. ASSUME UNCHANGED <<index, callback>>, ~Promote, GivenUp \subseteq GivenUp' PROVE Covered(r, d)'
  <2>1. Covered(r, d) /\ Active' = Active /\ d \in index.registry
    BY <1>1, <1>5, <1>6
  <2>2. \A p \in Procs : WillCover(p, r, d)' = WillCover(p, r, d)
    BY <1>6, <2>1 DEF WillCover, Subject
  <2> QED BY <1>4, <1>6, <2>1, <2>2
\* Only the callback of p has changed, to one that covers what it covered.
<1>7. ASSUME NEW p \in Procs, \A q \in Procs : q # p => callback'[q] = callback[q], d \in RowsOf(index.registry, r),
             ~Promote, r \in GivenUp => r \in GivenUp', WillCover(p, r, d) => Covered(r, d)'
      PROVE  Covered(r, d)'
  <2>1. Covered(r, d) /\ Active' = Active /\ d \in index.registry
    BY <1>5, <1>7
  <2>2. CASE d \in ActiveVectors
    BY <1>4, <1>7, <2>1, <2>2
  <2>3. CASE r \in GivenUp
    BY <1>7, <2>3
  <2>4. ASSUME NEW q \in Procs, q # p, WillCover(q, r, d) PROVE Covered(r, d)'
    BY <1>7, <2>1, <2>4, OthersGoOn
  <2>5. CASE \E q \in Procs : WillCover(q, r, d)
    BY <1>7, <2>4, <2>5
  <2> QED BY <2>1, <2>2, <2>3, <2>5
<1>8. ASSUME NEW p \in Procs, NEW s \in Recordings, NEW v \in Versions[s], Edit(p, s, v), ~Promote PROVE Covered(r, d)'
  <2>1. ~WillCover(p, r, d) /\ \A q \in Procs : q # p => callback'[q] = callback[q]
    BY <1>0, <1>8, EditTypes DEF WillCover
  <2>2. GivenUp' = GivenUp /\ index' = index
    BY <1>8 DEF Edit, ghosts, GivenUp
  <2> QED BY <1>1, <1>7, <1>8, <2>1, <2>2
<1>9. ASSUME NEW p \in Procs, CallbackOnly(p), ~Promote PROVE Covered(r, d)'
  <2>1. \A q \in Procs : q # p => callback'[q] = callback[q]
    BY <1>0, <1>9, CallbackOnlyTypes DEF Types
  <2>2. GivenUp \subseteq GivenUp'
    BY <1>9, LostStayLost DEF GivenUp
  <2>3. index' = index
    BY <1>9, CallbackOnlyFrame
  <2>4. ASSUME WillCover(p, r, d) PROVE Covered(r, d)'
    <3>1. \/ d \in ActiveVectors
          \/ r \in embeddingLost' \cup incompatible'
          \/ WillCover(p, r, d)'
      BY <1>0, <1>1, <1>9, <2>3, <2>4, CallbackGoesOn
    <3>2. d \in index.registry
      BY <1>1, <2>3 DEF RowsOf
    <3> QED BY <1>4, <1>9, <3>1, <3>2 DEF GivenUp
  <2> QED BY <1>1, <1>7, <1>9, <2>1, <2>2, <2>3, <2>4
<1>10. ASSUME NEW p \in Procs, Reconcile(p), ~Promote PROVE Covered(r, d)'
  <2>1. /\ \A q \in Procs : q # p => callback'[q] = callback[q]
        /\ callback[p].pc = "reconcile" /\ callback[p] \in Callbacks
        /\ callback'[p] = IF callback[p].captured THEN [callback[p] EXCEPT !.pc = "begin"] ELSE NoCallback
    BY <1>0, <1>10, ReconcileTypes DEF Types
  <2>2. /\ embeddingLost' = embeddingLost /\ incompatible' = incompatible
        /\ withoutGeneration' = IF callback[p].captured \/ Subject(p) \in embeddingLost THEN withoutGeneration
                                ELSE withoutGeneration \cup {Subject(p)}
    BY <1>10 DEF Reconcile
  <2>3. CASE r = Subject(p)
    <3>1. CASE callback[p].captured
      <4>1. callback'[p].pc = "begin" /\ callback'[p].recording = r
        BY <2>1, <2>3, <3>1 DEF Callbacks, Subject
      <4>2. WillCover(p, r, d)'
        BY <4>1 DEF WillCover, Subject
      <4> QED BY <4>2
    <3>2. CASE ~callback[p].captured
      BY <2>2, <2>3, <3>2 DEF GivenUp
    <3> QED BY <3>1, <3>2
  <2>4. CASE r # Subject(p)
    <3>1. d \in RowsOf(index.registry, r)
      BY <1>0, <1>1, <1>10, <2>4, ReconcileLeavesOthers
    <3>2. ~WillCover(p, r, d)
      BY <2>4 DEF WillCover
    <3>3. r \in GivenUp => r \in GivenUp'
      BY <2>2 DEF GivenUp
    <3> QED BY <1>7, <1>10, <2>1, <3>1, <3>2, <3>3
  <2> QED BY <2>3, <2>4
<1>11. ASSUME NEW p \in Procs, DeleteRemovedKeys(p), ~Promote PROVE Covered(r, d)'
  <2>1. callback[p].pc = "remove" /\ Go(p, "classify") /\ callback[p] \in Callbacks
    BY <1>0, <1>11 DEF DeleteRemovedKeys, In, Types
  <2>2. /\ callback'[p] = [callback[p] EXCEPT !.pc = "classify"]
        /\ \A q \in Procs : q # p => callback'[q] = callback[q]
    BY <1>0, <2>1, GoTypes
  <2>3. /\ callback'[p].pc = "classify" /\ callback'[p].active = callback[p].active
        /\ callback'[p].recording = callback[p].recording /\ callback'[p].after = callback[p].after
    BY <2>1, <2>2 DEF Callbacks
  <2>4. index' = index /\ GivenUp' = GivenUp
    BY <1>11 DEF DeleteRemovedKeys, ghosts, GivenUp
  <2>5. Active' = Active
    BY <1>1, <1>5, <1>11, <2>4
  <2>6. ASSUME WillCover(p, r, d) PROVE WillCover(p, r, d)'
    BY <2>1, <2>3, <2>5, <2>6 DEF WillCover, Subject
  <2> QED BY <1>1, <1>7, <1>11, <2>2, <2>4, <2>6
<1>12. ASSUME NEW p \in Procs, PersistSync(p), ~Promote PROVE Covered(r, d)'
  <2>1. callback[p].pc = "embed" /\ callback[p] \in Callbacks
    BY <1>0, <1>12 DEF PersistSync, In, Types
  <2>2. /\ callback'[p] = [callback[p] EXCEPT !.pc = "classify", !.work = {}]
        /\ \A q \in Procs : q # p => callback'[q] = callback[q]
    BY <1>0, <1>12, PersistSyncTypes
  <2>3. /\ callback'[p].pc = "classify" /\ callback'[p].active = callback[p].active
        /\ callback'[p].recording = callback[p].recording /\ callback'[p].after = callback[p].after
    BY <2>1, <2>2 DEF Callbacks
  <2>4. index' = index /\ GivenUp' = GivenUp
    BY <1>12 DEF PersistSync, ghosts, GivenUp
  <2>5. Active' = Active
    BY <1>1, <1>5, <1>12, <2>4
  <2>6. ASSUME WillCover(p, r, d) PROVE Covered(r, d)'
    <3>1. callback[p].active = Active /\ (Position(d.key) > callback[p].after \/ d \in callback[p].work) /\ callback[p].recording = r
      BY <2>1, <2>6 DEF WillCover, Subject
    <3>2. CASE Position(d.key) > callback[p].after
      <4>1. WillCover(p, r, d)'
        BY <2>3, <2>5, <3>1, <3>2 DEF WillCover, Subject
      <4> QED BY <4>1
    <3>3. CASE d \in callback[p].work
      <4>1. PICK g \in DOMAIN generations : g = Active /\ Written(g, Overwrite(generations[g].vectors, callback[p].work))
        BY <1>0, <1>12, <3>1, PersistSyncAdds
      <4>2. PICK V : V = Overwrite(generations[g].vectors, callback[p].work)
        OBVIOUS
      <4>3. V \in SUBSET Rows
        BY <1>0, <2>1, <4>2, GenerationOfTypes, OverwriteRows DEF Generations, Callbacks
      <4>4. generations'[g].vectors = V
        BY <1>0, <4>1, <4>2, <4>3, VectorsWritten
      <4>5. d \in V
        BY <3>3, <4>2 DEF Overwrite
      <4> QED BY <2>5, <4>1, <4>4, <4>5 DEF ActiveVectors
    <3> QED BY <3>1, <3>2, <3>3
  <2> QED BY <1>1, <1>7, <1>12, <2>2, <2>4, <2>6
<1>13. ASSUME NEW m \in Models, Reconfigure(m), ~Promote PROVE Covered(r, d)'
  BY <1>6, <1>13 DEF Reconfigure, ghosts, GivenUp
\* A row the rebuild brings is of a recording the index was wrong about.
<1>14. ASSUME SearchRebuild, ~Promote PROVE Covered(r, d)'
  <2>1. /\ index'.registry = Wanted(source)
        /\ UNCHANGED <<generations, callback, embeddingLost, incompatible, withoutGeneration>>
    BY <1>14 DEF SearchRebuild, Rebuilt, Wanted
  <2>2. RowsOf(index'.registry, r) = Expected(r, source[r])
    BY <1>0, <2>1, WantedRows DEF Types
  <2>3. CASE RowsOf(index.registry, r) = Expected(r, source[r])
    <3>1. d \in RowsOf(index.registry, r)
      BY <1>1, <2>2, <2>3
    <3>2. Covered(r, d) /\ Active' = Active
      BY <1>5, <1>14, <3>1
    <3>3. \A p \in Procs : WillCover(p, r, d)' = WillCover(p, r, d)
      BY <2>1, <3>2 DEF WillCover, Subject
    <3>4. ActiveVectors' = ActiveVectors /\ GivenUp' = GivenUp
      BY <2>1, <3>2 DEF ActiveVectors, GivenUp
    <3> QED BY <3>2, <3>3, <3>4
  <2>4. CASE RowsOf(index.registry, r) # Expected(r, source[r])
    <3>1. Reconciling(r) \/ r \in embeddingLost
      BY <1>0, <2>4 DEF StaleExplained, SearchStale
    <3>2. CASE r \in embeddingLost
      BY <2>1, <3>2 DEF GivenUp
    <3>3. CASE Reconciling(r)
      <4>1. PICK p \in Procs : Subject(p) = r /\ callback[p].pc \in {"capture", "reconcile"}
        BY <3>3 DEF Reconciling
      <4>2. WillCover(p, r, d)'
        BY <2>1, <4>1 DEF WillCover, Subject
      <4> QED BY <4>2
    <3> QED BY <3>1, <3>2, <3>3
  <2> QED BY <2>3, <2>4
<1>15. ASSUME JobOnly \/ CreateGeneration \/ PersistBatch \/ Rebuilding \/ PersistRepairBatch, ~Promote PROVE Covered(r, d)'
  <2>1. UNCHANGED <<index, callback, ghosts>>
    BY <1>0, <1>15, JobOnlyFrame, CreateGenerationTypes, PersistBatchTypes, RebuildingFails, PersistRepairBatchTypes
  <2> QED BY <1>6, <1>15, <2>1 DEF ghosts, GivenUp
<1>16. ASSUME DeleteOrphans, ~Promote PROVE Covered(r, d)'
  <2>1. UNCHANGED <<source, index, callback>>
    BY <1>16, DeleteOrphansTypes
  <2>2. PICK V : V = {v \in generations[job.generation].vectors : v.key \notin job.orphans \ KeysOf(index.registry)}
    OBVIOUS
  <2>3. \/ UNCHANGED <<embeddingLost, incompatible, withoutGeneration>>
        \/ V = index.registry
    BY <1>16, <2>2 DEF DeleteOrphans
  <2>4. CASE UNCHANGED <<embeddingLost, incompatible, withoutGeneration>>
    BY <1>6, <1>16, <2>1, <2>4 DEF GivenUp
  <2>5. CASE V = index.registry
    <3>1. PICK g \in DOMAIN generations : g = job.generation /\ generations[g].state = "active" /\ Written(g, V)
      BY <1>0, <1>16, <2>2, DeleteOrphansRemoves
    <3>2. g = Active /\ Active' = Active
      BY <1>0, <1>1, <1>5, <1>16, <2>1, <3>1, ActiveIsAGeneration DEF Unique, ActiveGenerations
    <3>3. generations'[g].vectors = V
      BY <1>0, <2>5, <3>1, VectorsWritten DEF Types
    <3> QED BY <1>1, <2>1, <2>5, <3>2, <3>3 DEF ActiveVectors, RowsOf
  <2> QED BY <2>3, <2>4, <2>5
<1> HIDE DEF Covered
<1> QED
  BY <1>2, <1>8, <1>9, <1>10, <1>11, <1>12, <1>13, <1>14, <1>15, <1>16, NextCases

-----------------------------------------------------------------------------
(* Every state *)

LEMMA StutterKeepsInv ==
  ASSUME IndexInv, UNCHANGED indexVars
  PROVE  IndexInv'
<1>0. /\ UNCHANGED <<source, index, generations, callback, job, moved, configured>>
      /\ UNCHANGED <<searchLost, embeddingLost, incompatible, withoutGeneration>>
  BY DEF indexVars, ghosts
<1>1. ActiveGenerations' = ActiveGenerations
  BY <1>0 DEF ActiveGenerations
<1>2. Active' = Active
  BY <1>1 DEF Active
<1>3. Types'
  BY <1>0 DEF IndexInv, Types
<1>4. Unique'
  BY <1>0, <1>1 DEF IndexInv, Unique
<1>5. JobHolds'
  BY <1>0 DEF IndexInv, JobHolds
<1>6. Validated'
  BY <1>0 DEF IndexInv, Validated, Complete, IndexCurrent, Wanted
<1>7. CallbackHolds'
  BY <1>0, <1>1 DEF IndexInv, CallbackHolds
<1>8. StaleExplained'
  BY <1>0 DEF IndexInv, StaleExplained, SearchStale, Reconciling, Subject
<1>9. Covering'
  BY <1>0, <1>2 DEF IndexInv, Covering, ActiveVectors, GivenUp, WillCover, Subject
<1> QED BY <1>3, <1>4, <1>5, <1>6, <1>7, <1>8, <1>9 DEF IndexInv

\* The invariant holds in every state.
THEOREM IndexInvariance == Spec => []IndexInv
<1>1. IndexInv /\ [Next]_indexVars => IndexInv'
  BY TypesKept, UniqueKept, JobHoldsKept, ValidatedKept, CallbackHoldsKept, StaleExplainedKept, CoveringKept,
     StutterKeepsInv DEF IndexInv
<1> QED BY <1>1, InitInv, PTL DEF Spec

\* The types; no two rows or vectors of a document, no two active generations
\* (embedding_index.py:1095-1133).
THEOREM IndexTypeCorrect == Spec => []TypeOK
<1>1. IndexInv => TypeOK
  <2> SUFFICES ASSUME IndexInv PROVE TypeOK
    OBVIOUS
  <2>0. Types /\ Unique /\ JobHolds /\ CallbackHolds
    BY DEF IndexInv
  <2>1. KeysOf(index.registry) \subseteq {KeyOrder[i] : i \in DOMAIN KeyOrder}
    BY <2>0, RowsKeysAreKeys DEF Types, Keys
  <2>2. Cardinality(ActiveGenerations) <= 1
    <3>1. CASE ActiveGenerations = {}
      BY <3>1, FS_EmptySet
    <3>2. CASE ActiveGenerations # {}
      <4>1. PICK g : g \in ActiveGenerations
        BY <3>2
      <4>2. ActiveGenerations = {g}
        BY <2>0, <4>1 DEF Unique
      <4>3. Cardinality({g}) = 1
        BY FS_Singleton
      <4> QED BY <4>2, <4>3
    <3> QED BY <3>1, <3>2
  <2>3. job.generation \in 0..Len(generations)
    <3>1. job.generation = 0 \/ job.generation \in DOMAIN generations
      BY <2>0 DEF JobHolds, Types, Jobs
    <3> QED BY <2>0, <3>1 DEF Types
  <2>4. \A g \in DOMAIN generations :
          /\ generations[g].model \in Models
          /\ generations[g].state \in {"building", "active", "superseded", "failed"}
          /\ \A v, w \in generations[g].vectors : v.key = w.key => v = w
    BY <2>0, GenerationOfTypes DEF Generations, Unique, UniqueKeys
  <2>5. \A d, e \in index.registry : d.key = e.key => d = e
    BY <2>0 DEF Unique, UniqueKeys
  <2> QED BY <2>0, <2>1, <2>2, <2>3, <2>4, <2>5 DEF TypeOK, Types, CallbackHolds
<1> QED BY <1>1, IndexInvariance, PTL

\* The keyword index of a recording differs from the database only before a callback or
\* after a recorded failure (search_sync.py:37-155).
THEOREM StaleRowsAreExplained == Spec => []SearchStaleExplained
<1>1. IndexInv => SearchStaleExplained
  BY DEF IndexInv, StaleExplained, SearchStaleExplained
<1> QED BY <1>1, IndexInvariance, PTL

\* A document lacks its vector only during a callback, or after a failure or a documented
\* no-op (embedding_sync.py:92-420).
THEOREM MissingVectorsAreExplained == Spec => []UncoveredExplained
<1>1. IndexInv => UncoveredExplained
  <2> SUFFICES ASSUME IndexInv, NEW r \in Recordings, Uncovered(r)
               PROVE  Syncing(r) \/ r \in embeddingLost \cup incompatible \cup withoutGeneration
    BY DEF UncoveredExplained
  <2>1. Active # 0 /\ \E d \in RowsOf(index.registry, r) : d \notin ActiveVectors
    BY DEF Uncovered, Usable
  <2>2. PICK d \in RowsOf(index.registry, r) : d \notin ActiveVectors
    BY <2>1
  <2>3. r \in GivenUp \/ \E p \in Procs : WillCover(p, r, d)
    BY <2>1, <2>2 DEF IndexInv, Covering
  <2> QED BY <2>3 DEF GivenUp, WillCover, Syncing
<1> QED BY <1>1, IndexInvariance, PTL

\* A generation that becomes active is a complete image of the database
\* (embedding_index.py:1051-1133).
THEOREM PromotionsAreCurrent == Spec => PromotedIsCurrent
<1>1. ASSUME IndexInv, [Next]_indexVars
      PROVE  [\A g \in DOMAIN generations :
                generations'[g].state = "active" /\ generations[g].state # "active" =>
                  generations'[g].vectors = UNION {Expected(r, source[r]) : r \in Recordings}]_indexVars
  <2> SUFFICES ASSUME Next, NEW g \in DOMAIN generations,
                      generations'[g].state = "active", generations[g].state # "active"
               PROVE  generations'[g].vectors = UNION {Expected(r, source[r]) : r \in Recordings}
    BY <1>1
  <2>0. Types /\ Unique /\ JobHolds /\ Validated
    BY <1>1 DEF IndexInv
  <2>1. CASE Quietly
    BY <2>0, <2>1, ActiveKept DEF ActiveGenerations
  <2>2. CASE Promote
    <3>1. g = job.generation /\ generations'[g].vectors = generations[g].vectors
      BY <2>0, <2>2, GenerationPromoted
    <3>2. Complete(g)
      BY <2>0, <2>2, <3>1, PromoteTypes DEF Validated
    <3> QED BY <2>0, <3>1, <3>2 DEF Complete, IndexCurrent, Wanted, Types
  <2> QED BY <1>1, <2>1, <2>2, QuietSteps
<1> QED BY <1>1, IndexInvariance, PTL DEF Spec, PromotedIsCurrent

-----------------------------------------------------------------------------
(* The generations implement GenerationStore *)

LEMMA AbstractIs ==
  ASSUME NEW gs
  PROVE  /\ DOMAIN Abstract(gs) = DOMAIN gs
         /\ \A g \in DOMAIN gs : Abstract(gs)[g] = [state |-> gs[g].state, vectors |-> gs[g].vectors]
         /\ \A g \in DOMAIN gs : Abstract(gs)[g].state = gs[g].state /\ Abstract(gs)[g].vectors = gs[g].vectors
         /\ Abstract(gs) = [g \in DOMAIN gs |-> Abstract(gs)[g]]
BY DEF Abstract

LEMMA AbstractWritten ==
  ASSUME Types, NEW g \in DOMAIN generations, NEW V \in SUBSET Rows, Written(g, V)
  PROVE  Abstract(generations') = [Abstract(generations) EXCEPT ![g].vectors = V]
<1>1. PICK a : a = Abstract(generations)
  OBVIOUS
<1>2. PICK b : b = Abstract(generations')
  OBVIOUS
<1>3. PICK c : c = [a EXCEPT ![g].vectors = V]
  OBVIOUS
<1>4. /\ DOMAIN generations' = DOMAIN generations
      /\ generations'[g].vectors = V
      /\ \A h \in DOMAIN generations :
           generations'[h].state = generations[h].state /\ (h # g => generations'[h] = generations[h])
  BY VectorsWritten
<1>5. /\ DOMAIN b = DOMAIN generations /\ b = [h \in DOMAIN b |-> b[h]]
      /\ \A h \in DOMAIN generations : b[h] = [state |-> generations[h].state, vectors |-> generations'[h].vectors]
  BY <1>2, <1>4, AbstractIs
<1>6. /\ DOMAIN a = DOMAIN generations /\ a = [h \in DOMAIN a |-> a[h]]
      /\ \A h \in DOMAIN generations : a[h] = [state |-> generations[h].state, vectors |-> generations[h].vectors]
  BY <1>1, AbstractIs
<1>7. /\ DOMAIN c = DOMAIN generations /\ c = [h \in DOMAIN c |-> c[h]]
      /\ c[g] = [a[g] EXCEPT !.vectors = V] /\ \A h \in DOMAIN generations : h # g => c[h] = a[h]
  BY <1>3, <1>6
<1>8. \A h \in DOMAIN generations : c[h] = b[h]
  <2>1. c[g] = [state |-> generations[g].state, vectors |-> V]
    BY <1>6, <1>7
  <2>2. b[g] = [state |-> generations[g].state, vectors |-> V]
    BY <1>4, <1>5
  <2>3. \A h \in DOMAIN generations : h # g => c[h] = b[h]
    BY <1>4, <1>5, <1>6, <1>7
  <2> QED BY <2>1, <2>2, <2>3
<1>9. b = c
  BY <1>5, <1>7, <1>8
<1> QED BY <1>1, <1>2, <1>3, <1>9

\* The vectors that a write adds, and those that it finds there already, are the present
\* rows of the generation after it.
LEMMA WriteIsOfPresentRows ==
  ASSUME NEW old, NEW work \in SUBSET index.registry, UniqueKeys(Overwrite(old, work)),
         NEW S, S = Overwrite(old, work) \cap index.registry
  PROVE  \A v : v \in Overwrite(old, work) <=> (v \in old /\ v.key \notin KeysOf(S)) \/ v \in S
<1> DEFINE V == Overwrite(old, work)
<1>1. KeysOf(work) \subseteq KeysOf(S)
  BY DEF Overwrite, KeysOf
<1>2. ASSUME NEW v \in V, v \notin S PROVE v \in old /\ v.key \notin KeysOf(S)
  <2>1. v \in old
    BY <1>2 DEF Overwrite
  <2>2. ASSUME NEW s \in S, s.key = v.key PROVE FALSE
    BY <1>2, <2>2 DEF UniqueKeys
  <2> QED BY <2>1, <2>2 DEF KeysOf
<1>3. ASSUME NEW v \in old, v.key \notin KeysOf(S) PROVE v \in V
  BY <1>1, <1>3 DEF Overwrite
<1> QED BY <1>2, <1>3

\* Every step is one of the abstract store, or leaves it alone.
LEMMA StoreSteps ==
  ASSUME IndexInv, IndexInv', [Next]_indexVars
  PROVE  [Store!StoreNext]_(Store!storeVars)
<1> DEFINE StoreRows == UNION {Expected(r, v) : r \in Recordings, v \in UNION {Versions[q] : q \in Recordings}}
<1> DEFINE store == Abstract(generations)
<1>0. /\ Types /\ Unique /\ JobHolds /\ Validated /\ Types' /\ Unique'
      /\ DOMAIN generations = 1..Len(generations) /\ Len(generations) \in Nat
  BY DEF IndexInv, Types
<1>1. /\ DOMAIN store = DOMAIN generations
      /\ \A g \in DOMAIN generations : store[g].state = generations[g].state /\ store[g].vectors = generations[g].vectors
      /\ \A g \in DOMAIN generations : store[g] = [state |-> generations[g].state, vectors |-> generations[g].vectors]
  BY AbstractIs
<1>2. \A g \in DOMAIN generations' : Abstract(generations')[g].vectors = generations'[g].vectors
  BY AbstractIs
<1>3. CASE generations' = generations
  <2>1. index'.registry \subseteq StoreRows
    BY <1>0 DEF Types, Rows
  <2> QED BY <1>3, <2>1 DEF Store!StoreNext, Store!Refresh
<1>4. CASE index' = index /\ Adds
  <2>1. PICK g \in DOMAIN generations : \E work \in SUBSET index.registry :
          generations[g].state \in {"building", "active"} /\ Written(g, Overwrite(generations[g].vectors, work))
    BY <1>4 DEF Adds
  <2>2. PICK work \in SUBSET index.registry : Written(g, Overwrite(generations[g].vectors, work))
    BY <2>1
  <2>3. PICK V : V = Overwrite(generations[g].vectors, work)
    OBVIOUS
  <2>4. V \in SUBSET Rows
    BY <1>0, <2>3, GenerationOfTypes, OverwriteRows DEF Generations, Types
  <2>5. generations'[g].vectors = V /\ g \in DOMAIN generations'
    BY <1>0, <2>2, <2>3, <2>4, VectorsWritten
  <2>6. UniqueKeys(V)
    BY <1>0, <2>5 DEF Unique
  <2>7. PICK S : S = V \cap index.registry
    OBVIOUS
  <2>8. V = {v \in generations[g].vectors : v.key \notin Store!Keys(S)} \cup S
    <3>1. PICK old : old = generations[g].vectors
      OBVIOUS
    <3>2. /\ work \in SUBSET index.registry /\ V = Overwrite(old, work)
          /\ UniqueKeys(Overwrite(old, work)) /\ S = Overwrite(old, work) \cap index.registry
      BY <2>3, <2>6, <2>7, <3>1
    <3>3. \A v : v \in Overwrite(old, work) <=> (v \in old /\ v.key \notin KeysOf(S)) \/ v \in S
      BY ONLY <3>2, WriteIsOfPresentRows
    <3>4. \A v : v \in V <=> (v \in old /\ v.key \notin KeysOf(S)) \/ v \in S
      BY <3>2, <3>3
    <3>5. V = {v \in old : v.key \notin Store!Keys(S)} \cup S
      BY <3>4 DEF Store!Keys, KeysOf
    <3> QED BY <3>1, <3>5
  <2>9. Abstract(generations') = [store EXCEPT ![g].vectors = V]
    BY <1>0, <2>2, <2>3, <2>4, AbstractWritten
  <2>10. S = Abstract(generations')[g].vectors \cap index.registry
    BY <1>2, <2>5, <2>7
  <2>11. Store!Write(g, S)
    BY <1>1, <1>4, <2>1, <2>8, <2>9 DEF Store!Write
  <2>12. CASE Abstract(generations') = store
    BY <1>4, <2>12 DEF Store!storeVars
  <2>13. CASE Abstract(generations') # store
    BY <1>1, <2>10, <2>11, <2>13 DEF Store!StoreNext
  <2> QED BY <2>12, <2>13
<1>5. CASE index' = index /\ Removes
  <2>1. PICK g \in DOMAIN generations : \E V \in SUBSET generations[g].vectors :
          (\A v \in generations[g].vectors \ V : v.key \notin KeysOf(index.registry)) /\ Written(g, V)
    BY <1>5 DEF Removes
  <2>2. PICK V \in SUBSET generations[g].vectors :
          (\A v \in generations[g].vectors \ V : v.key \notin KeysOf(index.registry)) /\ Written(g, V)
    BY <2>1
  <2>3. V \in SUBSET Rows
    BY <1>0, GenerationOfTypes DEF Generations
  <2>4. generations'[g].vectors = V /\ g \in DOMAIN generations'
    BY <1>0, <2>2, <2>3, VectorsWritten
  <2>5. PICK S : S = generations[g].vectors \ V
    OBVIOUS
  <2>6. V = generations[g].vectors \ S
    BY <2>5
  <2>7. Store!Keys(S) \cap Store!Keys(index.registry) = {}
    BY <2>2, <2>5 DEF Store!Keys, KeysOf
  <2>8. Abstract(generations') = [store EXCEPT ![g].vectors = V]
    BY <1>0, <2>2, <2>3, AbstractWritten
  <2>9. S = store[g].vectors \ Abstract(generations')[g].vectors
    BY <1>1, <1>2, <2>4, <2>5
  <2>10. Store!Remove(g, S)
    BY <1>1, <1>5, <2>6, <2>7, <2>8 DEF Store!Remove
  <2> QED BY <1>1, <2>9, <2>10 DEF Store!StoreNext
<1>6. CASE index' = index /\ Abandons
  <2>1. PICK g \in DOMAIN generations :
          generations[g].state = "building" /\ generations' = [generations EXCEPT ![g].state = "failed"]
    BY <1>6 DEF Abandons
  <2>2. PICK b : b = Abstract(generations')
    OBVIOUS
  <2>3. PICK c : c = [store EXCEPT ![g].state = "failed"]
    OBVIOUS
  <2>4. DOMAIN generations' = DOMAIN generations
        /\ \A h \in DOMAIN generations : h # g => generations'[h] = generations[h]
    BY <2>1
  <2>5. generations'[g].state = "failed" /\ generations'[g].vectors = generations[g].vectors
    <3>1. generations[g] \in Generations /\ generations'[g] = [generations[g] EXCEPT !.state = "failed"]
      BY <1>0, <2>1, GenerationOfTypes
    <3> QED BY <3>1 DEF Generations
  <2>6. /\ DOMAIN b = DOMAIN generations /\ b = [h \in DOMAIN b |-> b[h]]
        /\ \A h \in DOMAIN generations : b[h] = [state |-> generations'[h].state, vectors |-> generations'[h].vectors]
    BY <2>2, <2>4, AbstractIs
  <2>7. /\ DOMAIN c = DOMAIN generations /\ c = [h \in DOMAIN c |-> c[h]]
        /\ c[g] = [store[g] EXCEPT !.state = "failed"] /\ \A h \in DOMAIN generations : h # g => c[h] = store[h]
    BY <1>1, <2>3
  <2>8. c[g] = [state |-> "failed", vectors |-> generations[g].vectors]
    BY <1>1, <2>7
  <2>9. \A h \in DOMAIN generations : c[h] = b[h]
    BY <1>1, <2>4, <2>5, <2>6, <2>7, <2>8
  <2>10. b = c
    BY <2>6, <2>7, <2>9
  <2>11. Store!Fail(g)
    BY <1>1, <1>6, <2>1, <2>2, <2>3, <2>10 DEF Store!Fail
  <2> QED BY <1>1, <2>11 DEF Store!StoreNext
<1>7. CASE index' = index /\ \E model \in Models : Begins(model)
  <2>1. PICK model \in Models : Begins(model)
    BY <1>7
  <2>2. PICK n \in Nat : n = Len(generations)
    BY <1>0
  <2>3. /\ DOMAIN generations' = 1..(n + 1)
        /\ \A h \in DOMAIN generations : generations'[h] = generations[h]
        /\ generations'[n + 1].state = "building" /\ generations'[n + 1].vectors = {}
    BY <1>0, <2>1, <2>2, GenerationBegun
  <2>4. PICK e : e = [state |-> "building", vectors |-> {}]
    OBVIOUS
  <2>5. PICK a : a = store
    OBVIOUS
  <2>6. a = [h \in 1..n |-> a[h]]
    BY <1>0, <2>2, <2>5, AbstractIs
  <2>7. PICK T : T = {a[h] : h \in 1..n} \cup {e}
    OBVIOUS
  <2>8. a \in Seq(T) /\ Len(a) = n /\ e \in T
    <3>1. a \in [1..n -> T]
      BY <2>6, <2>7
    <3> QED BY <2>2, <2>7, <3>1
  <2>9. PICK c : c = Append(a, e)
    OBVIOUS
  <2>10. c \in Seq(T) /\ Len(c) = n + 1 /\ c[n + 1] = e /\ \A h \in 1..n : c[h] = a[h]
    BY <2>8, <2>9, AppendProperties
  <2>11. DOMAIN c = 1..(n + 1) /\ c = [h \in DOMAIN c |-> c[h]]
    BY <2>8, <2>10
  <2>12. PICK b : b = Abstract(generations')
    OBVIOUS
  <2>13. /\ DOMAIN b = 1..(n + 1) /\ b = [h \in DOMAIN b |-> b[h]]
         /\ \A h \in 1..(n + 1) : b[h] = [state |-> generations'[h].state, vectors |-> generations'[h].vectors]
    BY <2>3, <2>12, AbstractIs
  <2>14. \A h \in 1..(n + 1) : b[h] = c[h]
    <3>1. \A h \in 1..n : b[h] = c[h]
      <4> TAKE h \in 1..n
      <4>1. h \in DOMAIN generations /\ h \in 1..(n + 1)
        BY <1>0, <2>2
      <4> QED BY <1>1, <2>3, <2>5, <2>10, <2>13, <4>1
    <3>2. b[n + 1] = c[n + 1]
      <4>1. n + 1 \in 1..(n + 1)
        BY <2>2
      <4> QED BY <2>3, <2>4, <2>10, <2>13, <4>1
    <3> QED BY <2>2, <3>1, <3>2
  <2>15. b = c
    BY <2>11, <2>13, <2>14
  <2>16. Len(store) < MaxGenerations
    BY <2>1, <2>2, <2>5, <2>8 DEF Begins
  <2>17. Store!Create
    BY <1>7, <2>4, <2>5, <2>9, <2>12, <2>15, <2>16 DEF Store!Create
  <2> QED BY <2>17 DEF Store!StoreNext
<1>8. CASE index' = index /\ Promote
  <2>1. PICK g \in DOMAIN generations : g = job.generation /\ generations[g].state = "building"
    BY <1>0, <1>8, GenerationPromoted
  <2>2. generations[g].vectors = index.registry
    BY <1>0, <1>8, <2>1, PromoteTypes DEF Validated, Complete
  <2>3. /\ DOMAIN generations' = DOMAIN generations
        /\ \A h \in DOMAIN generations :
             /\ generations'[h].vectors = generations[h].vectors
             /\ generations'[h].state = IF h = g THEN "active"
                                        ELSE IF h \in ActiveGenerations THEN "superseded"
                                        ELSE generations[h].state
    BY <1>0, <1>8, <2>1, GenerationPromoted
  <2>4. Store!ActiveOnes = ActiveGenerations
    BY <1>1 DEF Store!ActiveOnes, ActiveGenerations
  <2>5. \A h \in DOMAIN generations :
          Abstract(generations')[h] =
            [store[h] EXCEPT !.state = IF h = g THEN "active" ELSE IF h \in ActiveGenerations THEN "superseded" ELSE store[h].state]
    <3> TAKE h \in DOMAIN generations
    <3>1. PICK s : s = IF h = g THEN "active" ELSE IF h \in ActiveGenerations THEN "superseded" ELSE generations[h].state
      OBVIOUS
    <3>2. Abstract(generations')[h] = [state |-> s, vectors |-> generations[h].vectors]
      BY <2>3, <3>1, AbstractIs
    <3>3. [store[h] EXCEPT !.state = s] = [state |-> s, vectors |-> generations[h].vectors]
      BY <1>1
    <3> QED BY <1>1, <3>1, <3>2, <3>3
  <2>6. Abstract(generations') = [h \in DOMAIN store |-> Abstract(generations')[h]]
    BY <1>1, <2>3, AbstractIs
  <2>7. Abstract(generations') =
          [h \in DOMAIN store |->
             [store[h] EXCEPT !.state = IF h = g THEN "active" ELSE IF h \in ActiveGenerations THEN "superseded" ELSE store[h].state]]
    BY <1>1, <2>5, <2>6
  <2>8. Store!Promote(g)
    BY <1>1, <1>8, <2>1, <2>2, <2>4, <2>7 DEF Store!Promote
  <2> QED BY <1>1, <2>8 DEF Store!StoreNext
<1>9. CASE UNCHANGED indexVars
  BY <1>9 DEF indexVars, Store!storeVars
<1>10. CASE Next /\ generations' # generations
  BY <1>4, <1>5, <1>6, <1>7, <1>8, <1>10, IndexSteps
<1> QED BY <1>3, <1>9, <1>10

LEMMA StoreStarts == Init => Store!StoreInit
<1> SUFFICES ASSUME Init PROVE Store!StoreInit
  OBVIOUS
<1>1. generations = <<>> /\ index.registry \subseteq Rows
  BY InitInv DEF Init, IndexInv, Types
<1>2. Abstract(generations) = <<>>
  <2>1. DOMAIN Abstract(generations) = {}
    BY <1>1, AbstractIs
  <2> QED BY <2>1, AbstractIs
<1> QED BY <1>1, <1>2 DEF Store!StoreInit, Rows

\* The embedding index keeps the promises of GenerationStore to the searches that read
\* it (embedding_index.py:901-1313, embedding_sync.py:92-420).
THEOREM GenerationsImplementStore == Spec => ImplementsStore
<1>1. IndexInv /\ IndexInv' /\ [Next]_indexVars => [Store!StoreNext]_(Store!storeVars)
  BY StoreSteps
<1> QED BY <1>1, StoreStarts, IndexInvariance, PTL DEF Spec, ImplementsStore, Store!StoreSpec
=============================================================================
