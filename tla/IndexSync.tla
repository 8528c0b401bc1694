----------------------------- MODULE IndexSync -----------------------------
(***************************************************************************)
(* Keeping the two search indexes up to date with the database.            *)
(*                                                                         *)
(* A transaction that changes what is searched schedules a callback, which *)
(* runs in the same process after the commit: it reconciles the keyword    *)
(* index of the recording and then the vectors of its documents, which     *)
(* takes requests to a model.  Commands of the pipeline and the index      *)
(* commands (rebuild, repair) hold the pipeline lock and are one process   *)
(* here, `Locked'; tags are edited from the web by processes without it.   *)
(* src/src/workflow/services/search_sync.py, embedding_sync.py,            *)
(* embedding_index.py.                                                     *)
(***************************************************************************)
EXTENDS SearchIndex

CONSTANTS
  Recordings,
  Versions,         \* Versions[r]: what the database may say about recording r
  Editors,          \* processes that edit tags without the pipeline lock
  Locked,           \* the process that holds the pipeline lock
  Models,           \* embedding models the configuration may name
  KeyOrder,         \* all document keys, in the order of the database
  BatchSize,        \* embedding.batch_size
  MaxEdits, MaxFailures, MaxGenerations, MaxReconfigurations

Procs == Editors \cup {Locked}

\* A document key is made of primary keys: it belongs to one recording, and to one
\* document of it at a time.
ASSUME IndexAssumption ==
  /\ Locked \notin Editors /\ Models # {}
  /\ \A r \in Recordings : Versions[r] # {}
  /\ \A r, q \in Recordings : \A v \in Versions[r], w \in Versions[q] :
       \A d \in Expected(r, v), e \in Expected(q, w) :
         d.key = e.key => r = q /\ (v = w => d = e)
  /\ Len(KeyOrder) \in Nat /\ DOMAIN KeyOrder = 1..Len(KeyOrder)
  /\ \A i, j \in DOMAIN KeyOrder : KeyOrder[i] = KeyOrder[j] => i = j
  /\ \A r \in Recordings : \A v \in Versions[r] :
       KeysOf(Expected(r, v)) \subseteq {KeyOrder[i] : i \in DOMAIN KeyOrder}
  /\ BatchSize \in Nat \ {0}
  /\ MaxEdits \in Nat /\ MaxFailures \in Nat
  /\ MaxGenerations \in Nat /\ MaxReconfigurations \in Nat

VARIABLES
  source,           \* source[r]: the rows of the database
  index,            \* [registry, fts]
  generations,      \* sequence of [model, state, vectors]; a vector is named by
                    \* the registry row (its content hash) it was computed from
  callback,         \* callback[p]: the callback p is in
  job,              \* the rebuild or repair of the embedding index in progress
  moved,            \* data_version has changed since the job read it
  configured,       \* embedding.model
  edits, failures, reconfigurations,   \* counters, for the bounds only
  searchLost,       \* recordings whose reconciliation failed or died
  embeddingLost,    \* recordings whose embedding sync failed, died or was suppressed
  incompatible,     \* recordings not synced because the active generation has another model
  withoutGeneration \* recordings whose callback found no active generation at its start

counters == <<edits, failures, reconfigurations>>
ghosts == <<searchLost, embeddingLost, incompatible, withoutGeneration>>
indexVars == <<source, index, generations, callback, job, moved, configured, counters, ghosts>>

-----------------------------------------------------------------------------
(* State *)

NoCallback == [pc |-> "idle", recording |-> "none", keys |-> {}, captured |-> FALSE,
               active |-> 0, after |-> 0, work |-> {}]
NoJob == [pc |-> "idle", model |-> "none", generation |-> 0, prior |-> 0, after |-> 0,
          page |-> {}, snapshot |-> {}, orphans |-> {}]

Position(key) == CHOOSE i \in DOMAIN KeyOrder : KeyOrder[i] = key
LastPosition(rows, default) ==
  IF rows = {} THEN default
  ELSE CHOOSE i \in {Position(d.key) : d \in rows} : \A d \in rows : Position(d.key) <= i

\* The next rows in the order of their keys, at most a batch.
NextPage(rows, after) ==
  LET rest == {d \in rows : Position(d.key) > after}
  IN {d \in rest : Cardinality({e \in rest : Position(e.key) < Position(d.key)}) < BatchSize}

ActiveGenerations == {g \in DOMAIN generations : generations[g].state = "active"}
Active == IF ActiveGenerations = {} THEN 0 ELSE CHOOSE g \in ActiveGenerations : TRUE

\* `_active_is_compatible': the generation read earlier is still the active one.
StillActive(g) == generations[g].state = "active"

LockedIdle == callback[Locked].pc = "idle" /\ job.pc = "idle"

\* PRAGMA data_version changes with the commits of other connections only.
Commit(p) == moved' = IF p = Locked THEN moved ELSE TRUE

Init ==
  /\ source \in [Recordings -> UNION {Versions[r] : r \in Recordings}]
  /\ \A r \in Recordings : source[r] \in Versions[r]
  \* what an earlier process left: the documents of another version of a recording, or
  \* a full text table that lost its rows and kept one of no document
  /\ \/ \E old \in [Recordings -> UNION {Versions[r] : r \in Recordings}] :
          /\ \A r \in Recordings : old[r] \in Versions[r]
          /\ index = Rebuilt(old)
     \/ index = [registry |-> Rebuilt(source).registry, fts |-> {OrphanText}]
  /\ generations = <<>>
  /\ callback = [p \in Procs |-> NoCallback]
  /\ job = NoJob
  /\ moved = FALSE
  /\ configured = CHOOSE m \in Models : TRUE
  /\ edits = 0 /\ failures = 0 /\ reconfigurations = 0
  /\ searchLost = {r \in Recordings :
                     \/ RowsOf(index.registry, r) # Expected(r, source[r])
                     \/ \E d \in Expected(r, source[r]) : FullText(d) \notin index.fts}
  /\ embeddingLost = searchLost
  /\ incompatible = {} /\ withoutGeneration = {}

-----------------------------------------------------------------------------
(* The database changes *)

\* One transaction that changes what is searched of r, by the pipeline or, tags only,
\* from the web; `schedule_recording_sync' is called inside it.
Edit(p, r, v) ==
  /\ edits < MaxEdits /\ edits' = edits + 1
  /\ callback[p].pc = "idle"
  /\ p = Locked => job.pc = "idle"
  /\ v # source[r]
  /\ p \in Editors => v = [source[r] EXCEPT !.tags = v.tags]
  /\ source' = [source EXCEPT ![r] = v]
  /\ callback' = [callback EXCEPT ![p] = [NoCallback EXCEPT !.pc = "capture", !.recording = r]]
  /\ Commit(p)
  /\ UNCHANGED <<index, generations, job, configured, failures, reconfigurations, ghosts>>

\* While no generation is active only StartRebuild reads the configuration, so a change
\* then is another initial choice or the same as one right after the promotion.
Reconfigure(m) ==
  /\ Active # 0
  /\ reconfigurations < MaxReconfigurations /\ reconfigurations' = reconfigurations + 1
  /\ m # configured /\ configured' = m
  /\ UNCHANGED <<source, index, generations, callback, job, moved, edits, failures, ghosts>>

-----------------------------------------------------------------------------
(* The callback after the commit *)

In(p, pc) == callback[p].pc = pc
Go(p, pc) == callback' = [callback EXCEPT ![p].pc = pc]
Finish(p) == callback' = [callback EXCEPT ![p] = NoCallback]
Fails == failures < MaxFailures /\ failures' = failures + 1
Subject(p) == callback[p].recording

quietSync == <<source, job, configured, edits, reconfigurations>>

\* The keys the recording has now, to know later which of them were removed.
Capture(p) ==
  /\ In(p, "capture")
  /\ callback' = [callback EXCEPT ![p].pc = "reconcile", ![p].captured = (Active # 0),
                    ![p].keys = IF Active = 0 THEN {}
                                ELSE KeysOf(RowsOf(index.registry, Subject(p)))]
  /\ UNCHANGED <<quietSync, index, generations, moved, failures, ghosts>>

CaptureFails(p) ==
  /\ In(p, "capture") /\ Fails /\ Go(p, "reconcile")
  /\ embeddingLost' = embeddingLost \cup {Subject(p)}
  /\ UNCHANGED <<quietSync, index, generations, moved, searchLost, incompatible, withoutGeneration>>

\* One transaction; it computes the documents from the rows it finds.
Reconcile(p) ==
  LET r == Subject(p) IN
  /\ In(p, "reconcile")
  /\ index' = Reconciled(r, source[r], index)
  /\ IF callback[p].captured THEN Go(p, "begin") ELSE Finish(p)
  /\ Commit(p)
  /\ searchLost' = searchLost \ {r}
  /\ withoutGeneration' = IF callback[p].captured \/ r \in embeddingLost THEN withoutGeneration
                          ELSE withoutGeneration \cup {r}
  /\ UNCHANGED <<quietSync, generations, failures, embeddingLost, incompatible>>

\* No embedding sync follows.
ReconcileFails(p) ==
  /\ In(p, "reconcile") /\ Fails /\ Finish(p)
  /\ searchLost' = searchLost \cup {Subject(p)}
  /\ embeddingLost' = embeddingLost \cup {Subject(p)}
  /\ UNCHANGED <<quietSync, index, generations, moved, incompatible, withoutGeneration>>

\* The active generation, the configuration and the captured keys that are gone.
BeginSync(p) ==
  LET gone == callback[p].keys \ KeysOf(index.registry) IN
  /\ In(p, "begin")
  /\ generations[Active].model = configured
  /\ callback' = [callback EXCEPT ![p].active = Active, ![p].keys = gone,
                    ![p].pc = IF gone = {} THEN "classify" ELSE "remove"]
  /\ UNCHANGED <<quietSync, index, generations, moved, failures, ghosts>>

SkipSync(p) ==
  /\ In(p, "begin")
  /\ generations[Active].model # configured
  /\ Finish(p)
  /\ incompatible' = incompatible \cup {Subject(p)}
  /\ UNCHANGED <<quietSync, index, generations, moved, failures, searchLost, embeddingLost,
                 withoutGeneration>>

\* Vectors of removed documents go, unless the document is back.
DeleteRemovedKeys(p) ==
  LET g == callback[p].active
      gone == callback[p].keys \ KeysOf(index.registry)
  IN /\ In(p, "remove")
     /\ StillActive(g)
     /\ generations' = [generations EXCEPT ![g].vectors =
                          {v \in generations[g].vectors : v.key \notin gone}]
     /\ Go(p, "classify")
     /\ Commit(p)
     /\ UNCHANGED <<quietSync, index, failures, ghosts>>

\* The rows of the next page that have no vector, or one of other content.
ClassifyPage(p) ==
  LET page == NextPage(RowsOf(index.registry, Subject(p)), callback[p].after)
      work == page \ generations[callback[p].active].vectors
  IN /\ In(p, "classify")
     /\ IF page = {} THEN Finish(p)
        ELSE callback' = [callback EXCEPT ![p].after = LastPosition(page, 0), ![p].work = work,
                            ![p].pc = IF work = {} THEN "classify" ELSE "embed"]
     /\ UNCHANGED <<quietSync, index, generations, moved, failures, ghosts>>

\* Mutant: the rows and the generation are not read again after the request.
WriteUnchecked(g, work) == TRUE

\* What the transaction that writes vectors reads again: the rows are as they were when
\* they were sent to the model, and the generation is still active.
Unchanged(g, work) == StillActive(g) /\ work \subseteq index.registry

Overwrite(vectors, work) == {v \in vectors : v.key \notin KeysOf(work)} \cup work

\* After the request: one transaction writes the vectors.
PersistSync(p) ==
  LET g == callback[p].active IN
  /\ In(p, "embed")
  /\ Unchanged(g, callback[p].work)
  /\ generations' = [generations EXCEPT ![g].vectors = Overwrite(@, callback[p].work)]
  /\ callback' = [callback EXCEPT ![p].pc = "classify", ![p].work = {}]
  /\ Commit(p)
  /\ UNCHANGED <<quietSync, index, failures, ghosts>>

\* The generation was superseded, or a row changed, during the request.
RefuseSync(p) ==
  /\ \/ In(p, "remove") /\ ~StillActive(callback[p].active)
     \/ In(p, "embed") /\ ~Unchanged(callback[p].active, callback[p].work)
  /\ Finish(p)
  /\ embeddingLost' = embeddingLost \cup {Subject(p)}
  /\ UNCHANGED <<quietSync, index, generations, moved, failures, searchLost, incompatible,
                 withoutGeneration>>

\* The request or the database fails.
SyncFails(p) ==
  /\ callback[p].pc \in {"begin", "remove", "classify", "embed"} /\ Fails
  /\ Finish(p)
  /\ embeddingLost' = embeddingLost \cup {Subject(p)}
  /\ UNCHANGED <<quietSync, index, generations, moved, searchLost, incompatible, withoutGeneration>>

CallbackStep(p) ==
  \/ Capture(p) \/ Reconcile(p) \/ BeginSync(p) \/ SkipSync(p) \/ DeleteRemovedKeys(p)
  \/ ClassifyPage(p) \/ PersistSync(p) \/ RefuseSync(p)

\* The process dies: no further step of its callback or job; a generation under
\* construction stays as it is.
Die(p) ==
  /\ callback[p].pc # "idle" \/ (p = Locked /\ job.pc # "idle")
  /\ Fails /\ Finish(p)
  /\ job' = IF p = Locked THEN NoJob ELSE job
  /\ searchLost' = IF callback[p].pc \in {"capture", "reconcile"}
                   THEN searchLost \cup {Subject(p)} ELSE searchLost
  /\ embeddingLost' = IF callback[p].pc = "idle" THEN embeddingLost
                      ELSE embeddingLost \cup {Subject(p)}
  /\ UNCHANGED <<source, index, generations, moved, configured, edits, reconfigurations,
                 incompatible, withoutGeneration>>

-----------------------------------------------------------------------------
(* brain search-index rebuild *)

SearchRebuild ==
  /\ LockedIdle
  /\ index # Rebuilt(source)
  /\ index' = Rebuilt(source)
  /\ searchLost' = {}
  /\ UNCHANGED <<source, generations, callback, job, moved, configured, counters, embeddingLost,
                 incompatible, withoutGeneration>>

-----------------------------------------------------------------------------
(* brain embedding-index rebuild *)

quietJob == <<source, index, callback, configured, counters, searchLost>>
unsynced == <<embeddingLost, incompatible, withoutGeneration>>

StartRebuild ==
  /\ LockedIdle
  /\ Len(generations) < MaxGenerations
  /\ Healthy(source, index)
  /\ job' = [NoJob EXCEPT !.pc = "create", !.model = configured,
               !.page = NextPage(index.registry, 0)]
  /\ UNCHANGED <<quietJob, generations, moved, unsynced>>

\* The first request has answered.
CreateGeneration ==
  /\ job.pc = "create"
  /\ generations' = Append(generations, [model |-> job.model, state |-> "building", vectors |-> {}])
  /\ job' = [job EXCEPT !.pc = "persist", !.prior = Active, !.generation = Len(generations) + 1]
  /\ UNCHANGED <<quietJob, moved, unsynced>>

PersistBatch ==
  /\ job.pc = "persist"
  /\ job.page \subseteq index.registry
  /\ generations' = [generations EXCEPT ![job.generation].vectors = @ \cup job.page]
  /\ job' = [job EXCEPT !.pc = "read", !.snapshot = @ \cup job.page, !.page = {},
               !.after = LastPosition(job.page, job.after)]
  /\ UNCHANGED <<quietJob, moved, unsynced>>

\* A request follows.
ReadPage ==
  LET page == NextPage(index.registry, job.after) IN
  /\ job.pc = "read" /\ page # {}
  /\ job' = [job EXCEPT !.pc = "persist", !.page = page]
  /\ UNCHANGED <<quietJob, generations, moved, unsynced>>

ReadDataVersion ==
  /\ job.pc = "read" /\ NextPage(index.registry, job.after) = {}
  /\ job' = [job EXCEPT !.pc = "validate"]
  /\ moved' = FALSE
  /\ UNCHANGED <<quietJob, generations, unsynced>>

Valid ==
  /\ Healthy(source, index)
  /\ index.registry = job.snapshot
  /\ generations[job.generation].vectors = job.snapshot

Validate ==
  /\ job.pc = "validate" /\ Valid
  /\ job' = [job EXCEPT !.pc = "promote"]
  /\ UNCHANGED <<quietJob, generations, moved, unsynced>>

\* Mutant: without the comparison of data_version.
PromotableUnguarded == Active = job.prior

Promotable == ~moved /\ Active = job.prior

\* Mutant: the old generation stays active.
PromotedBeside(g) == [generations EXCEPT ![g].state = "active"]

Promoted(g) ==
  [h \in DOMAIN generations |->
     [generations[h] EXCEPT !.state = IF h = job.prior THEN "superseded"
                                      ELSE IF h = g THEN "active" ELSE @]]

\* One transaction that takes the write lock before it reads data_version again.
Promote ==
  /\ job.pc = "promote" /\ Promotable
  /\ generations' = Promoted(job.generation)
  /\ job' = NoJob
  /\ embeddingLost' = {} /\ incompatible' = {} /\ withoutGeneration' = {}
  /\ UNCHANGED <<quietJob, moved>>

\* The generation is marked as failed, unless marking it fails, too.
RebuildStops(marked) ==
  /\ job' = NoJob
  /\ generations' = IF marked /\ job.generation # 0
                    THEN [generations EXCEPT ![job.generation].state = "failed"]
                    ELSE generations
  /\ UNCHANGED <<source, index, callback, moved, configured, edits, reconfigurations, ghosts>>

RebuildRefused ==
  /\ \/ job.pc = "persist" /\ ~(job.page \subseteq index.registry)
     \/ job.pc = "validate" /\ ~Valid
     \/ job.pc = "promote" /\ ~Promotable
  /\ RebuildStops(TRUE)
  /\ UNCHANGED failures

RebuildFails ==
  /\ job.pc \in {"create", "persist", "read", "validate", "promote"} /\ Fails
  /\ \E marked \in BOOLEAN : RebuildStops(marked)

-----------------------------------------------------------------------------
(* brain embedding-index repair *)

StartRepair ==
  /\ LockedIdle
  /\ Healthy(source, index)
  /\ Active # 0
  /\ generations[Active].model = configured
  /\ generations[Active].vectors # index.registry
  /\ LET vectors == generations[Active].vectors IN
     job' = [NoJob EXCEPT !.pc = "repair", !.generation = Active,
               !.page = index.registry \ vectors,
               !.orphans = KeysOf(vectors) \ KeysOf(index.registry)]
  /\ UNCHANGED <<quietJob, generations, moved, unsynced>>

\* A request, then the transaction that writes.
PersistRepairBatch ==
  LET work == NextPage(job.page, 0) IN
  /\ job.pc = "repair" /\ job.page # {}
  /\ Unchanged(job.generation, work)
  /\ generations' = [generations EXCEPT ![job.generation].vectors = Overwrite(@, work)]
  /\ job' = [job EXCEPT !.page = @ \ work]
  /\ UNCHANGED <<quietJob, moved, unsynced>>

\* The orphans go; the command succeeds only if the status is then healthy.
DeleteOrphans ==
  LET gone == job.orphans \ KeysOf(index.registry)
      vectors == {v \in generations[job.generation].vectors : v.key \notin gone}
      healthy == Healthy(source, index) /\ vectors = index.registry
  IN /\ job.pc = "repair" /\ job.page = {}
     /\ generations' = [generations EXCEPT ![job.generation].vectors = vectors]
     /\ job' = NoJob
     /\ embeddingLost' = IF healthy THEN {} ELSE embeddingLost
     /\ incompatible' = IF healthy THEN {} ELSE incompatible
     /\ withoutGeneration' = IF healthy THEN {} ELSE withoutGeneration
     /\ UNCHANGED <<quietJob, moved>>

\* A row changed during the request; the active generation is left active.
RepairRefused ==
  /\ job.pc = "repair" /\ job.page # {}
  /\ ~Unchanged(job.generation, NextPage(job.page, 0))
  /\ job' = NoJob
  /\ UNCHANGED <<quietJob, generations, moved, unsynced>>

JobStep ==
  \/ CreateGeneration \/ PersistBatch \/ ReadPage \/ ReadDataVersion \/ Validate \/ Promote
  \/ RebuildRefused \/ PersistRepairBatch \/ DeleteOrphans \/ RepairRefused

Next ==
  \/ \E p \in Procs : \/ \E r \in Recordings : \E v \in Versions[r] : Edit(p, r, v)
                      \/ CallbackStep(p)
                      \/ CaptureFails(p) \/ ReconcileFails(p) \/ SyncFails(p) \/ Die(p)
  \/ \E m \in Models : Reconfigure(m)
  \/ SearchRebuild \/ StartRebuild \/ StartRepair
  \/ JobStep \/ RebuildFails

Spec == Init /\ [][Next]_indexVars

\* A callback and a job that have begun go on: requests to the model have a timeout.
FairSpec == Spec /\ \A p \in Procs : WF_indexVars(CallbackStep(p))

-----------------------------------------------------------------------------
(* Properties *)

TypeOK ==
  /\ \A r \in Recordings : source[r] \in Versions[r]
  /\ KeysOf(index.registry) \subseteq {KeyOrder[i] : i \in DOMAIN KeyOrder}
  /\ \A d, e \in index.registry : d.key = e.key => d = e
  /\ \A g \in DOMAIN generations :
       /\ generations[g].model \in Models
       /\ generations[g].state \in {"building", "active", "superseded", "failed"}
       /\ \A v, w \in generations[g].vectors : v.key = w.key => v = w
  /\ Cardinality(ActiveGenerations) <= 1
  /\ job.generation \in 0..Len(generations)
  /\ \A p \in Procs : callback[p].active \in 0..Len(generations)

Reconciling(r) == \E p \in Procs : Subject(p) = r /\ callback[p].pc \in {"capture", "reconcile"}
Syncing(r) == \E p \in Procs : Subject(p) = r

SearchStale(r) ==
  \/ RowsOf(index.registry, r) # Expected(r, source[r])
  \/ \E d \in Expected(r, source[r]) : FullText(d) \notin index.fts

ActiveVectors == generations[Active].vectors
Usable == Active # 0 /\ generations[Active].model = configured

\* A document of r has no vector of its present content in the active generation.
Uncovered(r) == Usable /\ ~(RowsOf(index.registry, r) \subseteq ActiveVectors)

\* The keyword index of a recording differs from the database only while a callback of
\* the recording has yet to reconcile it, or after one failed or died, which the log or
\* `status' tell: whatever two processes commit and reconcile in between.
SearchStaleExplained == \A r \in Recordings : SearchStale(r) => Reconciling(r) \/ r \in searchLost

\* A document lacks a vector of its content only during a callback, or after a failure or
\* one of the two documented no-ops, however callbacks, rebuilds and repairs overlap.
UncoveredExplained ==
  \A r \in Recordings : Uncovered(r) =>
    Syncing(r) \/ r \in embeddingLost \cup incompatible \cup withoutGeneration

\* A generation that becomes active is at that moment a complete image of the database,
\* although it was computed page by page while the database changed.
PromotedIsCurrent ==
  [][\A g \in DOMAIN generations :
       generations'[g].state = "active" /\ generations[g].state # "active" =>
         generations'[g].vectors = UNION {Expected(r, source[r]) : r \in Recordings}]_indexVars

Abstract(gs) == [g \in DOMAIN gs |-> [state |-> gs[g].state, vectors |-> gs[g].vectors]]

Store == INSTANCE GenerationStore
  WITH Rows <- UNION {Expected(r, v) : r \in Recordings, v \in UNION {Versions[q] : q \in Recordings}},
       rows <- index.registry,
       store <- Abstract(generations)

\* The generations behave as the searches that read them rely on.
ImplementsStore == Store!StoreSpec

Current(r) ==
  /\ SearchStale(r) => r \in searchLost
  /\ Uncovered(r) => r \in embeddingLost \cup incompatible \cup withoutGeneration

\* Both indexes of a recording become current again after every change, unless a callback
\* fails or dies or is a documented no-op.
Converges == \A r \in Recordings : ~Current(r) ~> Current(r)
=============================================================================
