------------------------------- MODULE Search -------------------------------
(***************************************************************************)
(* Semantic search, hybrid search and Ask, against a database that others  *)
(* change.  A query takes no lock and opens no transaction: it reads in    *)
(* many steps, with a request over the network between them, and makes up  *)
(* for that with `PRAGMA data_version', taken before its first read and    *)
(* compared after its last.  Ask then asks the model, which takes its      *)
(* time, and reads once more whether what it was shown still stands.       *)
(* Every statement is a step, and others commit between any two of them.   *)
(*                                                                         *)
(* Ranking, and how lists are cut and fused, is in Selection.              *)
(* src/src/workflow/services/search_fusion.py, semantic_query.py, ask.py.  *)
(***************************************************************************)
EXTENDS Naturals, Sequences, FiniteSets

CONSTANTS
  Documents,         \* document keys: numbers, in the order of their keys
  Owner,             \* the recording of a document
  Metadata,          \* the documents with the title of a recording, never evidence
  Segments,          \* the documents of transcript segments; the others are summaries
  Section,           \* the topic section of the active layout a document is in, 0 if none
  MaxCommits         \* commits of other connections

Recordings == {Owner[d] : d \in Documents}
Sections == {Section[d] : d \in Documents} \ {0}
Texts == {0, 1}

ASSUME SearchAssumption ==
  /\ Documents \subseteq Nat \ {0} /\ IsFiniteSet(Documents) /\ DOMAIN Owner = Documents
  /\ DOMAIN Section = Documents /\ 0 \notin Recordings /\ Sections \cap Recordings = {}
  /\ Metadata \subseteq Documents /\ Segments \subseteq Documents \ Metadata
  /\ MaxCommits \in Nat

VARIABLES
  db,                \* what is committed
  op                 \* the query that is answered
vars == <<db, op>>

-----------------------------------------------------------------------------
(* The database *)

\* A document of the search index: what the source says, if it is in use.
Expected(base) == [d \in base.live |-> base.text[d]]

Empty == [d \in {} |-> 0]

\* What an answer supposes of the documents it cites: that the index has them in
\* the words the model was shown, and that neither they, nor their recording, nor
\* their section has gone out of use.  Each is the set of documents it is true of.
Nothing == [worded |-> {}, used |-> {}, recording |-> {}, section |-> {}]
Standing(items, base) ==
  [worded |-> {d \in DOMAIN items : d \in DOMAIN base.registry /\ base.registry[d] = items[d]},
   used |-> DOMAIN items \cap base.live,
   recording |-> {d \in DOMAIN items : Owner[d] \notin base.archived},
   section |-> {d \in DOMAIN items : Section[d] \notin base.archived}]
Joined(a, b) ==
  [worded |-> a.worded \cup b.worded, used |-> a.used \cup b.used,
   recording |-> a.recording \cup b.recording, section |-> a.section \cup b.section]

\* What a query has read so far.  stood, for the properties only: what has been
\* true of its evidence at one moment or another since the model answered.
NoQuery ==
  [pc |-> "idle", kind |-> "none", version |-> 0, todo |-> {}, generation |-> 0, embedded |-> FALSE,
   keyword |-> Empty, titles |-> Empty, total |-> 0, matched |-> {}, last |-> 0, row |-> 0,
   scope |-> FALSE, scored |-> Empty, excerpts |-> Empty, items |-> Empty, sections |-> {}, look |-> 1,
   chats |-> 0, stood |-> Nothing]

\* live: documents whose summary, segment or recording is in use; text: what
\* their sources say; archived: recordings and sections; registry: what is
\* indexed; generations: the vectors of the embedding generations, the last one
\* being active, by what was embedded.
Init ==
  /\ \E live \in SUBSET Documents :
       db = [live |-> live, text |-> [d \in Documents |-> 0], archived |-> {},
             registry |-> [d \in live |-> 0], generations |-> <<[d \in live |-> 0]>>, version |-> 0]
  /\ op = NoQuery

Active == Len(db.generations)
Vectors(g) == db.generations[g]
InScope(d) == Owner[d] \notin db.archived /\ Section[d] \notin db.archived

Overwrite(f, docs, g) == [d \in (DOMAIN f \ docs) \cup (docs \cap DOMAIN g) |-> IF d \in docs THEN g[d] ELSE f[d]]

\* The model has answered, and its evidence is looked at for the last time.
Closing == {"revalidate", "relook"}

\* A commit of another connection.
Commit(base) ==
  /\ db.version < MaxCommits
  /\ base # db
  /\ db' = [base EXCEPT !.version = db.version + 1]
  /\ op' = IF op.pc \in Closing THEN [op EXCEPT !.stood = Joined(@, Standing(op.items, base))] ELSE op

\* A summary, layout or transcript replaces another one, or tags are edited.
ChangeSource ==
  \E d \in Documents :
    \/ Commit([db EXCEPT !.live = @ \ {d}])
    \/ Commit([db EXCEPT !.live = @ \cup {d}])
    \/ Commit([db EXCEPT !.text[d] = 1 - @])
\* A recording, or a section.  A section no longer counts as archived when its
\* layout is replaced, which is the same to a query as that it is restored.
ArchiveOrRestore ==
  \E x \in Recordings \cup Sections :
    Commit([db EXCEPT !.archived = IF x \in @ THEN @ \ {x} ELSE @ \cup {x}])

DocumentsOf(r) == {d \in Documents : Owner[d] = r}

\* After the commit, or by a rebuild: the index, and then the active generation.
SyncIndex ==
  \E r \in Recordings : Commit([db EXCEPT !.registry = Overwrite(@, DocumentsOf(r), Expected(db))])
SyncVectors ==
  \E r \in Recordings :
    Commit([db EXCEPT !.generations[Active] = Overwrite(@, DocumentsOf(r), db.registry)])
\* A rebuild promotes a new generation.
Promote == Active = 1 /\ Commit([db EXCEPT !.generations = Append(@, db.registry)])

-----------------------------------------------------------------------------
(* The query *)

\* No results: a sanitized error, or the query has been answered.
Stop == op' = NoQuery
IsFirst(d, docs) == d \in docs /\ \A e \in docs : d <= e
Shown(docs, registry) == [d \in docs \cap DOMAIN registry |-> registry[d]]

\* data_version is taken before anything is read.
Begin(kind) ==
  /\ op.pc = "idle"
  /\ op' = [NoQuery EXCEPT !.pc = "health", !.kind = kind, !.version = db.version, !.todo = Documents]
  /\ UNCHANGED db

\* A source in use is indexed as it is, and nothing else is.
Sound(d) ==
  /\ d \in db.live <=> d \in DOMAIN db.registry
  /\ d \in db.live => db.registry[d] = db.text[d]

\* `build_status_report': every document, page by page.
SweepHealth ==
  /\ op.pc = "health"
  /\ \/ op.todo = {} /\ op' = [op EXCEPT !.pc = "setup"]
     \/ \E d \in op.todo :
          /\ IsFirst(d, op.todo)
          /\ IF Sound(d) THEN op' = [op EXCEPT !.todo = @ \ {d}] ELSE Stop
  /\ UNCHANGED db

\* `_validate_embedding_setup': the active generation is that of the configured model.
ReadGeneration ==
  /\ op.pc = "setup" /\ op' = [op EXCEPT !.pc = "recheck", !.generation = Active]
  /\ UNCHANGED db

\* `_require_unchanged_data_version': cheap, before the query is embedded.
Recheck ==
  /\ op.pc = "recheck"
  /\ IF db.version = op.version THEN op' = [op EXCEPT !.pc = "scope"] ELSE Stop
  /\ UNCHANGED db

AfterEmbedding == IF op.kind = "hybrid" THEN "keyword" ELSE "traverse"

\* `_scope_has_documents': an empty scope is not embedded, and scores nothing.
\* Ask leaves sections for later.
ReadScope ==
  /\ op.pc = "scope"
  /\ IF \E d \in DOMAIN db.registry : InScope(d) \/ (op.kind = "ask" /\ Owner[d] \notin db.archived)
     THEN op' = [op EXCEPT !.pc = "embed"]
     ELSE op' = [op EXCEPT !.pc = AfterEmbedding]
  /\ UNCHANGED db

\* One request over the network, which may fail, or answer with a wrong vector.
EmbedQuery ==
  /\ op.pc = "embed"
  /\ \/ op' = [op EXCEPT !.pc = AfterEmbedding, !.embedded = TRUE]
     \/ Stop
  /\ UNCHANGED db

\* `search_recordings': the candidates in one statement, and then the titles.
SelectCandidates ==
  /\ op.pc = "keyword"
  /\ op' = [op EXCEPT !.pc = "titles", !.keyword = Shown({d \in Documents : InScope(d)}, db.registry)]
  /\ UNCHANGED db
LookupTitles ==
  /\ op.pc = "titles"
  /\ LET found == {Owner[d] : d \in DOMAIN op.keyword}
     IN op' = [op EXCEPT !.pc = "traverse", !.titles = Shown({d \in Metadata : Owner[d] \in found}, db.registry)]
  /\ UNCHANGED db

\* `_iter_integrity_scored': the vectors are counted, and then compared with
\* the documents, page by page.
CountVectors ==
  /\ op.pc = "traverse"
  /\ op' = [op EXCEPT !.pc = "page", !.total = Cardinality(DOMAIN Vectors(op.generation)),
                       !.matched = {}, !.last = 0, !.scored = Empty]
  /\ UNCHANGED db

NextRows == {d \in DOMAIN db.registry : d > op.last}
ReadPage ==
  /\ op.pc = "page"
  /\ \E d \in NextRows :
       /\ IsFirst(d, NextRows)
       /\ op' = [op EXCEPT !.pc = "vectors", !.last = d, !.row = db.registry[d], !.scope = InScope(d)]
  /\ UNCHANGED db
\* No document is without its vector, or with the vector of another text.
ReadVectors ==
  /\ op.pc = "vectors"
  /\ LET d == op.last
         vectors == Vectors(op.generation)
     IN IF d \in DOMAIN vectors /\ vectors[d] = op.row
        THEN op' = [op EXCEPT !.pc = "page", !.matched = @ \cup {d},
                     !.scored = IF op.scope /\ op.embedded
                                THEN [e \in DOMAIN @ \cup {d} |-> IF e = d THEN op.row ELSE @[e]] ELSE @]
        ELSE Stop
  /\ UNCHANGED db
\* No vector is without its document; this is only counted.
EndTraversal ==
  /\ op.pc = "page" /\ NextRows = {}
  /\ IF Cardinality(op.matched) = op.total
     THEN op' = [op EXCEPT !.pc = IF op.kind = "ask" THEN "verify" ELSE "excerpts"]
     ELSE Stop
  /\ UNCHANGED db

\* `_fetch_excerpts': the text of the winners.
FetchExcerpts ==
  /\ op.pc = "excerpts"
  /\ op' = [op EXCEPT !.pc = "verify", !.excerpts = Shown(DOMAIN op.scored, db.registry)]
  /\ UNCHANGED db

\* Mutant: the embedding generation alone is compared.
VersionIgnored == TRUE
NothingCommitted == db.version = op.version

\* `_verify_final_state', after both of the components of a hybrid search: nothing
\* was committed, and, by another statement, the generation is still the active one.
VerifyVersion ==
  /\ op.pc = "verify"
  /\ IF NothingCommitted THEN op' = [op EXCEPT !.pc = "verify_generation"] ELSE Stop
  /\ UNCHANGED db
VerifyGeneration ==
  /\ op.pc = "verify_generation"
  /\ IF Active = op.generation
     THEN op' = [op EXCEPT !.pc = IF op.kind = "ask" THEN "rows" ELSE "results"]
     ELSE Stop
  /\ UNCHANGED db

Answer == op.pc = "results" /\ Stop /\ UNCHANGED db

-----------------------------------------------------------------------------
(* `ask_question', when its evidence has been retrieved *)

\* Segments and summaries only; without any, there is no question to the model.
Winners == DOMAIN op.scored \ Metadata

\* `_materialize_evidence': the rows of the winners.
ReadRows ==
  /\ op.pc = "rows"
  /\ IF Winners # {} /\ Winners \subseteq DOMAIN db.registry
     THEN op' = [op EXCEPT !.pc = "identify", !.items = Shown(Winners, db.registry)]
     ELSE Stop
  /\ UNCHANGED db

Cited == DOMAIN op.items
Summaries == Cited \ Segments
InUse(d) == d \in db.live /\ Owner[d] \notin db.archived

\* `_canonical_section_id_map': the summaries that are those of a section.
IdentifySections ==
  /\ op.pc = "identify"
  /\ op' = [op EXCEPT !.pc = "look",
              !.sections = {d \in Summaries : Section[d] # 0 /\ d \in db.live /\ Section[d] \notin db.archived}]
  /\ UNCHANGED db

\* `_validate_live_evidence', before the model is asked and again when it has
\* answered: five statements, one after the other.  The first that finds a piece
\* of evidence out of use is the end of the query.
Look(n, admitted) ==
  /\ op.pc \in {"look", "relook"} /\ op.look = n
  /\ IF ~admitted THEN Stop
     ELSE op' = IF n < 5 THEN [op EXCEPT !.look = n + 1]
                ELSE [op EXCEPT !.look = 1, !.pc = IF @ = "look" THEN "chat" ELSE "answered"]
  /\ UNCHANGED db

LookAtOwners == Look(1, \A d \in Cited \cap Segments : InUse(d))
\* The segments of a transcript are never removed.
LookAtSegments == Look(2, TRUE)
\* Mutant: an archived section does not count.
RangesIgnored == TRUE
OutsideArchivedRanges == \A d \in Cited \cap Segments : Section[d] \notin db.archived
LookAtArchivedRanges == Look(3, OutsideArchivedRanges)
LookAtSummaries == Look(4, \A d \in Summaries : Section[d] = 0 => InUse(d))
LookAtSectionSummaries ==
  Look(5, \A d \in Summaries : Section[d] # 0 =>
            InUse(d) /\ Section[d] \notin db.archived /\ d \in op.sections)

\* The model answers with citations, or what it answers is no valid answer: it is
\* asked once more.  Any other failure, and that nothing was found, is the end.
Chat ==
  /\ op.pc = "chat"
  /\ \/ op' = [op EXCEPT !.pc = "revalidate", !.chats = @ + 1, !.stood = Standing(op.items, db)]
     \/ op.chats = 0 /\ op' = [op EXCEPT !.chats = 1]
     \/ Stop
  /\ UNCHANGED db

\* Every row is there, and its content is what the model was shown.
RowsUnchanged == \A d \in Cited : d \in DOMAIN db.registry /\ db.registry[d] = op.items[d]

\* `_revalidate_evidence': the rows again, and then the second look.
RevalidateRows ==
  /\ op.pc = "revalidate"
  /\ IF RowsUnchanged THEN op' = [op EXCEPT !.pc = "relook"] ELSE Stop
  /\ UNCHANGED db

AnswerWithCitations == op.pc = "answered" /\ Stop /\ UNCHANGED db

-----------------------------------------------------------------------------
Next ==
  \/ ChangeSource \/ ArchiveOrRestore \/ SyncIndex \/ SyncVectors \/ Promote
  \/ \E kind \in {"semantic", "hybrid", "ask"} : Begin(kind)
  \/ SweepHealth \/ ReadGeneration \/ Recheck \/ ReadScope \/ EmbedQuery
  \/ SelectCandidates \/ LookupTitles
  \/ CountVectors \/ ReadPage \/ ReadVectors \/ EndTraversal \/ FetchExcerpts
  \/ VerifyVersion \/ VerifyGeneration
  \/ Answer
  \/ ReadRows \/ IdentifySections
  \/ LookAtOwners \/ LookAtSegments \/ LookAtArchivedRanges \/ LookAtSummaries \/ LookAtSectionSummaries
  \/ Chat \/ RevalidateRows \/ AnswerWithCitations

Spec == Init /\ [][Next]_vars

-----------------------------------------------------------------------------
(* Properties *)

\* Results are those of one state of the database, although no read of the query
\* was made together with another: at the moment the version is compared for the
\* last time, the index agrees with its sources and the vectors with the index,
\* everything that was scored, shown or taken for a title is what is committed, and
\* it is all there is in the scope.  (search_fusion.py:617-706, semantic_query.py:1452-1466)
ResultsAreOfOneState ==
  [][op.pc = "verify" /\ op'.pc = "verify_generation" =>
       LET here == Shown({d \in Documents : InScope(d)}, db.registry)
       IN /\ db.registry = Expected(db) /\ Vectors(Active) = db.registry
          /\ op.scored = here
          /\ op.kind # "ask" => op.excerpts = here
          /\ op.kind = "hybrid" =>
               /\ op.keyword = here
               /\ op.titles = Shown({m \in Metadata : \E d \in DOMAIN here : Owner[d] = Owner[m]}, db.registry)]_vars

\* What changed while the model wrote, and was not undone, keeps the answer back,
\* although the last look takes six statements: everything an answer supposes of a
\* document it cites was true at some moment after the model had answered - the words
\* it was shown, that it is in use, that neither its recording nor its section is
\* archived.  Not all at one moment: a commit between two of the statements can be
\* missed.  (ask.py:374-402, 404-510, 643-646)
AnswerEvidenceStands ==
  [][op.pc = "relook" /\ op'.pc = "answered" =>
       /\ Cited \subseteq op.stood.worded /\ Cited \subseteq op.stood.used
       /\ Cited \subseteq op.stood.recording /\ Cited \subseteq op.stood.section]_vars
=============================================================================
