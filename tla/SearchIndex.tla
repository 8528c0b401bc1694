---------------------------- MODULE SearchIndex ----------------------------
(***************************************************************************)
(* The keyword index of the library: which documents the database calls    *)
(* for, which rows of the registry are legitimate, what reconciling one    *)
(* recording and rebuilding everything do to the registry and to the full  *)
(* text table, and what `brain search-index status' reports.               *)
(* src/src/workflow/services/search_index.py, search_sync.py.              *)
(*                                                                         *)
(* Operators only: they are functions of the database rows of a recording  *)
(* (a `source') and of the index.  A content hash is the hash of a framed  *)
(* record of all fields of a document and is represented by the document.  *)
(***************************************************************************)
EXTENDS Integers, FiniteSets, Sequences

(***************************************************************************)
(* The rows of one recording that are searched:                            *)
(*   transcripts  set of [id, active, segments]; segments is a sequence of *)
(*                texts, one of which may be Blank                         *)
(*   default      the default output language of the active transcript     *)
(*   summaries    set of [id, transcript, section, active, language, text];*)
(*                section is 0 for a summary of the whole recording        *)
(*   canonical    the section ids that pass the shared predicate on the    *)
(*                active layout, with the transcript each belongs to       *)
(*   tags         set of [name, section, active]                           *)
(*   file         the preferred name of its audio files                    *)
(***************************************************************************)
Blank == ""
NoId == 0

Document(key, r, t, s, language, title, text, aux) ==
  [key |-> key, recording |-> r, transcript |-> t, summary |-> s,
   language |-> language, title |-> title, text |-> text, aux |-> aux]

ActiveTranscripts(src) == {t \in src.transcripts : t.active}
ActiveIds(src) == {t.id : t \in ActiveTranscripts(src)}

-----------------------------------------------------------------------------
(* The documents the database calls for *)

SegmentDocuments(r, src) ==
  UNION {{Document(<<"segment", t.id, n>>, r, t.id, NoId, "", "", t.segments[n], {}) :
            n \in {i \in DOMAIN t.segments : t.segments[i] # Blank}} :
         t \in ActiveTranscripts(src)}

Live(src, s) == s.active /\ s.transcript \in ActiveIds(src)
WholeSummaries(src) == {s \in src.summaries : Live(src, s) /\ s.section = NoId}
SectionSummaries(src) ==
  {s \in src.summaries : Live(src, s) /\ [id |-> s.section, transcript |-> s.transcript] \in src.canonical}

TagNames(src, section) == {g.name : g \in {h \in src.tags : h.active /\ h.section = section}}

\* Title of the recording: the summary in the default language, else any other
\* summary of the whole recording (the first by ordinal), else a file name.
DisplayTitle(src) ==
  LET whole == WholeSummaries(src)
      default == {s \in whole : s.language = src.default}
      Pick(S) == CHOOSE s \in S : \A o \in S : s.id <= o.id
  IN CASE default # {} -> Pick(default).text
       [] default = {} /\ whole # {} -> Pick(whole).text
       [] OTHER -> src.file

RecordingDocument(r, src) ==
  Document(<<"recording", r, 0>>, r, NoId, NoId, "", DisplayTitle(src), src.file,
           TagNames(src, NoId))

SummaryDocument(r, src, s) ==
  Document(<<"summary", s.id, 0>>, r, s.transcript, s.id, s.language, s.text, s.text,
           IF s.section = NoId THEN {} ELSE TagNames(src, s.section))

Expected(r, src) ==
  SegmentDocuments(r, src) \cup {RecordingDocument(r, src)}
    \cup {SummaryDocument(r, src, s) : s \in WholeSummaries(src) \cup SectionSummaries(src)}

-----------------------------------------------------------------------------
(* Legitimate rows, reconciliation *)

KeysOf(rows) == {d.key : d \in rows}
RowsOf(registry, r) == {d \in registry : d.recording = r}

\* Does the row map to a document the database calls for?  Decided from the key and
\* the provenance of the row alone, by other queries than Expected.
Legitimate(r, src, row) ==
  \/ row.key = <<"recording", r, 0>>
  \/ \E t \in ActiveTranscripts(src) : \E n \in DOMAIN t.segments :
       /\ row.key = <<"segment", t.id, n>> /\ row.transcript = t.id
       /\ t.segments[n] # Blank
  \/ \E s \in WholeSummaries(src) \cup SectionSummaries(src) :
       /\ row.key = <<"summary", s.id, 0>> /\ row.summary = s.id
       /\ row.transcript = s.transcript /\ row.language = s.language

\* The full text table holds the texts of a registry row under the row's id.
FullText(d) == [key |-> d.key, title |-> d.title, text |-> d.text, aux |-> d.aux]
FullTexts(rows) == {FullText(d) : d \in rows}

\* `Orphan' stands for the id of a registry row that is gone.
Orphan == <<"orphan", 0, 0>>
OrphanText == [key |-> Orphan, title |-> "", text |-> "", aux |-> {}]

\* Rows of r that are not legitimate go, with their full texts.
DeleteNoncanonical(r, src, idx) ==
  LET stale == {d \in RowsOf(idx.registry, r) : ~Legitimate(r, src, d)}
  IN [registry |-> idx.registry \ stale,
      fts |-> {f \in idx.fts : f.key \notin KeysOf(stale)}]

\* Mutant: a row that exists is taken to be right.
InsertMissing(r, src, idx) ==
  LET want == {d \in Expected(r, src) : d.key \notin KeysOf(idx.registry)}
  IN [registry |-> idx.registry \cup want, fts |-> idx.fts \cup FullTexts(want)]

\* Every expected document is inserted, or its row and its full text overwritten
\* where they differ; a full text that is missing is inserted under the row's id.
UpsertExpected(r, src, idx) ==
  LET want == Expected(r, src)
      keys == KeysOf(want)
  IN [registry |-> {d \in idx.registry : d.key \notin keys} \cup want,
      fts |-> {f \in idx.fts : f.key \notin keys} \cup FullTexts(want)]

Reconciled(r, src, idx) == UpsertExpected(r, src, DeleteNoncanonical(r, src, idx))

\* Both tables are emptied and filled anew; ids change, so orphans vanish.
Rebuilt(sources) ==
  LET want == UNION {Expected(r, sources[r]) : r \in DOMAIN sources}
  IN [registry |-> want, fts |-> FullTexts(want)]

-----------------------------------------------------------------------------
(* brain search-index status *)

Report(sources, idx) ==
  LET want == UNION {Expected(r, sources[r]) : r \in DOMAIN sources}
      Row(key) == CHOOSE d \in idx.registry : d.key = key
      present == {d \in want : d.key \in KeysOf(idx.registry)}
      Texts(key) == {f \in idx.fts : f.key = key}
  IN (IF want # present THEN {"missing_from_registry"} ELSE {})
     \cup (IF \E d \in present : Row(d.key) # d THEN {"stale_content"} ELSE {})
     \cup (IF \E d \in present : Texts(d.key) = {} THEN {"missing_from_fts"} ELSE {})
     \cup (IF \E d \in present : Texts(d.key) \notin {{}, {FullText(Row(d.key))}}
           THEN {"content_mismatch"} ELSE {})
     \cup (IF \E r \in DOMAIN sources : \E d \in RowsOf(idx.registry, r) :
                ~Legitimate(r, sources[r], d)
           THEN {"orphan_document"} ELSE {})
     \cup (IF \E f \in idx.fts : f.key \notin KeysOf(idx.registry)
           THEN {"orphan_fts_row"} ELSE {})

Healthy(sources, idx) == Report(sources, idx) = {}
=============================================================================
