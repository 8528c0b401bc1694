----------------------------- MODULE Selection ------------------------------
(***************************************************************************)
(* How the search engines select and rank, as functions of what matched:   *)
(* the keyword engine from a bounded selection of the matching rows, the   *)
(* semantic engine from a stream of every document with a heap of bounded  *)
(* size, and the fusion of their two lists.                                *)
(* src/src/workflow/services/search_query.py, semantic_query.py,           *)
(* search_fusion.py.                                                       *)
(*                                                                         *)
(* Recordings, items and document keys are numbers in the order of their   *)
(* strings.  A similarity is a number, or Unusable for a vector of length  *)
(* zero.  A sort key is a tuple; the smaller one is the better.            *)
(***************************************************************************)
EXTENDS Integers, Sequences, FiniteSets, SequencesExt, Sorting

\* The lexicographic order of two tuples of one length.
Before(a, b) == \E i \in DOMAIN a : a[i] < b[i] /\ \A j \in 1..(i - 1) : a[j] = b[j]

\* Entries [key, ..] by their keys, the best one first.
Ordered(entries) == Sorted(entries, LAMBDA e, f : Before(e.key, f.key))
Best(entries) == CHOOSE e \in entries : \A f \in entries \ {e} : Before(e.key, f.key)
Page(list, limit) == SubSeq(list, 1, IF Len(list) <= limit THEN Len(list) ELSE limit)

TypeRank == [summary |-> 0, recording |-> 1, segment |-> 2]

-----------------------------------------------------------------------------
(* The keyword engine.  A row: [unit, document, type, terms], the recording or
   the item it counts for, and what `_score_document' makes of the terms found in
   it: [field, occurrences, offset], or Divergent if it cannot find one of them. *)

\* Which row of its unit a row is, by type and key.
RowNumber(row, rows) ==
  1 + Cardinality({r \in rows : r.unit = row.unit /\ Before(<<TypeRank[r.type], r.document>>,
                                                            <<TypeRank[row.type], row.document>>)})

\* `_select_candidates': at most perUnit rows of each unit, at most maxScored of
\* them, and whether that left out rows, and whether it may have left out units.
SelectCandidates(rows, perUnit, maxScored) ==
  LET kept == {row \in rows : RowNumber(row, rows) <= perUnit}
      First(n) == {row \in kept : Cardinality({r \in kept : r.document <= row.document}) <= n}
      fetched == First(maxScored + 1)
      OfUnit(unit) == Cardinality({row \in rows : row.unit = unit})
  IN [candidates |-> First(maxScored),
      truncated |-> \/ fetched # {} /\ Cardinality(rows) > maxScored
                    \/ \E row \in fetched : OfUnit(row.unit) > perUnit,
      complete |-> Cardinality(fetched) <= maxScored]

\* `_comparator'.  A row in which a term cannot be found is ranked last.
Absent == 1000
Divergent == [field |-> 3, occurrences |-> 0, offset |-> Absent]
Comparator(row) ==
  <<row.terms.field, TypeRank[row.type], -row.terms.occurrences, row.terms.offset, row.document>>

UnknownCount == -1
\* `search_recordings': the best row of every unit, the first limit of them, and
\* how many more units matched.
SearchRecordings(rows, limit, perUnit, maxScored) ==
  LET selected == SelectCandidates(rows, perUnit, maxScored)
      Entries(unit) == {[key |-> Comparator(row), unit |-> row.unit, document |-> row.document] :
                          row \in {r \in selected.candidates : r.unit = unit}}
      winners == Ordered({Best(Entries(unit)) : unit \in {row.unit : row \in selected.candidates}})
  IN [results |-> Page(winners, limit),
      truncated |-> selected.truncated,
      more |-> IF selected.complete THEN Len(winners) - Len(Page(winners, limit)) ELSE UnknownCount]

-----------------------------------------------------------------------------
(* The semantic engine.  A document of the stream: [recording, document, type,
   item, similarity]. *)

Unusable == -1000
NoDocument == [recording |-> 0, document |-> 0]

\* `_rank_key'
RankKey(d) == <<-d.similarity, TypeRank[d.type], d.document, d.recording>>
Entry(d, unit) == [key |-> RankKey(d), unit |-> unit, recording |-> d.recording, document |-> d.document]

\* One push on the heap, whose worst entry goes when it is over the limit.
Offer(heap, entry, limit) ==
  LET more == heap \cup {entry}
  IN IF Cardinality(more) > limit
     THEN more \ {CHOOSE e \in more : \A f \in more \ {e} : Before(f.key, e.key)}
     ELSE more
OfferGroup(heap, group, limit) == FoldSet(LAMBDA entry, h : Offer(h, entry, limit), heap, group)

\* What a group keeps of the documents of its recording: the best of each unit,
\* or for evidence the first few.
KeepBest(group, entry) ==
  LET rivals == {e \in group : e.unit = entry.unit}
  IN IF \A e \in rivals : Before(entry.key, e.key) THEN (group \ rivals) \cup {entry} ELSE group
KeepFew(group, entry, few) == ToSet(Page(Ordered(group \cup {entry}), few))

\* The order the documents have to come in.
InOrder(last, d) ==
  \/ last = NoDocument
  \/ d.recording > last.recording
  \/ d.recording = last.recording /\ d.document > last.document

\* A turn of the loop.  purpose: one winner per "recording" or per "item", or
\* "evidence"; few: how much evidence of one recording.
Turn(s, d, purpose, limit, few) ==
  IF s.failure # "none" THEN s
  ELSE IF d.type \notin DOMAIN TypeRank THEN [s EXCEPT !.failure = "invalid_candidate"]
  ELSE IF ~InOrder(s.last, d) THEN [s EXCEPT !.failure = "candidate_order"]
  ELSE LET ended == s.last # NoDocument /\ d.recording # s.last.recording
           next == [s EXCEPT !.last = [recording |-> d.recording, document |-> d.document],
                             !.heap = IF ended THEN OfferGroup(@, s.group, limit) ELSE @,
                             !.group = IF ended THEN {} ELSE @]
       IN IF purpose = "evidence" /\ d.type = "recording" THEN next
          ELSE IF d.similarity = Unusable THEN [next EXCEPT !.failure = "invalid_document_vector"]
          ELSE [next EXCEPT !.group =
                  IF purpose = "evidence" THEN KeepFew(@, Entry(d, d.document), few)
                  ELSE KeepBest(@, Entry(d, IF purpose = "item" THEN d.item ELSE d.recording))]

\* `select_semantic_winners', `select_semantic_item_winners' and
\* `select_semantic_evidence'.
SelectSemantic(stream, purpose, limit, few) ==
  LET start == [last |-> NoDocument, heap |-> {}, group |-> {}, failure |-> "none"]
      end == FoldLeft(LAMBDA s, d : Turn(s, d, purpose, limit, few), start, stream)
  IN [failure |-> end.failure,
      winners |-> IF end.failure # "none" THEN <<>> ELSE Ordered(OfferGroup(end.heap, end.group, limit))]

\* The count the traversal keeps: a recording when another one begins, and the
\* items of a recording when it ends.
MatchedRecordings(stream) ==
  Cardinality({i \in DOMAIN stream : i = 1 \/ stream[i].recording # stream[i - 1].recording})
MatchedItems(stream) ==
  LET ends == {i \in DOMAIN stream : i = Len(stream) \/ stream[i].recording # stream[i + 1].recording}
      ItemsOf(i) == {stream[j].item : j \in {k \in 1..i : stream[k].recording = stream[i].recording}}
  IN FoldSet(LAMBDA i, n : n + Cardinality(ItemsOf(i)), 0, ends)

\* `semantic_search', as far as its result depends on the stream.
SemanticSearch(stream, purpose, limit) ==
  LET selected == SelectSemantic(stream, purpose, limit, 1)
      matched == IF purpose = "item" THEN MatchedItems(stream) ELSE MatchedRecordings(stream)
  IN [failure |-> selected.failure, results |-> selected.winners, truncated |-> FALSE,
      more |-> matched - Len(selected.winners)]

-----------------------------------------------------------------------------
(* The fusion.  A component: a sequence of rows [identity, rank]. *)

RRF_K == 60
NoRank == 0

\* `_index_components': the first row of an identity counts.
RankIn(list, identity) ==
  LET places == {i \in DOMAIN list : list[i].identity = identity}
  IN IF places = {} THEN NoRank ELSE list[CHOOSE i \in places : \A j \in places : i <= j].rank

Identities(list) == {list[i].identity : i \in DOMAIN list}
PresentRanks(item) == {item.keyword, item.semantic} \ {NoRank}
Presence(item) == Cardinality({c \in {"keyword", "semantic"} : item[c] # NoRank})
Least(ranks) == CHOOSE r \in ranks : \A q \in ranks : r <= q
Greatest(ranks) == CHOOSE r \in ranks : \A q \in ranks : r >= q

\* `rrf_score', a fraction: the sum of 1 / (k + rank) over the ranks there are.  The code
\* adds in floating point: for ranks up to 200 that never reverses two scores, but tells
\* some apart that are equal, such as those of the ranks 6, 39 and 12, 28.
Score(item) ==
  IF item.semantic = NoRank THEN [n |-> 1, d |-> RRF_K + item.keyword]
  ELSE IF item.keyword = NoRank THEN [n |-> 1, d |-> RRF_K + item.semantic]
  ELSE [n |-> (RRF_K + item.keyword) + (RRF_K + item.semantic),
        d |-> (RRF_K + item.keyword) * (RRF_K + item.semantic)]

\* `_fusion_key'
Rest(item) == <<-Presence(item), Least(PresentRanks(item)), Greatest(PresentRanks(item)), item.identity>>
FusedBefore(a, b) ==
  LET left == Score(a).n * Score(b).d
      right == Score(b).n * Score(a).d
  IN left > right \/ (left = right /\ Before(Rest(a), Rest(b)))

\* `reciprocal_rank_fusion'
Fused(keyword, semantic) ==
  Sorted({[identity |-> i, keyword |-> RankIn(keyword, i), semantic |-> RankIn(semantic, i)] :
                  i \in Identities(keyword) \cup Identities(semantic)}, FusedBefore)

\* `_assemble_payload' of two components [results, truncated, more].
Assembled(keyword, semantic, limit) ==
  LET fused == Fused(keyword.results, semantic.results)
      results == Page(fused, limit)
  IN [results |-> results,
      truncated |-> keyword.truncated \/ semantic.truncated,
      more |-> IF keyword.more = 0 /\ semantic.more = 0 THEN Len(fused) - Len(results) ELSE UnknownCount]
=============================================================================
