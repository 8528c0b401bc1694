--------------------------- MODULE LibraryChecks ----------------------------
(***************************************************************************)
(* What the library lists against what it should, over single recordings   *)
(* and bounded filters: recordings are listed independently of each other. *)
(* TLC evaluates these assumptions on every run of a module that extends   *)
(* this one.                                                               *)
(***************************************************************************)
EXTENDS Integers, Sequences, FiniteSets

L == INSTANCE Library WITH MaxTagFilters <- 2, ItemKeyLimit <- 3
Y == INSTANCE Layouts WITH MaxTopicSections <- 2

SectionOf(id, start, end, archived) ==
  [id |-> id, start |-> start, end |-> end, archived |-> archived, tags |-> {}, state |-> {}, hasSummary |-> FALSE]
SplitRecording ==
  [id |-> 1, archived |-> FALSE, split |-> TRUE, recordedAt |-> {}, discoveredAt |-> 30, tags |-> {},
   status |-> "transcribed", summary |-> "missing", retranscriptionFailed |-> FALSE,
   resummarizationFailed |-> FALSE, audio |-> "present", summaries |-> {},
   sections |-> {SectionOf(1, 0, 2, FALSE), SectionOf(2, 2, 3, FALSE)}]
WholeRecording == [SplitRecording EXCEPT !.split = FALSE]
Archivings ==
  {[SplitRecording EXCEPT !.archived = archived, !.split = split,
                          !.sections = {SectionOf(1, 0, 2, first), SectionOf(2, 2, 3, second)}] :
     archived, split, first, second \in BOOLEAN}
SectionItems(r) == {L!SectionItem(s) : s \in r.sections}
Listed(r, f) == L!library_items({r}, f)
With(name, value) == [L!NoFilters EXCEPT ![name] = value]

\* Archiving moves an item from one list to the other and loses none: a recording
\* is in one of them, itself or by its sections, and never beside its own section.
ASSUME ArchivingMovesItems ==
  \A r \in Archivings :
    LET library == Listed(r, L!NoFilters)
        archive == L!archived_items({r})
    IN /\ library \cup archive # {} /\ library \cap archive = {}
       /\ library \cup archive \in {{L!RecordingItem(r)}, SectionItems(r)}
       /\ (r.archived \/ ~ r.split) <=> library \cup archive = {L!RecordingItem(r)}

\* Every item has one processing status, one summary status and one audio status
\* by which it can be filtered, whether or not its variant has a state row.
ASSUME OneStatusEach ==
  \A status \in L!Statuses, summary \in L!SummaryStatuses, audio \in {"present", "missing"},
     split \in BOOLEAN, state \in {{}, {"missing"}, {"current"}, {"failed"}} :
    LET r == [SplitRecording EXCEPT
                !.split = split, !.status = status, !.summary = summary, !.audio = audio,
                !.sections = {[SectionOf(1, 0, 3, FALSE) EXCEPT !.state = state]}]
        OneOf(name, values) == Cardinality({v \in values : Listed(r, With(name, {v})) # {}}) = 1
    IN /\ OneOf("status", L!Statuses) /\ OneOf("summary", L!SummaryStatuses)
       /\ OneOf("audio", {"present", "missing"})

\* What the review filter lists is highlighted wherever it is listed; what is
\* highlighted and not listed lacks its audio only.
ASSUME ReviewIsHighlighted ==
  \A status \in L!Statuses, summary \in L!SummaryStatuses, audio \in {"present", "missing"},
     split, again, anew \in BOOLEAN, state \in {{}, {"current"}, {"failed"}} :
    LET r == [SplitRecording EXCEPT
                !.split = split, !.status = status, !.summary = summary, !.audio = audio,
                !.retranscriptionFailed = again, !.resummarizationFailed = anew,
                !.sections = {[SectionOf(1, 0, 3, FALSE) EXCEPT !.state = state]}]
    IN \A item \in Listed(r, L!NoFilters) :
         L!needs_attention(r, item)
           <=> item \in Listed(r, With("review", TRUE)) \/ r.audio = "missing"

\* From one day to another is every day between them, each moment in one of them;
\* all of several tags is each of them, any of them is one of them.
ASSUME FiltersCompose ==
  \A split \in BOOLEAN :
    /\ \A at \in 0..71, from, to \in L!Days :
         LET r == [SplitRecording EXCEPT !.split = split, !.recordedAt = {at}]
             Covers(f) == Listed(r, f) # {}
         IN /\ Covers([With("from", {from}) EXCEPT !.to = {to}])
                 <=> \E day \in from..to : Covers(With("date", {day}))
            /\ Cardinality({day \in L!Days : Covers(With("date", {day}))}) = 1
    /\ \A parents, own \in SUBSET {"a", "b"} :
         LET r == [SplitRecording EXCEPT !.split = split, !.tags = parents,
                                         !.sections = {[SectionOf(1, 0, 3, FALSE) EXCEPT !.tags = own]}]
             Tagged(tags) == With("tags", tags)
         IN /\ Listed(r, Tagged(<<"a", "b">>)) = Listed(r, Tagged(<<"a">>)) \cap Listed(r, Tagged(<<"b">>))
            /\ Listed(r, [Tagged(<<"a", "b">>) EXCEPT !.match = "any"])
                 = Listed(r, Tagged(<<"a">>)) \cup Listed(r, Tagged(<<"b">>))
            /\ Listed(r, Tagged(<<"a">>)) # {} <=> "a" \in IF split THEN own ELSE parents

SummaryRow == [active : BOOLEAN, current : BOOLEAN, whole : BOOLEAN]
InBothLists(r) == Listed(r, With("hasSummary", {TRUE})) \cap Listed(r, With("hasSummary", {FALSE}))
InNeitherList(r) ==
  Listed(r, L!NoFilters) \ (Listed(r, With("hasSummary", {TRUE})) \cup Listed(r, With("hasSummary", {FALSE})))

\* With and without a summary are different lists, but not all of the library: the
\* exclusion takes its conditions from different rows, so that a recording that was
\* transcribed anew, split, summarized by section and joined again is in neither.
ASSUME SummaryListsLeaveSomeOut ==
  /\ \A rows \in SUBSET SummaryRow :
       LET r == [WholeRecording EXCEPT !.summaries = rows]
       IN InBothLists(r) = {} /\ (Cardinality(rows) < 2 => InNeitherList(r) = {})
  /\ LET former == [active |-> TRUE, current |-> FALSE, whole |-> TRUE]
         topic == [active |-> TRUE, current |-> TRUE, whole |-> FALSE]
     IN InNeitherList([WholeRecording EXCEPT !.summaries = {former, topic}]) # {}
  /\ \A has \in BOOLEAN :
       LET r == [SplitRecording EXCEPT !.sections = {[SectionOf(1, 0, 3, FALSE) EXCEPT !.hasSummary = has]}]
       IN InBothLists(r) = {} /\ InNeitherList(r) = {}

\* Any two rows a version might have, of a transcript of three segments; the
\* ordinals of a version are distinct (uniq_section_ordinal_topic).
StoredRows(ordinal) ==
  {Y!Row(1, ordinal, start, end, Y!Custom("title"), FALSE) : start \in 0..2, end \in 1..3}
StoredLayouts ==
  {[version |-> [transcript |-> 1, start |-> start, end |-> end], rows |-> rows] :
     start \in 0..1, end \in 2..3, rows \in {{x, y} : x \in StoredRows(1), y \in StoredRows(2)}}
Stored(layout, archived) ==
  [SplitRecording EXCEPT
     !.split = Y!canonical_layout_predicate(layout.version, 1, [version |-> TRUE, transcript |-> TRUE],
                                            0..2, layout.rows),
     !.sections = {SectionOf(row.ordinal, row.start, row.end, archived /\ row.ordinal = 1) : row \in layout.rows}]
SegmentDocument(ordinal) == [type |-> "segment", current |-> TRUE, active |-> TRUE, section |-> 0, ordinal |-> ordinal]

\* What the editor may submit for a transcript of three segments.
Titles == {Y!Blank, Y!Invalid, Y!Custom("title"), Y!AutoTitle(1, "day"), Y!AutoTitle(2, "day")}
Submitted ==
  {[start |-> start, end |-> end, splits |-> <<>>, titles |-> <<>>, flags |-> <<>>] : start \in 0..2, end \in 0..4}
  \cup
  {[start |-> start, end |-> end, splits |-> <<split>>, titles |-> titles, flags |-> flags] :
     start \in 0..2, end \in 1..4, split \in 0..4, titles \in Titles \X Titles, flags \in {<<>>} \cup BOOLEAN \X BOOLEAN}

\* Whatever is saved is read back as a layout, by the Python reader and, if it has
\* sections, by the SQL predicate; and submitting it once more saves nothing.
ASSUME SavedLayoutsAreRead ==
  \A payload \in Submitted :
    LET saved == Y!save_segmented_version(1, payload, {}, 0..2, "day")
        version == [transcript |-> 1, start |-> payload.start, end |-> payload.end]
        layout == Y!canonical_layout_from_rows(version, 1, 0..2, saved.rows)
    IN saved.result = "saved" =>
         /\ ~Y!IsError(layout)
         /\ Y!save_segmented_version(1, layout, {layout}, 0..2, "day").result = "unchanged"
         /\ saved.rows = <<>> \/ Y!canonical_layout_predicate(version, 1, [version |-> TRUE, transcript |-> TRUE], 0..2,
                                                              {saved.rows[i] : i \in DOMAIN saved.rows})

\* Whatever is stored: a segment in the working range is found in one item, the
\* section that covers it or the whole recording; a cropped one, and one of an
\* archived section, in none; and no item is found that the library does not list.
ASSUME SegmentsAreFoundInTheirItem ==
  \A layout \in StoredLayouts, archived \in BOOLEAN :
    LET r == Stored(layout, archived)
        covering(ordinal) == {s \in r.sections : s.start <= ordinal /\ ordinal < s.end}
        FoundFor(ordinal) == L!FoundItems({SegmentDocument(ordinal)}, r, L!NoFilters)
    IN \A ordinal \in 0..2 :
         IF ~ r.split THEN FoundFor(ordinal) = {L!RecordingItem(r)}
         ELSE /\ Cardinality(covering(ordinal))
                   = IF layout.version.start <= ordinal /\ ordinal < layout.version.end THEN 1 ELSE 0
              /\ FoundFor(ordinal) = {L!SectionItem(s) : s \in {x \in covering(ordinal) : ~ x.archived}}

\* Where a recording is split, its own document, its whole summary, what is left
\* of an earlier transcript and a replaced summary are found nowhere.
ASSUME OnlyLiveTextIsFound ==
  \A type \in {"recording", "summary", "segment"}, current, active \in BOOLEAN, section \in 0..2 :
    LET d == [type |-> type, current |-> current, active |-> active, section |-> section, ordinal |-> 1]
    IN L!FoundItems({d}, SplitRecording, L!NoFilters) # {}
         <=> current /\ (type = "segment" \/ (type = "summary" /\ active /\ section # 0))

\* The badge counts the recordings of the review page, and a recording whose
\* retranscription failed and is being retried, or was to be when the process
\* died, which the page leaves out; every recording that the review filter lists is one
\* of them; and a summary is awaited only of a recording that is listed itself.
ASSUME BadgeCountsTheReview ==
  \A status \in L!Statuses, summary \in L!SummaryStatuses, audio \in {"present", "missing"},
     archived, split, again, anew \in BOOLEAN :
    LET r == [SplitRecording EXCEPT
                !.archived = archived, !.split = split, !.status = status, !.summary = summary,
                !.audio = audio, !.retranscriptionFailed = again, !.resummarizationFailed = anew]
        retried == again /\ status # "transcribed" /\ ~ archived
    IN /\ L!review_badge(r) <=> L!review_categories(r) # {} \/ retried
       /\ L!RecordingItem(r) \in Listed(r, With("review", TRUE)) => L!review_badge(r)
       /\ "awaiting_summary" \in L!review_categories(r) => L!RecordingItem(r) \in Listed(r, L!NoFilters)
       /\ L!review_categories(r) \subseteq {"awaiting_summary", "missing_audio"} =>
            L!RecordingItem(r) \notin Listed(r, With("review", TRUE)) \/ retried

Parameters ==
  [date |-> {"1", "x"}, from |-> {"0", "x"}, to |-> {"2"}, tags |-> {<<"a">>, <<"a", "a">>, <<"a", "b">>, <<"a", "b", "c">>},
   tag_match |-> {"all", "any", "x"}, status |-> {"failed", "x"}, summary |-> {"missing", "x"},
   review |-> {"1", "true", "x"}, audio |-> {"missing", "x"}, has_summary |-> {"1", "0", "false", "x"},
   sort |-> {"newest", "relevance", "title_az", "x"}]
NoParameters == [[p \in DOMAIN Parameters |-> ""] EXCEPT !.tags = <<>>]
Queries ==
  UNION {{[NoParameters EXCEPT ![p] = v, ![q] = w] : v \in Parameters[p], w \in Parameters[q]} :
           p, q \in DOMAIN Parameters}

\* A link to the next page carries every filter that was applied, and no other: it
\* is parsed to what it was made of, and a library link that was invalid only by a
\* single value becomes valid.
ASSUME LinksKeepFilters ==
  \A query \in Queries, relevance \in BOOLEAN :
    LET f == L!list_filters(query, relevance)
        again == L!list_filters(L!as_pairs(f, relevance), relevance)
    IN again = [f EXCEPT !.errors = @ \cap {"dates"}]

\* The link back to the library leads to where it was taken, but for repeated tags,
\* and no two tokens lead to the same filters.
ASSUME TokensLeadBack ==
  \A query \in Queries :
    LET f == L!list_filters(query, FALSE)
    IN /\ IF f.errors # {} THEN L!make_token(f) = {}
          ELSE \E token \in L!make_token(f) : \E g \in L!decode_token(token) :
                 /\ [g EXCEPT !.tags = f.tags] = f
                 /\ {g.tags[i] : i \in DOMAIN g.tags} = {f.tags[i] : i \in DOMAIN f.tags}
       /\ \A g \in L!decode_token(query) : L!make_token(g) = {query}

\* An answer becomes cards in its order, each item once, and never one that a
\* change between the two reads took away.
ASSUME CardsFollowTheAnswer ==
  \A keys \in UNION {[1..n -> {<<"r", 1, "plain">>, <<"s", 1, "plain">>, <<"s", 1, "padded">>,
                               <<"s", 2, "plain">>, <<"x", 1, "plain">>}] : n \in 0..4},
     before, after \in {SplitRecording, WholeRecording} :
    LET result == L!library_items_by_keys(keys, {before}, {after}, L!NoFilters)
    IN IF Len(keys) > 3 THEN result = {}
       ELSE \A cards \in result :
              /\ {cards[i] : i \in DOMAIN cards}
                   = {<<keys[i][1], keys[i][2]>> : i \in DOMAIN keys}
                       \cap Listed(before, L!NoFilters) \cap Listed(after, L!NoFilters)
              /\ \A i, j \in DOMAIN cards : i < j =>
                   \E k \in DOMAIN keys :
                     /\ <<keys[k][1], keys[k][2]>> = cards[i]
                     /\ \A l \in 1..k : <<keys[l][1], keys[l][2]>> # cards[j]

\* The title by which the library is sorted is the one that is indexed and shown.
ASSUME TitlesAgree ==
  LET rows == UNION {[1..n -> [title : {"a", "b"}, language : {"en", "fi"}]] : n \in 0..2}
  IN \A summaries \in rows, language \in {{}, {"en"}, {"fi"}}, filename \in {{}, {"file"}} :
       L!_display_title_expression(summaries, language, filename)
         = L!display_title_from_recording(summaries, language, filename)

=============================================================================
