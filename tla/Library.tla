------------------------------- MODULE Library ------------------------------
(***************************************************************************)
(* What the library lists, and which of its items a document found by a    *)
(* search belongs to.  An item is a recording, or a topic section that     *)
(* replaces its recording.  src/src/workflow/query.py                      *)
(*                                                                         *)
(* A recording has                                                         *)
(*   split      whether its active transcript has an active layout that    *)
(*              canonical_layout_predicate (Layouts) believes,             *)
(*   sections   those of the active layout,                                *)
(*   summaries  every Summary row, of any transcript: active, of the       *)
(*              active transcript (current), of all of it (whole).         *)
(* Optional values are sets of at most one.  The state of a section is     *)
(* that of its variant in the default language, if there is one.           *)
(***************************************************************************)
EXTENDS Integers, Sequences, FiniteSets, SequencesExt, Sorting

CONSTANTS MaxTagFilters, ItemKeyLimit   \* MAX_TAG_FILTERS, LIBRARY_ITEM_KEY_LIMIT

Days == 0..2            \* bound: the days a filter may name
HoursOfADay == 24

-----------------------------------------------------------------------------
(* The filters, as parsed *)

Sorts == {"newest", "oldest", "title_az", "title_za"}
Statuses == {"discovered", "needs_review", "ready", "transcribed", "failed"}
SummaryStatuses == {"not_ready", "missing", "current", "failed"}

NoFilters ==
  [date |-> {}, from |-> {}, to |-> {}, tags |-> <<>>, match |-> "all", status |-> {}, summary |-> {},
   review |-> FALSE, audio |-> {}, hasSummary |-> {}, sort |-> "newest", errors |-> {}]

\* A query is a record of texts, "" where the parameter is absent; `tags' is a
\* sequence.  Values are stripped and, for match and sort, lowered before.
Known(text, S) == IF text \in S THEN {text} ELSE {}
Wrong(name, text, S) == IF text = "" \/ text \in S THEN {} ELSE {name}

list_filters(query, relevance) ==
  LET default == IF relevance THEN "relevance" ELSE "newest"
      sorts == IF relevance THEN Sorts \cup {"relevance"} ELSE Sorts
      truth == IF query.has_summary \in {"1", "true"} THEN {TRUE}
               ELSE IF query.has_summary \in {"0", "false"} THEN {FALSE} ELSE {}
      dates(text) == {day \in Days : ToString(day) = text}
      texts == {ToString(day) : day \in Days}
  IN [date |-> dates(query.date), from |-> dates(query.from), to |-> dates(query.to),
      tags |-> IF Len(query.tags) > MaxTagFilters THEN SubSeq(query.tags, 1, MaxTagFilters) ELSE query.tags,
      match |-> IF query.tag_match = "any" THEN "any" ELSE "all",
      status |-> Known(query.status, Statuses),
      summary |-> Known(query.summary, SummaryStatuses),
      review |-> query.review \in {"1", "true"},
      audio |-> Known(query.audio, {"present", "missing"}),
      hasSummary |-> truth,
      sort |-> IF query.sort \in sorts THEN query.sort ELSE default,
      errors |->
        Wrong("date", query.date, texts) \cup Wrong("from", query.from, texts)
        \cup Wrong("to", query.to, texts)
        \cup (IF Len(query.tags) > MaxTagFilters THEN {"tags"} ELSE {})
        \cup Wrong("tag_match", query.tag_match, {"all", "any"})
        \cup Wrong("status", query.status, Statuses)
        \cup Wrong("summary", query.summary, SummaryStatuses)
        \cup Wrong("audio", query.audio, {"present", "missing"})
        \cup Wrong("has_summary", query.has_summary, {"1", "true", "0", "false"})
        \cup (IF relevance THEN {} ELSE Wrong("sort", query.sort, Sorts))
        \cup (IF dates(query.date) # {} /\ dates(query.from) \cup dates(query.to) # {} THEN {"dates"} ELSE {})]

\* The link or the hidden inputs that carry the filters to the next page.
Text(option) == IF option = {} THEN "" ELSE CHOOSE text \in option : TRUE
as_pairs(f, relevance) ==
  LET default == IF relevance THEN "relevance" ELSE "newest"
      days(option) == Text({ToString(day) : day \in option})
  IN [date |-> days(f.date), from |-> days(f.from), to |-> days(f.to), tags |-> f.tags,
      tag_match |-> IF f.match # "all" THEN f.match ELSE "",
      status |-> Text(f.status), summary |-> Text(f.summary),
      review |-> IF f.review THEN "1" ELSE "", audio |-> Text(f.audio),
      has_summary |-> Text({IF wanted THEN "1" ELSE "0" : wanted \in f.hasSummary}),
      sort |-> IF f.sort # default THEN f.sort ELSE ""]

\* The signed token of a link back to the library, and what it is taken for; {} for
\* none.  The signature is that of the server.
WithoutRepeats(seq) == FoldLeft(LAMBDA kept, x : IF x \in Range(kept) THEN kept ELSE Append(kept, x), <<>>, seq)
make_token(f) ==
  IF f.errors # {} THEN {} ELSE {[as_pairs(f, FALSE) EXCEPT !.tags = WithoutRepeats(@)]}
decode_token(pairs) ==
  {f \in {list_filters(pairs, FALSE)} :
     IsInjective(pairs.tags) /\ f.errors = {} /\ as_pairs(f, FALSE) = pairs}

\* The library falls back to no filters at all when one of them is invalid.
Effective(f) == IF f.errors = {} THEN f ELSE NoFilters

-----------------------------------------------------------------------------
(* The items *)

effective_at(r) == IF r.recordedAt # {} THEN Text(r.recordedAt) ELSE r.discoveredAt

\* The half-open interval of the local day.
local_day_bounds(day) == [start |-> HoursOfADay * day, end |-> HoursOfADay * (day + 1)]
InDates(r, f) ==
  LET at == effective_at(r)
  IN /\ \A day \in f.date \cup f.from : local_day_bounds(day).start <= at
     /\ \A day \in f.date \cup f.to : at < local_day_bounds(day).end

TagsMatch(tags, f) ==
  IF f.match = "any" THEN f.tags = <<>> \/ Range(f.tags) \cap tags # {} ELSE Range(f.tags) \subseteq tags

\* One row must meet all conditions of a filter, but each condition of an exclude
\* that spans a multi-valued relation is looked for in a row of its own.
HasSummary(r) == \E s \in r.summaries : s.active /\ s.current /\ s.whole
LacksSummary(r) ==
  ~ (/\ \E s \in r.summaries : s.active
     /\ \E s \in r.summaries : s.current
     /\ \E s \in r.summaries : s.whole)

NeedsReview(r, summary) ==
  \/ r.status \in {"needs_review", "failed"}
  \/ r.retranscriptionFailed \/ r.resummarizationFailed
  \/ summary = "failed"

filter_only(r, f) ==
  /\ ~ r.archived
  /\ InDates(r, f)
  /\ TagsMatch(r.tags, f)
  /\ \A status \in f.status : r.status = status
  /\ \A status \in f.summary : r.summary = status
  /\ f.review => NeedsReview(r, r.summary)
  /\ \A audio \in f.audio : r.audio = audio
  /\ \A wanted \in f.hasSummary : IF wanted THEN HasSummary(r) ELSE LacksSummary(r)

\* Its own tags and summary; everything else is its parent's.
section_filter_only(s, r, f) ==
  /\ InDates(r, f)
  /\ TagsMatch(s.tags, f)
  /\ \A status \in f.status : r.status = status
  /\ \A status \in f.summary :
       /\ status # "not_ready"
       /\ IF status = "missing" THEN s.state \in {{}, {"missing"}} ELSE s.state = {status}
  /\ f.review => NeedsReview(r, Text(s.state))
  /\ \A audio \in f.audio : r.audio = audio
  /\ \A wanted \in f.hasSummary : s.hasSummary = wanted

section_base(r, includeArchived) ==
  {s \in r.sections : r.split /\ ~ r.archived /\ (s.archived => includeArchived)}

RecordingItem(r) == <<"r", r.id>>
SectionItem(s) == <<"s", s.id>>

\* `library_item_queryset' and the count by `library_item_key_queryset': the union
\* of two branches, each filtered for itself.
library_items(recordings, f) ==
  {RecordingItem(r) : r \in {x \in recordings : filter_only(x, f) /\ ~ x.split}}
  \cup UNION {{SectionItem(s) : s \in {x \in section_base(r, FALSE) : section_filter_only(x, r, f)}} : r \in recordings}

archived_items(recordings) ==
  {RecordingItem(r) : r \in {x \in recordings : x.archived}}
  \cup UNION {{SectionItem(s) : s \in {x \in section_base(r, TRUE) : x.archived}} : r \in recordings}

\* `LibraryItemCard.needs_attention', of the projected row of an item.
needs_attention(r, item) ==
  LET summary == IF item[1] = "r" THEN r.summary
                 ELSE LET s == CHOOSE x \in r.sections : SectionItem(x) = item
                      IN IF s.state = {} THEN "missing" ELSE Text(s.state)
  IN \/ r.status \in {"needs_review", "failed"}
     \/ r.retranscriptionFailed \/ r.resummarizationFailed
     \/ summary = "failed" \/ r.audio = "missing"

\* The groups of the review page a recording is in, and whether the badge counts it.
AwaitingSummary(r) == r.status = "transcribed" /\ r.summary = "missing" /\ ~ r.split
review_categories(r) ==
  LET group == [needs_review |-> r.status = "needs_review",
                failed_retranscription |-> r.status = "transcribed" /\ r.retranscriptionFailed,
                failed |-> r.status = "failed",
                awaiting_summary |-> AwaitingSummary(r),
                failed_summary |-> r.summary = "failed",
                failed_resummarization |-> r.resummarizationFailed,
                missing_audio |-> r.audio = "missing"]
  IN {name \in DOMAIN group : ~ r.archived /\ group[name]}
review_badge(r) ==
  /\ ~ r.archived
  /\ \/ r.status \in {"needs_review", "failed"}
     \/ r.retranscriptionFailed \/ r.resummarizationFailed \/ r.summary = "failed"
     \/ AwaitingSummary(r) \/ r.audio = "missing"

-----------------------------------------------------------------------------
(* What a search found.  A document is an index row of the recording: of the *)
(* recording itself, of a summary, or of a segment.                          *)

Unowned == <<"none", 0>>
_item_key_case(d, r) ==
  LET owning ==
        CASE d.type = "summary" -> {s \in r.sections : d.current /\ d.active /\ s.id = d.section}
          [] d.type = "segment" -> {s \in r.sections : d.current /\ s.start <= d.ordinal /\ d.ordinal < s.end}
          [] OTHER -> {}
  IN IF ~ r.split THEN RecordingItem(r)
     ELSE IF owning = {} THEN Unowned ELSE SectionItem(CHOOSE s \in owning : TRUE)

\* The items under which the documents of a recording can be found.
FoundItems(documents, r, f) ==
  {_item_key_case(d, r) : d \in documents} \cap library_items({r}, f)

\* Keys of an answer back to cards: in the order asked for, once each, those that
\* were items at the first read and still are at the second.
library_items_by_keys(keys, before, after, f) ==
  LET canonical == SelectSeq([i \in DOMAIN keys |-> <<keys[i][1], keys[i][2]>>],
                             LAMBDA key : key[1] \in {"r", "s"})
      First(key) == SelectInSeq(canonical, LAMBDA other : other = key)
      order == Sorted(Range(canonical), LAMBDA a, b : First(a) < First(b))
  IN IF Len(keys) > ItemKeyLimit THEN {}
     ELSE {SelectSeq(order, LAMBDA key : key \in library_items(before, f) /\ key \in library_items(after, f))}

-----------------------------------------------------------------------------
(* The title: once by SQL, for the order, and once in Python, for documents    *)
(* and cards.  A null is an empty set; rows in the order of their ordinals.   *)

Coalesce(options) ==
  LET set == {i \in DOMAIN options : options[i] # {}}
  IN Text(options[CHOOSE i \in set : \A j \in set : i <= j])
FirstTitle(rows) == IF rows = <<>> THEN {} ELSE {rows[1].title}

_display_title_expression(rows, language, filename) ==
  Coalesce(<<FirstTitle(SelectSeq(rows, LAMBDA row : {row.language} = language)),
             FirstTitle(rows), filename, {"Untitled recording"}>>)

display_title_from_recording(rows, language, filename) ==
  LET named == SelectSeq(rows, LAMBDA row : row.title # "")
      usable(option) == option \ {""}
  IN Coalesce(<<FirstTitle(SelectSeq(named, LAMBDA row : {row.language} = language)),
                FirstTitle(named), usable(filename), {"Untitled recording"}>>)

=============================================================================
