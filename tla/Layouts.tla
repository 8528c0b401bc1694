------------------------------ MODULE Layouts ------------------------------
(***************************************************************************)
(* The trim & split layout of a transcript: a working range of segments    *)
(* and the topic sections that partition it.  What a submitted payload may *)
(* be, what is stored for it, and what a stored layout must look like to   *)
(* be believed: once in Python and once in SQL.                            *)
(* src/src/workflow/services/segmentation.py                               *)
(*                                                                         *)
(* A title is a record: "custom"; "blank", the empty one; "invalid", of    *)
(* whitespace only, too long or with control characters; or "auto", the    *)
(* name the server gives the n-th section, with the date it was derived    *)
(* from.  A row is a stored Section.                                       *)
(***************************************************************************)
EXTENDS Integers, Sequences, FiniteSets, SequencesExt, FiniteSetsExt, Sorting

CONSTANT MaxTopicSections
ASSUME LayoutAssumption == MaxTopicSections \in Nat /\ MaxTopicSections >= 2

Custom(name) == [kind |-> "custom", name |-> name, ordinal |-> 0]
AutoTitle(ordinal, date) == [kind |-> "auto", name |-> date, ordinal |-> ordinal]
Blank == [kind |-> "blank", name |-> "", ordinal |-> 0]
Invalid == [kind |-> "invalid", name |-> "", ordinal |-> 0]

\* `_validate_title', `_stored_title_valid'
TitleValid(title) == title.kind \in {"custom", "auto"}
\* `_temporary_title_shape_valid': of any date, the date is not compared.
TemporaryTitleShapeValid(ordinal, title) == title.kind = "auto" /\ title.ordinal = ordinal

Row(transcript, ordinal, start, end, title, temporary) ==
  [transcript |-> transcript, ordinal |-> ordinal, start |-> start, end |-> end,
   title |-> title, temporary |-> temporary]

LayoutInvalid == [error |-> "layout_invalid"]
IsError(result) == "error" \in DOMAIN result

-----------------------------------------------------------------------------
(* Reading a stored layout.  `version' is [transcript, start, end]. *)

Contiguous(ordinals) ==
  ordinals # {} /\ Min(ordinals) = 0 /\ Max(ordinals) = Cardinality(ordinals) - 1

canonical_layout_from_rows(version, transcript, ordinals, rows) ==
  LET end(i) == IF i = 0 THEN version.start ELSE rows[i].end
      RowValid(i) ==
        /\ rows[i].transcript = transcript
        /\ rows[i].ordinal = i
        /\ rows[i].start = end(i - 1)
        /\ rows[i].end > rows[i].start
        /\ TitleValid(rows[i].title)
        /\ rows[i].temporary => TemporaryTitleShapeValid(i, rows[i].title)
  IN IF /\ version.transcript = transcript
        /\ Contiguous(ordinals)
        /\ version.start >= 0 /\ version.end <= Cardinality(ordinals)
        /\ version.start < version.end
        /\ Len(rows) # 1 /\ Len(rows) <= MaxTopicSections
        /\ \A i \in DOMAIN rows : RowValid(i)
        /\ rows # <<>> => rows[Len(rows)].end = version.end
     THEN [start |-> version.start, end |-> version.end,
           splits |-> [i \in 1 .. Len(rows) - 1 |-> rows[i].end],
           titles |-> [i \in DOMAIN rows |-> rows[i].title],
           flags |-> [i \in DOMAIN rows |-> rows[i].temporary]]
     ELSE LayoutInvalid

\* Every clause of the WHERE is about one row or an aggregate over the rows.
canonical_layout_predicate(version, transcript, active, ordinals, rows) ==
  /\ active.version /\ active.transcript
  /\ version.transcript = transcript
  /\ ordinals # {} /\ Min(ordinals) = 0 /\ Max(ordinals) + 1 = Cardinality(ordinals)
  /\ version.start >= 0 /\ version.end > version.start
  /\ version.end <= Cardinality(ordinals)
  /\ Cardinality(rows) >= 2 /\ Cardinality(rows) <= MaxTopicSections
  /\ ~ \E bad \in rows :
        LET lower == {row \in rows : row.ordinal < bad.ordinal}
        IN \/ bad.transcript # version.transcript
           \/ bad.ordinal < 1
           \/ bad.end <= bad.start
           \/ ~ TitleValid(bad.title)
           \/ bad.temporary /\ ~ TemporaryTitleShapeValid(bad.ordinal, bad.title)
           \/ Cardinality(lower) # bad.ordinal - 1
           \/ bad.start # IF lower = {} THEN version.start ELSE Max({row.end : row \in lower})
  /\ Max({row.end : row \in rows}) = version.end

-----------------------------------------------------------------------------
(* Writing one.  A payload is [start, end, splits, titles, flags]; `flags'
   is empty or has one flag for each title. *)

TopicCount(splits) == IF splits = <<>> THEN 0 ELSE Len(splits) + 1

\* `parse_segmentation_payload', after the form is decoded.
PayloadParses(payload) ==
  /\ Len(payload.splits) <= MaxTopicSections - 1 /\ Len(payload.titles) <= MaxTopicSections
  /\ Len(payload.titles) = TopicCount(payload.splits)
  /\ payload.flags = <<>> \/ Len(payload.flags) = Len(payload.titles)
Parsed(payload) ==
  IF payload.flags # <<>> THEN payload
  ELSE [payload EXCEPT !.flags = [i \in DOMAIN payload.titles |-> FALSE]]

RangeValid(payload, ordinals) ==
  /\ Contiguous(ordinals)
  /\ payload.start >= 0 /\ payload.end <= Cardinality(ordinals)
  /\ payload.start < payload.end
  /\ \A marker \in Range(payload.splits) : payload.start < marker /\ marker < payload.end

\* `current' is the layout of the active version, or {} when there is none.
Unchanged(payload, current, ordinals) ==
  \/ current = {payload}
  \/ /\ current = {}
     /\ payload = [start |-> 0, end |-> Cardinality(ordinals),
                   splits |-> <<>>, titles |-> <<>>, flags |-> <<>>]

\* A title marked temporary is left blank or is the one the server derives today.
TitlesAllowed(payload, date) ==
  \A i \in DOMAIN payload.titles :
    IF payload.flags[i] THEN payload.titles[i].kind = "blank" \/ payload.titles[i] = AutoTitle(i, date)
    ELSE TitleValid(payload.titles[i])

\* Read-only validation by the view, before the lock; the splits as submitted.
validate_payload_for_transcript(payload, current, ordinals, date) ==
  /\ RangeValid(payload, ordinals)
  /\ IsInjective(payload.splits)
  /\ LayoutInvalid \notin current
  /\ Unchanged(payload, current, ordinals) \/ TitlesAllowed(payload, date)

\* `save_segmented_version' and `_save_locked': "error", "unchanged", or the rows.
SavedRows(transcript, payload, date) ==
  LET bounds == <<payload.start>> \o payload.splits \o <<payload.end>>
  IN [i \in 1 .. TopicCount(payload.splits) |->
        Row(transcript, i, bounds[i], bounds[i + 1],
            IF payload.flags[i] THEN AutoTitle(i, date) ELSE payload.titles[i], payload.flags[i])]

save_segmented_version(transcript, submitted, current, ordinals, date) ==
  LET payload == [Parsed(submitted) EXCEPT !.splits = Ascending(Range(@))]
      ShapeValid(i) == \/ TitleValid(payload.titles[i])
                       \/ payload.flags[i] /\ payload.titles[i].kind = "blank"
  IN IF /\ PayloadParses(submitted) /\ IsInjective(submitted.splits)
        /\ \A i \in DOMAIN payload.titles : ShapeValid(i)
        /\ RangeValid(payload, ordinals)
        /\ LayoutInvalid \notin current
     THEN IF Unchanged(payload, current, ordinals) THEN [result |-> "unchanged"]
          ELSE IF TitlesAllowed(payload, date)
               THEN [result |-> "saved", rows |-> SavedRows(transcript, payload, date)]
               ELSE [result |-> "error"]
     ELSE [result |-> "error"]

=============================================================================
