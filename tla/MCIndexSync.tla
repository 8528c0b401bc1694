---------------------------- MODULE MCIndexSync ----------------------------
(***************************************************************************)
(* Two recordings.  The first has two transcripts, one after the other, a  *)
(* summary of the whole and a summary of a section with a tag of its own;  *)
(* of the second only the tag changes.                                     *)
(***************************************************************************)
EXTENDS IndexSync

Transcript(n, active) ==
  [id |-> n, active |-> active, segments |-> IF n = 1 THEN <<"hello", Blank>> ELSE <<"hi">>]
Whole(n, t, active) ==
  [id |-> n, transcript |-> t, section |-> 0, active |-> active, language |-> "en", text |-> "title"]
Section(n, t) ==
  [id |-> n, transcript |-> t, section |-> 5, active |-> TRUE, language |-> "en", text |-> "part"]
Tag(name, section, active) == [name |-> name, section |-> section, active |-> active]

First(transcripts, summaries, canonical, tags) ==
  [transcripts |-> transcripts, default |-> "en", summaries |-> summaries,
   canonical |-> canonical, tags |-> tags, file |-> "file"]

Sections1 == {[id |-> 5, transcript |-> 1]}
One == First({Transcript(1, TRUE)}, {Whole(1, 1, TRUE), Section(2, 1)}, Sections1,
             {Tag("work", 5, TRUE)})
OneUntagged == [One EXCEPT !.tags = {Tag("work", 5, FALSE)}]
\* the summary of the replaced transcript stays active
Two == First({Transcript(1, FALSE), Transcript(2, TRUE)}, {Whole(1, 1, TRUE), Section(2, 1)}, {},
             {Tag("work", 5, TRUE)})
Plain(active) == First({}, {}, {}, {Tag("home", 0, active)})

MCVersions == [r1 |-> {One, OneUntagged, Two}, r2 |-> {Plain(TRUE), Plain(FALSE)}]
MCVersionsOfOne == [r1 |-> {One, OneUntagged, Two}]

MCKeyOrder == << <<"recording", "r1", 0>>, <<"recording", "r2", 0>>, <<"segment", 1, 1>>,
                 <<"segment", 2, 1>>, <<"summary", 1, 0>>, <<"summary", 2, 0>> >>
MCRecordings == {"r1", "r2"}
MCRecordingsOfOne == {"r1"}
=============================================================================
