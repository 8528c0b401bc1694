-------------------------- MODULE AlgorithmChecks ---------------------------
(***************************************************************************)
(* The pure algorithms against what they are for, over bounded inputs.     *)
(* TLC evaluates these assumptions on every run of a module that extends   *)
(* this one.                                                               *)
(***************************************************************************)
EXTENDS Integers, Sequences, FiniteSets

S == INSTANCE Selection
G == INSTANCE Generation
R == INSTANCE Router

-----------------------------------------------------------------------------
(* Selection *)

\* Documents of three recordings in the order of the stream.  The second one of
\* the first recording belongs to another item of it.
StreamOf(types, similarities) ==
  [i \in 1..4 |-> [recording |-> <<1, 1, 2, 3>>[i], document |-> <<2, 5, 1, 3>>[i], item |-> i,
                   type |-> types[i], similarity |-> similarities[i]]]
Streams ==
  {StreamOf(types, similarities) :
     types \in {<<"segment", "summary", "summary", "recording">>,
                <<"summary", "segment", "segment", "segment">>},
     similarities \in [1..4 -> {0, 1}]}
  \cup {StreamOf(<<"recording", "segment", "summary", "segment">>, <<0, 1, S!Unusable, 1>>)}

UnitIn(purpose, d) ==
  CASE purpose = "recording" -> d.recording [] purpose = "item" -> d.item [] purpose = "evidence" -> d.document
EntriesOf(stream, purpose) ==
  {S!Entry(stream[i], UnitIn(purpose, stream[i])) :
     i \in {j \in DOMAIN stream : purpose = "evidence" => stream[j].type # "recording"}}
BetterThan(e, entries) == {f \in entries : S!Before(f.key, e.key)}
FirstOf(entries, n) == {e \in entries : Cardinality(BetterThan(e, entries)) < n}
BestOfUnits(entries) == {e \in entries : \A f \in BetterThan(e, entries) : f.unit # e.unit}
FewOfRecordings(entries, few) ==
  {e \in entries : Cardinality({f \in BetterThan(e, entries) : f.recording = e.recording}) < few}

\* What is selected, defined over all documents at once.
Reference(stream, purpose, limit, few) ==
  LET all == EntriesOf(stream, purpose)
  IN S!Ordered(FirstOf(IF purpose = "evidence" THEN FewOfRecordings(all, few) ELSE BestOfUnits(all), limit))

\* A stream is selected from as if all of it had been held at once, although only
\* one recording and limit winners ever are; a vector of length zero fails it.
ASSUME StreamingSelectsTheBest ==
  \A stream \in Streams, purpose \in {"recording", "item", "evidence"}, limit \in 1..3, few \in 1..2 :
    LET selected == S!SelectSemantic(stream, purpose, limit, few)
    IN IF \E i \in DOMAIN stream : stream[i].similarity = S!Unusable
       THEN selected.failure = "invalid_document_vector"
       ELSE selected.failure = "none" /\ selected.winners = Reference(stream, purpose, limit, few)

\* A stream in any other order fails: no recording is ever offered half.
ASSUME DisorderFails ==
  LET stream == StreamOf(<<"summary", "segment", "segment", "segment">>, <<1, 0, 1, 0>>)
  IN \A order \in {p \in [1..4 -> 1..4] : {p[i] : i \in 1..4} = 1..4} :
       S!SelectSemantic([i \in 1..4 |-> stream[order[i]]], "recording", 2, 1).failure
         = IF order = [i \in 1..4 |-> i] THEN "none" ELSE "candidate_order"

\* The count of what matched is exact for recordings and for items.
ASSUME CountsAreExact ==
  \A stream \in Streams, limit \in 1..3, purpose \in {"recording", "item"} :
    LET found == S!SemanticSearch(stream, purpose, limit)
    IN found.failure = "none" =>
         Len(found.results) + found.more = Cardinality({e.unit : e \in EntriesOf(stream, purpose)})

-----------------------------------------------------------------------------
(* The bounds of the keyword engine *)

Terms == {[field |-> 0, occurrences |-> 1, offset |-> 3], [field |-> 1, occurrences |-> 2, offset |-> 0]}
Rows(types, terms, present) ==
  {[unit |-> <<1, 1, 1, 2>>[i], document |-> i, type |-> types[i], terms |-> terms[i]] : i \in present}
RowSets ==
  {Rows(types, terms, present) :
     types \in {<<"segment", "recording", "summary", "segment">>, <<"segment", "segment", "summary", "summary">>},
     terms \in [1..4 -> Terms], present \in SUBSET (1..4)}
AllUnits(rows) == {row.unit : row \in rows}

\* A result is said to be cut if and only if a matching row was not scored;
\* where none was cut the best row of every unit wins; and the number of units
\* that matched is either right or said to be unknown.
ASSUME TruncationIsReported ==
  \A rows \in RowSets, perUnit \in 1..2, maxScored \in 1..3 :
    LET selected == S!SelectCandidates(rows, perUnit, maxScored)
        found == S!SearchRecordings(rows, 1, perUnit, maxScored)
    IN /\ selected.truncated <=> selected.candidates # rows
       /\ found.more # S!UnknownCount => Len(found.results) + found.more = Cardinality(AllUnits(rows))
       /\ ~selected.truncated /\ rows # {} =>
            \A row \in rows : row.document = found.results[1].document
                              \/ S!Before(found.results[1].key, S!Comparator(row))

-----------------------------------------------------------------------------
(* Fusion *)

RanksOf(identities) == {s \in UNION {[1..n -> identities] : n \in 0..2} : \A i, j \in DOMAIN s : s[i] = s[j] => i = j}
Lists == {[i \in DOMAIN s |-> [identity |-> s[i], rank |-> i]] : s \in RanksOf(1..3)}
Components == {[results |-> list, truncated |-> more # 0, more |-> more] : list \in Lists, more \in {0, 1, S!UnknownCount}}

Depths == {S!NoRank, 1, 2, 61, 62, 63, 200}
Items == {[identity |-> i, keyword |-> k, semantic |-> s] : i \in 1..2, k \in Depths, s \in Depths}
Found == {item \in Items : S!PresentRanks(item) # {}}
NotWorse(a, b) == b = S!NoRank \/ (a # S!NoRank /\ a <= b)

\* The order of the fused list is total, and an item that no component ranks
\* behind another one is not behind it.
ASSUME FusionRespectsRanks ==
  \A a, b \in Found :
    /\ a.identity # b.identity => (S!FusedBefore(a, b) <=> ~S!FusedBefore(b, a))
    /\ NotWorse(a.keyword, b.keyword) /\ NotWorse(a.semantic, b.semantic)
       /\ (a.keyword # b.keyword \/ a.semantic # b.semantic) => S!FusedBefore(a, b)

\* Every identity is fused once, and how many were left out is known only where
\* both components gave all they had.
ASSUME FusionCountsOnlyWhatIsComplete ==
  \A keyword, semantic \in Components :
    LET found == S!Assembled(keyword, semantic, 2)
        all == S!Identities(keyword.results) \cup S!Identities(semantic.results)
    IN /\ Cardinality(S!Identities(S!Fused(keyword.results, semantic.results))) = Cardinality(all)
       /\ IF keyword.more = 0 /\ semantic.more = 0
          THEN Len(found.results) + found.more = Cardinality(all)
          ELSE found.more = S!UnknownCount

-----------------------------------------------------------------------------
(* Chunks *)

CHUNK == 4
Transcripts == UNION {[1..n -> {0, 1, 2, 3, 9}] : n \in 1..4}

\* Where the pieces of a chunk stand among all pieces.
Spans(chunks, pieces) ==
  [c \in DOMAIN chunks |->
     [first |-> CHOOSE i \in DOMAIN pieces : pieces[i] = chunks[c][1],
      last |-> CHOOSE i \in DOMAIN pieces : pieces[i] = chunks[c][Len(chunks[c])]]]

\* The chunks are within the limit and cover every piece of the transcript in its
\* order; each has a piece that is new, and repeats no more than the overlap.
ASSUME ChunksCoverTheTranscript ==
  \A lengths \in Transcripts, overlap \in 0..(CHUNK - 1) :
    LET pieces == G!Pieces(lengths, CHUNK)
        chunks == G!BuildChunks(lengths, CHUNK, overlap)
        span == Spans(chunks, pieces)
    IN /\ \A c \in DOMAIN chunks :
            /\ chunks[c] = SubSeq(pieces, span[c].first, span[c].last)
            /\ G!JoinedLength(chunks[c]) <= CHUNK
       /\ span[1].first = 1 /\ span[Len(chunks)].last = Len(pieces)
       /\ \A c \in 1..(Len(chunks) - 1) :
            /\ span[c + 1].first <= span[c].last + 1
            /\ span[c + 1].last > span[c].last
            /\ G!JoinedLength(SubSeq(pieces, span[c + 1].first, span[c].last)) <= overlap

\* A chunk may begin without the end of the chunk before it although it would fit:
\* one that was exactly full passes nothing on.
ASSUME AFullChunkPassesNothingOn ==
  LET chunks == G!BuildChunks(<<2, 1, 1>>, CHUNK, 1)
  IN Len(chunks) = 2 /\ Len(chunks[2]) = 1

-----------------------------------------------------------------------------
(* Requests *)

Replies == {"valid", "invalid", "rejected", "failed"}
OneRequest == G!Request("whole", 1, 1)

\* A logical request is at most two HTTP requests, and three only after the server
\* has rejected the format; it is valid exactly if the last of them was, and
\* invalid only if its repair was invalid too.
ASSUME RequestsAreBounded ==
  \A replies \in [1..3 -> Replies], large, repair \in BOOLEAN :
    LET world == [large |-> IF large THEN {OneRequest} ELSE {},
                  largeRepair |-> IF large \/ repair THEN {OneRequest} ELSE {},
                  replies |-> [r \in {OneRequest} |-> replies]]
        call == G!CallLlm(world, OneRequest)
    IN /\ call.sent = 3 => replies[1] = "rejected"
       /\ call.result = G!TooLarge => large \/ (repair /\ replies[call.sent] = "invalid")
       /\ call.result # G!TooLarge => (call.result = "valid" <=> replies[call.sent] = "valid")
       /\ call.result = "invalid" => call.sent >= 2 /\ replies[call.sent - 1] = "invalid"

CHUNKS == 4
Requests(n) == {G!Request("map", i, i) : i \in 1..n}
               \cup {G!Request(stage, i, j) : stage \in {"reduce", "merge"}, i \in 1..n, j \in 1..n}
Reductions ==
  {G!Request("reduce", i, i) : i \in 1..CHUNKS}
  \cup {G!Request(stage, at[1], at[2]) : stage \in {"reduce", "merge"}, at \in {<<1, 4>>, <<1, 2>>, <<3, 4>>}}
World(n, large, reply) ==
  [large |-> large, largeRepair |-> large, replies |-> [r \in Requests(n) |-> reply]]

\* Whichever requests are too large: a summary stands on every chunk once and in
\* order, no request is made twice, and there are at most three for every chunk
\* beside its own.
ASSUME SummariesStandOnEveryChunk ==
  \A large \in SUBSET Reductions, reply \in {<<"valid">>, <<"invalid", "valid">>} :
    LET made == G!GenerateSummary(World(CHUNKS, large, reply), CHUNKS)
    IN /\ made.result = "valid" => made.covers = [i \in 1..CHUNKS |-> i]
       /\ made.result \in {"valid", G!TooLarge}
       /\ \A i, j \in DOMAIN made.requests : made.requests[i] = made.requests[j] => i = j
       /\ Len(made.requests) <= 4 * CHUNKS - 2

\* A reduction that cannot succeed, because one partial summary by itself is too
\* large, is found out only after other reductions were asked for and answered.
ASSUME TooLargeIsFoundLate ==
  LET made == G!GenerateSummary(World(CHUNKS, {r \in Reductions : r.last = CHUNKS}, <<"valid">>), CHUNKS)
  IN made.result = G!TooLarge /\ G!Request("reduce", 1, 2) \in {made.requests[i] : i \in DOMAIN made.requests}

-----------------------------------------------------------------------------
(* Routing: nothing the theorems about the router say is empty. *)

Text(cjk, traditional, simplified, cantonese, mandarin, degenerate) ==
  [chars |-> 100, cjk |-> cjk, traditional |-> traditional, simplified |-> simplified,
   cantonese |-> cantonese, mandarin |-> mandarin, tokens |-> 10, degenerate |-> degenerate]
Gate == [enabled |-> TRUE, families |-> R!ChineseRoutes, minScore |-> [route \in R!ChineseRoutes |-> 200],
         dominance |-> 300, maxOpposing |-> 100, minVoiced |-> 2, minCjk |-> 300]
Config == [enabled |-> TRUE, gate |-> Gate, profiles |-> R!Candidates, manualOnly |-> {},
           threshold |-> 800, autoTranscribe |-> TRUE]
Bundle == [failure |-> "none", windows |-> R!MergedWindows(60, FALSE), voiced |-> 1..3]
Wordings(hk, cn, parakeet) == [c \in R!Candidates |->
  IF c = "cantonese" THEN hk ELSE IF c = "mandarin" THEN cn ELSE parakeet]
SpokenText == {Text(90, 8, 0, 5, 0, 5), Text(90, 0, 8, 0, 5, 5), Text(90, 8, 0, 0, 0, 5), Text(0, 0, 0, 0, 0, 0)}
AnswerSet == {[result |-> "valid", route |-> route, confidence |-> confidence] :
               route \in R!Routes, confidence \in {700, 900}}
             \cup {[result |-> result, route |-> "uncertain", confidence |-> 0] :
                    result \in {"unavailable", "invalid"}}

\* Of samples of 16 bits a window is silent if none is louder than the threshold.
\* Others are read as if they had 16 bits: silence of 8 bits is loud, and an odd
\* number of such samples is an exception.
Source(width) == [duration |-> 60, width |-> width, conversion |-> "done", converted |-> 60]
Quiet(width, frames) ==
  R!AllSilent(R!Sampled(Source(width), FALSE, [i \in 1..3 |-> frames]))
ASSUME OnlySixteenBitsAreUnderstood ==
  /\ \A a, b \in {-32768, -250, -249, 0, 249, 250, 32767} :
       Quiet(2, <<a, b>>) <=> \A sample \in {a, b} : -250 < sample /\ sample < 250
  /\ Quiet(3, <<0, 0>>) /\ Quiet(4, <<0, 0>>) /\ ~Quiet(1, <<128, 128>>)
  /\ R!Sampled(Source(1), FALSE, [i \in 1..3 |-> <<128>>]).failure = "exception"

\* Every reason for a review or an automatic route occurs.
ASSUME EveryReasonOccurs ==
  {R!RouteRecording(Config, Bundle, Wordings(hk, cn, parakeet), answer).reason :
     hk \in SpokenText, cn \in SpokenText, parakeet \in SpokenText, answer \in AnswerSet}
  = {"auto_confident", "auto_confident_heuristic_classifier_unavailable",
     "auto_confident_heuristic_classifier_invalid", "classifier_unavailable", "classifier_invalid",
     "contradictory_evidence", "zh_ambiguous", "low_confidence"}

=============================================================================
