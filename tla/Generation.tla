----------------------------- MODULE Generation -----------------------------
(***************************************************************************)
(* What one generation of a summary asks of the language model: the plan   *)
(* of chunks, one request for every chunk, the reduction of the partial    *)
(* summaries, and the protocol of a single request with its repair.        *)
(* src/src/workflow/services/chunking.py, summarize.py, llm.py.            *)
(*                                                                         *)
(* A text is its length.  A reduction is defined by recursion, so nothing  *)
(* is proved from this module.                                             *)
(***************************************************************************)
EXTENDS Integers, Sequences, FiniteSets, SequencesExt

-----------------------------------------------------------------------------
(* The plan.  A piece: [text, from, length], so many characters of a segment. *)

\* `split_oversized', for a text of at most limit characters itself.
SplitOversized(text, length, limit) ==
  LET count == IF length <= limit THEN 1 ELSE (length + limit - 1) \div limit
      Left(i) == length - (i - 1) * limit
  IN [i \in 1..count |->
        [text |-> text, from |-> (i - 1) * limit, length |-> IF Left(i) <= limit THEN Left(i) ELSE limit]]
Pieces(lengths, limit) ==
  FlattenSeq([t \in DOMAIN lengths |-> SplitOversized(t, lengths[t], limit)])

\* `current_length': joined by line feeds.
JoinedLength(parts) ==
  FoldLeft(LAMBDA n, piece : n + piece.length, 0, parts) + (IF parts = <<>> THEN 0 ELSE Len(parts) - 1)
LastPieces(parts, n) == SubSeq(parts, Len(parts) - n + 1, Len(parts))
MostOf(n, P(_)) == CHOOSE k \in 0..n : P(k) /\ \A j \in (k + 1)..n : ~P(j)

\* `_overlap_segments': as many whole pieces from the end as fit.
OverlapSegments(closed, overlap) ==
  IF overlap = 0 THEN <<>>
  ELSE LastPieces(closed, MostOf(Len(closed), LAMBDA n : n = 0 \/ JoinedLength(LastPieces(closed, n)) <= overlap))

\* A turn of the loop of `build_chunks'.
AddPiece(plan, piece, limit, overlap) ==
  LET Fits(parts) == parts = <<>> \/ JoinedLength(parts) + 1 + piece.length <= limit
      kept == OverlapSegments(plan.current, overlap)
      trimmed == LastPieces(kept, MostOf(Len(kept), LAMBDA n : Fits(LastPieces(kept, n))))
      closes == ~Fits(plan.current)
      current == Append(IF closes THEN trimmed ELSE plan.current, piece)
      chunks == IF closes THEN Append(plan.chunks, plan.current) ELSE plan.chunks
  IN IF JoinedLength(current) >= limit
     THEN [chunks |-> Append(chunks, current), current |-> <<>>]
     ELSE [chunks |-> chunks, current |-> current]

BuildChunks(lengths, limit, overlap) ==
  LET plan == FoldLeft(LAMBDA p, piece : AddPiece(p, piece, limit, overlap),
                       [chunks |-> <<>>, current |-> <<>>], Pieces(lengths, limit))
  IN IF plan.current = <<>> THEN plan.chunks ELSE Append(plan.chunks, plan.current)

\* `check_chunk_limits'
ExceedsLimits(chunks, lengths, maxTotal, maxChunks) ==
  FoldLeft(LAMBDA n, length : n + length, 0, lengths) > maxTotal \/ Len(chunks) > maxChunks

-----------------------------------------------------------------------------
(* A logical request and the replies it gets.  "valid": the model's JSON passes
   every check; "invalid": a reply that is not; "rejected": the server does not
   know the structured format; "failed": anything else, and never tried again.
   world: [large, largeRepair, replies], the requests that are over the limit of
   a request, with and without the repair instruction, and the replies in turn. *)

TooLarge == "input_too_large"

\* One HTTP request behind its gate: what it returns or raises, after sent others.
Run(world, request, repair, sent) ==
  IF request \in (IF repair THEN world.largeRepair ELSE world.large)
  THEN [result |-> TooLarge, sent |-> sent]
  ELSE [result |-> world.replies[request][sent + 1], sent |-> sent + 1]

\* `_call_llm'.  A rejection of a plain request is a failure like any other.
CallLlm(world, request) ==
  LET first == Run(world, request, FALSE, 0)
      plain == Run(world, request, FALSE, first.sent)
      Repaired(run) == IF run.result = "invalid" THEN Run(world, request, TRUE, run.sent) ELSE run
      last == IF first.result = "rejected" THEN Repaired(plain) ELSE Repaired(first)
  IN [last EXCEPT !.result = IF @ = "rejected" THEN "failed" ELSE @]

-----------------------------------------------------------------------------
(* The reduction.  A step of it: [result, requests, covers], how it ended, the
   logical requests made and the chunks its summary stands on, both in order. *)

Request(stage, first, last) == [stage |-> stage, first |-> first, last |-> last]

\* A logical request for the chunks of covers.
Ask(world, request, covers) ==
  [result |-> CallLlm(world, request).result, requests |-> <<request>>,
   covers |-> IF CallLlm(world, request).result = "valid" THEN covers ELSE <<>>]

\* One step and, if it is valid, another.
Then(step, next) ==
  IF step.result # "valid" THEN step
  ELSE [next EXCEPT !.requests = step.requests \o @, !.covers = step.covers \o @]

\* `_reduce_layer' of the partial summaries first..last: in one request, or if
\* that is too large each half by itself, and then the two, which is not split.
RECURSIVE ReduceLayer(_, _, _)
ReduceLayer(world, first, last) ==
  LET covers == [i \in 1..(last - first + 1) |-> first + i - 1]
      direct == Ask(world, Request("reduce", first, last), covers)
      middle == first + ((last - first + 1) \div 2)
      halves == Then(ReduceLayer(world, first, middle - 1), ReduceLayer(world, middle, last))
      merge == Ask(world, Request("merge", first, last), halves.covers)
      AfterDirect(step) == [step EXCEPT !.requests = direct.requests \o @]
  IN IF direct.result # TooLarge \/ first = last THEN direct
     ELSE IF halves.result # "valid" THEN AfterDirect(halves)
     ELSE AfterDirect([merge EXCEPT !.requests = halves.requests \o @])

\* The request of every chunk in turn, as long as they are valid.
MapChunks(world, chunks) ==
  FoldLeft(LAMBDA step, i : Then(step, Ask(world, Request("map", i, i), <<i>>)),
           [result |-> "valid", requests |-> <<>>, covers |-> <<>>], [i \in 1..chunks |-> i])

\* `_generate_summary'
GenerateSummary(world, chunks) ==
  IF chunks = 1 THEN Ask(world, Request("whole", 1, 1), <<1>>)
  ELSE LET mapped == MapChunks(world, chunks)
           reduced == ReduceLayer(world, 1, chunks)
       IN IF mapped.result # "valid" THEN mapped
          ELSE [reduced EXCEPT !.requests = mapped.requests \o @]
=============================================================================
