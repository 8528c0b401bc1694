---------------------------- MODULE MCVariants ----------------------------
(* A recording of two segments, two transcripts and two layouts. *)
EXTENDS Variants

MCSourceLanguages == {Tag("zh", "HK"), Tag("und", Unset)}
MCRoutingDecisions == {{}, {[chinese |-> TRUE, automatic |-> TRUE, verified |-> FALSE]}}
\* Two named topics, the first with a name of the server; and a crop.
MCPayloads ==
  {[start |-> 0, end |-> 2, splits |-> <<1>>, titles |-> <<Blank, Custom("a")>>, flags |-> <<TRUE, FALSE>>],
   [start |-> 0, end |-> 1, splits |-> <<>>, titles |-> <<>>, flags |-> <<>>]}
MCRequested == {"default", "original"}
=============================================================================
