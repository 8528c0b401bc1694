----------------------------- MODULE MCPipeline -----------------------------
(* Bounded instances of Pipeline for TLC. *)
EXTENDS Pipeline, TLC

\* A source of the Chinese family, and one that is not.
MCSourceLanguages == {Tag("yue", Unset), English}
MCEnglish == {English}

\* Processes are interchangeable.
Symmetry == Permutations(Procs)
=============================================================================
