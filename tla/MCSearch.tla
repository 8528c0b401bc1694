------------------------------ MODULE MCSearch ------------------------------
(* An instance of Search for TLC: the recording 1 with its title and a      *)
(* segment of a topic section, the recording 2 with a section summary and a *)
(* summary of the whole of it.  With it TLC evaluates the checks of the     *)
(* pure algorithms.                                                         *)
EXTENDS Search, AlgorithmChecks, LibraryChecks

MCOwner == <<1, 1, 2, 2>>
MCSection == <<0, 11, 12, 0>>
=============================================================================
