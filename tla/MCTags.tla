------------------------------- MODULE MCTags -------------------------------
(* An instance of Tags for TLC. *)
EXTENDS Tags, TLC

KeySymmetry == Permutations(Keys)
=============================================================================
