---------------------------- MODULE MCWebActions ----------------------------
(* Bounded instances of WebActions for TLC. *)
EXTENDS WebActions, TLC

MCEnglish == {English}
MCCantonese == {Tag("yue", Unset)}
=============================================================================
