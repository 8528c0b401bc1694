------------------------------ MODULE MCIngest ------------------------------
(* An instance of Ingest for TLC. *)
EXTENDS Ingest
=============================================================================
