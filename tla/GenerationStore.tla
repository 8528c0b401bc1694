-------------------------- MODULE GenerationStore --------------------------
(***************************************************************************)
(* What the embedding index promises to the searches that read it: one     *)
(* generation at most is active; it was a complete image of the registry   *)
(* when it became active; every vector written into it was computed from   *)
(* the row the registry had when it was written; no vector of a document   *)
(* that exists is taken away; and nothing happens any more to a generation *)
(* that failed or was superseded.                                          *)
(***************************************************************************)
EXTENDS Integers, Sequences

CONSTANT Rows          \* the possible rows of the registry, each with a key
CONSTANT MaxGenerations

VARIABLES
  rows,     \* the registry
  store     \* the generations: [state, vectors], in the order of their creation

storeVars == <<rows, store>>

States == {"building", "active", "superseded", "failed"}
Keys(S) == {d.key : d \in S}
ActiveOnes == {g \in DOMAIN store : store[g].state = "active"}

StoreInit == store = <<>> /\ rows \subseteq Rows

Refresh == rows' \subseteq Rows /\ UNCHANGED store

Create ==
  /\ Len(store) < MaxGenerations
  /\ store' = Append(store, [state |-> "building", vectors |-> {}])
  /\ UNCHANGED rows

\* Vectors of existing rows are written, over older ones of the same documents.
Write(g, S) ==
  /\ store[g].state \in {"building", "active"}
  /\ store' = [store EXCEPT ![g].vectors = {v \in store[g].vectors : v.key \notin Keys(S)} \cup S]
  /\ UNCHANGED rows

\* Vectors of documents that do not exist are removed.
Remove(g, S) ==
  /\ Keys(S) \cap Keys(rows) = {}
  /\ store' = [store EXCEPT ![g].vectors = store[g].vectors \ S]
  /\ UNCHANGED rows

Promote(g) ==
  /\ store[g].state = "building"
  /\ store[g].vectors = rows
  /\ store' = [h \in DOMAIN store |->
                 [store[h] EXCEPT !.state = IF h = g THEN "active"
                                            ELSE IF h \in ActiveOnes THEN "superseded"
                                            ELSE store[h].state]]
  /\ UNCHANGED rows

Fail(g) ==
  /\ store[g].state = "building"
  /\ store' = [store EXCEPT ![g].state = "failed"]
  /\ UNCHANGED rows

\* The written or removed vectors are those in which the two states differ.
StoreNext ==
  \/ Refresh
  \/ Create
  \/ \E g \in DOMAIN store :
       \/ store' # store /\ Write(g, store'[g].vectors \cap rows)
       \/ Remove(g, store[g].vectors \ store'[g].vectors)
       \/ Promote(g)
       \/ Fail(g)

StoreSpec == StoreInit /\ [][StoreNext]_storeVars
=============================================================================
