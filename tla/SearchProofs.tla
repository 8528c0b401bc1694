---------------------------- MODULE SearchProofs ----------------------------
(***************************************************************************)
(* What a query may rely on although it reads without a transaction, for   *)
(* any documents, recordings and commits.  As long as nothing was          *)
(* committed since `PRAGMA data_version' was taken, what has been read is  *)
(* what there is: Read says so, place by place.  A commit makes that void  *)
(* and the version of the query an old one, which VerifyVersion sees.      *)
(***************************************************************************)
EXTENDS Search, FiniteSetTheorems, SequenceTheorems, TLAPS

-----------------------------------------------------------------------------
(* Types *)

Maps == UNION {[docs -> Texts] : docs \in SUBSET Documents}

Places == {"idle", "health", "setup", "recheck", "scope", "embed", "keyword", "titles", "traverse",
           "page", "vectors", "excerpts", "verify", "verify_generation", "results", "rows", "identify", "look",
           "chat", "revalidate", "relook", "answered"}

Bases ==
  [live : SUBSET Documents, text : [Documents -> Texts], archived : SUBSET (Recordings \cup Sections),
   registry : Maps, generations : Seq(Maps), version : Nat]

Truths == [worded : SUBSET Documents, used : SUBSET Documents, recording : SUBSET Documents,
           section : SUBSET Documents]

Queries ==
  [pc : Places, kind : {"none", "semantic", "hybrid", "ask"}, version : Nat, todo : SUBSET Documents,
   generation : Nat, embedded : BOOLEAN, keyword : Maps, titles : Maps, total : Nat,
   matched : SUBSET Documents, last : Nat, row : Texts, scope : BOOLEAN, scored : Maps,
   excerpts : Maps, items : Maps, sections : SUBSET Documents, look : 1..5, chats : Nat, stood : Truths]

\* The places at which the identity of the generation has been read.
Chosen == {"recheck", "scope", "embed", "keyword", "titles", "traverse", "page", "vectors", "excerpts", "verify",
           "verify_generation"}

\* A query never has a version the database has not reached, and reads a
\* generation that exists.
SearchTypeOK ==
  /\ db \in Bases /\ Active >= 1
  /\ op \in Queries /\ op.version <= db.version
  /\ op.pc \in Chosen => op.generation \in 1..Active

LEMMA MapsAreFunctions ==
  ASSUME NEW f
  PROVE  f \in Maps <=> DOMAIN f \subseteq Documents /\ f \in [DOMAIN f -> Texts]
BY DEF Maps

LEMMA SameMaps ==
  ASSUME NEW f \in Maps, NEW g \in Maps, DOMAIN f = DOMAIN g, \A d \in DOMAIN f : f[d] = g[d]
  PROVE  f = g
<1>1. f = [d \in DOMAIN f |-> f[d]] /\ g = [d \in DOMAIN g |-> g[d]]
  BY MapsAreFunctions
<1> QED BY <1>1

LEMMA EmptyIsAMap == Empty \in Maps
BY MapsAreFunctions DEF Empty

LEMMA ShownIsAMap ==
  ASSUME NEW f \in Maps, NEW docs
  PROVE  Shown(docs, f) \in Maps
BY MapsAreFunctions DEF Shown

LEMMA OverwriteIsAMap ==
  ASSUME NEW f \in Maps, NEW g \in Maps, NEW docs \in SUBSET Documents
  PROVE  Overwrite(f, docs, g) \in Maps
<1> DEFINE both == (DOMAIN f \ docs) \cup (docs \cap DOMAIN g)
<1> DEFINE value(d) == IF d \in docs THEN g[d] ELSE f[d]
<1>1. both \subseteq Documents /\ \A d \in both : value(d) \in Texts
  BY MapsAreFunctions
<1>2. [d \in both |-> value(d)] \in [both -> Texts]
  BY <1>1
<1> HIDE DEF both, value
<1>3. DOMAIN [d \in both |-> value(d)] = both
  OBVIOUS
<1>4. [d \in both |-> value(d)] \in Maps
  BY <1>1, <1>2, <1>3, MapsAreFunctions
<1> QED BY <1>4 DEF Overwrite, both, value

LEMMA ExpectedIsAMap == db \in Bases => Expected(db) \in Maps
<1> SUFFICES ASSUME db \in Bases PROVE Expected(db) \in Maps
  OBVIOUS
<1>1. db.live \subseteq Documents /\ \A d \in db.live : db.text[d] \in Texts
  BY DEF Bases
<1> QED BY <1>1, MapsAreFunctions DEF Expected

LEMMA NoQueryIsAQuery == NoQuery \in Queries
<1>1. Nothing \in Truths
  BY DEF Nothing, Truths
<1> QED BY <1>1, EmptyIsAMap DEF NoQuery, Queries, Places, Texts

LEMMA StandingIsTruths ==
  ASSUME NEW items \in Maps, NEW base
  PROVE  Standing(items, base) \in Truths
BY MapsAreFunctions DEF Standing, Truths

LEMMA JoinedIsTruths ==
  ASSUME NEW a \in Truths, NEW b \in Truths
  PROVE  Joined(a, b) \in Truths
BY DEF Joined, Truths

-----------------------------------------------------------------------------
(* Commits of others *)

\* What any commit does, as far as a query can tell.
Committed ==
  /\ db' \in Bases /\ Len(db'.generations) >= Active
  /\ db'.version = db.version + 1
  /\ op' = IF op.pc \in Closing THEN [op EXCEPT !.stood = Joined(@, Standing(op.items, db'))] ELSE op

LEMMA CommitOfBase ==
  ASSUME SearchTypeOK, NEW base \in Bases, Commit(base), Len(base.generations) >= Active,
         base.version = db.version
  PROVE  Committed
<1>1. db \in Bases /\ db.version + 1 \in Nat
  BY DEF SearchTypeOK, Bases
<1>2. db' = [base EXCEPT !.version = db.version + 1]
  BY DEF Commit
<1>3. /\ db' \in Bases /\ db'.version = db.version + 1
      /\ db'.generations = base.generations
  BY <1>1, <1>2 DEF Bases
<1>4. db'.registry = base.registry /\ db'.live = base.live /\ db'.archived = base.archived
  BY <1>1, <1>2 DEF Bases
<1>5. Standing(op.items, db') = Standing(op.items, base)
  BY <1>4 DEF Standing
<1> QED BY <1>3, <1>5 DEF Committed, Commit

Others == ChangeSource \/ ArchiveOrRestore \/ SyncIndex \/ SyncVectors \/ Promote

LEMMA OthersCommit == SearchTypeOK /\ Others => Committed
<1> SUFFICES ASSUME SearchTypeOK, Others PROVE Committed
  OBVIOUS
<1>0. db \in Bases /\ Active \in Nat /\ Active >= 1
  BY DEF SearchTypeOK, Active, Bases
<1>1. CASE ChangeSource
  <2>1. PICK d \in Documents :
          \/ Commit([db EXCEPT !.live = @ \ {d}])
          \/ Commit([db EXCEPT !.live = @ \cup {d}])
          \/ Commit([db EXCEPT !.text[d] = 1 - @])
    BY <1>1 DEF ChangeSource
  <2>2. CASE Commit([db EXCEPT !.live = @ \ {d}])
    <3>1. [db EXCEPT !.live = @ \ {d}] \in Bases
      BY <1>0 DEF Bases
    <3>2. PICK base \in Bases : base = [db EXCEPT !.live = @ \ {d}]
      BY <3>1
    <3>3. base.generations = db.generations /\ base.version = db.version /\ Commit(base)
      BY <2>2, <1>0, <3>2 DEF Bases
    <3>4. Len(base.generations) >= Active
      BY <3>3, <1>0 DEF Active
    <3> QED BY <3>3, <3>4, CommitOfBase
  <2>3. CASE Commit([db EXCEPT !.live = @ \cup {d}])
    <3>1. [db EXCEPT !.live = @ \cup {d}] \in Bases
      BY <1>0 DEF Bases
    <3>2. PICK base \in Bases : base = [db EXCEPT !.live = @ \cup {d}]
      BY <3>1
    <3>3. base.generations = db.generations /\ base.version = db.version /\ Commit(base)
      BY <2>3, <1>0, <3>2 DEF Bases
    <3>4. Len(base.generations) >= Active
      BY <3>3, <1>0 DEF Active
    <3> QED BY <3>3, <3>4, CommitOfBase
  <2>4. CASE Commit([db EXCEPT !.text[d] = 1 - @])
    <3>1. [db EXCEPT !.text[d] = 1 - @] \in Bases
      BY <1>0 DEF Bases, Texts
    <3>2. PICK base \in Bases : base = [db EXCEPT !.text[d] = 1 - @]
      BY <3>1
    <3>3. base.generations = db.generations /\ base.version = db.version /\ Commit(base)
      BY <2>4, <1>0, <3>2 DEF Bases
    <3>4. Len(base.generations) >= Active
      BY <3>3, <1>0 DEF Active
    <3> QED BY <3>3, <3>4, CommitOfBase
  <2> QED BY <2>1, <2>2, <2>3, <2>4
<1>2. CASE ArchiveOrRestore
  <2>1. PICK r \in Recordings \cup Sections :
          Commit([db EXCEPT !.archived = IF r \in @ THEN @ \ {r} ELSE @ \cup {r}])
    BY <1>2 DEF ArchiveOrRestore
  <2>2. [db EXCEPT !.archived = IF r \in @ THEN @ \ {r} ELSE @ \cup {r}] \in Bases
    BY <1>0 DEF Bases
  <2>3. PICK base \in Bases : base = [db EXCEPT !.archived = IF r \in @ THEN @ \ {r} ELSE @ \cup {r}]
    BY <2>2
  <2>4. base.generations = db.generations /\ base.version = db.version /\ Commit(base)
    BY <2>1, <1>0, <2>3 DEF Bases
  <2>5. Len(base.generations) >= Active
    BY <2>4, <1>0 DEF Active
  <2> QED BY <2>4, <2>5, CommitOfBase
<1>3. CASE SyncIndex
  <2>1. PICK r \in Recordings : Commit([db EXCEPT !.registry = Overwrite(@, DocumentsOf(r), Expected(db))])
    BY <1>3 DEF SyncIndex
  <2>2. Overwrite(db.registry, DocumentsOf(r), Expected(db)) \in Maps
    BY <1>0, ExpectedIsAMap, OverwriteIsAMap DEF Bases, DocumentsOf
  <2>3. [db EXCEPT !.registry = Overwrite(@, DocumentsOf(r), Expected(db))] \in Bases
    BY <1>0, <2>2 DEF Bases
  <2>4. PICK base \in Bases : base = [db EXCEPT !.registry = Overwrite(@, DocumentsOf(r), Expected(db))]
    BY <2>3
  <2>5. base.generations = db.generations /\ base.version = db.version
    BY <1>0, <2>4 DEF Bases
  <2>6. Commit(base)
    BY <2>1, <2>4
  <2>7. Len(base.generations) >= Active
    BY <2>5, <1>0 DEF Active
  <2> QED BY <2>5, <2>6, <2>7, CommitOfBase
<1>4. CASE SyncVectors
  <2>1. PICK r \in Recordings :
          Commit([db EXCEPT !.generations[Active] = Overwrite(@, DocumentsOf(r), db.registry)])
    BY <1>4 DEF SyncVectors
  <2>2. PICK f : f = Overwrite(db.generations[Active], DocumentsOf(r), db.registry)
    OBVIOUS
  <2>3. f \in Maps
    BY <1>0, <2>2, OverwriteIsAMap DEF Bases, Active, DocumentsOf
  <2>4. PICK g : g = [db.generations EXCEPT ![Active] = f]
    OBVIOUS
  <2>5. g \in Seq(Maps) /\ Len(g) = Active
    BY <1>0, <2>3, <2>4, ExceptSeq DEF Bases, Active
  <2>6. [db EXCEPT !.generations[Active] = Overwrite(@, DocumentsOf(r), db.registry)]
          = [db EXCEPT !.generations = g]
    BY <1>0, <2>2, <2>4 DEF Bases
  <2>7. [db EXCEPT !.generations = g] \in Bases
    BY <1>0, <2>5 DEF Bases
  <2>8. Commit([db EXCEPT !.generations = g])
    BY <2>1, <2>6
  <2>9. PICK base \in Bases : base = [db EXCEPT !.generations = g]
    BY <2>7
  <2>10. base.generations = g /\ base.version = db.version
    BY <1>0, <2>9 DEF Bases
  <2>11. Commit(base)
    BY <2>8, <2>9
  <2>12. Len(base.generations) >= Active
    BY <2>5, <2>10, <1>0
  <2> QED BY <2>10, <2>11, <2>12, CommitOfBase
<1>5. CASE Promote
  <2>1. PICK g : g = Append(db.generations, db.registry)
    OBVIOUS
  <2>2. g \in Seq(Maps) /\ Len(g) = Active + 1
    BY <1>0, <2>1, AppendProperties DEF Bases, Active
  <2>3. Commit([db EXCEPT !.generations = g])
    BY <1>5, <2>1 DEF Promote
  <2>4. PICK base \in Bases : base = [db EXCEPT !.generations = g]
    BY <1>0, <2>2 DEF Bases
  <2>5. base.generations = g /\ base.version = db.version
    BY <1>0, <2>4 DEF Bases
  <2>6. Commit(base)
    BY <2>3, <2>4
  <2>7. Len(base.generations) >= Active
    BY <2>2, <2>5, <1>0
  <2> QED BY <2>5, <2>6, <2>7, CommitOfBase
<1> QED BY <1>1, <1>2, <1>3, <1>4, <1>5 DEF Others

LEMMA CommitKeepsTypes == SearchTypeOK /\ Committed => SearchTypeOK'
<1> SUFFICES ASSUME SearchTypeOK, Committed PROVE SearchTypeOK'
  OBVIOUS
<1>1. db.version \in Nat /\ Active \in Nat /\ Len(db'.generations) \in Nat
  BY DEF SearchTypeOK, Committed, Bases, Active
<1>2. op.items \in Maps /\ op.stood \in Truths /\ op \in Queries
  BY DEF SearchTypeOK, Queries
<1>3. PICK stood \in Truths : stood = Joined(op.stood, Standing(op.items, db'))
  BY <1>2, StandingIsTruths, JoinedIsTruths
<1>4. op' = IF op.pc \in Closing THEN [op EXCEPT !.stood = stood] ELSE op
  BY <1>3 DEF Committed
<1>5. /\ op' \in Queries /\ op'.version = op.version /\ op'.generation = op.generation
      /\ op'.pc = op.pc /\ op.version \in Nat /\ op.generation \in Nat
  BY <1>2, <1>4 DEF Queries
<1> QED BY <1>1, <1>5 DEF SearchTypeOK, Committed, Active

-----------------------------------------------------------------------------
(* Steps of the query *)

Looks ==
  LookAtOwners \/ LookAtSegments \/ LookAtArchivedRanges \/ LookAtSummaries \/ LookAtSectionSummaries

Steps ==
  \/ \E kind \in {"semantic", "hybrid", "ask"} : Begin(kind)
  \/ SweepHealth \/ ReadGeneration \/ Recheck \/ ReadScope \/ EmbedQuery
  \/ SelectCandidates \/ LookupTitles
  \/ CountVectors \/ ReadPage \/ ReadVectors \/ EndTraversal \/ FetchExcerpts
  \/ VerifyVersion \/ VerifyGeneration
  \/ Answer
  \/ ReadRows \/ IdentifySections \/ Looks
  \/ Chat \/ RevalidateRows \/ AnswerWithCitations

LEMMA NextIsOthersOrSteps == Next <=> Others \/ Steps
BY DEF Next, Others, Steps, Looks

\* A statement of a look that finds the evidence in use.
LookGoesOn(n) ==
  /\ op.pc \in {"look", "relook"} /\ op.look = n
  /\ op' = IF n < 5 THEN [op EXCEPT !.look = n + 1]
           ELSE [op EXCEPT !.look = 1, !.pc = IF @ = "look" THEN "chat" ELSE "answered"]

LEMMA LookGoesOnTo ==
  ASSUME NEW n \in 1..5, LookGoesOn(n), op \in Queries
  PROVE  /\ op' \in Queries /\ op'.version = op.version
         /\ op'.pc \in {"look", "relook", "chat", "answered"}
<1>1. CASE n < 5
  <2>1. n + 1 \in 1..5
    BY <1>1
  <2> QED BY <1>1, <2>1 DEF LookGoesOn, Queries
<1>2. CASE n = 5
  <2>1. op' = [op EXCEPT !.look = 1, !.pc = IF op.pc = "look" THEN "chat" ELSE "answered"]
    BY <1>2 DEF LookGoesOn, Queries
  <2>2. PICK pc \in {"chat", "answered"} : pc = IF op.pc = "look" THEN "chat" ELSE "answered"
    OBVIOUS
  <2>3. op' = [op EXCEPT !.look = 1, !.pc = pc]
    BY <2>1, <2>2
  <2>4. [op EXCEPT !.look = 1] \in Queries
    BY DEF Queries
  <2>5. PICK q \in Queries : q = [op EXCEPT !.look = 1]
    BY <2>4
  <2>6. op' = [q EXCEPT !.pc = pc] /\ q.version = op.version
    BY <2>3, <2>5 DEF Queries
  <2>7. op' \in Queries /\ op'.version = op.version /\ op'.pc = pc
    BY <2>6 DEF Queries, Places
  <2> QED BY <2>7
<1> QED BY <1>1, <1>2

LEMMA LooksEndOrGoOn ==
  ASSUME Looks
  PROVE  UNCHANGED db /\ (Stop \/ \E n \in 1..5 : LookGoesOn(n))
<1>1. CASE LookAtOwners
  BY <1>1 DEF LookAtOwners, Look, LookGoesOn
<1>2. CASE LookAtSegments
  BY <1>2 DEF LookAtSegments, Look, LookGoesOn
<1>3. CASE LookAtArchivedRanges
  BY <1>3 DEF LookAtArchivedRanges, Look, LookGoesOn
<1>4. CASE LookAtSummaries
  BY <1>4 DEF LookAtSummaries, Look, LookGoesOn
<1>5. CASE LookAtSectionSummaries
  BY <1>5 DEF LookAtSectionSummaries, Look, LookGoesOn
<1> QED BY <1>1, <1>2, <1>3, <1>4, <1>5 DEF Looks

\* What is left to show of a step of the query.
WellTyped ==
  /\ op' \in Queries /\ UNCHANGED db
  /\ op'.version <= db.version
  /\ op'.pc \in Chosen => op'.generation \in 1..Active

LEMMA WellTypedKeepsTypes == SearchTypeOK /\ WellTyped => SearchTypeOK'
BY DEF SearchTypeOK, WellTyped, Active

LEMMA StopIsWellTyped ==
  ASSUME SearchTypeOK, Stop, UNCHANGED db
  PROVE  WellTyped
<1>1. NoQuery.version = 0 /\ NoQuery.pc = "idle" /\ db.version \in Nat
  BY DEF NoQuery, SearchTypeOK, Bases
<1> QED BY <1>1, NoQueryIsAQuery DEF Stop, WellTyped, Chosen

LEMMA FiniteMaps ==
  ASSUME NEW f \in Maps
  PROVE  IsFiniteSet(DOMAIN f) /\ Cardinality(DOMAIN f) \in Nat
BY MapsAreFunctions, SearchAssumption, FS_Subset, FS_CardinalityType

LEMMA ScoringIsAMap ==
  ASSUME NEW f \in Maps, NEW d \in Documents, NEW t \in Texts
  PROVE  [e \in DOMAIN f \cup {d} |-> IF e = d THEN t ELSE f[e]] \in Maps
<1> DEFINE both == DOMAIN f \cup {d}
<1> DEFINE value(e) == IF e = d THEN t ELSE f[e]
<1>1. both \subseteq Documents /\ \A e \in both : value(e) \in Texts
  BY MapsAreFunctions
<1> HIDE DEF both, value
<1>2. [e \in both |-> value(e)] \in [both -> Texts] /\ DOMAIN [e \in both |-> value(e)] = both
  BY <1>1
<1>3. [e \in both |-> value(e)] \in Maps
  BY <1>1, <1>2, MapsAreFunctions
<1> QED BY <1>3 DEF both, value

LEMMA StepsAreWellTyped ==
  ASSUME SearchTypeOK, Steps
  PROVE  WellTyped
<1>0. /\ db \in Bases /\ op \in Queries /\ db.version \in Nat /\ op.version <= db.version
      /\ Active \in Nat /\ Active >= 1 /\ db.registry \in Maps
      /\ op.pc \in Chosen => op.generation \in 1..Active
  BY DEF SearchTypeOK, Bases, Active
<1>1. ASSUME NEW kind \in {"semantic", "hybrid", "ask"}, Begin(kind) PROVE WellTyped
  <2>1. op' = [NoQuery EXCEPT !.pc = "health", !.kind = kind, !.version = db.version, !.todo = Documents]
    BY <1>1 DEF Begin
  <2>2. op' \in Queries
    BY <2>1, <1>0, NoQueryIsAQuery DEF Queries, Places
  <2>3. op'.version = db.version /\ op'.pc = "health"
    BY <2>1, NoQueryIsAQuery DEF Queries
  <2> QED BY <1>1, <2>2, <2>3, <1>0 DEF Begin, WellTyped, Chosen
<1>2. CASE SweepHealth
  BY <1>0, <1>2, StopIsWellTyped DEF SweepHealth, WellTyped, Queries, Places, Chosen
<1>3. CASE ReadGeneration
  <2>1. op' = [op EXCEPT !.pc = "recheck", !.generation = Active]
    BY <1>3 DEF ReadGeneration
  <2>2. op' \in Queries
    BY <1>0, <2>1 DEF Queries, Places
  <2>3. op'.generation = Active /\ op'.version = op.version
    BY <1>0, <2>1 DEF Queries
  <2> QED BY <1>0, <1>3, <2>2, <2>3 DEF ReadGeneration, WellTyped
<1>4. CASE Recheck
  BY <1>0, <1>4, StopIsWellTyped DEF Recheck, WellTyped, Queries, Places, Chosen
<1>5. CASE ReadScope
  BY <1>0, <1>5 DEF ReadScope, AfterEmbedding, WellTyped, Queries, Places, Chosen
<1>6. CASE EmbedQuery
  <2>1. CASE Stop
    BY <1>6, <2>1, StopIsWellTyped DEF EmbedQuery
  <2>2. CASE op' = [op EXCEPT !.pc = AfterEmbedding, !.embedded = TRUE]
    BY <1>0, <1>6, <2>2 DEF EmbedQuery, AfterEmbedding, WellTyped, Queries, Places, Chosen
  <2> QED BY <1>6, <2>1, <2>2 DEF EmbedQuery
<1>7. CASE SelectCandidates
  <2>1. PICK f \in Maps : f = Shown({d \in Documents : InScope(d)}, db.registry)
    BY <1>0, ShownIsAMap
  <2>2. op' = [op EXCEPT !.pc = "titles", !.keyword = f]
    BY <1>7, <2>1 DEF SelectCandidates
  <2>3. op' \in Queries
    BY <1>0, <2>1, <2>2 DEF Queries, Places
  <2>4. op'.version = op.version /\ op'.generation = op.generation
    BY <1>0, <2>2 DEF Queries
  <2> QED BY <1>0, <1>7, <2>3, <2>4 DEF SelectCandidates, WellTyped, Chosen
<1>8. CASE LookupTitles
  <2>1. PICK f \in Maps :
          f = Shown({d \in Metadata : Owner[d] \in {Owner[e] : e \in DOMAIN op.keyword}}, db.registry)
    BY <1>0, ShownIsAMap
  <2>2. op' = [op EXCEPT !.pc = "traverse", !.titles = f]
    BY <1>8, <2>1 DEF LookupTitles
  <2>3. op' \in Queries
    BY <1>0, <2>1, <2>2 DEF Queries, Places
  <2>4. op'.version = op.version /\ op'.generation = op.generation
    BY <1>0, <2>2 DEF Queries
  <2> QED BY <1>0, <1>8, <2>3, <2>4 DEF LookupTitles, WellTyped, Chosen
<1>9. CASE CountVectors
  <2>1. PICK n : n = Cardinality(DOMAIN Vectors(op.generation))
    OBVIOUS
  <2>2. op.pc \in Chosen
    BY <1>9 DEF CountVectors, Chosen
  <2>3. Vectors(op.generation) \in Maps
    BY <1>0, <2>2 DEF Vectors, Bases, Active
  <2>4. n \in Nat
    BY <2>1, <2>3, FiniteMaps
  <2>5. op' = [op EXCEPT !.pc = "page", !.total = n, !.matched = {}, !.last = 0, !.scored = Empty]
    BY <1>9, <2>1 DEF CountVectors
  <2>6. op' \in Queries
    BY <1>0, <2>4, <2>5, EmptyIsAMap DEF Queries, Places
  <2>7. op'.generation = op.generation /\ op'.version = op.version
    BY <1>0, <2>5 DEF Queries
  <2> QED BY <1>0, <1>9, <2>2, <2>6, <2>7 DEF CountVectors, WellTyped
<1>10. CASE ReadPage
  <2>1. PICK d \in NextRows :
          op' = [op EXCEPT !.pc = "vectors", !.last = d, !.row = db.registry[d], !.scope = InScope(d)]
    BY <1>10 DEF ReadPage
  <2>2. d \in Nat /\ db.registry[d] \in Texts
    BY <1>0, MapsAreFunctions, SearchAssumption DEF NextRows
  <2>3. InScope(d) \in BOOLEAN
    BY DEF InScope
  <2> QED BY <1>0, <1>10, <2>1, <2>2, <2>3 DEF ReadPage, WellTyped, Queries, Places, Chosen
<1>11. CASE ReadVectors
  <2>1. CASE Stop
    BY <1>11, <2>1, StopIsWellTyped DEF ReadVectors
  <2>2. CASE ~Stop
    <3>1. op.last \in DOMAIN Vectors(op.generation)
      BY <1>11, <2>2 DEF ReadVectors
    <3>2. op.pc \in Chosen
      BY <1>11 DEF ReadVectors, Chosen
    <3>3. Vectors(op.generation) \in Maps
      BY <1>0, <3>2 DEF Vectors, Bases, Active
    <3>4. op.last \in Documents
      BY <3>1, <3>3, MapsAreFunctions
    <3>5. op.scored \in Maps /\ op.row \in Texts
      BY <1>0 DEF Queries
    <3>6. PICK f \in Maps : f = [e \in DOMAIN op.scored \cup {op.last} |-> IF e = op.last THEN op.row ELSE op.scored[e]]
      BY <3>4, <3>5, ScoringIsAMap
    <3>7. op' = [op EXCEPT !.pc = "page", !.matched = @ \cup {op.last},
                            !.scored = IF op.scope /\ op.embedded THEN f ELSE @]
      BY <1>0, <1>11, <2>2, <3>6 DEF ReadVectors, Queries
    <3> QED BY <1>0, <1>11, <3>2, <3>4, <3>7 DEF ReadVectors, WellTyped, Queries, Places, Chosen
  <2> QED BY <2>1, <2>2
<1>12. CASE EndTraversal
  BY <1>0, <1>12, StopIsWellTyped DEF EndTraversal, WellTyped, Queries, Places, Chosen
<1>13. CASE FetchExcerpts
  <2>1. PICK f \in Maps : f = Shown(DOMAIN op.scored, db.registry)
    BY <1>0, ShownIsAMap
  <2>2. op' = [op EXCEPT !.pc = "verify", !.excerpts = f]
    BY <1>13, <2>1 DEF FetchExcerpts
  <2>3. op' \in Queries
    BY <1>0, <2>1, <2>2 DEF Queries, Places
  <2>4. op'.version = op.version /\ op'.generation = op.generation
    BY <1>0, <2>2 DEF Queries
  <2> QED BY <1>0, <1>13, <2>3, <2>4 DEF FetchExcerpts, WellTyped, Chosen
<1>14. CASE VerifyVersion \/ VerifyGeneration
  BY <1>0, <1>14, StopIsWellTyped DEF VerifyVersion, VerifyGeneration, WellTyped, Queries, Places, Chosen
<1>15. CASE Answer
  BY <1>15, StopIsWellTyped DEF Answer
<1>16. CASE ReadRows
  <2>1. PICK f \in Maps : f = Shown(Winners, db.registry)
    BY <1>0, ShownIsAMap
  <2>2. op' = [op EXCEPT !.pc = "identify", !.items = f] \/ Stop
    BY <1>16, <2>1 DEF ReadRows
  <2>3. CASE Stop
    BY <1>16, <2>3, StopIsWellTyped DEF ReadRows
  <2>4. CASE op' = [op EXCEPT !.pc = "identify", !.items = f]
    <3>1. op' \in Queries
      BY <1>0, <2>1, <2>4 DEF Queries, Places
    <3>2. op'.pc = "identify" /\ op'.version = op.version
      BY <1>0, <2>4 DEF Queries
    <3> QED BY <1>0, <1>16, <3>1, <3>2 DEF ReadRows, WellTyped, Chosen
  <2> QED BY <2>2, <2>3, <2>4
<1>17. CASE Looks
  <2>1. CASE Stop
    BY <1>17, <2>1, LooksEndOrGoOn, StopIsWellTyped
  <2>2. CASE ~Stop
    <3>1. PICK n \in 1..5 : LookGoesOn(n)
      BY <1>17, <2>2, LooksEndOrGoOn
    <3>2. op' \in Queries /\ op'.version = op.version /\ op'.pc \in {"look", "relook", "chat", "answered"}
      BY <1>0, <3>1, LookGoesOnTo
    <3> QED BY <1>0, <1>17, <3>2, LooksEndOrGoOn DEF WellTyped, Chosen
  <2> QED BY <2>1, <2>2
<1>22. CASE IdentifySections
  <2>1. PICK docs : docs = {d \in Summaries : Section[d] # 0 /\ d \in db.live /\ Section[d] \notin db.archived}
    OBVIOUS
  <2>2. docs \subseteq Documents
    BY <1>0, <2>1, MapsAreFunctions DEF Summaries, Cited, Queries
  <2>3. op' = [op EXCEPT !.pc = "look", !.sections = docs]
    BY <1>22, <2>1 DEF IdentifySections
  <2>4. op' \in Queries /\ op'.pc = "look" /\ op'.version = op.version
    BY <1>0, <2>2, <2>3 DEF Queries, Places
  <2> QED BY <1>0, <1>22, <2>4 DEF IdentifySections, WellTyped, Chosen
<1>18. CASE Chat
  <2>1. CASE Stop
    BY <1>18, <2>1, StopIsWellTyped DEF Chat
  <2>2. CASE ~Stop
    <3>1. PICK truths \in Truths : truths = Standing(op.items, db)
      BY <1>0, StandingIsTruths DEF Queries
    <3>2. PICK n \in Nat : n = op.chats + 1
      BY <1>0 DEF Queries
    <3>3. op' = [op EXCEPT !.pc = "revalidate", !.chats = n, !.stood = truths] \/ op' = [op EXCEPT !.chats = 1]
      BY <1>18, <2>2, <3>1, <3>2 DEF Chat
    <3>4. [op EXCEPT !.pc = "revalidate", !.chats = n, !.stood = truths] \in Queries
      BY <1>0 DEF Queries, Places
    <3>5. [op EXCEPT !.chats = 1] \in Queries
      BY <1>0 DEF Queries
    <3>6. op'.pc \in {"revalidate", "chat"} /\ op'.version = op.version
      BY <1>0, <1>18, <3>3 DEF Chat, Queries
    <3> QED BY <1>0, <1>18, <3>3, <3>4, <3>5, <3>6 DEF Chat, WellTyped, Chosen
  <2> QED BY <2>1, <2>2
<1>19. CASE RevalidateRows
  <2>1. CASE Stop
    BY <1>19, <2>1, StopIsWellTyped DEF RevalidateRows
  <2>2. CASE op' = [op EXCEPT !.pc = "relook"]
    <3>1. op' \in Queries
      BY <1>0, <2>2 DEF Queries, Places
    <3>2. op'.pc = "relook" /\ op'.version = op.version
      BY <1>0, <2>2 DEF Queries
    <3> QED BY <1>0, <1>19, <3>1, <3>2 DEF RevalidateRows, WellTyped, Chosen
  <2> QED BY <1>19, <2>1, <2>2 DEF RevalidateRows
<1>21. CASE AnswerWithCitations
  BY <1>21, StopIsWellTyped DEF AnswerWithCitations
<1> QED
  BY <1>1, <1>2, <1>3, <1>4, <1>5, <1>6, <1>7, <1>8, <1>9, <1>10, <1>11, <1>12, <1>13, <1>14,
     <1>15, <1>16, <1>17, <1>18, <1>19, <1>21, <1>22 DEF Steps

-----------------------------------------------------------------------------
(* The invariant *)

\* Nothing was committed since the version was taken.
Fresh == db.version = op.version

\* What a query should have found.
Here == Shown({d \in Documents : InScope(d)}, db.registry)
TitlesHere == Shown({m \in Metadata : \E d \in DOMAIN Here : Owner[d] = Owner[m]}, db.registry)
Matches(d) == d \in DOMAIN Vectors(Active) /\ Vectors(Active)[d] = db.registry[d]

\* The text index says what its sources say, as far as it was compared with them.
ReadHealth ==
  /\ op.pc = "health" => \A d \in Documents \ op.todo : Sound(d)
  /\ op.pc \in Chosen \cup {"setup"} => \A d \in Documents : Sound(d)

ReadIdentity == op.pc \in Chosen => op.generation = Active

\* A query that was not embedded had nothing to find.
Looked == {"keyword", "titles", "traverse", "page", "vectors", "excerpts", "verify", "verify_generation"}
ReadNothing == op.pc \in Looked /\ ~op.embedded => \A d \in DOMAIN db.registry : ~InScope(d)

ReadText ==
  /\ op.pc = "titles" => op.keyword = Here
  /\ op.pc \in Looked \ {"keyword", "titles"} /\ op.kind = "hybrid" =>
       op.keyword = Here /\ op.titles = TitlesHere

\* The traversal has been through the rows up to `last', and each had its vector.
ReadPages ==
  op.pc \in {"page", "vectors"} =>
    /\ op.total = Cardinality(DOMAIN Vectors(Active))
    /\ op.matched = {d \in DOMAIN db.registry : d < op.last \/ (op.pc = "page" /\ d = op.last)}
    /\ \A d \in op.matched : Matches(d)
    /\ op.scored = Shown({d \in op.matched : InScope(d)}, db.registry)
ReadRow ==
  op.pc = "vectors" =>
    op.last \in DOMAIN db.registry /\ op.row = db.registry[op.last] /\ op.scope = InScope(op.last)

ReadAll ==
  /\ op.pc \in {"excerpts", "verify"} => Vectors(Active) = db.registry /\ op.scored = Here
  /\ op.pc = "verify" /\ op.kind # "ask" => op.excerpts = Here

Read ==
  ReadHealth /\ ReadIdentity /\ ReadNothing /\ ReadText /\ ReadPages /\ ReadRow /\ ReadAll

\* What is true of the evidence has been true since the model answered, and so has
\* what the statements of the last look have found true.
Evidence ==
  /\ op.pc \in {"chat", "revalidate"} => op.look = 1
  /\ op.pc \in Closing =>
    LET now == Standing(op.items, db)
        stood == op.stood
    IN /\ now.worded \subseteq stood.worded /\ now.used \subseteq stood.used
       /\ now.recording \subseteq stood.recording /\ now.section \subseteq stood.section
       /\ op.pc = "relook" =>
            /\ Cited \subseteq stood.worded
            /\ op.look > 1 => Cited \cap Segments \subseteq stood.used \cap stood.recording
            /\ op.look > 3 => Cited \cap Segments \subseteq stood.section
            /\ op.look > 4 => {d \in Summaries : Section[d] = 0} \subseteq stood.used \cap stood.recording

SearchInv == SearchTypeOK /\ (Fresh => Read) /\ Evidence

LEMMA InitInv == Init => SearchInv
<1> SUFFICES ASSUME Init PROVE SearchInv
  OBVIOUS
<1>1. PICK live \in SUBSET Documents :
        db = [live |-> live, text |-> [d \in Documents |-> 0], archived |-> {},
              registry |-> [d \in live |-> 0], generations |-> <<[d \in live |-> 0]>>, version |-> 0]
  BY DEF Init
<1>2. PICK f : f = [d \in live |-> 0]
  OBVIOUS
<1>3. f \in Maps
  BY <1>2, MapsAreFunctions DEF Texts
<1>4. <<f>> \in Seq(Maps) /\ Len(<<f>>) = 1
  BY <1>3
<1>5. db \in Bases /\ Active = 1 /\ db.version = 0
  BY <1>1, <1>2, <1>3, <1>4 DEF Bases, Texts, Active
<1>6. op = NoQuery /\ op.pc = "idle" /\ op.version = 0
  BY DEF Init, NoQuery
<1>7. SearchTypeOK
  BY <1>5, <1>6, NoQueryIsAQuery DEF SearchTypeOK, Chosen
<1>8. Read /\ Evidence
  BY <1>6 DEF Read, ReadHealth, ReadIdentity, ReadNothing, ReadText, ReadPages, ReadRow, ReadAll,
              Evidence, Closing, Chosen, Looked
<1> QED BY <1>7, <1>8 DEF SearchInv

\* What was read before a commit is not vouched for, and an answer that was
\* about to be given learns of it.
LEMMA CommitKeepsInv == SearchInv /\ Committed => SearchInv'
<1> SUFFICES ASSUME SearchInv, Committed PROVE SearchInv'
  OBVIOUS
<1>1. SearchTypeOK'
  BY CommitKeepsTypes DEF SearchInv
<1>2. op.version \in Nat /\ db.version \in Nat /\ op.version <= db.version
  BY DEF SearchInv, SearchTypeOK, Bases, Queries
<1>3. /\ op'.version = op.version /\ op'.pc = op.pc /\ op'.items = op.items /\ op'.look = op.look
      /\ op.pc \in Closing => op'.stood = Joined(op.stood, Standing(op.items, db'))
  BY DEF SearchInv, SearchTypeOK, Committed, Queries
<1>4. ~Fresh'
  BY <1>2, <1>3 DEF Fresh, Committed
<1>5. Evidence'
  <2> SUFFICES ASSUME op.pc \in Closing PROVE Evidence'
    BY <1>3 DEF Evidence, SearchInv, Closing
  <2>1. PICK now : now = Standing(op.items, db')
    OBVIOUS
  <2>2. /\ op'.stood.worded = op.stood.worded \cup now.worded /\ op'.stood.used = op.stood.used \cup now.used
        /\ op'.stood.recording = op.stood.recording \cup now.recording
        /\ op'.stood.section = op.stood.section \cup now.section
    BY <1>3, <2>1 DEF Joined
  <2>3. Standing(op.items, db)' = now /\ Cited' = Cited /\ Summaries' = Summaries
    BY <1>3, <2>1 DEF Standing, Cited, Summaries
  <2>4. /\ op.pc = "revalidate" => op.look = 1
        /\ op.pc = "relook" => Cited \subseteq op.stood.worded
        /\ op.pc = "relook" /\ op.look > 1 => Cited \cap Segments \subseteq op.stood.used \cap op.stood.recording
        /\ op.pc = "relook" /\ op.look > 3 => Cited \cap Segments \subseteq op.stood.section
        /\ op.pc = "relook" /\ op.look > 4 =>
             {d \in Summaries : Section[d] = 0} \subseteq op.stood.used \cap op.stood.recording
    BY DEF SearchInv, Evidence, Closing
  <2>5. op'.pc \in {"revalidate", "relook"}
    BY <1>3 DEF Closing
  <2> QED BY <1>3, <2>2, <2>3, <2>4, <2>5 DEF Evidence
<1> QED BY <1>1, <1>4, <1>5 DEF SearchInv

\* Nothing a query does changes what it should find.
LEMMA SameBase ==
  ASSUME UNCHANGED db
  PROVE  /\ Here' = Here /\ TitlesHere' = TitlesHere /\ Active' = Active
         /\ \A d : Sound(d)' = Sound(d) /\ InScope(d)' = InScope(d) /\ Matches(d)' = Matches(d)
BY DEF Here, TitlesHere, Active, Sound, InScope, Matches, Vectors

LEMMA SamePages ==
  ASSUME UNCHANGED db
  PROVE  /\ Vectors(Active)' = Vectors(Active)
         /\ \A docs : {d \in docs : InScope(d)}' = {d \in docs : InScope(d)}
         /\ \A d : Matches(d)' = Matches(d)
BY DEF Active, InScope, Matches, Vectors

\* What is left to show of a step of the query, its types aside.
Vouched == (Fresh' => Read') /\ Evidence'

LEMMA StopIsVouched == Stop => Vouched
<1> SUFFICES ASSUME Stop PROVE Vouched
  OBVIOUS
<1>1. op'.pc = "idle"
  BY DEF Stop, NoQuery
<1> QED
  BY <1>1 DEF Vouched, Read, ReadHealth, ReadIdentity, ReadNothing, ReadText, ReadPages, ReadRow,
              ReadAll, Evidence, Closing, Chosen, Looked

\* Every source is indexed as it is, and nothing else is.
LEMMA SoundIndex ==
  ASSUME db \in Bases, \A d \in Documents : Sound(d)
  PROVE  db.registry = Expected(db)
<1>1. DOMAIN db.registry \subseteq Documents /\ db.live \subseteq Documents
  BY MapsAreFunctions DEF Bases
<1>2. DOMAIN db.registry = db.live
  BY <1>1 DEF Sound
<1>3. \A d \in db.live : db.registry[d] = db.text[d]
  BY <1>1 DEF Sound
<1>4. db.registry = [d \in DOMAIN db.registry |-> db.registry[d]]
  BY MapsAreFunctions DEF Bases
<1> QED BY <1>2, <1>3, <1>4 DEF Expected

LEMMA LooksKeepEvidence ==
  ASSUME db \in Bases, op \in Queries, Evidence, Looks
  PROVE  Evidence'
<1>1. CASE Stop
  BY <1>1 DEF Stop, NoQuery, Evidence, Closing
<1>2. CASE ~Stop /\ op.pc # "relook"
  <2>1. op'.pc = "look" \/ (op'.pc = "chat" /\ op'.look = 1)
    BY <1>2, LooksEndOrGoOn DEF LookGoesOn, Queries
  <2> QED BY <2>1 DEF Evidence, Closing
<1>3. CASE ~Stop /\ op.pc = "relook"
  <2>1. /\ UNCHANGED db /\ op'.items = op.items /\ op'.stood = op.stood
        /\ op'.pc = "answered" \/ (op'.pc = "relook" /\ op.look < 5 /\ op'.look = op.look + 1)
    <3>1. PICK n \in 1..5 : LookGoesOn(n)
      BY <1>3, LooksEndOrGoOn
    <3>2. CASE n < 5
      BY <1>3, <3>1, <3>2, LooksEndOrGoOn DEF LookGoesOn, Queries
    <3>3. CASE n = 5
      BY <1>3, <3>1, <3>3, LooksEndOrGoOn DEF LookGoesOn, Queries
    <3> QED BY <3>2, <3>3
  <2>2. PICK now : now = Standing(op.items, db)
    OBVIOUS
  <2>3. /\ now.worded \subseteq op.stood.worded /\ now.used \subseteq op.stood.used
        /\ now.recording \subseteq op.stood.recording /\ now.section \subseteq op.stood.section
        /\ Cited \subseteq op.stood.worded
        /\ op.look > 1 => Cited \cap Segments \subseteq op.stood.used \cap op.stood.recording
        /\ op.look > 3 => Cited \cap Segments \subseteq op.stood.section
        /\ op.look > 4 => {d \in Summaries : Section[d] = 0} \subseteq op.stood.used \cap op.stood.recording
    BY <1>3, <2>2 DEF Evidence, Closing
  <2>4. Standing(op.items, db)' = now /\ Cited' = Cited /\ Summaries' = Summaries
    BY <2>1, <2>2 DEF Standing, Cited, Summaries
  <2>5. \A d \in Cited : InUse(d) => d \in now.used \cap now.recording
    BY <2>2 DEF InUse, Standing, Cited
  <2>6. op.look = 1 => \A d \in Cited \cap Segments : InUse(d)
    BY <1>3 DEF Looks, LookAtOwners, LookAtSegments, LookAtArchivedRanges, LookAtSummaries,
                LookAtSectionSummaries, Look
  <2>7. op.look = 3 => Cited \cap Segments \subseteq now.section
    <3>1. op.look = 3 => OutsideArchivedRanges
      BY <1>3 DEF Looks, LookAtOwners, LookAtSegments, LookAtArchivedRanges, LookAtSummaries,
                  LookAtSectionSummaries, Look
    <3> QED BY <2>2, <3>1 DEF OutsideArchivedRanges, Standing, Cited
  <2>8. op.look = 4 => \A d \in Summaries : Section[d] = 0 => InUse(d)
    BY <1>3 DEF Looks, LookAtOwners, LookAtSegments, LookAtArchivedRanges, LookAtSummaries,
                LookAtSectionSummaries, Look
  <2>9. op.look \in 1..5 /\ Summaries \subseteq Cited
    BY DEF Queries, Summaries
  <2>10. CASE op'.pc = "answered"
    BY <2>10 DEF Evidence, Closing
  <2>11. CASE op'.pc = "relook" /\ op.look < 5 /\ op'.look = op.look + 1
    <3>1. op'.look > 1 => Cited \cap Segments \subseteq op.stood.used \cap op.stood.recording
      BY <2>3, <2>5, <2>6, <2>9, <2>11
    <3>2. op'.look > 3 => Cited \cap Segments \subseteq op.stood.section
      BY <2>3, <2>7, <2>9, <2>11
    <3>3. op'.look > 4 => {d \in Summaries : Section[d] = 0} \subseteq op.stood.used \cap op.stood.recording
      <4> SUFFICES ASSUME op'.look > 4, NEW d \in Summaries, Section[d] = 0
                   PROVE  d \in op.stood.used \cap op.stood.recording
        OBVIOUS
      <4>1. op.look = 4
        BY <2>9, <2>11
      <4> QED BY <2>3, <2>5, <2>8, <2>9, <4>1
    <3> QED BY <2>1, <2>3, <2>4, <2>11, <3>1, <3>2, <3>3 DEF Evidence
  <2> QED BY <2>1, <2>10, <2>11
<1> QED BY <1>1, <1>2, <1>3

LEMMA StepsAreVouched ==
  ASSUME SearchInv, Steps
  PROVE  Vouched
<1>0. /\ db \in Bases /\ op \in Queries /\ SearchTypeOK /\ Evidence
      /\ Fresh => Read
  BY DEF SearchInv, SearchTypeOK
<1>1. ASSUME NEW kind \in {"semantic", "hybrid", "ask"}, Begin(kind) PROVE Vouched
  <2>1. op' = [NoQuery EXCEPT !.pc = "health", !.kind = kind, !.version = db.version, !.todo = Documents]
    BY <1>1 DEF Begin
  <2>2. op'.pc = "health" /\ op'.todo = Documents
    BY <2>1, NoQueryIsAQuery DEF Queries
  <2> QED
    BY <2>2 DEF Vouched, Evidence, Closing, Chosen, Looked, Read, ReadHealth, ReadIdentity, ReadNothing, ReadText, ReadPages, ReadRow, ReadAll
<1>2. CASE SweepHealth
  <2>1. CASE Stop
    BY <2>1, StopIsVouched
  <2>2. CASE ~Stop
    BY <1>0, <1>2, <2>2, SameBase DEF SweepHealth, Queries, Fresh, Vouched, Evidence, Closing, Chosen, Looked,
       Read, ReadHealth, ReadIdentity, ReadNothing, ReadText, ReadPages, ReadRow, ReadAll
  <2> QED BY <2>1, <2>2
<1>3. CASE ReadGeneration
  <2>1. CASE Stop
    BY <2>1, StopIsVouched
  <2>2. CASE ~Stop
    BY <1>0, <1>3, <2>2, SameBase DEF ReadGeneration, Queries, Fresh, Vouched, Evidence, Closing, Chosen, Looked,
       Read, ReadHealth, ReadIdentity, ReadNothing, ReadText, ReadPages, ReadRow, ReadAll
  <2> QED BY <2>1, <2>2
<1>4. CASE Recheck
  <2>1. CASE Stop
    BY <2>1, StopIsVouched
  <2>2. CASE ~Stop
    BY <1>0, <1>4, <2>2, SameBase DEF Recheck, Queries, Fresh, Vouched, Evidence, Closing, Chosen, Looked,
       Read, ReadHealth, ReadIdentity, ReadNothing, ReadText, ReadPages, ReadRow, ReadAll
  <2> QED BY <2>1, <2>2
<1>5. CASE ReadScope
  <2>1. CASE Stop
    BY <2>1, StopIsVouched
  <2>2. CASE ~Stop
    BY <1>0, <1>5, <2>2, SameBase DEF ReadScope, AfterEmbedding, Queries, Fresh, Vouched, Evidence, Closing, Chosen, Looked,
       Read, ReadHealth, ReadIdentity, ReadNothing, ReadText, ReadPages, ReadRow, ReadAll
  <2> QED BY <2>1, <2>2
<1>6. CASE EmbedQuery
  <2>1. CASE Stop
    BY <2>1, StopIsVouched
  <2>2. CASE ~Stop
    <3>1. /\ op.pc = "embed" /\ op'.pc \in {"keyword", "traverse"} /\ op'.embedded = TRUE
          /\ op'.pc = "traverse" => op.kind # "hybrid"
          /\ op'.kind = op.kind /\ op'.version = op.version /\ op'.generation = op.generation
          /\ UNCHANGED db
      BY <1>0, <1>6, <2>2 DEF EmbedQuery, AfterEmbedding, Queries
    <3> QED
      BY <1>0, <3>1, SameBase DEF Fresh, Vouched, Evidence, Closing, Chosen, Looked,
         Read, ReadHealth, ReadIdentity, ReadNothing, ReadText, ReadPages, ReadRow, ReadAll
  <2> QED BY <2>1, <2>2
<1>7. CASE SelectCandidates
  <2>1. CASE Stop
    BY <2>1, StopIsVouched
  <2>2. CASE ~Stop
    BY <1>0, <1>7, <2>2, SameBase DEF SelectCandidates, Here, Queries, Fresh, Vouched, Evidence, Closing, Chosen, Looked,
       Read, ReadHealth, ReadIdentity, ReadNothing, ReadText, ReadPages, ReadRow, ReadAll
  <2> QED BY <2>1, <2>2
<1>8. CASE LookupTitles
  <2>1. CASE Stop
    BY <2>1, StopIsVouched
  <2>2. CASE ~Stop
    <3>1. op' = [op EXCEPT !.pc = "traverse",
                           !.titles = Shown({d \in Metadata : Owner[d] \in {Owner[e] : e \in DOMAIN op.keyword}}, db.registry)]
      BY <1>8 DEF LookupTitles
    <3>2. PICK f : f = Shown({d \in Metadata : Owner[d] \in {Owner[e] : e \in DOMAIN op.keyword}}, db.registry)
      OBVIOUS
    <3>3. /\ op.pc = "titles" /\ op'.pc = "traverse" /\ op'.titles = f /\ op'.keyword = op.keyword
          /\ op'.version = op.version /\ op'.generation = op.generation /\ op'.embedded = op.embedded
          /\ UNCHANGED db
      BY <1>0, <1>8, <3>1, <3>2 DEF LookupTitles, Queries
    <3>4. op.keyword = Here => f = TitlesHere
      <4> SUFFICES ASSUME op.keyword = Here PROVE f = TitlesHere
        OBVIOUS
      <4>1. {d \in Metadata : Owner[d] \in {Owner[e] : e \in DOMAIN Here}}
              = {m \in Metadata : \E d \in DOMAIN Here : Owner[d] = Owner[m]}
        OBVIOUS
      <4> QED BY <3>2, <4>1 DEF TitlesHere
    <3> QED
      BY <1>0, <3>3, <3>4, SameBase DEF Fresh, Vouched, Evidence, Closing, Chosen, Looked,
         Read, ReadHealth, ReadIdentity, ReadNothing, ReadText, ReadPages, ReadRow, ReadAll
  <2> QED BY <2>1, <2>2
<1>9. CASE CountVectors
  <2>1. CASE Stop
    BY <2>1, StopIsVouched
  <2>2. CASE ~Stop
    <3>1. /\ op.pc = "traverse" /\ op'.pc = "page" /\ op'.matched = {} /\ op'.last = 0 /\ op'.scored = Empty
          /\ op'.total = Cardinality(DOMAIN Vectors(op.generation))
          /\ op'.version = op.version /\ op'.generation = op.generation /\ op'.embedded = op.embedded
          /\ op'.kind = op.kind /\ op'.keyword = op.keyword /\ op'.titles = op.titles
          /\ UNCHANGED db
      BY <1>0, <1>9 DEF CountVectors, Queries
    <3>2. {d \in DOMAIN db.registry : d < 0 \/ d = 0} = {}
      BY <1>0, MapsAreFunctions, SearchAssumption DEF Bases
    <3>3. Shown({d \in {} : InScope(d)}, db.registry) = Empty
      BY DEF Shown, Empty
    <3>4. Fresh' => ReadPages'
      BY <1>0, <3>1, <3>2, <3>3, SameBase DEF Fresh, Read, ReadPages, ReadIdentity, Chosen, Vectors
    <3> QED
      BY <1>0, <3>1, <3>4, SameBase DEF Fresh, Vouched, Evidence, Closing, Chosen, Looked,
         Read, ReadHealth, ReadIdentity, ReadNothing, ReadText, ReadPages, ReadRow, ReadAll
  <2> QED BY <2>1, <2>2
<1>10. CASE ReadPage
  <2>1. CASE Stop
    BY <2>1, StopIsVouched
  <2>2. CASE ~Stop
    <3>1. PICK d \in NextRows : IsFirst(d, NextRows)
             /\ op' = [op EXCEPT !.pc = "vectors", !.last = d, !.row = db.registry[d], !.scope = InScope(d)]
      BY <1>10 DEF ReadPage
    <3>2. PICK scope : scope = InScope(d)
      OBVIOUS
    <3>3. /\ op.pc = "page" /\ op'.pc = "vectors" /\ op'.last = d /\ op'.row = db.registry[d] /\ op'.scope = scope
          /\ op'.version = op.version /\ op'.generation = op.generation /\ op'.embedded = op.embedded
          /\ op'.kind = op.kind /\ op'.keyword = op.keyword /\ op'.titles = op.titles
          /\ op'.total = op.total /\ op'.matched = op.matched /\ op'.scored = op.scored
          /\ UNCHANGED db
      BY <1>0, <1>10, <3>1, <3>2 DEF ReadPage, Queries
    <3>4. DOMAIN db.registry \subseteq Nat /\ op.last \in Nat
      BY <1>0, MapsAreFunctions, SearchAssumption DEF Bases, Queries
    <3>5. {e \in DOMAIN db.registry : e < op.last \/ e = op.last} = {e \in DOMAIN db.registry : e < d}
      BY <3>1, <3>4 DEF IsFirst, NextRows
    <3>6. Fresh' => ReadPages'
      <4> SUFFICES ASSUME Fresh' PROVE ReadPages'
        OBVIOUS
      <4>1. /\ op.total = Cardinality(DOMAIN Vectors(Active))
            /\ op.matched = {e \in DOMAIN db.registry : e < op.last \/ e = op.last}
            /\ \A e \in op.matched : Matches(e)
            /\ op.scored = Shown({e \in op.matched : InScope(e)}, db.registry)
        BY <1>0, <3>3 DEF Fresh, Read, ReadPages
      <4>2. op.matched = {e \in DOMAIN db.registry : e < d}
        BY <3>5, <4>1
      <4> QED BY <3>3, <4>1, <4>2, SamePages DEF ReadPages
    <3>7. d \in DOMAIN db.registry
      BY DEF NextRows
    <3>8. ReadRow'
      BY <3>2, <3>3, <3>7, SameBase DEF ReadRow
    <3> QED
      BY <1>0, <3>3, <3>6, <3>8, SameBase DEF Fresh, Vouched, Evidence, Closing, Chosen, Looked,
         Read, ReadHealth, ReadIdentity, ReadNothing, ReadText, ReadPages, ReadRow, ReadAll
  <2> QED BY <2>1, <2>2
<1>11. CASE ReadVectors
  <2>1. CASE Stop
    BY <2>1, StopIsVouched
  <2>2. CASE ~Stop
    <3>1. /\ op.pc = "vectors" /\ UNCHANGED db
          /\ op.last \in DOMAIN Vectors(op.generation) /\ Vectors(op.generation)[op.last] = op.row
          /\ op' = [op EXCEPT !.pc = "page", !.matched = @ \cup {op.last},
                     !.scored = IF op.scope /\ op.embedded
                                THEN [e \in DOMAIN @ \cup {op.last} |-> IF e = op.last THEN op.row ELSE @[e]] ELSE @]
      BY <1>11, <2>2 DEF ReadVectors
    <3>2. PICK f : f = IF op.scope /\ op.embedded
                       THEN [e \in DOMAIN op.scored \cup {op.last} |-> IF e = op.last THEN op.row ELSE op.scored[e]]
                       ELSE op.scored
      OBVIOUS
    <3>3. /\ op'.pc = "page" /\ op'.matched = op.matched \cup {op.last} /\ op'.scored = f
          /\ op'.version = op.version /\ op'.generation = op.generation /\ op'.embedded = op.embedded
          /\ op'.kind = op.kind /\ op'.keyword = op.keyword /\ op'.titles = op.titles
          /\ op'.total = op.total /\ op'.last = op.last
      BY <1>0, <3>1, <3>2 DEF Queries
    <3>4. Fresh' => ReadPages'
      <4> SUFFICES ASSUME Fresh' PROVE ReadPages'
        OBVIOUS
      <4>1. /\ Read /\ op.generation = Active
            /\ op.last \in DOMAIN db.registry /\ op.row = db.registry[op.last] /\ op.scope = InScope(op.last)
        BY <1>0, <3>1, <3>3 DEF Fresh, Read, ReadRow, ReadIdentity, Chosen
      <4>2. /\ op.total = Cardinality(DOMAIN Vectors(Active))
            /\ op.matched = {d \in DOMAIN db.registry : d < op.last}
            /\ \A d \in op.matched : Matches(d)
            /\ op.scored = Shown({d \in op.matched : InScope(d)}, db.registry)
        BY <3>1, <4>1 DEF Read, ReadPages
      <4>3. op.matched \cup {op.last} = {d \in DOMAIN db.registry : d < op.last \/ d = op.last}
        BY <4>1, <4>2
      <4>4. Matches(op.last)
        BY <3>1, <4>1 DEF Matches
      <4>5. InScope(op.last) => op.embedded
        BY <3>1, <4>1 DEF Read, ReadNothing, Looked
      <4>6. f = Shown({d \in op.matched \cup {op.last} : InScope(d)}, db.registry)
        <5>1. CASE InScope(op.last)
          <6>1. f = [e \in DOMAIN op.scored \cup {op.last} |-> IF e = op.last THEN op.row ELSE op.scored[e]]
            BY <3>2, <4>1, <4>5, <5>1
          <6>2. DOMAIN op.scored = {d \in op.matched : InScope(d)}
            BY <4>2 DEF Shown
          <6>3. \A e \in DOMAIN op.scored : op.scored[e] = db.registry[e]
            BY <4>2 DEF Shown
          <6>4. {d \in op.matched \cup {op.last} : InScope(d)} \cap DOMAIN db.registry = DOMAIN op.scored \cup {op.last}
            BY <4>1, <4>2, <5>1, <6>2
          <6> QED BY <4>1, <6>1, <6>3, <6>4 DEF Shown
        <5>2. CASE ~InScope(op.last)
          <6>1. f = op.scored
            BY <3>2, <4>1, <5>2
          <6>2. {d \in op.matched \cup {op.last} : InScope(d)} = {d \in op.matched : InScope(d)}
            BY <5>2
          <6> QED BY <4>2, <6>1, <6>2
        <5> QED BY <5>1, <5>2
      <4>7. /\ op'.total = Cardinality(DOMAIN Vectors(Active))
            /\ op'.matched = {d \in DOMAIN db.registry : d < op'.last \/ d = op'.last}
            /\ \A d \in op'.matched : Matches(d)
            /\ op'.scored = Shown({d \in op'.matched : InScope(d)}, db.registry)
        BY <3>3, <4>2, <4>3, <4>4, <4>6
      <4> QED BY <3>1, <3>3, <4>7, SamePages DEF ReadPages
    <3> QED
      BY <1>0, <3>1, <3>3, <3>4, SameBase DEF Fresh, Vouched, Evidence, Closing, Chosen, Looked,
         Read, ReadHealth, ReadIdentity, ReadNothing, ReadText, ReadPages, ReadRow, ReadAll
  <2> QED BY <2>1, <2>2
<1>12. CASE EndTraversal
  <2>1. CASE Stop
    BY <2>1, StopIsVouched
  <2>2. CASE ~Stop
    <3>1. /\ op.pc = "page" /\ NextRows = {} /\ Cardinality(op.matched) = op.total
          /\ op' = [op EXCEPT !.pc = IF op.kind = "ask" THEN "verify" ELSE "excerpts"]
          /\ UNCHANGED db
      BY <1>12, <2>2 DEF EndTraversal
    <3>2. /\ op'.pc = (IF op.kind = "ask" THEN "verify" ELSE "excerpts") /\ op'.scored = op.scored
          /\ op'.version = op.version /\ op'.generation = op.generation /\ op'.embedded = op.embedded
          /\ op'.kind = op.kind /\ op'.keyword = op.keyword /\ op'.titles = op.titles
      BY <1>0, <3>1 DEF Queries
    <3>3. Fresh => Vectors(Active) = db.registry /\ op.scored = Here
      <4> SUFFICES ASSUME Fresh PROVE Vectors(Active) = db.registry /\ op.scored = Here
        OBVIOUS
      <4>1. /\ op.total = Cardinality(DOMAIN Vectors(Active))
            /\ op.matched = {d \in DOMAIN db.registry : d < op.last \/ d = op.last}
            /\ \A d \in op.matched : Matches(d)
            /\ op.scored = Shown({d \in op.matched : InScope(d)}, db.registry)
        BY <1>0, <3>1 DEF Read, ReadPages
      <4>2. /\ db.registry \in Maps /\ Vectors(Active) \in Maps
            /\ DOMAIN db.registry \subseteq Nat /\ op.last \in Nat
        <5>1. Active \in 1..Len(db.generations)
          BY <1>0 DEF SearchTypeOK, Active, Bases
        <5>2. db.registry \in Maps /\ Vectors(Active) \in Maps
          BY <1>0, <5>1 DEF Bases, Vectors
        <5> QED BY <1>0, <5>2, MapsAreFunctions, SearchAssumption DEF Queries
      <4>3. op.matched = DOMAIN db.registry
        BY <3>1, <4>1, <4>2 DEF NextRows
      <4>4. op.matched \subseteq DOMAIN Vectors(Active)
        BY <4>1 DEF Matches
      <4>5. op.matched = DOMAIN Vectors(Active)
        BY <3>1, <4>1, <4>2, <4>4, FiniteMaps, FS_Subset
      <4>6. \A d \in DOMAIN db.registry : Vectors(Active)[d] = db.registry[d]
        BY <4>1, <4>3 DEF Matches
      <4>7. Vectors(Active) = db.registry
        BY <4>2, <4>3, <4>5, <4>6, SameMaps
      <4>8. {d \in op.matched : InScope(d)} \cap DOMAIN db.registry
              = {d \in Documents : InScope(d)} \cap DOMAIN db.registry
        BY <4>2, <4>3, MapsAreFunctions
      <4>9. op.scored = Here
        BY <4>1, <4>8 DEF Here, Shown
      <4> QED BY <4>7, <4>9
    <3>4. Fresh' => ReadAll'
      BY <3>1, <3>2, <3>3, SameBase DEF Fresh, ReadAll, Vectors
    <3> QED
      BY <1>0, <3>1, <3>2, <3>4, SameBase DEF Fresh, Vouched, Evidence, Closing, Chosen, Looked,
         Read, ReadHealth, ReadIdentity, ReadNothing, ReadText, ReadPages, ReadRow, ReadAll
  <2> QED BY <2>1, <2>2
<1>13. CASE FetchExcerpts
  <2>1. CASE Stop
    BY <2>1, StopIsVouched
  <2>2. CASE ~Stop
    <3>1. PICK f : f = Shown(DOMAIN op.scored, db.registry)
      OBVIOUS
    <3>2. /\ op.pc = "excerpts" /\ op'.pc = "verify" /\ op'.scored = op.scored /\ op'.excerpts = f
          /\ op'.version = op.version /\ op'.generation = op.generation /\ op'.embedded = op.embedded
          /\ op'.kind = op.kind /\ op'.keyword = op.keyword /\ op'.titles = op.titles
          /\ UNCHANGED db
      BY <1>0, <1>13, <3>1 DEF FetchExcerpts, Queries
    <3>3. op.scored = Here => f = Here
      BY <3>1 DEF Here, Shown
    <3>4. Fresh' => ReadAll'
      BY <1>0, <3>2, <3>3, SameBase DEF Fresh, Read, ReadAll, Vectors
    <3> QED
      BY <1>0, <3>2, <3>4, SameBase DEF Fresh, Vouched, Evidence, Closing, Chosen, Looked,
         Read, ReadHealth, ReadIdentity, ReadNothing, ReadText, ReadPages, ReadRow, ReadAll
  <2> QED BY <2>1, <2>2
<1>14. CASE VerifyVersion \/ VerifyGeneration
  <2>1. CASE Stop
    BY <2>1, StopIsVouched
  <2>2. CASE ~Stop
    BY <1>0, <1>14, <2>2, SameBase DEF VerifyVersion, VerifyGeneration, Queries, Fresh, Vouched, Evidence, Closing, Chosen, Looked,
       Read, ReadHealth, ReadIdentity, ReadNothing, ReadText, ReadPages, ReadRow, ReadAll
  <2> QED BY <2>1, <2>2
<1>15. CASE Answer
  <2>1. CASE Stop
    BY <2>1, StopIsVouched
  <2>2. CASE ~Stop
    BY <1>0, <1>15, <2>2, SameBase DEF Answer, Queries, Fresh, Vouched, Evidence, Closing, Chosen, Looked,
       Read, ReadHealth, ReadIdentity, ReadNothing, ReadText, ReadPages, ReadRow, ReadAll
  <2> QED BY <2>1, <2>2
<1>16. CASE ReadRows
  <2>1. CASE Stop
    BY <2>1, StopIsVouched
  <2>2. CASE ~Stop
    <3>1. op'.pc = "identify"
      BY <1>0, <1>16, <2>2 DEF ReadRows, Queries
    <3> QED
      BY <1>0, <3>1 DEF Vouched, Evidence, Closing, Chosen, Looked,
         Read, ReadHealth, ReadIdentity, ReadNothing, ReadText, ReadPages, ReadRow, ReadAll
  <2> QED BY <2>1, <2>2
<1>17. CASE Looks
  <2>1. op'.pc \in {"idle", "look", "relook", "chat", "answered"}
    BY <1>0, <1>17, LooksEndOrGoOn, LookGoesOnTo DEF Stop, NoQuery
  <2>2. Read'
    BY <2>1 DEF Chosen, Looked, Read, ReadHealth, ReadIdentity, ReadNothing, ReadText, ReadPages, ReadRow, ReadAll
  <2> QED BY <1>0, <1>17, <2>2, LooksKeepEvidence DEF Vouched
<1>18. CASE Chat
  <2>1. CASE Stop
    BY <2>1, StopIsVouched
  <2>2. CASE op' = [op EXCEPT !.chats = 1]
    <3>1. op'.pc = "chat" /\ op'.look = 1
      BY <1>0, <1>18, <2>2 DEF Chat, Queries, Evidence
    <3> QED
      BY <1>0, <3>1 DEF Vouched, Evidence, Closing, Chosen, Looked,
         Read, ReadHealth, ReadIdentity, ReadNothing, ReadText, ReadPages, ReadRow, ReadAll
  <2>3. CASE op' = [op EXCEPT !.pc = "revalidate", !.chats = @ + 1, !.stood = Standing(op.items, db)]
    <3>1. op'.pc = "revalidate" /\ op'.items = op.items /\ op'.stood = Standing(op.items, db)
          /\ op'.look = 1 /\ UNCHANGED db
      BY <1>0, <1>18, <2>3 DEF Chat, Queries, Evidence
    <3>2. Standing(op.items, db)' = op'.stood
      BY <3>1 DEF Standing
    <3>3. Evidence'
      BY <3>1, <3>2 DEF Evidence, Closing
    <3> QED
      BY <3>1, <3>3 DEF Vouched, Chosen, Looked,
         Read, ReadHealth, ReadIdentity, ReadNothing, ReadText, ReadPages, ReadRow, ReadAll
  <2> QED BY <1>18, <2>1, <2>2, <2>3 DEF Chat
<1>19. CASE RevalidateRows
  <2>1. CASE Stop
    BY <2>1, StopIsVouched
  <2>2. CASE ~Stop
    <3>1. /\ RowsUnchanged /\ op.pc = "revalidate" /\ op' = [op EXCEPT !.pc = "relook"]
          /\ UNCHANGED db
      BY <1>19, <2>2 DEF RevalidateRows
    <3>2. op'.pc = "relook" /\ op'.items = op.items /\ op'.stood = op.stood /\ op'.look = op.look
      BY <1>0, <3>1 DEF Queries
    <3>3. op.look = 1
      BY <1>0, <3>1 DEF Evidence
    <3>4. Standing(op.items, db)' = Standing(op.items, db) /\ Cited' = Cited
      BY <3>1, <3>2 DEF Standing, Cited
    <3>5. Cited \subseteq Standing(op.items, db).worded
      BY <3>1 DEF RowsUnchanged, Cited, Standing
    <3>6. Evidence'
      BY <1>0, <3>1, <3>2, <3>3, <3>4, <3>5 DEF Evidence, Closing
    <3> QED
      BY <3>2, <3>6 DEF Vouched, Chosen, Looked,
         Read, ReadHealth, ReadIdentity, ReadNothing, ReadText, ReadPages, ReadRow, ReadAll
  <2> QED BY <2>1, <2>2
<1>22. CASE IdentifySections
  <2>1. op'.pc = "look"
    BY <1>0, <1>22 DEF IdentifySections, Queries
  <2> QED
    BY <1>0, <2>1 DEF Vouched, Evidence, Closing, Chosen, Looked,
       Read, ReadHealth, ReadIdentity, ReadNothing, ReadText, ReadPages, ReadRow, ReadAll
<1>21. CASE AnswerWithCitations
  <2>1. CASE Stop
    BY <2>1, StopIsVouched
  <2>2. CASE ~Stop
    BY <1>0, <1>21, <2>2, SameBase DEF AnswerWithCitations, Queries, Fresh, Vouched, Evidence, Closing, Chosen, Looked,
       Read, ReadHealth, ReadIdentity, ReadNothing, ReadText, ReadPages, ReadRow, ReadAll
  <2> QED BY <2>1, <2>2
<1> QED
  BY <1>1, <1>2, <1>3, <1>4, <1>5, <1>6, <1>7, <1>8, <1>9, <1>10, <1>11, <1>12, <1>13, <1>14,
     <1>15, <1>16, <1>17, <1>18, <1>19, <1>21, <1>22 DEF Steps

-----------------------------------------------------------------------------
(* Theorems *)

LEMMA NextKeepsInv == SearchInv /\ [Next]_vars => SearchInv'
<1> SUFFICES ASSUME SearchInv, [Next]_vars PROVE SearchInv'
  OBVIOUS
<1>1. CASE Others
  BY <1>1, OthersCommit, CommitKeepsInv DEF SearchInv
<1>2. CASE Steps
  <2>1. SearchTypeOK'
    BY <1>2, StepsAreWellTyped, WellTypedKeepsTypes DEF SearchInv
  <2> QED BY <1>2, <2>1, StepsAreVouched DEF Vouched, SearchInv
<1>3. CASE UNCHANGED vars
  <2>1. SearchTypeOK'
    BY <1>3 DEF SearchInv, SearchTypeOK, vars, Active
  <2>2. Fresh' = Fresh /\ Read' = Read /\ Evidence' = Evidence
    <3>1. db' = db /\ op' = op
      BY <1>3 DEF vars
    <3>2. ReadText' = ReadText /\ ReadAll' = ReadAll
      BY <3>1, SameBase DEF ReadText, ReadAll, Vectors
    <3>3. ReadHealth' = ReadHealth /\ ReadIdentity' = ReadIdentity /\ ReadNothing' = ReadNothing
      BY <3>1, SameBase DEF ReadHealth, ReadIdentity, ReadNothing
    <3>4. ReadPages' = ReadPages /\ ReadRow' = ReadRow
      BY <3>1, SamePages, SameBase DEF ReadPages, ReadRow
    <3> QED BY <3>1, <3>2, <3>3, <3>4 DEF Fresh, Read, Evidence, Standing, Cited, Summaries
  <2> QED BY <2>1, <2>2 DEF SearchInv
<1> QED BY <1>1, <1>2, <1>3, NextIsOthersOrSteps

\* At every moment of every query: nothing was committed since its version was
\* taken, and what it has read is what there is; or the version tells.
THEOREM SearchInvariance == Spec => []SearchInv
<1>1. SearchInv /\ [Next]_vars => SearchInv'
  BY NextKeepsInv
<1> QED BY <1>1, InitInv, PTL DEF Spec

\* The database and the query keep their types, and a query reads a generation
\* that exists.
THEOREM SearchTypeCorrect == Spec => []SearchTypeOK
<1>1. SearchInv => SearchTypeOK
  BY DEF SearchInv
<1> QED BY <1>1, SearchInvariance, PTL

\* While a commit happens a query goes nowhere.
LEMMA CommitsDoNotAnswer == Others /\ SearchTypeOK => op'.pc = op.pc
<1> SUFFICES ASSUME Others, SearchTypeOK PROVE op'.pc = op.pc
  OBVIOUS
<1>1. Committed
  BY OthersCommit
<1> QED BY <1>1 DEF Committed, SearchTypeOK, Queries

\* The results of a search are those of one state of the database
\* (search_fusion.py:617-706, semantic_query.py:1452-1466).
THEOREM SearchesSeeOneState == Spec => ResultsAreOfOneState
<1>1. ASSUME SearchInv, [Next]_vars, op.pc = "verify", op'.pc = "verify_generation"
      PROVE  LET here == Shown({d \in Documents : InScope(d)}, db.registry)
             IN /\ db.registry = Expected(db) /\ Vectors(Active) = db.registry
                /\ op.scored = here
                /\ op.kind # "ask" => op.excerpts = here
                /\ op.kind = "hybrid" =>
                     /\ op.keyword = here
                     /\ op.titles = Shown({m \in Metadata : \E d \in DOMAIN here : Owner[d] = Owner[m]}, db.registry)
  <2>1. Steps
    BY <1>1, NextIsOthersOrSteps, CommitsDoNotAnswer DEF SearchInv, vars
  <2>2. VerifyVersion
    BY <1>1, <2>1
    DEF Steps, Begin, SweepHealth, ReadGeneration, Recheck, ReadScope, EmbedQuery, SelectCandidates, LookupTitles,
         CountVectors, ReadPage, ReadVectors, EndTraversal, FetchExcerpts, VerifyGeneration, Answer, ReadRows,
         IdentifySections, Looks, LookAtOwners, LookAtSegments, LookAtArchivedRanges, LookAtSummaries,
         LookAtSectionSummaries, Look, Chat, RevalidateRows, AnswerWithCitations
  <2>3. NothingCommitted
    BY <1>1, <2>2 DEF VerifyVersion, Stop, NoQuery
  <2>4. Read /\ op.pc \in Chosen /\ op.pc \in Looked \ {"keyword", "titles"}
    BY <1>1, <2>3 DEF SearchInv, Fresh, NothingCommitted, Chosen, Looked
  <2>5. db.registry = Expected(db)
    BY <1>1, <2>4, SoundIndex DEF Read, ReadHealth, SearchInv, SearchTypeOK
  <2>6. Vectors(Active) = db.registry /\ op.scored = Here /\ (op.kind # "ask" => op.excerpts = Here)
    BY <1>1, <2>4 DEF Read, ReadAll
  <2>7. op.kind = "hybrid" => op.keyword = Here /\ op.titles = TitlesHere
    BY <1>1, <2>4 DEF Read, ReadText
  <2> QED BY <2>5, <2>6, <2>7 DEF Here, TitlesHere
<1> QED BY <1>1, SearchInvariance, PTL DEF Spec, ResultsAreOfOneState

\* Everything an answer supposes of what it cites was true at some moment after
\* the model had answered, although the last look is made of six statements
\* between which others commit (ask.py:374-402, 404-510, 643-646).
THEOREM AnswersCiteWhatStands == Spec => AnswerEvidenceStands
<1>1. ASSUME SearchInv, [Next]_vars, op.pc = "relook", op'.pc = "answered"
      PROVE  /\ Cited \subseteq op.stood.worded /\ Cited \subseteq op.stood.used
             /\ Cited \subseteq op.stood.recording /\ Cited \subseteq op.stood.section
  <2>1. Steps
    BY <1>1, NextIsOthersOrSteps, CommitsDoNotAnswer DEF SearchInv, vars
  <2>2. Looks
    BY <1>1, <2>1
    DEF Steps, Begin, SweepHealth, ReadGeneration, Recheck, ReadScope, EmbedQuery, SelectCandidates, LookupTitles,
         CountVectors, ReadPage, ReadVectors, EndTraversal, FetchExcerpts, VerifyVersion, VerifyGeneration, Answer,
         ReadRows, IdentifySections, Chat, RevalidateRows, AnswerWithCitations
  <2>3. PICK n \in 1..5 :
          /\ op.look = n /\ ~Stop
          /\ op' = IF n < 5 THEN [op EXCEPT !.look = n + 1]
                   ELSE [op EXCEPT !.look = 1, !.pc = IF @ = "look" THEN "chat" ELSE "answered"]
    BY <1>1, <2>2 DEF Looks, LookAtOwners, LookAtSegments, LookAtArchivedRanges, LookAtSummaries,
                      LookAtSectionSummaries, Look, Stop, NoQuery
  <2>4. op.look = 5
    BY <1>1, <2>3 DEF SearchInv, SearchTypeOK, Queries
  <2>5. LookAtSectionSummaries
    BY <2>2, <2>4 DEF Looks, LookAtOwners, LookAtSegments, LookAtArchivedRanges, LookAtSummaries, Look
  <2>6. \A d \in Summaries : Section[d] # 0 => InUse(d) /\ Section[d] \notin db.archived
    BY <2>3, <2>4, <2>5 DEF LookAtSectionSummaries, Look
  <2>7. PICK now : now = Standing(op.items, db)
    OBVIOUS
  <2>8. /\ now.used \subseteq op.stood.used
        /\ now.recording \subseteq op.stood.recording /\ now.section \subseteq op.stood.section
        /\ Cited \subseteq op.stood.worded
        /\ Cited \cap Segments \subseteq op.stood.used \cap op.stood.recording
        /\ Cited \cap Segments \subseteq op.stood.section
        /\ {d \in Summaries : Section[d] = 0} \subseteq op.stood.used \cap op.stood.recording
    BY <1>1, <2>4, <2>7 DEF SearchInv, Evidence, Closing
  <2>9. 0 \notin db.archived
    BY <1>1, SearchAssumption DEF SearchInv, SearchTypeOK, Bases, Sections
  <2>10. ASSUME NEW d \in Summaries PROVE d \in op.stood.used \cap op.stood.recording \cap op.stood.section
    <3>1. d \in Cited /\ Section[d] \notin db.archived
      BY <2>6, <2>9 DEF Summaries
    <3>2. d \in now.section
      BY <2>7, <3>1 DEF Standing, Cited
    <3>3. Section[d] # 0 => d \in now.used \cap now.recording
      BY <2>6, <2>7, <3>1 DEF Standing, Cited, InUse
    <3> QED BY <2>8, <3>2, <3>3
  <2> QED BY <2>8, <2>10 DEF Summaries
<1> QED BY <1>1, SearchInvariance, PTL DEF Spec, AnswerEvidenceStands
=============================================================================
