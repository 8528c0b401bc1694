----------------------------- MODULE TagsProofs -----------------------------
(***************************************************************************)
(* The properties of Tags, for any tags, layouts, summaries and edits.     *)
(***************************************************************************)
EXTENDS Tags, SequenceTheorems, FiniteSetTheorems, TLAPS

-----------------------------------------------------------------------------
(* The inductive invariant *)

TagRow == [configured : BOOLEAN, origin : {"config", "custom"}]
SummaryRow == [scope : Scopes, default : BOOLEAN, suggested : SUBSET Keys]

\* What TypeOK says, with the variables as functions and without cardinalities.
Shape ==
  /\ config \subseteq Keys
  /\ DOMAIN tags \subseteq Keys /\ tags \in [DOMAIN tags -> TagRow]
  /\ Assigned \subseteq Scopes \X DOMAIN tags /\ assignments \in [Assigned -> Row]
  /\ summaries \in Seq(SummaryRow) /\ Len(summaries) <= MaxSummaries
  /\ layout \in 0 .. MaxLayouts + 1 /\ archived \subseteq Scopes
  /\ op \subseteq [scope : Scopes, default : BOOLEAN, offered : SUBSET DOMAIN tags]
  /\ \A o, q \in op : o = q
  /\ request \subseteq [scope : Scopes, key : DOMAIN tags] /\ \A r, q \in request : r = q
  /\ indexed \in [Scopes -> SUBSET Keys] /\ scheduled \in BOOLEAN /\ edits \in 0 .. MaxEdits

\* The scope of the summary that is being written stays in use, since a layout and
\* an archive wait for the lock.
Writing == \A o \in op : Editable(o.scope) /\ Len(summaries) < MaxSummaries

Inv == Shape /\ Writing /\ SuggestionsAreCurrent /\ TagChangesReachIndex

LEMMA AtMostOne ==
  ASSUME NEW S, \A a, b \in S : a = b
  PROVE  Cardinality(S) <= 1
<1>1. CASE S = {}
  BY <1>1, FS_EmptySet
<1>2. CASE S # {}
  <2>1. PICK a \in S : S = {a}
    BY <1>2
  <2> QED BY <2>1, FS_Singleton
<1> QED BY <1>1, <1>2

LEMMA ShapeTypes == Shape => TypeOK
<1> SUFFICES ASSUME Shape PROVE TypeOK
  OBVIOUS
<1>1. Cardinality(op) <= 1 /\ Cardinality(request) <= 1
  BY AtMostOne DEF Shape
<1>2. \A i \in DOMAIN summaries : summaries[i] \in SummaryRow
  BY DEF Shape
<1>3. /\ \A k \in DOMAIN tags : tags[k] \in TagRow
      /\ \A p \in Assigned : assignments[p] \in Row
  BY DEF Shape
<1> QED BY <1>1, <1>2, <1>3 DEF TypeOK, Shape, TagRow, SummaryRow

LEMMA ScopesAndLive == Whole \in Scopes /\ Live \subseteq Scopes
BY TagsAssumption DEF Scopes, Live, Whole

LEMMA InitInv == Init => Inv
<1> SUFFICES ASSUME Init PROVE Inv
  OBVIOUS
<1>1. Shape
  <2>1. summaries \in Seq(SummaryRow) /\ Len(summaries) = 0
    BY DEF Init
  <2>2. tags \in [DOMAIN tags -> TagRow] /\ DOMAIN tags = {}
    BY DEF Init
  <2>3. assignments \in [Assigned -> Row] /\ Assigned = {}
    BY DEF Init, Assigned
  <2>4. config \subseteq Keys /\ indexed \in [Scopes -> SUBSET Keys]
    BY DEF Init
  <2>5. /\ layout \in 0 .. MaxLayouts + 1 /\ edits \in 0 .. MaxEdits
        /\ Len(summaries) <= MaxSummaries
    BY <2>1, TagsAssumption DEF Init
  <2>6. op = {} /\ request = {} /\ archived = {} /\ scheduled \in BOOLEAN
    BY DEF Init
  <2> QED BY <2>1, <2>2, <2>3, <2>4, <2>5, <2>6 DEF Shape
<1>2. Writing
  BY DEF Init, Writing
<1>3. SuggestionsAreCurrent
  BY DEF Init, SuggestionsAreCurrent, ActiveKeys, Suggesting, Assigned, Newest
<1>4. TagChangesReachIndex
  BY ScopesAndLive DEF Init, TagChangesReachIndex, ActiveKeys, Assigned
<1> QED BY <1>1, <1>2, <1>3, <1>4 DEF Inv

-----------------------------------------------------------------------------
(* Edits of the user *)

\* What every edit does to the rows: some rows of one scope become the user's.
UserEdit(scope) ==
  /\ assignments' = [p \in DOMAIN assignments' |-> assignments'[p]]
  /\ Assigned \subseteq DOMAIN assignments'
  /\ \A p \in DOMAIN assignments' \ Assigned : p \in {scope} \X DOMAIN tags'
  /\ \A p \in DOMAIN assignments' :
       \/ p \in Assigned /\ assignments'[p] = assignments[p]
       \/ p[1] = scope /\ assignments'[p] \in Row /\ UserOwned(assignments'[p])

Edited == \E scope : Editable(scope) /\ UserEdit(scope)

\* The rows stay well formed.
LEMMA UserEditShape ==
  ASSUME Shape, NEW scope \in Scopes, UserEdit(scope), DOMAIN tags \subseteq DOMAIN tags'
  PROVE  Assigned' \subseteq Scopes \X DOMAIN tags' /\ assignments' \in [Assigned' -> Row]
<1>1. \A p \in Assigned : assignments[p] \in Row
  BY DEF Shape
<1>2. \A p \in DOMAIN assignments' : assignments'[p] \in Row
  BY <1>1 DEF UserEdit
<1>3. \A p \in DOMAIN assignments' : p \in Scopes \X DOMAIN tags'
  BY DEF UserEdit, Shape
<1> QED BY <1>2, <1>3 DEF UserEdit, Assigned

\* What the user makes of a row never is a suggestion, and where it is inactive it
\* was the user who removed it.
LEMMA UserEditSuggestions ==
  ASSUME Shape, SuggestionsAreCurrent, NEW s, UserEdit(s), UNCHANGED summaries
  PROVE  SuggestionsAreCurrent'
<1> SUFFICES ASSUME NEW scope \in Scopes
             PROVE  /\ \A key \in ActiveKeys(scope)' :
                         assignments'[<<scope, key>>].origin = "suggested" =>
                           LET row == assignments'[<<scope, key>>]
                           IN Newest(scope, row.source) /\ key \in summaries[row.source].suggested
                    /\ \A i \in Suggesting(scope) : Newest(scope, i) =>
                         \A key \in summaries[i].suggested :
                           /\ <<scope, key>> \in Assigned'
                           /\ assignments'[<<scope, key>>].active \/ assignments'[<<scope, key>>].by = "user"
  BY DEF SuggestionsAreCurrent, Newest, Suggesting
<1>1. ASSUME NEW key \in ActiveKeys(scope)', assignments'[<<scope, key>>].origin = "suggested"
      PROVE  LET row == assignments'[<<scope, key>>]
             IN Newest(scope, row.source) /\ key \in summaries[row.source].suggested
  <2>1. <<scope, key>> \in Assigned /\ assignments'[<<scope, key>>] = assignments[<<scope, key>>]
    BY <1>1 DEF UserEdit, UserOwned, ActiveKeys, Assigned
  <2>2. key \in ActiveKeys(scope)
    BY <1>1, <2>1 DEF ActiveKeys
  <2> QED BY <1>1, <2>1, <2>2 DEF SuggestionsAreCurrent
<1>2. ASSUME NEW i \in Suggesting(scope), Newest(scope, i), NEW key \in summaries[i].suggested
      PROVE  /\ <<scope, key>> \in Assigned'
             /\ assignments'[<<scope, key>>].active \/ assignments'[<<scope, key>>].by = "user"
  <2>1. /\ <<scope, key>> \in Assigned
        /\ assignments[<<scope, key>>].active \/ assignments[<<scope, key>>].by = "user"
    BY <1>2 DEF SuggestionsAreCurrent
  <2> QED BY <2>1 DEF UserEdit, UserOwned, Assigned
<1> QED BY <1>1, <1>2

\* What an edit of a scope in use keeps, if it schedules a synchronization or leaves
\* the same tags active.
LEMMA EditKeepsInv ==
  ASSUME Inv, NEW scope, Editable(scope), UserEdit(scope), Edit,
         DOMAIN tags \subseteq DOMAIN tags', DOMAIN tags' \subseteq Keys,
         tags' \in [DOMAIN tags' -> TagRow], request' \subseteq request, scheduled' \in BOOLEAN,
         UNCHANGED <<config, summaries, layout, archived, op, indexed>>,
         ~scheduled' => ~scheduled /\ \A s \in Live : ActiveKeys(s)' = ActiveKeys(s)
  PROVE  Inv'
<1>1. scope \in Scopes
  BY DEF Editable, Live
<1>2. edits' \in 0 .. MaxEdits
  BY TagsAssumption DEF Edit, Inv, Shape
<1>3. Assigned' \subseteq Scopes \X DOMAIN tags' /\ assignments' \in [Assigned' -> Row]
  BY <1>1, UserEditShape DEF Inv
<1>4. op' \subseteq [scope : Scopes, default : BOOLEAN, offered : SUBSET DOMAIN tags']
  <2>1. op \subseteq [scope : Scopes, default : BOOLEAN, offered : SUBSET DOMAIN tags]
    BY DEF Inv, Shape
  <2> QED BY <2>1
<1>5. request' \subseteq [scope : Scopes, key : DOMAIN tags']
  <2>1. request \subseteq [scope : Scopes, key : DOMAIN tags]
    BY DEF Inv, Shape
  <2> QED BY <2>1
<1>6. Shape'
  BY <1>2, <1>3, <1>4, <1>5 DEF Inv, Shape
<1>7. Writing'
  BY DEF Inv, Writing, Editable, Live
<1>8. SuggestionsAreCurrent'
  BY UserEditSuggestions DEF Inv
<1>9. TagChangesReachIndex'
  BY DEF Inv, TagChangesReachIndex, Live
<1> QED BY <1>6, <1>7, <1>8, <1>9 DEF Inv

LEMMA RowsAreRows ==
  ASSUME Shape, NEW p \in Assigned
  PROVE  /\ assignments[p] \in Row /\ assignments = [q \in Assigned |-> assignments[q]]
         /\ p \in Scopes \X DOMAIN tags /\ p = <<p[1], p[2]>>
BY DEF Shape

LEMMA ManualIsTheUsers == Manual \in Row /\ UserOwned(Manual) /\ Manual.active
<1>1. Manual \in [active : BOOLEAN, origin : Origins, by : {"", "user", "model"}, source : 0 .. MaxSummaries]
  BY TagsAssumption DEF Manual, Origins
<1>2. Manual.active = TRUE /\ Manual.by = "" /\ Manual.origin = "manual"
  BY DEF Manual
<1> QED BY <1>1, <1>2 DEF Row, UserOwned

LEMMA RemovedIsTheUsers ==
  ASSUME NEW row \in Row
  PROVE  Removed(row) \in Row /\ UserOwned(Removed(row)) /\ ~Removed(row).active
BY DEF Removed, Row, UserOwned

\* A manual assignment, and the rows where there is one already.
LEMMA WithManualEdits ==
  ASSUME Shape, NEW scope \in Scopes, NEW key, key \in DOMAIN tags',
         assignments' = WithManual(assignments, scope, key)
  PROVE  /\ UserEdit(scope)
         /\ key \in ActiveKeys(scope) => \A s \in Scopes : ActiveKeys(s)' = ActiveKeys(s)
<1> DEFINE p == <<scope, key>>
           kept == p \in Assigned /\ assignments[p].active /\ assignments[p].origin # "suggested"
<1>1. CASE kept
  BY <1>1, RowsAreRows DEF WithManual, UserEdit, Assigned, ActiveKeys
<1>2. CASE ~kept
  <2>1. assignments' = [q \in Assigned \cup {p} |-> IF q = p THEN Manual ELSE assignments[q]]
    BY <1>2 DEF WithManual, Assigned
  <2>2. UserEdit(scope)
    BY <2>1, ManualIsTheUsers DEF UserEdit, Assigned
  <2>3. ASSUME key \in ActiveKeys(scope), NEW s \in Scopes
        PROVE  ActiveKeys(s)' = ActiveKeys(s)
    BY <2>1, <2>3, ManualIsTheUsers DEF ActiveKeys, Assigned
  <2> QED BY <2>2, <2>3
<1> QED BY <1>1, <1>2

LEMMA AddManualTagEdits == Inv /\ AddManualTag => Inv' /\ Edited
<1> SUFFICES ASSUME Inv, AddManualTag PROVE Inv' /\ Edited
  OBVIOUS
<1>1. PICK r \in request : Editable(r.scope) /\ Write(WithManual(assignments, r.scope, r.key),
                                                       AddSchedules(r.scope, r.key))
  BY DEF AddManualTag
<1>2. r.scope \in Scopes /\ r.key \in DOMAIN tags
  BY DEF Inv, Shape
<1>3. /\ UserEdit(r.scope)
      /\ r.key \in ActiveKeys(r.scope) => \A s \in Scopes : ActiveKeys(s)' = ActiveKeys(s)
  BY <1>1, <1>2, WithManualEdits DEF Inv, Write, AddManualTag
<1>4. ~scheduled' => ~scheduled /\ \A s \in Live : ActiveKeys(s)' = ActiveKeys(s)
  BY <1>1, <1>3, ScopesAndLive DEF Write, AddSchedules
<1> QED BY <1>1, <1>3, <1>4, EditKeepsInv DEF Edited, AddManualTag, Inv, Shape, Write, AddSchedules

LEMMA ConfirmSuggestionEdits == Inv /\ ConfirmSuggestion => Inv' /\ Edited
<1> SUFFICES ASSUME Inv, ConfirmSuggestion PROVE Inv' /\ Edited
  OBVIOUS
<1>1. PICK scope \in Scopes, key \in Keys :
        /\ Editable(scope) /\ key \in ActiveKeys(scope)
        /\ Write([assignments EXCEPT ![<<scope, key>>].origin = "confirmed"], FALSE)
  BY DEF ConfirmSuggestion
<1> DEFINE p == <<scope, key>>
<1>2. p \in Assigned /\ assignments[p] \in Row /\ assignments[p].active
  BY <1>1, RowsAreRows DEF ActiveKeys, Inv
<1>3. assignments' = [q \in Assigned |-> IF q = p THEN [assignments[q] EXCEPT !.origin = "confirmed"]
                                         ELSE assignments[q]]
  BY <1>1, <1>2 DEF Write, Assigned
<1>4. [assignments[p] EXCEPT !.origin = "confirmed"] \in Row
      /\ [assignments[p] EXCEPT !.origin = "confirmed"].active
      /\ UserOwned([assignments[p] EXCEPT !.origin = "confirmed"])
  BY <1>2 DEF Row, Origins, UserOwned
<1>5. UserEdit(scope)
  BY <1>2, <1>3, <1>4 DEF UserEdit, Assigned
<1>6. \A s \in Live : ActiveKeys(s)' = ActiveKeys(s)
  BY <1>2, <1>3, <1>4 DEF ActiveKeys, Assigned
<1> QED BY <1>1, <1>5, <1>6, EditKeepsInv DEF Edited, ConfirmSuggestion, Inv, Shape, Write

LEMMA RemoveTagEdits == Inv /\ RemoveTag => Inv' /\ Edited
<1> SUFFICES ASSUME Inv, RemoveTag PROVE Inv' /\ Edited
  OBVIOUS
<1>1. PICK scope \in Scopes, key \in Keys :
        /\ Editable(scope) /\ key \in ActiveKeys(scope)
        /\ Write([assignments EXCEPT ![<<scope, key>>] = Removed(@)], RemovalSchedules(scope))
  BY DEF RemoveTag
<1> DEFINE p == <<scope, key>>
<1>2. p \in Assigned /\ assignments[p] \in Row
  BY <1>1, RowsAreRows DEF ActiveKeys, Inv
<1>3. assignments' = [q \in Assigned |-> IF q = p THEN Removed(assignments[q]) ELSE assignments[q]]
  BY <1>1, <1>2 DEF Write, Assigned
<1>4. UserEdit(scope)
  BY <1>2, <1>3, RemovedIsTheUsers DEF UserEdit, Assigned
<1>5. scheduled'
  BY <1>1 DEF Write, RemovalSchedules
<1> QED BY <1>1, <1>4, <1>5, EditKeepsInv DEF Edited, RemoveTag, Inv, Shape, Write, RemovalSchedules

\* A new custom tag changes no other definition.
LEMMA CustomTagShape ==
  ASSUME Shape, NEW new, new \subseteq Keys, tags' = WithCustom(new)
  PROVE  /\ DOMAIN tags' = new \cup DOMAIN tags /\ DOMAIN tags' \subseteq Keys
         /\ tags' \in [DOMAIN tags' -> TagRow]
<1>1. \A k \in DOMAIN tags : tags[k] \in TagRow
  BY DEF Shape
<1>2. [configured |-> TRUE, origin |-> "custom"] \in TagRow
  BY DEF TagRow
<1> QED BY <1>1, <1>2 DEF Shape, WithCustom

LEMMA CreateCustomTagEdits == Inv /\ CreateCustomTag => Inv' /\ Edited
<1> SUFFICES ASSUME Inv, CreateCustomTag PROVE Inv' /\ Edited
  OBVIOUS
<1>1. PICK scope \in Scopes, key \in Keys :
        /\ Editable(scope) /\ tags' = WithCustom({key})
        /\ Write(WithManual(assignments, scope, key), TRUE)
  BY DEF CreateCustomTag
<1>2. DOMAIN tags' = {key} \cup DOMAIN tags /\ DOMAIN tags' \subseteq Keys
      /\ tags' \in [DOMAIN tags' -> TagRow]
  BY <1>1, CustomTagShape DEF Inv
<1>3. UserEdit(scope)
  BY <1>1, <1>2, WithManualEdits DEF Inv, Write
<1> QED BY <1>1, <1>2, <1>3, EditKeepsInv DEF Edited, CreateCustomTag, Write

\* The selection changes only rows whose activity it changes.
LEMMA SelectedEdits ==
  ASSUME Shape, NEW scope \in Scopes, NEW selected, selected \subseteq DOMAIN tags',
         assignments' = Selected(scope, selected)
  PROVE  /\ UserEdit(scope)
         /\ selected = ActiveKeys(scope) => \A s \in Scopes : ActiveKeys(s)' = ActiveKeys(s)
<1>1. DOMAIN assignments' = Assigned \cup ({scope} \X selected)
  BY DEF Selected
<1>2. ASSUME NEW p \in DOMAIN assignments'
      PROVE  \/ p \in Assigned /\ assignments'[p] = assignments[p]
             \/ p[1] = scope /\ assignments'[p] \in Row /\ UserOwned(assignments'[p])
  <2>1. assignments'[p] = IF p \notin Assigned THEN Manual
                          ELSE IF p[1] # scope \/ (assignments[p].active <=> p[2] \in selected) THEN assignments[p]
                          ELSE IF p[2] \in selected THEN Manual ELSE Removed(assignments[p])
    BY <1>1 DEF Selected
  <2>2. CASE p \notin Assigned
    BY <1>1, <2>1, <2>2, ManualIsTheUsers
  <2>3. CASE p \in Assigned
    <3>1. assignments[p] \in Row
      BY <2>3, RowsAreRows
    <3> QED BY <2>1, <2>3, <3>1, ManualIsTheUsers, RemovedIsTheUsers
  <2> QED BY <2>2, <2>3
<1>3. UserEdit(scope)
  BY <1>1, <1>2 DEF UserEdit, Assigned, Selected
<1>4. ASSUME selected = ActiveKeys(scope)
      PROVE  assignments' = assignments
  <2>1. DOMAIN assignments' = Assigned
    BY <1>1, <1>4 DEF ActiveKeys
  <2>2. ASSUME NEW p \in Assigned, p[1] = scope
        PROVE  assignments[p].active <=> p[2] \in selected
    BY <1>4, <2>2, RowsAreRows DEF ActiveKeys, Shape
  <2>3. \A p \in Assigned : assignments'[p] = assignments[p]
    BY <1>1, <2>2 DEF Selected
  <2> QED BY <1>3, <2>1, <2>3 DEF Shape, UserEdit
<1> QED BY <1>3, <1>4 DEF ActiveKeys, Assigned

LEMMA ApplySelectionEdits == Inv /\ ApplySelection => Inv' /\ Edited
<1> SUFFICES ASSUME Inv, ApplySelection PROVE Inv' /\ Edited
  OBVIOUS
<1>1. PICK scope \in Scopes, available \in SUBSET Keys, retired \in SUBSET Keys, new \in SUBSET Keys :
        /\ Editable(scope) /\ SelectionValid(available, retired, new)
        /\ tags' = WithCustom(new)
        /\ Write(Selected(scope, available \cup retired \cup new),
                 (available \cup retired \cup new) # ActiveKeys(scope))
  BY DEF ApplySelection
<1> DEFINE selected == available \cup retired \cup new
<1>2. DOMAIN tags' = new \cup DOMAIN tags /\ DOMAIN tags' \subseteq Keys
      /\ tags' \in [DOMAIN tags' -> TagRow]
  BY <1>1, CustomTagShape DEF Inv
<1>3. selected \subseteq DOMAIN tags'
  BY <1>1, <1>2 DEF SelectionValid, Configured
<1>4. /\ UserEdit(scope)
      /\ selected = ActiveKeys(scope) => \A s \in Scopes : ActiveKeys(s)' = ActiveKeys(s)
  BY <1>1, <1>3, SelectedEdits DEF Inv, Write
<1>5. ~scheduled' => ~scheduled /\ \A s \in Live : ActiveKeys(s)' = ActiveKeys(s)
  BY <1>1, <1>4, ScopesAndLive DEF Write
<1>6. scheduled' \in BOOLEAN
  BY <1>1 DEF Write, Inv, Shape
<1> QED BY <1>1, <1>2, <1>4, <1>5, <1>6, EditKeepsInv DEF Edited, ApplySelection, Inv

-----------------------------------------------------------------------------
(* What the model suggests *)

LEMMA SyncedShape ==
  ASSUME Shape
  PROVE  DOMAIN Synced = DOMAIN tags \cup config /\ DOMAIN Synced \subseteq Keys
         /\ Synced \in [DOMAIN Synced -> TagRow]
<1>1. \A k \in DOMAIN tags : tags[k] \in TagRow
  BY DEF Shape
<1>2. [configured |-> TRUE, origin |-> "config"] \in TagRow
  BY DEF TagRow
<1>3. ASSUME NEW k \in DOMAIN tags
      PROVE  [tags[k] EXCEPT !.configured = tags[k].configured /\ tags[k].origin = "custom"] \in TagRow
  BY <1>1 DEF TagRow
<1> QED BY <1>1, <1>2, <1>3 DEF Shape, Synced

LEMMA SyncTagsKeepsInv == Inv /\ SyncTags => Inv'
<1> SUFFICES ASSUME Inv, SyncTags PROVE Inv'
  OBVIOUS
<1>1. DOMAIN tags' = DOMAIN tags \cup config /\ DOMAIN tags' \subseteq Keys
      /\ tags' \in [DOMAIN tags' -> TagRow]
  BY SyncedShape DEF Inv, SyncTags
<1>2. Assigned' \subseteq Scopes \X DOMAIN tags' /\ assignments' \in [Assigned' -> Row]
  BY <1>1 DEF Inv, Shape, SyncTags, Assigned
<1>3. request' \subseteq [scope : Scopes, key : DOMAIN tags']
  BY <1>1 DEF Inv, Shape, SyncTags
<1>4. Shape'
  BY <1>1, <1>2, <1>3 DEF Inv, Shape, SyncTags
<1> QED BY <1>4 DEF Inv, SyncTags, Writing, SuggestionsAreCurrent, TagChangesReachIndex, ActiveKeys,
             Newest, Suggesting, Assigned, Live

LEMMA StartSummaryKeepsInv == Inv /\ StartSummary => Inv'
<1> SUFFICES ASSUME Inv, StartSummary PROVE Inv'
  OBVIOUS
<1>1. DOMAIN tags' = DOMAIN tags \cup config /\ DOMAIN tags' \subseteq Keys
      /\ tags' \in [DOMAIN tags' -> TagRow]
  BY SyncedShape DEF Inv, StartSummary
<1>2. PICK scope \in Live \ archived, default \in BOOLEAN :
        /\ Whole \notin archived
        /\ tags' = Synced
        /\ op' = {[scope |-> scope, default |-> default,
                   offered |-> {k \in DOMAIN Synced : Synced[k].configured}]}
  BY DEF StartSummary
<1>3. Assigned' \subseteq Scopes \X DOMAIN tags' /\ assignments' \in [Assigned' -> Row]
  BY <1>1 DEF Inv, Shape, StartSummary, Assigned
<1>4. request' \subseteq [scope : Scopes, key : DOMAIN tags']
  BY <1>1 DEF Inv, Shape, StartSummary
<1>5. op' \subseteq [scope : Scopes, default : BOOLEAN, offered : SUBSET DOMAIN tags']
  BY <1>2, ScopesAndLive
<1>6. \A o, q \in op' : o = q
  BY <1>2
<1>7. Shape'
  BY <1>1, <1>3, <1>4, <1>5, <1>6 DEF Inv, Shape, StartSummary
<1>8. Writing'
  BY <1>2 DEF Inv, StartSummary, Writing, Editable, Live
<1> QED BY <1>7, <1>8 DEF Inv, StartSummary, SuggestionsAreCurrent, TagChangesReachIndex, ActiveKeys,
             Newest, Suggesting, Assigned, Live

\* The rows after materialization: well formed, those of other scopes and those of the
\* user as they were; a suggestion of the new summary where it suggests and the user
\* has not removed; and no other suggestion in this scope.
SuggestedBy(summary, rows, scope, suggested) ==
  /\ DOMAIN rows = Assigned \cup ({scope} \X suggested) /\ rows = [p \in DOMAIN rows |-> rows[p]]
  /\ \A p \in DOMAIN rows : rows[p] \in Row
  /\ \A p \in Assigned : p[1] # scope \/ UserOwned(assignments[p]) => rows[p] = assignments[p]
  /\ \A p \in DOMAIN rows : p[1] = scope /\ rows[p].active /\ rows[p].origin = "suggested"
                             => rows[p].source = summary /\ p[2] \in suggested
  /\ \A key \in suggested : rows[<<scope, key>>].active \/ rows[<<scope, key>>].by = "user"

LEMMA MaterializedRows ==
  ASSUME Shape, NEW scope \in Scopes, NEW suggested, NEW summary \in 0 .. MaxSummaries
  PROVE  SuggestedBy(summary, Materialized(scope, suggested, summary), scope, suggested)
<1> DEFINE rows == Materialized(scope, suggested, summary)
           Changed(p) ==
             IF p[1] # scope THEN assignments[p]
             ELSE IF p[2] \in suggested /\ Reactivates(assignments[p]) THEN Suggestion(summary)
             ELSE IF assignments[p].active /\ assignments[p].origin = "suggested"
                  THEN IF p[2] \in suggested THEN Suggestion(summary) ELSE Dropped(assignments[p])
             ELSE assignments[p]
<1>1. rows = [p \in Assigned \cup ({scope} \X suggested) |->
                IF p \in Assigned THEN Changed(p) ELSE Suggestion(summary)]
  BY DEF Materialized
<1>2. /\ Suggestion(summary) \in Row /\ Suggestion(summary).active
      /\ Suggestion(summary).origin = "suggested" /\ Suggestion(summary).source = summary
  <2>1. Suggestion(summary) \in [active : BOOLEAN, origin : Origins, by : {"", "user", "model"},
                                 source : 0 .. MaxSummaries]
    BY DEF Suggestion, Origins
  <2>2. Suggestion(summary).active = TRUE /\ Suggestion(summary).by = ""
    BY DEF Suggestion
  <2> QED BY <2>1, <2>2 DEF Row, Suggestion
<1>3. ASSUME NEW row \in Row PROVE Dropped(row) \in Row /\ ~Dropped(row).active
  BY DEF Dropped, Row
<1>4. ASSUME NEW p \in Assigned
      PROVE  /\ Changed(p) \in Row
             /\ p[1] # scope \/ UserOwned(assignments[p]) => Changed(p) = assignments[p]
             /\ p[1] = scope /\ Changed(p).active /\ Changed(p).origin = "suggested"
                  => Changed(p).source = summary /\ p[2] \in suggested
             /\ p[1] = scope /\ p[2] \in suggested => Changed(p).active \/ Changed(p).by = "user"
  <2> DEFINE row == assignments[p]
  <2>1. row \in Row
    BY RowsAreRows
  <2>2. row.active \in BOOLEAN /\ (row.active <=> row.by = "") /\ row.by \in {"", "user", "model"}
    BY <2>1 DEF Row
  <2>3. CASE p[1] # scope
    BY <2>1, <2>3
  <2>4. CASE p[1] = scope /\ p[2] \in suggested /\ Reactivates(row)
    <3>1. Changed(p) = Suggestion(summary)
      BY <2>4
    <3>2. ~UserOwned(row)
      BY <2>4 DEF Reactivates, UserOwned
    <3> QED BY <1>2, <2>4, <3>1, <3>2
  <2>5. CASE p[1] = scope /\ ~(p[2] \in suggested /\ Reactivates(row)) /\ row.active /\ row.origin = "suggested"
    <3>1. Changed(p) = IF p[2] \in suggested THEN Suggestion(summary) ELSE Dropped(row)
      BY <2>5
    <3>2. ~UserOwned(row)
      BY <2>5 DEF UserOwned
    <3> QED BY <1>2, <1>3, <2>1, <2>5, <3>1, <3>2
  <2>6. CASE p[1] = scope /\ ~(p[2] \in suggested /\ Reactivates(row)) /\ ~(row.active /\ row.origin = "suggested")
    <3>1. Changed(p) = row
      BY <2>6
    <3> QED BY <2>1, <2>2, <2>6, <3>1 DEF Reactivates
  <2> QED BY <2>3, <2>4, <2>5, <2>6
<1> HIDE DEF Changed, rows
<1> SUFFICES SuggestedBy(summary, rows, scope, suggested)
  BY DEF rows
<1> QED BY <1>1, <1>2, <1>4 DEF SuggestedBy

IsNewest(i, S) == i \in S /\ \A j \in S : j <= i

\* The stored summary is the newest of its scope, and its suggestions are the active ones.
LEMMA PersistSummaryKeepsInv == Inv /\ PersistSummary => Inv'
<1> SUFFICES ASSUME Inv, PersistSummary PROVE Inv'
  OBVIOUS
<1>0. PICK n : n = Len(summaries) + 1
  OBVIOUS
<1>1. PICK o \in op, suggested \in SUBSET Keys :
        /\ suggested \subseteq o.offered
        /\ summaries' = Append(summaries, [scope |-> o.scope, default |-> o.default, suggested |-> suggested])
        /\ Write(IF o.default THEN Materialized(o.scope, suggested, n) ELSE assignments, TRUE)
  BY <1>0 DEF PersistSummary
<1>2. /\ o.scope \in Scopes /\ o.default \in BOOLEAN /\ o.offered \subseteq DOMAIN tags
      /\ Len(summaries) \in Nat /\ n \in 1 .. MaxSummaries
  <2>1. Len(summaries) < MaxSummaries /\ Len(summaries) \in Nat
    BY DEF Inv, Writing, Shape
  <2> QED BY <1>0, <2>1, TagsAssumption DEF Inv, Shape
<1>3. /\ summaries' \in Seq(SummaryRow) /\ DOMAIN summaries' = 1 .. n /\ Len(summaries') = n
      /\ \A i \in 1 .. Len(summaries) : summaries'[i] = summaries[i]
      /\ summaries'[n] = [scope |-> o.scope, default |-> o.default, suggested |-> suggested]
  <2>1. [scope |-> o.scope, default |-> o.default, suggested |-> suggested] \in SummaryRow
    BY <1>2 DEF SummaryRow
  <2> QED BY <1>0, <1>1, <1>2, <2>1 DEF Inv, Shape
<1>4. DOMAIN summaries = 1 .. Len(summaries)
  BY DEF Inv, Shape
<1>5. CASE ~o.default
  <2>1. assignments' = assignments
    BY <1>1, <1>5 DEF Write
  <2>2. \A scope \in Scopes : Suggesting(scope)' = Suggesting(scope)
    BY <1>0, <1>2, <1>3, <1>4, <1>5 DEF Suggesting
  <2>3. \A scope \in Scopes : \A i \in Suggesting(scope) : summaries'[i] = summaries[i]
    BY <1>3, <1>4 DEF Suggesting
  <2>4. SuggestionsAreCurrent'
    BY <2>1, <2>2, <2>3 DEF Inv, SuggestionsAreCurrent, Newest, ActiveKeys, Assigned
  <2>5. Shape'
    BY <1>1, <1>2, <1>3, <2>1 DEF Inv, Shape, Write, PersistSummary, Assigned
  <2>6. Writing' /\ TagChangesReachIndex'
    BY <1>1 DEF Write, PersistSummary, Writing, TagChangesReachIndex
  <2> QED BY <2>4, <2>5, <2>6 DEF Inv
<1>6. CASE o.default
  <2>1. assignments' = Materialized(o.scope, suggested, n)
    BY <1>1, <1>6 DEF Write
  <2>2. SuggestedBy(n, assignments', o.scope, suggested)
    BY <1>2, <2>1, MaterializedRows, TagsAssumption DEF Inv
  <2>3. assignments' \in [Assigned' -> Row]
    BY <2>2 DEF Assigned, SuggestedBy
  <2>4. Assigned' \subseteq Scopes \X DOMAIN tags'
    BY <1>1, <1>2, <2>2 DEF Inv, Shape, Assigned, PersistSummary, SuggestedBy
  <2>5. Shape'
    BY <1>2, <1>3, <1>1, <2>3, <2>4 DEF Inv, Shape, PersistSummary, Write
  <2>6. ASSUME NEW scope \in Scopes, scope # o.scope
        PROVE  /\ Suggesting(scope)' = Suggesting(scope) /\ ActiveKeys(scope)' = ActiveKeys(scope)
               /\ \A i \in Suggesting(scope) : summaries'[i] = summaries[i]
    <3>1. Suggesting(scope)' = Suggesting(scope) /\ \A i \in Suggesting(scope) : summaries'[i] = summaries[i]
      BY <1>0, <1>2, <1>3, <1>4, <2>6 DEF Suggesting
    <3>2. \A key : <<scope, key>> \in Assigned' <=> <<scope, key>> \in Assigned
      BY <2>2, <2>6 DEF Assigned, SuggestedBy
    <3>3. \A key : <<scope, key>> \in Assigned => assignments'[<<scope, key>>] = assignments[<<scope, key>>]
      BY <2>2, <2>6 DEF SuggestedBy
    <3> QED BY <3>1, <3>2, <3>3 DEF ActiveKeys
  <2>7. n \in Suggesting(o.scope)' /\ \A i \in Suggesting(o.scope)' : i <= n
    BY <1>2, <1>3, <1>6 DEF Suggesting
  <2>8. SuggestionsAreCurrent'
    <3> SUFFICES ASSUME NEW scope \in Scopes
                 PROVE  /\ \A key \in ActiveKeys(scope)' :
                             assignments'[<<scope, key>>].origin = "suggested" =>
                               LET row == assignments'[<<scope, key>>]
                               IN IsNewest(row.source, Suggesting(scope)') /\ key \in summaries'[row.source].suggested
                        /\ \A i \in Suggesting(scope)' : IsNewest(i, Suggesting(scope)') =>
                             \A key \in summaries'[i].suggested :
                               /\ <<scope, key>> \in Assigned'
                               /\ assignments'[<<scope, key>>].active \/ assignments'[<<scope, key>>].by = "user"
      BY DEF SuggestionsAreCurrent, Newest, IsNewest
    <3>1. CASE scope # o.scope
      <4>1. \A i : IsNewest(i, Suggesting(scope)') <=> Newest(scope, i)
        BY <2>6, <3>1 DEF Newest, IsNewest
      <4>2. \A key \in Keys : <<scope, key>> \in Assigned =>
              <<scope, key>> \in Assigned' /\ assignments'[<<scope, key>>] = assignments[<<scope, key>>]
        BY <2>2, <3>1 DEF Assigned, SuggestedBy
      <4>3. ASSUME NEW key \in ActiveKeys(scope)', assignments'[<<scope, key>>].origin = "suggested"
            PROVE  LET row == assignments'[<<scope, key>>]
                   IN IsNewest(row.source, Suggesting(scope)') /\ key \in summaries'[row.source].suggested
        <5>1. key \in ActiveKeys(scope) /\ assignments'[<<scope, key>>] = assignments[<<scope, key>>]
          BY <2>6, <3>1, <4>2 DEF ActiveKeys
        <5>2. /\ Newest(scope, assignments[<<scope, key>>].source)
              /\ key \in summaries[assignments[<<scope, key>>].source].suggested
          BY <4>3, <5>1 DEF Inv, SuggestionsAreCurrent
        <5>3. assignments[<<scope, key>>].source \in Suggesting(scope)
          BY <5>2 DEF Newest
        <5>4. summaries'[assignments[<<scope, key>>].source] = summaries[assignments[<<scope, key>>].source]
          BY <2>6, <3>1, <5>3
        <5> QED BY <4>1, <5>1, <5>2, <5>4
      <4>4. ASSUME NEW i \in Suggesting(scope)', IsNewest(i, Suggesting(scope)'), NEW key \in summaries'[i].suggested
            PROVE  /\ <<scope, key>> \in Assigned'
                   /\ assignments'[<<scope, key>>].active \/ assignments'[<<scope, key>>].by = "user"
        <5>1. i \in Suggesting(scope) /\ Newest(scope, i) /\ key \in summaries[i].suggested
          BY <2>6, <3>1, <4>1, <4>4
        <5>2. key \in Keys
          <6>1. i \in DOMAIN summaries /\ \A j \in DOMAIN summaries : summaries[j] \in SummaryRow
            BY <5>1 DEF Suggesting, Inv, Shape
          <6> QED BY <5>1, <6>1 DEF SummaryRow
        <5> QED BY <4>2, <5>1, <5>2 DEF Inv, SuggestionsAreCurrent
      <4> QED BY <4>3, <4>4
    <3>2. CASE scope = o.scope
      <4>1. IsNewest(n, Suggesting(scope)') /\ \A i \in Suggesting(scope)' : IsNewest(i, Suggesting(scope)') => i = n
        <5>1. n \in Suggesting(scope)' /\ \A i \in Suggesting(scope)' : i <= n /\ i \in Nat
          BY <1>2, <1>3, <2>7, <3>2 DEF Suggesting
        <5>2. IsNewest(n, Suggesting(scope)')
          BY <5>1 DEF IsNewest
        <5>3. ASSUME NEW i \in Suggesting(scope)', IsNewest(i, Suggesting(scope)') PROVE i = n
          <6>1. n <= i /\ i <= n /\ i \in Nat
            BY <5>1, <5>3 DEF IsNewest
          <6> QED BY <1>2, <6>1
        <5> QED BY <5>2, <5>3
      <4>2. \A key \in ActiveKeys(scope)' :
              assignments'[<<scope, key>>].origin = "suggested" =>
                assignments'[<<scope, key>>].source = n /\ key \in suggested
        BY <2>2, <3>2 DEF ActiveKeys, Assigned, SuggestedBy
      <4>3. \A key \in suggested : /\ <<scope, key>> \in Assigned'
                                   /\ assignments'[<<scope, key>>].active \/ assignments'[<<scope, key>>].by = "user"
        BY <2>2, <3>2 DEF Assigned, SuggestedBy
      <4>4. summaries'[n].suggested = suggested
        BY <1>3
      <4> QED BY <4>1, <4>2, <4>3, <4>4
    <3> QED BY <3>1, <3>2
  <2> QED BY <1>1, <2>5, <2>8 DEF Inv, Write, PersistSummary, Writing, TagChangesReachIndex
<1> QED BY <1>2, <1>5, <1>6

-----------------------------------------------------------------------------
(* The other steps *)

LEMMA SaveLayoutKeepsInv == Inv /\ SaveLayout => Inv'
<1> SUFFICES ASSUME Inv, SaveLayout PROVE Inv'
  OBVIOUS
<1>1. layout' \in 0 .. MaxLayouts + 1 /\ scheduled' \in BOOLEAN
  BY TagsAssumption DEF Inv, Shape, SaveLayout
<1>2. Shape'
  BY <1>1 DEF Inv, Shape, SaveLayout, Assigned
<1> QED BY <1>2 DEF Inv, SaveLayout, Writing, TagChangesReachIndex, SuggestionsAreCurrent, ActiveKeys,
             Newest, Suggesting, Assigned

LEMMA ArchiveOrRestoreKeepsInv == Inv /\ ArchiveOrRestore => Inv'
<1> SUFFICES ASSUME Inv, ArchiveOrRestore PROVE Inv'
  OBVIOUS
<1>1. archived' \subseteq Scopes
  BY ScopesAndLive DEF Inv, Shape, ArchiveOrRestore
<1>2. edits' \in 0 .. MaxEdits
  BY TagsAssumption DEF Inv, Shape, ArchiveOrRestore, Edit
<1>3. Shape'
  BY <1>1, <1>2 DEF Inv, Shape, ArchiveOrRestore, Assigned
<1> QED BY <1>3 DEF Inv, ArchiveOrRestore, Writing, TagChangesReachIndex, SuggestionsAreCurrent, ActiveKeys,
             Newest, Suggesting, Assigned, Live

LEMMA SyncIndexKeepsInv == Inv /\ SyncIndex => Inv'
<1> SUFFICES ASSUME Inv, SyncIndex PROVE Inv'
  OBVIOUS
<1>1. indexed' \in [Scopes -> SUBSET Keys] /\ \A s \in Live : indexed'[s] = ActiveKeys(s)
  BY ScopesAndLive DEF SyncIndex, ActiveKeys
<1>2. Shape'
  BY <1>1 DEF Inv, Shape, SyncIndex, Assigned
<1>3. TagChangesReachIndex'
  BY <1>1 DEF TagChangesReachIndex, SyncIndex, Live, ActiveKeys, Assigned
<1> QED BY <1>2, <1>3 DEF Inv, SyncIndex, Writing, SuggestionsAreCurrent, ActiveKeys,
             Newest, Suggesting, Assigned, Editable, Live

\* The steps that only begin or end something.
LEMMA OtherStepsKeepInv ==
  Inv /\ (EditConfig \/ AbandonSummary \/ ReadTag \/ AddRejected \/ UNCHANGED vars) => Inv'
<1> SUFFICES ASSUME Inv, EditConfig \/ AbandonSummary \/ ReadTag \/ AddRejected \/ UNCHANGED vars PROVE Inv'
  OBVIOUS
<1>1. UNCHANGED <<tags, assignments, summaries, layout, archived, indexed, scheduled>>
  BY DEF EditConfig, AbandonSummary, ReadTag, AddRejected, vars
<1>2. config' \subseteq Keys /\ edits' \in 0 .. MaxEdits
  BY TagsAssumption DEF EditConfig, AbandonSummary, ReadTag, AddRejected, vars, Inv, Shape
<1>3. op' \subseteq op
  BY DEF EditConfig, AbandonSummary, ReadTag, AddRejected, vars
<1>4. request' \subseteq [scope : Scopes, key : DOMAIN tags] /\ \A r, q \in request' : r = q
  BY ScopesAndLive DEF EditConfig, AbandonSummary, ReadTag, AddRejected, vars, Inv, Shape
<1>5. Shape'
  BY <1>1, <1>2, <1>3, <1>4 DEF Inv, Shape, Assigned
<1> QED BY <1>1, <1>3, <1>5 DEF Inv, Writing, SuggestionsAreCurrent, TagChangesReachIndex, ActiveKeys,
             Newest, Suggesting, Assigned, Editable, Live

LEMMA StepKeepsInv == Inv /\ [Next]_vars => Inv'
BY AddManualTagEdits, ConfirmSuggestionEdits, RemoveTagEdits, CreateCustomTagEdits,
   ApplySelectionEdits, SyncTagsKeepsInv, StartSummaryKeepsInv, PersistSummaryKeepsInv,
   SaveLayoutKeepsInv, ArchiveOrRestoreKeepsInv, SyncIndexKeepsInv, OtherStepsKeepInv DEF Next

\* The inductive invariant of the tags.
THEOREM TagsInvariance == Spec => []Inv
BY InitInv, StepKeepsInv, PTL DEF Spec

-----------------------------------------------------------------------------
(* What the system promises about tags *)

\* Every row of the database has its type at any time.
THEOREM TagsTypeCorrect == Spec => []TypeOK
<1>1. Inv => TypeOK
  BY ShapeTypes DEF Inv
<1> QED BY <1>1, TagsInvariance, PTL

\* The suggestions that are active are those of the newest default summary of their
\* scope, less what the user removed, whatever was edited while it was written.
\* (_materialize_tags, src/src/workflow/services/summarize.py:1378-1455)
THEOREM SuggestionsStayCurrent == Spec => []SuggestionsAreCurrent
<1>1. Inv => SuggestionsAreCurrent
  BY DEF Inv
<1> QED BY <1>1, TagsInvariance, PTL

\* The keyword index has the active tags unless it has yet to be told of a change.
\* (schedule_recording_sync in src/src/workflow/services/tags.py)
THEOREM IndexHearsOfTags == Spec => []TagChangesReachIndex
<1>1. Inv => TagChangesReachIndex
  BY DEF Inv
<1> QED BY <1>1, TagsInvariance, PTL

\* Only the storing of a summary adds one, and it leaves the rows of the user alone.
LEMMA UserRowsStay ==
  ASSUME Inv, [Next]_vars, summaries' # summaries, NEW p \in Assigned, UserOwned(assignments[p])
  PROVE  assignments'[p] = assignments[p]
<1>1. PersistSummary
  BY DEF Next, vars, EditConfig, SyncTags, StartSummary, AbandonSummary, ReadTag, AddManualTag, AddRejected,
         ConfirmSuggestion, RemoveTag, CreateCustomTag, ApplySelection, SaveLayout, ArchiveOrRestore, SyncIndex
<1>2. PICK o \in op, suggested \in SUBSET Keys :
        Write(IF o.default THEN Materialized(o.scope, suggested, Len(summaries) + 1) ELSE assignments, TRUE)
  BY <1>1 DEF PersistSummary
<1>3. o.scope \in Scopes /\ Len(summaries) + 1 \in 0 .. MaxSummaries
  <2>1. Len(summaries) < MaxSummaries /\ Len(summaries) \in Nat
    BY DEF Inv, Writing, Shape
  <2> QED BY <2>1, TagsAssumption DEF Inv, Shape
<1>4. CASE ~o.default
  BY <1>2, <1>4 DEF Write
<1>5. CASE o.default
  <2>1. assignments' = Materialized(o.scope, suggested, Len(summaries) + 1)
    BY <1>2, <1>5 DEF Write
  <2>2. SuggestedBy(Len(summaries) + 1, assignments', o.scope, suggested)
    BY <1>3, <2>1, MaterializedRows DEF Inv
  <2> QED BY <2>2 DEF SuggestedBy
<1> QED BY <1>4, <1>5

\* No summary ever undoes what the user decided about a tag: manual and confirmed tags
\* stay, and what was removed stays removed.
\* (_materialize_tags, src/src/workflow/services/summarize.py:1378-1455)
THEOREM UserDecisionsStay == Spec => UserDecisionsStand
<1>1. Inv /\ [Next]_vars =>
        [summaries' # summaries => \A p \in Assigned : UserOwned(assignments[p]) => assignments'[p] = assignments[p]]_vars
  BY UserRowsStay
<1> QED BY <1>1, TagsInvariance, PTL DEF Spec, UserDecisionsStand

\* The rows that a step changes are of one scope, which is in use.
OneLiveScope ==
  \A p \in DOMAIN assignments' :
    (p \notin Assigned \/ assignments'[p] # assignments[p]) =>
      /\ p[1] \in Live /\ archived \cap {Whole, p[1]} = {}
      /\ \A q \in DOMAIN assignments' :
           q[1] # p[1] => q \in Assigned /\ assignments'[q] = assignments[q]

LEMMA EditedInOneScope ==
  ASSUME NEW scope, Editable(scope), UserEdit(scope)
  PROVE  OneLiveScope
<1>1. ASSUME NEW p \in DOMAIN assignments', p \notin Assigned \/ assignments'[p] # assignments[p]
      PROVE  p[1] = scope
  BY <1>1 DEF UserEdit
<1>2. scope \in Live /\ archived \cap {Whole, scope} = {}
  BY DEF Editable
<1> QED BY <1>1, <1>2 DEF OneLiveScope

LEMMA StepChangesOneScope ==
  ASSUME Inv, [Next]_vars, assignments' # assignments
  PROVE  OneLiveScope
<1>1. \/ AddManualTag \/ ConfirmSuggestion \/ RemoveTag \/ CreateCustomTag \/ ApplySelection
      \/ PersistSummary
  BY DEF Next, vars, EditConfig, SyncTags, StartSummary, AbandonSummary, ReadTag, AddRejected,
         SaveLayout, ArchiveOrRestore, SyncIndex
<1>2. CASE AddManualTag \/ ConfirmSuggestion \/ RemoveTag \/ CreateCustomTag \/ ApplySelection
  <2>1. Edited
    BY <1>2, AddManualTagEdits, ConfirmSuggestionEdits, RemoveTagEdits, CreateCustomTagEdits, ApplySelectionEdits
  <2> QED BY <2>1, EditedInOneScope DEF Edited
<1>3. CASE PersistSummary
  <2>1. PICK o \in op, suggested \in SUBSET Keys :
          Write(IF o.default THEN Materialized(o.scope, suggested, Len(summaries) + 1) ELSE assignments, TRUE)
    BY <1>3 DEF PersistSummary
  <2>2. o.scope \in Scopes /\ Len(summaries) + 1 \in 0 .. MaxSummaries
    <3>1. Len(summaries) < MaxSummaries /\ Len(summaries) \in Nat
      BY DEF Inv, Writing, Shape
    <3> QED BY <3>1, TagsAssumption DEF Inv, Shape
  <2>3. assignments' = Materialized(o.scope, suggested, Len(summaries) + 1)
    BY <2>1 DEF Write
  <2>4. SuggestedBy(Len(summaries) + 1, assignments', o.scope, suggested)
    BY <2>2, <2>3, MaterializedRows DEF Inv
  <2>5. \A p \in DOMAIN assignments' : p[1] # o.scope => p \in Assigned /\ assignments'[p] = assignments[p]
    BY <2>4 DEF SuggestedBy
  <2>6. o.scope \in Live /\ archived \cap {Whole, o.scope} = {}
    BY DEF Inv, Writing, Editable
  <2> QED BY <2>5, <2>6 DEF OneLiveScope
<1> QED BY <1>1, <1>2, <1>3

\* No step changes tags of an old layout or of what is archived, or of two scopes at
\* once, and none deletes a row.
\* (_require_topic_section, src/src/workflow/services/tags.py:266-301)
THEOREM OneScopeChanges == Spec => OneLiveScopeChanges
<1>1. Inv /\ [Next]_vars =>
        [\A p \in DOMAIN assignments' :
           (p \notin Assigned \/ assignments'[p] # assignments[p]) =>
             /\ p[1] \in Live /\ archived \cap {Whole, p[1]} = {}
             /\ \A q \in DOMAIN assignments' :
                  q[1] # p[1] => q \in Assigned /\ assignments'[q] = assignments[q]]_vars
  <2>1. CASE assignments' = assignments
    BY <2>1 DEF Assigned
  <2>2. CASE assignments' # assignments
    BY <2>2, StepChangesOneScope DEF OneLiveScope
  <2> QED BY <2>1, <2>2
<1> QED BY <1>1, TagsInvariance, PTL DEF Spec, OneLiveScopeChanges
=============================================================================
