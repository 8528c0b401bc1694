-------------------------------- MODULE Tags --------------------------------
(***************************************************************************)
(* Tag definitions and the tags of one recording and of its topic          *)
(* sections.                                                               *)
(*                                                                         *)
(* Definitions come from the configuration and from the web.  A tag is put *)
(* on a scope (the recording, or one section) by the model, when a summary *)
(* in the default language is stored, and by the user, whose edits take no *)
(* pipeline lock: they run while a summary that was told the tags minutes  *)
(* ago is still being written.  What one transaction reads and writes is   *)
(* one step, as SQLite makes it; an edit that loses the race for the       *)
(* database is tried again from its start, or has no effect.               *)
(* src/src/workflow/services/tags.py, summarize.py (_materialize_tags).    *)
(***************************************************************************)
EXTENDS Naturals, Sequences, FiniteSets

CONSTANTS
  Keys,              \* normalized tag names (name_key)
  HardLimit,         \* _TAG_SELECTION_HARD_LIMIT
  MaxSummaries, MaxLayouts, MaxEdits

ASSUME TagsAssumption ==
  /\ HardLimit \in Nat /\ MaxSummaries \in Nat /\ MaxLayouts \in Nat /\ MaxEdits \in Nat

VARIABLES
  config,            \* tags.allowed
  tags,              \* the Tag rows: key -> [configured, origin]
  assignments,       \* the TagAssignment rows: <<scope, key>> -> row
  summaries,         \* sequence of [scope, default, suggested]
  layout,            \* the active layout, 0 when there is none
  archived,          \* scopes that are archived; the recording archives its sections
  op,                \* the summary being written, in a set
  request,           \* the add form being handled: the Tag row it has read, in a set
  indexed,           \* scope -> the keys the keyword index has for it
  scheduled,         \* a synchronization of the index is scheduled
  edits              \* edits made, for the bound only

vars == <<config, tags, assignments, summaries, layout, archived, op, request, indexed, scheduled, edits>>

-----------------------------------------------------------------------------
(* State *)

Origins == {"suggested", "manual", "confirmed"}

\* Scope 0 is the recording, scope n the topic section of the n-th layout; the
\* layout after the last of them is one without sections.
Whole == 0
Scopes == Whole .. MaxLayouts
Live == {Whole, layout} \cap Scopes

Assigned == DOMAIN assignments
ActiveKeys(scope) == {k \in Keys : <<scope, k>> \in Assigned /\ assignments[<<scope, k>>].active}

Manual == [active |-> TRUE, origin |-> "manual", by |-> "", source |-> 0]
Suggestion(summary) == [active |-> TRUE, origin |-> "suggested", by |-> "", source |-> summary]

\* Mutant: a removed tag is not marked as suppressed by the user.
RemovedByNobody(row) == [row EXCEPT !.active = FALSE]
\* `_remove_assignment_for': a suppression.
Removed(row) == [row EXCEPT !.active = FALSE, !.by = "user"]
Dropped(row) == [row EXCEPT !.active = FALSE, !.by = "model"]

UserOwned(row) == IF row.active THEN row.origin # "suggested" ELSE row.by = "user"

Init ==
  /\ config \in SUBSET Keys
  /\ tags = [k \in {} |-> {}] /\ assignments = [k \in {} |-> {}] /\ summaries = <<>>
  /\ layout = 0 /\ archived = {} /\ op = {} /\ request = {}
  /\ indexed = [scope \in Scopes |-> {}] /\ scheduled = FALSE /\ edits = 0

\* An edit of the assignments, with the synchronization it schedules.
Write(rows, schedules) ==
  /\ assignments' = rows
  /\ scheduled' = (scheduled \/ schedules)

-----------------------------------------------------------------------------
(* Definitions *)

Configured == {k \in DOMAIN tags : tags[k].configured}

\* `sync_tags': configured names are created, reactivated or adopted; a name
\* that left the configuration is retired, unless the user defined it.
Synced ==
  [k \in DOMAIN tags \cup config |->
     IF k \in config THEN [configured |-> TRUE, origin |-> "config"]
     ELSE [tags[k] EXCEPT !.configured = @ /\ tags[k].origin = "custom"]]

\* `_validate_custom_tag_name', of a name that is well formed: retired names are taken too.
CustomNameFree(key) == key \notin DOMAIN tags

WithCustom(new) ==
  [k \in new \cup DOMAIN tags |-> IF k \in DOMAIN tags THEN tags[k]
                                 ELSE [configured |-> TRUE, origin |-> "custom"]]

EditConfig ==
  /\ edits < MaxEdits /\ edits' = edits + 1
  /\ \E allowed \in SUBSET Keys \ {config} : config' = allowed
  /\ UNCHANGED <<tags, assignments, summaries, layout, archived, op, request, indexed, scheduled>>

\* `brain tags --sync'.
SyncTags ==
  /\ op = {} /\ Synced # tags
  /\ tags' = Synced
  /\ UNCHANGED <<config, assignments, summaries, layout, archived, op, request, indexed, scheduled, edits>>

-----------------------------------------------------------------------------
(* The model's tags *)

\* A summary of a scope starts, whose language is the default or is not.
StartSummary ==
  /\ op = {} /\ Len(summaries) < MaxSummaries
  /\ \E scope \in Live \ archived, default \in BOOLEAN :
       /\ Whole \notin archived
       /\ tags' = Synced
       /\ op' = {[scope |-> scope, default |-> default,
                  offered |-> {k \in DOMAIN Synced : Synced[k].configured}]}
  /\ UNCHANGED <<config, assignments, summaries, layout, archived, request, indexed, scheduled, edits>>

\* It fails, or its process dies.
AbandonSummary ==
  /\ op # {} /\ op' = {}
  /\ UNCHANGED <<config, tags, assignments, summaries, layout, archived, request, indexed, scheduled, edits>>

\* Mutant: what the user removed is put back.
ReactivatesAny(row) == ~row.active
Reactivates(row) == ~row.active /\ row.by # "user"

\* Mutant: only new suggestions are written, and none is taken back.
NewSuggestionsOnly(scope, suggested, summary) ==
  [p \in Assigned \cup ({scope} \X suggested) |->
     IF p \notin Assigned \/ (p[1] = scope /\ p[2] \in suggested /\ Reactivates(assignments[p]))
     THEN Suggestion(summary) ELSE assignments[p]]
\* `_materialize_tags'
Materialized(scope, suggested, summary) ==
  LET row(p) == assignments[p]
      refreshed(p) ==
        IF p[1] # scope THEN row(p)
        ELSE IF p[2] \in suggested /\ Reactivates(row(p)) THEN Suggestion(summary)
        ELSE IF row(p).active /\ row(p).origin = "suggested"
             THEN IF p[2] \in suggested THEN Suggestion(summary) ELSE Dropped(row(p))
        ELSE row(p)
  IN [p \in Assigned \cup ({scope} \X suggested) |->
        IF p \in Assigned THEN refreshed(p) ELSE Suggestion(summary)]

\* `persist_summary': the model suggested some of the tags it was offered.
PersistSummary ==
  /\ \E o \in op, suggested \in SUBSET Keys :
       /\ suggested \subseteq o.offered
       /\ summaries' = Append(summaries, [scope |-> o.scope, default |-> o.default, suggested |-> suggested])
       /\ Write(IF o.default THEN Materialized(o.scope, suggested, Len(summaries) + 1) ELSE assignments, TRUE)
  /\ op' = {}
  /\ UNCHANGED <<config, tags, layout, archived, request, indexed, edits>>

-----------------------------------------------------------------------------
(* The user's tags.  Every edit locks the recording and then validates its *)
(* scope in the same transaction.                                          *)

\* Mutant: the scope is validated before the lock, where it still was live.
AnyScope(scope) == Whole \notin archived
\* `_lock_recording' and `_require_topic_section'.
Editable(scope) == scope \in Live /\ archived \cap {Whole, scope} = {}

\* `_manual_assignment_for'
WithManual(rows, scope, key) ==
  LET p == <<scope, key>>
      kept == p \in DOMAIN rows /\ rows[p].active /\ rows[p].origin # "suggested"
  IN IF kept THEN rows ELSE [q \in DOMAIN rows \cup {p} |-> IF q = p THEN Manual ELSE rows[q]]

Edit == edits < MaxEdits /\ edits' = edits + 1

\* The add form reads the Tag row, then opens the transaction that uses it.
ReadTag ==
  /\ request = {}
  /\ \E scope \in Scopes, key \in DOMAIN tags, include_retired \in BOOLEAN :
       /\ scope \in Live /\ (tags[key].configured \/ include_retired)
       /\ request' = {[scope |-> scope, key |-> key]}
  /\ UNCHANGED <<config, tags, assignments, summaries, layout, archived, op, indexed, scheduled, edits>>

\* `add_manual_tag_section' schedules only when the tag becomes active.
AddSchedules(scope, key) == scope = Whole \/ key \notin ActiveKeys(scope)

\* `add_manual_tag', `add_manual_tag_section'
AddManualTag ==
  /\ Edit
  /\ \E r \in request :
       /\ Editable(r.scope)
       /\ Write(WithManual(assignments, r.scope, r.key), AddSchedules(r.scope, r.key))
  /\ request' = {}
  /\ UNCHANGED <<config, tags, summaries, layout, archived, op, indexed>>

AddRejected ==
  /\ \E r \in request : ~Editable(r.scope)
  /\ request' = {}
  /\ UNCHANGED <<config, tags, assignments, summaries, layout, archived, op, indexed, scheduled, edits>>

\* A section's suggestion comes from a summary of that section.
SameScope(scope, row) == (scope # Whole /\ row.source # 0) => summaries[row.source].scope = scope

\* `confirm_suggestion', `confirm_section_suggestion': what is indexed stays the same.
ConfirmSuggestion ==
  /\ Edit
  /\ \E scope \in Scopes, key \in Keys :
       /\ Editable(scope) /\ key \in ActiveKeys(scope)
       /\ SameScope(scope, assignments[<<scope, key>>])
       /\ Write([assignments EXCEPT ![<<scope, key>>].origin = "confirmed"], FALSE)
  /\ UNCHANGED <<config, tags, summaries, layout, archived, op, request, indexed>>

\* Mutant: only an edit of the recording schedules a synchronization.
SchedulesForRecording(scope) == scope = Whole
\* A removal schedules a synchronization in either scope.
RemovalSchedules(scope) == TRUE

\* `remove_tag', `remove_section_tag'
RemoveTag ==
  /\ Edit
  /\ \E scope \in Scopes, key \in Keys :
       /\ Editable(scope) /\ key \in ActiveKeys(scope)
       /\ Write([assignments EXCEPT ![<<scope, key>>] = Removed(@)], RemovalSchedules(scope))
  /\ UNCHANGED <<config, tags, summaries, layout, archived, op, request, indexed>>

\* `create_custom_tag_and_assign', of either scope.
CreateCustomTag ==
  /\ Edit
  /\ \E scope \in Scopes, key \in Keys :
       /\ CustomNameFree(key) /\ Editable(scope)
       /\ tags' = WithCustom({key})
       /\ Write(WithManual(assignments, scope, key), TRUE)
  /\ UNCHANGED <<config, summaries, layout, archived, op, request, indexed>>

\* `_tag_selection_limit'
Limit == IF Cardinality(DOMAIN tags) + 1 < HardLimit THEN Cardinality(DOMAIN tags) + 1 ELSE HardLimit

\* `_coerce_tag_ids' and the categories: the ids are of tags that are available, or retired.
SelectionValid(available, retired, new) ==
  /\ Cardinality(available) + Cardinality(retired) + Cardinality(new) <= Limit
  /\ available \subseteq Configured /\ retired \subseteq DOMAIN tags \ Configured
  /\ \A key \in new : CustomNameFree(key)

\* The rows of a scope when exactly `selected' is to be active in it.
Selected(scope, selected) ==
  [p \in Assigned \cup ({scope} \X selected) |->
     IF p \notin Assigned THEN Manual
     ELSE IF p[1] # scope \/ (assignments[p].active <=> p[2] \in selected) THEN assignments[p]
     ELSE IF p[2] \in selected THEN Manual ELSE Removed(assignments[p])]

\* `apply_tag_selection', `apply_section_tag_selection': the Done of a dialog
\* that may have been opened long ago, with at most one new tag.
ApplySelection ==
  /\ Edit
  /\ \E scope \in Scopes, available, retired, new \in SUBSET Keys :
       /\ Cardinality(new) <= 1 /\ Editable(scope)
       /\ SelectionValid(available, retired, new)
       /\ LET selected == available \cup retired \cup new
          IN /\ tags' = WithCustom(new)
             /\ Write(Selected(scope, selected), selected # ActiveKeys(scope))
  /\ UNCHANGED <<config, summaries, layout, archived, op, request, indexed>>

-----------------------------------------------------------------------------
(* What else happens to the scopes, under the pipeline lock, and the index. *)

\* A new layout: the section of the old one is history.
SaveLayout ==
  /\ op = {} /\ layout <= MaxLayouts /\ Whole \notin archived
  /\ layout' = layout + 1 /\ scheduled' = TRUE
  /\ UNCHANGED <<config, tags, assignments, summaries, archived, op, request, indexed, edits>>

ArchiveOrRestore ==
  /\ op = {} /\ Edit
  /\ \E scope \in Live :
       /\ scope # Whole => Whole \notin archived
       /\ archived' = IF scope \in archived THEN archived \ {scope} ELSE archived \cup {scope}
  /\ UNCHANGED <<config, tags, assignments, summaries, layout, op, request, indexed, scheduled>>

\* The callback after the commit, when it succeeds: the aux text of the documents
\* of the recording and of the sections of its active layout.
SyncIndex ==
  /\ scheduled /\ scheduled' = FALSE
  /\ indexed' = [scope \in Scopes |-> IF scope \in Live THEN ActiveKeys(scope) ELSE {}]
  /\ UNCHANGED <<config, tags, assignments, summaries, layout, archived, op, request, edits>>

Next ==
  \/ EditConfig \/ SyncTags
  \/ StartSummary \/ AbandonSummary \/ PersistSummary
  \/ ReadTag \/ AddManualTag \/ AddRejected \/ ConfirmSuggestion \/ RemoveTag
  \/ CreateCustomTag \/ ApplySelection
  \/ SaveLayout \/ ArchiveOrRestore \/ SyncIndex

Spec == Init /\ [][Next]_vars

-----------------------------------------------------------------------------
(* Properties *)

Row == {row \in [active : BOOLEAN, origin : Origins, by : {"", "user", "model"}, source : 0 .. MaxSummaries] :
          row.active <=> row.by = ""}

\* Every variable has its type; an assignment row is inactive exactly when it
\* says who deactivated it, which the database enforces with a constraint.
TypeOK ==
  /\ config \subseteq Keys /\ DOMAIN tags \subseteq Keys
  /\ \A k \in DOMAIN tags : tags[k] \in [configured : BOOLEAN, origin : {"config", "custom"}]
  /\ Assigned \subseteq Scopes \X DOMAIN tags
  /\ \A p \in Assigned : assignments[p] \in Row
  /\ \A i \in DOMAIN summaries : summaries[i] \in [scope : Scopes, default : BOOLEAN, suggested : SUBSET Keys]
  /\ Len(summaries) <= MaxSummaries
  /\ layout \in 0 .. MaxLayouts + 1 /\ archived \subseteq Scopes
  /\ Cardinality(op) <= 1 /\ op \subseteq [scope : Scopes, default : BOOLEAN, offered : SUBSET DOMAIN tags]
  /\ Cardinality(request) <= 1 /\ request \subseteq [scope : Scopes, key : DOMAIN tags]
  /\ indexed \in [Scopes -> SUBSET Keys] /\ scheduled \in BOOLEAN /\ edits \in 0 .. MaxEdits

\* The default summaries of a scope, and the newest of them.
Suggesting(scope) == {i \in DOMAIN summaries : summaries[i].scope = scope /\ summaries[i].default}
Newest(scope, i) == i \in Suggesting(scope) /\ \A j \in Suggesting(scope) : j <= i

\* The active suggestions of a scope are suggestions of its newest default
\* summary, and name it as their source; and each of its suggestions is active
\* unless the user has removed the tag.  Whatever the user did before the summary
\* was started, while it was written, or after, in this scope or in another.
SuggestionsAreCurrent ==
  \A scope \in Scopes :
    /\ \A key \in ActiveKeys(scope) :
         LET row == assignments[<<scope, key>>]
         IN row.origin = "suggested" =>
              Newest(scope, row.source) /\ key \in summaries[row.source].suggested
    /\ \A i \in Suggesting(scope) : Newest(scope, i) =>
         \A key \in summaries[i].suggested :
           /\ <<scope, key>> \in Assigned
           /\ assignments[<<scope, key>>].active \/ assignments[<<scope, key>>].by = "user"

\* Storing a summary never changes what the user has decided: a tag that is
\* manual or confirmed stays, and one that the user removed stays removed.
UserDecisionsStand ==
  [][summaries' # summaries =>
       \A p \in Assigned : UserOwned(assignments[p]) => assignments'[p] = assignments[p]]_vars

\* No step changes the tags of a section of an old layout, of an archived
\* section or of an archived recording, or of two scopes at once; none deletes a row.
OneLiveScopeChanges ==
  [][\A p \in DOMAIN assignments' :
       (p \notin Assigned \/ assignments'[p] # assignments[p]) =>
         /\ p[1] \in Live /\ archived \cap {Whole, p[1]} = {}
         /\ \A q \in DOMAIN assignments' :
              q[1] # p[1] => q \in Assigned /\ assignments'[q] = assignments[q]]_vars

\* Unless a synchronization is scheduled, the keyword index has exactly the
\* active tags of the recording and of the section in use.
TagChangesReachIndex ==
  ~scheduled => \A scope \in Live : indexed[scope] = ActiveKeys(scope)
=============================================================================
