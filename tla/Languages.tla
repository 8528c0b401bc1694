----------------------------- MODULE Languages -----------------------------
(***************************************************************************)
(* The language policy: how a language tag is canonicalized, which         *)
(* languages count as Chinese, and which output language a summary request *)
(* resolves to, once in Python and once more in SQL.                       *)
(* src/src/workflow/services/languages.py, langresolve.py, variant_view.py.*)
(*                                                                         *)
(* A tag is a record: the subtags it is made of in canonical casing, and   *)
(* what the spelling has wrong.  A stored language is NoLanguage or a tag. *)
(***************************************************************************)
EXTENDS Naturals, Sequences, FiniteSets

Unset == "unset"
NoLanguage == [primary |-> Unset, subtags |-> Unset, cased |-> TRUE, wellformed |-> TRUE]
Tag(primary, subtags) == [primary |-> primary, subtags |-> subtags, cased |-> TRUE, wellformed |-> TRUE]

ZhHant == Tag("zh", "Hant")
English == Tag("en", Unset)

Selectors == {"default", "original", "en", "zh-Hant"}
ChineseFamilyPrimaries == {"zh", "yue", "cmn"}

\* A tag of another shape than language[-script][-region] is no language at all.
canonicalize_language(code) ==
  IF code.primary = Unset \/ ~ code.wellformed THEN NoLanguage
  ELSE [code EXCEPT !.cased = TRUE]

is_chinese_family(code) == canonicalize_language(code).primary \in ChineseFamilyPrimaries

output_language_for_source(code) ==
  IF is_chinese_family(code) THEN ZhHant ELSE canonicalize_language(code)

is_valid_output_identity(value) ==
  /\ canonicalize_language(value) # NoLanguage /\ canonicalize_language(value) = value
  /\ value # Tag("und", Unset)
  /\ is_chinese_family(value) => value = ZhHant

-----------------------------------------------------------------------------
(* Resolution.  A transcript has [language, by]; a decision is a set of the
   active routing decisions (at most one), [chinese, automatic, verified]. *)

ChineseOrEnglish(code) == IF is_chinese_family(code) THEN ZhHant ELSE English

resolve_default_language(transcript, decisions) ==
  IF transcript.language # NoLanguage /\ transcript.by = "user"
  THEN ChineseOrEnglish(transcript.language)
  ELSE IF \E d \in decisions : d.chinese /\ (d.verified \/ d.automatic) THEN ZhHant
  ELSE ChineseOrEnglish(transcript.language)

\* NoLanguage: the original of a transcript whose language nobody knows.
resolve_output_language(transcript, decisions, selector) ==
  CASE selector = "default"  -> resolve_default_language(transcript, decisions)
    [] selector = "en"       -> English
    [] selector = "zh-Hant"  -> ZhHant
    [] selector = "original" -> output_language_for_source(transcript.language)

\* The expression the database evaluates.  A stored value is compared as it is:
\* `primary' or `primary-...'; the first condition that holds decides.
SqlIsChinese(stored) ==
  stored.wellformed /\ stored.cased /\ stored.primary \in ChineseFamilyPrimaries

FirstOf(cases, default) ==
  LET holds == {i \in DOMAIN cases : cases[i].when}
  IN IF holds = {} THEN default ELSE cases[CHOOSE i \in holds : \A j \in holds : i <= j].then

default_output_language_expression(transcript, decisions) ==
  LET observed == transcript.language # NoLanguage
      user == observed /\ transcript.by = "user"
      chinese == SqlIsChinese(transcript.language)
      When(condition, value) == [when |-> condition, then |-> value]
  IN FirstOf(<<When(user /\ chinese, ZhHant),
               When(user /\ ~chinese, English),
               When(\E d \in decisions : d.verified /\ d.chinese, ZhHant),
               When(\E d \in decisions : d.automatic /\ d.chinese, ZhHant),
               When(observed /\ chinese, ZhHant),
               When(observed /\ ~chinese, English)>>, English)

-----------------------------------------------------------------------------
(* What a page offers for a selector.  `states' maps the languages of the
   scope's variant rows to their status, `summaries' is the set of languages
   with an active summary. *)

\* A page may also ask for a concrete language; it can be generated only if a
\* selector of the policy stands for it.
ActionSelector(requested, original) ==
  IF requested \in Selectors THEN requested
  ELSE IF requested = original THEN "original" ELSE "none"

\* `_mode_for_language'
ModeForLanguage(transcribed, actionable, wholeScope, language, default, summaries, states, summaryStatus) ==
  IF ~transcribed \/ ~actionable THEN "none"
  ELSE IF language \in DOMAIN states
  THEN CASE states[language] = "current" -> "regenerate"
         [] states[language] = "failed"  -> "retry_summary"
         [] states[language] = "missing" -> "first"
  ELSE IF language \in summaries THEN "regenerate"
  ELSE IF wholeScope /\ language = default /\ summaryStatus = "failed" THEN "retry_summary"
  ELSE "first"

\* The mode of `build_variant_view' for a selector of the policy.
ModeForSelector(transcribed, actionable, wholeScope, resolved, default, summaries, states, summaryStatus) ==
  IF resolved = NoLanguage
  THEN IF transcribed /\ actionable THEN "first" ELSE "none"
  ELSE ModeForLanguage(transcribed, actionable, wholeScope, resolved, default, summaries, states, summaryStatus)

=============================================================================
