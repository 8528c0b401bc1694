----------------------------- MODULE VariantsProofs -----------------------------
(***************************************************************************)
(* The summaries of a recording, for any segments, languages and bounds:   *)
(* an inductive invariant, and the properties that follow from it.         *)
(***************************************************************************)
EXTENDS Variants, SequenceTheorems, FiniteSetTheorems, TLAPS

-----------------------------------------------------------------------------
(* The inductive invariant *)

Detection == {"detecting", "detected", "resolved"}

\* The versions are a list of rows, whatever their layouts look like.
VersionRows ==
  [transcript : DOMAIN transcripts, active : BOOLEAN, layout : {versions[v].layout : v \in DOMAIN versions}]
VersionsListed == versions \in Seq(VersionRows)

\* The attempt an operation is in is the newest and only unfinished one, and is of
\* the scope the operation is of; between its attempts there is none.
OpHolds ==
  /\ op.pc \in {"detecting", "generating"} =>
       /\ op.attempt \in Unfinished /\ op.attempt = Len(attempts)
       /\ attempts[op.attempt] = [section |-> op.section, language |-> op.language, outcome |-> "running"]
  /\ op.pc = "detecting" => op.language = NoLanguage
  /\ op.pc = "detected" => op.language \in SourceLanguages
  /\ op.pc = "resolved" => transcripts[op.section.transcript].language \in SourceLanguages
  /\ op.pc \in {"detected", "resolved", "persisted"} => Unfinished = {}

\* What may be summarized when an operation begins may be when it ends.
OpLive == op.pc \in Detection \cup {"generating"} => MaySummarize(op.section)

\* A later summary is of a later attempt.
SummariesInOrder ==
  \A i, j \in DOMAIN summaries : i < j => summaries[i].attempt < summaries[j].attempt

\* What a page remembers of the state it was rendered from.
FormHolds ==
  /\ form.kind = "layout" =>
       /\ form.fingerprint.versions \subseteq DOMAIN versions
       /\ form.seen = <<form.fingerprint.transcript, {versions[v].layout : v \in form.fingerprint.versions}>>
  /\ form.kind \in {"summary", "archive", "restore"} => form.section \in Topics
  /\ form.kind = "summary" =>
       /\ form \in [kind : {"summary"}, section : Topics, selector : Requested, mode : {form.mode},
                    fingerprint : {form.fingerprint}, generations : 0 .. 1]
       /\ form.fingerprint.attempts.count \in Nat
       /\ form.generations + form.fingerprint.attempts.count <= Cardinality(SectionAttempts(form.section))

VariantsInv ==
  /\ TypeOK /\ VersionsListed /\ OpHolds /\ OpLive /\ SummariesInOrder /\ FormHolds
  /\ NewestSummaryIsActive /\ RowsExplained

-----------------------------------------------------------------------------
(* Numbers *)

Below == {ss \in Nat \X Nat : ss[1] < ss[2]}

LEMMA BelowIsWellFounded == IsWellFoundedOn(Below, Nat)
BY NatLessThanWellFounded DEF OpToRel, Below

LEMMA LeastNumber ==
  ASSUME NEW S, S \subseteq Nat, S # {}
  PROVE  \E x \in S : \A y \in S : x <= y
<1>1. PICK x \in S : \A y \in S : ~ (<<y, x>> \in Below)
  BY BelowIsWellFounded, WFMin
<1>2. ASSUME NEW y \in S PROVE x <= y
  <2>1. x \in Nat /\ y \in Nat
    OBVIOUS
  <2>2. ~ (y < x)
    BY <1>1, <2>1 DEF Below
  <2> QED BY <2>1, <2>2
<1> QED BY <1>2

LEMMA GreatestNumber ==
  ASSUME NEW n \in Nat, NEW S, S \subseteq 0..n, S # {}
  PROVE  \E x \in S : \A y \in S : x >= y
<1> DEFINE T == {n - s : s \in S}
<1>1. T \subseteq Nat /\ T # {}
  OBVIOUS
<1>2. PICK t \in T : \A u \in T : t <= u
  BY <1>1, LeastNumber
<1>3. PICK x \in S : t = n - x
  OBVIOUS
<1>4. ASSUME NEW y \in S PROVE x >= y
  <2>1. n - x <= n - y
    BY <1>2, <1>3
  <2> QED BY <2>1
<1> QED BY <1>4

\* The greatest of some numbers, or 0 if there is none.
LEMMA GreatestOrZero ==
  ASSUME NEW n \in Nat, NEW S, S \subseteq 1..n
  PROVE  LET m == Max({0} \cup S)
         IN /\ m \in 0 .. n
            /\ S = {} => m = 0
            /\ S # {} => m \in S
            /\ \A y \in S : y <= m
<1> DEFINE U == {0} \cup S
<1>1. U \subseteq 0..n /\ U # {}
  OBVIOUS
<1>2. PICK x \in U : \A y \in U : x >= y
  BY <1>1, GreatestNumber
<1>3. Max(U) \in U /\ \A y \in U : Max(U) >= y
  BY <1>2 DEF Max
<1>4. PICK m : m = Max(U)
  OBVIOUS
<1>5. m \in U /\ \A y \in U : m >= y
  BY <1>3, <1>4
<1>6. /\ m \in 0 .. n
      /\ S = {} => m = 0
      /\ \A y \in S : y <= m
  BY <1>1, <1>5
<1>7. S # {} => m \in S
  <2>1. ASSUME NEW y \in S
        PROVE  m # 0
    BY <1>6, <2>1
  <2> QED BY <1>5, <2>1
<1> QED BY <1>4, <1>6, <1>7

-----------------------------------------------------------------------------
(* What the summaries and failures of a scope are *)

OfScope(section, l, sums) == {i \in DOMAIN sums : sums[i].section = section /\ sums[i].language = l}
FailuresOf(section, l, atts) ==
  {a \in DOMAIN atts : /\ atts[a].outcome \in FailureOutcomes
                       /\ atts[a].section = section /\ atts[a].language = l}
OpenFailures(section, l, atts, sums) ==
  {a \in FailuresOf(section, l, atts) : \A i \in OfScope(section, l, sums) : sums[i].attempt < a}

\* A state says what they say.
Explains(state, mine, open) ==
  /\ (state.status = "current") <=> (mine # {})
  /\ (state.status = "failed") <=> (mine = {} /\ open # {})
  /\ state.regen <=> (mine # {} /\ open # {})
  /\ IF open = {} THEN state.failed = NoFailure
     ELSE state.failed \in open /\ \A a \in open : a <= state.failed

Newest(sums) ==
  \A i \in DOMAIN sums :
    sums[i].active <=>
      \A j \in DOMAIN sums : sums[j].section = sums[i].section /\ sums[j].language = sums[i].language => j <= i
InOrder(sums) == \A i, j \in DOMAIN sums : i < j => sums[i].attempt < sums[j].attempt

\* The newest failure after an ordinal.
LEMMA MatchingFailureIs ==
  ASSUME NEW atts, NEW n \in Nat, DOMAIN atts = 1..n, NEW section, NEW l, NEW after \in Nat
  PROVE  LET late == {a \in FailuresOf(section, l, atts) : a > after}
             failure == MatchingFailure(atts, section, l, after)
         IN /\ failure \in 0 .. n
            /\ late = {} => failure = NoFailure
            /\ late # {} => failure # NoFailure /\ failure \in late
            /\ \A a \in late : a <= failure
<1> DEFINE late == {a \in FailuresOf(section, l, atts) : a > after}
<1>1. late \subseteq 1..n
  BY DEF FailuresOf
<1>2. MatchingFailure(atts, section, l, after) = Max({0} \cup late)
  <2>1. late = {a \in DOMAIN atts : /\ atts[a].outcome \in FailureOutcomes /\ a > after
                                    /\ atts[a].section = section /\ atts[a].language = l}
    BY DEF FailuresOf
  <2> QED BY <2>1 DEF MatchingFailure, NoFailure
<1>3. PICK m : m = Max({0} \cup late)
  OBVIOUS
<1> HIDE DEF late
<1>4. /\ m \in 0 .. n
      /\ late = {} => m = 0
      /\ late # {} => m \in late
      /\ \A a \in late : a <= m
  BY <1>1, <1>3, GreatestOrZero
<1>5. late # {} => m # 0
  BY <1>1, <1>4
<1> QED BY <1>2, <1>3, <1>4, <1>5 DEF NoFailure, late

\* reconcile_variant_state derives a state that explains its evidence.
LEMMA VariantStateExplains ==
  ASSUME NEW atts, NEW n \in Nat, DOMAIN atts = 1..n,
         NEW sums, NEW m \in Nat, DOMAIN sums = 1..m,
         \A i \in DOMAIN sums : sums[i].attempt \in DOMAIN atts,
         Newest(sums), InOrder(sums),
         NEW section, NEW l
  PROVE  LET state == VariantState(section, l, atts, sums)
         IN state \in States /\ Explains(state, OfScope(section, l, sums), OpenFailures(section, l, atts, sums))
<1> DEFINE state == VariantState(section, l, atts, sums)
           mine == OfScope(section, l, sums)
           open == OpenFailures(section, l, atts, sums)
           active == {i \in DOMAIN sums : /\ sums[i].section = section /\ sums[i].language = l
                                          /\ sums[i].active}
<1>1. CASE mine = {}
  <2>1. active = {}
    BY <1>1 DEF OfScope
  <2>2. state = LET failure == MatchingFailure(atts, section, l, 0)
                IN [status |-> IF failure = NoFailure THEN "missing" ELSE "failed", regen |-> FALSE, failed |-> failure]
    BY <2>1 DEF VariantState
  <2>3. open = {a \in FailuresOf(section, l, atts) : a > 0}
    <3>1. \A a \in FailuresOf(section, l, atts) : a > 0
      BY DEF FailuresOf
    <3> QED BY <1>1, <3>1 DEF OpenFailures
  <2>4. PICK f : f = MatchingFailure(atts, section, l, 0)
    OBVIOUS
  <2>5. /\ f \in 0 .. n
        /\ open = {} => f = NoFailure
        /\ open # {} => f # NoFailure /\ f \in open
        /\ \A a \in open : a <= f
    BY <2>3, <2>4, MatchingFailureIs
  <2>6. state = [status |-> IF f = NoFailure THEN "missing" ELSE "failed", regen |-> FALSE, failed |-> f]
    BY <2>2, <2>4
  <2> HIDE DEF state, mine, open
  <2>7. state \in States
    BY <2>5, <2>6 DEF States
  <2>8. Explains(state, mine, open)
    BY <1>1, <2>5, <2>6 DEF Explains
  <2> QED BY <2>7, <2>8 DEF state, mine, open
<1>2. CASE mine # {}
  <2>1. PICK k \in mine : \A j \in mine : k >= j
    <3>1. mine \subseteq 0 .. m
      BY DEF OfScope
    <3> QED BY <1>2, <3>1, GreatestNumber
  <2>2. active = {k}
    <3>1. k \in DOMAIN sums /\ sums[k].section = section /\ sums[k].language = l
      BY DEF OfScope
    <3>2. ASSUME NEW j \in DOMAIN sums, sums[j].section = section, sums[j].language = l
          PROVE  j \in mine
      BY <3>2 DEF OfScope
    <3>3. sums[k].active
      <4>1. \A j \in DOMAIN sums :
              sums[j].section = sums[k].section /\ sums[j].language = sums[k].language => j <= k
        BY <2>1, <3>1, <3>2
      <4> QED BY <3>1, <4>1 DEF Newest
    <3>4. ASSUME NEW i \in active
          PROVE  i = k
      <4>1. i \in DOMAIN sums /\ i \in mine
        BY <3>2
      <4>2. k <= i
        BY <3>1, <3>4, <4>1 DEF Newest
      <4>3. i <= k
        BY <2>1, <4>1
      <4> QED BY <3>1, <4>1, <4>2, <4>3
    <3> QED BY <3>1, <3>3, <3>4
  <2>3. PICK after : after = sums[k].attempt
    OBVIOUS
  <2>4. after \in Nat /\ k \in DOMAIN sums
    BY <2>3 DEF OfScope
  <2>5. state = LET newer == MatchingFailure(atts, section, l, after)
                IN [status |-> "current", regen |-> newer # NoFailure, failed |-> newer]
    <3>1. (CHOOSE i \in active : TRUE) = k
      BY <2>2
    <3> QED BY <2>2, <2>3, <3>1 DEF VariantState
  <2>6. open = {a \in FailuresOf(section, l, atts) : a > after}
    <3>1. ASSUME NEW a \in FailuresOf(section, l, atts), a > after, NEW i \in mine
          PROVE  sums[i].attempt < a
      <4>1. i \in DOMAIN sums /\ i <= k
        BY <2>1 DEF OfScope
      <4>2. sums[i].attempt \in Nat /\ a \in Nat
        BY <4>1 DEF FailuresOf
      <4>3. i = k \/ sums[i].attempt < sums[k].attempt
        BY <2>4, <4>1 DEF InOrder
      <4> QED BY <2>3, <2>4, <3>1, <4>2, <4>3
    <3>2. ASSUME NEW a \in FailuresOf(section, l, atts), \A i \in mine : sums[i].attempt < a
          PROVE  a > after
      <4>1. a \in Nat
        BY DEF FailuresOf
      <4> QED BY <2>3, <2>4, <3>2, <4>1
    <3> QED BY <3>1, <3>2 DEF OpenFailures
  <2>7. PICK f : f = MatchingFailure(atts, section, l, after)
    OBVIOUS
  <2>8. /\ f \in 0 .. n
        /\ open = {} => f = NoFailure
        /\ open # {} => f # NoFailure /\ f \in open
        /\ \A a \in open : a <= f
    BY <2>4, <2>6, <2>7, MatchingFailureIs
  <2>9. state = [status |-> "current", regen |-> f # NoFailure, failed |-> f]
    BY <2>5, <2>7
  <2> HIDE DEF state, mine, open
  <2>10. state \in States
    <3>1. PICK b \in BOOLEAN : b <=> f # NoFailure
      OBVIOUS
    <3>2. state = [status |-> "current", regen |-> b, failed |-> f]
      BY <2>9, <3>1
    <3> QED BY <2>8, <3>2 DEF States
  <2>11. Explains(state, mine, open)
    BY <1>2, <2>8, <2>9 DEF Explains
  <2> QED BY <2>10, <2>11 DEF state, mine, open
<1> QED BY <1>1, <1>2

-----------------------------------------------------------------------------
(* Sequences, languages and sections *)

LEMMA WiderSequence ==
  ASSUME NEW S, NEW T, S \subseteq T, NEW s \in Seq(S)
  PROVE  s \in Seq(T)
OBVIOUS

LEMMA FunctionIsSequence ==
  ASSUME NEW S, NEW n \in Nat, NEW f \in [1 .. n -> S]
  PROVE  f \in Seq(S) /\ DOMAIN f = 1 .. n /\ Len(f) = n
OBVIOUS

LEMMA ElementOf ==
  ASSUME NEW S, NEW s \in Seq(S), NEW i \in DOMAIN s
  PROVE  s[i] \in S
OBVIOUS

LEMMA Constants ==
  /\ NoLanguage \notin SourceLanguages /\ Requested \subseteq Selectors
  /\ \A l \in SourceLanguages : canonicalize_language(l) = l
BY VariantsAssumption DEF VariantsAssumption

LEMMA PolicyLanguages ==
  /\ canonicalize_language(NoLanguage) = NoLanguage
  /\ ~ is_valid_output_identity(NoLanguage)
  /\ is_valid_output_identity(English) /\ is_valid_output_identity(ZhHant)
  /\ NoLanguage \notin {English, ZhHant}
<1>1. canonicalize_language(NoLanguage) = NoLanguage
  BY DEF canonicalize_language, NoLanguage
<1>2. ~ is_valid_output_identity(NoLanguage)
  BY <1>1 DEF is_valid_output_identity
<1>3. is_valid_output_identity(English) /\ is_valid_output_identity(ZhHant)
  BY DEF is_valid_output_identity, canonicalize_language, NoLanguage, English, ZhHant, Tag, Unset,
         is_chinese_family, ChineseFamilyPrimaries
<1> QED BY <1>1, <1>2, <1>3

LEMMA OutputsAreValid ==
  /\ \A l \in OutputLanguages : is_valid_output_identity(l) /\ l # NoLanguage /\ l \in Languages
  /\ \A l \in Languages : is_valid_output_identity(l) => l \in OutputLanguages
BY PolicyLanguages DEF OutputLanguages, Languages

LEMMA DefaultIsAnOutput ==
  ASSUME NEW transcript, NEW decs
  PROVE  resolve_default_language(transcript, decs) \in {English, ZhHant}
BY DEF resolve_default_language, ChineseOrEnglish

LEMMA OutputLanguageIs ==
  ASSUME ContentTyped, NEW section, section.transcript \in DOMAIN transcripts, NEW selector \in Selectors
  PROVE  OutputLanguage(section, selector) \in Languages
<1> DEFINE t == transcripts[section.transcript]
<1>1. t.language \in SourceLanguages \cup {NoLanguage}
  <2>1. transcripts \in Seq([language : SourceLanguages \cup {NoLanguage}, by : {Unset, "user", "llm_detection"}])
    BY DEF ContentTyped
  <2>2. t \in [language : SourceLanguages \cup {NoLanguage}, by : {Unset, "user", "llm_detection"}]
    BY <2>1, ElementOf
  <2> QED BY <2>2
<1>2. canonicalize_language(t.language) = t.language
  BY <1>1, Constants, PolicyLanguages
<1>3. output_language_for_source(t.language) \in Languages
  BY <1>1, <1>2 DEF output_language_for_source, Languages
<1>4. resolve_default_language(t, decisions) \in Languages
  BY DefaultIsAnOutput DEF Languages
<1> HIDE DEF t
<1>5. resolve_output_language(t, decisions, selector) \in Languages
  BY <1>3, <1>4 DEF resolve_output_language, Selectors, Languages
<1> QED BY <1>5 DEF OutputLanguage, t

LEMMA TopicFacts ==
  /\ \A v \in DOMAIN versions : \A s \in TopicsOf(v) :
       s \in Topics /\ s.version = v /\ s.ordinal # 0 /\ s.transcript = versions[v].transcript
  /\ \A s \in Topics : s.version \in DOMAIN versions /\ s \in TopicsOf(s.version)
  /\ \A t : Whole(t).version = 0 /\ Whole(t).transcript = t /\ Whole(t).ordinal = 0
<1>1. \A v \in DOMAIN versions : \A s \in TopicsOf(v) :
        s \in Topics /\ s.version = v /\ s.ordinal # 0 /\ s.transcript = versions[v].transcript
  BY DEF TopicsOf, Topic, Topics
<1>2. \A s \in Topics : s.version \in DOMAIN versions /\ s \in TopicsOf(s.version)
  BY <1>1 DEF Topics
<1>3. \A t : Whole(t).version = 0 /\ Whole(t).transcript = t /\ Whole(t).ordinal = 0
  BY DEF Whole
<1> QED BY <1>1, <1>2, <1>3

LEMMA SectionsAreOfTranscripts ==
  ASSUME ContentTyped
  PROVE  \A s \in Sections : s.transcript \in DOMAIN transcripts
BY TopicFacts DEF Sections, ContentTyped

\* Layouts become history, and transcripts too, but nothing is deleted.
ContentGrows ==
  /\ DOMAIN transcripts \subseteq DOMAIN transcripts'
  /\ DOMAIN versions \subseteq DOMAIN versions'
  /\ \A v \in DOMAIN versions : /\ versions'[v].transcript = versions[v].transcript
                                /\ versions'[v].layout = versions[v].layout

LEMMA SectionsGrow ==
  ASSUME ContentGrows
  PROVE  /\ \A v \in DOMAIN versions : TopicsOf(v)' = TopicsOf(v)
         /\ Topics \subseteq Topics' /\ Sections \subseteq Sections'
<1>1. \A v \in DOMAIN versions : TopicsOf(v)' = TopicsOf(v)
  <2> TAKE v \in DOMAIN versions
  <2>1. versions'[v].transcript = versions[v].transcript /\ versions'[v].layout = versions[v].layout
    BY DEF ContentGrows
  <2>2. \A n : Topic(v, n)' = Topic(v, n)
    BY <2>1 DEF Topic
  <2> QED BY <2>1, <2>2 DEF TopicsOf
<1>2. Topics \subseteq Topics'
  BY <1>1 DEF Topics, ContentGrows
<1> QED BY <1>1, <1>2 DEF Sections, ContentGrows

LEMMA ContentKeptGrows ==
  ASSUME UNCHANGED <<transcripts, versions>>
  PROVE  ContentGrows /\ UNCHANGED <<Topics, Sections>>
BY DEF ContentGrows, Topics, TopicsOf, Topic, Sections

-----------------------------------------------------------------------------
(* Attempts *)

AttemptRows == [section : Sections, language : Languages, outcome : {"running", "success"} \cup FailureOutcomes]

AttemptsGrow ==
  /\ DOMAIN attempts \subseteq DOMAIN attempts'
  /\ \A a \in DOMAIN attempts :
       /\ attempts'[a].section = attempts[a].section /\ attempts'[a].language = attempts[a].language
       /\ attempts[a].outcome # "running" => attempts'[a].outcome = attempts[a].outcome

AttemptBegun(section, l) ==
  attempts' = Append(attempts, [section |-> section, language |-> l, outcome |-> "running"])
AttemptClosed(a, outcome) ==
  /\ a \in Unfinished /\ outcome \in {"success"} \cup FailureOutcomes
  /\ attempts' = [attempts EXCEPT ![a].outcome = outcome]

LEMMA AttemptsList ==
  ASSUME AttemptsTyped
  PROVE  /\ Len(attempts) \in Nat /\ DOMAIN attempts = 1 .. Len(attempts)
         /\ \A a \in DOMAIN attempts : attempts[a] \in AttemptRows
         /\ Unfinished \subseteq DOMAIN attempts
<1>1. attempts \in Seq(AttemptRows)
  BY DEF AttemptsTyped, AttemptRows
<1> QED BY <1>1 DEF Unfinished

LEMMA BeginsAttempt ==
  ASSUME AttemptsTyped, NEW section \in Sections, NEW l \in Languages, AttemptBegun(section, l)
  PROVE  /\ attempts' \in Seq(AttemptRows) /\ AttemptsGrow
         /\ Len(attempts') = Len(attempts) + 1 /\ DOMAIN attempts' = DOMAIN attempts \cup {Len(attempts) + 1}
         /\ \A a \in DOMAIN attempts : attempts'[a] = attempts[a]
         /\ attempts'[Len(attempts) + 1] = [section |-> section, language |-> l, outcome |-> "running"]
         /\ Unfinished' = Unfinished \cup {Len(attempts) + 1}
<1>1. PICK row : row = [section |-> section, language |-> l, outcome |-> "running"]
  OBVIOUS
<1>2. row \in AttemptRows /\ row.outcome = "running"
  BY <1>1 DEF AttemptRows
<1>3. attempts \in Seq(AttemptRows) /\ attempts' = Append(attempts, row)
  BY <1>1 DEF AttemptsTyped, AttemptRows, AttemptBegun
<1>4. /\ attempts' \in Seq(AttemptRows)
      /\ Len(attempts') = Len(attempts) + 1 /\ DOMAIN attempts' = DOMAIN attempts \cup {Len(attempts) + 1}
      /\ \A a \in DOMAIN attempts : attempts'[a] = attempts[a]
      /\ attempts'[Len(attempts) + 1] = row
  BY <1>2, <1>3
<1>5. AttemptsGrow
  BY <1>4 DEF AttemptsGrow
<1>6. Unfinished' = Unfinished \cup {Len(attempts) + 1}
  BY <1>2, <1>4 DEF Unfinished
<1> QED BY <1>1, <1>4, <1>5, <1>6

LEMMA ClosesAttempt ==
  ASSUME AttemptsTyped, NEW a, NEW outcome, AttemptClosed(a, outcome)
  PROVE  /\ attempts' \in Seq(AttemptRows) /\ AttemptsGrow
         /\ Len(attempts') = Len(attempts) /\ DOMAIN attempts' = DOMAIN attempts
         /\ a \in DOMAIN attempts /\ attempts[a].outcome = "running"
         /\ attempts'[a] = [attempts[a] EXCEPT !.outcome = outcome]
         /\ \A b \in DOMAIN attempts : b # a => attempts'[b] = attempts[b]
         /\ Unfinished' = Unfinished \ {a}
<1>1. a \in DOMAIN attempts /\ attempts[a].outcome = "running" /\ attempts[a] \in AttemptRows
  BY AttemptsList DEF AttemptClosed, Unfinished
<1>2. PICK row : row = [attempts[a] EXCEPT !.outcome = outcome]
  OBVIOUS
<1>3. /\ row \in AttemptRows /\ row.outcome = outcome /\ outcome # "running"
      /\ row.section = attempts[a].section /\ row.language = attempts[a].language
  BY <1>1, <1>2 DEF AttemptRows, AttemptClosed, FailureOutcomes
<1>4. attempts \in Seq(AttemptRows) /\ attempts' = [attempts EXCEPT ![a] = row]
  BY <1>2 DEF AttemptsTyped, AttemptRows, AttemptClosed
<1>5. /\ attempts' \in Seq(AttemptRows)
      /\ Len(attempts') = Len(attempts) /\ DOMAIN attempts' = DOMAIN attempts
      /\ attempts'[a] = row
      /\ \A b \in DOMAIN attempts : b # a => attempts'[b] = attempts[b]
  BY <1>1, <1>3, <1>4
<1>6. AttemptsGrow
  BY <1>1, <1>3, <1>5 DEF AttemptsGrow
<1>7. Unfinished' = Unfinished \ {a}
  BY <1>1, <1>3, <1>5 DEF Unfinished
<1> QED BY <1>1, <1>2, <1>5, <1>6, <1>7

-----------------------------------------------------------------------------
(* Types that a step leaves in place *)

LEMMA AttemptsTypedKept ==
  ASSUME ContentGrows, attempts' \in Seq(AttemptRows)
  PROVE  AttemptsTyped'
<1>1. AttemptRows \subseteq AttemptRows'
  BY SectionsGrow DEF AttemptRows
<1>2. attempts' \in Seq(AttemptRows')
  BY <1>1, WiderSequence
<1> QED BY <1>2 DEF AttemptsTyped, AttemptRows

LEMMA AttemptsUnchanged ==
  ASSUME AttemptsTyped, UNCHANGED attempts
  PROVE  attempts' \in Seq(AttemptRows) /\ AttemptsGrow /\ UNCHANGED Unfinished
BY DEF AttemptsTyped, AttemptRows, AttemptsGrow, Unfinished

SummaryRows == [section : Sections, language : OutputLanguages, attempt : DOMAIN attempts, active : BOOLEAN]

LEMMA SummariesList ==
  ASSUME SummariesTyped
  PROVE  /\ Len(summaries) \in Nat /\ DOMAIN summaries = 1 .. Len(summaries)
         /\ \A i \in DOMAIN summaries :
              /\ summaries[i] \in SummaryRows /\ summaries[i].attempt \in DOMAIN attempts
              /\ attempts[summaries[i].attempt].outcome = "success"
<1>1. summaries \in Seq(SummaryRows)
  BY DEF SummariesTyped, SummaryRows
<1>2. \A i \in DOMAIN summaries : summaries[i] \in SummaryRows
  BY <1>1
<1>3. \A row \in SummaryRows : row.attempt \in DOMAIN attempts
  BY DEF SummaryRows
<1> QED BY <1>1, <1>2, <1>3 DEF SummariesTyped

LEMMA SummariesTypedKept ==
  ASSUME SummariesTyped, ContentGrows, AttemptsGrow, UNCHANGED summaries
  PROVE  SummariesTyped'
<1>1. SummaryRows \subseteq SummaryRows'
  BY SectionsGrow DEF SummaryRows, AttemptsGrow
<1>2. summaries' \in Seq(SummaryRows')
  BY <1>1, WiderSequence DEF SummariesTyped, SummaryRows
<1>3. \A i \in DOMAIN summaries : attempts'[summaries[i].attempt].outcome = "success"
  <2> TAKE i \in DOMAIN summaries
  <2>1. summaries[i].attempt \in DOMAIN attempts /\ attempts[summaries[i].attempt].outcome = "success"
    BY SummariesList
  <2> QED BY <2>1 DEF AttemptsGrow
<1> QED BY <1>2, <1>3 DEF SummariesTyped, SummaryRows

LEMMA RowsTypedKept ==
  ASSUME RowsTyped, ContentGrows, UNCHANGED rows, recording' \in States
  PROVE  RowsTyped'
<1>1. Sections \X OutputLanguages \subseteq Sections' \X OutputLanguages
  BY SectionsGrow
<1> QED BY <1>1 DEF RowsTyped

LEMMA ReconciledTyped ==
  ASSUME RowsTyped, ContentGrows, NEW section \in Sections, NEW l \in OutputLanguages,
         NEW atts, NEW sums, NEW trs, Reconcile(section, l, atts, sums, trs),
         VariantState(section, l, atts, sums) \in States
  PROVE  RowsTyped'
<1>1. PICK state \in States : state = VariantState(section, l, atts, sums)
  OBVIOUS
<1>2. PICK mine : mine = Scope(section, l)
  OBVIOUS
<1>3. mine \in Sections \X OutputLanguages
  BY <1>2 DEF Scope
<1>4. /\ rows' = [scope \in DOMAIN rows \cup {mine} |-> IF scope = mine THEN state ELSE rows[scope]]
      /\ recording' \in {state, recording}
  BY <1>1, <1>2 DEF Reconcile
<1>5. DOMAIN rows \subseteq Sections \X OutputLanguages /\ rows \in [DOMAIN rows -> States] /\ recording \in States
  BY DEF RowsTyped
<1>6. DOMAIN rows' = DOMAIN rows \cup {mine} /\ rows' \in [DOMAIN rows' -> States] /\ recording' \in States
  BY <1>4, <1>5
<1>7. DOMAIN rows' \subseteq Sections' \X OutputLanguages
  BY <1>3, <1>5, <1>6, SectionsGrow
<1> QED BY <1>6, <1>7 DEF RowsTyped

-----------------------------------------------------------------------------
(* Rows and what explains them *)

ScopeExplained(section, l) ==
  LET scope == Scope(section, l)
      mine == OfScope(section, l, summaries)
      open == OpenFailures(section, l, attempts, summaries)
  IN /\ mine # {} \/ open # {} => scope \in DOMAIN rows
     /\ scope \in DOMAIN rows => Explains(rows[scope], mine, open)

AllExplained == \A section \in Sections, l \in OutputLanguages : ScopeExplained(section, l)

LEMMA RowsExplainedIs == RowsExplained <=> AllExplained
<1> DEFINE mine(section, l) == {i \in DOMAIN summaries : summaries[i].section = section /\ summaries[i].language = l}
           open(section, l) == {a \in DOMAIN attempts :
                                  /\ Failed(a) /\ attempts[a].section = section /\ attempts[a].language = l
                                  /\ \A i \in mine(section, l) : summaries[i].attempt < a}
           says(section, l) ==
             /\ mine(section, l) # {} \/ open(section, l) # {} => Scope(section, l) \in DOMAIN rows
             /\ Scope(section, l) \in DOMAIN rows =>
                  Explains(rows[Scope(section, l)], mine(section, l), open(section, l))
<1>1. ASSUME NEW section, NEW l
      PROVE  mine(section, l) = OfScope(section, l, summaries)
  BY DEF OfScope
<1>2. ASSUME NEW section, NEW l
      PROVE  open(section, l) = OpenFailures(section, l, attempts, summaries)
  BY <1>1 DEF OpenFailures, FailuresOf, Failed
<1>3. RowsExplained <=> \A section \in Sections, l \in OutputLanguages : says(section, l)
  BY DEF RowsExplained, Explains
<1> HIDE DEF mine, open
<1>4. ASSUME NEW section, NEW l
      PROVE  says(section, l) <=> ScopeExplained(section, l)
  BY <1>1, <1>2 DEF ScopeExplained
<1> QED BY <1>3, <1>4 DEF AllExplained

LEMMA ScopesDiffer ==
  ASSUME NEW s, NEW t, NEW k, NEW l, s # t \/ k # l
  PROVE  Scope(s, k) # Scope(t, l)
BY DEF Scope

\* What is no section yet has no row, and nothing to explain.
LEMMA EveryScopeExplained ==
  ASSUME AttemptsTyped, SummariesTyped, RowsTyped, RowsExplained
  PROVE  \A section : \A l \in OutputLanguages : ScopeExplained(section, l)
<1> SUFFICES ASSUME NEW section, NEW l \in OutputLanguages
             PROVE  ScopeExplained(section, l)
  OBVIOUS
<1>1. CASE section \in Sections
  BY <1>1, RowsExplainedIs DEF AllExplained
<1>2. CASE section \notin Sections
  <2>1. OfScope(section, l, summaries) = {}
    <3>1. \A i \in DOMAIN summaries : summaries[i].section \in Sections
      BY SummariesList DEF SummaryRows
    <3> QED BY <1>2, <3>1 DEF OfScope
  <2>2. OpenFailures(section, l, attempts, summaries) = {}
    <3>1. \A a \in DOMAIN attempts : attempts[a].section \in Sections
      BY AttemptsList DEF AttemptRows
    <3> QED BY <1>2, <3>1 DEF OpenFailures, FailuresOf
  <2>3. Scope(section, l) \notin DOMAIN rows
    BY <1>2 DEF Scope, RowsTyped
  <2> QED BY <2>1, <2>2, <2>3 DEF ScopeExplained
<1> QED BY <1>1, <1>2

SameRow(section, l) ==
  LET scope == Scope(section, l)
  IN /\ scope \in DOMAIN rows' <=> scope \in DOMAIN rows
     /\ scope \in DOMAIN rows => rows'[scope] = rows[scope]

SameEvidence(section, l) ==
  /\ FailuresOf(section, l, attempts') = FailuresOf(section, l, attempts)
  /\ OfScope(section, l, summaries') = OfScope(section, l, summaries)
  /\ \A i \in OfScope(section, l, summaries) : summaries'[i].attempt = summaries[i].attempt

LEMMA ScopeStaysExplained ==
  ASSUME NEW section, NEW l, ScopeExplained(section, l), SameRow(section, l), SameEvidence(section, l)
  PROVE  ScopeExplained(section, l)'
<1>1. OpenFailures(section, l, attempts', summaries') = OpenFailures(section, l, attempts, summaries)
  BY DEF OpenFailures, SameEvidence
<1>2. OfScope(section, l, summaries') = OfScope(section, l, summaries)
  BY DEF SameEvidence
<1>3. PICK mine, open, scope : /\ mine = OfScope(section, l, summaries)
                               /\ open = OpenFailures(section, l, attempts, summaries)
                               /\ scope = Scope(section, l)
  OBVIOUS
<1>4. /\ mine # {} \/ open # {} => scope \in DOMAIN rows
      /\ scope \in DOMAIN rows => Explains(rows[scope], mine, open)
  BY <1>3 DEF ScopeExplained
<1>5. /\ scope \in DOMAIN rows' <=> scope \in DOMAIN rows
      /\ scope \in DOMAIN rows => rows'[scope] = rows[scope]
  BY <1>3 DEF SameRow
<1>6. /\ mine # {} \/ open # {} => scope \in DOMAIN rows'
      /\ scope \in DOMAIN rows' => Explains(rows'[scope], mine, open)
  BY <1>4, <1>5
<1> QED BY <1>1, <1>2, <1>3, <1>6 DEF ScopeExplained

\* What the transaction that closes an attempt, or stores a summary, derives.
LEMMA ReconciledState ==
  ASSUME AttemptsTyped', SummariesTyped', NewestSummaryIsActive', SummariesInOrder', NEW section, NEW l
  PROVE  LET state == VariantState(section, l, attempts', summaries')
         IN /\ state \in States
            /\ Explains(state, OfScope(section, l, summaries'), OpenFailures(section, l, attempts', summaries'))
<1>1. Newest(summaries') /\ InOrder(summaries')
  BY DEF Newest, InOrder, NewestSummaryIsActive, SummariesInOrder
<1>2. /\ Len(attempts') \in Nat /\ DOMAIN attempts' = 1 .. Len(attempts')
      /\ Len(summaries') \in Nat /\ DOMAIN summaries' = 1 .. Len(summaries')
      /\ \A i \in DOMAIN summaries' : summaries'[i].attempt \in DOMAIN attempts'
  <2>1. attempts' \in Seq(AttemptRows') /\ summaries' \in Seq(SummaryRows')
    BY DEF AttemptsTyped, AttemptRows, SummariesTyped, SummaryRows
  <2>2. \A i \in DOMAIN summaries' : summaries'[i] \in SummaryRows'
    BY <2>1
  <2>3. \A row \in SummaryRows' : row.attempt \in DOMAIN attempts'
    BY DEF SummaryRows
  <2> QED BY <2>1, <2>2, <2>3
<1> QED BY <1>1, <1>2, VariantStateExplains

LEMMA ReconciledRow ==
  ASSUME NEW section, NEW l, NEW atts, NEW sums, NEW trs, Reconcile(section, l, atts, sums, trs)
  PROVE  /\ Scope(section, l) \in DOMAIN rows'
         /\ rows'[Scope(section, l)] = VariantState(section, l, atts, sums)
         /\ \A s, k : s # section \/ k # l => SameRow(s, k)
<1>1. PICK state, mine : state = VariantState(section, l, atts, sums) /\ mine = Scope(section, l)
  OBVIOUS
<1>2. rows' = [scope \in DOMAIN rows \cup {mine} |-> IF scope = mine THEN state ELSE rows[scope]]
  BY <1>1 DEF Reconcile
<1>3. mine \in DOMAIN rows' /\ rows'[mine] = state
  BY <1>2
<1>4. ASSUME NEW s, NEW k, s # section \/ k # l
      PROVE  SameRow(s, k)
  <2>1. Scope(s, k) # mine
    BY <1>1, <1>4, ScopesDiffer
  <2> QED BY <1>2, <2>1 DEF SameRow
<1> QED BY <1>1, <1>3, <1>4

\* Nothing is reconciled: no scope may have new evidence.
LEMMA RowsExplainedKept ==
  ASSUME AttemptsTyped, SummariesTyped, RowsTyped, RowsExplained, UNCHANGED rows,
         \A section : \A l \in OutputLanguages : SameEvidence(section, l)
  PROVE  RowsExplained'
<1>1. \A section : \A l \in OutputLanguages : ScopeExplained(section, l)'
  <2> SUFFICES ASSUME NEW section, NEW l \in OutputLanguages
               PROVE  ScopeExplained(section, l)'
    OBVIOUS
  <2>1. SameRow(section, l)
    BY DEF SameRow
  <2>2. ScopeExplained(section, l)
    BY EveryScopeExplained
  <2> QED BY <2>1, <2>2, ScopeStaysExplained
<1>2. AllExplained'
  BY <1>1 DEF AllExplained
<1> QED BY <1>2, RowsExplainedIs, PTL

\* One scope is reconciled: no other may have new evidence.
LEMMA RowsExplainedReconciled ==
  ASSUME AttemptsTyped, SummariesTyped, RowsTyped, RowsExplained,
         AttemptsTyped', SummariesTyped', NewestSummaryIsActive', SummariesInOrder',
         NEW section, NEW l \in OutputLanguages, NEW trs,
         Reconcile(section, l, attempts', summaries', trs),
         \A s : \A k \in OutputLanguages : s # section \/ k # l => SameEvidence(s, k)
  PROVE  RowsExplained'
<1>1. ScopeExplained(section, l)'
  <2>1. /\ Scope(section, l) \in DOMAIN rows'
        /\ rows'[Scope(section, l)] = VariantState(section, l, attempts', summaries')
    BY ReconciledRow
  <2>2. Explains(VariantState(section, l, attempts', summaries'),
                 OfScope(section, l, summaries'), OpenFailures(section, l, attempts', summaries'))
    BY ReconciledState
  <2> QED BY <2>1, <2>2 DEF ScopeExplained
<1>2. \A s : \A k \in OutputLanguages : ScopeExplained(s, k)'
  <2> SUFFICES ASSUME NEW s, NEW k \in OutputLanguages, s # section \/ k # l
               PROVE  ScopeExplained(s, k)'
    BY <1>1
  <2>1. SameRow(s, k)
    BY ReconciledRow
  <2>2. ScopeExplained(s, k)
    BY EveryScopeExplained
  <2> QED BY <2>1, <2>2, ScopeStaysExplained
<1>3. AllExplained'
  BY <1>2 DEF AllExplained
<1> QED BY <1>3, RowsExplainedIs, PTL

\* An attempt that is begun is no failure.
LEMMA BegunIsNoEvidence ==
  ASSUME AttemptsTyped, NEW section \in Sections, NEW l \in Languages, AttemptBegun(section, l), UNCHANGED summaries
  PROVE  \A s, k : SameEvidence(s, k)
<1> SUFFICES ASSUME NEW s, NEW k
             PROVE  FailuresOf(s, k, attempts') = FailuresOf(s, k, attempts)
  BY DEF SameEvidence
<1>0. PICK row : row = [section |-> section, language |-> l, outcome |-> "running"]
  OBVIOUS
<1>1. /\ DOMAIN attempts' = DOMAIN attempts \cup {Len(attempts) + 1}
      /\ \A a \in DOMAIN attempts : attempts'[a] = attempts[a]
      /\ attempts'[Len(attempts) + 1] = row /\ row.outcome = "running"
  BY <1>0, BeginsAttempt
<1> QED BY <1>1 DEF FailuresOf, FailureOutcomes

\* One that is closed is one of its own scope only, and none if it succeeds.
LEMMA ClosedIsOneScopesEvidence ==
  ASSUME AttemptsTyped, NEW a, NEW outcome, AttemptClosed(a, outcome), NEW s, NEW k,
         outcome = "success" \/ s # attempts[a].section \/ k # attempts[a].language
  PROVE  FailuresOf(s, k, attempts') = FailuresOf(s, k, attempts)
<1>1. PICK row : row = [attempts[a] EXCEPT !.outcome = outcome]
  OBVIOUS
<1>2. /\ DOMAIN attempts' = DOMAIN attempts
      /\ a \in DOMAIN attempts /\ attempts[a].outcome = "running" /\ attempts[a] \in AttemptRows
      /\ attempts'[a] = row
      /\ \A b \in DOMAIN attempts : b # a => attempts'[b] = attempts[b]
  BY <1>1, ClosesAttempt, AttemptsList
<1>3. row.outcome = outcome /\ row.section = attempts[a].section /\ row.language = attempts[a].language
  BY <1>1, <1>2 DEF AttemptRows
<1>4. a \notin FailuresOf(s, k, attempts')
  BY <1>2, <1>3 DEF FailuresOf, FailureOutcomes
<1>5. a \notin FailuresOf(s, k, attempts)
  BY <1>2 DEF FailuresOf, FailureOutcomes
<1>6. \A b : b # a => (b \in FailuresOf(s, k, attempts') <=> b \in FailuresOf(s, k, attempts))
  BY <1>2 DEF FailuresOf
<1> QED BY <1>4, <1>5, <1>6

-----------------------------------------------------------------------------
(* What a step leaves in place *)

Operations ==
  [pc : {"idle", "detecting", "detected", "resolved", "generating", "persisted"}, section : Sections,
   selector : Selectors, regenerate : BOOLEAN, language : Languages, attempt : {0} \cup DOMAIN attempts]

LEMMA InvParts ==
  ASSUME VariantsInv
  PROVE  /\ ContentTyped /\ AttemptsTyped /\ SummariesTyped /\ RowsTyped /\ OpTyped
         /\ VersionsListed /\ OpHolds /\ OpLive /\ SummariesInOrder /\ FormHolds
         /\ NewestSummaryIsActive /\ RowsExplained
BY DEF VariantsInv, TypeOK

LEMMA VersionsKept ==
  ASSUME VersionsListed, ContentGrows, UNCHANGED versions
  PROVE  VersionsListed'
<1>1. VersionRows \subseteq VersionRows'
  BY DEF VersionRows, ContentGrows
<1> QED BY <1>1, WiderSequence DEF VersionsListed

LEMMA ContentKept ==
  ASSUME ContentTyped, VersionsListed, UNCHANGED content
  PROVE  /\ ContentTyped' /\ VersionsListed' /\ ContentGrows
         /\ UNCHANGED <<Topics, Sections, ActiveTranscript>>
         /\ \A section : MaySummarize(section) => MaySummarize(section)'
<1>1. UNCHANGED <<transcripts, decisions, versions, archived, archivedSections>>
  BY DEF content
<1>2. ContentGrows /\ UNCHANGED <<Topics, Sections>>
  BY <1>1, ContentKeptGrows
<1>3. ContentTyped'
  BY <1>1, <1>2 DEF ContentTyped
<1>4. VersionsListed' /\ UNCHANGED ActiveTranscript
  BY <1>1, <1>2, VersionsKept DEF ActiveTranscript
<1>5. \A section : MaySummarize(section) => MaySummarize(section)'
  BY <1>1 DEF MaySummarize, RequireActiveTopicSection, TopicsOf, Topic, ActiveTranscript
<1> QED BY <1>2, <1>3, <1>4, <1>5

LEMMA FirstSection ==
  ASSUME ContentTyped
  PROVE  /\ 1 \in DOMAIN transcripts /\ Whole(1) \in Sections
         /\ Len(transcripts) \in Nat \ {0} /\ DOMAIN transcripts = 1 .. Len(transcripts)
         /\ Whole(ActiveTranscript) \in Sections
<1> DEFINE R == [language : SourceLanguages \cup {NoLanguage}, by : {Unset, "user", "llm_detection"}]
<1>1. transcripts \in Seq(R) /\ transcripts # <<>>
  BY DEF ContentTyped
<1> HIDE DEF R
<1>2. 1 \in DOMAIN transcripts /\ Len(transcripts) \in DOMAIN transcripts
      /\ Len(transcripts) \in Nat \ {0} /\ DOMAIN transcripts = 1 .. Len(transcripts)
  BY <1>1
<1> QED BY <1>2 DEF Sections, ActiveTranscript

IdleTyped == NoOp \in Operations

LEMMA NoOpIsTyped == ContentTyped => IdleTyped
<1> SUFFICES ASSUME ContentTyped
             PROVE  IdleTyped
  OBVIOUS
<1>1. Whole(1) \in Sections /\ NoLanguage \in Languages /\ "default" \in Selectors
  BY FirstSection DEF Languages, Selectors
<1> QED BY <1>1 DEF NoOp, Operations, IdleTyped

LEMMA OpEnds ==
  ASSUME ContentTyped', op' = NoOp, \A a, b \in Unfinished' : a = b
  PROVE  OpTyped' /\ OpHolds' /\ OpLive'
<1>1. op' \in Operations'
  <2>1. IdleTyped'
    BY NoOpIsTyped, PTL
  <2>2. NoOp' = NoOp
    BY DEF NoOp, Whole
  <2> QED BY <2>1, <2>2 DEF IdleTyped
<1>2. op'.pc = "idle"
  BY DEF NoOp
<1> QED BY <1>1, <1>2 DEF OpTyped, Operations, OpHolds, OpLive, Detection

LEMMA OpStaysIdle ==
  ASSUME OpTyped, op.pc = "idle", UNCHANGED op, ContentGrows,
         DOMAIN attempts \subseteq DOMAIN attempts', Unfinished' \subseteq Unfinished
  PROVE  OpTyped' /\ OpHolds' /\ OpLive'
<1>1. op \in Operations
  BY DEF OpTyped, Operations
<1>2. Operations \subseteq Operations'
  BY SectionsGrow DEF Operations
<1>3. op' \in Operations' /\ op'.pc = "idle"
  BY <1>1, <1>2
<1>4. \A a, b \in Unfinished' : a = b
  BY DEF OpTyped
<1> QED BY <1>3, <1>4 DEF OpTyped, Operations, OpHolds, OpLive, Detection

LEMMA SummariesKept ==
  ASSUME SummariesInOrder, NewestSummaryIsActive, UNCHANGED summaries
  PROVE  SummariesInOrder' /\ NewestSummaryIsActive'
BY DEF SummariesInOrder, NewestSummaryIsActive

LEMMA SectionAttemptsGrow ==
  ASSUME AttemptsTyped, AttemptsGrow, AttemptsTyped', NEW section
  PROVE  /\ IsFiniteSet(SectionAttempts(section)) /\ Cardinality(SectionAttempts(section)) \in Nat
         /\ IsFiniteSet(SectionAttempts(section)') /\ Cardinality(SectionAttempts(section)') \in Nat
         /\ SectionAttempts(section) \subseteq SectionAttempts(section)'
         /\ Cardinality(SectionAttempts(section)) <= Cardinality(SectionAttempts(section)')
<1>1. DOMAIN attempts = 1 .. Len(attempts) /\ Len(attempts) \in Nat
  BY AttemptsList
<1>2. DOMAIN attempts' = 1 .. Len(attempts') /\ Len(attempts') \in Nat
  <2>1. attempts' \in Seq(AttemptRows')
    BY DEF AttemptsTyped, AttemptRows
  <2> QED BY <2>1
<1>3. IsFiniteSet(DOMAIN attempts) /\ IsFiniteSet(DOMAIN attempts')
  BY <1>1, <1>2, FS_Interval
<1>4. SectionAttempts(section) \subseteq DOMAIN attempts /\ SectionAttempts(section)' \subseteq DOMAIN attempts'
  BY DEF SectionAttempts
<1>5. SectionAttempts(section) \subseteq SectionAttempts(section)'
  BY DEF SectionAttempts, AttemptsGrow
<1>6. IsFiniteSet(SectionAttempts(section)) /\ IsFiniteSet(SectionAttempts(section)')
  BY <1>3, <1>4, FS_Subset
<1> QED BY <1>5, <1>6, FS_Subset, FS_CardinalityType

LEMMA FormKept ==
  ASSUME FormHolds, UNCHANGED form, ContentGrows, AttemptsTyped, AttemptsGrow, AttemptsTyped'
  PROVE  FormHolds'
<1>1. ASSUME form.kind = "layout"
      PROVE  /\ form.fingerprint.versions \subseteq DOMAIN versions'
             /\ form.seen = <<form.fingerprint.transcript,
                              {versions'[v].layout : v \in form.fingerprint.versions}>>
  <2>1. /\ form.fingerprint.versions \subseteq DOMAIN versions
        /\ form.seen = <<form.fingerprint.transcript, {versions[v].layout : v \in form.fingerprint.versions}>>
    BY <1>1 DEF FormHolds
  <2>2. {versions'[v].layout : v \in form.fingerprint.versions} = {versions[v].layout : v \in form.fingerprint.versions}
    BY <2>1 DEF ContentGrows
  <2> QED BY <2>1, <2>2 DEF ContentGrows
<1>2. ASSUME form.kind \in {"summary", "archive", "restore"}
      PROVE  form.section \in Topics'
  BY <1>2, SectionsGrow DEF FormHolds
<1>3. ASSUME form.kind = "summary"
      PROVE  /\ form \in [kind : {"summary"}, section : Topics', selector : Requested, mode : {form.mode},
                          fingerprint : {form.fingerprint}, generations : 0 .. 1]
             /\ form.fingerprint.attempts.count \in Nat
             /\ form.generations + form.fingerprint.attempts.count
                  <= Cardinality(SectionAttempts(form.section)')
  <2>1. /\ form \in [kind : {"summary"}, section : Topics, selector : Requested, mode : {form.mode},
                     fingerprint : {form.fingerprint}, generations : 0 .. 1]
        /\ form.fingerprint.attempts.count \in Nat
        /\ form.generations + form.fingerprint.attempts.count <= Cardinality(SectionAttempts(form.section))
    BY <1>3 DEF FormHolds
  <2>2. \A section : Cardinality(SectionAttempts(section)) \in Nat /\ Cardinality(SectionAttempts(section)') \in Nat
                     /\ Cardinality(SectionAttempts(section)) <= Cardinality(SectionAttempts(section)')
    BY SectionAttemptsGrow
  <2>3. form \in [kind : {"summary"}, section : Topics', selector : Requested, mode : {form.mode},
                  fingerprint : {form.fingerprint}, generations : 0 .. 1]
    BY <2>1, SectionsGrow
  <2>4. form.generations \in Nat
    BY <2>1
  <2> QED BY <2>1, <2>2, <2>3, <2>4
<1> QED BY <1>1, <1>2, <1>3 DEF FormHolds

\* A step that stores no summary.
LEMMA InvFromParts ==
  ASSUME VariantsInv, UNCHANGED summaries, ContentGrows, AttemptsGrow, attempts' \in Seq(AttemptRows),
         ContentTyped', VersionsListed', RowsTyped', OpTyped', OpHolds', OpLive', FormHolds', RowsExplained'
  PROVE  VariantsInv'
<1>1. AttemptsTyped'
  BY AttemptsTypedKept
<1>2. SummariesTyped'
  BY InvParts, SummariesTypedKept
<1>3. SummariesInOrder' /\ NewestSummaryIsActive'
  BY InvParts, SummariesKept
<1> QED BY <1>1, <1>2, <1>3 DEF VariantsInv, TypeOK

LEMMA EvidenceKept ==
  ASSUME UNCHANGED <<attempts, summaries>>
  PROVE  \A section : \A l \in OutputLanguages : SameEvidence(section, l)
BY DEF SameEvidence

\* A step of the user, or of the clock: content changes, work does not.
LEMMA ContentStep ==
  ASSUME VariantsInv, op.pc = "idle", UNCHANGED <<attempts, summaries, op, form>>, ContentGrows,
         ContentTyped', VersionsListed', RowsTyped', RowsExplained'
  PROVE  VariantsInv'
<1>1. attempts' \in Seq(AttemptRows) /\ AttemptsGrow /\ UNCHANGED Unfinished
  BY InvParts, AttemptsUnchanged
<1>2. AttemptsTyped'
  BY <1>1, AttemptsTypedKept
<1>3. OpTyped' /\ OpHolds' /\ OpLive'
  BY <1>1, InvParts, OpStaysIdle
<1>4. FormHolds'
  BY <1>1, <1>2, InvParts, FormKept
<1> QED BY <1>1, <1>3, <1>4, InvFromParts

LEMMA RowsKept ==
  ASSUME VariantsInv, UNCHANGED <<attempts, summaries, rows>>, ContentGrows, recording' \in States
  PROVE  RowsTyped' /\ RowsExplained'
<1>1. RowsTyped'
  BY InvParts, RowsTypedKept
<1>2. RowsExplained'
  BY InvParts, EvidenceKept, RowsExplainedKept
<1> QED BY <1>1, <1>2

LEMMA PageStep ==
  ASSUME VariantsInv, UNCHANGED <<content, results, op>>, FormHolds'
  PROVE  VariantsInv'
<1>1. UNCHANGED <<attempts, summaries, rows, recording, op>>
  BY DEF results
<1>2. ContentTyped' /\ VersionsListed' /\ ContentGrows /\ UNCHANGED Sections
      /\ \A section : MaySummarize(section) => MaySummarize(section)'
  BY InvParts, ContentKept
<1>3. attempts' \in Seq(AttemptRows) /\ AttemptsGrow /\ UNCHANGED Unfinished
  BY <1>1, InvParts, AttemptsUnchanged
<1>4. RowsTyped' /\ RowsExplained'
  BY <1>1, <1>2, InvParts, RowsKept DEF RowsTyped
<1>5. OpTyped'
  BY <1>1, <1>2, <1>3, InvParts DEF OpTyped
<1>6. OpHolds'
  BY <1>1, <1>3, InvParts DEF OpHolds, content
<1>7. OpLive'
  BY <1>1, <1>2, InvParts DEF OpLive
<1> QED BY <1>1, <1>2, <1>3, <1>4, <1>5, <1>6, <1>7, InvFromParts

-----------------------------------------------------------------------------
(* Beginning and closing attempts *)

LEMMA Reconciles ==
  ASSUME VariantsInv, ContentGrows, AttemptsTyped', SummariesTyped', NewestSummaryIsActive', SummariesInOrder',
         NEW section \in Sections, NEW l \in OutputLanguages, NEW trs,
         Reconcile(section, l, attempts', summaries', trs),
         \A s : \A k \in OutputLanguages : s # section \/ k # l => SameEvidence(s, k)
  PROVE  RowsTyped' /\ RowsExplained'
<1>1. VariantState(section, l, attempts', summaries') \in States
  BY ReconciledState
<1>2. RowsTyped'
  BY <1>1, InvParts, ReconciledTyped
<1>3. RowsExplained'
  BY InvParts, RowsExplainedReconciled
<1> QED BY <1>2, <1>3

\* A failure or an interruption, counted for the scope the attempt names.
LEMMA ClosesAndReconciles ==
  ASSUME VariantsInv, UNCHANGED <<content, summaries>>, NEW a, NEW outcome, AttemptClosed(a, outcome),
         is_valid_output_identity(attempts[a].language),
         Reconcile(attempts[a].section, attempts[a].language, attempts', summaries, transcripts)
  PROVE  RowsTyped' /\ RowsExplained'
<1>1. ContentGrows
  BY InvParts, ContentKept
<1>2. /\ attempts' \in Seq(AttemptRows) /\ AttemptsGrow
      /\ a \in DOMAIN attempts
  BY InvParts, ClosesAttempt
<1>3. AttemptsTyped'
  BY <1>1, <1>2, AttemptsTypedKept
<1>4. SummariesTyped'
  BY <1>1, <1>2, InvParts, SummariesTypedKept
<1>5. SummariesInOrder' /\ NewestSummaryIsActive'
  BY InvParts, SummariesKept
<1>6. attempts[a].section \in Sections /\ attempts[a].language \in OutputLanguages
  <2>1. attempts[a] \in AttemptRows
    BY <1>2, InvParts, AttemptsList
  <2> QED BY <2>1, OutputsAreValid DEF AttemptRows
<1>7. \A s : \A k \in OutputLanguages :
        s # attempts[a].section \/ k # attempts[a].language => SameEvidence(s, k)
  BY InvParts, ClosedIsOneScopesEvidence DEF SameEvidence
<1>8. PICK section \in Sections, l \in OutputLanguages : section = attempts[a].section /\ l = attempts[a].language
  BY <1>6
<1>9. Reconcile(section, l, attempts', summaries', transcripts)
  BY <1>8
<1>10. \A s : \A k \in OutputLanguages : s # section \/ k # l => SameEvidence(s, k)
  BY <1>7, <1>8
<1> QED BY <1>1, <1>3, <1>4, <1>5, <1>9, <1>10, Reconciles

\* A success, or an attempt in no output language: no scope has a failure of it.
LEMMA ClosesWithoutEvidence ==
  ASSUME VariantsInv, UNCHANGED <<content, summaries, rows, recording>>,
         NEW a, NEW outcome, AttemptClosed(a, outcome),
         outcome = "success" \/ ~ is_valid_output_identity(attempts[a].language)
  PROVE  RowsTyped' /\ RowsExplained'
<1>1. ContentGrows
  BY InvParts, ContentKept
<1>2. RowsTyped'
  BY <1>1, InvParts, RowsTypedKept DEF RowsTyped
<1>3. \A s : \A k \in OutputLanguages : SameEvidence(s, k)
  <2> SUFFICES ASSUME NEW s, NEW k \in OutputLanguages
               PROVE  FailuresOf(s, k, attempts') = FailuresOf(s, k, attempts)
    BY DEF SameEvidence
  <2>1. outcome = "success" \/ k # attempts[a].language
    BY OutputsAreValid
  <2> QED BY <2>1, InvParts, ClosedIsOneScopesEvidence
<1>4. RowsExplained'
  BY <1>3, InvParts, RowsExplainedKept
<1> QED BY <1>2, <1>4

LEMMA BeginsWithoutEvidence ==
  ASSUME VariantsInv, UNCHANGED <<content, summaries, rows, recording>>,
         NEW section \in Sections, NEW l \in Languages, AttemptBegun(section, l)
  PROVE  RowsTyped' /\ RowsExplained'
<1>1. ContentGrows
  BY InvParts, ContentKept
<1>2. RowsTyped'
  BY <1>1, InvParts, RowsTypedKept DEF RowsTyped
<1>3. RowsExplained'
  BY InvParts, BegunIsNoEvidence, RowsExplainedKept
<1> QED BY <1>2, <1>3

\* The operation that begins an attempt.
LEMMA OpBegins ==
  ASSUME VariantsInv, UNCHANGED content, Unfinished = {},
         NEW section \in Sections, NEW selector \in Selectors, NEW regenerate \in BOOLEAN, NEW l \in Languages,
         NEW pc \in {"detecting", "generating"}, pc = "detecting" => l = NoLanguage,
         AttemptBegun(section, l), MaySummarize(section),
         op' = [pc |-> pc, section |-> section, selector |-> selector, regenerate |-> regenerate,
                language |-> l, attempt |-> Len(attempts) + 1]
  PROVE  OpTyped' /\ OpHolds' /\ OpLive'
<1>1. /\ UNCHANGED Sections
      /\ MaySummarize(section)'
  BY InvParts, ContentKept
<1>2. /\ Len(attempts') = Len(attempts) + 1 /\ DOMAIN attempts' = DOMAIN attempts \cup {Len(attempts) + 1}
      /\ attempts'[Len(attempts) + 1] = [section |-> section, language |-> l, outcome |-> "running"]
      /\ Unfinished' = {Len(attempts) + 1}
  BY InvParts, BeginsAttempt
<1>3. PICK n : n = Len(attempts) + 1
  OBVIOUS
<1>4. op' = [pc |-> pc, section |-> section, selector |-> selector, regenerate |-> regenerate,
             language |-> l, attempt |-> n]
  BY <1>3
<1>5. /\ op' \in Operations' /\ op'.pc = pc /\ op'.section = section /\ op'.language = l /\ op'.attempt = n
  BY <1>1, <1>2, <1>3, <1>4 DEF Operations
<1>6. OpTyped'
  BY <1>2, <1>5 DEF OpTyped, Operations
<1>7. OpHolds'
  <2>1. op'.attempt = Len(attempts') /\ attempts'[op'.attempt] = [section |-> op'.section, language |-> op'.language, outcome |-> "running"]
    BY <1>2, <1>3, <1>5
  <2>2. (op'.pc = "detecting" => op'.language = NoLanguage) /\ op'.attempt \in Unfinished'
    BY <1>2, <1>3, <1>5
  <2>3. op'.pc \notin {"detected", "resolved", "persisted"}
    BY <1>5
  <2> QED BY <2>1, <2>2, <2>3 DEF OpHolds
<1>8. OpLive'
  BY <1>1, <1>5 DEF OpLive, MaySummarize, RequireActiveTopicSection
<1> QED BY <1>6, <1>7, <1>8

\* Whether a summary is begun, its language detected first, or nothing to be done.
Started(section) ==
  /\ attempts' \in Seq(AttemptRows) /\ AttemptsGrow
  /\ OpTyped' /\ OpHolds' /\ OpLive' /\ RowsTyped' /\ RowsExplained'
  /\ \A a \in DOMAIN attempts' \ DOMAIN attempts : attempts'[a].section = section
  /\ op'.pc = "generating" =>
       \E l \in Languages \ {NoLanguage} : AttemptBegun(section, l)

LEMMA NothingStarts ==
  ASSUME VariantsInv, UNCHANGED <<content, summaries, rows, recording, attempts>>, op' = NoOp, NEW section
  PROVE  Started(section)
<1>1. attempts' \in Seq(AttemptRows) /\ AttemptsGrow /\ UNCHANGED Unfinished
  BY InvParts, AttemptsUnchanged
<1>2. ContentTyped' /\ ContentGrows
  BY InvParts, ContentKept
<1>3. OpTyped' /\ OpHolds' /\ OpLive'
  BY <1>1, <1>2, InvParts, OpEnds DEF OpTyped
<1>4. RowsTyped' /\ RowsExplained'
  BY <1>2, InvParts, RowsKept DEF RowsTyped
<1>5. op'.pc # "generating"
  BY DEF NoOp
<1> QED BY <1>1, <1>3, <1>4, <1>5 DEF Started

LEMMA AttemptStarts ==
  ASSUME VariantsInv, UNCHANGED <<content, summaries, rows, recording>>, Unfinished = {},
         NEW section \in Sections, NEW selector \in Selectors, NEW regenerate \in BOOLEAN, NEW l \in Languages,
         NEW pc \in {"detecting", "generating"}, pc = "detecting" <=> l = NoLanguage,
         AttemptBegun(section, l), MaySummarize(section),
         op' = [pc |-> pc, section |-> section, selector |-> selector, regenerate |-> regenerate,
                language |-> l, attempt |-> Len(attempts) + 1]
  PROVE  Started(section)
<1>1. OpTyped' /\ OpHolds' /\ OpLive'
  BY OpBegins
<1>2. RowsTyped' /\ RowsExplained'
  BY BeginsWithoutEvidence
<1>3. PICK row : row = [section |-> section, language |-> l, outcome |-> "running"]
  OBVIOUS
<1>4. /\ attempts' \in Seq(AttemptRows) /\ AttemptsGrow
      /\ DOMAIN attempts' = DOMAIN attempts \cup {Len(attempts) + 1}
      /\ attempts'[Len(attempts) + 1] = row
  BY <1>3, InvParts, BeginsAttempt
<1>5. \A a \in DOMAIN attempts' \ DOMAIN attempts : attempts'[a].section = section
  BY <1>3, <1>4
<1>6. op'.pc = "generating" => l \in Languages \ {NoLanguage}
  OBVIOUS
<1> QED BY <1>1, <1>2, <1>4, <1>5, <1>6 DEF Started

LEMMA GenerationStarts ==
  ASSUME VariantsInv, UNCHANGED <<content, summaries, rows, recording>>, Unfinished = {},
         NEW section \in Sections, NEW selector \in Selectors, NEW regenerate \in BOOLEAN,
         MaySummarize(section), OutputLanguage(section, selector) # NoLanguage,
         StartGeneration(section, selector, regenerate)
  PROVE  Started(section)
<1>1. PICK l : l = OutputLanguage(section, selector)
  OBVIOUS
<1>2. l \in Languages /\ l # NoLanguage
  BY <1>1, InvParts, SectionsAreOfTranscripts, OutputLanguageIs
<1>3. CASE UNCHANGED attempts /\ op' = NoOp
  BY <1>3, NothingStarts
<1>4. CASE /\ AttemptBegun(section, l)
           /\ op' = [pc |-> "generating", section |-> section, selector |-> selector,
                     regenerate |-> regenerate, language |-> l, attempt |-> Len(attempts) + 1]
  BY <1>2, <1>4, AttemptStarts
<1> QED BY <1>1, <1>3, <1>4 DEF StartGeneration, BeginAttempt, AttemptBegun

LEMMA SummaryStarts ==
  ASSUME VariantsInv, UNCHANGED <<content, summaries, rows, recording>>, Unfinished = {},
         NEW section \in Sections, NEW selector \in Selectors, NEW regenerate \in BOOLEAN,
         StartSummary(section, selector, regenerate)
  PROVE  MaySummarize(section) /\ Started(section)
<1>1. MaySummarize(section)
  BY DEF StartSummary
<1>2. CASE OutputLanguage(section, selector) # NoLanguage
  <2>1. StartGeneration(section, selector, regenerate)
    BY <1>2 DEF StartSummary
  <2> QED BY <1>1, <1>2, <2>1, GenerationStarts
<1>3. CASE OutputLanguage(section, selector) = NoLanguage
  <2>1. /\ AttemptBegun(section, NoLanguage)
        /\ op' = [pc |-> "detecting", section |-> section, selector |-> selector,
                  regenerate |-> regenerate, language |-> NoLanguage, attempt |-> Len(attempts) + 1]
    BY <1>3 DEF StartSummary, StartDetection, BeginAttempt, AttemptBegun
  <2>2. NoLanguage \in Languages
    BY DEF Languages
  <2> QED BY <1>1, <2>1, <2>2, AttemptStarts
<1> QED BY <1>1, <1>2, <1>3

-----------------------------------------------------------------------------
(* The actions: an operation that holds the lock *)

LEMMA KnownOriginal ==
  ASSUME NEW section, NEW selector \in Selectors, transcripts[section.transcript].language \in SourceLanguages
  PROVE  OutputLanguage(section, selector) # NoLanguage
<1>1. PICK t, l : t = transcripts[section.transcript] /\ l = t.language /\ l \in SourceLanguages
  OBVIOUS
<1>2. l # NoLanguage /\ canonicalize_language(l) = l
  BY <1>1, Constants
<1>3. output_language_for_source(l) # NoLanguage
  BY <1>2, PolicyLanguages DEF output_language_for_source
<1>4. resolve_default_language(t, decisions) # NoLanguage
  BY DefaultIsAnOutput, PolicyLanguages
<1>5. resolve_output_language(t, decisions, selector) # NoLanguage
  BY <1>1, <1>3, <1>4, PolicyLanguages DEF resolve_output_language, Selectors
<1> QED BY <1>1, <1>5 DEF OutputLanguage

\* The attempt of an operation is the only unfinished one.
LEMMA AttemptOfOp ==
  ASSUME VariantsInv, op.pc \in {"detecting", "generating"}, NEW outcome \in {"success"} \cup FailureOutcomes,
         Finish(op.attempt, outcome)
  PROVE  /\ AttemptClosed(op.attempt, outcome)
         /\ attempts[op.attempt].section = op.section /\ attempts[op.attempt].language = op.language
         /\ attempts' \in Seq(AttemptRows) /\ AttemptsGrow /\ Unfinished' = {}
<1>1. /\ op.attempt \in Unfinished
      /\ attempts[op.attempt] = [section |-> op.section, language |-> op.language, outcome |-> "running"]
  BY InvParts DEF OpHolds
<1>2. AttemptClosed(op.attempt, outcome)
  BY <1>1 DEF AttemptClosed, Finish
<1>3. Unfinished = {op.attempt}
  BY <1>1, InvParts DEF OpTyped
<1>4. attempts[op.attempt].section = op.section /\ attempts[op.attempt].language = op.language
  BY <1>1
<1> QED BY <1>2, <1>3, <1>4, InvParts, ClosesAttempt

LEMMA RecoverKeepsInv ==
  ASSUME VariantsInv, Recover
  PROVE  VariantsInv'
<1>1. UNCHANGED <<content, summaries, op, form>> /\ op.pc = "idle"
  BY DEF Recover
<1>2. PICK a \in Unfinished :
        /\ attempts' = [attempts EXCEPT ![a].outcome = "interrupted"]
        /\ \/ /\ is_valid_output_identity(attempts[a].language)
              /\ Reconcile(attempts[a].section, attempts[a].language, attempts', summaries, transcripts)
           \/ ~is_valid_output_identity(attempts[a].language) /\ UNCHANGED <<rows, recording>>
  BY DEF Recover
<1>3. AttemptClosed(a, "interrupted")
  BY <1>2 DEF AttemptClosed, FailureOutcomes
<1>4. RowsTyped' /\ RowsExplained'
  BY <1>1, <1>2, <1>3, ClosesAndReconciles, ClosesWithoutEvidence
<1>5. ContentTyped' /\ VersionsListed' /\ ContentGrows
  BY <1>1, InvParts, ContentKept
<1>6. attempts' \in Seq(AttemptRows) /\ AttemptsGrow /\ Unfinished' \subseteq Unfinished
      /\ DOMAIN attempts' = DOMAIN attempts
  BY <1>3, InvParts, ClosesAttempt
<1>7. AttemptsTyped'
  BY <1>5, <1>6, AttemptsTypedKept
<1>8. OpTyped' /\ OpHolds' /\ OpLive'
  BY <1>1, <1>5, <1>6, InvParts, OpStaysIdle
<1>9. FormHolds'
  BY <1>1, <1>5, <1>6, <1>7, InvParts, FormKept
<1> QED BY <1>1, <1>4, <1>5, <1>6, <1>8, <1>9, InvFromParts

\* A step of an operation, all of whose other effects are known.
LEMMA StartedInv ==
  ASSUME VariantsInv, UNCHANGED <<content, summaries>>, NEW section, Started(section), FormHolds'
  PROVE  VariantsInv'
<1>1. ContentTyped' /\ VersionsListed' /\ ContentGrows
  BY InvParts, ContentKept
<1> QED BY <1>1, InvFromParts DEF Started

LEMMA StartedFormKept ==
  ASSUME VariantsInv, UNCHANGED <<content, form>>, NEW section, Started(section)
  PROVE  FormHolds'
<1>1. ContentGrows
  BY InvParts, ContentKept
<1>2. AttemptsTyped' /\ AttemptsGrow
  BY <1>1, AttemptsTypedKept DEF Started
<1> QED BY <1>1, <1>2, InvParts, FormKept

LEMMA SummarizeRecordingKeepsInv ==
  ASSUME VariantsInv, NEW selector \in Requested, NEW regenerate \in BOOLEAN, SummarizeRecording(selector, regenerate)
  PROVE  VariantsInv'
<1>1. /\ Unfinished = {} /\ UNCHANGED <<content, summaries, rows, recording, form>>
      /\ StartSummary(Whole(ActiveTranscript), selector, regenerate)
  BY DEF SummarizeRecording, Locked
<1>2. PICK section \in Sections : section = Whole(ActiveTranscript)
  BY InvParts, FirstSection
<1>3. Started(section)
  BY <1>1, <1>2, Constants, SummaryStarts
<1> QED BY <1>1, <1>3, StartedFormKept, StartedInv

LEMMA GenerateKeepsInv ==
  ASSUME VariantsInv, Generate
  PROVE  VariantsInv'
<1>1. /\ op.pc = "resolved" /\ UNCHANGED <<content, summaries, rows, recording, form>>
      /\ StartGeneration(op.section, op.selector, op.regenerate)
  BY DEF Generate
<1>2. PICK section \in Sections, selector \in Selectors, regenerate \in BOOLEAN :
        section = op.section /\ selector = op.selector /\ regenerate = op.regenerate
  <2>1. op \in Operations
    BY InvParts DEF OpTyped, Operations
  <2> QED BY <2>1 DEF Operations
<1>3. Unfinished = {} /\ transcripts[section.transcript].language \in SourceLanguages
  BY <1>1, <1>2, InvParts DEF OpHolds
<1>4. MaySummarize(section)
  BY <1>1, <1>2, InvParts DEF OpLive, Detection
<1>5. OutputLanguage(section, selector) # NoLanguage
  BY <1>3, KnownOriginal
<1>6. StartGeneration(section, selector, regenerate)
  BY <1>1, <1>2
<1>7. Started(section)
  BY <1>1, <1>3, <1>4, <1>5, <1>6, GenerationStarts
<1> QED BY <1>1, <1>7, StartedFormKept, StartedInv

\* An operation ends, with its attempt or without one.
LEMMA OpEndsInv ==
  ASSUME VariantsInv, UNCHANGED <<summaries, form>>, op' = NoOp, ContentGrows, ContentTyped', VersionsListed',
         attempts' \in Seq(AttemptRows), AttemptsGrow, Unfinished' \subseteq Unfinished,
         RowsTyped', RowsExplained'
  PROVE  VariantsInv'
<1>1. \A a, b \in Unfinished' : a = b
  BY InvParts DEF OpTyped
<1>2. OpTyped' /\ OpHolds' /\ OpLive'
  BY <1>1, OpEnds
<1>3. AttemptsTyped'
  BY AttemptsTypedKept
<1>4. FormHolds'
  BY <1>3, InvParts, FormKept
<1> QED BY <1>2, <1>4, InvFromParts

LEMMA OpAborts ==
  ASSUME VariantsInv, UNCHANGED <<content, results, form>>, op' = NoOp
  PROVE  VariantsInv'
<1>1. UNCHANGED <<attempts, summaries, rows, recording>>
  BY DEF results
<1>2. ContentTyped' /\ VersionsListed' /\ ContentGrows
  BY InvParts, ContentKept
<1>3. attempts' \in Seq(AttemptRows) /\ AttemptsGrow /\ UNCHANGED Unfinished
  BY <1>1, InvParts, AttemptsUnchanged
<1>4. RowsTyped' /\ RowsExplained'
  BY <1>1, <1>2, InvParts, RowsKept DEF RowsTyped
<1> QED BY <1>1, <1>2, <1>3, <1>4, OpEndsInv

LEMMA DetectionFailsKeepsInv ==
  ASSUME VariantsInv, DetectionFails
  PROVE  VariantsInv'
<1>1. /\ op.pc = "detecting" /\ Finish(op.attempt, "failed") /\ op' = NoOp
      /\ UNCHANGED <<content, summaries, rows, recording, form>>
  BY DEF DetectionFails
<1>2. /\ AttemptClosed(op.attempt, "failed") /\ attempts[op.attempt].language = NoLanguage
      /\ attempts' \in Seq(AttemptRows) /\ AttemptsGrow /\ Unfinished' = {}
  BY <1>1, InvParts, AttemptOfOp DEF OpHolds, FailureOutcomes
<1>3. RowsTyped' /\ RowsExplained'
  BY <1>1, <1>2, PolicyLanguages, ClosesWithoutEvidence
<1>4. ContentTyped' /\ VersionsListed' /\ ContentGrows
  BY <1>1, InvParts, ContentKept
<1> QED BY <1>1, <1>2, <1>3, <1>4, OpEndsInv

LEMMA GenerationFailsKeepsInv ==
  ASSUME VariantsInv, GenerationFails
  PROVE  VariantsInv'
<1>1. /\ op.pc = "generating" /\ is_valid_output_identity(op.language)
      /\ Finish(op.attempt, "failed") /\ op' = NoOp
      /\ Reconcile(op.section, op.language, attempts', summaries, transcripts)
      /\ UNCHANGED <<content, summaries, form>>
  BY DEF GenerationFails
<1>2. /\ AttemptClosed(op.attempt, "failed")
      /\ attempts[op.attempt].section = op.section /\ attempts[op.attempt].language = op.language
      /\ attempts' \in Seq(AttemptRows) /\ AttemptsGrow /\ Unfinished' = {}
  BY <1>1, AttemptOfOp DEF FailureOutcomes
<1>3. RowsTyped' /\ RowsExplained'
  BY <1>1, <1>2, ClosesAndReconciles
<1>4. ContentTyped' /\ VersionsListed' /\ ContentGrows
  BY <1>1, InvParts, ContentKept
<1> QED BY <1>1, <1>2, <1>3, <1>4, OpEndsInv

LEMMA DetectionSucceedsKeepsInv ==
  ASSUME VariantsInv, NEW l \in SourceLanguages, DetectionSucceeds(l)
  PROVE  VariantsInv'
<1>1. /\ op.pc = "detecting" /\ Finish(op.attempt, "success")
      /\ op' = [op EXCEPT !.pc = "detected", !.language = l]
      /\ UNCHANGED <<content, summaries, rows, recording, form>>
  BY DEF DetectionSucceeds
<1>2. /\ AttemptClosed(op.attempt, "success")
      /\ attempts' \in Seq(AttemptRows) /\ AttemptsGrow /\ Unfinished' = {}
  BY <1>1, AttemptOfOp
<1>3. RowsTyped' /\ RowsExplained'
  BY <1>1, <1>2, ClosesWithoutEvidence
<1>4. /\ ContentTyped' /\ VersionsListed' /\ ContentGrows /\ UNCHANGED Sections
      /\ MaySummarize(op.section)'
  <2>1. \A section : MaySummarize(section) => MaySummarize(section)'
    BY <1>1, InvParts, ContentKept
  <2>2. MaySummarize(op.section)
    BY <1>1, InvParts DEF OpLive, Detection
  <2>3. UNCHANGED op.section
    BY <1>1, InvParts DEF OpTyped
  <2>4. PICK section : section = op.section
    OBVIOUS
  <2>5. MaySummarize(section)'
    BY <2>1, <2>2, <2>4
  <2> QED BY <1>1, <2>3, <2>4, <2>5, InvParts, ContentKept
<1>5. op' \in Operations' /\ op'.pc = "detected" /\ op'.language = l /\ op'.section = op.section
  <2>1. op \in Operations /\ l \in Languages
    BY InvParts DEF OpTyped, Operations, Languages
  <2>2. Operations \subseteq Operations'
    BY <1>2, <1>4 DEF Operations, AttemptsGrow
  <2>3. op' \in Operations /\ op'.pc = "detected" /\ op'.language = l /\ op'.section = op.section
    BY <1>1, <2>1 DEF Operations
  <2> QED BY <2>2, <2>3
<1>6. OpTyped'
  BY <1>2, <1>5 DEF OpTyped, Operations
<1>7. OpHolds'
  BY <1>2, <1>5 DEF OpHolds
<1>8. OpLive'
  BY <1>4 DEF OpLive
<1>9. FormHolds'
  BY <1>1, <1>2, <1>4, InvParts, AttemptsTypedKept, FormKept
<1> QED BY <1>1, <1>2, <1>3, <1>4, <1>6, <1>7, <1>8, <1>9, InvFromParts

\* The summary that is stored: the rows after it, and before.
Stored(section, l, n, old) ==
  /\ DOMAIN old = 1 .. n /\ Len(old) = n
  /\ \A i \in DOMAIN old : /\ old[i].section = summaries[i].section /\ old[i].language = summaries[i].language
                           /\ old[i].attempt = summaries[i].attempt
                           /\ old[i].active = IF summaries[i].section = section /\ summaries[i].language = l
                                              THEN FALSE ELSE summaries[i].active

LEMMA SupersededRows ==
  ASSUME SummariesTyped, NEW section, NEW l
  PROVE  LET old == Superseded(section, l)
         IN old \in Seq(SummaryRows) /\ Stored(section, l, Len(summaries), old)
<1> DEFINE old == Superseded(section, l)
           New(i) == IF summaries[i].section = section /\ summaries[i].language = l
                     THEN [summaries[i] EXCEPT !.active = FALSE] ELSE summaries[i]
<1>1. PICK n \in Nat : n = Len(summaries) /\ DOMAIN summaries = 1 .. n
  BY SummariesList
<1>2. old = [i \in 1 .. n |-> New(i)]
  BY <1>1 DEF Superseded
<1>3. ASSUME NEW i \in 1 .. n
      PROVE  /\ New(i) \in SummaryRows
             /\ New(i).section = summaries[i].section /\ New(i).language = summaries[i].language
             /\ New(i).attempt = summaries[i].attempt
             /\ New(i).active = IF summaries[i].section = section /\ summaries[i].language = l
                                THEN FALSE ELSE summaries[i].active
  <2>1. PICK row \in SummaryRows : row = summaries[i]
    BY <1>1, SummariesList
  <2>2. PICK new : new = [row EXCEPT !.active = FALSE]
    OBVIOUS
  <2>3. /\ new \in SummaryRows /\ new.section = row.section /\ new.language = row.language
        /\ new.attempt = row.attempt /\ new.active = FALSE
    BY <2>1, <2>2 DEF SummaryRows
  <2> QED BY <2>1, <2>2, <2>3
<1> HIDE DEF New, old
<1>4. old \in Seq(SummaryRows) /\ DOMAIN old = 1 .. n /\ Len(old) = n
  <2>1. old \in [1 .. n -> SummaryRows]
    BY <1>2, <1>3
  <2> QED BY <2>1, FunctionIsSequence
<1>5. Stored(section, l, n, old)
  BY <1>1, <1>2, <1>3, <1>4 DEF Stored
<1> QED BY <1>1, <1>4, <1>5 DEF old

LEMMA PersistSummaryKeepsInv ==
  ASSUME VariantsInv, PersistSummary
  PROVE  VariantsInv'
<1>1. /\ op.pc = "generating" /\ is_valid_output_identity(op.language) /\ MaySummarize(op.section)
      /\ Finish(op.attempt, "success") /\ UNCHANGED <<content, form>>
      /\ summaries' = Append(Superseded(op.section, op.language),
                             [section |-> op.section, language |-> op.language,
                              attempt |-> op.attempt, active |-> TRUE])
      /\ Reconcile(op.section, op.language, attempts', summaries', transcripts)
      /\ op' \in {[op EXCEPT !.pc = "persisted"], NoOp}
  BY DEF PersistSummary
<1>2. PICK section \in Sections, l \in OutputLanguages : section = op.section /\ l = op.language
  <2>1. op \in Operations
    BY InvParts DEF OpTyped, Operations
  <2> QED BY <1>1, <2>1, OutputsAreValid DEF Operations
<1>3. PICK a : a = op.attempt
  OBVIOUS
<1>4. /\ AttemptClosed(a, "success") /\ a = Len(attempts) /\ a \in DOMAIN attempts
      /\ attempts[a].outcome = "running"
      /\ attempts' \in Seq(AttemptRows) /\ AttemptsGrow /\ Unfinished' = {} /\ DOMAIN attempts' = DOMAIN attempts
      /\ attempts'[a].outcome = "success"
  <2>1. /\ AttemptClosed(a, "success")
        /\ attempts' \in Seq(AttemptRows) /\ AttemptsGrow /\ Unfinished' = {}
    BY <1>1, <1>3, AttemptOfOp
  <2>2. a = Len(attempts)
    BY <1>1, <1>3, InvParts DEF OpHolds
  <2>3. /\ DOMAIN attempts' = DOMAIN attempts /\ a \in DOMAIN attempts /\ attempts[a].outcome = "running"
        /\ attempts'[a] = [attempts[a] EXCEPT !.outcome = "success"]
    BY <2>1, InvParts, ClosesAttempt
  <2>4. attempts[a] \in AttemptRows
    BY <2>3, InvParts, AttemptsList
  <2>5. attempts'[a].outcome = "success"
    BY <2>3, <2>4 DEF AttemptRows
  <2> QED BY <2>1, <2>2, <2>3, <2>5
<1>5. ContentTyped' /\ VersionsListed' /\ ContentGrows /\ UNCHANGED Sections
  BY <1>1, InvParts, ContentKept
<1>6. AttemptsTyped'
  BY <1>4, <1>5, AttemptsTypedKept
<1>7. PICK n \in Nat : n = Len(summaries) /\ DOMAIN summaries = 1 .. n
  BY InvParts, SummariesList
<1>8. PICK old \in Seq(SummaryRows) : old = Superseded(section, l) /\ Stored(section, l, n, old)
  BY <1>7, InvParts, SupersededRows
<1>9. PICK new : new = [section |-> section, language |-> l, attempt |-> a, active |-> TRUE]
  OBVIOUS
<1>10. /\ new \in SummaryRows /\ new.section = section /\ new.language = l /\ new.attempt = a
       /\ new.active = TRUE
  BY <1>4, <1>9 DEF SummaryRows
<1>11. summaries' = Append(old, new)
  BY <1>1, <1>2, <1>3, <1>8, <1>9
<1>12. /\ summaries' \in Seq(SummaryRows) /\ DOMAIN summaries' = 1 .. n + 1
       /\ summaries'[n + 1] = new /\ \A i \in 1 .. n : summaries'[i] = old[i]
  BY <1>8, <1>10, <1>11 DEF Stored
<1>13. /\ \A i \in 1 .. n :
            /\ summaries'[i].section = summaries[i].section /\ summaries'[i].language = summaries[i].language
            /\ summaries'[i].attempt = summaries[i].attempt
            /\ summaries'[i].active = IF summaries[i].section = section /\ summaries[i].language = l
                                      THEN FALSE ELSE summaries[i].active
       /\ summaries'[n + 1].section = section /\ summaries'[n + 1].language = l
       /\ summaries'[n + 1].attempt = a /\ summaries'[n + 1].active = TRUE
  <2>1. \A i \in 1 .. n :
          /\ old[i].section = summaries[i].section /\ old[i].language = summaries[i].language
          /\ old[i].attempt = summaries[i].attempt
          /\ old[i].active = IF summaries[i].section = section /\ summaries[i].language = l
                             THEN FALSE ELSE summaries[i].active
    BY <1>8 DEF Stored
  <2>2. \A i \in 1 .. n : summaries'[i] = old[i]
    BY <1>12
  <2>3. \A i \in 1 .. n :
          /\ summaries'[i].section = summaries[i].section /\ summaries'[i].language = summaries[i].language
          /\ summaries'[i].attempt = summaries[i].attempt
          /\ summaries'[i].active = IF summaries[i].section = section /\ summaries[i].language = l
                                    THEN FALSE ELSE summaries[i].active
    BY <2>1, <2>2
  <2>4. /\ summaries'[n + 1].section = section /\ summaries'[n + 1].language = l
        /\ summaries'[n + 1].attempt = a /\ summaries'[n + 1].active = TRUE
    BY <1>10, <1>12
  <2> QED BY <2>3, <2>4
<1>14. \A i \in 1 .. n : /\ summaries[i].attempt \in DOMAIN attempts
                         /\ attempts[summaries[i].attempt].outcome = "success"
  BY <1>7, InvParts, SummariesList
<1>15. SummariesTyped'
  <2>1. SummaryRows \subseteq SummaryRows'
    BY <1>4, <1>5 DEF SummaryRows
  <2>2. summaries' \in Seq(SummaryRows')
    BY <1>12, <2>1, WiderSequence
  <2>3. ASSUME NEW i \in 1 .. n + 1
        PROVE  attempts'[summaries'[i].attempt].outcome = "success"
    <3>1. CASE i = n + 1
      BY <1>4, <1>13, <3>1
    <3>2. CASE i \in 1 .. n
      <4>1. attempts'[summaries[i].attempt].outcome = "success"
        BY <1>4, <1>14, <3>2 DEF AttemptsGrow
      <4> QED BY <1>13, <3>2, <4>1
    <3> QED BY <1>7, <3>1, <3>2
  <2> QED BY <1>12, <2>2, <2>3 DEF SummariesTyped, SummaryRows
<1>16. SummariesInOrder'
  <2>1. ASSUME NEW i \in 1 .. n + 1, NEW j \in 1 .. n + 1, i < j
        PROVE  summaries'[i].attempt < summaries'[j].attempt
    <3>0. i \in 1 .. n
      BY <1>7, <2>1
    <3>1. i \in 1 .. n /\ summaries'[i].attempt = summaries[i].attempt
      BY <1>13, <3>0
    <3>2. CASE j \in 1 .. n
      <4>1. summaries[i].attempt < summaries[j].attempt
        BY <1>7, <2>1, <3>1, <3>2, InvParts DEF SummariesInOrder
      <4> QED BY <1>13, <3>1, <3>2, <4>1
    <3>3. CASE j = n + 1
      <4>1. summaries[i].attempt \in 1 .. Len(attempts) /\ Len(attempts) \in Nat
        BY <1>14, <3>1, InvParts, AttemptsList
      <4>2. summaries[i].attempt # a
        BY <1>4, <1>14, <3>1
      <4>3. summaries[i].attempt < a
        BY <1>4, <4>1, <4>2
      <4> QED BY <1>13, <3>1, <3>3, <4>3
    <3> QED BY <1>7, <3>2, <3>3
  <2> QED BY <1>12, <2>1 DEF SummariesInOrder
<1>17. NewestSummaryIsActive'
  <2> DEFINE Same(i, j) == summaries'[j].section = summaries'[i].section /\ summaries'[j].language = summaries'[i].language
  <2>1. ASSUME NEW i \in 1 .. n + 1
        PROVE  summaries'[i].active <=> \A j \in 1 .. n + 1 : Same(i, j) => j <= i
    <3>1. CASE i = n + 1
      BY <1>7, <1>13, <3>1
    <3>2. CASE i \in 1 .. n /\ summaries[i].section = section /\ summaries[i].language = l
      <4>1. ~ summaries'[i].active
        BY <1>13, <3>2
      <4>2. Same(i, n + 1)
        BY <1>13, <3>2
      <4>3. n + 1 \in 1 .. n + 1 /\ ~ (n + 1 <= i)
        BY <1>7, <3>2
      <4> HIDE DEF Same
      <4> QED BY <4>1, <4>2, <4>3
    <3>3. CASE i \in 1 .. n /\ ~ (summaries[i].section = section /\ summaries[i].language = l)
      <4>1. summaries'[i].active = summaries[i].active
        BY <1>13, <3>3
      <4>2. ~ Same(i, n + 1)
        BY <1>13, <3>3
      <4>3. summaries[i].active <=>
              \A j \in 1 .. n : summaries[j].section = summaries[i].section /\ summaries[j].language = summaries[i].language
                                  => j <= i
        BY <1>7, <3>3, InvParts DEF NewestSummaryIsActive
      <4>4. \A j \in 1 .. n : Same(i, j) <=> summaries[j].section = summaries[i].section
                                             /\ summaries[j].language = summaries[i].language
        BY <1>13, <3>3
      <4>5. \A j \in 1 .. n + 1 : j \in 1 .. n \/ j = n + 1
        BY <1>7
      <4>6. \A j \in 1 .. n : j \in 1 .. n + 1
        BY <1>7
      <4> HIDE DEF Same
      <4> QED BY <4>1, <4>2, <4>3, <4>4, <4>5, <4>6
    <3> QED BY <1>7, <3>1, <3>2, <3>3
  <2> QED BY <1>12, <2>1 DEF NewestSummaryIsActive
<1>18. \A s : \A k \in OutputLanguages : s # section \/ k # l => SameEvidence(s, k)
  <2> SUFFICES ASSUME NEW s, NEW k \in OutputLanguages, s # section \/ k # l
               PROVE  SameEvidence(s, k)
    OBVIOUS
  <2>1. FailuresOf(s, k, attempts') = FailuresOf(s, k, attempts)
    BY <1>4, InvParts, ClosedIsOneScopesEvidence
  <2>2. OfScope(s, k, summaries') = OfScope(s, k, summaries)
    <3>1. ASSUME NEW i \in 1 .. n
          PROVE  i \in OfScope(s, k, summaries') <=> i \in OfScope(s, k, summaries)
      <4>1. i \in DOMAIN summaries /\ i \in DOMAIN summaries'
        BY <1>7, <1>12
      <4>2. summaries'[i].section = summaries[i].section /\ summaries'[i].language = summaries[i].language
        BY <1>13
      <4> QED BY <4>1, <4>2 DEF OfScope
    <3>2. n + 1 \notin OfScope(s, k, summaries')
      BY <1>13 DEF OfScope
    <3>3. OfScope(s, k, summaries') \subseteq 1 .. n + 1 /\ OfScope(s, k, summaries) \subseteq 1 .. n
      BY <1>7, <1>12 DEF OfScope
    <3>4. \A i \in 1 .. n + 1 : i \in 1 .. n \/ i = n + 1
      BY <1>7
    <3>5. n + 1 \notin 1 .. n
      BY <1>7
    <3>6. \A i : i \in OfScope(s, k, summaries') <=> i \in OfScope(s, k, summaries)
      BY <3>1, <3>2, <3>3, <3>4, <3>5
    <3> QED BY <3>6 DEF OfScope
  <2>3. \A i \in OfScope(s, k, summaries) : summaries'[i].attempt = summaries[i].attempt
    BY <1>7, <1>13 DEF OfScope
  <2> QED BY <2>1, <2>2, <2>3 DEF SameEvidence
<1>19. RowsTyped' /\ RowsExplained'
  <2>1. Reconcile(section, l, attempts', summaries', transcripts)
    BY <1>1, <1>2
  <2> QED BY <1>5, <1>6, <1>15, <1>16, <1>17, <1>18, <2>1, Reconciles
<1>20. FormHolds'
  BY <1>1, <1>4, <1>5, <1>6, InvParts, FormKept
<1>21. OpTyped' /\ OpHolds' /\ OpLive'
  <2>1. CASE op' = NoOp
    BY <1>4, <1>5, <2>1, OpEnds
  <2>2. CASE op' = [op EXCEPT !.pc = "persisted"]
    <3>1. op \in Operations
      BY InvParts DEF OpTyped, Operations
    <3>2. Operations \subseteq Operations'
      BY <1>4, <1>5 DEF Operations
    <3>3. op' \in Operations /\ op'.pc = "persisted"
      BY <2>2, <3>1 DEF Operations
    <3> QED BY <1>4, <3>2, <3>3 DEF OpTyped, Operations, OpHolds, OpLive, Detection
  <2> QED BY <1>1, <2>1, <2>2
<1> QED BY <1>5, <1>6, <1>15, <1>16, <1>17, <1>19, <1>20, <1>21 DEF VariantsInv, TypeOK

-----------------------------------------------------------------------------
(* The actions: what changes the evidence *)

TranscriptRows == [language : SourceLanguages \cup {NoLanguage}, by : {Unset, "user", "llm_detection"}]

LEMMA TranscriptsList ==
  ASSUME ContentTyped
  PROVE  transcripts \in Seq(TranscriptRows) /\ transcripts # <<>>
BY DEF ContentTyped, TranscriptRows

\* The language of a transcript, and nothing else.
LEMMA LanguageSet ==
  ASSUME ContentTyped, VersionsListed, NEW t \in DOMAIN transcripts, NEW l \in SourceLanguages,
         NEW by \in {"user", "llm_detection"}, SetLanguage(t, l, by),
         UNCHANGED <<decisions, versions, archived, archivedSections>>
  PROVE  /\ ContentTyped' /\ VersionsListed' /\ ContentGrows /\ UNCHANGED Sections
         /\ transcripts'[t].language = l
         /\ \A section : MaySummarize(section) => MaySummarize(section)'
<1>1. PICK row : row = [language |-> l, by |-> by]
  OBVIOUS
<1>2. row \in TranscriptRows /\ row.language = l
  BY <1>1 DEF TranscriptRows
<1>3. transcripts \in Seq(TranscriptRows) /\ transcripts # <<>> /\ transcripts' = [transcripts EXCEPT ![t] = row]
  BY <1>1, TranscriptsList DEF SetLanguage
<1>4. /\ transcripts' \in Seq(TranscriptRows) /\ transcripts' # <<>>
      /\ Len(transcripts') = Len(transcripts) /\ DOMAIN transcripts' = DOMAIN transcripts
      /\ transcripts'[t] = row
  BY <1>2, <1>3
<1>5. ContentGrows
  BY <1>4 DEF ContentGrows
<1>6. UNCHANGED <<Topics, Sections, ActiveTranscript>>
  BY <1>4 DEF Topics, TopicsOf, Topic, Sections, ActiveTranscript
<1>7. ContentTyped'
  BY <1>4, <1>6 DEF ContentTyped, TranscriptRows
<1>8. VersionsListed'
  BY <1>5, VersionsKept
<1>9. \A section : MaySummarize(section) => MaySummarize(section)'
  BY <1>6 DEF MaySummarize, RequireActiveTopicSection, TopicsOf, Topic
<1> QED BY <1>2, <1>4, <1>5, <1>6, <1>7, <1>8, <1>9

LEMMA StoreDetectedLanguageKeepsInv ==
  ASSUME VariantsInv, StoreDetectedLanguage
  PROVE  VariantsInv'
<1>1. /\ op.pc = "detected" /\ op' = [op EXCEPT !.pc = "resolved"]
      /\ SetLanguage(op.section.transcript, op.language, "llm_detection")
      /\ UNCHANGED <<decisions, versions, archived, archivedSections, attempts, summaries, rows, recording, form>>
  BY DEF StoreDetectedLanguage, results
<1>2. op \in Operations /\ op.section \in Sections
  <2>1. op \in Operations
    BY InvParts DEF OpTyped, Operations
  <2> QED BY <2>1 DEF Operations
<1>3. PICK section \in Sections, t \in DOMAIN transcripts, l \in SourceLanguages :
        section = op.section /\ t = section.transcript /\ l = op.language
  BY <1>1, <1>2, InvParts, SectionsAreOfTranscripts DEF OpHolds
<1>4. /\ ContentTyped' /\ VersionsListed' /\ ContentGrows /\ UNCHANGED Sections
      /\ transcripts'[t].language = l
      /\ \A s : MaySummarize(s) => MaySummarize(s)'
  <2>1. SetLanguage(t, l, "llm_detection")
    BY <1>1, <1>3
  <2> QED BY <1>1, <2>1, InvParts, LanguageSet
<1>5. attempts' \in Seq(AttemptRows) /\ AttemptsGrow /\ UNCHANGED Unfinished
  BY <1>1, InvParts, AttemptsUnchanged
<1>6. RowsTyped' /\ RowsExplained'
  BY <1>1, <1>4, InvParts, RowsKept DEF RowsTyped
<1>7. op' \in Operations' /\ op'.pc = "resolved" /\ op'.section = section
  <2>1. op' \in Operations /\ op'.pc = "resolved" /\ op'.section = section
    BY <1>1, <1>2, <1>3 DEF Operations
  <2>2. Operations \subseteq Operations'
    BY <1>1, <1>4 DEF Operations
  <2> QED BY <2>1, <2>2
<1>8. OpTyped'
  BY <1>5, <1>7, InvParts DEF OpTyped, Operations
<1>9. OpHolds'
  <2>1. Unfinished' = {}
    BY <1>1, <1>5, InvParts DEF OpHolds
  <2>2. transcripts'[op'.section.transcript].language \in SourceLanguages
    BY <1>3, <1>4, <1>7
  <2> QED BY <1>7, <2>1, <2>2 DEF OpHolds
<1>10. OpLive'
  <2>1. MaySummarize(section)
    BY <1>1, <1>3, InvParts DEF OpLive, Detection
  <2>2. MaySummarize(section)'
    BY <1>4, <2>1
  <2>3. MaySummarize(op.section)'
    BY <1>7, <2>2 DEF MaySummarize, RequireActiveTopicSection
  <2> QED BY <2>3 DEF OpLive
<1>11. FormHolds'
  BY <1>1, <1>4, <1>5, InvParts, AttemptsTypedKept, FormKept
<1> QED BY <1>1, <1>4, <1>5, <1>6, <1>8, <1>9, <1>10, <1>11, InvFromParts

LEMMA StoreReportedLanguageKeepsInv ==
  ASSUME VariantsInv, NEW l \in SourceLanguages \cup {NoLanguage}, StoreReportedLanguage(l)
  PROVE  VariantsInv'
<1>1. /\ op' = NoOp
      /\ UNCHANGED <<decisions, versions, archived, archivedSections, attempts, summaries, rows, recording, form>>
      /\ \/ UNCHANGED transcripts
         \/ l # NoLanguage /\ SetLanguage(op.section.transcript, l, "llm_detection")
  BY DEF StoreReportedLanguage, results
<1>2. CASE UNCHANGED transcripts
  BY <1>1, <1>2, OpAborts DEF content, results
<1>3. CASE l # NoLanguage /\ SetLanguage(op.section.transcript, l, "llm_detection")
  <2>1. PICK t \in DOMAIN transcripts : t = op.section.transcript
    <3>1. op \in Operations
      BY InvParts DEF OpTyped, Operations
    <3>2. op.section \in Sections
      BY <3>1 DEF Operations
    <3> QED BY <3>2, InvParts, SectionsAreOfTranscripts
  <2>2. ContentTyped' /\ VersionsListed' /\ ContentGrows
    <3>1. l \in SourceLanguages /\ SetLanguage(t, l, "llm_detection")
      BY <1>3, <2>1
    <3> QED BY <1>1, <3>1, InvParts, LanguageSet
  <2>3. attempts' \in Seq(AttemptRows) /\ AttemptsGrow /\ UNCHANGED Unfinished
    BY <1>1, InvParts, AttemptsUnchanged
  <2>4. RowsTyped' /\ RowsExplained'
    BY <1>1, <2>2, InvParts, RowsKept DEF RowsTyped
  <2> QED BY <1>1, <2>2, <2>3, <2>4, OpEndsInv
<1> QED BY <1>1, <1>2, <1>3

LEMMA SetTranscriptLanguageKeepsInv ==
  ASSUME VariantsInv, NEW l \in SourceLanguages, SetTranscriptLanguage(l)
  PROVE  VariantsInv'
<1>1. /\ op.pc = "idle" /\ SetLanguage(ActiveTranscript, l, "user")
      /\ Reconcile(Whole(ActiveTranscript), resolve_default_language(transcripts'[ActiveTranscript], decisions),
                   attempts, summaries, transcripts')
      /\ UNCHANGED <<decisions, versions, archived, archivedSections, attempts, summaries, op, form>>
  BY DEF SetTranscriptLanguage, Locked
<1>2. PICK t \in DOMAIN transcripts, section \in Sections : t = ActiveTranscript /\ section = Whole(ActiveTranscript)
  BY InvParts, FirstSection DEF ActiveTranscript
<1>3. ContentTyped' /\ VersionsListed' /\ ContentGrows
  <2>1. SetLanguage(t, l, "user")
    BY <1>1, <1>2
  <2> QED BY <1>1, <2>1, InvParts, LanguageSet
<1>4. PICK k \in OutputLanguages : k = resolve_default_language(transcripts'[ActiveTranscript], decisions)
  BY DefaultIsAnOutput DEF OutputLanguages
<1>5. Reconcile(section, k, attempts', summaries', transcripts')
  BY <1>1, <1>2, <1>4
<1>6. attempts' \in Seq(AttemptRows) /\ AttemptsGrow
  BY <1>1, InvParts, AttemptsUnchanged
<1>7. AttemptsTyped'
  BY <1>3, <1>6, AttemptsTypedKept
<1>8. SummariesTyped' /\ SummariesInOrder' /\ NewestSummaryIsActive'
  BY <1>1, <1>3, <1>6, InvParts, SummariesTypedKept, SummariesKept
<1>9. RowsTyped' /\ RowsExplained'
  BY <1>1, <1>3, <1>5, <1>7, <1>8, EvidenceKept, Reconciles
<1> QED BY <1>1, <1>3, <1>9, ContentStep

\* The decision, the archive, the archived sections: no text and no layout.
LEMMA SwitchStep ==
  ASSUME VariantsInv, op.pc = "idle", UNCHANGED <<transcripts, versions, results, op, form>>,
         decisions' \in RoutingDecisions, archived' \in BOOLEAN, archivedSections' \subseteq Topics
  PROVE  VariantsInv'
<1>1. UNCHANGED <<attempts, summaries, rows, recording>>
  BY DEF results
<1>2. ContentGrows /\ UNCHANGED <<Topics, Sections>>
  BY ContentKeptGrows
<1>3. ContentTyped'
  BY <1>2, InvParts DEF ContentTyped
<1>4. VersionsListed'
  BY <1>2, InvParts, VersionsKept
<1>5. RowsTyped' /\ RowsExplained'
  BY <1>1, <1>2, InvParts, RowsKept DEF RowsTyped
<1> QED BY <1>1, <1>2, <1>3, <1>4, <1>5, ContentStep

LEMMA RerouteKeepsInv ==
  ASSUME VariantsInv, NEW d \in RoutingDecisions, Reroute(d)
  PROVE  VariantsInv'
BY InvParts, SwitchStep DEF Reroute, Locked, ContentTyped

LEMMA ArchiveRecordingKeepsInv ==
  ASSUME VariantsInv, ArchiveRecording
  PROVE  VariantsInv'
BY InvParts, SwitchStep DEF ArchiveRecording, Locked, ContentTyped

LEMMA ArchiveSectionKeepsInv ==
  ASSUME VariantsInv, ArchiveSection
  PROVE  VariantsInv'
<1>1. /\ op.pc = "idle" /\ form.kind = "archive" /\ archivedSections' = archivedSections \cup {form.section}
      /\ UNCHANGED <<transcripts, decisions, versions, archived, results, op, form>>
  BY DEF ArchiveSection, Locked
<1>2. form.section \in Topics
  BY <1>1, InvParts DEF FormHolds
<1> QED BY <1>1, <1>2, InvParts, SwitchStep DEF ContentTyped

LEMMA RestoreSectionKeepsInv ==
  ASSUME VariantsInv, RestoreSection
  PROVE  VariantsInv'
<1>1. /\ op.pc = "idle" /\ archivedSections' = archivedSections \ {form.section}
      /\ UNCHANGED <<transcripts, decisions, versions, archived, results, op, form>>
  BY DEF RestoreSection, Locked
<1> QED BY <1>1, InvParts, SwitchStep DEF ContentTyped

LEMMA RetranscribeKeepsInv ==
  ASSUME VariantsInv, Retranscribe
  PROVE  VariantsInv'
<1>1. /\ op.pc = "idle" /\ transcripts' = Append(transcripts, NewTranscript) /\ recording' = NoSummary
      /\ UNCHANGED <<decisions, versions, archived, archivedSections, attempts, summaries, rows, op, form>>
  BY DEF Retranscribe, Locked
<1>2. PICK row \in TranscriptRows : row = NewTranscript
  BY DEF NewTranscript, TranscriptRows
<1>3. /\ transcripts' \in Seq(TranscriptRows) /\ transcripts' # <<>>
      /\ DOMAIN transcripts \subseteq DOMAIN transcripts'
  BY <1>1, <1>2, InvParts, TranscriptsList
<1>4. ContentGrows
  BY <1>1, <1>3 DEF ContentGrows
<1>5. ContentTyped'
  BY <1>1, <1>3, <1>4, InvParts, SectionsGrow DEF ContentTyped, TranscriptRows
<1>6. VersionsListed'
  BY <1>1, <1>4, InvParts, VersionsKept
<1>7. recording' \in States
  BY <1>1 DEF NoSummary, States, NoFailure
<1>8. RowsTyped' /\ RowsExplained'
  BY <1>1, <1>4, <1>7, RowsKept
<1> QED BY <1>1, <1>4, <1>5, <1>6, <1>8, ContentStep

-----------------------------------------------------------------------------
(* The actions: pages *)

LEMMA OpenEditorKeepsInv ==
  ASSUME VariantsInv, OpenEditor
  PROVE  VariantsInv'
<1>1. /\ UNCHANGED <<content, results, op>>
      /\ form' = [kind |-> "layout", fingerprint |-> segmentation_fingerprint,
                  seen |-> <<ActiveTranscript, CurrentLayout(ActiveTranscript)>>]
  BY DEF OpenEditor, Open
<1>2. PICK fingerprint, seen : /\ fingerprint = segmentation_fingerprint
                               /\ seen = <<ActiveTranscript, CurrentLayout(ActiveTranscript)>>
  OBVIOUS
<1>3. form'.kind = "layout" /\ form'.fingerprint = fingerprint /\ form'.seen = seen
  BY <1>1, <1>2
<1>4. /\ fingerprint.versions \subseteq DOMAIN versions
      /\ seen = <<fingerprint.transcript, {versions[v].layout : v \in fingerprint.versions}>>
  BY <1>2 DEF segmentation_fingerprint, CurrentLayout, ActiveVersions
<1>5. UNCHANGED versions
  BY <1>1 DEF content
<1>6. FormHolds'
  BY <1>3, <1>4, <1>5 DEF FormHolds
<1> QED BY <1>1, <1>6, PageStep

LEMMA OpenSectionKeepsInv ==
  ASSUME VariantsInv, NEW section \in Topics, NEW selector \in Requested, OpenSection(section, selector)
  PROVE  VariantsInv'
<1>1. /\ UNCHANGED <<content, results, op>>
      /\ form' = [kind |-> "summary", section |-> section, selector |-> selector,
                  mode |-> Mode(section, selector), fingerprint |-> section_state_fingerprint(section),
                  generations |-> 0]
  BY DEF OpenSection, Open
<1>2. PICK fingerprint, mode : fingerprint = section_state_fingerprint(section) /\ mode = Mode(section, selector)
  OBVIOUS
<1>3. form' = [kind |-> "summary", section |-> section, selector |-> selector,
               mode |-> mode, fingerprint |-> fingerprint, generations |-> 0]
  BY <1>1, <1>2
<1>4. UNCHANGED <<attempts, Topics>>
  BY <1>1, ContentKeptGrows DEF content, results
<1>5. /\ form' \in [kind : {"summary"}, section : Topics', selector : Requested, mode : {form'.mode},
                    fingerprint : {form'.fingerprint}, generations : 0 .. 1]
      /\ form'.kind = "summary" /\ form'.section = section /\ form'.fingerprint = fingerprint
      /\ form'.generations = 0
  BY <1>3, <1>4
<1>6. fingerprint.attempts.count = Cardinality(SectionAttempts(section))
  BY <1>2 DEF section_state_fingerprint, AttemptState
<1>7. /\ Cardinality(SectionAttempts(section)) \in Nat
      /\ SectionAttempts(form.section)' = SectionAttempts(section)
  <2>1. AttemptsGrow /\ AttemptsTyped /\ AttemptsTyped'
    BY <1>1, <1>4, InvParts, AttemptsUnchanged, ContentKept, AttemptsTypedKept
  <2> QED BY <1>4, <1>5, <2>1, SectionAttemptsGrow DEF SectionAttempts
<1>8. FormHolds'
  BY <1>4, <1>5, <1>6, <1>7 DEF FormHolds
<1> QED BY <1>1, <1>8, PageStep

LEMMA OpenArchiveKeepsInv ==
  ASSUME VariantsInv, NEW section \in Topics, OpenArchive(section)
  PROVE  VariantsInv'
<1>1. /\ UNCHANGED <<content, results, op>>
      /\ \/ form' = [kind |-> "restore", section |-> section, fingerprint |-> section_restore_fingerprint(section)]
         \/ form' = [kind |-> "archive", section |-> section, fingerprint |-> section_state_fingerprint(section)]
  BY DEF OpenArchive, Open
<1>2. form'.kind \in {"restore", "archive"} /\ form'.section = section
  BY <1>1
<1>3. UNCHANGED Topics
  BY <1>1, ContentKeptGrows DEF content
<1>4. FormHolds'
  BY <1>2, <1>3 DEF FormHolds
<1> QED BY <1>1, <1>4, PageStep

LEMMA ReplacedRows ==
  ASSUME VersionsListed, NEW t
  PROVE  /\ Replaced(t) \in Seq(VersionRows) /\ Len(Replaced(t)) = Len(versions)
         /\ \A v \in DOMAIN versions : /\ Replaced(t)[v].transcript = versions[v].transcript
                                       /\ Replaced(t)[v].layout = versions[v].layout
<1>1. PICK n \in Nat : n = Len(versions) /\ DOMAIN versions = 1 .. n
  BY DEF VersionsListed
<1>2. ASSUME NEW v \in 1 .. n
      PROVE  /\ [versions[v] EXCEPT !.active = versions[v].active /\ versions[v].transcript # t] \in VersionRows
             /\ Replaced(t)[v].transcript = versions[v].transcript
             /\ Replaced(t)[v].layout = versions[v].layout
  <2>1. PICK row \in VersionRows : row = versions[v]
    BY <1>1, ElementOf DEF VersionsListed
  <2>2. PICK b \in BOOLEAN : b = (row.active /\ row.transcript # t)
    OBVIOUS
  <2>3. PICK new : new = [row EXCEPT !.active = b]
    OBVIOUS
  <2>4. new \in VersionRows /\ new.transcript = row.transcript /\ new.layout = row.layout
    BY <2>1, <2>3 DEF VersionRows
  <2>5. [versions[v] EXCEPT !.active = versions[v].active /\ versions[v].transcript # t] = new
    BY <2>1, <2>2, <2>3
  <2>6. Replaced(t)[v] = new
    BY <1>1, <2>5 DEF Replaced
  <2> QED BY <2>1, <2>4, <2>5, <2>6
<1>3. Replaced(t) \in [1 .. n -> VersionRows]
  BY <1>1, <1>2 DEF Replaced
<1> QED BY <1>1, <1>2, <1>3, FunctionIsSequence

LEMMA SaveLayoutKeepsInv ==
  ASSUME VariantsInv, NEW payload \in Payloads, SaveLayout(payload)
  PROVE  VariantsInv'
<1>1. PICK layout : /\ op.pc = "idle"
                    /\ versions' = Append(Replaced(ActiveTranscript),
                                          [transcript |-> ActiveTranscript, active |-> TRUE, layout |-> layout])
                    /\ UNCHANGED <<transcripts, decisions, archived, archivedSections, results, op, form>>
  BY DEF SaveLayout, Locked
<1>2. PICK n \in Nat : n = Len(versions) /\ DOMAIN versions = 1 .. n
  BY InvParts DEF VersionsListed
<1>3. PICK old \in Seq(VersionRows) :
        /\ old = Replaced(ActiveTranscript) /\ Len(old) = n
        /\ \A v \in 1 .. n : old[v].transcript = versions[v].transcript /\ old[v].layout = versions[v].layout
  BY <1>2, InvParts, ReplacedRows
<1>4. PICK new : new = [transcript |-> ActiveTranscript, active |-> TRUE, layout |-> layout]
  OBVIOUS
<1>5. /\ DOMAIN versions' = 1 .. n + 1 /\ Len(versions') = n + 1
      /\ versions'[n + 1] = new /\ \A v \in 1 .. n : versions'[v] = old[v]
  <2>1. old \in Seq(VersionRows \cup {new}) /\ versions' = Append(old, new)
    BY <1>1, <1>3, <1>4
  <2> QED BY <1>3, <2>1
<1>6. ContentGrows
  BY <1>1, <1>2, <1>3, <1>5 DEF ContentGrows
<1>7. VersionsListed'
  <2>1. ASSUME NEW v \in 1 .. n + 1
        PROVE  versions'[v] \in VersionRows'
    <3>1. CASE v = n + 1
      <4>1. PICK T, L : T = DOMAIN transcripts' /\ L = {versions'[w].layout : w \in DOMAIN versions'}
        OBVIOUS
      <4>2. PICK t \in T : t = ActiveTranscript
        BY <1>1, <4>1, InvParts, FirstSection DEF ActiveTranscript
      <4>3. layout \in L
        <5>1. new.layout = layout /\ versions'[n + 1] = new /\ n + 1 \in DOMAIN versions'
          BY <1>2, <1>4, <1>5
        <5> QED BY <4>1, <5>1
      <4>4. new = [transcript |-> t, active |-> TRUE, layout |-> layout]
        BY <1>4, <4>2
      <4>5. new \in [transcript : T, active : BOOLEAN, layout : L]
        BY <4>3, <4>4
      <4>6. VersionRows' = [transcript : T, active : BOOLEAN, layout : L]
        BY <4>1 DEF VersionRows
      <4> QED BY <1>5, <3>1, <4>5, <4>6
    <3>2. CASE v \in 1 .. n
      <4>1. PICK row \in VersionRows : row = versions'[v]
        BY <1>3, <1>5, <3>2, ElementOf
      <4>2. row.layout \in {versions'[w].layout : w \in DOMAIN versions'}
        BY <1>5, <4>1
      <4> QED BY <1>1, <4>1, <4>2 DEF VersionRows
    <3> QED BY <1>2, <3>1, <3>2
  <2>2. versions' \in [1 .. n + 1 -> VersionRows']
    <3>1. versions' \in Seq(VersionRows \cup {new})
      BY <1>1, <1>3, <1>4
    <3> QED BY <1>5, <2>1, <3>1
  <2> QED BY <1>2, <2>2, FunctionIsSequence DEF VersionsListed
<1>8. ContentTyped'
  <2>1. \A v \in DOMAIN versions' : versions'[v].transcript \in DOMAIN transcripts' /\ versions'[v].active \in BOOLEAN
    <3>1. \A v \in DOMAIN versions' : versions'[v] \in VersionRows'
      BY <1>7, ElementOf DEF VersionsListed
    <3> QED BY <3>1 DEF VersionRows
  <2>2. archivedSections' \subseteq Topics'
    BY <1>1, <1>6, InvParts, SectionsGrow DEF ContentTyped
  <2> QED BY <1>1, <2>1, <2>2, InvParts DEF ContentTyped
<1>9. UNCHANGED <<attempts, summaries, rows, recording>>
  BY <1>1 DEF results
<1>10. RowsTyped' /\ RowsExplained'
  BY <1>6, <1>9, InvParts, RowsKept DEF RowsTyped
<1> QED BY <1>1, <1>6, <1>7, <1>8, <1>9, <1>10, ContentStep

\* A submission that begins a summary leaves the form with one attempt too few.
LEMMA SummarizeSectionStarts ==
  ASSUME VariantsInv, SummarizeSection
  PROVE  /\ form.section \in Topics /\ RequireActiveTopicSection(form.section)
         /\ MaySummarize(form.section) /\ Started(form.section)
         /\ form.generations = 0 /\ form.fingerprint.attempts.count = Cardinality(SectionAttempts(form.section))
<1>1. /\ Unfinished = {} /\ form.kind = "summary" /\ RequireActiveTopicSection(form.section)
      /\ form.fingerprint = section_state_fingerprint(form.section)
      /\ StartSummary(form.section, form.selector, form.mode = "regenerate")
      /\ UNCHANGED <<content, summaries, rows, recording>>
  BY DEF SummarizeSection, Locked
<1>2. /\ form.section \in Topics /\ form.selector \in Requested /\ form.generations \in Nat
      /\ form.fingerprint.attempts.count \in Nat
      /\ form.generations + form.fingerprint.attempts.count <= Cardinality(SectionAttempts(form.section))
  <2>1. /\ form \in [kind : {"summary"}, section : Topics, selector : Requested, mode : {form.mode},
                     fingerprint : {form.fingerprint}, generations : 0 .. 1]
        /\ form.fingerprint.attempts.count \in Nat
        /\ form.generations + form.fingerprint.attempts.count <= Cardinality(SectionAttempts(form.section))
    BY <1>1, InvParts DEF FormHolds
  <2> QED BY <2>1
<1>3. form.fingerprint.attempts.count = Cardinality(SectionAttempts(form.section))
  BY <1>1 DEF section_state_fingerprint, AttemptState
<1>4. form.generations = 0
  BY <1>2, <1>3
<1>5. MaySummarize(form.section) /\ Started(form.section)
  <2>1. PICK section \in Sections, selector \in Selectors : section = form.section /\ selector = form.selector
    BY <1>2, Constants DEF Sections
  <2>2. PICK regenerate \in BOOLEAN : regenerate = (form.mode = "regenerate")
    OBVIOUS
  <2>3. StartSummary(section, selector, regenerate)
    BY <1>1, <2>1, <2>2
  <2>4. MaySummarize(section) /\ Started(section)
    BY <1>1, <2>3, SummaryStarts
  <2> QED BY <2>1, <2>4
<1> QED BY <1>1, <1>2, <1>3, <1>4, <1>5

LEMMA SummarizeSectionKeepsInv ==
  ASSUME VariantsInv, SummarizeSection
  PROVE  VariantsInv'
<1>1. /\ form.kind = "summary" /\ UNCHANGED <<content, summaries, rows, recording>>
      /\ form' = IF op'.pc = "generating" THEN [form EXCEPT !.generations = @ + 1] ELSE form
  BY DEF SummarizeSection
<1>2. PICK section \in Topics : /\ section = form.section /\ Started(section) /\ form.generations = 0
                                /\ form.fingerprint.attempts.count = Cardinality(SectionAttempts(section))
  BY SummarizeSectionStarts
<1>3. FormHolds'
  <2>1. CASE op'.pc # "generating"
    BY <1>1, <1>2, <2>1, StartedFormKept
  <2>2. CASE op'.pc = "generating"
    <3>1. PICK l \in Languages \ {NoLanguage} : AttemptBegun(section, l)
      BY <1>2, <2>2 DEF Started
    <3>2. PICK count \in Nat : count = Cardinality(SectionAttempts(section))
      <4>1. AttemptsTyped /\ AttemptsTyped' /\ AttemptsGrow
        BY <1>1, <1>2, InvParts, ContentKept, AttemptsTypedKept DEF Started
      <4> QED BY <4>1, SectionAttemptsGrow
    <3>3. IsFiniteSet(SectionAttempts(section))
      <4>1. AttemptsTyped /\ AttemptsTyped' /\ AttemptsGrow
        BY <1>1, <1>2, InvParts, ContentKept, AttemptsTypedKept DEF Started
      <4> QED BY <4>1, SectionAttemptsGrow
    <3>4. PICK row : row = [section |-> section, language |-> l, outcome |-> "running"]
      OBVIOUS
    <3>5. /\ DOMAIN attempts' = DOMAIN attempts \cup {Len(attempts) + 1}
          /\ \A a \in DOMAIN attempts : attempts'[a] = attempts[a]
          /\ attempts'[Len(attempts) + 1] = row /\ row.section = section /\ row.language = l
          /\ Len(attempts) + 1 \notin DOMAIN attempts
      <4>1. section \in Sections /\ l \in Languages
        BY DEF Sections
      <4>2. Len(attempts) + 1 \notin DOMAIN attempts
        BY InvParts, AttemptsList
      <4> QED BY <3>1, <3>4, <4>1, <4>2, InvParts, BeginsAttempt
    <3>6. SectionAttempts(section)' = SectionAttempts(section) \cup {Len(attempts) + 1}
      BY <3>5 DEF SectionAttempts
    <3>7. Len(attempts) + 1 \notin SectionAttempts(section)
      BY <3>5 DEF SectionAttempts
    <3>8. Cardinality(SectionAttempts(section)') = count + 1
      BY <3>2, <3>3, <3>6, <3>7, FS_AddElement
    <3>9. /\ form' \in [kind : {"summary"}, section : Topics', selector : Requested, mode : {form'.mode},
                        fingerprint : {form'.fingerprint}, generations : 0 .. 1]
          /\ form'.generations = 1 /\ form'.section = section /\ form'.fingerprint = form.fingerprint
      <4>1. form \in [kind : {"summary"}, section : Topics, selector : Requested, mode : {form.mode},
                      fingerprint : {form.fingerprint}, generations : 0 .. 1]
        BY <1>1, InvParts DEF FormHolds
      <4>2. form' = [form EXCEPT !.generations = 1]
        BY <1>1, <1>2, <2>2, <4>1
      <4>3. UNCHANGED Topics
        BY <1>1, ContentKeptGrows DEF content
      <4> QED BY <1>2, <4>1, <4>2, <4>3
    <3>10. SectionAttempts(form.section)' = SectionAttempts(section)'
      BY <3>9 DEF SectionAttempts
    <3>11. /\ form'.fingerprint.attempts.count \in Nat
           /\ form'.generations + form'.fingerprint.attempts.count <= Cardinality(SectionAttempts(form.section)')
      BY <1>2, <3>2, <3>8, <3>9, <3>10
    <3>12. form'.kind = "summary" /\ form'.section \in Topics'
      BY <3>9
    <3> QED BY <3>9, <3>11, <3>12 DEF FormHolds
  <2> QED BY <2>1, <2>2
<1> QED BY <1>1, <1>2, <1>3, StartedInv


-----------------------------------------------------------------------------
(* The invariant *)

LEMMA InitInv == Init => VariantsInv
<1> SUFFICES ASSUME Init
             PROVE  VariantsInv
  OBVIOUS
<1>1. /\ transcripts = <<NewTranscript>> /\ decisions \in RoutingDecisions
      /\ archived = FALSE /\ archivedSections = {} /\ attempts = <<>> /\ summaries = <<>>
      /\ rows = [scope \in {} |-> {}] /\ recording = NoSummary /\ op = NoOp /\ form = NoForm
  BY DEF Init
<1>2. PICK first : first = NewTranscript
  OBVIOUS
<1>3. first \in [language : SourceLanguages \cup {NoLanguage}, by : {Unset, "user", "llm_detection"}]
  BY <1>2 DEF NewTranscript
<1>4. /\ transcripts \in Seq([language : SourceLanguages \cup {NoLanguage}, by : {Unset, "user", "llm_detection"}])
      /\ transcripts # <<>> /\ DOMAIN transcripts = {1}
  BY <1>1, <1>2, <1>3
<1>5. VersionsListed
  <2>1. CASE versions = <<>>
    BY <2>1 DEF VersionsListed
  <2>2. CASE versions # <<>>
    <3>1. PICK layout : versions = <<[transcript |-> 1, active |-> TRUE, layout |-> layout]>>
      BY <2>2 DEF Init
    <3>2. PICK row : row = [transcript |-> 1, active |-> TRUE, layout |-> layout]
      OBVIOUS
    <3>3. versions = <<row>> /\ DOMAIN versions = {1} /\ versions[1] = row /\ row.layout = layout
      BY <3>1, <3>2
    <3>4. PICK T, L : T = DOMAIN transcripts /\ L = {versions[v].layout : v \in DOMAIN versions}
      OBVIOUS
    <3>5. layout \in L /\ 1 \in T
      BY <1>4, <3>3, <3>4
    <3>6. row \in [transcript : T, active : BOOLEAN, layout : L]
      BY <3>2, <3>5
    <3>7. row \in VersionRows
      BY <3>4, <3>6 DEF VersionRows
    <3> QED BY <3>3, <3>7 DEF VersionsListed
  <2> QED BY <2>1, <2>2
<1>6. ContentTyped
  <2>1. \A v \in DOMAIN versions : versions[v] \in VersionRows
    BY <1>5, ElementOf DEF VersionsListed
  <2>2. \A v \in DOMAIN versions : versions[v].transcript \in DOMAIN transcripts /\ versions[v].active \in BOOLEAN
    BY <2>1 DEF VersionRows
  <2> QED BY <1>1, <1>4, <2>2 DEF ContentTyped
<1>7. DOMAIN attempts = {} /\ DOMAIN summaries = {} /\ DOMAIN rows = {}
  BY <1>1
<1>8. AttemptsTyped /\ SummariesTyped
  BY <1>1, <1>7 DEF AttemptsTyped, SummariesTyped
<1>9. RowsTyped
  <2>1. recording \in States
    BY <1>1 DEF NoSummary, States, NoFailure
  <2> QED BY <1>1, <1>7, <2>1 DEF RowsTyped
<1>10. op \in Operations /\ op.pc = "idle"
  BY <1>1, <1>6, NoOpIsTyped DEF IdleTyped, NoOp
<1>11. OpTyped /\ OpHolds /\ OpLive
  <2>1. Unfinished = {}
    BY <1>7 DEF Unfinished
  <2> QED BY <1>10, <2>1 DEF OpTyped, Operations, OpHolds, OpLive, Detection
<1>12. SummariesInOrder /\ NewestSummaryIsActive
  BY <1>7 DEF SummariesInOrder, NewestSummaryIsActive
<1>13. FormHolds
  BY <1>1 DEF FormHolds, NoForm
<1>14. RowsExplained
  BY <1>7 DEF RowsExplained
<1> QED BY <1>5, <1>6, <1>8, <1>9, <1>11, <1>12, <1>13, <1>14 DEF VariantsInv, TypeOK

LEMMA NextKeepsInv == VariantsInv /\ [Next]_vars => VariantsInv'
<1> SUFFICES ASSUME VariantsInv, [Next]_vars
             PROVE  VariantsInv'
  OBVIOUS
<1>1. CASE Recover
  BY <1>1, RecoverKeepsInv
<1>2. CASE \E selector \in Requested, regenerate \in BOOLEAN : SummarizeRecording(selector, regenerate)
  BY <1>2, SummarizeRecordingKeepsInv
<1>3. CASE DetectionFails
  BY <1>3, DetectionFailsKeepsInv
<1>4. CASE \E l \in SourceLanguages : DetectionSucceeds(l)
  BY <1>4, DetectionSucceedsKeepsInv
<1>5. CASE StoreDetectedLanguage
  BY <1>5, StoreDetectedLanguageKeepsInv
<1>6. CASE Generate
  BY <1>6, GenerateKeepsInv
<1>7. CASE GenerationFails
  BY <1>7, GenerationFailsKeepsInv
<1>8. CASE ReconciliationRaises
  BY <1>8, OpAborts DEF ReconciliationRaises
<1>9. CASE PersistSummary
  BY <1>9, PersistSummaryKeepsInv
<1>10. CASE \E l \in SourceLanguages \cup {NoLanguage} : StoreReportedLanguage(l)
  BY <1>10, StoreReportedLanguageKeepsInv
<1>11. CASE \E l \in SourceLanguages : SetTranscriptLanguage(l)
  BY <1>11, SetTranscriptLanguageKeepsInv
<1>12. CASE \E d \in RoutingDecisions : Reroute(d)
  BY <1>12, RerouteKeepsInv
<1>13. CASE Retranscribe
  BY <1>13, RetranscribeKeepsInv
<1>14. CASE ArchiveRecording
  BY <1>14, ArchiveRecordingKeepsInv
<1>15. CASE Crash
  BY <1>15, OpAborts DEF Crash
<1>16. CASE OpenEditor
  BY <1>16, OpenEditorKeepsInv
<1>17. CASE \E section \in Topics, selector \in Requested : OpenSection(section, selector)
  BY <1>17, OpenSectionKeepsInv
<1>18. CASE \E section \in Topics : OpenArchive(section)
  BY <1>18, OpenArchiveKeepsInv
<1>19. CASE \E payload \in Payloads : SaveLayout(payload)
  BY <1>19, SaveLayoutKeepsInv
<1>20. CASE SummarizeSection
  BY <1>20, SummarizeSectionKeepsInv
<1>21. CASE ArchiveSection
  BY <1>21, ArchiveSectionKeepsInv
<1>22. CASE RestoreSection
  BY <1>22, RestoreSectionKeepsInv
<1>23. CASE UNCHANGED vars
  <2>1. UNCHANGED <<content, results, op, form, attempts>>
    BY <1>23 DEF vars, results
  <2>2. ContentGrows /\ AttemptsTyped' /\ AttemptsGrow
    BY <2>1, InvParts, ContentKept, AttemptsUnchanged, AttemptsTypedKept
  <2>3. FormHolds'
    BY <2>1, <2>2, InvParts, FormKept
  <2> QED BY <2>1, <2>3, PageStep
<1> QED BY <1>1, <1>2, <1>3, <1>4, <1>5, <1>6, <1>7, <1>8, <1>9, <1>10, <1>11, <1>12, <1>13, <1>14, <1>15,
           <1>16, <1>17, <1>18, <1>19, <1>20, <1>21, <1>22, <1>23 DEF Next

\* The inductive invariant: the operation that holds the lock is in the newest and
\* only unfinished attempt and still may do what it began, later summaries are of
\* later attempts, every row says what the summaries and failures of its scope say,
\* and a page remembers layouts and attempts there were.
THEOREM VariantsInvariant == Spec => []VariantsInv
<1>1. Init => VariantsInv
  BY InitInv
<1>2. VariantsInv /\ [Next]_vars => VariantsInv'
  BY NextKeepsInv
<1> QED BY <1>1, <1>2, PTL DEF Spec

\* The types, across crashes: one unfinished attempt at the most, summaries only of
\* attempts that succeeded.
THEOREM TypeCorrect == Spec => []TypeOK
<1>1. VariantsInv => TypeOK
  BY DEF VariantsInv
<1> QED BY <1>1, VariantsInvariant, PTL

\* The newest summary of every scope, and no other, is active.
THEOREM NewestIsActive == Spec => []NewestSummaryIsActive
<1>1. VariantsInv => NewestSummaryIsActive
  BY DEF VariantsInv
<1> QED BY <1>1, VariantsInvariant, PTL

\* Every row is explained by the summaries and the failed attempts of its scope.
THEOREM RowsAreExplained == Spec => []RowsExplained
<1>1. VariantsInv => RowsExplained
  BY DEF VariantsInv
<1> QED BY <1>1, VariantsInvariant, PTL

\* One form begins one summary at the most, however often it is submitted.
THEOREM FormsAreUsedOnce == Spec => []OneSummaryPerForm
<1>1. VariantsInv => OneSummaryPerForm
  <2> SUFFICES ASSUME VariantsInv, form.kind = "summary"
               PROVE  form.generations <= 1
    BY DEF OneSummaryPerForm
  <2>1. form \in [kind : {"summary"}, section : Topics, selector : Requested, mode : {form.mode},
                  fingerprint : {form.fingerprint}, generations : 0 .. 1]
    BY InvParts DEF FormHolds
  <2> QED BY <2>1
<1> QED BY <1>1, VariantsInvariant, PTL

-----------------------------------------------------------------------------
(* What a step may never do *)

RecordingStep ==
  recording' # recording =>
       \/ Len(transcripts') > Len(transcripts) /\ recording'.status = "missing"
       \/ LET t == Len(transcripts')
              scope == Scope(Whole(t), resolve_default_language(transcripts'[t], decisions'))
          IN scope \in DOMAIN rows' /\ recording' = rows'[scope]

LEMMA RecordingWriters ==
  ASSUME [Next]_vars, recording' # recording
  PROVE  \/ Recover \/ GenerationFails \/ PersistSummary
         \/ \E l \in SourceLanguages : SetTranscriptLanguage(l)
         \/ Retranscribe
<1>1. CASE \/ \E selector \in Requested, regenerate \in BOOLEAN : SummarizeRecording(selector, regenerate)
           \/ DetectionFails \/ (\E l \in SourceLanguages : DetectionSucceeds(l))
           \/ StoreDetectedLanguage \/ Generate \/ ReconciliationRaises
           \/ \E l \in SourceLanguages \cup {NoLanguage} : StoreReportedLanguage(l)
  BY <1>1 DEF SummarizeRecording, DetectionFails, DetectionSucceeds, StoreDetectedLanguage, Generate,
              ReconciliationRaises, StoreReportedLanguage, results
<1>2. CASE (\E d \in RoutingDecisions : Reroute(d)) \/ ArchiveRecording \/ Crash
  BY <1>2 DEF Reroute, ArchiveRecording, Crash, results
<1>3. CASE \/ OpenEditor \/ (\E section \in Topics, selector \in Requested : OpenSection(section, selector))
           \/ \E section \in Topics : OpenArchive(section)
  BY <1>3 DEF OpenEditor, OpenSection, OpenArchive, Open, results
<1>4. CASE (\E payload \in Payloads : SaveLayout(payload)) \/ SummarizeSection \/ ArchiveSection \/ RestoreSection
  BY <1>4 DEF SaveLayout, SummarizeSection, ArchiveSection, RestoreSection, results
<1>5. CASE UNCHANGED vars
  BY <1>5 DEF vars, results
<1> QED BY <1>1, <1>2, <1>3, <1>4, <1>5 DEF Next

\* The recording is written with the row of the default of its active transcript.
LEMMA ReconcileFollowsDefault ==
  ASSUME VariantsInv, NEW section \in Sections, NEW l, NEW atts, NEW sums,
         Reconcile(section, l, atts, sums, transcripts'), UNCHANGED decisions
  PROVE  RecordingStep
<1> SUFFICES ASSUME recording' # recording
             PROVE  LET t == Len(transcripts')
                        scope == Scope(Whole(t), resolve_default_language(transcripts'[t], decisions'))
                    IN scope \in DOMAIN rows' /\ recording' = rows'[scope]
  BY DEF RecordingStep
<1>1. PICK state : state = VariantState(section, l, atts, sums)
  OBVIOUS
<1>2. PICK mine : mine = Scope(section, l)
  OBVIOUS
<1>3. /\ rows' = [scope \in DOMAIN rows \cup {mine} |-> IF scope = mine THEN state ELSE rows[scope]]
      /\ recording' = IF FollowsRecording(section, l, transcripts', decisions) THEN state ELSE recording
  BY <1>1, <1>2 DEF Reconcile
<1>4. FollowsRecording(section, l, transcripts', decisions) /\ recording' = state
  BY <1>3
<1>5. section = Whole(Len(transcripts'))
  <2>1. section.transcript = Len(transcripts') /\ section.ordinal = 0
    BY <1>4 DEF FollowsRecording
  <2>2. \E t \in DOMAIN transcripts : section = Whole(t)
    BY <2>1, TopicFacts DEF Sections
  <2> QED BY <2>1, <2>2, TopicFacts
<1>6. l = resolve_default_language(transcripts'[Len(transcripts')], decisions')
  BY <1>4 DEF FollowsRecording
<1>7. mine \in DOMAIN rows' /\ rows'[mine] = state
  BY <1>3
<1> QED BY <1>2, <1>4, <1>5, <1>6, <1>7

\* The recording follows the default variant of its active transcript, or has no
\* summary because the transcript is new.
THEOREM RecordingOnlyFollowsDefault == Spec => RecordingFollowsDefault
<1>1. VariantsInv /\ [Next]_vars => [RecordingStep]_vars
  <2> SUFFICES ASSUME VariantsInv, [Next]_vars, recording' # recording
               PROVE  RecordingStep
    BY DEF RecordingStep
  <2>1. CASE Recover
    <3>1. PICK a \in Unfinished : Reconcile(attempts[a].section, attempts[a].language, attempts', summaries, transcripts)
      BY <2>1 DEF Recover
    <3>2. attempts[a].section \in Sections
      <4>1. attempts[a] \in AttemptRows
        BY InvParts, AttemptsList DEF Unfinished
      <4> QED BY <4>1 DEF AttemptRows
    <3>3. UNCHANGED <<transcripts, decisions>>
      BY <2>1 DEF Recover, content
    <3> QED BY <3>1, <3>2, <3>3, ReconcileFollowsDefault
  <2>2. CASE GenerationFails \/ PersistSummary
    <3>1. \E atts, sums : Reconcile(op.section, op.language, atts, sums, transcripts)
      BY <2>2 DEF GenerationFails, PersistSummary
    <3>2. op.section \in Sections
      <4>1. op \in Operations
        BY InvParts DEF OpTyped, Operations
      <4> QED BY <4>1 DEF Operations
    <3>3. UNCHANGED <<transcripts, decisions>>
      BY <2>2 DEF GenerationFails, PersistSummary, content
    <3> QED BY <3>1, <3>2, <3>3, ReconcileFollowsDefault
  <2>3. CASE \E l \in SourceLanguages : SetTranscriptLanguage(l)
    <3>1. \E k : Reconcile(Whole(ActiveTranscript), k, attempts, summaries, transcripts') /\ UNCHANGED decisions
      BY <2>3 DEF SetTranscriptLanguage
    <3>2. Whole(ActiveTranscript) \in Sections
      BY InvParts, FirstSection
    <3> QED BY <3>1, <3>2, ReconcileFollowsDefault
  <2>4. CASE Retranscribe
    <3>1. transcripts' = Append(transcripts, NewTranscript) /\ recording'.status = "missing"
      BY <2>4 DEF Retranscribe, NoSummary
    <3>2. Len(transcripts') > Len(transcripts)
      <4>1. PICK row \in TranscriptRows : row = NewTranscript
        BY DEF NewTranscript, TranscriptRows
      <4>2. transcripts \in Seq(TranscriptRows)
        BY InvParts DEF ContentTyped, TranscriptRows
      <4> QED BY <3>1, <4>1, <4>2
    <3> QED BY <3>1, <3>2 DEF RecordingStep
  <2> QED BY <2>1, <2>2, <2>3, <2>4, RecordingWriters
<1> QED BY <1>1, VariantsInvariant, PTL DEF Spec, RecordingFollowsDefault, RecordingStep

LayoutStep == Len(versions') > Len(versions) => form.seen = <<ActiveTranscript, CurrentLayout(ActiveTranscript)>>

LEMMA LayoutWriters ==
  ASSUME [Next]_vars, versions' # versions
  PROVE  \E payload \in Payloads : SaveLayout(payload)
<1>1. CASE \/ Recover \/ (\E selector \in Requested, regenerate \in BOOLEAN : SummarizeRecording(selector, regenerate))
           \/ DetectionFails \/ (\E l \in SourceLanguages : DetectionSucceeds(l))
           \/ StoreDetectedLanguage \/ Generate \/ GenerationFails \/ ReconciliationRaises \/ PersistSummary
           \/ \E l \in SourceLanguages \cup {NoLanguage} : StoreReportedLanguage(l)
  BY <1>1 DEF Recover, SummarizeRecording, DetectionFails, DetectionSucceeds, StoreDetectedLanguage, Generate,
              GenerationFails, ReconciliationRaises, PersistSummary, StoreReportedLanguage, content
<1>2. CASE \/ (\E l \in SourceLanguages : SetTranscriptLanguage(l)) \/ (\E d \in RoutingDecisions : Reroute(d))
           \/ Retranscribe \/ ArchiveRecording \/ Crash
  BY <1>2 DEF SetTranscriptLanguage, Reroute, Retranscribe, ArchiveRecording, Crash, content
<1>3. CASE \/ OpenEditor \/ (\E section \in Topics, selector \in Requested : OpenSection(section, selector))
           \/ \E section \in Topics : OpenArchive(section)
  BY <1>3 DEF OpenEditor, OpenSection, OpenArchive, Open, content
<1>4. CASE SummarizeSection \/ ArchiveSection \/ RestoreSection
  BY <1>4 DEF SummarizeSection, ArchiveSection, RestoreSection, content
<1>5. CASE UNCHANGED vars
  BY <1>5 DEF vars, content
<1> QED BY <1>1, <1>2, <1>3, <1>4, <1>5 DEF Next

\* A layout is replaced only by one that was edited on a page that showed it: what
\* the fingerprint names is what was seen, and it is compared under the lock.
THEOREM LayoutsReplaceWhatWasSeen == Spec => LayoutReplacesWhatWasSeen
<1>1. VariantsInv /\ [Next]_vars => [LayoutStep]_vars
  <2> SUFFICES ASSUME VariantsInv, [Next]_vars, Len(versions') > Len(versions)
               PROVE  form.seen = <<ActiveTranscript, CurrentLayout(ActiveTranscript)>>
    BY DEF LayoutStep
  <2>1. versions' # versions
    <3>1. Len(versions) \in Nat
      BY InvParts DEF VersionsListed
    <3> QED BY <3>1
  <2>2. PICK payload \in Payloads : SaveLayout(payload)
    BY <2>1, LayoutWriters
  <2>3. form.kind = "layout" /\ form.fingerprint = segmentation_fingerprint
    BY <2>2 DEF SaveLayout
  <2>4. form.seen = <<form.fingerprint.transcript, {versions[v].layout : v \in form.fingerprint.versions}>>
    BY <2>3, InvParts DEF FormHolds
  <2>5. /\ form.fingerprint.transcript = ActiveTranscript
        /\ form.fingerprint.versions = ActiveVersions(ActiveTranscript)
    BY <2>3 DEF segmentation_fingerprint
  <2> QED BY <2>4, <2>5 DEF CurrentLayout
<1> QED BY <1>1, VariantsInvariant, PTL DEF Spec, LayoutReplacesWhatWasSeen, LayoutStep

HistoryStep ==
  \A section \in {attempts'[a].section : a \in DOMAIN attempts' \ DOMAIN attempts}
                 \cup {summaries'[i].section : i \in DOMAIN summaries' \ DOMAIN summaries}
                 \cup (archivedSections' \ archivedSections) :
    section.version # 0 => InUse(section)

LEMMA LiveIsInUse ==
  ASSUME NEW section \in Sections, MaySummarize(section), section.version # 0
  PROVE  InUse(section)
<1>1. section \in Topics
  BY TopicFacts DEF Sections
<1>2. section.version \in DOMAIN versions /\ section.transcript = versions[section.version].transcript
  BY <1>1, TopicFacts
<1>3. RequireActiveTopicSection(section) /\ section \notin archivedSections /\ ~archived
  BY DEF MaySummarize
<1> QED BY <1>2, <1>3 DEF RequireActiveTopicSection, InUse, ActiveVersions

\* Attempts of one section, and no summaries and no archived sections.
LEMMA BeginsInUse ==
  ASSUME NEW section \in Sections, MaySummarize(section), UNCHANGED <<summaries, archivedSections>>,
         \A a \in DOMAIN attempts' \ DOMAIN attempts : attempts'[a].section = section
  PROVE  HistoryStep
BY LiveIsInUse DEF HistoryStep

LEMMA BeginsNothing ==
  ASSUME DOMAIN attempts' = DOMAIN attempts, UNCHANGED summaries, archivedSections' \subseteq archivedSections
  PROVE  HistoryStep
BY DEF HistoryStep

LEMMA NothingBegun ==
  ASSUME VariantsInv, [Next]_vars
  PROVE  \/ \E selector \in Requested, regenerate \in BOOLEAN : SummarizeRecording(selector, regenerate)
         \/ Generate \/ SummarizeSection \/ PersistSummary \/ ArchiveSection
         \/ HistoryStep
<1>1. CASE Recover
  <2>1. UNCHANGED <<summaries, archivedSections>> /\ DOMAIN attempts' = DOMAIN attempts
    BY <1>1 DEF Recover, content
  <2> QED BY <2>1, BeginsNothing
<1>2. CASE \/ DetectionFails \/ (\E l \in SourceLanguages : DetectionSucceeds(l)) \/ GenerationFails
  <2>1. UNCHANGED <<summaries, archivedSections>> /\ DOMAIN attempts' = DOMAIN attempts
    BY <1>2 DEF DetectionFails, DetectionSucceeds, GenerationFails, Finish, content
  <2> QED BY <2>1, BeginsNothing
<1>3. CASE \/ StoreDetectedLanguage \/ ReconciliationRaises
           \/ (\E l \in SourceLanguages \cup {NoLanguage} : StoreReportedLanguage(l))
           \/ (\E l \in SourceLanguages : SetTranscriptLanguage(l)) \/ (\E d \in RoutingDecisions : Reroute(d))
           \/ Retranscribe \/ ArchiveRecording \/ Crash
  <2>1. UNCHANGED <<attempts, summaries, archivedSections>>
    BY <1>3 DEF StoreDetectedLanguage, ReconciliationRaises, StoreReportedLanguage, SetTranscriptLanguage,
                Reroute, Retranscribe, ArchiveRecording, Crash, content, results
  <2> QED BY <2>1, BeginsNothing
<1>4. CASE \/ OpenEditor \/ (\E section \in Topics, selector \in Requested : OpenSection(section, selector))
           \/ (\E section \in Topics : OpenArchive(section))
           \/ (\E payload \in Payloads : SaveLayout(payload)) \/ RestoreSection
  <2>1. UNCHANGED <<attempts, summaries>> /\ archivedSections' \subseteq archivedSections
    BY <1>4 DEF OpenEditor, OpenSection, OpenArchive, Open, SaveLayout, RestoreSection, content, results
  <2> QED BY <2>1, BeginsNothing
<1>5. CASE UNCHANGED vars
  <2>1. UNCHANGED <<attempts, summaries, archivedSections>>
    BY <1>5 DEF vars, content, results
  <2> QED BY <2>1, BeginsNothing
<1> QED BY <1>1, <1>2, <1>3, <1>4, <1>5 DEF Next

LEMMA PersistsInUse ==
  ASSUME VariantsInv, PersistSummary
  PROVE  HistoryStep
<1>1. MaySummarize(op.section) /\ Finish(op.attempt, "success") /\ UNCHANGED archivedSections
  BY DEF PersistSummary, content
<1>2. PICK section, l, a : section \in Sections /\ section = op.section /\ l = op.language /\ a = op.attempt
  <2>1. op \in Operations
    BY InvParts DEF OpTyped, Operations
  <2> QED BY <2>1 DEF Operations
<1>3. PICK n \in Nat : n = Len(summaries) /\ DOMAIN summaries = 1 .. n
  BY InvParts, SummariesList
<1>4. PICK old \in Seq(SummaryRows) : old = Superseded(section, l) /\ Stored(section, l, n, old)
  BY <1>3, InvParts, SupersededRows
<1>5. PICK new : new = [section |-> section, language |-> l, attempt |-> a, active |-> TRUE]
  OBVIOUS
<1>6. summaries' = Append(old, new) /\ new.section = section
  BY <1>2, <1>4, <1>5 DEF PersistSummary
<1>7. DOMAIN summaries' = 1 .. n + 1 /\ summaries'[n + 1] = new
  <2>1. Len(old) = n /\ old \in Seq(SummaryRows \cup {new})
    BY <1>4 DEF Stored
  <2> QED BY <1>6, <2>1
<1>8. \A i \in DOMAIN summaries' \ DOMAIN summaries : summaries'[i].section = section
  BY <1>3, <1>6, <1>7
<1>9. DOMAIN attempts' = DOMAIN attempts
  BY <1>1 DEF Finish
<1>10. section.version # 0 => InUse(section)
  BY <1>1, <1>2, LiveIsInUse
<1> QED BY <1>1, <1>8, <1>9, <1>10 DEF HistoryStep

\* Nothing is begun, stored or archived for a section of a layout that has been
\* replaced, of an old transcript, or that is archived.
THEOREM HistoryIsNotWritten == Spec => HistoryIsReadOnly
<1>1. VariantsInv /\ [Next]_vars => [HistoryStep]_vars
  <2> SUFFICES ASSUME VariantsInv, [Next]_vars
               PROVE  HistoryStep
    OBVIOUS
  <2>1. CASE \E selector \in Requested, regenerate \in BOOLEAN : SummarizeRecording(selector, regenerate)
    <3>1. PICK selector \in Requested, regenerate \in BOOLEAN : SummarizeRecording(selector, regenerate)
      BY <2>1
    <3>2. /\ Unfinished = {} /\ UNCHANGED <<content, summaries, rows, recording>>
          /\ StartSummary(Whole(ActiveTranscript), selector, regenerate)
      BY <3>1 DEF SummarizeRecording, Locked
    <3>3. PICK section \in Sections : section = Whole(ActiveTranscript)
      BY InvParts, FirstSection
    <3>4. MaySummarize(section) /\ Started(section)
      BY <3>2, <3>3, Constants, SummaryStarts
    <3> QED BY <3>2, <3>4, BeginsInUse DEF Started, content
  <2>2. CASE Generate
    <3>1. /\ op.pc = "resolved" /\ UNCHANGED <<content, summaries, rows, recording>>
          /\ StartGeneration(op.section, op.selector, op.regenerate)
      BY <2>2 DEF Generate
    <3>2. PICK section \in Sections, selector \in Selectors, regenerate \in BOOLEAN :
            section = op.section /\ selector = op.selector /\ regenerate = op.regenerate
      <4>1. op \in Operations
        BY InvParts DEF OpTyped, Operations
      <4> QED BY <4>1 DEF Operations
    <3>3. Unfinished = {} /\ transcripts[section.transcript].language \in SourceLanguages
      BY <3>1, <3>2, InvParts DEF OpHolds
    <3>4. MaySummarize(section)
      BY <3>1, <3>2, InvParts DEF OpLive, Detection
    <3>5. Started(section)
      BY <3>1, <3>2, <3>3, <3>4, KnownOriginal, GenerationStarts
    <3> QED BY <3>1, <3>4, <3>5, BeginsInUse DEF Started, content
  <2>3. CASE SummarizeSection
    <3>1. PICK section \in Sections : section = form.section /\ MaySummarize(section) /\ Started(section)
      BY <2>3, SummarizeSectionStarts DEF Sections
    <3>2. UNCHANGED <<summaries, archivedSections>>
      BY <2>3 DEF SummarizeSection, content
    <3> QED BY <3>1, <3>2, BeginsInUse DEF Started
  <2>4. CASE PersistSummary
    BY <2>4, PersistsInUse
  <2>5. CASE ArchiveSection
    <3>1. /\ form.kind = "archive" /\ ~archived /\ RequireActiveTopicSection(form.section)
          /\ archivedSections' = archivedSections \cup {form.section}
          /\ UNCHANGED <<attempts, summaries>>
      BY <2>5 DEF ArchiveSection, results
    <3>2. form.section \in Topics
      BY <3>1, InvParts DEF FormHolds
    <3>3. PICK section \in Topics : section = form.section
      BY <3>2
    <3>4. ASSUME section \notin archivedSections
          PROVE  InUse(section)
      <4>1. section \in Sections
        BY DEF Sections
      <4>2. MaySummarize(section)
        BY <3>1, <3>3, <3>4 DEF MaySummarize
      <4>3. section.version # 0
        BY <3>1, <3>3 DEF RequireActiveTopicSection
      <4> QED BY <4>1, <4>2, <4>3, LiveIsInUse
    <3> QED BY <3>1, <3>3, <3>4 DEF HistoryStep
  <2> QED BY <2>1, <2>2, <2>3, <2>4, <2>5, NothingBegun
<1> QED BY <1>1, VariantsInvariant, PTL DEF Spec, HistoryIsReadOnly, HistoryStep

\* `persist_summary' looks at the layout and the archive again, though it holds the
\* lock: what it finds is what the attempt was begun under.
THEOREM PersistRecheckAgrees == Spec => [](op.pc = "generating" => MaySummarize(op.section))
<1>1. VariantsInv => (op.pc = "generating" => MaySummarize(op.section))
  BY InvParts DEF OpLive
<1> QED BY <1>1, VariantsInvariant, PTL
=============================================================================
