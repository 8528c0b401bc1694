----------------------------- MODULE WebActions -----------------------------
(***************************************************************************)
(* Actions given from the web pages, on top of the processing pipeline.    *)
(*                                                                         *)
(* A page is rendered without the pipeline lock, at any moment of any      *)
(* other process' work, and its forms carry a fingerprint of the state it  *)
(* shows.  A submission takes the lock, recovers, and goes on only if the  *)
(* fingerprint it carries is that of the state it then finds.  One browser *)
(* page is modelled; it may be submitted again and again, as after a       *)
(* double click or a reload, and rendered anew between two submissions.    *)
(***************************************************************************)
EXTENDS Pipeline

CONSTANT WebProcs   \* the processes that serve web requests

ASSUME WebAssumption == WebProcs \subseteq Procs

VARIABLES
  form,   \* the rendered page, or NoForm
  gated   \* web processes that have not compared the fingerprint yet

webVars == <<vars, form, gated>>

-----------------------------------------------------------------------------
(* The fingerprint *)

\* Attempts are numbered per stage.
Ordinal(atts, i) == Cardinality({j \in 1..i : atts[j].stage = atts[i].stage})

\* `order_by("-ordinal", "-pk").first()', over the attempts of all stages.
LastAttempt(atts) ==
  IF atts = <<>> THEN 0
  ELSE CHOOSE i \in DOMAIN atts :
         \A j \in DOMAIN atts \ {i} :
           \/ Ordinal(atts, j) < Ordinal(atts, i)
           \/ Ordinal(atts, j) = Ordinal(atts, i) /\ j < i

\* The languages in which the active transcript has a current summary.
Summarized(r) == {l \in OutputLanguages : summary[r][l] # 0}

\* Mutant: only the summary in the default language.
FingerprintDefaultLanguage(r) ==
  LET row == rec[r] IN
  [status |-> row.status, summaryStatus |-> row.summaryStatus,
   retranscriptionFailed |-> row.retranscriptionFailed,
   resummarizationFailed |-> row.resummarizationFailed,
   archived |-> row.archived, summary |-> summary[r][Default(r)],
   transcript |-> transcript[r], language |-> language[r],
   lastAttempt |-> LastAttempt(attempts[r]), decision |-> decision[r]]

\* Mutant: without the active decision and the newest attempt.
FingerprintUndecided(r) ==
  LET row == rec[r] IN
  [status |-> row.status, summaryStatus |-> row.summaryStatus,
   retranscriptionFailed |-> row.retranscriptionFailed,
   resummarizationFailed |-> row.resummarizationFailed,
   archived |-> row.archived, summary |-> summary[r][Default(r)],
   languages |-> Summarized(r), transcript |-> transcript[r], language |-> language[r]]

\* One summary, that in the default language; of the others only that there is
\* one.  The default and the original output language follow from the language
\* and the decision.
Fingerprint(r) ==
  LET row == rec[r] IN
  [status |-> row.status, summaryStatus |-> row.summaryStatus,
   retranscriptionFailed |-> row.retranscriptionFailed,
   resummarizationFailed |-> row.resummarizationFailed,
   archived |-> row.archived, summary |-> summary[r][Default(r)],
   languages |-> Summarized(r), transcript |-> transcript[r], language |-> language[r],
   lastAttempt |-> LastAttempt(attempts[r]), decision |-> decision[r]]

NoForm == [recording |-> None]

WebInit == Init /\ form = NoForm /\ gated = {}

-----------------------------------------------------------------------------
(* Actions *)

\* `summarize_mode': what can be asked for the summary of r in language l.  An
\* original that nobody knows is detected first.  Without an event of l there is
\* no state of its own, and for the default language the recording's is taken.
Mode(r, l) ==
  CASE transcript[r] = 0 -> "none"
    [] transcript[r] # 0 /\ l = NoLanguage -> "first"
    [] transcript[r] # 0 /\ l # NoLanguage ->
         IF rec[r].status # "transcribed" THEN "none"
         ELSE IF summary[r][l] # 0 THEN "regenerate"
         ELSE IF SummaryFailures(attempts[r], transcript[r], l, 0) # {} THEN "retry_summary"
         ELSE IF l # Default(r) THEN "first"
         ELSE CASE rec[r].summaryStatus = "failed" -> "retry_summary"
                [] rec[r].summaryStatus = "missing" -> "first"
                [] OTHER -> "none"

\* The page offers a first summary where `summarize_mode' has nothing to offer
\* because the recording still has the state of another default language.
OfferedMode(r, l) ==
  IF rec[r].status # "transcribed" \/ transcript[r] = 0 THEN "none"
  ELSE IF Mode(r, l) = "none" THEN "first" ELSE Mode(r, l)

\* mode is what the page offers for each language.  The rest is what it showed,
\* or what there was, and is not sent back: the stage that has failed, the number
\* of attempts, the languages with a summary.
Render(r) ==
  /\ gated = {}
  /\ rec[r].status # "absent"
  /\ form' = [recording |-> r, print |-> Fingerprint(r),
              mode |-> [sel \in Selectors |-> OfferedMode(r, Requested(r, sel))],
              failureStage |-> rec[r].failureStage, seen |-> Len(attempts[r]),
              summarized |-> Summarized(r)]
  /\ UNCHANGED <<vars, gated>>

WebCommands == RecordingCommands \ {"set_language"}

Submit(p, c, prof, sel) ==
  /\ form # NoForm
  /\ c = "summarize" => form.mode[sel] # "none"
  /\ StartCommand(p, c, form.recording, prof, sel,
                  c = "summarize" /\ form.mode[sel] = "regenerate")
  /\ gated' = gated \cup {p}
  /\ UNCHANGED form

\* What the handler of each action demands of the recording it finds.
Permitted(j) ==
  LET r == j.target
      row == rec[r]
  IN /\ row.archived => j.cmd \in {"archive", "restore"}
     /\ j.cmd = "route" => CanRoute(row)
     /\ j.cmd = "confirm" => decision[r] # NoDecision
     /\ j.cmd = "transcribe" => row.status = "ready" /\ decision[r].model
     /\ j.cmd = "summarize" =>
          Mode(r, Requested(r, j.selector)) = form.mode[j.selector]
     /\ j.cmd = "retry" => \/ row.status = "failed"
                           \/ /\ row.status = "transcribed"
                              /\ \/ row.retranscriptionFailed
                                 \/ row.resummarizationFailed
                                 \/ row.summaryStatus = "failed"

\* The form is stale, or the action is not allowed: nothing is run.
RefuseForm(p) ==
  /\ p \in gated /\ job[p].pc = "perform"
  /\ Fingerprint(form.recording) # form.print \/ ~Permitted(job[p])
  /\ gated' = gated \ {p}
  /\ Done(p)
  /\ UNCHANGED <<database, lock, commands, crashes, form>>

AcceptForm(p) ==
  /\ p \in gated /\ job[p].pc = "perform"
  /\ Fingerprint(form.recording) = form.print
  /\ Permitted(job[p])
  /\ gated' = gated \ {p}
  /\ UNCHANGED <<vars, form>>

\* Everything else is the pipeline's.
WebStep(p) ==
  /\ p \notin gated \/ job[p].pc # "perform"
  /\ Step(p)
  /\ UNCHANGED <<form, gated>>

CliStart(p) == p \notin WebProcs /\ Start(p) /\ UNCHANGED <<form, gated>>

WebCrash(p) == Crash(p) /\ gated' = gated \ {p} /\ UNCHANGED form

WebNext ==
  \/ \E r \in Recordings : Render(r)
  \/ \E p \in WebProcs : \/ RefuseForm(p) \/ AcceptForm(p)
                         \/ \E c \in WebCommands, prof \in Profiles \cup {None},
                              sel \in Selectors : Submit(p, c, prof, sel)
  \/ \E p \in Procs : CliStart(p) \/ WebStep(p) \/ WebCrash(p)

WebSpec == WebInit /\ [][WebNext]_webVars

-----------------------------------------------------------------------------
(* Properties *)

\* The attempts started since the page was rendered.
NewAttempts == form.seen + 1 .. Len(attempts[form.recording])

\* What the fingerprint does not notice: a new version of a summary that was there
\* already in another language than the default one, and a detection before its
\* language is stored.
Overlooked(a) ==
  /\ a.stage = "summarization"
  /\ \/ a.language = NoLanguage
     \/ a.language \in form.summarized /\ a.language # Default(form.recording)

\* A form is not accepted any more once an attempt that was started after it was
\* rendered has succeeded, whatever failures, recoveries and reroutings lie
\* between: no decision, no transcript and no first summary in any language, nor
\* a new one in the default language, is made a second time by a second submission.
SuccessInvalidatesForm ==
  [][\A p \in WebProcs : AcceptForm(p) =>
       \A i \in NewAttempts :
         attempts[form.recording][i].outcome = "success" =>
           Overlooked(attempts[form.recording][i])]_webVars

\* An accepted retry retries the stage the page said had failed, although the
\* fingerprint does not contain it: a recording that fails in another stage has
\* a new routing decision by then.
RetriesStageShown ==
  [][\A p \in WebProcs : AcceptForm(p) /\ job[p].cmd = "retry" =>
       rec[form.recording].failureStage = form.failureStage]_webVars

\* Violated: any attempt completed since the page was rendered invalidates its
\* forms, so that a duplicate submission never runs the action again.
AttemptInvalidatesForm ==
  [][\A p \in WebProcs : AcceptForm(p) => NewAttempts = {}]_webVars
=============================================================================
