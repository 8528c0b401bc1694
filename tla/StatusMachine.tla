--------------------------- MODULE StatusMachine ---------------------------
(***************************************************************************)
(* The state machine that src/workflow/services/statemachine.py promises   *)
(* for a recording: the table of legal edges, when `failed' may be         *)
(* entered, and that a usable transcript is never lost.  The pipeline      *)
(* writes processing_status directly in a dozen places without going       *)
(* through `transition'; module Pipeline is shown to implement this one.   *)
(***************************************************************************)
CONSTANT Recordings

VARIABLES
  status,         \* status[r]: Recording.processing_status, or "absent"
  hasTranscript   \* hasTranscript[r]: r has an active transcript

machineVars == <<status, hasTranscript>>

\* `hashing' is reserved by the code: no statement ever assigns it.
Status == {"absent", "discovered", "hashing", "routing", "needs_review",
           "ready", "transcribing", "transcribed", "failed"}

\* The legal edges; "absent" is a recording whose row does not exist yet.
AllowedTransitions ==
  [ absent       |-> {"discovered"},
    discovered   |-> {"hashing", "routing"},
    hashing      |-> {"routing", "discovered"},
    routing      |-> {"needs_review", "ready", "failed", "routing"},
    needs_review |-> {"ready", "routing"},
    ready        |-> {"transcribing", "routing", "ready"},
    transcribing |-> {"transcribed", "failed", "ready"},
    transcribed  |-> {"transcribing", "ready"},
    failed       |-> {"routing", "ready"} ]

MachineInit ==
  /\ status = [r \in Recordings |-> "absent"]
  /\ hasTranscript = [r \in Recordings |-> FALSE]

\* One legal edge of recording r.
Edge(r) ==
  /\ status'[r] \in AllowedTransitions[status[r]]
  \* failed is entered only when no usable transcript exists
  /\ status'[r] = "failed" => ~hasTranscript'[r]
  \* transcribed is entered only with one
  /\ status'[r] = "transcribed" => hasTranscript'[r]
  \* a transcript appears only when a transcription ends, and never vanishes
  /\ \/ hasTranscript'[r] = hasTranscript[r]
     \/ /\ ~hasTranscript[r] /\ hasTranscript'[r]
        /\ status[r] = "transcribing" /\ status'[r] = "transcribed"

Rest(r) == /\ status'[r] = status[r]
           /\ hasTranscript'[r] = hasTranscript[r]

\* One database transaction may move several recordings (recovery, ingest).
MachineNext ==
  /\ status' \in [Recordings -> Status]
  /\ hasTranscript' \in [Recordings -> BOOLEAN]
  /\ \A r \in Recordings : Edge(r) \/ Rest(r)

MachineSpec == MachineInit /\ [][MachineNext]_machineVars
=============================================================================
