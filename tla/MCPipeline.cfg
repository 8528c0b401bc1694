CONSTANTS
  Recordings = {r1}
  Profiles = {cantonese, european}
  ChineseProfiles = {cantonese}
  SourceLanguages <- MCSourceLanguages
  Procs = {cli, web}
  None = None
  MaxCommands = 2
  MaxCrashes = 2
SYMMETRY Symmetry
SPECIFICATION Spec
INVARIANTS TypeOK AttemptsOwned StatusMatchesTranscript AutomaticSummaryOnce WorkInPlace
PROPERTIES SummaryStatusTruthful ManualDecisionFinal FailedNeedsCommand ArchivedFrozen RecoveryIdempotent FollowsStateMachine
