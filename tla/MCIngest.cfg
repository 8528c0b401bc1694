CONSTANTS
  Paths = {1, 2}
  Contents = {"c", "d"}
  MaxChanges = 3
  MaxSilent = 1
  MaxCrashes = 1
SPECIFICATION FairSpec
INVARIANTS TypeOK SourcesReconciled HashesAreTrusted StageReadsItsRecording

PROPERTIES WaitEnds
CHECK_DEADLOCK FALSE
