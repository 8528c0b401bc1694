SPECIFICATION FairSpec
CONSTANTS
  Recordings <- MCRecordingsOfOne
  Versions <- MCVersionsOfOne
  Editors = {e1}
  Locked = lk
  Models = {m1, m2}
  KeyOrder <- MCKeyOrder
  BatchSize = 3
  MaxEdits = 2
  MaxFailures = 1
  MaxGenerations = 2
  MaxReconfigurations = 1
INVARIANTS
  TypeOK
  SearchStaleExplained
  UncoveredExplained
PROPERTIES
  PromotedIsCurrent
  ImplementsStore
  Converges
CHECK_DEADLOCK FALSE
