CONSTANTS
  Keys = {a, b}
  HardLimit = 2
  MaxSummaries = 2
  MaxLayouts = 1
  MaxEdits = 2
SYMMETRY KeySymmetry
SPECIFICATION Spec
INVARIANTS TypeOK SuggestionsAreCurrent TagChangesReachIndex
PROPERTIES UserDecisionsStand OneLiveScopeChanges
CHECK_DEADLOCK FALSE
