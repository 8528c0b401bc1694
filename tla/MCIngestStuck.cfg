CONSTANTS
  Paths = {1}
  Contents = {"c"}
  MaxChanges = 3
  MaxSilent = 0
  MaxCrashes = 0
SPECIFICATION FairSpec
PROPERTIES PresentFileIsAttached
CHECK_DEADLOCK FALSE
