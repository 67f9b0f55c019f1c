\* One instance that keeps presenting: finite options come to an end.
SPECIFICATION FairSpec
CONSTANTS
  Options <- MCOptions
  MaxInstances = 1
  MaxFrame = 10
PROPERTY
  Disarms
CHECK_DEADLOCK FALSE
