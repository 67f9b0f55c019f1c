\* Every option but the late unlimited ones, over up to three instances.
SPECIFICATION Spec
CONSTANTS
  Options <- MCOptions
  MaxInstances = 3
  MaxFrame = 7
INVARIANTS
  TypeOK
  DoneMeansDone
  LastShotIsLast
PROPERTY
  CapturesAsPromised
CHECK_DEADLOCK FALSE
