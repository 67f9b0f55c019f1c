\* One name of the user's next to the built-in one, with a file of an older version.
SPECIFICATION Spec
CONSTANTS
  validation = validation
  mine = mine
  layers = layers
  zero = zero
  Name = {validation, mine}
  Content = {layers, other, zero}
  Overriding = {layers, other}
  Nothing = zero
  Builtin <- MCBuiltin
  Validation = validation
  Older <- MCOlder
  None = None
  Absent = Absent
INVARIANTS
  TypeOK
  RemovedStaysRemoved
PROPERTIES
  StaysInSync
  SavedComeBack
  ActiveComesBack
