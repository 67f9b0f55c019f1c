\* Names without negative numbers, far from the largest int.
SPECIFICATION Spec
CONSTANTS
  New = New
  Foo = Foo
  Bad = Bad
  Imported = Imported
  Words <- MCWords
  NewConfiguration <- MCNew
  UserNames <- MCNaturalNames
  Contents = {empty, other}
  Empty = empty
  Unreadable = unreadable
  IntMax = 7
  SizeMax = 31
  MaxOperations = 5
INVARIANTS
  TypeOK
  NoDuplicate
PROPERTY
  KeptByName
CHECK_DEADLOCK FALSE
