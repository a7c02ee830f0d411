SPECIFICATION Spec
CONSTANTS
  Keys <- MCKeys
  Nodes = {n1, n2, n3}
  Null = Null
  Messages <- MCMessages
  Override <- MCOverride
  FailureTtls = {0, 1}
  MaxEntries = 2
  MaxBytes = 4
  MaxEntrySize = 3
  MaxTtl = 2
  Second = 2
  SizeModulus = 16
  Horizon = 4
INVARIANTS
  TypeOK
  IndexMatchesList
  BytesExact
  TtlNeverInflated
PROPERTIES
  ImplementsCacheService
SYMMETRY MCSymmetry
CHECK_DEADLOCK FALSE
