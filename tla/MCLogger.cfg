SPECIFICATION FairSpec
CONSTANTS
  MaxQueued = 2
  RotateSize = 2
  Generations = 2
  MaxLines = 6
  MaxReloads = 1
INVARIANTS
  Fifo
  NothingUncounted
  StopDrains
  NoLostWakeup
  FilesInOrder
PROPERTIES
  ImplementsLogService
  LinesAreWritten
  StopReturnsEventually
