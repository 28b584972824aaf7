SPECIFICATION Spec
CHECK_DEADLOCK FALSE
CONSTANTS
  Setups <- AaffSetups
  Faults = {FALSE}
  AnyRequest = FALSE
  Word = 24
  Wide = 36
  SectorUnit = 2
  ByteBase = 6
  ByteWeights = {1, 6}
  Fat12Below = 3
  Fat16Below = 5
  Fat16Mask = 16
  DirEntrySize = 1
  HfsHeaderEnd = 2
INVARIANTS
  AaffReadsSucceed
