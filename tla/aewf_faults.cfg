SPECIFICATION FairSpec
CONSTANTS
  NThreads = 2
  ChunkSize = 2
  ImageSize = 5
  Tables <- MCTables
  Segments <- MCSegments
  TableOf <- MCTableOf
  SegmentOf <- MCSegmentOf
  TableSize <- MCTableSize
  MaxTableCache = 2
  MaxOpenSegments = 1
  Compressed = {0, 2}
  Damaged = {}
  Faults = {"open", "chunk", "thread"}
  Word = 16
INVARIANTS
  OneSlotPerChunk
PROPERTIES
  JobsUndisturbed
  ReadsReturn
CHECK_DEADLOCK FALSE
