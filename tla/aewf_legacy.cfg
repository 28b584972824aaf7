SPECIFICATION FairSpec
CONSTANTS
  NThreads = 1
  ChunkSize = 2
  ImageSize = 8
  Tables <- MCTables
  Segments <- MCSegments
  TableOf <- MCTableOfShort
  SegmentOf <- MCSegmentOf
  TableSize <- MCTableSize
  MaxTableCache = 2
  MaxOpenSegments = 1
  Compressed = {0, 1, 3}
  Damaged = {1}
  Faults = {"open", "size", "table"}
  Word = 16
INVARIANTS
  ReadBytesAreTheImages
PROPERTIES
  ReadsReturn
