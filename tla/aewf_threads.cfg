SPECIFICATION Spec
CONSTANTS
  NThreads = 2
  ChunkSize = 2
  ImageSize = 7
  Tables <- MCTables
  Segments <- MCSegments
  TableOf <- MCTableOf
  SegmentOf <- MCSegmentOf
  TableSize <- MCTableSize
  MaxTableCache = 2
  MaxOpenSegments = 1
  Compressed = {0, 1, 3}
  Damaged = {1}
  Faults = {}
  Word = 16
INVARIANTS
  TypeOK
  ReadsDeliverImage
  ChunkInBuffIsStored
  OpenSegmentsCounted
  TableCacheCounted
