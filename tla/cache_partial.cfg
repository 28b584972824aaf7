SPECIFICATION FairSpec
CONSTANTS
  Threads = {t1}
  NoThread = NoThread
  BlockSize = 3
  ImageSize = 5
  VdiSize = 1
  VhdSize = 1
  Values <- MCValues
  Zero = z0
  Image <- MCImage
  VdiHeader <- MCVdiHeader
  VhdFooter <- MCVhdFooter
  OutputTypes = {"dd"}
  Payloads <- Pair
  ReadSizes = {3}
  Faults = {"input", "data"}
  MayOverwrite = TRUE
  MaxFileLen = 7
  p0 = p0
  p1 = p1
  p2 = p2
  p3 = p3
  p4 = p4
  h0 = h0
  h1 = h1
  w0 = w0
  w1 = w1
  z0 = z0
INVARIANTS
  AssignedChunksStored
  ChunksDisjoint
  IndexDurable
  IndexInv
PROPERTIES
  IsADisk
  MutexReleased
