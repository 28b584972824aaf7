SPECIFICATION Spec
CONSTANTS
  Threads = {t1}
  NoThread = NoThread
  BlockSize = 2
  ImageSize = 2
  VdiSize = 2
  VhdSize = 2
  Values <- MCValues
  Zero = z0
  Image <- MCImage
  VdiHeader <- MCVdiHeader
  VhdFooter <- MCVhdFooter
  OutputTypes = {"vdi", "vhd"}
  Payloads <- Pair
  ReadSizes = {3}
  Faults = {}
  MayOverwrite = FALSE
  MaxFileLen = 7
  p0 = p0
  p1 = p1
  p2 = p2
  p3 = p3
  p4 = p4
  h0 = h0
  h1 = h1
  w0 = w0
  w1 = w1
  z0 = z0
PROPERTIES
  IsADisk
  ChunksNeverMove
