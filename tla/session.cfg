CHECK_DEADLOCK FALSE
SPECIFICATION FairSpec
CONSTANTS
  CmdLines <- MCCmdLines
  None = None
  OtherShort <- MCOtherShort
  OtherLong <- MCOtherLong
  InputLibs <- MCInputLibs
  MorphLibs <- MCMorphLibs
  LibOf <- MCLibOf
  NoLib = "nolib"
  Number <- MCNumber
  Options <- MCOptions
  ImageSizes <- MCImageSizes
  MorphedSize <- MCMorphedSize
  MaxImages = 2
  SectorSize = 2
  VdiBlockSize = 4
  VdiStructSize = 3
  VhdStructSize = 2
  Two32 = 1048576
INVARIANTS
  TypeOK
  InitOnce
  NothingLeft
  ServesWhatWasAsked
  HeaderFits
PROPERTIES
  StartsOrEnds
