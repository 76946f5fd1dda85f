CONSTANTS
  PageSize = 2
  SectorPages = 1
  SlotSectors = 3
  b = b
  c = c
  FF = FF
  Smear = Smear
  Byte <- Bytes
  NoDigest = NoDigest
  ImageSizes = {0, 5}
  Chunks <- AllChunks
  OldSlots <- MCOld
SPECIFICATION Spec
INVARIANTS
  StagingTypeOK
  ReceivedIsStored
  ReadyImageIsHashed
  NoDoubleProgram
  DownloadInv
PROPERTIES
  StagingRefinesPromise
