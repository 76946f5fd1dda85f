CONSTANTS
  PageSize = 1
  SectorPages = 1
  SlotSectors = 3
  good0 = good0
  good1 = good1
  bad1 = bad1
  FF = FF
  Smear = Smear
  Byte <- MCByte
  NoDigest = NoDigest
  ImageSizes = {0}
  MaxAttempts = 3
  Files <- MCFiles
  Link <- MCLink
  Length <- MCLength
  Healthy = {good0, good1}
  NoMeta = NoMeta
  NoSlot = NoSlot
  NoFile = NoFile
  ChunkLens = {1}
SPECIFICATION Spec
INVARIANT RollbackIsKnownGood
