CONSTANTS
  PageSize = 1
  SectorPages = 1
  SlotSectors = 2
  good0 = good0
  good1 = good1
  bad1 = bad1
  FF = FF
  Smear = Smear
  Byte <- MCByte
  NoDigest = NoDigest
  ImageSizes = {0}
  MaxAttempts = 2
  Files <- MCFiles
  Link <- MCLink
  Length <- MCLength
  Healthy = {good0, good1}
  NoMeta = NoMeta
  NoSlot = NoSlot
  NoFile = NoFile
  ChunkLens = {1}
SPECIFICATION FairSpec
INVARIANTS
  TypeOK
  TrialsAreCounted
  BoundedWithoutMishap
  SettledMeansConfirmed
  NeverStranded
PROPERTIES
  ExecutingSlotUntouched
  HungComesBack
