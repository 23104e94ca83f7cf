\* Sizes from less than most headers to more than the largest one, offsets at
\* which structures far into an image have their magic bytes, and fields with
\* the values that lie at the ends of these; 17 bits stand for 32, 28 for 64.
CONSTANTS
  W32 = 131072
  W64 = 268435456
  DataSizes = {12, 30, 64, 120, 330, 1300, 5000, 110000}
  Offsets = {0, 1, 10, 290, 33000, 69930}
  MaxEntries = 12
  U8 = {0, 1, 20, 255}
  U16 = {0, 1, 20, 200, 65535}
  U32 = {0, 1, 16, 64, 100, 131071}
  U64 = {0, 1, 64, 96, 150, 268435455}
  RomfsDepth = 2
  RomfsSlack = 2
  SparseMost = 16777216
  YaffsMaxObject = 16896
  YaffsPages = {512, 16384}
  YaffsSpares = {16, 512}
  Jffs2MaxPage = 100
  VolumeHeaders = 3
  VolumeGaps = {64, 100}
  LinuxMinimum = 102400
  SymtabMinimum = 2
SPECIFICATION FormatsSpec
INVARIANTS ClaimsAreInside ReadsAreInside ClaimsAreExact
PROPERTY WalksAdvance
