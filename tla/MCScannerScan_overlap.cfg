\* Three matches, two of them at one offset.
CONSTANTS
  DataSize = 4
  Matches <- MCMatches
  MaxMatches = 3
  ShortSignatures <- MCNoShort
  BackOffsets = {0, 1}
  MaxSize = 4
  Low = 0
  Medium = 128
  High = 250
SPECIFICATION Spec
INVARIANT OverlapFiltered
