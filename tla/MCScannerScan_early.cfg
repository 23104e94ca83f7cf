\* A result that ends before its own magic, after one that claimed up to there.
CONSTANTS
  DataSize = 4
  Matches <- MCMatches
  MaxMatches = 3
  ShortSignatures <- MCNoShort
  BackOffsets = {0, 2}
  MaxSize = 4
  Low = 0
  Medium = 128
  High = 250
SPECIFICATION Spec
INVARIANT WalkIsComplete
