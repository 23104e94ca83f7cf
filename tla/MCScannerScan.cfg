\* A short signature and three matches, results that start at their magic or a byte before.
CONSTANTS
  DataSize = 4
  Matches <- MCMatches
  MaxMatches = 3
  ShortSignatures <- MCOneShort
  BackOffsets = {0, 1}
  MaxSize = 4
  Low = 0
  Medium = 128
  High = 250
SPECIFICATION Spec
INVARIANTS EndsEarlyOnlyForClaimed BestAtOffset DroppedForCause RangesAreUsable
