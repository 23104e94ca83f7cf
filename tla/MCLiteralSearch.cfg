\* Slices of three and two bytes, two to a window; two lanes of up to two windows.
CONSTANTS
  Patterns <- MCPatterns
  Texts <- MCTexts
  LongestPattern = 3
  Walks = 2
  WideSlice = 3
  NarrowSlice = 2
  MaxWindowsPerLane = 2
  Lanes = 2
  NoMatch = NoMatch
  Sizes = {0, 1, 2, 9, 15, 48}
  Bytes = {0, 1}
  PatternLists <- MCPatternLists
  MaxText = 4
  MaxPatterns = 3
  MaxLength = 3
SPECIFICATION SearchSpec
INVARIANTS NoOverRead ReportsExactly
PROPERTIES ImplementsMatchReport SearchReturns
