\* Files at paths of three names are extracted and those at five are not; two workers;
\* images of the smallest size allowed; a built-in extractor writes a file at most twice.
CONSTANTS
  Inputs <- MCInputs
  Sizes = {0, 1, 5}
  Unknown = "unknown"
  Extractions <- MCExtractions
  MaxDepth = 5
  Workers = 2
  Runs <- MCRuns
  Target = 2
  Levels = {0, 5, 8}
  Width = 128
  Height = 128
  RawNames = {"a", "b", "b?"}
  Sanitized <- MCSanitized
  RawPaths <- MCRawPaths
  LinkTargets <- MCLinkTargets
  MaxWrites = 2
  BuiltIn = {"archive"}
SPECIFICATION Spec
INVARIANTS EveryByteCarved GapsAreUnknown QueuedFilesStay StatusZeroIsTrue PenStaysOnLine
  LinksStayInside ChrootTellsTruth
PROPERTIES OnlyNamedChanges RunEnds
