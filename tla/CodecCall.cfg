\* Two bytes of history, a ceiling of six, calls of up to five bytes; streams of
\* up to three bytes that decode to up to three, two at a time.
CONSTANTS
  Bytes = {0, 1}
  History = 2
  MaxOutputSize = 6
  MaxRun = 5
  MaxDistance = 3
  Codecs = {"zlib", "bzip2", "xz", "lzma", "lz4", "zstd"}
  MaxInput = 3
  MaxOutput = 3
  ChunkSize = 2
  MaxFeed = 2
  Ceilings = {2, 4}
SPECIFICATION CallSpec
INVARIANTS ResultTellsOutput OkIsComplete TruncatedIsCutOff
PROPERTIES ImplementsDecodedOutput LoopEnds
