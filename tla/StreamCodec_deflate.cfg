\* Raw deflate, whose last byte of input may carry the last bytes of output.
CONSTANTS
  Codecs = {"deflate"}
  MaxInput = 3
  MaxOutput = 3
  ChunkSize = 2
  MaxFeed = 2
  Ceilings = {2, 4}
SPECIFICATION Spec
INVARIANT TruncatedIsCutOff
