\* Two helpers and the caller, two batches of up to three indices.
CONSTANTS
  Helpers = {h1, h2}
  Caller = caller
  MaxCount = 3
  MaxBatches = 2
SPECIFICATION FairSpec
INVARIANT NoStraggler
PROPERTIES ImplementsParallelFor RunReturns DestructorReturns
