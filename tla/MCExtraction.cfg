\* Up to two directories that are filled; utilities that exit with 0, 2 or 3.
CONSTANTS
  Maps <- MCMaps
  Codes = {0, 2, 3}
  Accepted = {0, 2}
SPECIFICATION FairSpec
INVARIANTS AnswerIsTrue SuccessHasOutput FailureLeavesNothing
PROPERTIES EarlierStays ExtractReturns
