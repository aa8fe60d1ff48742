SPECIFICATION FairSpec
CONSTANTS
  MaxAttempts = 3
  Tries = 2
  MaxFile = 3
  SplitSize = 2
  Sizes = {3, 5}
  Tokens <- MCTokens
INVARIANTS
  PathReassembles
  RetriesFollowCause
PROPERTIES
  Settles
CHECK_DEADLOCK FALSE
