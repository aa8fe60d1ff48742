SPECIFICATION FairSpec
CONSTANTS
  MaxId = 2
  Intervals <- MCIntervals
  MaxChanges = 2
  MaxEdits = 2
  MaxCollisions = 1
INVARIANTS
  ListsMatchRows
PROPERTIES
  SoundSessionsCapture
CHECK_DEADLOCK FALSE
