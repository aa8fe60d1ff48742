\* Three saves, two of them of one device; two at once; two faults.
CONSTANTS
  s1 = s1
  s2 = s2
  s3 = s3
  a = a
  b = b
  x = x
  y = y
  Readme = Readme
  Nothing = Nothing
  Saves <- MCSaves
  Device <- MCDevice
  Texts <- MCTexts
  Jobs = 2
  MaxFaults = 2
SPECIFICATION GSpec
INVARIANTS
  SavedIsCommitted
  PushCatchesUp
CHECK_DEADLOCK FALSE
