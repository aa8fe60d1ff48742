SPECIFICATION Spec
CONSTANTS
  NDest = 4
  NGroup = 2
  NLoc = 2
  NDev = 1
  NCred = 1
  Bases <- MCBases
  Default = "default"
  Tickable = {4}
  MaxRequests = 5
INVARIANTS
  ReferencesResolve
  LocationsApart
PROPERTIES
  DeletionIsLocal
CHECK_DEADLOCK FALSE
