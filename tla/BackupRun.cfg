SPECIFICATION DSpec
CONSTANTS
  job = job
  trigger = trigger
  d1 = d1
  d2 = d2
  Workers = {job, trigger}
  Jobs = {job}
  Devices = {d1, d2}
  Targets <- MCTargets
  Dests = {1, 2}
  Selected <- MCJobOnly
  LocalDests = {1}
  TextOnly = {2}
  MaxRetries = 1
  MaxItems = 2
  MaxId = 3
  MaxIncidents = 1
  NoSlot = NoSlot
INVARIANTS
  ResolvedByStored
  SuccessIsBacked
  CompletedMeansStored
  FailedDestinationIsVisible
PROPERTIES
  VerdictStands
  ImplementsLedger
CHECK_DEADLOCK FALSE
