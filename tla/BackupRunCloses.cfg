SPECIFICATION FairSpec
CONSTANTS
  job = job
  trigger = trigger
  d1 = d1
  d2 = d2
  Workers = {job, trigger}
  Jobs = {job}
  Devices = {d1, d2}
  Targets <- MCSingle
  Dests = {1, 2}
  Selected <- MCTriggerLocal
  LocalDests = {1}
  TextOnly = {2}
  MaxRetries = 2
  MaxItems = 1
  MaxId = 2
  MaxIncidents = 1
  NoSlot = NoSlot
PROPERTIES
  RunsFinish
  NothingStaysInProgress
CHECK_DEADLOCK FALSE
