SPECIFICATION FairSpec
CONSTANTS
  MaxId = 2
  Crons <- MCCrons
  Unparsed <- MCUnparsed
  Devices = {1}
  MaxEdits = 5
  NoJob = NoJob
INVARIANTS
  JobsMatchRows
  MissedOnly
PROPERTIES
  RegisteredRuns
CHECK_DEADLOCK FALSE
