\* Two faults in a call, of all that can be wrong with a device at once.
CONSTANTS
  MaxFaults = 2
  Commands = 2
  Paths <- MCPaths
  Entries <- MCEntries
SPECIFICATION Spec
INVARIANTS
  FetchedIsConfig
  ArchiveComplete
  TypeTellsCause
  ClosesConnections
  TestTellsFetch
PROPERTY FetchEnds
CHECK_DEADLOCK FALSE
