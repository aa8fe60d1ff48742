SPECIFICATION FairSpec
CONSTANTS
  Tracked <- AllRevisions
  Untracked <- TestedReleases
  MaxCrashes = 2
  MaxUpgrades = 2
INVARIANTS
  DataKept
  InitialisedIsCurrent
  UpgradesComplete
PROPERTIES
  StartsAgain
CHECK_DEADLOCK FALSE
