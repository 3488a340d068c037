CONSTANTS
  MaxIds = 2
  MaxPids = 2
  MaxData = 6
  MaxNames = 5
  Requests <- AllRequests
  OthersNames <- OtherNames
  Us = Us
  Others = Others
  MaxName = 2
  MaxSeconds = 3
  MaxOutside = 2
  Descriptions <- TwoDescriptions
  InitialCapacity = 4
  Attempts = 4
  MaxSources = 5
SPECIFICATION Spec
INVARIANTS
  SetupTypeOK
  ConfiguredAsRequested
  SettingsBeforeEvents
  ReplacedUnlessRaced
  SourcesAsListed
  GivesUpOnlyAfterGrowth
