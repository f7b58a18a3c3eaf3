CONSTANTS
  Systems = {"asg"}
  FaultsOf <- MCFaultsOf
  MaxOutside = 0
  ModesOf <- MCModesOf
  Instances = {"i1"}
  MaxStageVisits = 2
  MaxVersions = 2
  MaxRefreshes = 2
  Quota = 2
  MaxRevisions = 4
  Parts <- MCParts
  MaxSteps = 1
  MaxDrift = 1
  Processes = {"p1"}
  Actors = {"alice", "bot"}
  Humans = {"alice"}
  Specs <- MCSpecs
  MaxRecords = 2
  TTL = 1
  MaxHour = 2
SPECIFICATION Spec
PROPERTY NoopIsMigrated
CHECK_DEADLOCK FALSE
