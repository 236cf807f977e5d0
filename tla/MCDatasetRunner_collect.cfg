CONSTANTS
  Runs <- MCRuns
  N = 1
  ArmCost = 1
  Forecast = 3
  Priors = {1}
  Cap = 12
  Ceiling = 10
  MaxNewPairs = 2
  Drifting = {}
  MaxCrashes = 1
  Modes = {"execute", "finalize", "quarantine"}
  Outcomes = {"answered", "misidentified", "unusable", "cached", "noid", "uncertain", "lost", "rejected"}
SPECIFICATION FairSpec
CHECK_DEADLOCK FALSE
INVARIANTS
  TypeOK
  LaunchedOnce
  ExposureCoversSpend
  RecordStands
  SafeToReplayIsFree
PROPERTIES
  ChildIsPaidRun
  SourcesAreRecorded
  ResolutionHeals
