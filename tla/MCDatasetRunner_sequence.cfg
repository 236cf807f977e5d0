CONSTANTS
  Runs <- MCRuns
  N = 2
  ArmCost = 1
  Forecast = 2
  Priors = {1, 2}
  Cap = 6
  Ceiling = 5
  MaxNewPairs = 2
  Drifting = {2}
  MaxCrashes = 1
  Modes = {"execute", "finalize", "quarantine"}
  Outcomes = {"answered", "noid", "invalid"}
SPECIFICATION Spec
CHECK_DEADLOCK FALSE
INVARIANTS
  StrictlySequential
  BlockFits
