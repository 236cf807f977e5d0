CONSTANTS
  Runs = {1}
  Candidates = {1}
  Allowance = 2
  Cap = 4
  Ceiling = 3
  KnownPrior = 1
  MaxKills = 1
  Items <- MCItems
  N = 1
  ArmCost = 1
  Forecast = 2
  Outcomes = {"answered"}
  Modes = {"execute"}
  MaxNewPairs = 1
  Drifting = {}
  MaxCrashes = 1
SPECIFICATION JointSpec
CHECK_DEADLOCK FALSE
INVARIANTS
  BooksCoverBoth
  DatasetAdmitsJointly
