CONSTANTS
  MaxRuns = 3
  MaxCandidates = 2
  Runs <- MCRuns
  Candidates <- MCCandidates
  Allowance = 2
  Cap = 6
  Ceiling = 5
  KnownPrior = 0
  MaxKills = 1
SPECIFICATION Spec
CHECK_DEADLOCK FALSE
INVARIANTS
  ContractCoversSpend
  ContractSpendUnderCeiling
