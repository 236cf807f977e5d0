CONSTANTS
  Runs <- MCRuns
  Batches <- MCBatches
  BatchOf <- MCBatchOf
  Admissions <- MCAdmissions
  Unpriced = {3}
  Allowance = 1
  Baseline = 1
  Ceiling = 3
  MaxCrashes = 1
SPECIFICATION FairSpec
INVARIANTS
  LedgerReplays
  LedgersAgree
  CoverageSpendIsAdmitted

  
