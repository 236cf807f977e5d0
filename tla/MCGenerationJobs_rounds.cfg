CONSTANTS
  Battles = {b1}
  Controlled = {b1}
  Workers = {w1, w2}
  Arms = {right}
  EpicureArms = {right}
  MaxClaims = 2
  MaxRequests = 2
  MaxProviderAttempts = 2
  UnpricedUsage = TRUE
  NoWorker = NoWorker
  NoBattle = NoBattle
CHECK_DEADLOCK FALSE
SPECIFICATION FairSpec
INVARIANT SettledOnEvidence
PROPERTY JobsEnd
