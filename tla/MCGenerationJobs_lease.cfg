CONSTANTS
  Battles = {b1}
  Controlled = {b1}
  Workers = {w1, w2}
  Arms = {left, right}
  EpicureArms = {}
  MaxClaims = 2
  MaxRequests = 1
  MaxProviderAttempts = 2
  UnpricedUsage = TRUE
  NoWorker = NoWorker
  NoBattle = NoBattle
CHECK_DEADLOCK FALSE
SPECIFICATION Spec
SYMMETRY Symmetry
INVARIANTS
  TypeOK
  NoReplayOfBillableWork
  OnePayingWorker
  ReservationFollowsJob
  BattleFollowsJob
  StaleJobCanBeRecovered
PROPERTY SealedIsFinal
