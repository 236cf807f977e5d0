SPECIFICATION Spec
CONSTANTS
    b1 = b1
    b2 = b2
    s1 = s1
    s2 = s2
    r1 = r1
    k1 = k1
    k2 = k2
    Seasons = {s1, s2}
    Runs = {r1}
    Backends = {k1, k2}
    Battles = {b1, b2}
    NoRun = NoRun
    SeasonOf <- MCSeasonOf
    RunOf <- MCRunOf
    RunSeason <- MCRunSeason
    BackendOf <- MCBackendOf
    Worst <- MCWorst
    Cap <- MCCap
    Opening <- MCOpening
    Bedrock <- MCBedrock
    Reported <- MCReported
    Billed = {}
    ToleranceFloor = 2
    Expiring = {}
    MaxEpoch <- TwoEpochs
    MaxChecks = 0
INVARIANTS
    TypeOK
    OverCapIsHalted
    AuditHolds
    AccountCarriesAllSeasons
CHECK_DEADLOCK FALSE
