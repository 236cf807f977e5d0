SPECIFICATION Spec
CONSTANTS
    b1 = b1
    b2 = b2
    s1 = s1
    s2 = s2
    r1 = r1
    k1 = k1
    k2 = k2
    Seasons = {s2}
    Runs = {}
    Backends = {k1}
    Battles = {b2}
    NoRun = NoRun
    SeasonOf <- MCSeasonOf
    RunOf <- MCRunOf
    RunSeason <- MCRunSeason
    BackendOf <- OneBackend
    Worst <- MCWorst
    Cap <- MCCap
    Opening <- MCOpening
    Bedrock <- MCBedrock
    Reported <- ExactOrOver
    Billed = {1, 6, 9}
    ToleranceFloor = 4
    Expiring <- AccountAndProvider
    MaxEpoch <- TwoEpochs
    MaxChecks = 3
INVARIANTS
    ExposureCoversInvoices
    AuthorityAgreesWithApplication
PROPERTIES
    SpendAuthorityNotRestored
CHECK_DEADLOCK FALSE
