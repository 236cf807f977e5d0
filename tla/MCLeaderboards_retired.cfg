SPECIFICATION FairSpec
CONSTANTS
    Scopes = {controlled}
    Controlled = {controlled}
    MaxSnapshots = 1
    MaxJobs = 0
    Sessions = {a}
    Worker = worker
    None = None
    Votes = {}
    Retirements = {retirement}
    Crosschecks = {}
    Audits = {}
CHECK_DEADLOCK FALSE
PROPERTIES
    RetirementIsHonoured
