SPECIFICATION FairSpec
CONSTANTS
    Scopes = {public}
    Controlled = {}
    MaxSnapshots = 1
    MaxJobs = 1
    Sessions = {a}
    Worker = worker
    None = None
    Votes = {vote}
    Retirements = {retirement}
    Crosschecks = {crosscheck}
    Audits = {}
CHECK_DEADLOCK FALSE
PROPERTIES
    SnapshotJobsEnd
    DriftIsWithdrawn
