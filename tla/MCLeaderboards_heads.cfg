SPECIFICATION Spec
CONSTANTS
    Scopes = {controlled, public}
    Controlled = {controlled}
    MaxSnapshots = 2
    MaxJobs = 0
    Sessions = {a, b}
    Worker = worker
    None = None
    Votes = {}
    Retirements = {}
    Crosschecks = {}
    Audits = {audit}
CHECK_DEADLOCK FALSE
SYMMETRY Symmetry
INVARIANTS
    TypeOK
    NoHeadWithoutAuthority
PROPERTIES
    HeadIsReplacedKnowingly
    ServedIsCurrent
