SPECIFICATION Spec
CONSTANTS
    s = s
    c = c
    noAct = noAct
    Actions = {s, c}
    Proposed = {s}
    Texts = {s}
    NoAction = noAct
    MaxInWindow = 2
    Window = 2
    MinInterval = 1
    DupCooldown = 2
    MaxRecords = 2
    FailureThreshold = 1
    BaseCooldown = 1
    MaxCooldown = 2
    ProposalFailureLimit = 2
    ExternalPublishing = TRUE
    Approved = {s, c}
    Switches = {"offline_mode"}
    MaxTime = 3
    MaxRuns = 3
    MaxEdits = 2
    MaxCrashes = 1
INVARIANTS AdmissionsAreLimited JournalAccountsForNetwork FailuresAreContained
PROPERTIES SpoolKeepsUnpublished
CHECK_DEADLOCK FALSE
