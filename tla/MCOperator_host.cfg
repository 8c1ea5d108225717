SPECIFICATION Spec
CONSTANTS
    d1 = d1
    noArg = noArg
    badArg = badArg
    Digests = {d1}
    NoDigest = noArg
    BadDigest = badArg
    MaxApproved = 1
    TextKinds = {"post"}
    TextlessKinds = {"like"}
    IdOrder <- Order
    Plans <- ArmPlans
    Grants <- GrantAsks
    Offers <- Proposals
    LocalOps <- Locals
    RemoteOps <- Remotes
    AccountDid = "entity"
    OperatorDid = "operator"
    NoDid = ""
    MaxRecords = 2
    MaxApplies = 1
    Tools = {"t1"}
    Commands = {"control", "sync", "poll", "arm", "disarm", "grant", "revoke_envelope"}
    InitControls <- Either
    InitPolicies <- SomePolicy
    MaxSeq = 2
    MaxCommands = 2
    MaxEmits = 2
    MaxFaults = 1
INVARIANTS AppliedWithoutGaps ReadyMeansAble
PROPERTIES InterruptedArmIsInert Obeyed
CHECK_DEADLOCK FALSE
