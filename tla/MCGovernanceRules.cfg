CONSTANTS
    MulPrecision = 2
    Proposers = {p}
    Voters = {a1}
    Payloads <- Amendments
    ConstitutionKeys <- Keys
    InitialParams <- OneByOne
    Deposits = {1}
    StartTime = 100
    MaxTime = 104
    MaxProposals = 2
    InitialGold = 1
    MaxGold = 1
    GoldMoves = {"lock", "unlock", "slash"}
SPECIFICATION Spec
INVARIANTS UpvotedGoldStaysLocked ReferendumGoldStaysLocked ParamsInRange
PROPERTY ExecutedHadSupport
CHECK_DEADLOCK FALSE
