CONSTANTS
    MulPrecision = 2
    Proposers = {p}
    Voters = {a1}
    Payloads <- OnePayment
    ConstitutionKeys <- NoKeys
    InitialParams <- Staggered
    Deposits = {1}
    StartTime = 100
    MaxTime = 106
    MaxProposals = 2
    InitialGold = 1
    MaxGold = 1
    GoldMoves = {"lock", "unlock"}
SPECIFICATION Spec
INVARIANT ReferendumGoldStaysLocked
CHECK_DEADLOCK FALSE
