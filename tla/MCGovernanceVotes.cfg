CONSTANTS
    MulPrecision = 2
    Proposers = {p}
    Voters = {a1, a2}
    Payloads <- OnePayment
    ConstitutionKeys <- NoKeys
    InitialParams <- OneByOne
    Deposits = {1}
    StartTime = 100
    MaxTime = 105
    MaxProposals = 2
    InitialGold = 0
    MaxGold = 2
    GoldMoves = {"lock"}
SPECIFICATION Spec
INVARIANTS SlotsConsistent InOnePlace UpvotesMatchRecords VoteTotalsMatchRecords DepositsAccountedFor
CHECK_DEADLOCK FALSE
SYMMETRY Symmetry
