CONSTANTS
    Signers = {s1, s2}
    Threshold = 2
    UnverifiedQueryMax = 0
    AdditionalVerifiedQueryMax = 1
    QueryPerTransaction = 1
    Standings = {"balance"}
    Transactions = {0, 1}
    MaxFaults = 1
    MaxRequests = 2
    Lookups = {l1, l2}
    Numbers = {n1}
SPECIFICATION Spec
INVARIANTS SaltHasThreshold QuotaExceededOnlyByRaces RefusedOnlyWhenSpent NoneForgotten
SYMMETRY Symmetry
CHECK_DEADLOCK FALSE
