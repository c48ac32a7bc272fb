CONSTANTS
    i1 = i1
    i2 = i2
    Issuers = {i1, i2}
    ExpiryBlocks = 9
    SelectWaitBlocks = 1
    RetentionWindow = 1
    MaxAttestations = 2
    NumRequired = 2
    ThresholdInverse = 4
    Faults = {"throw", "slow", "kill", "lost", "crash", "sms"}
    ReachableSets <- AllReachable
    MaxBlock = 2
    MaxAttempts = 2
    MaxReceivers = 1
SPECIFICATION Spec
INVARIANTS VerifiedOnChain ProgressOnChain WaitedForCodeIsNew
CHECK_DEADLOCK FALSE
SYMMETRY Symmetry
