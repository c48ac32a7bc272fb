CONSTANTS
    s1 = s1
    s2 = s2
    s3 = s3
    v1 = v1
    v2 = v2
    Hashes = {h}
    Signers = {s1, s2, s3}
    signerToAccount <- SignerAccounts
    EpochSize = 2
    MaxBlock = 6
SPECIFICATION Spec
INVARIANT PreparedMeansQuorum
PROPERTY ExecutionIsFinal
CHECK_DEADLOCK FALSE
