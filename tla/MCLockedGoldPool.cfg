CONSTANTS
    Accounts = {a1, a2}
    Groups = {g1}
    UNIT_PRECISION_FACTOR = 100
    maxNumGroupsVotedFor = 2
    maxElectableValidators = 4
    NumRegisteredValidators = 2
    GroupNumMembers <- OneMember
    LockedGoldRequirement <- NoRequirement
    unlockingPeriod = 1
    MaxGold = 6
    MaxWithdrawals = 0
    MaxPenalty = 0
    MaxReward = 2
    MaxEpoch = 3
    MaxTime = 0
SPECIFICATION Spec
INVARIANTS TotalsAreSums PoolCoversVoters VotesAreListed
PROPERTY OthersTakeOnlyDust
SYMMETRY Symmetry
CHECK_DEADLOCK FALSE
