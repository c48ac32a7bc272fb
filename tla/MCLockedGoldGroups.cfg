CONSTANTS
    Accounts = {a1}
    Groups = {g1, g2}
    UNIT_PRECISION_FACTOR = 100
    maxNumGroupsVotedFor = 2
    maxElectableValidators = 4
    NumRegisteredValidators = 3
    GroupNumMembers <- OneMember
    LockedGoldRequirement <- RequireOne
    unlockingPeriod = 1
    MaxGold = 3
    MaxWithdrawals = 2
    MaxPenalty = 3
    MaxReward = 1
    MaxEpoch = 3
    MaxTime = 1
SPECIFICATION Spec
INVARIANTS TypeOK EligibleShowsVotes SlashFindsVotes GoldAccountedFor
SYMMETRY Symmetry
CHECK_DEADLOCK FALSE
