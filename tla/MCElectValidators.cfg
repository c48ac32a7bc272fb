CONSTANTS
    MulPrecision = 20
    minElectableValidators = 2
    maxElectableValidators = 4
    electabilityThreshold <- OneTenth
    MaxGroups = 5
    MaxVotes = 4
    MaxMembers = 2
    MaxOtherVotes = 1
SPECIFICATION Spec
INVARIANT SeatsByDHondt
PROPERTY Terminates
CHECK_DEADLOCK FALSE
