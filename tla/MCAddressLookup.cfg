CONSTANTS
    Addresses = {1, 2, 3}
    Fetches = {f1, f2}
    MaxFetches = 3
    MaxComments = 1
    MaxChanges = 2
SPECIFICATION LookupSpec
INVARIANTS PaidAddressWasChosen ChosenAmongAllKnown
 
SYMMETRY Symmetry
CHECK_DEADLOCK FALSE
