CONSTANTS
    o1 = o1
    o2 = o2
    o3 = o3
    Addresses = {o1, o2, o3}
    NullAddress = NullAddress
    InitialOwners <- TwoOwners
    InitialRequired = 2
    InitialInternalRequired = 1
    MAX_OWNER_COUNT = 3
    Calls <- AllCalls
    MaxTransactions = 3
SPECIFICATION Spec
INVARIANT OwnersConsistent
PROPERTIES ExecutionIsConfirmed ExecutionIsFinal
CHECK_DEADLOCK FALSE
