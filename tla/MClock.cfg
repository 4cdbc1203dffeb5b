SPECIFICATION FairSpec
CONSTANTS
    a = a
    b = b
    a1 = a1
    a2 = a2
    b1 = b1
    Tasks = {a1, a2, b1}
    Managers = {a, b}
    ManagerOf <- ManagerOfDef
    IoErrors = TRUE
    NoOwner = NoOwner
    Torn = Torn
INVARIANTS MutualExclusion ReservationOwned OwnerIsHolder
PROPERTIES IsResourceLock AcquireReturns
