\* Two installations of one object, a prune, kills, and a server that changes it.
CONSTANTS
    i1 = i1
    i2 = i2
    i3 = i3
    a = a
    b = b
    NoFile = NoFile
    None = None
    Task <- SharedObject
    Object = {a, b}
    Process = {i1, i2, i3}
    ObjectOf <- TheObjectOf
    ProcessOf <- TheProcessOf
    Hashed = {a, b}
    Version = {1, 2}
    Chunks <- TheChunks
    Wanted = 1
    Retries = 2
    MaxFileSize = 2
    Concurrency = 1
    Budgets <- PassBudgets
SPECIFICATION MCSpec
INVARIANTS CacheInv RetryHeals
PROPERTIES OnlyValidatedPublished StableReferenceKept DownloadEnds
CHECK_DEADLOCK FALSE
