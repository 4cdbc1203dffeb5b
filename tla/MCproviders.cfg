\* Two clients that synchronize and decide trust, stale servers, kills and an override.
CONSTANTS
    c1 = c1
    c2 = c2
    p1 = p1
    p2 = p2
    inst = inst
    k1 = k1
    k2 = k2
    NoFile = NoFile
    None = None
    Client = {c1, c2}
    Provider = {p1, p2}
    Pack = {inst}
    Key = {k1, k2}
    Transition <- TheTransitions
    Document <- TheDocuments
    Index <- TheIndexes
    Envelope <- TheEnvelopes
    StartTrust <- TheTrust
    StartRegistry <- TheRegistry
    Budgets <- PassBudgets
SPECIFICATION MCSpec
INVARIANTS SyncInv HighWaterCovers
PROPERTIES NoRollback HighWaterMonotone RevokedNeverSyncs OperationEnds
CHECK_DEADLOCK FALSE
