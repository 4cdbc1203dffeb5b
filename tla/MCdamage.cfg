SPECIFICATION FairSpec
CONSTANTS
    Cores = {c1}
    Paths = {mod, opt}
    Contents = {v1, v2}
    Bases = {vanilla, forge}
    Selections = {off, on}
    DefaultSelection = off
    MaxRevision = 2
    Desired <- DesiredDef
    BaseOf <- SameBase
    TxIds = {t1}
    Faults = {"damage"}
    Absent = Absent
    Torn = Torn
    UserFile = UserFile
    NoCore = NoCore
    t1 = t1
    c1 = c1
    mod = mod
    opt = opt
    v1 = v1
    v2 = v2
    off = off
    on = on
    vanilla = vanilla
    forge = forge
PROPERTY RepairConverges
