\* Transactions that change the base, failures, and what launches accept.
CONSTANTS
    x = x
    y = y
    z = z
    v20 = v20
    v21 = v21
    forge = forge
    neo = neo
    ms = ms
    off = off
    Processes = {p1, p2}
    Parts = {java, lib}
    Needed = {java}
    NoProcess = NoProcess
    MaxOps = 0
    MaxFaults = 1
    Ids = {x, y, z}
    Manifests <- MCManifests
    MaxRevision = 0
    Versions = {v20, v21}
    Metadata <- MCMetadata
    Loaders = {forge, neo}
    LoaderMinimum <- MCMinimum
    NoLoader = NoLoader
    Bases <- MCBases
    Accounts = {ms, off}
    Hosts <- MCHosts
    NoRuntime = NoRuntime
    MaxUpdates = 2
SPECIFICATION MCSpec
INVARIANT InstalledLaunches
CHECK_DEADLOCK FALSE
