\* A managed Java runtime, the components and the launch plan.
CONSTANTS
    x = x
    y = y
    z = z
    v20 = v20
    v21 = v21
    forge = forge
    neo = neo
    ms = ms
    off = off
    Processes = {p1, p2}
    Parts = {java, lib}
    Needed = {java}
    NoProcess = NoProcess
    MaxOps = 4
    MaxFaults = 1
    Ids = {x, y, z}
    Manifests <- MCManifests
    MaxRevision = 2
    Versions = {v20, v21}
    Metadata <- MCMetadata
    Loaders = {forge, neo}
    LoaderMinimum <- MCMinimum
    NoLoader = NoLoader
    Bases <- MCBases
    Accounts = {ms, off}
    Hosts <- MCHosts
    NoRuntime = NoRuntime
    MaxUpdates = 3
SPECIFICATION MCSpec
INVARIANTS JavaInv CyclesFound EnabledIsLeast ActiveCorrect
    LaunchInv ClasspathComplete CommittedOverlayFits
PROPERTIES ChoiceKept
CHECK_DEADLOCK FALSE
