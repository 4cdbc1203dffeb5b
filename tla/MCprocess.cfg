SPECIFICATION FairSpec
CONSTANTS
    a = a
    b = b
    a1 = a1
    a2 = a2
    b1 = b1
    Managers = {a, b}
    Tasks = {a1, b1}
    ManagerOf <- ManagerOfDef
    Games = {g1, g2}
    IoErrors = TRUE
    NoTask = NoTask
    NoGame = NoGame
    NoManager = NoManager
INVARIANTS OneWatchedGame
PROPERTIES LiveRecordKept CallsReturn StopsHonoured
