SPECIFICATION FairSpec
CONSTANTS
    r1 = r1
    r2 = r2
    gwA = gwA
    gwB = gwB
    gwC = gwC
    NoVia = NoVia
    NoState = NoState
    NoRun = NoRun
    Runs = {r1}
    Slots = {100, 200}
    Vias = {gwA, gwB}
    InitTables <- EitherRoute
    Added <- AddSecond
    Faults = {"write", "netlink", "arm", "isActive", "stop"}
    Early = FALSE
    Overlap = FALSE
    KillPoints <- KillSwitch
    MaxEdits = 2
INVARIANTS TypeOK UnconfirmedIsGuarded CompletedIsRestored
PROPERTIES BackupRoutesUntouched UnconfirmedIsUndone

CHECK_DEADLOCK FALSE
