SPECIFICATION Spec
CONSTANTS
    r1 = r1
    r2 = r2
    gwA = gwA
    gwB = gwB
    gwC = gwC
    NoVia = NoVia
    NoState = NoState
    NoRun = NoRun
    Runs = {r1}
    Slots = {100, 200, 300}
    Vias = {gwA, gwB, gwC}
    InitTables <- Backup
    Added <- AddThird
    Faults = {}
    Early = FALSE
    Overlap = FALSE
    KillPoints <- NoKill
    MaxEdits = 1
PROPERTIES RollbackKeepsBaseline
CHECK_DEADLOCK FALSE
