SPECIFICATION Spec
CONSTANTS
    r1 = r1
    r2 = r2
    old = old
    new1 = new1
    new2 = new2
    other = other
    filter = filter
    nat = nat
    Nothing = Nothing
    NoState = NoState
    NoRun = NoRun
    Runs = {r1}
    Kind = "authorized-keys"
    Parts = {filter}
    Rules = {old, new1, new2, other}
    Modes <- KeyModes
    InitTargets <- KeyInit
    Requested <- KeyRequested
    Foreign <- KeyForeign
    Faults = {}
    Early = TRUE
    Quiet <- KeyQuiet
    Typed = {"confirm", "rollback"}
    KillPoints <- NoKill
    MaxEdits = 0
    MaxCrashes = 0
    MaxReboots = 0
INVARIANTS UnconfirmedIsGuarded
CHECK_DEADLOCK FALSE
