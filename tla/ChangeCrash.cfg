SPECIFICATION Spec
CONSTANTS
    r1 = r1
    r2 = r2
    old = old
    new1 = new1
    new2 = new2
    other = other
    filter = filter
    nat = nat
    Nothing = Nothing
    NoState = NoState
    NoRun = NoRun
    Runs = {r1, r2}
    Kind = "authorized-keys"
    Parts = {filter}
    Rules = {old, new1, new2, other}
    Modes <- KeyModes
    InitTargets <- CrashInit
    Requested <- CrashRequested
    Foreign = {}
    Faults = {"write", "save", "restore", "undo", "arm", "stop", "isActive"}
    Early = TRUE
    Quiet = {}
    Typed = {"confirm"}
    KillPoints <- KillAny
    MaxEdits = 0
    MaxCrashes = 1
    MaxReboots = 1
SYMMETRY Symmetry
INVARIANTS AtMostOnePending
PROPERTIES ConfirmedStays
CHECK_DEADLOCK FALSE
