SPECIFICATION FairSpec
CONSTANTS
    r1 = r1
    r2 = r2
    old = old
    new1 = new1
    new2 = new2
    other = other
    filter = filter
    nat = nat
    Nothing = Nothing
    NoState = NoState
    NoRun = NoRun
    Runs = {r1}
    Kind = "iptables"
    Parts = {filter, nat}
    Rules = {old, new1, new2, other}
    Modes <- TableModes
    InitTargets <- TableInit
    Requested <- TableRequested
    Foreign <- TableForeign
    Faults = {"restore", "arm", "isActive"}
    Early = FALSE
    Quiet <- TableQuiet
    Typed = {"confirm", "rollback"}
    KillPoints <- KillApply
    MaxEdits = 1
    MaxCrashes = 1
    MaxReboots = 1
PROPERTIES UnconfirmedIsUndone RollbackOverwritesOwn RefusesOnlyForeign ImplementsGuarded
CHECK_DEADLOCK FALSE
