SPECIFICATION Spec
CONSTANTS
    Options <- Plain
    Faults = {"write"}
    MaxSignals = 0
INVARIANTS LogErrorStopsGroup
CHECK_DEADLOCK FALSE
