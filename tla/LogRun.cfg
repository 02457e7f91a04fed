SPECIFICATION FairSpec
CONSTANTS
    Options <- AllOptions
    Faults = {"open", "write", "start", "signal"}
    MaxSignals = 1
INVARIANTS TypeOK GroupStoppedBeforeRestart OneWriter ZeroMeansDone SignalPreventsAttempts
PROPERTIES Ends
CHECK_DEADLOCK FALSE
