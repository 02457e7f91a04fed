SPECIFICATION FairSpec
CONSTANTS
    build = build
    test = test
    NoEvent = NoEvent
    Limit = 2
    Resume = 1
    Handoff = 1
    DriverCap = 1
    MaxEvents = 4
    Rules = {build, test}
    Matches <- Pattern
    WriteFails = TRUE
INVARIANTS TypeOK NoTriggerLost SummaryCountsLoss ClosedMeansDrained
PROPERTIES StopEnds ArmedRuns
INVARIANTS EveryEventCounted InOrder DropsUntilResume
CHECK_DEADLOCK FALSE
