SPECIFICATION Spec
CONSTANTS
    c1 = c1
    c2 = c2
    AutoPort = AutoPort
    Cmds = {c1, c2}
    Names = {1, 2}
    SpecOf <- AutoAndFixed
    Ports = {5, 6}
    Attempts = 2
    Overlap = FALSE
    Faults = {"pick", "check", "ssh", "save", "stop"}
    MaxMasters = 2
    MaxKills = 1
    MaxTaken = 2
SYMMETRY Symmetry
INVARIANTS TypeOK NoOrphan
PROPERTIES DownMeansStopped
CHECK_DEADLOCK FALSE
