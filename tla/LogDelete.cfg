SPECIFICATION Spec
CONSTANTS
    w1 = w1
    w2 = w2
    w3 = w3
    d1 = d1
    Writers = {w1, w2, w3}
    Deleters = {d1}
    MaxSize = 2
    Keep = 2
    Lengths = {1}
    Faults = {}
    MaxRecords = 1
    MaxKills = 0
    MaxDeletions = 1
SYMMETRY Symmetry
INVARIANT LockExcludes
CHECK_DEADLOCK FALSE
