SPECIFICATION Spec
CONSTANTS
    w1 = w1
    w2 = w2
    w3 = w3
    d1 = d1
    Writers = {w1, w2}
    Deleters = {d1}
    MaxSize = 2
    Keep = 2
    Lengths = {2, 3}
    Faults = {"stat", "sync", "close", "remove", "rename", "open", "chmod", "write", "unlink"}
    MaxRecords = 2
    MaxKills = 1
    MaxDeletions = 2
PROPERTIES RotationDropsOldestOnly
SYMMETRY Symmetry
INVARIANTS TypeOK LockExcludesUnlessRaced KeepsTheNewest SizeBounded CountedOnce
CHECK_DEADLOCK FALSE
