SPECIFICATION Spec
CHECK_DEADLOCK FALSE
CONSTANTS
    w1 = w1
    w2 = w2
    Workers = {w1, w2}
    MaxTasks = 2
    TaskUnits = 2
    MaxCrashes = 1
    HybridRace = TRUE
INVARIANTS SharesMatchWork NoShareLeftUncredited
PROPERTIES WorkKeepsLedger
SYMMETRY Symmetry
ACTION_CONSTRAINT SecondIsRace
