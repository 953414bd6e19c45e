SPECIFICATION Spec
CONSTANTS
    w1 = w1
    w2 = w2
    w3 = w3
    Workers <- MCWorkers
    Current <- MCCurrent
    MaxEvents = 4
    MaxCrashes = 1
    MaxLosses = 1
SYMMETRY CurrentSymmetry
INVARIANTS CollectsOnlyForActions RepeatsAreUnrecorded NoFalseAlarm
PROPERTIES CheckpointOnlyAdvances
CHECK_DEADLOCK FALSE
