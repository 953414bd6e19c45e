SPECIFICATION Spec
CONSTANTS
    Processes = {p1, p2}
    EventIds = {e1, e2}
    Bodies = {b1, b2}
    Replicas <- MCReplicas
    MaxAppends = 4
    MaxCrashes = 1
SYMMETRY ProcessSymmetry
INVARIANTS CopiesShareOneChain AckedIsReplicated ConflictsAreRaces MissingLinesAreTold
CHECK_DEADLOCK FALSE
