SPECIFICATION IngestionSpec
CONSTANTS
    Nonces = {n1, n2}
    Targets <- MCTargets
    Processes = {"probe", "ci"}
    Keys <- MCKeys
    Registry <- MCRegistry
    Capabilities <- MCCapabilities
    MaxAge = 1
    Skew = 1
    Readings <- MCReadings
    Ahead = {0, 2}
    MaxSigned = 3
INVARIANTS OneObservationPerRequest RecordedIsAttested GenuineAnswerAdmitted
CHECK_DEADLOCK FALSE
SYMMETRY NonceSymmetry
