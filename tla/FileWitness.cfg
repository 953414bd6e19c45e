SPECIFICATION FilesSpec
CONSTANTS
    Writers = {w1, w2}
    Envelopes <- MCEnvelopes
    Stamps <- MCStamps
    MaxObservations = 5
    MaxInterruptions = 1
    MaxPowerFailures = 1
SYMMETRY WriterSymmetry
INVARIANTS CreatedIsNeverForgotten
PROPERTIES FilesImplementWitnessHistory
CHECK_DEADLOCK FALSE
