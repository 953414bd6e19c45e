SPECIFICATION Spec
CONSTANTS
    Writers = {w1, w2}
    Envelopes <- MCEnvelopes
    Stamps <- MCStamps
    MaxObservations = 4
SYMMETRY WriterSymmetry
INVARIANTS LostRacesAreTold FalseAlarmsAreRaces VerifiedIsComplete
PROPERTIES ImplementsWitnessHistory
CHECK_DEADLOCK FALSE
