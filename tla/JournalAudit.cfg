SPECIFICATION FairAuditSpec
CONSTANTS
    e1 = e1
    e2 = e2
    b1 = b1
    b2 = b2
    EventIds <- MCEventIds
    Bodies <- MCBodies
    Drafts <- MCDrafts
    Writers = {w1, w2}
    MAX_APPEND_ATTEMPTS = 2
    MaxTransactionRuns = 2
INVARIANTS ChainIntact RacesAreProgress VerifyChainExact
PROPERTIES ImplementsAppendLog AppendReturns
