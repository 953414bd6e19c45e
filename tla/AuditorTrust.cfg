CONSTANTS
    k0 = k0  k1 = k1  k2 = k2
    a = a  b = b  c = c
    w1 = w1  w2 = w2  w3 = w3  w4 = w4
    Keys <- MCKeys
    Policies <- MCPolicies
    WitnessPolicies <- MCWitnessPolicies
    roots <- MCRoots
    MaxKeys = 2
    MaxPolicies = 2
    MaxRevocations = 2
    MaxSchedule = 2
    MaxGovernance = 2
    MaxSigned = 4
SYMMETRY Symmetry
SPECIFICATION Spec
INVARIANTS HeadDeterminesTrust SplitNeedsEquivocation TrustSurvives HandoffsSpareThePast
CHECK_DEADLOCK FALSE
