SPECIFICATION Spec
CONSTANTS
    Kinds = {"runtime", "tests"}
    Collectors = {"probe", "ci", "executor"}
    Times <- MCTimes
    RequirementLists <- MCRequirementLists
    Runners = {"deterministic", "gemini"}
    MaxAttempts = 2
    MaxCalls = 2
    MaxRetries = 1
    MaxLost = 1
INVARIANTS VerifiedIsEvidenced OutcomeExplained ActionAtMostOnce
PROPERTIES Terminates
CHECK_DEADLOCK FALSE
