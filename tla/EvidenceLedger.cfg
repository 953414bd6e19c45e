SPECIFICATION LedgerSpec
CONSTANTS
    Kinds = {"runtime", "tests"}
    Collectors = {"probe", "ci", "executor"}
    Times <- MCTimes
    Recordable <- MCRecordable
    Grantable <- MCGrantable
    RequirementLists <- MCRequirementLists
    MaxEvidence = 3
INVARIANTS VerdictIsContract AssessmentsAgree
PROPERTIES SelfReportNeverHelps TimeOnlyExpires
CHECK_DEADLOCK FALSE
