SPECIFICATION ReleaseSpec
CONSTANTS
    ExpectedScenarioCount = 24
    MinTaskSuccess = 9000
    MinCorrectEscalation = 9000
    MaxResults = 25
    MaxFaults = 1
CHECK_DEADLOCK FALSE
INVARIANTS
    ReleaseTypeOK
    PassIsEarned
