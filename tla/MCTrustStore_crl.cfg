SPECIFICATION MCFaultFreeSpec
CONSTANTS
    Contents <- MCContents
    Blank <- MCBlank
    Combine = TRUE
    Labs = {lab1}
    Requests = {r1}
    Solo = r1
    NoLab = NoLab
    MaxIssue = 1
INVARIANT TrustApplied
