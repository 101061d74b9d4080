SPECIFICATION MCFairSpec
CONSTANTS
    Contents <- MCContents
    Blank <- MCBlank
    Combine = FALSE
    Labs = {lab1, lab2}
    Requests = {r1, r2}
    Solo = r1
    NoLab = NoLab
    MaxIssue = 2
INVARIANTS TypeOK TrustApplied BundleIsComplete
PROPERTIES NeverRollsBack ChangeIsTrusted
