SPECIFICATION ApiSpec
CONSTANTS
    Contents <- MCContents
    Blank <- MCBlank
    Combine = FALSE
    ClientIds = {1, 2}
    Labs = {lab1, lab2}
    Addrs = {a1}
    Secrets = {s1}
    Requests = {r1, r2}
    Boot = boot
    NoClient = NoClient
SYMMETRY Symmetry
INVARIANTS NoDuplicateAddress FileIsCurrent
