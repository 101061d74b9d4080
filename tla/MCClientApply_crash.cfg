SPECIFICATION CrashSpec
CONSTANTS
    Contents <- MCContents
    Blank <- MCBlank
    Combine = FALSE
    ClientIds = {1}
    Labs = {lab1}
    Addrs = {a1}
    Secrets = {s1}
    Requests = {r1}
    Boot = boot
    NoClient = NoClient
INVARIANT Applied
