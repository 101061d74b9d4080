SPECIFICATION MCFairSpec
CONSTANTS
    Contents <- MCContents
    Blank <- MCBlank
    Combine = FALSE
    ClientIds = {1, 2}
    Labs = {lab1}
    Addrs = {a1}
    Secrets = {s1}
    Requests = {r1}
    Boot = boot
    NoClient = NoClient
    Names <- MCNames
    Lower <- MCLower
    Values <- MCValues
    EmptyValue = EmptyValue
    Unset = Unset
    Threads = {t1, t2}
    Policies = {p1}
    Bodies <- MCBodies
    Clients = {c1}
    Sink = Sink
    None = None
    MaxActions = 2
    MaxEdits = 1
    LabRequests = {q1, q2}
    LabNames <- MCLabNames
    Fold <- MCFold
    Empty = Empty
    Profile = profile
    Profiles = {profile}
    Ips = {ip1}
    AutoIp = AutoIp
    Wired = wired
    Wireless = wireless
    Rests = {wired, wireless}
    Absent = Absent
    MaxLabs = 2
    MaxLabChanges = 3
INVARIANTS TypeOK Applied SessionTypeOK AckWasApplied PushIsWhatAuthGrants RawPairWins LabTypeOK LabNamesDiffer LabKeepsWhatWasSet
PROPERTIES ChangeTakesEffect ActionIsAnswered
