SPECIFICATION MCFairSpec
CONSTANTS
    Identities = {alice, mac}
    User = alice
    Mac = mac
    Replies = {vlan10}
    NoReply = NoReply
    Fragments = {vlan1}
    Nases = {backend, switch}
    Backend = backend
    Labs = {lab1}
    Oldest = lab1
    LabsOf <- MCLabsOf
    Devices <- MCDevices
    Tests = {t1}
    TestKinds = {"eap_tls", "mab"}
    Conns = 2
    Slack = 0
    MaxTime = 1
    MaxLines = 3
INVARIANTS TypeOK NothingElseIsLost ReportedWereGranted ReasonsAgree
PROPERTIES FeedIsImplemented LineIsPassed TestIsAnswered
