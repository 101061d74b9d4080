SPECIFICATION MCFairSpec
CONSTANTS
    EndpointIds = {e1, e2}
    PolicyIds = {p1}
    Labs = {lab1}
    Macs = {m1, m2}
    Groups = {}
    Attrs = {vlan10}
    NoAttrs = none
    Requests = {r1}
    Boot = boot
    None = None
    MaxBatch = 1
    Scenes = {"all"}
INVARIANTS TypeOK Settled
PROPERTIES ChangeTakesEffect
