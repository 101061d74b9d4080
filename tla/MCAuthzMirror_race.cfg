SPECIFICATION MCSpec
CONSTANTS
    EndpointIds = {e1, e2}
    PolicyIds = {p1}
    Labs = {lab1}
    Macs = {m1, m2}
    Groups = {g1, g2}
    Attrs = {vlan10}
    NoAttrs = none
    Requests = {r1, r2}
    Boot = boot
    None = None
    MaxBatch = 1
    Scenes = {"one", "macs", "groups"}
SYMMETRY Symmetry
INVARIANTS Settled
PROPERTIES PublishesWanted
