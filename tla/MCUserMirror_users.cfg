SPECIFICATION MCFairSpec
CONSTANTS
    UserIds = {u1, u2}
    Names = {alice, bob}
    Labs = {lab1, lab2}
    Creds = {c1}
    Requests = {r1, r2}
    Solo = r1
    OneName = alice
    OneLab = lab1
    Boot = boot
    NoUser = NoUser
    RowIds = {1, 2, 3}
    MaxBatch = 2
INVARIANTS TypeOK Settled IInv
PROPERTIES PublishesCurrent DisableTakesEffect
