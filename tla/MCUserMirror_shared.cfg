SPECIFICATION MCFaultFreeSpec
CONSTANTS
    UserIds = {u1, u2}
    Names = {alice}
    Labs = {lab1, lab2}
    Creds = {c1}
    Requests = {r1}
    Solo = r1
    OneName = alice
    OneLab = lab1
    Boot = boot
    NoUser = NoUser
    RowIds = {1, 2, 3, 4}
    MaxBatch = 1
INVARIANT ActiveIsAccepted
