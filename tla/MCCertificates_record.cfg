SPECIFICATION Spec
CONSTANTS
    Identities = {alice}
    Inter = inter
    RowIds = {r1, r2, r3}
    Sweepers = {s1}
    None = None
    MaxSerial = 3
INVARIANTS RevokedIsRecorded
