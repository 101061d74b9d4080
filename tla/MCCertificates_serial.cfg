SPECIFICATION FairSpec
CONSTANTS
    Identities = {alice}
    Inter = inter
    RowIds = {r1, r2}
    Sweepers = {s1}
    None = None
    MaxSerial = 3
INVARIANTS TypeOK RevocationReachesCa
PROPERTIES CrlNeverForgets RevokedStaysRevoked RevocationIsPublished
