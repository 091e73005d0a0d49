SPECIFICATION FairSpec
CONSTANTS
    none = none
    s1 = s1
    s2 = s2
    s3 = s3
    s4 = s4
    NoSid = none
    Ids = {s1, s2, s3, s4}
    Seats = 3
    Validity = 3
    MaxRevoked = 1
INVARIANTS
    TypeOK
    SeatsBounded
    SessionReused
PROPERTIES
    SnapshotHonest
    Recovers
