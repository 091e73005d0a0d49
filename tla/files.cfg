SPECIFICATION FairSpec
CONSTANTS
    none = none
    absent = absent
    torn = torn
    p1 = p1
    p2 = p2
    p3 = p3
    p4 = p4
    p5 = p5
    p6 = p6
    Pairs = {p1, p2, p3, p4, p5, p6}
    NoPair = none
    Absent = absent
    Torn = torn
    MaxVisits = 2
INVARIANTS
    TypeOK
    OnlyBotched
PROPERTIES
    TrustHolds
    CountGrows
    ComesUp
