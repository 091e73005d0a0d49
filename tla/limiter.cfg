SPECIFICATION Spec
CONSTANTS
    h1 = h1
    h2 = h2
    IPs = {h1, h2}
    Rate = 1
    Burst = 3
    TTL = 3
    Slack = 1
    MaxNow = 16
INVARIANTS
    TypeOK
    IdleForgotten
PROPERTY ImplementsBuckets
