SPECIFICATION Spec
CONSTANTS
    foundry = foundry
    edge = edge
    pihole = pihole
    cert = cert
    Pushers = {edge}
    Probes = {cert}
    Limit <- MCLimit
    Blind <- MCBlind
    BestEffort <- MCBestEffort
    AlertEvery = 2
    Confirm = 1
    Heartbeat = 2
INVARIANT SilenceShows
PROPERTY OkIsRecent
