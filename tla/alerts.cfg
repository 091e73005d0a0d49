SPECIFICATION FairSpec
CONSTANTS
    foundry = foundry
    edge = edge
    pihole = pihole
    cert = cert
    Pushers = {}
    Probes = {pihole}
    Limit <- MCLimit
    Blind <- MCBlind
    BestEffort <- MCBestEffort
    AlertEvery = 1
    Confirm = 2
    Heartbeat = 3
INVARIANTS
    SettledIsPosted
    SilenceMeansTrouble
PROPERTIES
    NothingHasty
    LastWordIsRecovery
