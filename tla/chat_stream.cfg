SPECIFICATION Spec
CONSTANTS
    a = a
    b = b
    d = d
    lobby = lobby
    home = home
    away = away
    ann = ann
    bob = bob
    eve = eve
    Rooms = {lobby}
    Clients = {a, b}
    Names = {ann, bob}
    IPs = {home}
    RoomOf <- PairRooms
    IPOf <- PairIPs
    NameOf <- PairNames
    SendCap = 2
    Speakers = {a, b}
    Steady = {b}
    HasStore = TRUE
    MaxMsgs = 2
    HistoryLimit = 2
    MaxPerIP = 2
    MaxTotal = 2
INVARIANTS
    StreamOrdered
    NothingSkipped
PROPERTY ImplementsFeed
CONSTRAINT Serving
