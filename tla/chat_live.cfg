SPECIFICATION FairSpec
CONSTANTS
    a = a
    b = b
    d = d
    lobby = lobby
    home = home
    away = away
    ann = ann
    bob = bob
    eve = eve
    Rooms = {lobby}
    Clients = {a, b}
    Names = {ann}
    IPs = {home}
    RoomOf <- PairRooms
    IPOf <- PairIPs
    NameOf <- SameName
    SendCap = 1
    Speakers = {a}
    Steady = {b}
    HasStore = FALSE
    MaxMsgs = 1
    HistoryLimit = 1
    MaxPerIP = 2
    MaxTotal = 2
INVARIANT NoPanic
PROPERTIES
    SlotReturned
    QueuedIsWritten
    DroppedIsClosed
    SaidIsBroadcast
