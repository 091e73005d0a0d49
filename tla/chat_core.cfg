SPECIFICATION Spec
CONSTANTS
    a = a
    b = b
    d = d
    lobby = lobby
    home = home
    away = away
    ann = ann
    bob = bob
    eve = eve
    Rooms = {lobby}
    Clients = {a, b, d}
    Names = {ann, bob, eve}
    IPs = {home, away}
    RoomOf <- TrioRooms
    IPOf <- TrioIPs
    NameOf <- TrioNames
    SendCap = 1
    Speakers = {b}
    Steady = {a}
    HasStore = FALSE
    MaxMsgs = 1
    HistoryLimit = 1
    MaxPerIP = 1
    MaxTotal = 2
INVARIANTS
    TypeOK
    SlotsBalanced
    RosterCovers
    RosterCurrent
CONSTRAINT Serving
