SPECIFICATION FairSpec
CONSTANTS
    MaxLogLines = 2
    MaxSockets = 3
    MaxSaid = 6
INVARIANTS
    LogIsRoom
    SwitchIsQuiet
PROPERTY LineShows
