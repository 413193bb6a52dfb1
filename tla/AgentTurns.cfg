SPECIFICATION FairSpec
CONSTANTS
    Turns = {"m1", "m2", "m3"}
    Ungated = {"m3"}
    Chats = {"a", "b"}
    Origins <- MCOrigins
    Permits = 1
    MaxSends = 1
    MaxFaults = 1
    NoChat = "none"
INVARIANTS
    ExchangesWhole
    CacheIsDurable
    RepliesWhenAlone
PROPERTIES
    HistoryOnlyGrows
    EveryTurnEnds
CHECK_DEADLOCK FALSE
