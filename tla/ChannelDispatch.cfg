SPECIFICATION FairSpec
CONSTANTS
    Targets = {t1, t2, t3}
    Known = {t1, t2}
    FlagSets <- MCFlagSets
    SendProgress = TRUE
    SendToolHints = FALSE
    SendMaxRetries = 2
    MaxMsgs = 3
    NoMsg = NoMsg
INVARIANTS
    StreamsStaySeparate
PROPERTIES
    FifoPerChat
    EveryMessageDecided
