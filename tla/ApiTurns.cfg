SPECIFICATION ApiFairSpec
CONSTANTS
    Requests = {r1, r2}
    Sessions = {s1, s2}
    MaxNew = 3
    MaxFailures = 1
    Legacy = Legacy
    NoSession = NoSession
    NoOne = NoOne
INVARIANTS
    NoSessionRace
    OutputsSaved
PROPERTY EveryRequestEnds
CHECK_DEADLOCK FALSE
