SPECIFICATION Spec
CONSTANTS
    Conversation <- MCConversation
    MaxIterations = 3
    Budgets = {0, 12, 34}
    SnipFloor = 20
    Media = 8
    MaxResult = 12
    KeepRecent = 1
    MaxLookups = 1
    MaxEmpty = 2
    MaxLength = 1
    Tools = {"web_search", "spawn"}
    Menus <- MCMenus
    ResultSizes = {8, 20}
INVARIANTS
    RequestsLegal
    RequestKeepsTurn
    TranscriptSound
PROPERTY
    RunEnds
