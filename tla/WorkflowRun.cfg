SPECIFICATION WorkflowSpec
CONSTANTS
    Keys = {"a", "b", "c"}
    Answers = {"c"}
    Doubled <- MCDoubled
    Bare <- MCBare
    Strays <- MCStrays
    MaxPuts = 2
    MaxRuns = 1
INVARIANTS InputsReady NeverStuck
CHECK_DEADLOCK FALSE
