SPECIFICATION Spec
CONSTANTS
    Requests = {r1, r2}
    Agents = {1, 2, 3}
    Main = 1
    Children <- MCChildren
    Hooks <- MCHooks
    MaxTimes = 1
    Cap = 1
    MaxHops = 3
    MaxCalls = 2
    MaxResets = 1
    MaxSessions = 1
    MaxFaults = 1
INVARIANTS QuotaExact WithinLimit FailureIsFree TurnsApart NoReturn
PROPERTIES Settles
CHECK_DEADLOCK FALSE
