SPECIFICATION FairSpec
CONSTANTS
    Jobs = {dream, j1}
    SysJobs = {dream}
    Schedules <- MCSchedules
    Tasks = {t1, t2}
    Runners = {r1}
    MaxSleep = 1
    MaxTime = 2
    MaxOps = 4
    Absent = Absent
    NoStore = NoStore
    Corrupt = Corrupt
    NoTask = NoTask
    NoJob = NoJob
    Idle = Idle
INVARIANTS
    SingleTimer
    TickKeepsCache
    AlwaysArmed
PROPERTY
    DueJobRuns
CHECK_DEADLOCK FALSE
