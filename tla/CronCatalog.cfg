SPECIFICATION Spec
CONSTANTS
    Jobs = {dream, j1, j2}
    SysJobs = {dream}
    Schedules <- MCCatalogSchedules
    Tasks = {t1, t2}
    Runners = {r1}
    MaxSleep = 1
    MaxTime = 2
    MaxOps = 4
    Absent = Absent
    NoStore = NoStore
    Corrupt = Corrupt
    NoTask = NoTask
    NoJob = NoJob
    Idle = Idle
SYMMETRY MCCatalogSymmetry
PROPERTY
    CatalogRefined
CHECK_DEADLOCK FALSE
