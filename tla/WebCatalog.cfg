SPECIFICATION Spec
CONSTANTS
    Clients = {c1, c2}
    Plugins = {"p1", "p2"}
    Funs = {"f1", "f2"}
    Tools = {"t1", "t2"}
    Agents = {"main", "a1", "a2"}
    Main = "main"
    Seed <- MCSeed
    Digests = {"d2"}
    None = None
    MaxDepth = 2
    MaxOps = 3
    MaxFaults = 1
INVARIANTS ReferencesLive CacheFresh
PROPERTY BindingsKept
SYMMETRY Symmetry
CHECK_DEADLOCK FALSE
