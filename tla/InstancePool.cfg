SPECIFICATION Spec
CONSTANTS
    Plugins = {p1, p2}
    Calls = {c1, c2, c3}
    Instances = {i1, i2, i3}
    MaxPerPlugin = 1
    MaxLeaks = 1
    NoPlugin = NoPlugin
    NoInstance = NoInstance
INVARIANTS IdleIsReset InUseAccounted
