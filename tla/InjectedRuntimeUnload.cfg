SPECIFICATION Spec
CONSTANTS
    Dlls = {d1}
    Tools = {k1}
    MaxCalls = 3
    MaxFailures = 0
    MaxLost = 0
    OldStatuses = {"absent"}
    None = None
INVARIANT EndingUnloads
CHECK_DEADLOCK FALSE
