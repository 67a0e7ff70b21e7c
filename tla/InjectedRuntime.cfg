SPECIFICATION FairSpec
CONSTANTS
    Dlls = {d1, d2}
    Tools = {k1, k2}
    MaxCalls = 3
    MaxFailures = 1
    MaxLost = 1
    OldStatuses = {"running"}
    None = None
INVARIANTS TypeOK OneRuntime EventOutlivesOnlyFailures
PROPERTIES StatusTellsTheTruth StopIsHeeded
\* Every injector run has been made.
CHECK_DEADLOCK FALSE
