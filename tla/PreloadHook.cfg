CONSTANTS
    Conns = {game1, game2}
    OtherConns = {game2}
    None = None
    Backlog = 1
    Capacity = 2
    MaxLines = 0
    MaxStarts = 1
    MaxFaults = 0
    Threads = {t1, t2}
    MaxPresents = 3
    MaxClock = 2
SPECIFICATION LiveFairSpec
INVARIANTS GapsTelescope NoStaleDescriptor
PROPERTIES PresentReturns GoneGameIsNoticed
CHECK_DEADLOCK FALSE
