CONSTANTS
    Conns = {game1}
    OtherConns = {}
    None = None
    Backlog = 1
    Capacity = 2
    MaxLines = 0
    MaxStarts = 1
    MaxFaults = 0
    Threads = {t1}
    MaxPresents = 3
    MaxClock = 3
SPECIFICATION LiveSpec
INVARIANT GameSurvivesViewer
CHECK_DEADLOCK FALSE
