CONSTANTS
    Conns = {c1, c2}
    None = None
    Backlog = 1
    Capacity = 3
    MaxLines = 2
    MaxStarts = 2
    MaxFaults = 1
SPECIFICATION FairSpec
INVARIANTS FeedIsPrefix ClosedMeansReadToTheEnd StopLeavesNothing
PROPERTIES StopReturns LinesArrive ImplementsFeed
CHECK_DEADLOCK FALSE
