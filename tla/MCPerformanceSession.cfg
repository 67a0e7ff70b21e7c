SPECIFICATION Spec
CONSTANTS
    LiveLimit = 2
    BenchLimit = 1
    FrameTimes <- MCFrameTimes
    Seeds <- MCSeeds
    Horizon = 5
    MaxFrames = 3
    None = None
INVARIANTS
    LiveLogComplete
    BenchmarkIsSlice
    StoredSummaryIsCurrent
    WindowsFollowLogs
    NoTimeLost
PROPERTY
    NoPushLost
