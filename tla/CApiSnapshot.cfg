SPECIFICATION ApiSpec
CONSTANTS
    LiveLimit = 2
    BenchLimit = 1
    FrameTimes = {5, 16}
    Seeds = {1}
    Horizon = 6
    MaxFrames = 3
    None = None
INVARIANT SnapshotIsOfCompletedBenchmark
