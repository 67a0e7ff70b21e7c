SPECIFICATION ViewerSpec
CONSTANTS
    Clients = {c1}
    None = None
    MaxSamples = 1
INVARIANT ShownStateIsTrue
CHECK_DEADLOCK FALSE
