SPECIFICATION Spec
CONSTANTS
    Services = {a}
    Threads = {t1}
    Slots = {1}
    None = None
CHECK_DEADLOCK FALSE
INVARIANT NeverCallsFreedTrampoline
