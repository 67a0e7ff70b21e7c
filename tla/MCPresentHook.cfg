SPECIFICATION FairSpec
CONSTANTS
    Services = {a, b}
    Threads = {t1, t2}
    Slots = {1, 2}
    None = None
\* The process may have crashed.
CHECK_DEADLOCK FALSE
INVARIANTS
    PatchedHasTrampoline
    DanglingOnlyInsideRemove
    QuietStateIsConsistent
    OnPresentIsExclusive
PROPERTY
    PresentReturns
