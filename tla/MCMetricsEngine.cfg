SPECIFICATION Spec
CONSTANTS
    HistoryLimits <- MCHistoryLimits
    Values = {1, 2, 9}
    Permilles <- MCPermilles
    MaxPushes = 7
INVARIANTS
    SnapshotMatchesReport
    PercentilesMatchWindow
PROPERTY
    KeepsRollingWindow
