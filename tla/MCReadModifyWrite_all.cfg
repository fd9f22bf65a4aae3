\* Every command mode, with and without merging and a refresh backlog.
CONSTANTS
    NTasks = 4
    Offers <- Mixed
    RMW_QUE_DEPTH = 3
    WRITE_MERGE_TIMEOUT = 3
    UNPAIRED_TO_RMW_EN = FALSE
    TRANS_QUEUE_DEPTH = 2
    Configs <- Modes
SPECIFICATION Spec
INVARIANTS
    QueueSound
    WdataKept
    OrdersInStep
    MergeReadFirst
PROPERTIES
    ConflictsOrdered
