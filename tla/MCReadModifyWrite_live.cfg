\* Mode 1 with merging: everything is answered.
CONSTANTS
    NTasks = 3
    Offers <- Blocks
    RMW_QUE_DEPTH = 3
    WRITE_MERGE_TIMEOUT = 3
    UNPAIRED_TO_RMW_EN = FALSE
    TRANS_QUEUE_DEPTH = 2
    Configs <- Mode1
SPECIFICATION FairSpec
PROPERTIES
    EveryCommandAnswered
