\* Every mode of the ECC buffers, two lines each.
CONSTANTS
    NTasks = 5
    Cases <- All
    Pdus = {0, 1, 2, 3, 4}
    PDU_RD_DEPTH = 2
    PDU_WR_DEPTH = 2
    Sectors = {1, 2}
    TRANS_QUEUE_DEPTH = 2
    IECC_CONFLICT_CNT = 0
    MERGE_DEPTH = 1
    None = None
SPECIFICATION FairSpec
INVARIANTS
    LinesSound
    EccKept
    FreshEcc
    SentOnce
PROPERTIES
    EveryRequestAccepted
