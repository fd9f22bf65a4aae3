SPECIFICATION FairSpec
INVARIANTS CountersSound AddressOrder NoOrderError
 
CONSTANTS
    NTasks = 3
    Asks <- MC_Asks
    Configs <- MC_Configs
    WB_RDEPTH = 2
    WB_WDEPTH = 2
    TRANS_QUEUE_DEPTH = 2
    BEATS = 2
    RARB = 2
    WARB = 1
    GBUF_RCMD_TIMEOUT = 2
    GBUF_WCMD_PRIADAPT = 2
    wr_level <- MC_wr_level
    rd_level <- MC_rd_level
    WR_MOST_LEVEL = 2
    NO_CMD_SCH_TH = 1
    GAP <- MC_GAP
    IDLE_TRIG = 1
