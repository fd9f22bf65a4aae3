\* One rank under fairness, two transactions, version 580 of the controller, reads announced by
\* the interconnect: the command path against power-down, self-refresh and refresh.
CONSTANTS
    NUM_RANKS = 1
    EVERY_OTHER = FALSE
    PD_ENABLE = TRUE
    ASREF_ENABLE = TRUE
    DMC_V580 = TRUE
    DMC_V590 = FALSE
    PD_PRD = 1
    ASREF_PRD = 2
    tPDE = 1
    tPDLP = 1
    tCSPD = 2
    tXP = 2
    tASREFE = 1
    tXSR = 2
    tPHYLPE = 1
    tPHYLPX = 1
    AnyCnt = {0}
    tCMD_PHY = 1
    t1 = t1
    t2 = t2
    Tasks = {t1, t2}
    NoTask = NoTask
    BURSTS = 2
    tCMD_WAKEUP = 1
    tCMD2SCH = 1
    cmd_cycle = 2
    pre_cycle = 2
    rw_cycle = 1
    tCMDPD = 1
    tRDPD = 2
    tRPPD = 2
    tRAS = 3
    tRTP = 2
    tRP = 2
    tRFC = 3
    ACT_LEAD = 1
    PAGE_TIMEOUT = 1
    AREF_EN = TRUE
    ABR_PSTPND_LEVEL = 2
    PSTPND_LIMIT = 3
    MaxPostponed = 3
    InformRanks = {0}
SPECIFICATION FairSpec
INVARIANTS
    TypeOK
    NoCmdInLpState
    QuietKept
    RefreshEnds
PROPERTIES
    AwakeUntilServed
    DramLegal
    WakesUp
    RefreshHappens
