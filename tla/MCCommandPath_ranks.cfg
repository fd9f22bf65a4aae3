\* Two ranks of LPDDR6 at a rate of at most 6400, a command every other cycle: ranks that block
\* each other, compete for CmdQueue and share the PHY. The self-refresh timer is shorter than the
\* power-down timer, so that no rank leaves power-down to refresh itself; no reads are announced, and
\* the times cover the command bus. These are the hypotheses of PhyAwakeHolds.
CONSTANTS
    NUM_RANKS = 2
    EVERY_OTHER = TRUE
    PD_ENABLE = TRUE
    ASREF_ENABLE = TRUE
    DMC_V580 = FALSE
    DMC_V590 = TRUE
    PD_PRD = 4
    ASREF_PRD = 1
    tPDE = 1
    tPDLP = 1
    tCSPD = 2
    tXP = 2
    tASREFE = 1
    tXSR = 2
    tPHYLPE = 1
    tPHYLPX = 1
    AnyCnt = {0, 3}
    tCMD_PHY = 2
    t1 = t1
    t2 = t2
    Tasks = {t1}
    NoTask = NoTask
    BURSTS = 2
    tCMD_WAKEUP = 1
    tCMD2SCH = 1
    cmd_cycle = 2
    pre_cycle = 2
    rw_cycle = 2
    tCMDPD = 1
    tRDPD = 3
    tRPPD = 2
    tRAS = 3
    tRTP = 2
    tRP = 2
    tRFC = 3
    ACT_LEAD = 1
    PAGE_TIMEOUT = 8
    AREF_EN = TRUE
    ABR_PSTPND_LEVEL = 2
    PSTPND_LIMIT = 3
    MaxPostponed = 2
    InformRanks = {}
SPECIFICATION Spec
INVARIANTS
    CommandNotLost
    PacketSorted
    PhyAwake
    LeavesInOddCycle
