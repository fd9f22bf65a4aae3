\* A refresh is forced for the banks that are left (SBR_REQ_MODE 1).
CONSTANTS
    Configs <- Forcing
    Tasks = {t1, t2}
    NoTask = NoTask
    PAIRS = 2
    SB_GROUPS = 2
    Wanted <- Two
    BURSTS = 1
    tRP = 2
    tRAS = 2
    tRTP = 1
    tRRD = 2
    tAAD = 1
    tRFCPB = 3
    tRFCAB = 4
    tPBR2PBR = 2
    tPBR2ACT = 2
    SBR_GAP_CNT = 1
    ACT_LEAD = 1
    tREFI = 14
    ABR_PSTPND_LEVEL = 2
    LIMIT = 3
SPECIFICATION Spec
INVARIANTS
    PostponedBounded
