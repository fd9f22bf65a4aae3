\* Per-bank refresh of two pairs of banks, with all-bank refresh.
CONSTANTS
    Configs <- Modes
    Tasks = {t1, t2}
    NoTask = NoTask
    PAIRS = 2
    SB_GROUPS = 2
    Wanted <- Some
    BURSTS = 1
    tRP = 2
    tRAS = 2
    tRTP = 1
    tRRD = 2
    tAAD = 1
    tRFCPB = 3
    tRFCAB = 4
    tPBR2PBR = 2
    tPBR2ACT = 2
    SBR_GAP_CNT = 1
    ACT_LEAD = 1
    tREFI = 14
    ABR_PSTPND_LEVEL = 2
    LIMIT = 2
SPECIFICATION Spec
SYMMETRY Symmetry
INVARIANTS
    PairsSound
    RefreshOwed
    PostponedBounded
    CommandsLegal
