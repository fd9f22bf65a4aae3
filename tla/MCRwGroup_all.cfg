\* Read and write groups of one controller and of two.
CONSTANTS
    Configs <- MC_Configs
    Slots = {s1, s2}
    Watched = s1
    STAGES = 2
    WIDTH = 2
    ENGRP_LEVEL = 1
    EXGRP_LEVEL = 1
    CMD_LEVELL <- MC_CMD_LEVELL
    CMD_LEVELH <- MC_CMD_LEVELH
    SERIAL_LEVELL <- MC_SERIAL_LEVELL
    SERIAL_LEVELH <- MC_SERIAL_LEVELH
    GRPCHG_TH <- MC_GRPCHG_TH
    RLEVEL_R2W = 1
SPECIFICATION FairSpec
INVARIANTS
    GateOpens
PROPERTIES
    NobodyStarves
