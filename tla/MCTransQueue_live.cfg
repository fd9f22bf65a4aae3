\* Fair cycles, a queue of two for three commands and a test command: every command is served,
\* unless the gate is locked for another when the test command is due.
CONSTANTS
    t1 = t1
    t2 = t2
    t3 = t3
    t4 = t4
    t5 = t5
    a1 = a1
    a2 = a2
    NoTask = NoTask
    Tasks = {t1, t2}
    TestTasks = {t4}
    Addresses = {a1}
    TRANS_QUEUE_DEPTH = 2
    BEATS = 1
    BURSTS = 1
    EXEC_NUMBER = 1
    DRESP_BP_TH = 1
    RDATA_TYPE = 0
    tPIPE_PRE_DMC = 0
    AREF_EN = TRUE
SPECIFICATION FairSpec
PROPERTIES
    EveryCommandServed
