\* Two reads and a write of one address: the write waits for the younger read only.
CONSTANTS
    t1 = t1
    t2 = t2
    t3 = t3
    t4 = t4
    t5 = t5
    a1 = a1
    a2 = a2
    NoTask = NoTask
    Tasks = {t1, t2, t3}
    TestTasks = {}
    Addresses = {a1}
    TRANS_QUEUE_DEPTH = 3
    BEATS = 1
    BURSTS = 1
    EXEC_NUMBER = 1
    DRESP_BP_TH = 2
    RDATA_TYPE = 1
    tPIPE_PRE_DMC = 0
    AREF_EN = FALSE
SYMMETRY Symmetry
SPECIFICATION Spec
INVARIANTS
    OrderKept
