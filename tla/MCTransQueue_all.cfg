\* Three commands and a test command to two addresses, writes of two beats, transactions of two
\* column commands, a pipe in front of the queue, one response that stops new transactions.
CONSTANTS
    t1 = t1
    t2 = t2
    t3 = t3
    t4 = t4
    t5 = t5
    a1 = a1
    a2 = a2
    NoTask = NoTask
    Tasks = {t1, t2, t3}
    TestTasks = {t4}
    Addresses = {a1, a2}
    TRANS_QUEUE_DEPTH = 3
    BEATS = 2
    BURSTS = 2
    EXEC_NUMBER = 2
    DRESP_BP_TH = 1
    RDATA_TYPE = 0
    tPIPE_PRE_DMC = 1
    AREF_EN = TRUE
SYMMETRY Symmetry
SPECIFICATION Spec
INVARIANTS
    WdataSound
    OlderWritesFirst
    BlockerQueued
    AnswersSound
    DrespBounded
