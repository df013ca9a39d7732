SPECIFICATION FairSpec
CONSTANTS
    Requesters = {r1, r2, r3}
    Workers = {w1, w2}
    Nobody = Nobody
INVARIANTS TypeOK OneWorker NoLostRequest NoLostWakeup StoppedClean
PROPERTIES ImplementsTask TerminateReturns ImplementsFairTask
