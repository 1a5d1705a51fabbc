CONSTANTS
    t1 = t1
    t2 = t2
    web = web
    cron = cron
    nobody = nobody
    Threads = {t1, t2}
    Processes = {web}
    ProcessOf <- OneServer
    Server = web
    NoThread = nobody
    Interval = 2
    MaxEntries = 3
    MaxCrashes = 1
    MaxPowerLosses = 1
SPECIFICATION Spec
CHECK_DEADLOCK FALSE
SYMMETRY ServerThreads
VIEW Distinguished
INVARIANTS RemovalReported LogVerifies AnchorsFollowHead WitnessHoldsPublished
PROPERTY IntactLedgerVerifies
