SPECIFICATION FairSpec
CONSTANTS
    r1 = r1
    r2 = r2
    m1 = m1
    m2 = m2
    nil = nil
    Route <- MCRoute
    DefaultRoute <- MCDefaultRoute
    Metric <- MCMetric
    DumpAll = FALSE
    MaxChanges = 3
INVARIANTS
    TypeOK
    NoSendOnClosed
    LogIsCurrent
    ConsumerOutlivesCallbacks
PROPERTIES
    SignalEndsRun
CHECK_DEADLOCK FALSE
