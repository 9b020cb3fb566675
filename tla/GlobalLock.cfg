CONSTANTS
    c1 = c1
    c2 = c2
    c3 = c3
    None = None
    Clients = {c1, c2, c3}
    MayCall <- MCEverything
    MaxRequests = 2
SPECIFICATION FairSpec
INVARIANTS Consistent NoLostWakeup
PROPERTIES AsyncHandledFirst EventuallyAcquired ImplementsReaderWriterLock
\* clients may stop requesting the lock
CHECK_DEADLOCK FALSE
