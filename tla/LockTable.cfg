CONSTANTS
    r1 = r1
    r2 = r2
    w1 = w1
    a1 = a1
    n1 = n1
    n2 = n2
    None = None
    Clients = {r1, r2, w1, a1}
    Names = {n1, n2}
    NameOf <- MCNameOf
    Blocking = {r1, r2}
    Writers = {w1}
    Workers = 3
    MaxRequests = 1
    MaxClears = 2
SPECIFICATION FairSpec
INVARIANTS Consistent
PROPERTIES ErasedUnowned EventuallyAcquired ClearReturns
\* jobs and reloads may stop being started
CHECK_DEADLOCK FALSE
