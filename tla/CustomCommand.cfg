CONSTANTS
    a = a
    b = b
    c = c
    None = None
    Clients = {a, b, c}
    MaxName = 2
    Shared <- OrderedShared
    Exclusive <- OrderedExclusive
SPECIFICATION FairSpec
INVARIANTS Consistent
 
\* all actions end
CHECK_DEADLOCK FALSE
