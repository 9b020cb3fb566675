CONSTANTS
    a = a
    b = b
    c = c
    root = root
    user = user
    other = other
    None = None
    Names = {root, user, other}
    Root = root
    Clients = {a, b, c}
    Stoppable = {a}
    UserOf <- MCUserOf
SPECIFICATION FairChrootSpec
INVARIANTS ChrootConsistent
PROPERTIES AbortConcludes EventuallyEnded
\* all actions end
CHECK_DEADLOCK FALSE
