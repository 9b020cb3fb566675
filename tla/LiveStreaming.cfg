SPECIFICATION Spec
CONSTANTS
    Clients = {c1}
    MaxChunks = 3
INVARIANTS LogFaithful FileThenLive
PROPERTIES EventuallyHandled
\* The session ends.
CHECK_DEADLOCK FALSE
