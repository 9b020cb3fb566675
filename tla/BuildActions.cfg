SPECIFICATION Spec
CONSTANTS
    p1 = p1
    p2 = p2
    t1 = t1
    MaxId = 3
    Posters = {p1, p2}
    Taskers = {t1}
    Requests = {"start", "stop", "clone", "delete"}
    MaxMentions = 1
INVARIANTS Consistent SingleExecution
PROPERTIES FollowUpsTriggered FinishedFinal
SYMMETRY Symmetry
