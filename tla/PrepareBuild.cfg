SPECIFICATION PrepareSpec
CONSTANTS
    Names = {1, 2, 3, 4}
    None = None
    Retries = 1
    Inputs <- MCInputs
    Orders <- MCOrders
INVARIANTS  DependenciesFirst BatchesRight
PROPERTIES EventuallyConcluded
\* The preparation comes to its end.
CHECK_DEADLOCK FALSE
