SPECIFICATION Spec
CONSTANTS
    Databases = {1, 2, 3}
    Missing = 4
    Inputs <- MCInputs
    Versions <- MCVersions
    Dependencies <- MCDependencies
INVARIANTS VersionsRight  OrdersRight
\* A question is answered and that is the end of it.
CHECK_DEADLOCK FALSE
