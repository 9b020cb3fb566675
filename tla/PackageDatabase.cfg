SPECIFICATION Spec
CONSTANTS
    Names = {"a", "b"}
    Versions = {1, 2}
    Provides <- MCProvides
    Requires <- MCRequires
    LibProvides <- MCLibProvides
    LibDepends <- MCLibDepends
    Readers = {r1}
    CacheLimit = 2
    MaxId = 3
    MaxUpdates = 2
INVARIANTS Consistent
PROPERTIES WritersKeepCoherence ReloadReplaces
CONSTRAINT ReloadWhenDamaged
