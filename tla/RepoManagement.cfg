SPECIFICATION Spec
CONSTANTS
    Dbs <- MCDbs
    NoDb = "none"
    RepoOf <- MCRepoOf
    DebugDb <- MCDebugDb
    Packages <- MCPackages
    AnyPackages = {"any"}
    DebugPackages = {"tool-debug"}
    DebugName <- MCDebugName
    Jobs <- MCJobs
    Job <- MCJob
    Listed0 <- MCListed0
    Files0 <- MCFiles0
    Together <- MCTogether
    Reloaded = {"stable64"}
    CopyFaults = TRUE
INVARIANTS RepositoryIntact NothingLeft
PROPERTIES  EventuallyConcluded
\* The jobs end; a job that stops before violates EventuallyConcluded.
CHECK_DEADLOCK FALSE
