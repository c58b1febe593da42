CONSTANTS
    a = a
    b = b
    c = c
    d = d
    A = A
    B = B
    Trove <- MCTrove
    Special <- MCSpecial
    PrepOnly = {}
    Package <- MCPackage
    Provides <- MCProvides
    PackageOf <- MCPackageOf
    Rejected = {}
    Binary <- MCPackage
    Output <- MCOutput
    Jobs <- MCJobs
    MissingDeps <- MCMissingDeps
    Outcomes = {"missingBuildReqs", "missingDeps", "resolveFailed", "buildFailed", "duplicate"}
    MaxResolving = 2
SPECIFICATION Spec
\* A finished job stops, and so does a stalled one.
CHECK_DEADLOCK FALSE
INVARIANTS TypeOK FailurePropagates OneBreaker BooksAgree BuiltOnce StalledOnlyByLeftovers
PROPERTIES ProvidersFirst NotDraggedInFlight FinalStays ReuseIsCurrent
