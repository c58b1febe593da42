CONSTANTS
    a = a
    b = b
    c = c
    p = p
    A = A
    B = B
    C = C
    Trove <- MCTrove
    Special = {}
    PrepOnly <- MCPrepOnly
    Package <- MCPackage
    Provides <- MCProvides
    PackageOf <- MCPackageOf
    Rejected = {}
    Binary <- MCPackage
    Output <- MCOutput
    Jobs <- MCJobs
    MissingDeps = {}
    Outcomes = {"missingBuildReqs", "resolveFailed", "buildFailed"}
    MaxResolving = 4
SPECIFICATION FairSpec
\* A finished job stops.
CHECK_DEADLOCK FALSE
PROPERTY JobEnds
