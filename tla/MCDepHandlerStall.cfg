CONSTANTS
    a = a
    b = b
    c = c
    d = d
    A = A
    B = B
    Trove <- MCTrove
    Special <- MCSpecial
    PrepOnly = {}
    Package <- MCPackage
    Provides <- MCProvides
    PackageOf <- MCPackageOf
    Rejected = {}
    Binary <- MCPackage
    Output <- MCOutput
    Jobs <- PlainJobs
    MissingDeps <- MCMissingDeps
    Outcomes = {"missingDeps"}
    MaxResolving = 2
SPECIFICATION Spec
\* A finished job stops, and so does a stalled one.
CHECK_DEADLOCK FALSE
INVARIANT NeverStalled
