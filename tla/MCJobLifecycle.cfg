CONSTANTS
    client = client
    client2 = client2
    p1 = p1
    p2 = p2
    NoJob = NoJob
    NoRow = NoRow
    Job <- MCJob
    Path <- MCPath
    Client <- MCClient
    Event <- MCEvent
    Allowance <- MCAllowance
SPECIFICATION FairSpec
CHECK_DEADLOCK FALSE
INVARIANTS LifecycleTypeOK ChrootsHaveKeeper BuildingHasKeeper StopSticks FailsOnlyByDeletion CommittingHasClient
PROPERTIES ImplementsJobLife FinishedStays StartsWithinSlots QueuedJobsEnd
