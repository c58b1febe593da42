\* Two nodes, four commands.  Without a node or a command left to receive the
\* dispatcher waits, and a crashed one has ended: deadlock is not checked.
CONSTANTS
    n1 = n1
    n2 = n2
    build = build
    loadTrove = loadTrove
    NoNode = NoNode
    Session <- MCSession
    Class <- MCClass
    NeedsChroot <- MCNeedsChroot
    Capable <- MCCapable
    Slots <- MCSlots
    ChrootLimit <- MCChrootLimit
    Load = {0, 2}
    Threshold = 1
    MaxCommands = 4
SPECIFICATION Spec
CHECK_DEADLOCK FALSE
INVARIANTS
    TypeOK
    LedgerConsistent
    SlotBound
    QueueConsistent
    WorkConserving
    CrashOnlyByDoubleStop
PROPERTIES
    FifoWithinClass
