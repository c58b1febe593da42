CONSTANTS
    na = na
    na1 = na1
    na2 = na2
    build = build
    NoNode = NoNode
    NoSession = NoSession
    Nothing = Nothing
    Session <- MCSession
    Node <- MCNode
    NodeOf <- MCNodeOf
    Class <- MCClass
    NeedsChroot <- MCClass
    Capable <- MCCapable
    Slots <- MCSlots
    ChrootLimit <- MCTwoChroots
    Load = {0}
    Threshold = 1
    MaxCommands = 3
    Endings = {"raises", "signal", "returns"}
    MaxRequests = 1
    MaxLosses = 1
    Uninstantiable = {}
    Unforkable = {build}
SPECIFICATION SystemSpec
CHECK_DEADLOCK FALSE
INVARIANTS SystemTypeOK ExistsOnce NoneForgotten ChargesAreReal
