CONSTANTS
    na = na
    na1 = na1
    na2 = na2
    build = build
    NoNode = NoNode
    NoSession = NoSession
    Nothing = Nothing
    Session <- MCSession
    Node <- MCNode
    NodeOf <- MCNodeOf
    Class <- MCClass
    NeedsChroot <- MCClass
    Capable <- MCCapable
    Slots <- MCSlots
    ChrootLimit <- MCChrootLimit
    Load = {0}
    Threshold = 1
    MaxCommands = 4
    Endings = {}
    MaxRequests = 2
    MaxLosses = 1
    Uninstantiable = {}
    Unforkable = {}
SPECIFICATION FairSystemSpec
PROPERTIES Answered SlotsRecovered NodesComeBack
