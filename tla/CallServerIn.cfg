SPECIFICATION FairSpec
CONSTANTS
    Inbound = {i1}
    Outbound = {}
    Operators = {p1, p2}
    Handlers = {h1, h2}
    EventLoop = evt
    RelayLoop = relay
    Bridges = {}
    MaxCalls = 1
    NoOwner = noOwner
    NoRecord = noRecord
    NoBridge = noBridge
    NoThread = noThread
    NoCall = noCall
CHECK_DEADLOCK FALSE
INVARIANTS
    LiveCallPublished
    RegistrySound
PROPERTIES
    EndedLeavesBroker
