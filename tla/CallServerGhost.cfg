SPECIFICATION FairSpec
CONSTANTS
    Inbound = {}
    Outbound = {o1}
    Operators = {p1}
    Handlers = {h1}
    EventLoop = evt
    RelayLoop = relay
    Bridges = {}
    MaxCalls = 1
    NoOwner = noOwner
    NoRecord = noRecord
    NoBridge = noBridge
    NoThread = noThread
    NoCall = noCall
CHECK_DEADLOCK FALSE
PROPERTY
    EndedRecordGone
