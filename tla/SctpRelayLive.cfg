SPECIFICATION FairSpec
CONSTANTS
    Ids = {r1}
    Conns = {c1}
    Callers = {a1}
    Cleaner = cleaner
    NoId = noId
    NoConn = noConn
CHECK_DEADLOCK FALSE
PROPERTIES
    EntryResolved
    KeepaliveStops
