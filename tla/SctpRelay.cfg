SPECIFICATION Spec
CONSTANTS
    Ids = {r1}
    Conns = {c1, c2}
    Callers = {a1, a2}
    Cleaner = cleaner
    NoId = noId
    NoConn = noConn
CHECK_DEADLOCK FALSE
SYMMETRY Symmetry
INVARIANTS
    TableSound
    NoPeerConnectionLost
