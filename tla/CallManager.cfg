SPECIFICATION FairSpec
CONSTANTS
    Relays = {r1}
    Devices = {d1, d2}
    Callee = callee
    Handlers = {h1}
    EventLoop = evt
    AckLoop = ack
    NoRelay = {noRelay}
    NoDevice = noDevice
    NoSrtp = noSrtp
    Directions = {"outgoing", "incoming"}
CHECK_DEADLOCK FALSE
INVARIANTS
    TypeOK
    SrtpKeyedToAccepter
    SilenceStopped
    NoLostWakeup
    ActiveHasMedia
PROPERTIES
    LifecycleSpec
    AcceptedGoesOn
