----------------------------- MODULE CallManager -----------------------------
(***************************************************************************)
(* One call's engine: the CallManager of internal/voip/call, which         *)
(* createCall builds once per call.  The mutex m.mu is not a variable:     *)
(* every section the code runs under it is one action, and the points      *)
(* where the code releases it between two sections are thread labels.      *)
(*                                                                         *)
(* Threads.  The event loop delivers the WhatsApp call events of a session *)
(* one at a time; the ack loop is the goroutine StartCall leaves waiting   *)
(* for the answer to the offer; the others are request handlers, the ring  *)
(* timeout and the browser-ICE goroutine, which all come in through the    *)
(* registry.  The relay's OnOpen callbacks run on their own goroutines.    *)
(*                                                                         *)
(* The relay transport is modelled by its connection table; the details of *)
(* a connection's life are left to its own component.                      *)
(***************************************************************************)
EXTENDS CallState

CONSTANTS
    Directions,   \* the directions a call may have in this instance
    Relays,       \* usable relay endpoints
    Devices,      \* devices of the peer that may accept an outgoing call
    Callee,       \* the peer's own JID, before any device has accepted
    Handlers,     \* request, timer and ICE goroutines
    EventLoop,    \* the whatsmeow event loop
    AckLoop,      \* the goroutine that waits for the offer's ack
    NoRelay,      \* call.RelayData = nil: no set of relays
    NoDevice,     \* acceptedByJid = ""
    NoSrtp        \* srtpSession = nil

ASSUME ConstantsAssumption ==
    /\ Directions \subseteq {"outgoing", "incoming"}
    /\ EventLoop # AckLoop
    /\ EventLoop \notin Handlers /\ AckLoop \notin Handlers
    /\ NoRelay # {} /\ NoRelay \cap Relays = {}
    /\ NoDevice \notin Devices \cup {Callee}
    /\ \A s \in [peer : Devices \cup {Callee}, key : {"call", "peer"}] : NoSrtp # s

Threads == Handlers \cup {EventLoop, AckLoop}

VARIABLES
    dir,          \* call.Direction
    state,        \* call.StateData.State, or "none" while currentCall is nil
    key,          \* call.EncryptionKey # nil
    relayData,    \* call.RelayData: nil or its usable endpoints
    acceptedBy,   \* m.acceptedByJid
    srtp,         \* m.srtpSession: whose packets it opens, and with which key
    codec,        \* m.codec # nil
    keepalive,    \* m.keepaliveStop # nil: the silence goroutine runs
    preaccept,    \* m.outgoingPreacceptSent
    registered,   \* the session's registry still leads to this manager
    conn,         \* the relay's connection table
    torn,         \* relays removed from the table before they opened
    pending,      \* relays whose OnOpen has yet to call onRelayConnected
    th            \* what each thread is doing

call   == <<dir, state, key, relayData, acceptedBy>>
media  == <<srtp, codec, keepalive, preaccept>>
relay  == <<conn, torn, pending>>
vars   == <<call, media, registered, relay, th>>

Labels == {"idle",
           "offer",                       \* StartCall, after BuildOfferStanza
           "query",                       \* the ack goroutine in sock.Query
           "AcceptCall", "RejectCall", "EndCall", "HandleCallTerminate",
           "media",                       \* AcceptCall, after the accept stanza
           "accept", "accepted",          \* HandleCallAccept
           "transport",                   \* HandleCallTransport
           "connect",                     \* connectRelays
           "cleanup", "relaycleanup",     \* cleanupMedia
           "remove"}                      \* doReject, before removeCall

Idle == [pc |-> "idle", eps |-> {}, dev |-> NoDevice, has |-> FALSE, rej |-> FALSE]
At(t, l) == th[t].pc = l
Task(l, eps) == [Idle EXCEPT !.pc = l, !.eps = eps]
Become(t, s) == th' = [th EXCEPT ![t] = s]
Goto(t, l) == th' = [th EXCEPT ![t].pc = l]
Return(t) == Become(t, Idle)

HasConnection == \E r \in Relays : conn[r] = "open"

(* Mutants of InitSrtp: no fallback to the callee; the accepter is ignored. *)
InitSrtpNoFallback(accepter) ==
    IF key THEN [peer |-> accepter, key |-> "call"] ELSE srtp
InitSrtpCalleeOnly(accepter) ==
    IF key THEN [peer |-> Callee, key |-> "call"] ELSE srtp

(* initSrtpKeysLocked: the receive key belongs to the device that accepted,
   or to the callee while nobody has. *)
InitSrtp(accepter) ==
    IF key
    THEN [peer |-> IF accepter = NoDevice THEN Callee ELSE accepter, key |-> "call"]
    ELSE srtp

(* startSilenceKeepaliveLocked does nothing when the goroutine already runs
   or there is no codec. *)
StartKeepalive == keepalive \/ codec

Srtp == [peer : Devices \cup {Callee}, key : {"call", "peer"}]
ThreadState == [pc : Labels, eps : {NoRelay} \cup SUBSET Relays,
                dev : Devices \cup {NoDevice}, has : BOOLEAN, rej : BOOLEAN]

TypeOK ==
    /\ dir \in Directions
    /\ state \in CallStates \cup {"none"}
    /\ key \in BOOLEAN
    /\ relayData \in {NoRelay} \cup SUBSET Relays
    /\ acceptedBy \in Devices \cup {NoDevice}
    /\ srtp \in {NoSrtp} \cup Srtp
    /\ codec \in BOOLEAN /\ keepalive \in BOOLEAN /\ preaccept \in BOOLEAN
    /\ registered \in BOOLEAN
    /\ conn \in [Relays -> {"none", "connecting", "open"}]
    /\ torn \subseteq Relays
    /\ pending \subseteq Relays
    /\ th \in [Threads -> ThreadState]

Init ==
    /\ dir \in Directions
    /\ state = "none" /\ key = FALSE /\ relayData = NoRelay /\ acceptedBy = NoDevice
    /\ srtp = NoSrtp /\ codec = FALSE /\ keepalive = FALSE /\ preaccept = FALSE
    /\ registered = TRUE
    /\ conn = [r \in Relays |-> "none"] /\ torn = {} /\ pending = {}
    /\ th = [t \in Threads |-> Idle]

-----------------------------------------------------------------------------
(* Outgoing calls. *)

StartCall(t) ==
    /\ At(t, "idle") /\ dir = "outgoing" /\ state = "none"
    /\ state' = "initiating" /\ key' = TRUE
    /\ codec' \in BOOLEAN                    \* initCodec may fail
    /\ preaccept' = FALSE
    /\ Goto(t, "offer")
    /\ UNCHANGED <<dir, relayData, acceptedBy, srtp, keepalive, registered, relay>>

(* BuildOfferStanza failed: StartCall returns the error and startOutgoing
   takes the call out of the registry. *)
OfferFails(t) ==
    /\ At(t, "offer")
    /\ registered' = FALSE
    /\ Return(t)
    /\ UNCHANGED <<call, media, relay>>

OfferSent(t) ==
    /\ At(t, "offer")
    /\ state' = Apply(state, "offer_sent")
    /\ th' = [th EXCEPT ![t] = Idle, ![AckLoop].pc = "query"]
    /\ UNCHANGED <<dir, key, relayData, acceptedBy, media, registered, relay>>

(* The query fails or times out, or the ack is of another type, carries an
   error or no relays. *)
NoAck ==
    /\ At(AckLoop, "query")
    /\ Return(AckLoop)
    /\ UNCHANGED <<call, media, registered, relay>>

HandleCallAck(eps, participants) ==
    /\ At(AckLoop, "query")
    /\ relayData' = eps
    /\ srtp' = IF participants THEN InitSrtp(acceptedBy) ELSE srtp
    /\ preaccept' = (preaccept \/ dir = "outgoing")
    /\ Become(AckLoop, Task("connect", eps))
    /\ UNCHANGED <<dir, state, key, acceptedBy, codec, keepalive, registered, relay>>

-----------------------------------------------------------------------------
(* The relay transport. *)

(* connectRelays stops when buildRelayConfigs keeps none of the endpoints. *)
NoUsableRelays(t) ==
    /\ At(t, "connect") /\ th[t].eps = {}
    /\ Return(t)
    /\ UNCHANGED <<call, media, registered, relay>>

(* ConfigureRelays leaves a relay alone that is already in the table. *)
ConfigureRelay(t, r) ==
    /\ At(t, "connect") /\ r \in th[t].eps
    /\ conn' = [conn EXCEPT ![r] = IF @ = "none" THEN "connecting" ELSE @]
    /\ Become(t, IF th[t].eps = {r} THEN Idle ELSE Task("connect", th[t].eps \ {r}))
    /\ UNCHANGED <<call, media, registered, torn, pending>>

OnOpen(r) ==
    /\ conn[r] = "connecting"
    /\ conn' = [conn EXCEPT ![r] = "open"]
    /\ pending' = pending \cup {r}
    /\ UNCHANGED <<call, media, registered, torn, th>>

(* OnOpen of a connection that was already taken out of the table. *)
LateOnOpen(r) ==
    /\ r \in torn
    /\ torn' = torn \ {r}
    /\ pending' = pending \cup {r}
    /\ UNCHANGED <<call, media, registered, conn, th>>

(* The ICE state fails, the timeout passes or the channel closes. *)
LoseConnection(r) ==
    /\ conn[r] # "none"
    /\ conn' = [conn EXCEPT ![r] = "none"]
    /\ torn' = IF conn[r] = "connecting" THEN torn \cup {r} ELSE torn
    /\ UNCHANGED <<call, media, registered, pending, th>>

(* Mutant: the silence starts whatever the call's state. *)
onRelayConnectedEager(r) ==
    /\ r \in pending
    /\ pending' = pending \ {r}
    /\ state' = Apply(state, "media_connected") /\ keepalive' = StartKeepalive
    /\ UNCHANGED <<dir, key, relayData, acceptedBy, srtp, codec, preaccept,
                   registered, conn, torn, th>>

onRelayConnected(r) ==
    /\ r \in pending
    /\ pending' = pending \ {r}
    /\ IF state = "connecting"
       THEN state' = Apply(state, "media_connected") /\ keepalive' = StartKeepalive
       ELSE UNCHANGED <<state, keepalive>>
    /\ UNCHANGED <<dir, key, relayData, acceptedBy, srtp, codec, preaccept,
                   registered, conn, torn, th>>

-----------------------------------------------------------------------------
(* Requests, the ring timeout and the browser's ICE goroutine: each looks the
   call up in the registry and only then enters the manager. *)

Lookup(t, op) ==
    /\ At(t, "idle") /\ registered /\ state # "none"
    /\ Goto(t, op)
    /\ UNCHANGED <<call, media, registered, relay>>

(* teardownAllCalls empties the registry first and ends what it held after. *)
Drain(t) ==
    /\ At(t, "idle") /\ registered
    /\ registered' = FALSE
    /\ Goto(t, "EndCall")
    /\ UNCHANGED <<call, media, relay>>

AcceptCall(t) ==
    /\ At(t, "AcceptCall")
    /\ IF state = "incoming_ringing"          \* CanAccept
       THEN /\ state' = Apply(state, "local_accepted")
            /\ Become(t, Task("media", relayData))
       ELSE Return(t) /\ UNCHANGED state
    /\ UNCHANGED <<dir, key, relayData, acceptedBy, media, registered, relay>>

(* The endpoints are read through the pointer taken in AcceptCall, so a
   transport message that came in between is seen. *)
setupIncomingMedia(t) ==
    /\ At(t, "media") /\ th[t].eps # NoRelay
    /\ srtp' = InitSrtp(acceptedBy)
    /\ Become(t, Task("connect", relayData))
    /\ UNCHANGED <<call, codec, keepalive, preaccept, registered, relay>>

(* "media path waits for a transport message" *)
AcceptWithoutRelays(t) ==
    /\ At(t, "media") /\ th[t].eps = NoRelay
    /\ Return(t)
    /\ UNCHANGED <<call, media, registered, relay>>

(* An ended state reaches OnStateChange under m.mu, which takes the call out
   of the registry. *)
RejectCall(t) ==
    /\ At(t, "RejectCall")
    /\ state' = Apply(state, "local_rejected")
    /\ registered' = (registered /\ state' # "ended")
    /\ Become(t, [Idle EXCEPT !.pc = "cleanup", !.rej = TRUE])
    /\ UNCHANGED <<dir, key, relayData, acceptedBy, media, relay>>

EndCall(t) ==
    /\ At(t, "EndCall")
    /\ IF state \in {"none", "ended"}
       THEN Return(t) /\ UNCHANGED <<state, registered>>
       ELSE /\ state' = Apply(state, "terminated")
            /\ registered' = FALSE
            /\ Goto(t, "cleanup")
    /\ UNCHANGED <<dir, key, relayData, acceptedBy, media, relay>>

(* Mutant: the silence goroutine is left running. *)
cleanupMediaNotSilence(t) ==
    /\ At(t, "cleanup")
    /\ codec' = FALSE /\ srtp' = NoSrtp /\ preaccept' = FALSE
    /\ Goto(t, "relaycleanup")
    /\ UNCHANGED <<call, keepalive, registered, relay>>

cleanupMedia(t) ==
    /\ At(t, "cleanup")
    /\ codec' = FALSE /\ keepalive' = FALSE /\ srtp' = NoSrtp /\ preaccept' = FALSE
    /\ Goto(t, "relaycleanup")
    /\ UNCHANGED <<call, registered, relay>>

relayCleanup(t) ==
    /\ At(t, "relaycleanup")
    /\ conn' = [r \in Relays |-> "none"]
    /\ torn' = torn \cup {r \in Relays : conn[r] = "connecting"}
    /\ IF th[t].rej THEN Goto(t, "remove") ELSE Return(t)
    /\ UNCHANGED <<call, media, registered, pending>>

(* doReject removes the call whatever RejectCall did. *)
removeRejected(t) ==
    /\ At(t, "remove")
    /\ registered' = FALSE
    /\ Return(t)
    /\ UNCHANGED <<call, media, relay>>

-----------------------------------------------------------------------------
(* WhatsApp events. *)

HandleCallOffer(hasKey, rd) ==
    /\ At(EventLoop, "idle") /\ dir = "incoming" /\ state = "none"
    /\ state' = "incoming_ringing"
    /\ key' = hasKey /\ relayData' = rd
    /\ codec' \in BOOLEAN
    /\ UNCHANGED <<dir, acceptedBy, srtp, keepalive, preaccept, registered, relay, th>>

(* HandleCallAccept, up to its locked section: an accept that carries a
   different call key re-keys the session at once. *)
HandleCallAccept(d, otherKey) ==
    /\ At(EventLoop, "idle") /\ registered /\ state # "none"
    /\ srtp' = IF otherKey /\ key THEN [peer |-> d, key |-> "peer"] ELSE srtp
    /\ Become(EventLoop, [Idle EXCEPT !.pc = "accept", !.dev = d])
    /\ UNCHANGED <<call, codec, keepalive, preaccept, registered, relay>>

(* Mutants: an open relay is not noticed; no SRTP session is made. *)
remoteAcceptedBlind ==
    /\ At(EventLoop, "accept")
    /\ state' = Apply(state, "remote_accepted")
    /\ acceptedBy' = th[EventLoop].dev
    /\ srtp' = InitSrtp(th[EventLoop].dev)
    /\ Become(EventLoop, Task("accepted", relayData))
    /\ UNCHANGED <<dir, key, relayData, codec, keepalive, preaccept, registered, relay>>

remoteAcceptedNoSrtp ==
    /\ At(EventLoop, "accept")
    /\ state' = Apply(state, "remote_accepted")
    /\ acceptedBy' = th[EventLoop].dev
    /\ Become(EventLoop, [Task("accepted", relayData) EXCEPT !.has = HasConnection])
    /\ UNCHANGED <<dir, key, relayData, srtp, codec, keepalive, preaccept, registered, relay>>

remoteAccepted ==
    /\ At(EventLoop, "accept")
    /\ state' = Apply(state, "remote_accepted")
    /\ acceptedBy' = th[EventLoop].dev
    /\ srtp' = InitSrtp(th[EventLoop].dev)
    /\ Become(EventLoop, [Task("accepted", relayData) EXCEPT !.has = HasConnection])
    /\ UNCHANGED <<dir, key, relayData, codec, keepalive, preaccept, registered, relay>>

mediaPathUp ==
    /\ At(EventLoop, "accepted") /\ th[EventLoop].has
    /\ IF state \in ValidFrom("media_connected")
       THEN state' = Apply(state, "media_connected") /\ keepalive' = StartKeepalive
       ELSE UNCHANGED <<state, keepalive>>
    /\ Return(EventLoop)
    /\ UNCHANGED <<dir, key, relayData, acceptedBy, srtp, codec, preaccept,
                   registered, relay>>

mediaPathDown ==
    /\ At(EventLoop, "accepted") /\ ~th[EventLoop].has
    /\ Become(EventLoop, IF th[EventLoop].eps = NoRelay THEN Idle
                         ELSE Task("connect", th[EventLoop].eps))
    /\ UNCHANGED <<call, media, registered, relay>>

(* The endpoints a transport stanza lists carry no raw token (ExtractRelayEndpoints), so   *)
(* buildRelayConfigs uses none of them.                                                   *)
HandleCallTransport ==
    /\ At(EventLoop, "idle") /\ registered /\ state # "none" /\ ~HasConnection
    /\ Become(EventLoop, Task("transport", {}))
    /\ UNCHANGED <<call, media, registered, relay>>

setTransport ==
    /\ At(EventLoop, "transport")
    /\ relayData' = th[EventLoop].eps
    /\ Goto(EventLoop, "connect")
    /\ UNCHANGED <<dir, state, key, acceptedBy, media, registered, relay>>

HandleCallTerminate ==
    /\ At(EventLoop, "HandleCallTerminate")
    /\ state' = Apply(state, "terminated")
    /\ registered' = FALSE
    /\ Goto(EventLoop, "cleanup")
    /\ UNCHANGED <<dir, key, relayData, acceptedBy, media, relay>>

-----------------------------------------------------------------------------
(* What a thread does once it has begun a handler. *)
Continue(t) ==
    \/ OfferFails(t) \/ OfferSent(t)
    \/ NoUsableRelays(t) \/ \E r \in Relays : ConfigureRelay(t, r)
    \/ AcceptCall(t) \/ setupIncomingMedia(t) \/ AcceptWithoutRelays(t)
    \/ RejectCall(t) \/ EndCall(t)
    \/ cleanupMedia(t) \/ relayCleanup(t) \/ removeRejected(t)

ContinueEvent ==
    \/ remoteAccepted \/ mediaPathUp \/ mediaPathDown
    \/ setTransport \/ HandleCallTerminate

ContinueAck ==
    \/ NoAck
    \/ \E eps \in SUBSET Relays, parts \in BOOLEAN : HandleCallAck(eps, parts)

Next ==
    \/ \E t \in Handlers : StartCall(t)
    \/ \E t \in Handlers, op \in {"AcceptCall", "RejectCall", "EndCall"} : Lookup(t, op)
    \/ \E t \in Handlers : Drain(t)
    \/ Lookup(EventLoop, "HandleCallTerminate")
    \/ \E k \in BOOLEAN, rd \in {NoRelay} \cup SUBSET Relays : HandleCallOffer(k, rd)
    \/ \E d \in Devices, k \in BOOLEAN : HandleCallAccept(d, k)
    \/ HandleCallTransport
    \/ \E t \in Threads : Continue(t)
    \/ ContinueEvent
    \/ ContinueAck
    \/ \E r \in Relays : OnOpen(r) \/ LateOnOpen(r) \/ LoseConnection(r)
    \/ \E r \in Relays : onRelayConnected(r)

Spec == Init /\ [][Next]_vars

(* Goroutines that have begun a handler run on, the offer's query returns or
   times out, and an OnOpen callback that has started reaches the manager.
   Nothing is promised about the peer, the relays or the requests. *)
FairSpec ==
    /\ Spec
    /\ \A t \in Threads : WF_vars(Continue(t))
    /\ WF_vars(ContinueEvent) /\ WF_vars(ContinueAck)
    /\ \A r \in Relays : WF_vars(onRelayConnected(r))

-----------------------------------------------------------------------------
(* Properties. *)

(* Somebody is about to move a connecting call to active: an OnOpen callback
   on its way to onRelayConnected, or HandleCallAccept, which saw the relay
   open inside its locked section. *)
PromotionPending ==
    \/ pending # {}
    \/ At(EventLoop, "accepted") /\ th[EventLoop].has

(* No lost wake-up between HandleCallAccept and onRelayConnected: whenever an
   outgoing call has been accepted and a relay is open, its promotion to
   active is under way, in whichever order the accept, the ack and the relay
   arrived. *)
NoLostWakeup ==
    dir = "outgoing" /\ state = "connecting" /\ HasConnection => PromotionPending

(* A call is being torn down by cleanupMedia or was taken out of the
   registry: its media may be gone while its state still says otherwise. *)
TearingDown ==
    ~registered \/ \E t \in Threads : th[t].pc \in {"relaycleanup", "remove"}

(* An outgoing call that is active has the SRTP session its audio needs, as
   long as nobody is tearing it down (FeedCapturedPCM and onRelayData drop
   every frame without one). *)
ActiveHasMedia ==
    dir = "outgoing" /\ state = "active" => srtp # NoSrtp \/ TearingDown

(* Once a device has accepted, incoming audio is opened with that device's
   key under the call's own key, even when the ack is processed after the
   accept, a second device accepts, or AcceptCall sets the media up again. *)
SrtpKeyedToAccepter ==
    acceptedBy # NoDevice /\ srtp # NoSrtp /\ ~At(EventLoop, "accept")
        => srtp = [peer |-> acceptedBy, key |-> "call"]

(* An ended call holds no codec and no silence goroutine once the thread that
   ended it is past cleanupMedia, however late relay callbacks, acks and
   accepts come in. *)
SilenceStopped ==
    state = "ended" /\ (\A t \in Threads : ~At(t, "cleanup")) => ~codec /\ ~keepalive

(* The engine implements the lifecycle it promises: states in order, one end,
   and the silence goroutine started only on the way to active. *)
Lifecycle == INSTANCE CallLifecycle WITH silence <- keepalive
LifecycleSpec == Lifecycle!Spec

(* An accepted outgoing call with an open relay does not stay in connecting. *)
AcceptedGoesOn ==
    dir = "outgoing" /\ state = "connecting" /\ HasConnection ~> state # "connecting"

-----------------------------------------------------------------------------
(* The inductive invariant behind the safety properties. *)

(* Until StartCall or HandleCallOffer has created the call, only a drain of
   the registry may be under way and no media exists. *)
NothingBeforeTheCall ==
    state = "none" =>
        /\ \A t \in Threads : th[t].pc \in {"idle", "EndCall"}
        /\ srtp = NoSrtp /\ acceptedBy = NoDevice

(* The ack goroutine only queries and connects. *)
AckLoopLabels == th[AckLoop].pc \in {"idle", "query", "connect"}

(* Only an incoming call is ever in incoming_ringing. *)
OutgoingNeverRingsIn == dir = "outgoing" => state # "incoming_ringing"

(* SRTP sessions exist only under a call key, and an outgoing call has one. *)
KeyBeforeSrtp ==
    /\ srtp # NoSrtp => key
    /\ dir = "outgoing" /\ state # "none" => key

(* The accept handler knows which device it is about. *)
AccepterKnown == At(EventLoop, "accept") => th[EventLoop].dev # NoDevice

(* Whoever cleans up without having rejected has ended the call, which took it
   out of the registry. *)
EnderUnregistered ==
    \A t \in Threads :
        th[t].pc \in {"cleanup", "relaycleanup"} /\ ~th[t].rej => ~registered

AnsweredHasMedia ==
    dir = "outgoing" /\ state \in {"connecting", "active"}
        => srtp # NoSrtp \/ TearingDown

IndInv ==
    /\ TypeOK
    /\ NothingBeforeTheCall /\ AckLoopLabels /\ OutgoingNeverRingsIn
    /\ KeyBeforeSrtp /\ AccepterKnown /\ EnderUnregistered
    /\ AnsweredHasMedia /\ NoLostWakeup /\ SrtpKeyedToAccepter /\ SilenceStopped
=============================================================================
