----------------------------- MODULE CallServer -----------------------------
(***************************************************************************)
(* One session of the server: its call registry, the broker's call         *)
(* records, the audio bridges of the browsers and the goroutines that work *)
(* on them.                                                                *)
(*                                                                         *)
(* Of a call's engine (module CallManager) only the state machine and the  *)
(* mutex are kept.  OnStateChange runs under that mutex and talks to the   *)
(* registry and the broker, which have locks of their own, so the mutex is *)
(* a variable here and every access to registry or broker is one action.   *)
(*                                                                         *)
(* A goroutine is the sequence of the steps it still has to do; it is idle *)
(* when the sequence is empty.  The goroutine named after a call is its    *)
(* ring timeout, the one named after a bridge runs its OnTerminalICE.      *)
(***************************************************************************)
EXTENDS CallState, Naturals, Sequences, FiniteSets

CONSTANTS
    Inbound,     \* ids of the calls contacts may make
    Outbound,    \* ids GenerateCallID may return
    Operators,   \* client ids of browsers
    Handlers,    \* HTTP request goroutines
    EventLoop,   \* the whatsmeow event loop of the session
    RelayLoop,   \* the goroutine of the relay callbacks
    Bridges,     \* browser peer connections
    MaxCalls,    \* -max-calls-per-session
    NoOwner, NoRecord, NoBridge, NoThread, NoCall

Calls   == Inbound \cup Outbound
Threads == Handlers \cup {EventLoop, RelayLoop} \cup Calls \cup Bridges

(* What the broker says of a call. *)
Records == [owner : Operators \cup {NoOwner}, status : {"starting", "ringing", "connected"}]

ASSUME ServerAssumption ==
    /\ Inbound \cap Outbound = {}
    /\ MaxCalls \in Nat
    /\ NoOwner \notin Operators /\ NoBridge \notin Bridges /\ NoRecord \notin Records
    /\ NoThread \notin Threads /\ NoCall \notin Calls

(* No goroutine has two roles. *)
ASSUME RolesAssumption ==
    /\ EventLoop # RelayLoop
    /\ {EventLoop, RelayLoop} \cap (Handlers \cup Calls \cup Bridges) = {}
    /\ Handlers \cap Calls = {} /\ Handlers \cap Bridges = {} /\ Calls \cap Bridges = {}

VARIABLES
    st,         \* state of each call's engine, "none" before it has a call
    lock,       \* who holds the engine's mutex m.mu
    reg,        \* callRegistry.calls
    isInbound,  \* activeCall.inbound
    answered,   \* activeCall.answered
    bridge,     \* activeCall.bridge
    rec,        \* Broker.calls: owner and status of each record
    hist,       \* calls with a row in Broker.history
    missed,     \* calls noted in the chat as missed
    timer,      \* calls whose ring timeout is still waiting
    ofCall,     \* the call a bridge was created for
    open,       \* bridges whose peer connection is open
    th          \* goroutines

engine  == <<st, lock>>
active  == <<reg, isInbound, answered, bridge>>
broker  == <<rec, hist>>
bridges == <<ofCall, open>>
vars    == <<engine, active, broker, missed, timer, bridges, th>>

Idle == [k |-> <<>>, c |-> NoCall, o |-> NoOwner, snap |-> NoOwner,
         b |-> NoBridge, left |-> {}]
Start(t, k, c, o) == th' = [th EXCEPT ![t] = [Idle EXCEPT !.k = k, !.c = c, !.o = o]]
IsIdle(t) == th[t].k = <<>>
At(t, l) == ~IsIdle(t) /\ Head(th[t].k) = l
(* Do the steps ks and then the rest; give the request up. *)
Then(t, ks) == th' = [th EXCEPT ![t].k = ks \o Tail(@)]
Return(t) == th' = [th EXCEPT ![t] = Idle]

mapStatus(s) == CASE s = "active"     -> "connected"
                  [] s = "ended"      -> "ended"
                  [] s = "initiating" -> "starting"
                  [] OTHER            -> "ringing"

ownerActiveCall(o) == {c \in Calls : rec[c] # NoRecord /\ rec[c].owner = o}

(* Clients learn an id from the broker's events.  The peer learns of an outgoing
   call from the goroutine StartCall leaves behind when it returns. *)
Known(c) == rec[c] # NoRecord \/ c \in hist
Fresh(c) == st[c] = "none" /\ c \notin reg /\ \A t \in Threads : th[t].c # c
PeerKnows(c) ==
    /\ c \in reg /\ st[c] \notin {"none", "initiating"}
    /\ \A t \in Handlers : th[t].c = c => th[t].k \notin {<<"OnStateChange", "record">>,
                                                       <<"upsert", "record">>}

Steps == {"cap", "createCall", "StartCall", "offer", "record", "check", "claim",
          "AcceptCall", "RejectCall", "terminate", "EndCall", "HandleCallOffer",
          "OnIncoming", "inbound", "emitState", "HandleCallAccept",
          "HandleCallTerminate", "OnStateChange", "upsert", "remove", "note",
          "endCall", "setBridge", "close", "drained", "drain"}

Goroutines == [k : Seq(Steps), c : Calls \cup {NoCall},
               o : Operators \cup {NoOwner}, snap : Operators \cup {NoOwner},
               b : Bridges \cup {NoBridge}, left : SUBSET Calls]

TypeOK ==
    /\ st \in [Calls -> CallStates \cup {"none"}]
    /\ lock \in [Calls -> Threads \cup {NoThread}]
    /\ reg \subseteq Calls /\ isInbound \subseteq Calls /\ answered \subseteq Calls
    /\ bridge \in [Calls -> Bridges \cup {NoBridge}]
    /\ rec \in [Calls -> Records \cup {NoRecord}] /\ hist \subseteq Calls
    /\ missed \subseteq Calls /\ timer \subseteq Calls
    /\ ofCall \in [Bridges -> Calls \cup {NoCall}] /\ open \subseteq Bridges
    /\ th \in [Threads -> Goroutines]

Init ==
    /\ st = [c \in Calls |-> "none"] /\ lock = [c \in Calls |-> NoThread]
    /\ reg = {} /\ isInbound = {} /\ answered = {}
    /\ bridge = [c \in Calls |-> NoBridge]
    /\ rec = [c \in Calls |-> NoRecord] /\ hist = {}
    /\ missed = {} /\ timer = {}
    /\ ofCall = [b \in Bridges |-> NoCall] /\ open = {}
    /\ th = [t \in Threads |-> Idle]

-----------------------------------------------------------------------------
(* The engine's sections under m.mu.  Enter takes the mutex, makes the
   transition and calls OnStateChange, which releases it at its end. *)

Enter(t, c, s, ks) ==
    /\ lock[c] = NoThread
    /\ st' = [st EXCEPT ![c] = s]
    /\ lock' = [lock EXCEPT ![c] = t]
    /\ Then(t, <<"OnStateChange">> \o ks)

(* Mutant: an ended call is terminated through the registry. *)
OnStateChangeReentrant(t) ==
    LET c == th[t].c IN
    /\ At(t, "OnStateChange")
    /\ IF st[c] = "ended"
       THEN Then(t, <<"terminate", "remove", "endCall">>)
       ELSE th' = [th EXCEPT ![t].k = <<"upsert">> \o Tail(@),
                             ![t].snap = IF rec[c] = NoRecord THEN NoOwner ELSE rec[c].owner]
    /\ UNCHANGED <<engine, active, broker, missed, timer, bridges>>

(* OnStateChange: an ended call leaves the registry and the broker; the owner
   of any other is read from its record, to be written back with the status. *)
OnStateChange(t) ==
    LET c == th[t].c IN
    /\ At(t, "OnStateChange")
    /\ IF st[c] = "ended"
       THEN Then(t, <<"remove", "endCall">>) /\ UNCHANGED answered
       ELSE /\ answered' = IF st[c] = "active" /\ c \in reg THEN answered \cup {c} ELSE answered
            /\ th' = [th EXCEPT ![t].k = <<"upsert">> \o Tail(@),
                                ![t].snap = IF rec[c] = NoRecord THEN NoOwner ELSE rec[c].owner]
    /\ UNCHANGED <<engine, reg, isInbound, bridge, broker, missed, timer, bridges>>

upsert(t) ==
    LET c == th[t].c IN
    /\ At(t, "upsert")
    /\ rec' = [rec EXCEPT ![c] = [owner |-> th[t].snap, status |-> mapStatus(st[c])]]
    /\ lock' = [lock EXCEPT ![c] = NoThread]
    /\ Then(t, <<>>)
    /\ UNCHANGED <<st, active, hist, missed, timer, bridges>>

(* removeCall: out of the registry first, the rest after. *)
remove(t) ==
    LET c == th[t].c IN
    /\ At(t, "remove")
    /\ reg' = reg \ {c}
    /\ Then(t, IF c \in reg THEN <<"note">> ELSE <<>>)
    /\ UNCHANGED <<engine, isInbound, answered, bridge, broker, missed, timer, bridges>>

CloseBridgeOf(t, c) ==
    th' = [th EXCEPT ![t].k = (IF bridge[c] = NoBridge THEN <<>> ELSE <<"close">>) \o Tail(@),
                     ![t].b = bridge[c]]

(* The peer of a missed call comes from the broker's record. *)
note(t) ==
    LET c == th[t].c IN
    /\ At(t, "note")
    /\ missed' = IF rec[c] # NoRecord /\ c \in isInbound \ answered
                 THEN missed \cup {c} ELSE missed
    /\ CloseBridgeOf(t, c)
    /\ UNCHANGED <<engine, active, broker, timer, bridges>>

endCall(t) ==
    LET c == th[t].c IN
    /\ At(t, "endCall")
    /\ IF rec[c] = NoRecord THEN UNCHANGED broker
       ELSE rec' = [rec EXCEPT ![c] = NoRecord] /\ hist' = hist \cup {c}
    /\ lock' = [lock EXCEPT ![c] = IF @ = t THEN NoThread ELSE @]
    /\ Then(t, <<>>)
    /\ UNCHANGED <<st, active, missed, timer, bridges>>

(* OnTerminalICE starts a goroutine that terminates the call. *)
Terminating(b) == [Idle EXCEPT !.k = <<"terminate">>, !.c = ofCall[b]]

(* pc.Close: the ICE agent may report its closed state. *)
close(t) ==
    LET b == th[t].b IN
    /\ At(t, "close")
    /\ open' = open \ {b}
    /\ \/ Then(t, <<>>)
       \/ b \in open /\ IsIdle(b)
          /\ th' = [th EXCEPT ![t].k = Tail(@), ![b] = Terminating(b)]
    /\ UNCHANGED <<engine, active, broker, missed, timer, ofCall>>

-----------------------------------------------------------------------------
(* POST /calls. *)

doStartCall(t, o, c) ==
    /\ IsIdle(t) /\ Fresh(c)
    /\ ownerActiveCall(o) = {}
    /\ Start(t, <<"cap", "createCall", "StartCall", "offer", "record">>, c, o)
    /\ UNCHANGED <<engine, active, broker, missed, timer, bridges>>

cap(t) ==
    /\ At(t, "cap")
    /\ IF Cardinality(reg) < MaxCalls THEN Then(t, <<>>) ELSE Return(t)
    /\ UNCHANGED <<engine, active, broker, missed, timer, bridges>>

createCall(t) ==
    /\ At(t, "createCall")
    /\ reg' = reg \cup {th[t].c}
    /\ Then(t, <<>>)
    /\ UNCHANGED <<engine, isInbound, answered, bridge, broker, missed, timer, bridges>>

StartCall(t) ==
    /\ At(t, "StartCall")
    /\ st' = [st EXCEPT ![th[t].c] = "initiating"]
    /\ Then(t, <<>>)
    /\ UNCHANGED <<lock, active, broker, missed, timer, bridges>>

OfferFails(t) ==
    /\ At(t, "offer")
    /\ th' = [th EXCEPT ![t].k = <<"remove">>]
    /\ UNCHANGED <<engine, active, broker, missed, timer, bridges>>

OfferSent(t) ==
    LET c == th[t].c IN
    /\ At(t, "offer")
    /\ Enter(t, c, Apply(st[c], "offer_sent"), <<>>)
    /\ UNCHANGED <<active, broker, missed, timer, bridges>>

(* Mutant: startOutgoing forgets the ring timeout. *)
recordNoTimeout(t) ==
    /\ At(t, "record")
    /\ rec' = [rec EXCEPT ![th[t].c] = [owner |-> th[t].o, status |-> "ringing"]]
    /\ Return(t)
    /\ UNCHANGED <<engine, active, hist, missed, timer, bridges>>

(* The ring timeout starts, a minute away, and the record gets its owner. *)
record(t) ==
    /\ At(t, "record")
    /\ timer' = timer \cup {th[t].c}
    /\ rec' = [rec EXCEPT ![th[t].c] = [owner |-> th[t].o, status |-> "ringing"]]
    /\ Return(t)
    /\ UNCHANGED <<engine, active, hist, missed, bridges>>

-----------------------------------------------------------------------------
(* POST /calls/{id}/accept, reject, webrtc and DELETE /calls/{id}. *)

doAccept(t, c, o) ==
    /\ IsIdle(t) /\ Known(c) /\ c \in reg
    /\ Start(t, <<"check", "claim", "AcceptCall">>, c, o)
    /\ UNCHANGED <<engine, active, broker, missed, timer, bridges>>

(* ownerActiveCall returns any one of the operator's calls. *)
check(t) ==
    LET mine == ownerActiveCall(th[t].o) IN
    /\ At(t, "check")
    /\ \/ (mine = {} \/ th[t].c \in mine) /\ Then(t, <<>>)
       \/ mine \ {th[t].c} # {} /\ Return(t)
    /\ UNCHANGED <<engine, active, broker, missed, timer, bridges>>

setOwner(t) ==
    LET c == th[t].c IN
    /\ At(t, "claim")
    /\ IF rec[c] # NoRecord /\ rec[c].owner \in {NoOwner, th[t].o}
       THEN rec' = [rec EXCEPT ![c].owner = th[t].o] /\ Then(t, <<>>)
       ELSE Return(t) /\ UNCHANGED rec
    /\ UNCHANGED <<engine, active, hist, missed, timer, bridges>>

AcceptCall(t) ==
    LET c == th[t].c IN
    /\ At(t, "AcceptCall") /\ lock[c] = NoThread
    /\ IF st[c] = "incoming_ringing"
       THEN Enter(t, c, Apply(st[c], "local_accepted"), <<>>)
       ELSE Return(t) /\ UNCHANGED engine
    /\ UNCHANGED <<active, broker, missed, timer, bridges>>

doReject(t, c) ==
    /\ IsIdle(t) /\ Known(c)
    /\ Start(t, (IF c \in reg THEN <<"RejectCall">> ELSE <<>>) \o <<"remove", "endCall">>,
             c, NoOwner)
    /\ UNCHANGED <<engine, active, broker, missed, timer, bridges>>

RejectCall(t) ==
    LET c == th[t].c IN
    /\ At(t, "RejectCall")
    /\ Enter(t, c, Apply(st[c], "local_rejected"), <<>>)
    /\ UNCHANGED <<active, broker, missed, timer, bridges>>

doEndCall(t, c) ==
    /\ IsIdle(t) /\ Known(c)
    /\ Start(t, (IF c \in reg THEN <<"EndCall">> ELSE <<>>) \o <<"remove", "endCall">>,
             c, NoOwner)
    /\ UNCHANGED <<engine, active, broker, missed, timer, bridges>>

(* EndCall: the steps after OnStateChange are OnEnded. *)
EndCall(t) ==
    LET c == th[t].c IN
    /\ At(t, "EndCall") /\ lock[c] = NoThread
    /\ IF st[c] \in {"none", "ended"}
       THEN Then(t, <<>>) /\ UNCHANGED engine
       ELSE Enter(t, c, Apply(st[c], "terminated"), <<"remove", "endCall">>)
    /\ UNCHANGED <<active, broker, missed, timer, bridges>>

doWebRTC(t, c, b) ==
    /\ IsIdle(t) /\ Known(c) /\ c \in reg
    /\ ofCall[b] = NoCall
    /\ ofCall' = [ofCall EXCEPT ![b] = c] /\ open' = open \cup {b}
    /\ th' = [th EXCEPT ![t] = [Idle EXCEPT !.k = <<"setBridge">>, !.c = c, !.b = b]]
    /\ UNCHANGED <<engine, active, broker, missed, timer>>

(* Mutant: the bridge of a call that is gone is left open. *)
setBridgeNotFound(t) ==
    LET c == th[t].c
        gone == IF c \in reg THEN bridge[c] ELSE NoBridge
    IN  /\ At(t, "setBridge")
        /\ bridge' = IF c \in reg THEN [bridge EXCEPT ![c] = th[t].b] ELSE bridge
        /\ th' = [th EXCEPT ![t].k = IF gone = NoBridge THEN <<>> ELSE <<"close">>,
                            ![t].b = gone]
        /\ UNCHANGED <<engine, reg, isInbound, answered, broker, missed,
                       timer, bridges>>

(* The bridge that is replaced, or the new one of a call that is gone, is
   closed. *)
setBridge(t) ==
    LET c == th[t].c
        gone == IF c \in reg THEN bridge[c] ELSE th[t].b
    IN  /\ At(t, "setBridge")
        /\ bridge' = IF c \in reg THEN [bridge EXCEPT ![c] = th[t].b] ELSE bridge
        /\ th' = [th EXCEPT ![t].k = IF gone = NoBridge THEN <<>> ELSE <<"close">>,
                            ![t].b = gone]
        /\ UNCHANGED <<engine, reg, isInbound, answered, broker, missed,
                       timer, bridges>>

(* teardownAllCalls: the registry is emptied, then each call is ended and its
   bridge closed. *)
teardownAllCalls(t) ==
    /\ IsIdle(t) /\ reg # {}
    /\ reg' = {}
    /\ th' = [th EXCEPT ![t] = [Idle EXCEPT !.k = <<"drain">>, !.left = reg]]
    /\ UNCHANGED <<engine, isInbound, answered, bridge, broker, missed, timer, bridges>>

drain(t) ==
    /\ At(t, "drain")
    /\ \/ th[t].left = {} /\ Return(t)
       \/ \E c \in th[t].left :
            th' = [th EXCEPT ![t].k = <<"EndCall", "drained", "drain">>,
                             ![t].c = c, ![t].left = @ \ {c}]
    /\ UNCHANGED <<engine, active, broker, missed, timer, bridges>>

drained(t) ==
    /\ At(t, "drained")
    /\ CloseBridgeOf(t, th[t].c)
    /\ UNCHANGED <<engine, active, broker, missed, timer, bridges>>

-----------------------------------------------------------------------------
(* The ring timeout and the browser's ICE state. *)

(* cutIfStillRinging decides on the broker's record. *)
cutIfStillRinging(c) ==
    /\ c \in timer
    /\ timer' = timer \ {c}
    /\ IF rec[c] # NoRecord /\ rec[c].status = "ringing"
       THEN Start(c, <<"terminate">>, c, NoOwner)
       ELSE UNCHANGED th
    /\ UNCHANGED <<engine, active, broker, missed, bridges>>

OnTerminalICE(b) ==
    /\ b \in open /\ IsIdle(b)
    /\ th' = [th EXCEPT ![b] = Terminating(b)]
    /\ UNCHANGED <<engine, active, broker, missed, timer, bridges>>

terminateCall(t) ==
    /\ At(t, "terminate")
    /\ Then(t, IF th[t].c \in reg THEN <<"EndCall">> ELSE <<>>)
    /\ UNCHANGED <<engine, active, broker, missed, timer, bridges>>

-----------------------------------------------------------------------------
(* WhatsApp events and relay callbacks. *)

onIncomingOffer(c) ==
    /\ IsIdle(EventLoop) /\ Fresh(c)
    /\ Start(EventLoop, <<"cap", "createCall", "HandleCallOffer", "OnIncoming", "inbound",
                          "emitState">>, c, NoOwner)
    /\ UNCHANGED <<engine, active, broker, missed, timer, bridges>>

HandleCallOffer ==
    /\ At(EventLoop, "HandleCallOffer")
    /\ st' = [st EXCEPT ![th[EventLoop].c] = "incoming_ringing"]
    /\ Then(EventLoop, <<>>)
    /\ UNCHANGED <<lock, active, broker, missed, timer, bridges>>

OnIncoming ==
    /\ At(EventLoop, "OnIncoming")
    /\ rec' = [rec EXCEPT ![th[EventLoop].c] = [owner |-> NoOwner, status |-> "ringing"]]
    /\ Then(EventLoop, <<>>)
    /\ UNCHANGED <<engine, active, hist, missed, timer, bridges>>

markInbound ==
    LET c == th[EventLoop].c IN
    /\ At(EventLoop, "inbound")
    /\ isInbound' = IF c \in reg THEN isInbound \cup {c} ELSE isInbound
    /\ Then(EventLoop, <<>>)
    /\ UNCHANGED <<engine, reg, answered, bridge, broker, missed, timer, bridges>>

(* Mutant: HandleCallOffer stops after OnIncoming. *)
emitStateSkipped ==
    /\ At(EventLoop, "emitState")
    /\ Then(EventLoop, <<>>)
    /\ UNCHANGED <<engine, active, broker, missed, timer, bridges>>

emitState ==
    LET c == th[EventLoop].c IN
    /\ At(EventLoop, "emitState")
    /\ Enter(EventLoop, c, st[c], <<>>)
    /\ UNCHANGED <<active, broker, missed, timer, bridges>>

(* callForEvent finds the call in the registry; the handler runs after. *)
handleEvent(c, handler) ==
    /\ IsIdle(EventLoop) /\ PeerKnows(c)
    /\ Start(EventLoop, <<handler>>, c, NoOwner)
    /\ UNCHANGED <<engine, active, broker, missed, timer, bridges>>

HandleCallAccept ==
    LET c == th[EventLoop].c IN
    /\ At(EventLoop, "HandleCallAccept")
    /\ Enter(EventLoop, c, Apply(st[c], "remote_accepted"), <<>>)
    /\ UNCHANGED <<active, broker, missed, timer, bridges>>

(* Mutant: the end is left to OnEnded, outside the mutex. *)
HandleCallTerminateUnlocked ==
    LET c == th[EventLoop].c IN
    /\ At(EventLoop, "HandleCallTerminate") /\ lock[c] = NoThread
    /\ st' = [st EXCEPT ![c] = Apply(@, "terminated")]
    /\ Then(EventLoop, <<"remove", "endCall">>)
    /\ UNCHANGED <<lock, active, broker, missed, timer, bridges>>

HandleCallTerminate ==
    LET c == th[EventLoop].c IN
    /\ At(EventLoop, "HandleCallTerminate")
    /\ Enter(EventLoop, c, Apply(st[c], "terminated"), <<"remove", "endCall">>)
    /\ UNCHANGED <<active, broker, missed, timer, bridges>>

(* Mutant: the promotion to active is not published. *)
onRelayConnectedSilent(c) ==
    /\ lock[c] = NoThread /\ st[c] = "connecting"
    /\ st' = [st EXCEPT ![c] = Apply(@, "media_connected")]
    /\ UNCHANGED <<lock, active, broker, missed, timer, bridges, th>>

onRelayConnected(c) ==
    /\ IsIdle(RelayLoop) /\ lock[c] = NoThread /\ st[c] = "connecting"
    /\ st' = [st EXCEPT ![c] = Apply(@, "media_connected")]
    /\ lock' = [lock EXCEPT ![c] = RelayLoop]
    /\ Start(RelayLoop, <<"OnStateChange">>, c, NoOwner)
    /\ UNCHANGED <<active, broker, missed, timer, bridges>>

-----------------------------------------------------------------------------
Request(t) ==
    \/ \E o \in Operators, c \in Outbound : doStartCall(t, o, c)
    \/ \E o \in Operators, c \in Calls : doAccept(t, c, o)
    \/ \E c \in Calls : doReject(t, c) \/ doEndCall(t, c)
    \/ \E c \in Calls, b \in Bridges : doWebRTC(t, c, b)
    \/ teardownAllCalls(t)

Continue(t) ==
    \/ cap(t) \/ createCall(t) \/ StartCall(t) \/ OfferFails(t) \/ OfferSent(t)
    \/ record(t) \/ check(t) \/ setOwner(t) \/ AcceptCall(t)
    \/ RejectCall(t) \/ EndCall(t) \/ terminateCall(t)
    \/ OnStateChange(t) \/ upsert(t) \/ remove(t) \/ note(t) \/ endCall(t)
    \/ setBridge(t) \/ close(t) \/ drain(t) \/ drained(t)

ContinueEvent ==
    \/ HandleCallOffer \/ OnIncoming \/ markInbound \/ emitState
    \/ HandleCallAccept \/ HandleCallTerminate

Next ==
    \/ \E t \in Handlers : Request(t)
    \/ \E t \in Threads : Continue(t)
    \/ ContinueEvent
    \/ \E c \in Calls : cutIfStillRinging(c) \/ onRelayConnected(c)
    \/ \E b \in Bridges : OnTerminalICE(b)
    \/ \E c \in Inbound : onIncomingOffer(c)
    \/ \E c \in Calls, h \in {"HandleCallAccept", "HandleCallTerminate"} : handleEvent(c, h)

Spec == Init /\ [][Next]_vars

(* Goroutines run on and the ring timeout fires.  Peers, relays and browsers
   promise nothing. *)
FairSpec ==
    /\ Spec
    /\ \A t \in Threads : WF_vars(Continue(t))
    /\ WF_vars(ContinueEvent)
    /\ \A c \in Calls : WF_vars(cutIfStillRinging(c))

-----------------------------------------------------------------------------
(* Properties. *)

Live == {"ringing", "incoming_ringing", "connecting", "active"}

(* The event loop has yet to announce the incoming call. *)
Announcing(c) ==
    /\ th[EventLoop].c = c
    /\ \E i \in DOMAIN th[EventLoop].k : th[EventLoop].k[i] \in {"OnIncoming", "emitState"}

(* A registered call that is ringing or in progress has a record in the broker
   when nobody is inside its engine, and the record of an incoming call shows
   the engine's state: the record is what browsers, the ring timeout and
   ownerActiveCall go by. *)
LiveCallPublished ==
    \A c \in reg : lock[c] = NoThread /\ st[c] \in Live /\ ~Announcing(c) =>
        /\ rec[c] # NoRecord
        /\ c \in Inbound => rec[c].status = mapStatus(st[c])

(* Whoever ends a call takes it out of the registry before releasing the
   engine: no ended call keeps a slot of MaxCalls. *)
EndedLeavesRegistry ==
    \A c \in reg : st[c] = "ended" => lock[c] # NoThread

(* The session layer is type correct, and its registry lets ended calls go. *)
RegistrySound == TypeOK /\ EndedLeavesRegistry

(* The goroutine w has yet to attach or to close the bridge b. *)
Owes(w, b) ==
    \/ w.b = b /\ w.k # <<>> /\ Head(w.k) \in {"setBridge", "close"}
    \/ \E c \in Calls : bridge[c] = b /\
          \/ w.c = c /\ w.k # <<>> /\ Head(w.k) = "note"
          \/ c \in w.left
          \/ w.c = c /\ \E i \in DOMAIN w.k : w.k[i] = "drained"

(* A browser's peer connection stays open only while a registered call holds
   it, or somebody is on the way to attach it or to close it. *)
BridgeOwned ==
    \A b \in open : (\E c \in reg : bridge[c] = b) \/ \E t \in Threads : Owes(th[t], b)

(* Nobody stays inside an engine: OnStateChange calls registry, broker and
   bridge with m.mu held, and none of them comes back for it. *)
EngineReleased == \A c \in Calls : lock[c] # NoThread ~> lock[c] = NoThread

(* The safety net of watchRingTimeout: a registered outgoing call does not
   ring for ever. *)
RingingEnds ==
    \A c \in Outbound :
        c \in reg /\ st[c] = "ringing" ~> c \notin reg \/ st[c] # "ringing"

(* Once an incoming call has ended, its record leaves the broker for good. *)
EndedLeavesBroker ==
    \A c \in Inbound : st[c] = "ended" ~> [](rec[c] = NoRecord)

-----------------------------------------------------------------------------
(* What comments, tests and documentation say, and the code does not do. *)

(* cutIfStillRinging: if the call ended by any way, its record is gone, so no
   browser is left ringing for ever. *)
EndedRecordGone ==
    \A c \in Outbound : st[c] = "ended" ~> [](rec[c] = NoRecord)

-----------------------------------------------------------------------------
(* The inductive invariant. *)

Pending(w, ls) == \E i \in DOMAIN w.k : w.k[i] \in ls
Only(w, ls) == \A i \in DOMAIN w.k : w.k[i] \in ls

(* A call comes into being in one goroutine: first it is not registered yet, then its engine
   has no call yet, then the event loop announces the incoming one. *)
Registering ==
    {<<"cap", "createCall", "StartCall", "offer", "record">>,
     <<"createCall", "StartCall", "offer", "record">>,
     <<"cap", "createCall", "HandleCallOffer", "OnIncoming", "inbound", "emitState">>,
     <<"createCall", "HandleCallOffer", "OnIncoming", "inbound", "emitState">>}
Beginning ==
    {<<"StartCall", "offer", "record">>,
     <<"HandleCallOffer", "OnIncoming", "inbound", "emitState">>}
Announcements ==
    {<<"OnIncoming", "inbound", "emitState">>, <<"inbound", "emitState">>, <<"emitState">>}
Creating == Registering \cup Beginning

Draining == {"EndCall", "drained", "drain"}
DrainSteps == Draining \cup {"OnStateChange", "upsert", "remove", "note", "close", "endCall"}

(* The order of the steps goroutine t, being w, has left, the calls g being registered:
   whoever is to end a call's record has taken the call out of the registry or does so right
   before; teardownAllCalls drains to the end; the engine's callbacks come first. *)
OrderOf(t, w, g) ==
    /\ w.c \in Calls \/ Only(w, {"drain"})
    /\ \A i \in DOMAIN w.k : w.k[i] = "endCall" => (i > 1 /\ w.k[i - 1] = "remove") \/ w.c \notin g
    /\ \A i \in DOMAIN w.k : w.k[i] = "note" => i = 1 /\ w.c \notin g
    /\ \A i \in DOMAIN w.k : w.k[i] \in {"OnStateChange", "upsert"} => i = 1
    /\ \A i \in DOMAIN w.k : w.k[i] = "drain" => i = Len(w.k)
    /\ Pending(w, {"drained", "drain"}) => Only(w, DrainSteps) /\ t \in Handlers
    /\ w.left # {} => Pending(w, {"drain"})
    /\ Pending(w, {"cap", "createCall", "StartCall", "HandleCallOffer"}) => w.k \in Creating
    /\ Pending(w, {"OnIncoming", "inbound", "emitState"}) => w.k \in Creating \cup Announcements
Ordered == \A t \in Threads : OrderOf(t, th[t], reg)

(* Nobody but its creator and whoever drains the registry knows of a call without an engine. *)
Unpublished(c) ==
    /\ rec[c] = NoRecord /\ c \notin hist /\ c \notin timer /\ lock[c] = NoThread
    /\ bridge[c] = NoBridge /\ \A b \in Bridges : ofCall[b] # c
Births ==
    /\ \A c \in Calls : st[c] = "none" => Unpublished(c)
    /\ \A c \in Calls : st[c] = "none" /\ (c \in reg \/ \E u \in Threads : c \in th[u].left)
          => \E t \in Threads : th[t].c = c /\ th[t].k \in Beginning
    /\ \A t \in Threads : th[t].k \in Creating =>
          st[th[t].c] = "none" /\ \A u \in Threads \ {t} : th[u].c = th[t].c => Only(th[u], Draining)
    /\ \A t \in Threads : th[t].k \in Registering =>
          /\ th[t].c \notin reg
          /\ \A u \in Threads : th[t].c \notin th[u].left /\ (u # t => th[u].c # th[t].c)
    /\ \A t \in Threads : th[t].c \in Calls /\ st[th[t].c] = "none" =>
          th[t].k \in Creating \/ Only(th[t], Draining)

(* A ring timeout is started once, and its goroutine does nothing before it fires. *)
RingOnce ==
    /\ \A c \in timer : th[c] = Idle
    /\ \A c \in Calls : th[c] = Idle \/ th[c].c = c
    /\ \A t \in Threads : Pending(th[t], {"record"}) =>
          /\ th[t].c \in Outbound \ timer /\ th[th[t].c] = Idle
          /\ \A u \in Threads \ {t} : Pending(th[u], {"record"}) => th[u].c # th[t].c

(* Who is inside an engine is in its OnStateChange, and past the first step of it the engine's
   state is the one the step found. *)
Inside(w) ==
    /\ w.k # <<>>
    /\ \/ Head(w.k) \in {"OnStateChange", "upsert", "endCall"}
       \/ Head(w.k) \in {"remove", "note", "close"} /\ Len(w.k) > 1 /\ w.k[2] = "endCall"
Locked ==
    /\ \A c \in Calls : lock[c] # NoThread =>
          /\ th[lock[c]].c = c /\ Inside(th[lock[c]])
          /\ st[c] = "ended" \/ Head(th[lock[c]].k) \in {"OnStateChange", "upsert"}
    /\ \A t \in Threads :
          /\ At(t, "OnStateChange") \/ At(t, "upsert") => lock[th[t].c] = t
          /\ At(t, "upsert") => st[th[t].c] # "ended"

ServerInv ==
    /\ TypeOK /\ Ordered /\ Births /\ RingOnce /\ Locked
    /\ \A b \in open : ofCall[b] \in Calls
    /\ \A t \in Threads : Pending(th[t], {"OnIncoming", "emitState"}) => t = EventLoop
    /\ LiveCallPublished /\ EndedLeavesRegistry /\ BridgeOwned
=============================================================================
