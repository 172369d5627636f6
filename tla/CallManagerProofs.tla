-------------------------- MODULE CallManagerProofs --------------------------
(***************************************************************************)
(* Proofs about CallManager, for every set of relays, devices and threads. *)
(***************************************************************************)
EXTENDS CallManager, TLAPS

-----------------------------------------------------------------------------
(* Type correctness. *)

(* A transition leads from a call state to a call state. *)
LEMMA ApplyType ==
  ASSUME NEW s \in CallStates \cup {"none"}, NEW t \in TransitionTypes
  PROVE  Apply(s, t) \in CallStates \cup {"none"}
  BY DEF Apply, Target, ValidFrom, CallStates, TransitionTypes

(* Where the handlers jump to. *)
LEMMA LabelSet ==
  {"offer", "query", "AcceptCall", "RejectCall", "EndCall", "HandleCallTerminate",
   "media", "accept", "accepted", "transport", "connect", "cleanup",
   "relaycleanup", "remove"} \subseteq Labels
  BY DEF Labels

(* The record of a thread that runs no handler. *)
LEMMA IdleType == Idle \in ThreadState
  BY DEF Idle, ThreadState, Labels

(* The records handlers leave behind. *)
LEMMA TaskType ==
  /\ \A l \in Labels, e \in {NoRelay} \cup SUBSET Relays : Task(l, e) \in ThreadState
  /\ [Idle EXCEPT !.pc = "cleanup", !.rej = TRUE] \in ThreadState
  /\ \A d \in Devices : [Idle EXCEPT !.pc = "accept", !.dev = d] \in ThreadState
  /\ \A e \in {NoRelay} \cup SUBSET Relays, h \in BOOLEAN :
        [Task("accepted", e) EXCEPT !.has = h] \in ThreadState
  BY DEF Task, Idle, ThreadState, Labels

(* What a thread carries. *)
LEMMA EpsType ==
  ASSUME TypeOK, NEW t \in Threads
  PROVE  /\ th[t].eps \in {NoRelay} \cup SUBSET Relays
         /\ th[t].dev \in Devices \cup {NoDevice}
  BY DEF TypeOK, ThreadState

(* Setting a thread's record keeps the type of th. *)
LEMMA BecomeType ==
  ASSUME TypeOK, NEW t \in Threads, NEW s \in ThreadState, Become(t, s)
  PROVE  th' \in [Threads -> ThreadState]
  BY DEF Become, TypeOK

(* A jump to a label keeps the type of th. *)
LEMMA GotoType ==
  ASSUME TypeOK, NEW t \in Threads, NEW l \in Labels, Goto(t, l)
  PROVE  th' \in [Threads -> ThreadState]
  BY DEF Goto, TypeOK, ThreadState

(* So does a return. *)
LEMMA ReturnType ==
  ASSUME TypeOK, NEW t \in Threads, Return(t)
  PROVE  th' \in [Threads -> ThreadState]
  BY IdleType DEF Return, Become, TypeOK

(* initSrtpKeysLocked leaves a session or nil. *)
LEMMA InitSrtpType ==
  ASSUME TypeOK, NEW d \in Devices \cup {NoDevice}
  PROVE  InitSrtp(d) \in {NoSrtp} \cup Srtp
  BY DEF InitSrtp, TypeOK, Srtp

(* Every step keeps every variable to its type. *)
LEMMA TypeStep == TypeOK /\ [Next]_vars => TypeOK'
<1> SUFFICES ASSUME TypeOK, [Next]_vars PROVE TypeOK'
  OBVIOUS
<1>1. ASSUME NEW t \in Handlers, StartCall(t) PROVE TypeOK'
  BY <1>1, GotoType, LabelSet
     DEF StartCall, CallStates, TypeOK, Threads, call, media, relay
<1>2. ASSUME NEW t \in Threads, OfferFails(t) PROVE TypeOK'
  BY <1>2, ReturnType
     DEF OfferFails, TypeOK, Threads, call, media, relay
<1>3. ASSUME NEW t \in Threads, OfferSent(t) PROVE TypeOK'
  <2>1. th' = [th EXCEPT ![t] = Idle, ![AckLoop].pc = "query"]
    BY <1>3 DEF OfferSent
  <2>2. th' \in [Threads -> ThreadState]
    BY <2>1, IdleType DEF TypeOK, Threads, ThreadState, Labels
  <2> QED
    BY <1>3, <2>2, ApplyType DEF OfferSent, TypeOK, TransitionTypes, media, relay
<1>4. CASE NoAck
  BY <1>4, ReturnType
     DEF NoAck, TypeOK, Threads, call, media, relay
<1>5. ASSUME NEW eps \in SUBSET Relays, NEW p \in BOOLEAN, HandleCallAck(eps, p) PROVE TypeOK'
  BY <1>5, BecomeType, TaskType, LabelSet, InitSrtpType
     DEF HandleCallAck, TypeOK, Threads, call, media, relay
<1>6. ASSUME NEW t \in Threads, NoUsableRelays(t) PROVE TypeOK'
  BY <1>6, ReturnType
     DEF NoUsableRelays, TypeOK, Threads, call, media, relay
<1>7. ASSUME NEW t \in Threads, NEW r \in Relays, ConfigureRelay(t, r) PROVE TypeOK'
  <2>1. CASE th[t].eps = {r}
    BY <1>7, <2>1, ReturnType
       DEF ConfigureRelay, Return, TypeOK, call, media, relay
  <2>2. CASE th[t].eps # {r}
    <3>1. PICK e \in {NoRelay} \cup SUBSET Relays : th[t].eps = e
      BY EpsType
    <3>2. e \ {r} \subseteq Relays
      BY <1>7, <3>1, ConstantsAssumption DEF ConfigureRelay
    <3>3. Become(t, Task("connect", e \ {r}))
      BY <1>7, <2>2, <3>1 DEF ConfigureRelay
    <3>4. th' \in [Threads -> ThreadState]
      BY <3>2, <3>3, BecomeType, TaskType, LabelSet
    <3> QED
      BY <1>7, <3>4 DEF ConfigureRelay, TypeOK, call, media, relay
  <2> QED
    BY <2>1, <2>2
<1>8. ASSUME NEW r \in Relays, OnOpen(r) \/ LateOnOpen(r) \/ LoseConnection(r) PROVE TypeOK'
  BY <1>8
     DEF OnOpen, LateOnOpen, LoseConnection, TypeOK, Threads, call, media, relay
<1>9. ASSUME NEW r \in Relays, onRelayConnected(r) PROVE TypeOK'
  BY <1>9, ApplyType
     DEF onRelayConnected, StartKeepalive, TransitionTypes, TypeOK, Threads, call, media, relay
<1>10. ASSUME NEW t \in Threads, NEW op \in {"AcceptCall", "RejectCall", "EndCall", "HandleCallTerminate"},
              Lookup(t, op)
       PROVE  TypeOK'
  BY <1>10, GotoType, LabelSet
     DEF Lookup, TypeOK, Threads, call, media, relay
<1>11. ASSUME NEW t \in Handlers, Drain(t) PROVE TypeOK'
  BY <1>11, GotoType, LabelSet
     DEF Drain, TypeOK, Threads, call, media, relay
<1>12. ASSUME NEW t \in Threads, AcceptCall(t) PROVE TypeOK'
  BY <1>12, ApplyType, ReturnType, BecomeType, TaskType, LabelSet
     DEF AcceptCall, TransitionTypes, TypeOK, Threads, call, media, relay
<1>13. ASSUME NEW t \in Threads, setupIncomingMedia(t) PROVE TypeOK'
  BY <1>13, BecomeType, TaskType, LabelSet, InitSrtpType
     DEF setupIncomingMedia, TypeOK, Threads, call, media, relay
<1>14. ASSUME NEW t \in Threads, AcceptWithoutRelays(t) PROVE TypeOK'
  BY <1>14, ReturnType
     DEF AcceptWithoutRelays, TypeOK, Threads, call, media, relay
<1>15. ASSUME NEW t \in Threads, RejectCall(t) PROVE TypeOK'
  BY <1>15, ApplyType, BecomeType, IdleType, TaskType
     DEF RejectCall, TransitionTypes, TypeOK, Threads, call, media, relay
<1>16. ASSUME NEW t \in Threads, EndCall(t) PROVE TypeOK'
  BY <1>16, ApplyType, GotoType, ReturnType, LabelSet
     DEF EndCall, TransitionTypes, TypeOK, Threads, call, media, relay
<1>17. ASSUME NEW t \in Threads, cleanupMedia(t) PROVE TypeOK'
  BY <1>17, GotoType, LabelSet
     DEF cleanupMedia, TypeOK, Threads, call, media, relay
<1>18. ASSUME NEW t \in Threads, relayCleanup(t) PROVE TypeOK'
  BY <1>18, GotoType, ReturnType, LabelSet
     DEF relayCleanup, TypeOK, Threads, call, media, relay
<1>19. ASSUME NEW t \in Threads, removeRejected(t) PROVE TypeOK'
  BY <1>19, ReturnType
     DEF removeRejected, TypeOK, Threads, call, media, relay
<1>20. ASSUME NEW k \in BOOLEAN, NEW rd \in {NoRelay} \cup SUBSET Relays,
              HandleCallOffer(k, rd)
       PROVE  TypeOK'
  BY <1>20
     DEF HandleCallOffer, CallStates, TypeOK, Threads, call, media, relay
<1>21. ASSUME NEW d \in Devices, NEW k \in BOOLEAN, HandleCallAccept(d, k) PROVE TypeOK'
  BY <1>21, BecomeType, TaskType
     DEF HandleCallAccept, Srtp, TypeOK, Threads, call, media, relay
<1>22. CASE remoteAccepted
  BY <1>22, ApplyType, InitSrtpType, BecomeType, TaskType, EpsType
     DEF remoteAccepted, HasConnection, TransitionTypes, TypeOK, Threads, call, media, relay
<1>23. CASE mediaPathUp
  BY <1>23, ApplyType, ReturnType
     DEF mediaPathUp, StartKeepalive, TransitionTypes, TypeOK, Threads, call, media, relay
<1>24. CASE mediaPathDown
  BY <1>24, BecomeType, IdleType, TaskType, LabelSet, EpsType
     DEF mediaPathDown, TypeOK, Threads, call, media, relay
<1>25. ASSUME HandleCallTransport PROVE TypeOK'
  BY <1>25, BecomeType, TaskType, LabelSet
     DEF HandleCallTransport, TypeOK, Threads, call, media, relay
<1>26. CASE setTransport
  BY <1>26, GotoType, LabelSet, EpsType
     DEF setTransport, TypeOK, Threads, call, media, relay
<1>27. CASE HandleCallTerminate
  BY <1>27, ApplyType, GotoType, LabelSet
     DEF HandleCallTerminate, TransitionTypes, TypeOK, Threads, call, media, relay
<1>28. CASE UNCHANGED vars
  BY <1>28 DEF vars, TypeOK, call, media, relay
<1> QED
  BY <1>1, <1>2, <1>3, <1>4, <1>5, <1>6, <1>7, <1>8, <1>9, <1>10, <1>11, <1>12, <1>13,
     <1>14, <1>15, <1>16, <1>17, <1>18, <1>19, <1>20, <1>21, <1>22, <1>23, <1>24, <1>25,
     <1>26, <1>27, <1>28
     DEF Next, Continue, ContinueEvent, ContinueAck, Threads

(* The fields of an idle thread's record and of a task's. *)
LEMMA IdleFields ==
  /\ Idle.pc = "idle" /\ ~Idle.rej /\ ~Idle.has
  /\ [Idle EXCEPT !.pc = "cleanup", !.rej = TRUE].pc = "cleanup"
  /\ [Idle EXCEPT !.pc = "cleanup", !.rej = TRUE].rej = TRUE
  /\ \A d : /\ [Idle EXCEPT !.pc = "accept", !.dev = d].pc = "accept"
            /\ [Idle EXCEPT !.pc = "accept", !.dev = d].dev = d
  BY DEF Idle

(* A task carries its label, no rejection, and what HandleCallAccept saw. *)
LEMMA TaskFields ==
  \A l, e :
     /\ Task(l, e).pc = l /\ ~Task(l, e).rej
     /\ \A h : /\ [Task(l, e) EXCEPT !.has = h].pc = l
               /\ [Task(l, e) EXCEPT !.has = h].has = h
  BY DEF Task, Idle

(* What a step of thread t does to th: t's record, and no other. *)
LEMMA BecomeAt ==
  ASSUME TypeOK, NEW t \in Threads, NEW s, Become(t, s)
  PROVE  th'[t] = s /\ \A u \in Threads : u # t => th'[u] = th[u]
  BY DEF Become, TypeOK

(* Goto changes the label of t's record and nothing else. *)
LEMMA GotoAt ==
  ASSUME TypeOK, NEW t \in Threads, NEW l, Goto(t, l)
  PROVE  /\ th'[t].pc = l /\ th'[t].rej = th[t].rej
         /\ th'[t].dev = th[t].dev /\ th'[t].has = th[t].has
         /\ \A u \in Threads : u # t => th'[u] = th[u]
  BY DEF Goto, TypeOK, ThreadState

(* Return leaves t idle. *)
LEMMA ReturnAt ==
  ASSUME TypeOK, NEW t \in Threads, Return(t)
  PROVE  /\ th'[t].pc = "idle" /\ th'[t].rej = FALSE /\ th'[t].has = FALSE
         /\ \A u \in Threads : u # t => th'[u] = th[u]
  BY BecomeAt, IdleFields DEF Return

(* initSrtpKeysLocked takes no session away, and keys a new one to the device
   it is given. *)
LEMMA InitSrtpKeys ==
  ASSUME TypeOK, NEW d \in Devices \cup {NoDevice}
  PROVE  /\ srtp # NoSrtp \/ key => InitSrtp(d) # NoSrtp
         /\ d # NoDevice /\ key => InitSrtp(d) = [peer |-> d, key |-> "call"]
         /\ ~key => InitSrtp(d) = srtp
  BY ConstantsAssumption DEF InitSrtp, TypeOK, Srtp

(* StartCall ends by leaving the ack goroutine in its query. *)
LEMMA OfferSentAt ==
  ASSUME TypeOK, NEW t \in Threads, OfferSent(t)
  PROVE  /\ t # AckLoop => th'[t].pc = "idle"
         /\ th'[AckLoop].pc = "query"
         /\ \A u \in Threads : u \notin {t, AckLoop} => th'[u] = th[u]
  BY IdleFields DEF OfferSent, TypeOK, Threads, ThreadState

(***************************************************************************)
(* The invariant.  Each action is taken through the conjuncts of IndInv;   *)
(* the first group is about threads, direction and keys, the other four    *)
(* are the parts the properties follow from.                               *)
(***************************************************************************)
LEMMA IndStep == IndInv /\ [Next]_vars => IndInv'
<1> SUFFICES ASSUME IndInv, [Next]_vars PROVE IndInv'
  OBVIOUS
<1>t. TypeOK /\ TypeOK'
  BY TypeStep DEF IndInv
<1>w. /\ EventLoop \in Threads /\ AckLoop \in Threads /\ EventLoop # AckLoop
      /\ Handlers \subseteq Threads
      /\ AckLoop \notin Handlers /\ EventLoop \notin Handlers
  BY ConstantsAssumption DEF Threads
<1>1. ASSUME NEW t \in Handlers, StartCall(t) PROVE IndInv'
  BY <1>1, <1>t, <1>w, GotoAt
     DEF IndInv, StartCall, At, call, media, relay, NothingBeforeTheCall,
         AckLoopLabels, OutgoingNeverRingsIn, KeyBeforeSrtp,
         AccepterKnown, EnderUnregistered, AnsweredHasMedia,
         TearingDown, NoLostWakeup, HasConnection, PromotionPending,
         SrtpKeyedToAccepter, SilenceStopped, TypeOK
<1>2. ASSUME NEW t \in Threads, OfferFails(t) PROVE IndInv'
  BY <1>2, <1>t, <1>w, ReturnAt
     DEF IndInv, OfferFails, At, call, media, relay, NothingBeforeTheCall,
         AckLoopLabels, OutgoingNeverRingsIn, KeyBeforeSrtp,
         AccepterKnown, EnderUnregistered, AnsweredHasMedia,
         TearingDown, NoLostWakeup, HasConnection, PromotionPending,
         SrtpKeyedToAccepter, SilenceStopped, TypeOK
<1>3. ASSUME NEW t \in Threads, OfferSent(t) PROVE IndInv'
  <2>0. /\ th[t].pc = "offer" /\ (t # AckLoop => th'[t].pc = "idle") /\ t # AckLoop
        /\ th[AckLoop].pc \in {"idle", "query", "connect"} /\ th'[AckLoop].pc = "query"
        /\ \A u \in Threads : u \notin {t, AckLoop} => th'[u] = th[u]
        /\ state' = IF state = "initiating" THEN "ringing" ELSE state
    BY <1>3, <1>t, <1>w, OfferSentAt
       DEF OfferSent, At, IndInv, AckLoopLabels, Apply, ValidFrom, Target
  <2>1. NothingBeforeTheCall' /\ AckLoopLabels' /\ OutgoingNeverRingsIn' /\
        KeyBeforeSrtp' /\ AccepterKnown' /\ EnderUnregistered'
    BY <1>3, <1>t, <1>w, <2>0
       DEF IndInv, OfferSent, At, call, media, relay, NothingBeforeTheCall,
           AckLoopLabels, OutgoingNeverRingsIn, KeyBeforeSrtp,
           AccepterKnown, EnderUnregistered, TypeOK
  <2>2. AnsweredHasMedia'
    BY <1>3, <1>t, <1>w, <2>0
       DEF IndInv, OfferSent, At, call, media, relay, AnsweredHasMedia,
           TearingDown, TypeOK
  <2>3. NoLostWakeup'
    BY <1>3, <1>t, <1>w, <2>0
       DEF IndInv, OfferSent, At, call, media, relay, NoLostWakeup,
           HasConnection, PromotionPending, TypeOK
  <2>4. SrtpKeyedToAccepter'
    BY <1>3, <1>t, <1>w, <2>0
       DEF IndInv, OfferSent, At, call, media, relay, SrtpKeyedToAccepter,
           TypeOK
  <2>5. SilenceStopped'
    BY <1>3, <1>t, <1>w, <2>0
       DEF IndInv, OfferSent, At, call, media, relay, SilenceStopped, TypeOK
  <2> QED
    BY <1>t, <2>1, <2>2, <2>3, <2>4, <2>5 DEF IndInv
<1>4. CASE NoAck
  BY <1>4, <1>t, <1>w, ReturnAt
     DEF IndInv, NoAck, At, call, media, relay, NothingBeforeTheCall,
         AckLoopLabels, OutgoingNeverRingsIn, KeyBeforeSrtp,
         AccepterKnown, EnderUnregistered, AnsweredHasMedia,
         TearingDown, NoLostWakeup, HasConnection, PromotionPending,
         SrtpKeyedToAccepter, SilenceStopped, TypeOK
<1>5. ASSUME NEW eps \in SUBSET Relays, NEW p \in BOOLEAN, HandleCallAck(eps, p) PROVE IndInv'
  <2>1. NothingBeforeTheCall' /\ AckLoopLabels' /\ OutgoingNeverRingsIn' /\
        KeyBeforeSrtp' /\ AccepterKnown' /\ EnderUnregistered'
    BY <1>5, <1>t, <1>w, BecomeAt, TaskFields
       DEF IndInv, HandleCallAck, At, call, media, relay, InitSrtp,
           NothingBeforeTheCall, AckLoopLabels,
           OutgoingNeverRingsIn, KeyBeforeSrtp, AccepterKnown,
           EnderUnregistered, TypeOK
  <2>2. AnsweredHasMedia'
    BY <1>5, <1>t, <1>w, BecomeAt, TaskFields, InitSrtpKeys
       DEF IndInv, HandleCallAck, At, call, media, relay, AnsweredHasMedia,
           TearingDown, KeyBeforeSrtp, NothingBeforeTheCall,
           TypeOK
  <2>3. NoLostWakeup'
    BY <1>5, <1>t, <1>w, BecomeAt, TaskFields
       DEF IndInv, HandleCallAck, At, call, media, relay, InitSrtp,
           NoLostWakeup, HasConnection, PromotionPending, TypeOK
  <2>4. SrtpKeyedToAccepter'
    BY <1>5, <1>t, <1>w, BecomeAt, TaskFields
       DEF IndInv, HandleCallAck, At, call, media, relay, InitSrtp,
           SrtpKeyedToAccepter, TypeOK
  <2>5. SilenceStopped'
    BY <1>5, <1>t, <1>w, BecomeAt, TaskFields
       DEF IndInv, HandleCallAck, At, call, media, relay, InitSrtp,
           SilenceStopped, TypeOK
  <2> QED
    BY <1>t, <2>1, <2>2, <2>3, <2>4, <2>5 DEF IndInv
<1>6. ASSUME NEW t \in Threads, NoUsableRelays(t) PROVE IndInv'
  <2>1. NothingBeforeTheCall' /\ AckLoopLabels' /\ OutgoingNeverRingsIn' /\
        KeyBeforeSrtp' /\ AccepterKnown' /\ EnderUnregistered'
    BY <1>6, <1>t, <1>w, ReturnAt
       DEF IndInv, NoUsableRelays, At, call, media, relay,
           NothingBeforeTheCall, AckLoopLabels,
           OutgoingNeverRingsIn, KeyBeforeSrtp, AccepterKnown,
           EnderUnregistered, TypeOK
  <2>2. AnsweredHasMedia'
    BY <1>6, <1>t, <1>w, ReturnAt
       DEF IndInv, NoUsableRelays, At, call, media, relay, AnsweredHasMedia,
           TearingDown, TypeOK
  <2>3. NoLostWakeup'
    BY <1>6, <1>t, <1>w, ReturnAt
       DEF IndInv, NoUsableRelays, At, call, media, relay, NoLostWakeup,
           HasConnection, PromotionPending, TypeOK
  <2>4. SrtpKeyedToAccepter'
    BY <1>6, <1>t, <1>w, ReturnAt
       DEF IndInv, NoUsableRelays, At, call, media, relay,
           SrtpKeyedToAccepter, TypeOK
  <2>5. SilenceStopped'
    BY <1>6, <1>t, <1>w, ReturnAt
       DEF IndInv, NoUsableRelays, At, call, media, relay, SilenceStopped,
           TypeOK
  <2> QED
    BY <1>t, <2>1, <2>2, <2>3, <2>4, <2>5 DEF IndInv
<1>7. ASSUME NEW t \in Threads, NEW r \in Relays, ConfigureRelay(t, r) PROVE IndInv'
  BY <1>7, <1>t, <1>w, BecomeAt, TaskFields, IdleFields
     DEF IndInv, ConfigureRelay, At, call, media, relay,
         NothingBeforeTheCall, AckLoopLabels, OutgoingNeverRingsIn,
         KeyBeforeSrtp, AccepterKnown, EnderUnregistered,
         AnsweredHasMedia, TearingDown, NoLostWakeup, HasConnection,
         PromotionPending, SrtpKeyedToAccepter, SilenceStopped,
         TypeOK
<1>8. ASSUME NEW r \in Relays, OnOpen(r) PROVE IndInv'
  BY <1>8, <1>t, <1>w
     DEF IndInv, OnOpen, At, call, media, relay, NothingBeforeTheCall,
         AckLoopLabels, OutgoingNeverRingsIn, KeyBeforeSrtp,
         AccepterKnown, EnderUnregistered, AnsweredHasMedia,
         TearingDown, NoLostWakeup, HasConnection, PromotionPending,
         SrtpKeyedToAccepter, SilenceStopped, TypeOK
<1>9. ASSUME NEW r \in Relays, LateOnOpen(r) PROVE IndInv'
  BY <1>9, <1>t, <1>w
     DEF IndInv, LateOnOpen, At, call, media, relay, NothingBeforeTheCall,
         AckLoopLabels, OutgoingNeverRingsIn, KeyBeforeSrtp,
         AccepterKnown, EnderUnregistered, AnsweredHasMedia,
         TearingDown, NoLostWakeup, HasConnection, PromotionPending,
         SrtpKeyedToAccepter, SilenceStopped, TypeOK
<1>10. ASSUME NEW r \in Relays, LoseConnection(r) PROVE IndInv'
  BY <1>10, <1>t, <1>w
     DEF IndInv, LoseConnection, At, call, media, relay,
         NothingBeforeTheCall, AckLoopLabels, OutgoingNeverRingsIn,
         KeyBeforeSrtp, AccepterKnown, EnderUnregistered,
         AnsweredHasMedia, TearingDown, NoLostWakeup, HasConnection,
         PromotionPending, SrtpKeyedToAccepter, SilenceStopped,
         TypeOK
<1>11. ASSUME NEW r \in Relays, onRelayConnected(r) PROVE IndInv'
  <2>1. NothingBeforeTheCall' /\ AckLoopLabels' /\ OutgoingNeverRingsIn' /\
        KeyBeforeSrtp' /\ AccepterKnown' /\ EnderUnregistered'
    BY <1>11, <1>t, <1>w
       DEF IndInv, onRelayConnected, At, call, media, relay, StartKeepalive,
           Apply, ValidFrom, Target, NothingBeforeTheCall,
           AckLoopLabels, OutgoingNeverRingsIn, KeyBeforeSrtp,
           AccepterKnown, EnderUnregistered, TypeOK
  <2>2. AnsweredHasMedia'
    BY <1>11, <1>t, <1>w
       DEF IndInv, onRelayConnected, At, call, media, relay, StartKeepalive,
           Apply, ValidFrom, Target, AnsweredHasMedia,
           TearingDown, TypeOK
  <2>3. NoLostWakeup'
    BY <1>11, <1>t, <1>w
       DEF IndInv, onRelayConnected, At, call, media, relay, StartKeepalive,
           Apply, ValidFrom, Target, NoLostWakeup, HasConnection,
           PromotionPending, TypeOK
  <2>4. SrtpKeyedToAccepter'
    BY <1>11, <1>t, <1>w
       DEF IndInv, onRelayConnected, At, call, media, relay, StartKeepalive,
           Apply, ValidFrom, Target, SrtpKeyedToAccepter, TypeOK
  <2>5. SilenceStopped'
    BY <1>11, <1>t, <1>w
       DEF IndInv, onRelayConnected, At, call, media, relay, StartKeepalive,
           Apply, ValidFrom, Target, SilenceStopped, TypeOK
  <2> QED
    BY <1>t, <2>1, <2>2, <2>3, <2>4, <2>5 DEF IndInv
<1>12. ASSUME NEW t \in Handlers, NEW op \in {"AcceptCall", "RejectCall", "EndCall"},
              Lookup(t, op)
       PROVE  IndInv'
  BY <1>12, <1>t, <1>w, GotoAt
     DEF IndInv, Lookup, At, call, media, relay, NothingBeforeTheCall,
         AckLoopLabels, OutgoingNeverRingsIn, KeyBeforeSrtp,
         AccepterKnown, EnderUnregistered, AnsweredHasMedia,
         TearingDown, NoLostWakeup, HasConnection, PromotionPending,
         SrtpKeyedToAccepter, SilenceStopped, TypeOK
<1>13. CASE Lookup(EventLoop, "HandleCallTerminate")
  BY <1>13, <1>t, <1>w, GotoAt
     DEF IndInv, Lookup, At, call, media, relay, NothingBeforeTheCall,
         AckLoopLabels, OutgoingNeverRingsIn, KeyBeforeSrtp,
         AccepterKnown, EnderUnregistered, AnsweredHasMedia,
         TearingDown, NoLostWakeup, HasConnection, PromotionPending,
         SrtpKeyedToAccepter, SilenceStopped, TypeOK
<1>14. ASSUME NEW t \in Handlers, Drain(t) PROVE IndInv'
  BY <1>14, <1>t, <1>w, GotoAt
     DEF IndInv, Drain, At, call, media, relay, NothingBeforeTheCall,
         AckLoopLabels, OutgoingNeverRingsIn, KeyBeforeSrtp,
         AccepterKnown, EnderUnregistered, AnsweredHasMedia,
         TearingDown, NoLostWakeup, HasConnection, PromotionPending,
         SrtpKeyedToAccepter, SilenceStopped, TypeOK
<1>15. ASSUME NEW t \in Threads, AcceptCall(t) PROVE IndInv'
  <2>0. /\ th[t].pc = "AcceptCall" /\ th'[t].pc \in {"idle", "media"} /\ ~th'[t].rej
        /\ \A u \in Threads : u # t => th'[u] = th[u]
        /\ state' = IF state = "incoming_ringing" THEN "connecting" ELSE state
    <3>1. CASE state = "incoming_ringing"
      <4>1. Become(t, Task("media", relayData))
        BY <1>15, <3>1 DEF AcceptCall
      <4>2. th'[t] = Task("media", relayData) /\ \A u \in Threads : u # t => th'[u] = th[u]
        BY <4>1, <1>t, BecomeAt
      <4> QED
        BY <1>15, <3>1, <4>2, TaskFields DEF AcceptCall, At, Apply, ValidFrom, Target
    <3>2. CASE state # "incoming_ringing"
      BY <1>15, <1>t, <3>2, ReturnAt DEF AcceptCall, At
    <3> QED
      BY <3>1, <3>2
  <2>1. NothingBeforeTheCall' /\ AckLoopLabels' /\ OutgoingNeverRingsIn' /\
        KeyBeforeSrtp' /\ AccepterKnown' /\ EnderUnregistered'
    BY <1>15, <1>t, <1>w, <2>0
       DEF IndInv, AcceptCall, At, call, media, relay, NothingBeforeTheCall,
           AckLoopLabels, OutgoingNeverRingsIn, KeyBeforeSrtp,
           AccepterKnown, EnderUnregistered, TypeOK
  <2>2. AnsweredHasMedia'
    BY <1>15, <1>t, <1>w, <2>0
       DEF IndInv, AcceptCall, At, call, media, relay, AnsweredHasMedia,
           TearingDown, OutgoingNeverRingsIn, TypeOK
  <2>3. NoLostWakeup'
    BY <1>15, <1>t, <1>w, <2>0
       DEF IndInv, AcceptCall, At, call, media, relay, NoLostWakeup,
           HasConnection, PromotionPending, OutgoingNeverRingsIn,
           TypeOK
  <2>4. SrtpKeyedToAccepter'
    BY <1>15, <1>t, <1>w, <2>0
       DEF IndInv, AcceptCall, At, call, media, relay, SrtpKeyedToAccepter,
           TypeOK
  <2>5. SilenceStopped'
    BY <1>15, <1>t, <1>w, <2>0
       DEF IndInv, AcceptCall, At, call, media, relay, SilenceStopped, TypeOK
  <2> QED
    BY <1>t, <2>1, <2>2, <2>3, <2>4, <2>5 DEF IndInv
<1>16. ASSUME NEW t \in Threads, setupIncomingMedia(t) PROVE IndInv'
  <2>1. NothingBeforeTheCall' /\ AckLoopLabels' /\ OutgoingNeverRingsIn' /\
        KeyBeforeSrtp' /\ AccepterKnown' /\ EnderUnregistered'
    BY <1>16, <1>t, <1>w, BecomeAt, TaskFields
       DEF IndInv, setupIncomingMedia, At, call, media, relay, InitSrtp,
           NothingBeforeTheCall, AckLoopLabels,
           OutgoingNeverRingsIn, KeyBeforeSrtp, AccepterKnown,
           EnderUnregistered, TypeOK
  <2>2. AnsweredHasMedia'
    BY <1>16, <1>t, <1>w, BecomeAt, TaskFields, InitSrtpKeys
       DEF IndInv, setupIncomingMedia, At, call, media, relay,
           AnsweredHasMedia, TearingDown, KeyBeforeSrtp,
           NothingBeforeTheCall, TypeOK
  <2>3. NoLostWakeup'
    BY <1>16, <1>t, <1>w, BecomeAt, TaskFields
       DEF IndInv, setupIncomingMedia, At, call, media, relay, InitSrtp,
           NoLostWakeup, HasConnection, PromotionPending, TypeOK
  <2>4. SrtpKeyedToAccepter'
    BY <1>16, <1>t, <1>w, BecomeAt, TaskFields
       DEF IndInv, setupIncomingMedia, At, call, media, relay, InitSrtp,
           SrtpKeyedToAccepter, TypeOK
  <2>5. SilenceStopped'
    BY <1>16, <1>t, <1>w, BecomeAt, TaskFields
       DEF IndInv, setupIncomingMedia, At, call, media, relay, InitSrtp,
           SilenceStopped, TypeOK
  <2> QED
    BY <1>t, <2>1, <2>2, <2>3, <2>4, <2>5 DEF IndInv
<1>17. ASSUME NEW t \in Threads, AcceptWithoutRelays(t) PROVE IndInv'
  <2>1. NothingBeforeTheCall' /\ AckLoopLabels' /\ OutgoingNeverRingsIn' /\
        KeyBeforeSrtp' /\ AccepterKnown' /\ EnderUnregistered'
    BY <1>17, <1>t, <1>w, ReturnAt
       DEF IndInv, AcceptWithoutRelays, At, call, media, relay,
           NothingBeforeTheCall, AckLoopLabels,
           OutgoingNeverRingsIn, KeyBeforeSrtp, AccepterKnown,
           EnderUnregistered, TypeOK
  <2>2. AnsweredHasMedia'
    BY <1>17, <1>t, <1>w, ReturnAt
       DEF IndInv, AcceptWithoutRelays, At, call, media, relay,
           AnsweredHasMedia, TearingDown, TypeOK
  <2>3. NoLostWakeup'
    BY <1>17, <1>t, <1>w, ReturnAt
       DEF IndInv, AcceptWithoutRelays, At, call, media, relay, NoLostWakeup,
           HasConnection, PromotionPending, TypeOK
  <2>4. SrtpKeyedToAccepter'
    BY <1>17, <1>t, <1>w, ReturnAt
       DEF IndInv, AcceptWithoutRelays, At, call, media, relay,
           SrtpKeyedToAccepter, TypeOK
  <2>5. SilenceStopped'
    BY <1>17, <1>t, <1>w, ReturnAt
       DEF IndInv, AcceptWithoutRelays, At, call, media, relay,
           SilenceStopped, TypeOK
  <2> QED
    BY <1>t, <2>1, <2>2, <2>3, <2>4, <2>5 DEF IndInv
<1>18. ASSUME NEW t \in Threads, RejectCall(t) PROVE IndInv'
  <2>0. /\ th[t].pc = "RejectCall" /\ th'[t].pc = "cleanup" /\ th'[t].rej
        /\ \A u \in Threads : u # t => th'[u] = th[u]
        /\ state' = IF state = "incoming_ringing" THEN "ended" ELSE state
    BY <1>18, <1>t, BecomeAt, IdleFields DEF RejectCall, At, Apply, ValidFrom, Target
  <2>1. NothingBeforeTheCall' /\ AckLoopLabels' /\ OutgoingNeverRingsIn' /\
        KeyBeforeSrtp' /\ AccepterKnown' /\ EnderUnregistered'
    BY <1>18, <1>t, <1>w, <2>0
       DEF IndInv, RejectCall, At, call, media, relay, NothingBeforeTheCall,
           AckLoopLabels, OutgoingNeverRingsIn, KeyBeforeSrtp,
           AccepterKnown, EnderUnregistered, TypeOK
  <2>2. AnsweredHasMedia'
    BY <1>18, <1>t, <1>w, <2>0
       DEF IndInv, RejectCall, At, call, media, relay, AnsweredHasMedia,
           TearingDown, TypeOK
  <2>3. NoLostWakeup'
    BY <1>18, <1>t, <1>w, <2>0
       DEF IndInv, RejectCall, At, call, media, relay, NoLostWakeup,
           HasConnection, PromotionPending, TypeOK
  <2>4. SrtpKeyedToAccepter'
    BY <1>18, <1>t, <1>w, <2>0
       DEF IndInv, RejectCall, At, call, media, relay, SrtpKeyedToAccepter,
           TypeOK
  <2>5. SilenceStopped'
    BY <1>18, <1>t, <1>w, <2>0
       DEF IndInv, RejectCall, At, call, media, relay, SilenceStopped, TypeOK
  <2> QED
    BY <1>t, <2>1, <2>2, <2>3, <2>4, <2>5 DEF IndInv
<1>19. ASSUME NEW t \in Threads, EndCall(t) PROVE IndInv'
  <2>0. /\ th[t].pc = "EndCall" /\ th'[t].pc \in {"idle", "cleanup"}
        /\ (th'[t].pc = "cleanup" => state' = "ended" /\ registered' = FALSE)
        /\ (th'[t].pc = "idle" => state' = state /\ registered' = registered)
        /\ \A u \in Threads : u # t => th'[u] = th[u]
    <3>1. CASE state \in {"none", "ended"}
      BY <1>19, <1>t, <3>1, ReturnAt DEF EndCall, At
    <3>2. CASE state \notin {"none", "ended"}
      BY <1>19, <1>t, <3>2, GotoAt DEF EndCall, At, Apply, ValidFrom, Target, TypeOK
    <3> QED
      BY <3>1, <3>2
  <2>1. NothingBeforeTheCall' /\ AckLoopLabels' /\ OutgoingNeverRingsIn' /\
        KeyBeforeSrtp' /\ AccepterKnown' /\ EnderUnregistered'
    BY <1>19, <1>t, <1>w, <2>0
       DEF IndInv, EndCall, At, call, media, relay, NothingBeforeTheCall,
           AckLoopLabels, OutgoingNeverRingsIn, KeyBeforeSrtp,
           AccepterKnown, EnderUnregistered, TypeOK
  <2>2. AnsweredHasMedia'
    BY <1>19, <1>t, <1>w, <2>0
       DEF IndInv, EndCall, At, call, media, relay, AnsweredHasMedia,
           TearingDown, TypeOK
  <2>3. NoLostWakeup'
    BY <1>19, <1>t, <1>w, <2>0
       DEF IndInv, EndCall, At, call, media, relay, NoLostWakeup,
           HasConnection, PromotionPending, TypeOK
  <2>4. SrtpKeyedToAccepter'
    BY <1>19, <1>t, <1>w, <2>0
       DEF IndInv, EndCall, At, call, media, relay, SrtpKeyedToAccepter,
           TypeOK
  <2>5. SilenceStopped'
    BY <1>19, <1>t, <1>w, <2>0
       DEF IndInv, EndCall, At, call, media, relay, SilenceStopped, TypeOK
  <2> QED
    BY <1>t, <2>1, <2>2, <2>3, <2>4, <2>5 DEF IndInv
<1>20. ASSUME NEW t \in Threads, cleanupMedia(t) PROVE IndInv'
  <2>1. NothingBeforeTheCall' /\ AckLoopLabels' /\ OutgoingNeverRingsIn' /\
        KeyBeforeSrtp' /\ AccepterKnown' /\ EnderUnregistered'
    BY <1>20, <1>t, <1>w, GotoAt
       DEF IndInv, cleanupMedia, At, call, media, relay,
           NothingBeforeTheCall, AckLoopLabels,
           OutgoingNeverRingsIn, KeyBeforeSrtp, AccepterKnown,
           EnderUnregistered, TypeOK
  <2>2. AnsweredHasMedia'
    BY <1>20, <1>t, <1>w, GotoAt
       DEF IndInv, cleanupMedia, At, call, media, relay, AnsweredHasMedia,
           TearingDown, TypeOK
  <2>3. NoLostWakeup'
    BY <1>20, <1>t, <1>w, GotoAt
       DEF IndInv, cleanupMedia, At, call, media, relay, NoLostWakeup,
           HasConnection, PromotionPending, TypeOK
  <2>4. SrtpKeyedToAccepter'
    BY <1>20, <1>t, <1>w, GotoAt
       DEF IndInv, cleanupMedia, At, call, media, relay, SrtpKeyedToAccepter,
           TypeOK
  <2>5. SilenceStopped'
    BY <1>20, <1>t, <1>w, GotoAt
       DEF IndInv, cleanupMedia, At, call, media, relay, SilenceStopped,
           TypeOK
  <2> QED
    BY <1>t, <2>1, <2>2, <2>3, <2>4, <2>5 DEF IndInv
<1>21. ASSUME NEW t \in Threads, relayCleanup(t) PROVE IndInv'
  <2>0. /\ th[t].pc = "relaycleanup"
        /\ \/ th[t].rej /\ th'[t].pc = "remove" /\ th'[t].rej
           \/ ~th[t].rej /\ th'[t].pc = "idle" /\ ~th'[t].rej
        /\ \A u \in Threads : u # t => th'[u] = th[u]
    BY <1>21, <1>t, GotoAt, ReturnAt DEF relayCleanup, At
  <2>1. NothingBeforeTheCall' /\ AckLoopLabels' /\ OutgoingNeverRingsIn' /\
        KeyBeforeSrtp' /\ AccepterKnown' /\ EnderUnregistered'
    BY <1>21, <1>t, <1>w, <2>0
       DEF IndInv, relayCleanup, At, call, media, relay,
           NothingBeforeTheCall, AckLoopLabels,
           OutgoingNeverRingsIn, KeyBeforeSrtp, AccepterKnown,
           EnderUnregistered, TypeOK
  <2>2. AnsweredHasMedia'
    BY <1>21, <1>t, <1>w, <2>0
       DEF IndInv, relayCleanup, At, call, media, relay, AnsweredHasMedia,
           TearingDown, EnderUnregistered, TypeOK
  <2>3. NoLostWakeup'
    BY <1>21, <1>t, <1>w, <2>0
       DEF IndInv, relayCleanup, At, call, media, relay, NoLostWakeup,
           HasConnection, PromotionPending, TypeOK
  <2>4. SrtpKeyedToAccepter'
    BY <1>21, <1>t, <1>w, <2>0
       DEF IndInv, relayCleanup, At, call, media, relay, SrtpKeyedToAccepter,
           TypeOK
  <2>5. SilenceStopped'
    BY <1>21, <1>t, <1>w, <2>0
       DEF IndInv, relayCleanup, At, call, media, relay, SilenceStopped,
           TypeOK
  <2> QED
    BY <1>t, <2>1, <2>2, <2>3, <2>4, <2>5 DEF IndInv
<1>22. ASSUME NEW t \in Threads, removeRejected(t) PROVE IndInv'
  BY <1>22, <1>t, <1>w, ReturnAt
     DEF IndInv, removeRejected, At, call, media, relay,
         NothingBeforeTheCall, AckLoopLabels, OutgoingNeverRingsIn,
         KeyBeforeSrtp, AccepterKnown, EnderUnregistered,
         AnsweredHasMedia, TearingDown, NoLostWakeup, HasConnection,
         PromotionPending, SrtpKeyedToAccepter, SilenceStopped,
         TypeOK
<1>23. ASSUME NEW k \in BOOLEAN, NEW rd \in {NoRelay} \cup SUBSET Relays,
              HandleCallOffer(k, rd)
       PROVE  IndInv'
  BY <1>23, <1>t, <1>w
     DEF IndInv, HandleCallOffer, At, call, media, relay,
         NothingBeforeTheCall, AckLoopLabels, OutgoingNeverRingsIn,
         KeyBeforeSrtp, AccepterKnown, EnderUnregistered,
         AnsweredHasMedia, TearingDown, NoLostWakeup, HasConnection,
         PromotionPending, SrtpKeyedToAccepter, SilenceStopped,
         TypeOK
<1>24. ASSUME NEW d \in Devices, NEW k \in BOOLEAN, HandleCallAccept(d, k) PROVE IndInv'
  <2>0. /\ th[EventLoop].pc = "idle" /\ th'[EventLoop].pc = "accept" /\ ~th'[EventLoop].rej
        /\ th'[EventLoop].dev = d
        /\ \A u \in Threads : u # EventLoop => th'[u] = th[u]
    <3>1. Become(EventLoop, [Idle EXCEPT !.pc = "accept", !.dev = d])
      BY <1>24 DEF HandleCallAccept
    <3>2. th'[EventLoop] = [Idle EXCEPT !.pc = "accept", !.dev = d]
          /\ \A u \in Threads : u # EventLoop => th'[u] = th[u]
      BY <3>1, <1>t, <1>w, BecomeAt
    <3> QED
      BY <1>24, <3>2 DEF HandleCallAccept, At, Idle
  <2>1. NothingBeforeTheCall' /\ AckLoopLabels' /\ OutgoingNeverRingsIn' /\
        KeyBeforeSrtp' /\ AccepterKnown' /\ EnderUnregistered'
    BY <1>24, <1>t, <1>w, <2>0, ConstantsAssumption
       DEF IndInv, HandleCallAccept, At, call, media, relay,
           NothingBeforeTheCall, AckLoopLabels,
           OutgoingNeverRingsIn, KeyBeforeSrtp, AccepterKnown,
           EnderUnregistered, TypeOK
  <2>2. AnsweredHasMedia'
    BY <1>24, <1>t, <1>w, <2>0, ConstantsAssumption
       DEF IndInv, HandleCallAccept, At, call, media, relay,
           AnsweredHasMedia, TearingDown, TypeOK
  <2>3. NoLostWakeup'
    BY <1>24, <1>t, <1>w, <2>0, ConstantsAssumption
       DEF IndInv, HandleCallAccept, At, call, media, relay, NoLostWakeup,
           HasConnection, PromotionPending, TypeOK
  <2>4. SrtpKeyedToAccepter'
    BY <1>24, <1>t, <1>w, <2>0, ConstantsAssumption
       DEF IndInv, HandleCallAccept, At, call, media, relay,
           SrtpKeyedToAccepter, TypeOK
  <2>5. SilenceStopped'
    BY <1>24, <1>t, <1>w, <2>0, ConstantsAssumption
       DEF IndInv, HandleCallAccept, At, call, media, relay, SilenceStopped,
           TypeOK
  <2> QED
    BY <1>t, <2>1, <2>2, <2>3, <2>4, <2>5 DEF IndInv
<1>25. CASE remoteAccepted
  <2>0. /\ th[EventLoop].pc = "accept" /\ th'[EventLoop].pc = "accepted"
        /\ ~th'[EventLoop].rej /\ th'[EventLoop].has = HasConnection
        /\ \A u \in Threads : u # EventLoop => th'[u] = th[u]
        /\ state' = IF state = "ringing" THEN "connecting" ELSE state
    <3>1. Become(EventLoop, [Task("accepted", relayData) EXCEPT !.has = HasConnection])
      BY <1>25 DEF remoteAccepted
    <3>2. th'[EventLoop] = [Task("accepted", relayData) EXCEPT !.has = HasConnection]
          /\ \A u \in Threads : u # EventLoop => th'[u] = th[u]
      BY <3>1, <1>t, <1>w, BecomeAt
    <3> QED
      BY <1>25, <3>2 DEF remoteAccepted, At, Task, Idle, Apply, ValidFrom, Target
  <2>1. NothingBeforeTheCall' /\ AckLoopLabels' /\ OutgoingNeverRingsIn' /\
        KeyBeforeSrtp' /\ AccepterKnown' /\ EnderUnregistered'
    BY <1>25, <1>t, <1>w, <2>0
       DEF IndInv, remoteAccepted, At, call, media, relay, InitSrtp,
           NothingBeforeTheCall, AckLoopLabels,
           OutgoingNeverRingsIn, KeyBeforeSrtp, AccepterKnown,
           EnderUnregistered, TypeOK
  <2>2. AnsweredHasMedia'
    BY <1>25, <1>t, <1>w, <2>0, InitSrtpKeys
       DEF IndInv, remoteAccepted, At, call, media, relay, AnsweredHasMedia,
           TearingDown, KeyBeforeSrtp, NothingBeforeTheCall,
           TypeOK
  <2>3. NoLostWakeup'
    BY <1>25, <1>t, <1>w, <2>0
       DEF IndInv, remoteAccepted, At, call, media, relay, InitSrtp,
           NoLostWakeup, HasConnection, PromotionPending, TypeOK
  <2>4. SrtpKeyedToAccepter'
    BY <1>25, <1>t, <1>w, <2>0, InitSrtpKeys, EpsType
       DEF IndInv, remoteAccepted, At, call, media, relay,
           SrtpKeyedToAccepter, KeyBeforeSrtp, AccepterKnown,
           TypeOK
  <2>5. SilenceStopped'
    BY <1>25, <1>t, <1>w, <2>0
       DEF IndInv, remoteAccepted, At, call, media, relay, InitSrtp,
           SilenceStopped, TypeOK
  <2> QED
    BY <1>t, <2>1, <2>2, <2>3, <2>4, <2>5 DEF IndInv
<1>26. CASE mediaPathUp
  <2>1. NothingBeforeTheCall' /\ AckLoopLabels' /\ OutgoingNeverRingsIn' /\
        KeyBeforeSrtp' /\ AccepterKnown' /\ EnderUnregistered'
    BY <1>26, <1>t, <1>w, ReturnAt
       DEF IndInv, mediaPathUp, At, call, media, relay, StartKeepalive,
           Apply, ValidFrom, Target, NothingBeforeTheCall,
           AckLoopLabels, OutgoingNeverRingsIn, KeyBeforeSrtp,
           AccepterKnown, EnderUnregistered, TypeOK
  <2>2. AnsweredHasMedia'
    BY <1>26, <1>t, <1>w, ReturnAt
       DEF IndInv, mediaPathUp, At, call, media, relay, StartKeepalive,
           Apply, ValidFrom, Target, AnsweredHasMedia,
           TearingDown, TypeOK
  <2>3. NoLostWakeup'
    BY <1>26, <1>t, <1>w, ReturnAt
       DEF IndInv, mediaPathUp, At, call, media, relay, StartKeepalive,
           Apply, ValidFrom, Target, NoLostWakeup, HasConnection,
           PromotionPending, TypeOK
  <2>4. SrtpKeyedToAccepter'
    BY <1>26, <1>t, <1>w, ReturnAt
       DEF IndInv, mediaPathUp, At, call, media, relay, StartKeepalive,
           Apply, ValidFrom, Target, SrtpKeyedToAccepter, TypeOK
  <2>5. SilenceStopped'
    BY <1>26, <1>t, <1>w, ReturnAt
       DEF IndInv, mediaPathUp, At, call, media, relay, StartKeepalive,
           Apply, ValidFrom, Target, SilenceStopped, TypeOK
  <2> QED
    BY <1>t, <2>1, <2>2, <2>3, <2>4, <2>5 DEF IndInv
<1>27. CASE mediaPathDown
  BY <1>27, <1>t, <1>w, BecomeAt, TaskFields, IdleFields
     DEF IndInv, mediaPathDown, At, call, media, relay, NothingBeforeTheCall,
         AckLoopLabels, OutgoingNeverRingsIn, KeyBeforeSrtp,
         AccepterKnown, EnderUnregistered, AnsweredHasMedia,
         TearingDown, NoLostWakeup, HasConnection, PromotionPending,
         SrtpKeyedToAccepter, SilenceStopped, TypeOK
<1>28. ASSUME HandleCallTransport PROVE IndInv'
  BY <1>28, <1>t, <1>w, BecomeAt, TaskFields
     DEF IndInv, HandleCallTransport, At, call, media, relay,
         NothingBeforeTheCall, AckLoopLabels, OutgoingNeverRingsIn,
         KeyBeforeSrtp, AccepterKnown, EnderUnregistered,
         AnsweredHasMedia, TearingDown, NoLostWakeup, HasConnection,
         PromotionPending, SrtpKeyedToAccepter, SilenceStopped,
         TypeOK
<1>29. CASE setTransport
  BY <1>29, <1>t, <1>w, GotoAt
     DEF IndInv, setTransport, At, call, media, relay, NothingBeforeTheCall,
         AckLoopLabels, OutgoingNeverRingsIn, KeyBeforeSrtp,
         AccepterKnown, EnderUnregistered, AnsweredHasMedia,
         TearingDown, NoLostWakeup, HasConnection, PromotionPending,
         SrtpKeyedToAccepter, SilenceStopped, TypeOK
<1>30. CASE HandleCallTerminate
  <2>1. NothingBeforeTheCall' /\ AckLoopLabels' /\ OutgoingNeverRingsIn' /\
        KeyBeforeSrtp' /\ AccepterKnown' /\ EnderUnregistered'
    BY <1>30, <1>t, <1>w, GotoAt
       DEF IndInv, HandleCallTerminate, At, call, media, relay, Apply,
           ValidFrom, Target, NothingBeforeTheCall, AckLoopLabels,
           OutgoingNeverRingsIn, KeyBeforeSrtp, AccepterKnown,
           EnderUnregistered, TypeOK
  <2>2. AnsweredHasMedia'
    BY <1>30, <1>t, <1>w, GotoAt
       DEF IndInv, HandleCallTerminate, At, call, media, relay, Apply,
           ValidFrom, Target, AnsweredHasMedia, TearingDown,
           TypeOK
  <2>3. NoLostWakeup'
    BY <1>30, <1>t, <1>w, GotoAt
       DEF IndInv, HandleCallTerminate, At, call, media, relay, Apply,
           ValidFrom, Target, NoLostWakeup, HasConnection,
           PromotionPending, TypeOK
  <2>4. SrtpKeyedToAccepter'
    BY <1>30, <1>t, <1>w, GotoAt
       DEF IndInv, HandleCallTerminate, At, call, media, relay, Apply,
           ValidFrom, Target, SrtpKeyedToAccepter, TypeOK
  <2>5. SilenceStopped'
    BY <1>30, <1>t, <1>w, GotoAt
       DEF IndInv, HandleCallTerminate, At, call, media, relay, Apply,
           ValidFrom, Target, SilenceStopped, TypeOK
  <2> QED
    BY <1>t, <2>1, <2>2, <2>3, <2>4, <2>5 DEF IndInv
<1>31. CASE UNCHANGED vars
  BY <1>31, <1>t, <1>w
     DEF IndInv, vars, At, call, media, relay, NothingBeforeTheCall,
         AckLoopLabels, OutgoingNeverRingsIn, KeyBeforeSrtp,
         AccepterKnown, EnderUnregistered, AnsweredHasMedia,
         TearingDown, NoLostWakeup, HasConnection, PromotionPending,
         SrtpKeyedToAccepter, SilenceStopped, TypeOK
<1> QED
  BY <1>w, <1>1, <1>2, <1>3, <1>4, <1>5, <1>6, <1>7, <1>8, <1>9, <1>10, <1>11, <1>12, <1>13,
     <1>14, <1>15, <1>16, <1>17, <1>18, <1>19, <1>20, <1>21, <1>22, <1>23, <1>24, <1>25,
     <1>26, <1>27, <1>28, <1>29, <1>30, <1>31
     DEF Next, Continue, ContinueEvent, ContinueAck

(* The initial states satisfy the invariant. *)
LEMMA IndInit == Init => IndInv
<1> SUFFICES ASSUME Init PROVE IndInv
  OBVIOUS
<1>1. TypeOK
  BY IdleType DEF Init, TypeOK
<1>2. \A t \in Threads : th[t].pc = "idle" /\ ~th[t].rej
  BY IdleFields DEF Init
<1>3. EventLoop \in Threads /\ AckLoop \in Threads
  BY DEF Threads
<1> QED
  BY <1>1, <1>2, <1>3
     DEF Init, IndInv, NothingBeforeTheCall, AckLoopLabels, OutgoingNeverRingsIn,
         KeyBeforeSrtp, AccepterKnown, EnderUnregistered, AnsweredHasMedia,
         NoLostWakeup, SrtpKeyedToAccepter, SilenceStopped, At

(* IndInv holds in every reachable state. *)
LEMMA Invariance == Spec => []IndInv
  BY IndInit, IndStep, PTL DEF Spec

(* TypeOK: every field of the manager, the relay table and the threads keeps
   to its type, whatever the handlers interleave. *)
THEOREM TypeCorrect == Spec => []TypeOK
<1>1. IndInv => TypeOK
  BY DEF IndInv
<1> QED
  BY <1>1, Invariance, PTL

(* NoLostWakeup: HandleCallAccept reads HasConnection inside the section that
   moves the call to connecting, so either it promotes the call itself or the
   OnOpen that comes later does. *)
THEOREM WakeupNotLost == Spec => []NoLostWakeup
<1>1. IndInv => NoLostWakeup
  BY DEF IndInv
<1> QED
  BY <1>1, Invariance, PTL

(* ActiveHasMedia: an active outgoing call has an SRTP session unless it is
   being torn down. *)
THEOREM ActiveCallsHaveMedia == Spec => []ActiveHasMedia
<1>1. IndInv => ActiveHasMedia
  BY DEF IndInv, AnsweredHasMedia, ActiveHasMedia
<1> QED
  BY <1>1, Invariance, PTL

(* SrtpKeyedToAccepter: the SRTP session opens the packets of the device that
   accepted last, under the call's own key. *)
THEOREM SessionKeyedToAccepter == Spec => []SrtpKeyedToAccepter
<1>1. IndInv => SrtpKeyedToAccepter
  BY DEF IndInv
<1> QED
  BY <1>1, Invariance, PTL

(* SilenceStopped: after cleanupMedia an ended call never gets its codec or
   its silence goroutine back. *)
THEOREM SilenceStaysStopped == Spec => []SilenceStopped
<1>1. IndInv => SilenceStopped
  BY DEF IndInv
<1> QED
  BY <1>1, Invariance, PTL

-----------------------------------------------------------------------------
(* Refinement. *)

(* Every step of the engine is a step of the lifecycle or leaves it alone. *)
LEMMA LifecycleStep ==
  IndInv /\ [Next]_vars => [Lifecycle!Next]_<<state, keepalive>>
<1> SUFFICES ASSUME IndInv, [Next]_vars, ~UNCHANGED <<state, keepalive>>
             PROVE  Lifecycle!Next
  OBVIOUS
<1>t. TypeOK /\ NothingBeforeTheCall /\ EventLoop \in Threads
  BY DEF IndInv, Threads
<1>1. ASSUME NEW t \in Handlers, StartCall(t) PROVE Lifecycle!Begin
  BY <1>1 DEF StartCall, Lifecycle!Begin
<1>2. ASSUME NEW k \in BOOLEAN, NEW rd, HandleCallOffer(k, rd) PROVE Lifecycle!Begin
  BY <1>2 DEF HandleCallOffer, Lifecycle!Begin
<1>3. ASSUME NEW t \in Threads, OfferSent(t) PROVE Lifecycle!Ring
  BY <1>3 DEF OfferSent, media, Apply, ValidFrom, Target, Lifecycle!Ring
<1>4. ASSUME NEW t \in Threads, AcceptCall(t) PROVE Lifecycle!Answer
  BY <1>4 DEF AcceptCall, media, Apply, ValidFrom, Target, Lifecycle!Answer
<1>5. CASE remoteAccepted
  BY <1>5 DEF remoteAccepted, Apply, ValidFrom, Target, Lifecycle!Next, Lifecycle!Answer
<1>6. ASSUME NEW r \in Relays, onRelayConnected(r) PROVE Lifecycle!Connect
  BY <1>6, <1>t DEF onRelayConnected, StartKeepalive, TypeOK, Apply, ValidFrom, Target,
                    Lifecycle!Connect
<1>7. CASE mediaPathUp
  BY <1>7, <1>t DEF mediaPathUp, StartKeepalive, TypeOK, Apply, ValidFrom, Target,
                    Lifecycle!Next, Lifecycle!Connect
<1>8. ASSUME NEW t \in Threads, RejectCall(t) PROVE Lifecycle!End
  BY <1>8 DEF RejectCall, media, Apply, ValidFrom, Target, Lifecycle!End
<1>9. ASSUME NEW t \in Threads, EndCall(t) PROVE Lifecycle!End
  BY <1>9, <1>t DEF EndCall, media, TypeOK, Apply, ValidFrom, Target, Lifecycle!End
<1>10. CASE HandleCallTerminate
  BY <1>10, <1>t DEF HandleCallTerminate, At, NothingBeforeTheCall, media, TypeOK, Apply,
                     ValidFrom, Target, Lifecycle!Next, Lifecycle!End
<1>11. ASSUME NEW t \in Threads, cleanupMedia(t) PROVE Lifecycle!Hush
  BY <1>11, <1>t DEF cleanupMedia, At, NothingBeforeTheCall, call, Lifecycle!Hush
<1>12. ASSUME NEW t \in Threads, NEW op, Lookup(t, op) PROVE FALSE
  BY <1>12 DEF Lookup, call, media
<1>13. ASSUME NEW t \in Threads,
              \/ OfferFails(t) \/ NoUsableRelays(t) \/ \E r \in Relays : ConfigureRelay(t, r)
              \/ setupIncomingMedia(t) \/ AcceptWithoutRelays(t)
              \/ relayCleanup(t) \/ removeRejected(t) \/ Drain(t)
       PROVE  FALSE
  BY <1>13 DEF OfferFails, NoUsableRelays, ConfigureRelay, setupIncomingMedia,
               AcceptWithoutRelays, relayCleanup, removeRejected, Drain, call, media
<1>14. CASE mediaPathDown \/ setTransport \/ ContinueAck
  BY <1>14 DEF mediaPathDown, setTransport, ContinueAck, NoAck, HandleCallAck, call, media
<1>15. CASE \/ \E d \in Devices, k \in BOOLEAN : HandleCallAccept(d, k)
            \/ HandleCallTransport
            \/ \E r \in Relays : OnOpen(r) \/ LateOnOpen(r) \/ LoseConnection(r)
            \/ UNCHANGED vars
  BY <1>15 DEF HandleCallAccept, HandleCallTransport, OnOpen, LateOnOpen, LoseConnection,
               vars, call, media
<1> QED
  BY <1>1, <1>2, <1>3, <1>4, <1>5, <1>6, <1>7, <1>8, <1>9, <1>10, <1>11, <1>12,
     <1>13, <1>14, <1>15
     DEF Next, Continue, ContinueEvent, Threads, Lifecycle!Next

(* LifecycleSpec: the engine implements the lifecycle it promises. *)
THEOREM EngineImplementsLifecycle == Spec => LifecycleSpec
<1>1. Init => Lifecycle!Init
  BY DEF Init, Lifecycle!Init
<1> QED
  BY <1>1, Invariance, LifecycleStep, PTL DEF Spec, LifecycleSpec, Lifecycle!Spec
=============================================================================
