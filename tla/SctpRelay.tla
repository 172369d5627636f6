------------------------------ MODULE SctpRelay ------------------------------
(***************************************************************************)
(* The relay transport of one call: the SctpRelayManager, its table of     *)
(* connections and the goroutines that work on them.  The table is under   *)
(* m.mu; a connection's state is also written and read without it, by      *)
(* OnOpen and by the timeout.                                              *)
(*                                                                         *)
(* A caller is the goroutine ConfigureRelays starts for one relay.  Each   *)
(* connection has goroutines of its own: its timeout, and pion's callbacks *)
(* for the ICE state and for the opening and closing of the data channel.  *)
(* The peer connection (pion) is external: once it has its remote          *)
(* description it may open, fail and close at any time, and a callback     *)
(* may come after the teardown it was raised before.                       *)
(***************************************************************************)
CONSTANTS
    Ids,       \* connID of the relays
    Conns,     \* relayConnection objects: the bound on connections made
    Callers,   \* goroutines of ConfigureRelays
    Cleaner,   \* the goroutine in Cleanup
    NoId, NoConn

Threads == Callers \cup {Cleaner} \cup (Conns \X {"timer", "ice", "close"})

ASSUME RelayAssumption ==
    /\ NoId \notin Ids /\ NoConn \notin Conns
    /\ Cleaner \notin Callers
    /\ (Callers \cup {Cleaner}) \cap (Conns \X {"timer", "ice", "close"}) = {}

VARIABLES
    table,      \* m.connections
    idOf,       \* conn.id, NoId before the connection exists
    state,      \* conn.state
    pc,         \* conn.pc; "late" when it was made after a teardown
    stop,       \* connections whose stopCh is closed
    ready,      \* connections that have their remote description
    opened,     \* connections whose data channel has opened
    closed,     \* connections whose data channel has reported its closing
    announced,  \* connections whose OnOpen has run and called onConnected
    kalive,     \* connections whose keepalive goroutine runs
    th          \* goroutines

channel == <<ready, opened, closed>>
vars == <<table, idOf, state, pc, stop, channel, announced, kalive, th>>

Idle == [at |-> "idle", c |-> NoConn, id |-> NoId, left |-> {}]
Tearing(c) == [Idle EXCEPT !.at = "teardown", !.c = c]
At(t, l) == th[t].at = l
Goto(t, l) == th' = [th EXCEPT ![t].at = l]
Become(t, s) == th' = [th EXCEPT ![t] = s]
Return(t) == Become(t, Idle)

TypeOK ==
    /\ table \in [Ids -> Conns \cup {NoConn}]
    /\ idOf \in [Conns -> Ids \cup {NoId}]
    /\ state \in [Conns -> {"none", "connecting", "open", "closed", "failed"}]
    /\ pc \in [Conns -> {"none", "made", "late", "closed"}]
    /\ stop \subseteq Conns
    /\ ready \subseteq Conns /\ opened \subseteq ready /\ closed \subseteq opened
    /\ announced \subseteq opened /\ kalive \subseteq announced
    /\ th \in [Threads ->
          [at : {"idle", "insert", "newpc", "setup", "wait", "fail", "teardown", "drain"},
           c : Conns \cup {NoConn}, id : Ids \cup {NoId}, left : SUBSET Conns]]

Init ==
    /\ table = [id \in Ids |-> NoConn]
    /\ idOf = [c \in Conns |-> NoId]
    /\ state = [c \in Conns |-> "none"] /\ pc = [c \in Conns |-> "none"]
    /\ stop = {} /\ ready = {} /\ opened = {} /\ closed = {}
    /\ announced = {} /\ kalive = {}
    /\ th = [t \in Threads |-> Idle]

-----------------------------------------------------------------------------
(* ConfigureRelays and connectToRelay. *)

(* The table is looked at in one section of m.mu and changed in another. *)
ConfigureRelays(t, id) ==
    /\ At(t, "idle") /\ table[id] = NoConn
    /\ Become(t, [Idle EXCEPT !.at = "insert", !.id = id])
    /\ UNCHANGED <<table, idOf, state, pc, stop, channel, announced, kalive>>

connectToRelay(t, c) ==
    /\ At(t, "insert") /\ idOf[c] = NoId
    /\ idOf' = [idOf EXCEPT ![c] = th[t].id]
    /\ state' = [state EXCEPT ![c] = "connecting"]
    /\ table' = [table EXCEPT ![th[t].id] = c]
    /\ Become(t, [Idle EXCEPT !.at = "newpc", !.c = c])
    /\ UNCHANGED <<pc, stop, channel, announced, kalive>>

NewPeerConnection(t) ==
    /\ At(t, "newpc")
    /\ pc' = [pc EXCEPT ![th[t].c] = IF th[t].c \in stop THEN "late" ELSE "made"]
    /\ Goto(t, "setup")
    /\ UNCHANGED <<table, idOf, state, stop, channel, announced, kalive>>

(* Mutant: the timeout is forgotten. *)
SetRemoteDescriptionNoTimer(t) ==
    /\ At(t, "setup") /\ pc[th[t].c] # "closed"
    /\ ready' = ready \cup {th[t].c}
    /\ Return(t)
    /\ UNCHANGED <<table, idOf, state, pc, stop, opened, closed, announced, kalive>>

(* Data channel, offer and both descriptions.  The timeout starts last. *)
SetRemoteDescription(t) ==
    LET c == th[t].c IN
    /\ At(t, "setup") /\ pc[c] # "closed"
    /\ ready' = ready \cup {c}
    /\ th' = [th EXCEPT ![t] = Idle,
                        ![<<c, "timer">>] = [Idle EXCEPT !.at = "wait", !.c = c]]
    /\ UNCHANGED <<table, idOf, state, pc, stop, opened, closed, announced, kalive>>

(* One of the steps returns an error. *)
SetupFails(t) ==
    /\ At(t, "newpc") \/ At(t, "setup")
    /\ Goto(t, "fail")
    /\ UNCHANGED <<table, idOf, state, pc, stop, channel, announced, kalive>>

-----------------------------------------------------------------------------
(* Giving a connection up. *)

(* Mutants: the entry stays in the table; the connection is not torn down. *)
failKeepsEntry(t, c) ==
    /\ state' = [state EXCEPT ![c] = "failed"]
    /\ Become(t, IF state[c] = "failed" THEN Idle ELSE Tearing(c))
    /\ UNCHANGED <<table, idOf, pc, stop, channel, announced, kalive>>

failNoTeardown(t, c) ==
    /\ state' = [state EXCEPT ![c] = "failed"]
    /\ table' = [table EXCEPT ![idOf[c]] = NoConn]
    /\ Return(t)
    /\ UNCHANGED <<idOf, pc, stop, channel, announced, kalive>>

(* The entry is deleted by its id, whoever holds it now. *)
failConnection(t, c) ==
    /\ IF state[c] = "failed"
       THEN Return(t) /\ UNCHANGED <<table, state>>
       ELSE /\ state' = [state EXCEPT ![c] = "failed"]
            /\ table' = [table EXCEPT ![idOf[c]] = NoConn]
            /\ Become(t, Tearing(c))
    /\ UNCHANGED <<idOf, pc, stop, channel, announced, kalive>>

Fail(t) == At(t, "fail") /\ failConnection(t, th[t].c)

(* The channel is found again by its id, too. *)
closeConnection(t, id) ==
    LET c == table[id] IN
    /\ IF c = NoConn
       THEN UNCHANGED <<table, state, th>>
       ELSE /\ state' = [state EXCEPT ![c] = "closed"]
            /\ table' = [table EXCEPT ![id] = NoConn]
            /\ Become(t, Tearing(c))
    /\ UNCHANGED <<idOf, pc, stop, ready, opened, announced, kalive>>

(* A peer connection that is not there yet is not closed. *)
teardown(t) ==
    LET c == th[t].c IN
    /\ At(t, "teardown")
    /\ stop' = stop \cup {c}
    /\ pc' = [pc EXCEPT ![c] = IF @ = "none" THEN @ ELSE "closed"]
    /\ IF t = Cleaner THEN Goto(t, "drain") ELSE Return(t)
    /\ UNCHANGED <<table, idOf, state, channel, announced, kalive>>

(* Cleanup: the table is emptied, then each connection is torn down. *)
Cleanup ==
    /\ At(Cleaner, "idle")
    /\ \E id \in Ids : table[id] # NoConn
    /\ table' = [id \in Ids |-> NoConn]
    /\ Become(Cleaner, [Idle EXCEPT !.at = "drain",
                                    !.left = {table[id] : id \in Ids} \ {NoConn}])
    /\ UNCHANGED <<idOf, state, pc, stop, channel, announced, kalive>>

drain ==
    LET left == th[Cleaner].left IN
    /\ At(Cleaner, "drain")
    /\ \/ left = {} /\ Return(Cleaner)
       \/ \E c \in left : Become(Cleaner, [Tearing(c) EXCEPT !.left = left \ {c}])
    /\ UNCHANGED <<table, idOf, state, pc, stop, channel, announced, kalive>>

-----------------------------------------------------------------------------
(* The timeout and pion's callbacks. *)

TimerStops(c) ==
    /\ At(<<c, "timer">>, "wait") /\ c \in stop
    /\ Return(<<c, "timer">>)
    /\ UNCHANGED <<table, idOf, state, pc, stop, channel, announced, kalive>>

(* The state is read without the mutex: the channel may open before
   failConnection takes it. *)
TimerFires(c) ==
    /\ At(<<c, "timer">>, "wait")
    /\ IF state[c] = "connecting" THEN Goto(<<c, "timer">>, "fail")
                                  ELSE Return(<<c, "timer">>)
    /\ UNCHANGED <<table, idOf, state, pc, stop, channel, announced, kalive>>

(* ICE has failed or is disconnected. *)
OnICEConnectionStateChange(c) ==
    /\ c \in ready /\ At(<<c, "ice">>, "idle")
    /\ failConnection(<<c, "ice">>, c)

(* The channel has opened and its OnOpen is on its way. *)
ChannelOpens(c) ==
    /\ c \in ready \ opened /\ pc[c] # "closed"
    /\ opened' = opened \cup {c}
    /\ UNCHANGED <<table, idOf, state, pc, stop, ready, closed, announced, kalive, th>>

(* OnOpen writes the state without the mutex, whatever it was. *)
OnOpen(c) ==
    /\ c \in opened \ announced
    /\ state' = [state EXCEPT ![c] = "open"]
    /\ kalive' = kalive \cup {c}
    /\ announced' = announced \cup {c}
    /\ UNCHANGED <<table, idOf, pc, stop, channel, th>>

(* The relay closed the channel, or pc.Close did. *)
OnClose(c) ==
    /\ c \in opened \ closed
    /\ closed' = closed \cup {c}
    /\ closeConnection(<<c, "close">>, idOf[c])

(* Mutant: the goroutine looks at the state only, not at stopCh. *)
KeepaliveEndsOnState(c) ==
    /\ c \in kalive /\ state[c] # "open"
    /\ kalive' = kalive \ {c}
    /\ UNCHANGED <<table, idOf, state, pc, stop, channel, announced, th>>

KeepaliveEnds(c) ==
    /\ c \in kalive /\ (c \in stop \/ state[c] # "open")
    /\ kalive' = kalive \ {c}
    /\ UNCHANGED <<table, idOf, state, pc, stop, channel, announced, th>>

-----------------------------------------------------------------------------
(* What a goroutine does next. *)
Connect(t) ==
    \/ \E c \in Conns : connectToRelay(t, c)
    \/ NewPeerConnection(t) \/ SetRemoteDescription(t) \/ SetupFails(t)

Timer(c) == TimerStops(c) \/ TimerFires(c)

Step(t) ==
    \/ Fail(t) \/ teardown(t)
    \/ t \in Callers /\ Connect(t)
    \/ t = Cleaner /\ drain
    \/ \E c \in Conns : t = <<c, "timer">> /\ Timer(c)

Next ==
    \/ \E t \in Callers, id \in Ids : ConfigureRelays(t, id)
    \/ \E t \in Threads : Step(t)
    \/ \E c \in Conns : OnICEConnectionStateChange(c) \/ ChannelOpens(c) \/ OnClose(c)
    \/ \E c \in Conns : OnOpen(c) \/ KeepaliveEnds(c)
    \/ Cleanup

Spec == Init /\ [][Next]_vars

(* Goroutines run on and the timeout fires; pion and the relays promise
   nothing but to run an OnOpen they have started. *)
FairSpec ==
    /\ Spec
    /\ \A t \in Threads : WF_vars(Step(t))
    /\ \A c \in Conns : WF_vars(OnOpen(c)) /\ WF_vars(KeepaliveEnds(c))

-----------------------------------------------------------------------------
(* Properties. *)

(* What the table holds can still be used: no entry is of a connection that
   was closed, failed or torn down, although states are written outside the
   mutex and entries deleted by id.  ConfigureRelays skips every relay that
   has an entry, so a dead one would block the relay for the whole call. *)
EntriesUsable ==
    \A id \in Ids : table[id] # NoConn =>
        /\ idOf[table[id]] = id
        /\ state[table[id]] \in {"connecting", "open"}
        /\ table[id] \notin stop

(* The transport is type correct, and what its table holds can be used. *)
TableSound == TypeOK /\ EntriesUsable

(* Somebody is on the way to close the peer connection of c. *)
BeingClosed(c) ==
    \/ c \in th[Cleaner].left
    \/ \E t \in Threads : th[t].c = c /\ At(t, "teardown")

(* A peer connection is in the table, or closed, or about to be, unless the
   relay was connected more than once or the peer connection was only made
   after its teardown: connectToRelay's error paths, the timeout, ICE, the
   channel and Cleanup never drop one between them. *)
NoPeerConnectionLost ==
    \A c \in Conns : pc[c] = "made" =>
        \/ table[idOf[c]] = c
        \/ BeingClosed(c)
        \/ \E d \in Conns \ {c} : idOf[d] = idOf[c]

(* An entry of the table is resolved: the engine is told that the relay is
   open, or the entry makes room for another attempt. *)
EntryResolved ==
    \A c \in Conns, id \in Ids : table[id] = c ~> table[id] # c \/ c \in announced

(* The keepalive goroutine of a connection that was torn down ends for good,
   also when OnOpen comes after the teardown. *)
KeepaliveStops == \A c \in Conns : c \in stop ~> [](c \notin kalive)

-----------------------------------------------------------------------------
(* The inductive invariant behind EntriesUsable. *)

(* A goroutine that works on a connection works on one that exists. *)
WorkersKnowConnection ==
    \A t \in Threads :
        /\ At(t, "insert") => th[t].id \in Ids
        /\ th[t].at \in {"newpc", "setup", "wait", "fail", "teardown"}
              => th[t].c \in Conns /\ idOf[th[t].c] \in Ids

(* Whoever tears a connection down, or is about to, has found it out of the
   table, and a connection is inserted only once. *)
TornIsUnlisted ==
    /\ \A t \in Threads : At(t, "teardown") => table[idOf[th[t].c]] # th[t].c
    /\ \A c \in th[Cleaner].left : idOf[c] \in Ids /\ table[idOf[c]] # c

(* A connection that does not exist yet has no channel and no teardown. *)
UnbornUntouched == \A c \in Conns : idOf[c] = NoId => c \notin stop /\ c \notin ready

RelayInv ==
    /\ TypeOK /\ WorkersKnowConnection /\ TornIsUnlisted /\ UnbornUntouched
    /\ EntriesUsable

(* The inductive invariant behind NoPeerConnectionLost. *)

(* A timeout and a close callback start once, from a goroutine that was not
   used before, so that starting one never overwrites a teardown; a caller
   works on a connection of its own; Cleanup starts with nothing left over. *)
StartsFresh ==
    /\ \A t \in Callers : th[t].at \in {"newpc", "setup"} =>
          /\ th[t].c \notin ready
          /\ \A u \in Callers : th[u].at \in {"newpc", "setup"} /\ th[u].c = th[t].c => u = t
    /\ \A c \in Conns : c \notin ready => At(<<c, "timer">>, "idle")
    /\ \A c \in Conns : c \notin closed => At(<<c, "close">>, "idle")
    /\ th[Cleaner].at \in {"idle", "teardown", "drain"}
    /\ At(Cleaner, "idle") => th[Cleaner].left = {}

(* A connection that was not torn down is in the table, or somebody is on the
   way to tear it down, or its relay was connected again. *)
Accounted(c) ==
    \/ table[idOf[c]] = c
    \/ BeingClosed(c)
    \/ \E d \in Conns \ {c} : idOf[d] = idOf[c]

NoneForgotten ==
    /\ \A c \in Conns : idOf[c] \in Ids /\ c \notin stop => Accounted(c)
    /\ \A c \in Conns : pc[c] = "made" => idOf[c] \in Ids /\ c \notin stop

CloseInv == RelayInv /\ StartsFresh /\ NoneForgotten
=============================================================================
