--------------------------- MODULE SctpRelayProofs ---------------------------
(***************************************************************************)
(* The table of the relay transport never holds a dead connection, for any *)
(* number of relays, connections and concurrent callers.                   *)
(***************************************************************************)
EXTENDS SctpRelay, TLAPS

(* The values of a goroutine's record. *)
Labels == {"idle", "insert", "newpc", "setup", "wait", "fail", "teardown", "drain"}
Worker == [at : Labels, c : Conns \cup {NoConn}, id : Ids \cup {NoId}, left : SUBSET Conns]

(* What every goroutine's record consists of, and the records the actions
   give it. *)
LEMMA WorkerRecords ==
    /\ Idle \in Worker
    /\ \A c \in Conns : Tearing(c) \in Worker
    /\ \A c \in Conns, l \in Labels : [Idle EXCEPT !.at = l, !.c = c] \in Worker
    /\ \A id \in Ids, l \in Labels : [Idle EXCEPT !.at = l, !.id = id] \in Worker
    /\ \A s \in SUBSET Conns, l \in Labels : [Idle EXCEPT !.at = l, !.left = s] \in Worker
    /\ \A c \in Conns, s \in SUBSET Conns : [Tearing(c) EXCEPT !.left = s] \in Worker
    /\ \A w \in Worker, l \in Labels : [w EXCEPT !.at = l] \in Worker
BY DEF Idle, Tearing, Worker, Labels

(* A new manager has an empty table and no goroutines. *)
LEMMA RelayInit == Init => RelayInv
<1> SUFFICES ASSUME Init PROVE RelayInv
  OBVIOUS
<1>1. TypeOK
  <2>1. th \in [Threads -> Worker]
    BY WorkerRecords DEF Init
  <2> QED
    BY <2>1 DEF Init, TypeOK, Worker, Labels
<1>2. \A t \in Threads : th[t].at = "idle" /\ th[t].left = {}
  BY DEF Init, Idle
<1>3. Cleaner \in Threads
  BY DEF Threads
<1>4. WorkersKnowConnection /\ TornIsUnlisted
  BY <1>2, <1>3 DEF WorkersKnowConnection, TornIsUnlisted, At
<1>5. UnbornUntouched /\ EntriesUsable
  BY DEF Init, UnbornUntouched, EntriesUsable
<1> QED
  BY <1>1, <1>4, <1>5 DEF RelayInv

(* A step that gives one goroutine the record w keeps the facts about
   goroutines, if w satisfies them and no existing connection comes back into
   the table. *)
LEMMA WorkersStep ==
    ASSUME RelayInv, NEW t \in Threads, NEW w \in Worker,
           th' = [th EXCEPT ![t] = w],
           \A d \in Conns : idOf[d] \in Ids => idOf'[d] = idOf[d],
           \A d \in Conns : idOf[d] \in Ids /\ table[idOf[d]] # d => table'[idOf[d]] # d,
           w.at = "insert" => w.id \in Ids,
           w.at \in {"newpc", "setup", "wait", "fail", "teardown"}
               => w.c \in Conns /\ idOf'[w.c] \in Ids,
           w.at = "teardown" => table'[idOf'[w.c]] # w.c,
           t = Cleaner => \A c \in w.left : idOf'[c] \in Ids /\ table'[idOf'[c]] # c
    PROVE  th' \in [Threads -> Worker] /\ WorkersKnowConnection' /\ TornIsUnlisted'
<1>1. th \in [Threads -> Worker]
  BY DEF RelayInv, TypeOK, Worker, Labels
<1>2. th' \in [Threads -> Worker]
  BY <1>1
<1>3. /\ th'[t] = w
      /\ \A u \in Threads : u # t => th'[u] = th[u]
  BY <1>1
<1>4. Cleaner \in Threads
  BY DEF Threads
<1>5. WorkersKnowConnection'
  <2> SUFFICES ASSUME NEW u \in Threads
               PROVE  /\ th'[u].at = "insert" => th'[u].id \in Ids
                      /\ th'[u].at \in {"newpc", "setup", "wait", "fail", "teardown"}
                            => th'[u].c \in Conns /\ idOf'[th'[u].c] \in Ids
    BY DEF WorkersKnowConnection, At
  <2>1. CASE u = t
    BY <1>3, <2>1
  <2>2. CASE u # t
    BY <1>3, <2>2 DEF RelayInv, WorkersKnowConnection, At
  <2> QED
    BY <2>1, <2>2
<1>6. \A u \in Threads : th'[u].at = "teardown" => table'[idOf'[th'[u].c]] # th'[u].c
  <2> SUFFICES ASSUME NEW u \in Threads, th'[u].at = "teardown"
               PROVE  table'[idOf'[th'[u].c]] # th'[u].c
    OBVIOUS
  <2>1. CASE u = t
    BY <1>3, <2>1
  <2>2. CASE u # t
    <3>1. th[u].at = "teardown" /\ th[u].c \in Conns /\ idOf[th[u].c] \in Ids
      BY <1>3, <2>2 DEF RelayInv, WorkersKnowConnection, At
    <3>2. table[idOf[th[u].c]] # th[u].c
      BY <3>1 DEF RelayInv, TornIsUnlisted, At
    <3> QED
      BY <1>3, <2>2, <3>1, <3>2
  <2> QED
    BY <2>1, <2>2
<1>7. \A c \in th'[Cleaner].left : idOf'[c] \in Ids /\ table'[idOf'[c]] # c
  <2>1. CASE t = Cleaner
    BY <1>3, <2>1
  <2>2. CASE t # Cleaner
    <3>1. th'[Cleaner] = th[Cleaner] /\ th[Cleaner].left \subseteq Conns
      BY <1>1, <1>3, <1>4, <2>2 DEF Worker
    <3> QED
      BY <3>1 DEF RelayInv, TornIsUnlisted
  <2> QED
    BY <2>1, <2>2
<1> QED
  BY <1>2, <1>5, <1>6, <1>7 DEF TornIsUnlisted, At

(* failConnection, from a setup error, the timeout or ICE. *)
LEMMA FailStep ==
    ASSUME RelayInv, NEW t \in Threads, NEW c \in Conns, idOf[c] \in Ids,
           failConnection(t, c)
    PROVE  RelayInv'
<1> USE RelayAssumption
<1>0. Idle \in Worker /\ Tearing(c) \in Worker
  BY WorkerRecords
<1>1. CASE state[c] = "failed"
  <2>1. th' = [th EXCEPT ![t] = Idle] /\ UNCHANGED <<table, idOf, state, pc, stop, channel, announced, kalive>>
    BY <1>1 DEF failConnection, Return, Become
  <2>2. th' \in [Threads -> Worker] /\ WorkersKnowConnection' /\ TornIsUnlisted'
    BY <1>0, <2>1, WorkersStep DEF Idle
  <2> QED
    BY <2>1, <2>2 DEF RelayInv, TypeOK, UnbornUntouched, EntriesUsable, channel, Worker, Labels
<1>2. CASE state[c] # "failed"
  <2>1. /\ th' = [th EXCEPT ![t] = Tearing(c)]
        /\ table' = [table EXCEPT ![idOf[c]] = NoConn]
        /\ state' = [state EXCEPT ![c] = "failed"]
        /\ UNCHANGED <<idOf, pc, stop, channel, announced, kalive>>
    BY <1>2 DEF failConnection, Become
  <2>2. table \in [Ids -> Conns \cup {NoConn}]
    BY DEF RelayInv, TypeOK
  <2>3. Tearing(c).at = "teardown" /\ Tearing(c).c = c /\ Tearing(c).left = {}
    BY DEF Tearing, Idle
  <2>4. table'[idOf'[c]] # c
    BY <2>1, <2>2
  <2>5. \A d \in Conns : idOf[d] \in Ids /\ table[idOf[d]] # d => table'[idOf[d]] # d
    BY <2>1, <2>2
  <2>6. th' \in [Threads -> Worker] /\ WorkersKnowConnection' /\ TornIsUnlisted'
    BY <1>0, <2>1, <2>3, <2>4, <2>5, WorkersStep
  <2>7. TypeOK'
    BY <2>1, <2>6 DEF RelayInv, TypeOK, channel, Worker, Labels
  <2>8. EntriesUsable'
    BY <2>1, <2>2 DEF RelayInv, TypeOK, EntriesUsable
  <2> QED
    BY <2>1, <2>6, <2>7, <2>8 DEF RelayInv, UnbornUntouched, channel
<1> QED
  BY <1>1, <1>2

(* Every step keeps the invariant. *)
LEMMA RelayStep == RelayInv /\ [Next]_vars => RelayInv'
<1> SUFFICES ASSUME RelayInv, [Next]_vars PROVE RelayInv'
  OBVIOUS
<1> USE RelayAssumption
<1>a. /\ th \in [Threads -> Worker] /\ Idle \in Worker /\ Cleaner \in Threads
      /\ Callers \subseteq Threads
      /\ \A c \in Conns : <<c, "timer">> \in Threads /\ <<c, "ice">> \in Threads
                           /\ <<c, "close">> \in Threads
  BY WorkerRecords DEF RelayInv, TypeOK, Threads, Worker, Labels
<1>b. /\ Idle.at = "idle" /\ Idle.left = {}
      /\ \A c : Tearing(c).at = "teardown" /\ Tearing(c).c = c /\ Tearing(c).left = {}
  BY DEF Idle, Tearing
<1>c. /\ table \in [Ids -> Conns \cup {NoConn}] /\ idOf \in [Conns -> Ids \cup {NoId}]
      /\ \A id \in Ids : table[id] \in Conns => idOf[table[id]] = id
  BY DEF RelayInv, TypeOK, EntriesUsable
<1>d. \A c \in Conns : Cleaner # <<c, "timer">> /\ Cleaner # <<c, "close">>
  <2> SUFFICES ASSUME NEW c \in Conns
               PROVE  Cleaner # <<c, "timer">> /\ Cleaner # <<c, "close">>
    OBVIOUS
  <2>1. /\ <<c, "timer">> \in Conns \X {"timer", "ice", "close"}
        /\ <<c, "close">> \in Conns \X {"timer", "ice", "close"}
    OBVIOUS
  <2> QED
    BY <2>1, Zenon
<1>1. ASSUME NEW t \in Callers, NEW id \in Ids, ConfigureRelays(t, id)
      PROVE  RelayInv'
  <2> DEFINE w == [Idle EXCEPT !.at = "insert", !.id = id]
  <2>1. th' = [th EXCEPT ![t] = w]
        /\ UNCHANGED <<table, idOf, state, pc, stop, channel, announced, kalive>>
    BY <1>1 DEF ConfigureRelays, Become
  <2>2. w \in Worker /\ w.at = "insert" /\ w.id = id /\ w.left = {}
    BY DEF Idle, Worker, Labels
  <2> HIDE DEF w
  <2>3. th' \in [Threads -> Worker] /\ WorkersKnowConnection' /\ TornIsUnlisted'
    BY <1>a, <2>1, <2>2, WorkersStep
  <2> QED
    BY <2>1, <2>3 DEF RelayInv, TypeOK, UnbornUntouched, EntriesUsable, channel, Worker, Labels
<1>2. ASSUME NEW t \in Callers, NEW c \in Conns, connectToRelay(t, c)
      PROVE  RelayInv'
  <2> DEFINE w == [Idle EXCEPT !.at = "newpc", !.c = c]
  <2>1. /\ th' = [th EXCEPT ![t] = w] /\ idOf[c] = NoId /\ th[t].id \in Ids
        /\ idOf' = [idOf EXCEPT ![c] = th[t].id]
        /\ state' = [state EXCEPT ![c] = "connecting"]
        /\ table' = [table EXCEPT ![th[t].id] = c]
        /\ UNCHANGED <<pc, stop, channel, announced, kalive>>
    BY <1>a, <1>2 DEF connectToRelay, Become, At, RelayInv, WorkersKnowConnection
  <2>2. w \in Worker /\ w.at = "newpc" /\ w.c = c /\ w.left = {}
    BY DEF Idle, Worker, Labels
  <2> HIDE DEF w
  <2>3. \A d \in Conns : idOf[d] \in Ids => d # c /\ idOf'[d] = idOf[d]
    BY <1>c, <2>1
  <2>4. \A d \in Conns : idOf[d] \in Ids /\ table[idOf[d]] # d => table'[idOf[d]] # d
    BY <1>c, <2>1, <2>3
  <2>5. idOf'[c] \in Ids
    BY <1>c, <2>1
  <2>6. th' \in [Threads -> Worker] /\ WorkersKnowConnection' /\ TornIsUnlisted'
    BY <1>a, <2>1, <2>2, <2>3, <2>4, <2>5, WorkersStep
  <2>7. TypeOK'
    BY <2>1, <2>6 DEF RelayInv, TypeOK, channel, Worker, Labels
  <2>8. UnbornUntouched'
    BY <1>c, <2>1 DEF RelayInv, UnbornUntouched, channel
  <2>9. EntriesUsable'
    <3> SUFFICES ASSUME NEW id \in Ids, table'[id] # NoConn
                 PROVE  /\ idOf'[table'[id]] = id
                        /\ state'[table'[id]] \in {"connecting", "open"}
                        /\ table'[id] \notin stop'
      BY DEF EntriesUsable
    <3>1. CASE id = th[t].id
      BY <1>c, <2>1, <3>1 DEF RelayInv, TypeOK, UnbornUntouched
    <3>2. CASE id # th[t].id
      BY <1>c, <2>1, <3>2 DEF RelayInv, TypeOK, EntriesUsable
    <3> QED
      BY <3>1, <3>2
  <2> QED
    BY <2>6, <2>7, <2>8, <2>9 DEF RelayInv
<1>3. ASSUME NEW t \in Callers, NewPeerConnection(t)
      PROVE  RelayInv'
  <2> DEFINE w == [th[t] EXCEPT !.at = "setup"]
  <2>1. /\ th' = [th EXCEPT ![t] = w] /\ th[t].c \in Conns /\ idOf[th[t].c] \in Ids
        /\ pc' = [pc EXCEPT ![th[t].c] = IF th[t].c \in stop THEN "late" ELSE "made"]
        /\ UNCHANGED <<table, idOf, state, stop, channel, announced, kalive>>
    BY <1>a, <1>3 DEF NewPeerConnection, Goto, At, RelayInv, WorkersKnowConnection
  <2>2. w \in Worker /\ w.at = "setup" /\ w.c = th[t].c /\ w.left = th[t].left
    BY <1>a DEF Worker, Labels
  <2> HIDE DEF w
  <2>3. t # Cleaner
    BY DEF Threads
  <2>4. th' \in [Threads -> Worker] /\ WorkersKnowConnection' /\ TornIsUnlisted'
    BY <1>a, <2>1, <2>2, <2>3, WorkersStep
  <2> QED
    BY <2>1, <2>4 DEF RelayInv, TypeOK, UnbornUntouched, EntriesUsable, channel, Worker, Labels
<1>4. ASSUME NEW t \in Callers, SetupFails(t)
      PROVE  RelayInv'
  <2> DEFINE w == [th[t] EXCEPT !.at = "fail"]
  <2>1. /\ th' = [th EXCEPT ![t] = w] /\ th[t].c \in Conns /\ idOf[th[t].c] \in Ids
        /\ UNCHANGED <<table, idOf, state, pc, stop, channel, announced, kalive>>
    BY <1>a, <1>4 DEF SetupFails, Goto, At, RelayInv, WorkersKnowConnection
  <2>2. w \in Worker /\ w.at = "fail" /\ w.c = th[t].c /\ w.left = th[t].left
    BY <1>a DEF Worker, Labels
  <2> HIDE DEF w
  <2>3. th' \in [Threads -> Worker] /\ WorkersKnowConnection' /\ TornIsUnlisted'
    BY <1>a, <2>1, <2>2, WorkersStep
  <2> QED
    BY <2>1, <2>3 DEF RelayInv, TypeOK, UnbornUntouched, EntriesUsable, channel, Worker, Labels
<1>5. ASSUME NEW t \in Callers, SetRemoteDescription(t)
      PROVE  RelayInv'
  <2> DEFINE c == th[t].c
             w == [Idle EXCEPT !.at = "wait", !.c = c]
  <2>1. /\ th' = [th EXCEPT ![t] = Idle, ![<<c, "timer">>] = w]
        /\ c \in Conns /\ idOf[c] \in Ids
        /\ ready' = ready \cup {c}
        /\ UNCHANGED <<table, idOf, state, pc, stop, opened, closed, announced, kalive>>
    BY <1>a, <1>5 DEF SetRemoteDescription, At, RelayInv, WorkersKnowConnection
  <2>2. w \in Worker /\ w.at = "wait" /\ w.c = c /\ w.left = {}
    BY <2>1 DEF Idle, Worker, Labels
  <2> HIDE DEF w, c
  <2>3. /\ th' \in [Threads -> Worker]
        /\ \A u \in Threads : th'[u] \in {th[u], Idle, w}
        /\ th'[Cleaner] = th[Cleaner]
    <3>1. <<c, "timer">> \in Threads /\ Cleaner # <<c, "timer">> /\ t \in Threads
          /\ t # Cleaner
      BY <1>a, <1>d, <2>1
    <3> QED
      BY <1>a, <2>1, <2>2, <3>1
  <2>4. WorkersKnowConnection' /\ TornIsUnlisted'
    BY <1>b, <2>1, <2>2, <2>3 DEF RelayInv, WorkersKnowConnection, TornIsUnlisted, At
  <2>5. TypeOK'
    BY <2>1, <2>3 DEF RelayInv, TypeOK, Worker, Labels
  <2> QED
    BY <2>1, <2>4, <2>5 DEF RelayInv, UnbornUntouched, EntriesUsable
<1>6. ASSUME NEW c \in Conns, TimerStops(c) \/ TimerFires(c)
      PROVE  RelayInv'
  <2> DEFINE t == <<c, "timer">>
  <2>1. PICK w \in {Idle, [th[t] EXCEPT !.at = "fail"]} :
           /\ th' = [th EXCEPT ![t] = w]
           /\ th[t].at = "wait"
           /\ UNCHANGED <<table, idOf, state, pc, stop, channel, announced, kalive>>
    BY <1>a, <1>6 DEF TimerStops, TimerFires, Goto, Return, Become, At
  <2>2. t \in Threads /\ t # Cleaner
    BY <1>a, <1>d
  <2>3. th[t].c \in Conns /\ idOf[th[t].c] \in Ids
    BY <2>1, <2>2 DEF RelayInv, WorkersKnowConnection, At
  <2>4. /\ w \in Worker
        /\ w.at = "idle" \/ (w.at = "fail" /\ w.c = th[t].c)
    BY <1>a, <1>b, <2>2 DEF Worker, Labels
  <2> HIDE DEF t
  <2>5. th' \in [Threads -> Worker] /\ WorkersKnowConnection' /\ TornIsUnlisted'
    BY <2>1, <2>2, <2>3, <2>4, WorkersStep
  <2> QED
    BY <2>1, <2>5 DEF RelayInv, TypeOK, UnbornUntouched, EntriesUsable, channel, Worker, Labels
<1>7. ASSUME NEW t \in Threads, Fail(t)
      PROVE  RelayInv'
  <2>1. th[t].c \in Conns /\ idOf[th[t].c] \in Ids /\ failConnection(t, th[t].c)
    BY <1>7 DEF Fail, RelayInv, WorkersKnowConnection, At
  <2> QED
    BY <2>1, FailStep
<1>8. ASSUME NEW c \in Conns, OnICEConnectionStateChange(c)
      PROVE  RelayInv'
  <2>1. idOf[c] \in Ids /\ failConnection(<<c, "ice">>, c)
    BY <1>8, <1>c DEF OnICEConnectionStateChange, RelayInv, UnbornUntouched
  <2> QED
    BY <1>a, <2>1, FailStep
<1>9. ASSUME NEW c \in Conns, ChannelOpens(c)
      PROVE  RelayInv'
  BY <1>9 DEF ChannelOpens, RelayInv, TypeOK, UnbornUntouched, EntriesUsable,
              WorkersKnowConnection, TornIsUnlisted, At
<1>10. ASSUME NEW c \in Conns, OnOpen(c)
       PROVE  RelayInv'
  <2>1. /\ c \in opened /\ announced' = announced \cup {c} /\ kalive' = kalive \cup {c}
        /\ state' = [state EXCEPT ![c] = "open"]
        /\ UNCHANGED <<table, idOf, pc, stop, ready, opened, closed, th>>
    BY <1>10 DEF OnOpen, channel
  <2>2. TypeOK'
    BY <2>1 DEF RelayInv, TypeOK
  <2>3. EntriesUsable'
    BY <2>1, <1>c DEF RelayInv, TypeOK, EntriesUsable
  <2> QED
    BY <2>1, <2>2, <2>3 DEF RelayInv, UnbornUntouched, WorkersKnowConnection, TornIsUnlisted, At
<1>11. ASSUME NEW c \in Conns, KeepaliveEnds(c)
       PROVE  RelayInv'
  BY <1>11 DEF KeepaliveEnds, RelayInv, TypeOK, UnbornUntouched, EntriesUsable,
               WorkersKnowConnection, TornIsUnlisted, At, channel
<1>12. ASSUME NEW d \in Conns, OnClose(d)
       PROVE  RelayInv'
  <2> DEFINE t == <<d, "close">>
             id == idOf[d]
             c == table[id]
  <2>1. id \in Ids /\ t \in Threads /\ t # Cleaner /\ d \in opened /\ c \in Conns \cup {NoConn}
    <3>1. d \in opened /\ d \in ready /\ idOf[d] # NoId
      BY <1>12 DEF OnClose, RelayInv, TypeOK, UnbornUntouched
    <3> QED
      BY <1>a, <1>c, <1>d, <3>1
  <2>2. /\ closed' = closed \cup {d}
        /\ UNCHANGED <<idOf, pc, stop, ready, opened, announced, kalive>>
    BY <1>12 DEF OnClose, closeConnection
  <2>3. CASE c = NoConn
    <3>1. UNCHANGED <<table, state, th>>
      BY <1>12, <2>3 DEF OnClose, closeConnection
    <3> QED
      BY <2>1, <2>2, <3>1 DEF RelayInv, TypeOK, UnbornUntouched, EntriesUsable,
                              WorkersKnowConnection, TornIsUnlisted, At
  <2>4. CASE c # NoConn
    <3>1. /\ th' = [th EXCEPT ![t] = Tearing(c)]
          /\ table' = [table EXCEPT ![id] = NoConn]
          /\ state' = [state EXCEPT ![c] = "closed"]
      BY <1>12, <2>4 DEF OnClose, closeConnection, Become
    <3>2. c \in Conns /\ idOf[c] = id /\ Tearing(c) \in Worker
      BY <1>c, <2>1, <2>4, WorkerRecords
    <3> HIDE DEF t, id, c
    <3>3. \A e \in Conns : idOf[e] \in Ids /\ table[idOf[e]] # e => table'[idOf[e]] # e
      BY <1>c, <2>1, <3>1
    <3>4. table'[idOf'[c]] # c
      BY <1>c, <2>1, <2>2, <3>1, <3>2
    <3>5. th' \in [Threads -> Worker] /\ WorkersKnowConnection' /\ TornIsUnlisted'
      BY <1>b, <2>1, <2>2, <3>1, <3>2, <3>3, <3>4, WorkersStep
    <3>6. TypeOK'
      BY <2>1, <2>2, <3>1, <3>5 DEF RelayInv, TypeOK, Worker, Labels
    <3>7. EntriesUsable'
      BY <1>c, <2>1, <2>2, <3>1, <3>2 DEF RelayInv, TypeOK, EntriesUsable
    <3> QED
      BY <2>2, <3>5, <3>6, <3>7 DEF RelayInv, UnbornUntouched
  <2> QED
    BY <2>3, <2>4
<1>13. ASSUME NEW t \in Threads, teardown(t)
       PROVE  RelayInv'
  <2> DEFINE c == th[t].c
  <2>1. /\ c \in Conns /\ idOf[c] \in Ids /\ table[idOf[c]] # c
        /\ stop' = stop \cup {c}
        /\ pc' = [pc EXCEPT ![c] = IF @ = "none" THEN @ ELSE "closed"]
        /\ UNCHANGED <<table, idOf, state, channel, announced, kalive>>
    BY <1>13 DEF teardown, At, RelayInv, WorkersKnowConnection, TornIsUnlisted
  <2>2. PICK w \in {Idle, [th[t] EXCEPT !.at = "drain"]} : th' = [th EXCEPT ![t] = w]
    BY <1>a, <1>13 DEF teardown, Goto, Return, Become
  <2>3. w \in Worker /\ w.at \in {"idle", "drain"} /\ w.left \subseteq th[t].left
    BY <1>a, <1>b DEF Worker, Labels
  <2> HIDE DEF c
  <2>4. t = Cleaner => \A d \in w.left : idOf'[d] \in Ids /\ table'[idOf'[d]] # d
    BY <2>1, <2>3 DEF RelayInv, TornIsUnlisted
  <2>5. th' \in [Threads -> Worker] /\ WorkersKnowConnection' /\ TornIsUnlisted'
    BY <2>1, <2>2, <2>3, <2>4, WorkersStep
  <2>6. TypeOK'
    BY <2>1, <2>5 DEF RelayInv, TypeOK, channel, Worker, Labels
  <2>7. EntriesUsable' /\ UnbornUntouched'
    BY <1>c, <2>1 DEF RelayInv, EntriesUsable, UnbornUntouched, channel
  <2> QED
    BY <2>5, <2>6, <2>7 DEF RelayInv
<1>14. ASSUME Cleanup
       PROVE  RelayInv'
  <2> DEFINE held == {table[id] : id \in Ids} \ {NoConn}
             w == [Idle EXCEPT !.at = "drain", !.left = held]
  <2>1. /\ th' = [th EXCEPT ![Cleaner] = w]
        /\ table' = [id \in Ids |-> NoConn]
        /\ UNCHANGED <<idOf, state, pc, stop, channel, announced, kalive>>
    BY <1>14 DEF Cleanup, Become
  <2>2. held \subseteq Conns /\ \A c \in held : idOf[c] \in Ids
    BY <1>c
  <2>3. w \in Worker /\ w.at = "drain" /\ w.left = held
    BY <2>2 DEF Idle, Worker, Labels
  <2> HIDE DEF w, held
  <2>4. \A d \in Conns : idOf[d] \in Ids => table'[idOf[d]] # d
    BY <2>1
  <2>5. th' \in [Threads -> Worker] /\ WorkersKnowConnection' /\ TornIsUnlisted'
    BY <1>a, <2>1, <2>2, <2>3, <2>4, WorkersStep
  <2> QED
    BY <2>1, <2>5 DEF RelayInv, TypeOK, UnbornUntouched, EntriesUsable, channel, Worker, Labels
<1>15. ASSUME drain
       PROVE  RelayInv'
  <2> DEFINE left == th[Cleaner].left
  <2>1. UNCHANGED <<table, idOf, state, pc, stop, channel, announced, kalive>>
    BY <1>15 DEF drain
  <2>2. left \subseteq Conns /\ \A c \in left : idOf[c] \in Ids /\ table[idOf[c]] # c
    BY <1>a DEF RelayInv, TornIsUnlisted, Worker
  <2>3. th' \in [Threads -> Worker] /\ WorkersKnowConnection' /\ TornIsUnlisted'
    <3>1. CASE th' = [th EXCEPT ![Cleaner] = Idle]
      BY <1>a, <1>b, <2>1, <3>1, WorkersStep
    <3>2. ASSUME NEW c \in left, th' = [th EXCEPT ![Cleaner] = [Tearing(c) EXCEPT !.left = left \ {c}]]
          PROVE  th' \in [Threads -> Worker] /\ WorkersKnowConnection' /\ TornIsUnlisted'
      <4> DEFINE w == [Tearing(c) EXCEPT !.left = left \ {c}]
      <4>1. w \in Worker /\ w.at = "teardown" /\ w.c = c /\ w.left = left \ {c}
        BY <2>2 DEF Tearing, Idle, Worker, Labels
      <4>2. th' = [th EXCEPT ![Cleaner] = w]
        BY <3>2
      <4> HIDE DEF w, left
      <4> QED
        BY <1>a, <2>1, <2>2, <4>1, <4>2, WorkersStep
    <3> QED
      BY <1>15, <3>1, <3>2 DEF drain, Return, Become
  <2> QED
    BY <2>1, <2>3 DEF RelayInv, TypeOK, UnbornUntouched, EntriesUsable, channel, Worker, Labels
<1>16. ASSUME UNCHANGED vars
       PROVE  RelayInv'
  BY <1>16 DEF vars, channel, RelayInv, TypeOK, UnbornUntouched, EntriesUsable,
               WorkersKnowConnection, TornIsUnlisted, At
<1> QED
  BY <1>1, <1>2, <1>3, <1>4, <1>5, <1>6, <1>7, <1>8, <1>9, <1>10, <1>11, <1>12, <1>13,
     <1>14, <1>15, <1>16 DEF Next, Step, Connect, Timer

(* However ConfigureRelays, the timeout, pion's callbacks and Cleanup
   interleave, the transport is type correct and its table holds only
   connections that are connecting or open and were not torn down. *)
THEOREM TableHoldsNoDeadConnection == Spec => []TableSound
<1>1. RelayInv => TableSound
  BY DEF RelayInv, TableSound
<1> QED
  BY <1>1, RelayInit, RelayStep, PTL DEF Spec

-----------------------------------------------------------------------------
(* No peer connection is lost. *)

(* A step that gives one goroutine the record w keeps StartsFresh, if w
   respects it. *)
LEMMA FreshStep ==
    ASSUME RelayInv, StartsFresh, NEW t \in Threads, NEW w \in Worker,
           th' = [th EXCEPT ![t] = w], ready' = ready, closed \subseteq closed',
           t \in Callers /\ w.at \in {"newpc", "setup"} =>
               /\ w.c \notin ready
               /\ \A u \in Callers : u # t /\ th[u].at \in {"newpc", "setup"} => th[u].c # w.c,
           \A c \in Conns : t = <<c, "timer">> => w.at = "idle" \/ c \in ready,
           \A c \in Conns : t = <<c, "close">> => w.at = "idle" \/ c \in closed',
           t = Cleaner => w.at \in {"teardown", "drain"} \/ w = Idle
    PROVE  StartsFresh'
<1> USE RelayAssumption
<1>1. /\ th \in [Threads -> Worker] /\ Cleaner \in Threads /\ Callers \subseteq Threads
      /\ \A c \in Conns : <<c, "timer">> \in Threads /\ <<c, "close">> \in Threads
  BY DEF RelayInv, TypeOK, Threads, Worker, Labels
<1>2. /\ th'[t] = w
      /\ \A u \in Threads : u # t => th'[u] = th[u]
  BY <1>1
<1>3. \A u \in Callers : th'[u].at \in {"newpc", "setup"} =>
         /\ th'[u].c \notin ready'
         /\ \A v \in Callers : th'[v].at \in {"newpc", "setup"} /\ th'[v].c = th'[u].c => v = u
  <2> SUFFICES ASSUME NEW u \in Callers, th'[u].at \in {"newpc", "setup"}
               PROVE  /\ th'[u].c \notin ready'
                      /\ \A v \in Callers : th'[v].at \in {"newpc", "setup"} /\ th'[v].c = th'[u].c
                                              => v = u
    OBVIOUS
  <2>1. CASE u = t
    BY <1>1, <1>2, <2>1
  <2>2. CASE u # t
    BY <1>1, <1>2, <2>2 DEF StartsFresh
  <2> QED
    BY <2>1, <2>2
<1>4. \A c \in Conns : c \notin ready' => th'[<<c, "timer">>].at = "idle"
  BY <1>1, <1>2 DEF StartsFresh, At
<1>5. \A c \in Conns : c \notin closed' => th'[<<c, "close">>].at = "idle"
  BY <1>1, <1>2 DEF StartsFresh, At
<1>6. /\ th'[Cleaner].at \in {"idle", "teardown", "drain"}
      /\ th'[Cleaner].at = "idle" => th'[Cleaner].left = {}
  BY <1>1, <1>2 DEF StartsFresh, At, Idle
<1> QED
  BY <1>3, <1>4, <1>5, <1>6 DEF StartsFresh, At

(* A step that gives one goroutine the record w forgets no connection, if it
   accounts for those that leave the table and for the one w drops. *)
LEMMA AccountStep ==
    ASSUME RelayInv, NoneForgotten, NEW t \in Threads, NEW w \in Worker,
           th' = [th EXCEPT ![t] = w],
           stop \subseteq stop',
           \A d \in Conns : idOf[d] \in Ids => idOf'[d] = idOf[d],
           \A c \in Conns : idOf[c] \notin Ids /\ idOf'[c] \in Ids => Accounted(c)',
           \A c \in Conns : idOf[c] \in Ids /\ table[idOf[c]] = c => Accounted(c)',
           th[t].at = "teardown" => th[t].c \in stop',
           t = Cleaner => \A c \in th[t].left : c \in w.left \/ (w.at = "teardown" /\ w.c = c)
    PROVE  \A c \in Conns : idOf'[c] \in Ids /\ c \notin stop' => Accounted(c)'
<1> SUFFICES ASSUME NEW c \in Conns, idOf'[c] \in Ids, c \notin stop', idOf[c] \in Ids
             PROVE  Accounted(c)'
  OBVIOUS
<1>1. th \in [Threads -> Worker] /\ Cleaner \in Threads
  BY DEF RelayInv, TypeOK, Threads, Worker, Labels
<1>2. /\ th'[t] = w
      /\ \A u \in Threads : u # t => th'[u] = th[u]
  BY <1>1
<1>3. Accounted(c)
  BY DEF NoneForgotten
<1>4. CASE table[idOf[c]] = c
  BY <1>4
<1>5. CASE BeingClosed(c)
  <2>1. BeingClosed(c)'
    <3>1. CASE c \in th[Cleaner].left
      <4>1. CASE t = Cleaner
        BY <1>1, <1>2, <3>1, <4>1 DEF BeingClosed, At
      <4>2. CASE t # Cleaner
        BY <1>1, <1>2, <3>1, <4>2 DEF BeingClosed
      <4> QED
        BY <4>1, <4>2
    <3>2. ASSUME NEW u \in Threads, th[u].c = c, th[u].at = "teardown"
          PROVE  BeingClosed(c)'
      BY <1>1, <1>2, <3>2 DEF BeingClosed, At
    <3> QED
      BY <1>5, <3>1, <3>2 DEF BeingClosed, At
  <2> QED
    BY <2>1 DEF Accounted
<1>6. CASE \E d \in Conns \ {c} : idOf[d] = idOf[c]
  BY <1>6 DEF Accounted
<1> QED
  BY <1>3, <1>4, <1>5, <1>6 DEF Accounted

(* The same when the step leaves the table, the connections and stopCh alone
   and the goroutine neither tears down nor is Cleanup's. *)
LEMMA QuietStep ==
    ASSUME RelayInv, NoneForgotten, NEW t \in Threads, NEW w \in Worker,
           th' = [th EXCEPT ![t] = w], UNCHANGED <<table, idOf, stop>>,
           th[t].at # "teardown", t # Cleaner
    PROVE  \A c \in Conns : idOf'[c] \in Ids /\ c \notin stop' => Accounted(c)'
<1>1. \A c \in Conns : table[idOf[c]] = c => Accounted(c)'
  BY DEF Accounted
<1> QED
  BY <1>1, AccountStep

(* failConnection drops the entry of its connection's relay, whoever holds
   it: the holder is the connection itself, which is torn down next, or
   another one of the same relay. *)
LEMMA FailForgetsNone ==
    ASSUME RelayInv, NoneForgotten, NEW t \in Threads, NEW c \in Conns, idOf[c] \in Ids,
           failConnection(t, c), th[t].at # "teardown", t # Cleaner
    PROVE  NoneForgotten' /\ \E w \in Worker : th' = [th EXCEPT ![t] = w]
                                               /\ w.at \in {"idle", "teardown"}
<1> USE RelayAssumption
<1>0. /\ Idle \in Worker /\ Tearing(c) \in Worker /\ Idle.at = "idle"
      /\ Tearing(c).at = "teardown" /\ Tearing(c).c = c
  BY WorkerRecords DEF Idle, Tearing
<1>1. /\ th \in [Threads -> Worker] /\ table \in [Ids -> Conns \cup {NoConn}]
      /\ \A id \in Ids : table[id] \in Conns => idOf[table[id]] = id
  BY DEF RelayInv, TypeOK, EntriesUsable, Worker, Labels
<1>2. CASE state[c] = "failed"
  <2>1. th' = [th EXCEPT ![t] = Idle] /\ UNCHANGED <<table, idOf, pc, stop>>
    BY <1>2 DEF failConnection, Return, Become
  <2> QED
    BY <1>0, <2>1, QuietStep DEF NoneForgotten
<1>3. CASE state[c] # "failed"
  <2>1. /\ th' = [th EXCEPT ![t] = Tearing(c)]
        /\ table' = [table EXCEPT ![idOf[c]] = NoConn]
        /\ UNCHANGED <<idOf, pc, stop>>
    BY <1>3 DEF failConnection, Become
  <2>2. ASSUME NEW d \in Conns, idOf[d] \in Ids, table[idOf[d]] = d
        PROVE  Accounted(d)'
    <3>1. CASE d = c
      BY <1>0, <1>1, <2>1, <3>1 DEF Accounted, BeingClosed, At
    <3>2. CASE d # c /\ idOf[d] = idOf[c]
      BY <2>1, <3>2 DEF Accounted
    <3>3. CASE idOf[d] # idOf[c]
      BY <1>1, <2>1, <2>2, <3>3 DEF Accounted
    <3> QED
      BY <3>1, <3>2, <3>3
  <2>3. \A d \in Conns : idOf'[d] \in Ids /\ d \notin stop' => Accounted(d)'
    BY <1>0, <2>1, <2>2, AccountStep
  <2> QED
    BY <1>0, <2>1, <2>3 DEF NoneForgotten
<1> QED
  BY <1>2, <1>3

(* Every step keeps the invariant behind NoPeerConnectionLost. *)
LEMMA CloseStep ==
    ASSUME RelayInv, RelayInv', StartsFresh, NoneForgotten, [Next]_vars
    PROVE  StartsFresh' /\ NoneForgotten'
<1> USE RelayAssumption
<1>a. /\ th \in [Threads -> Worker] /\ Idle \in Worker /\ Cleaner \in Threads
      /\ Callers \subseteq Threads
      /\ \A c \in Conns : <<c, "timer">> \in Threads /\ <<c, "ice">> \in Threads
                           /\ <<c, "close">> \in Threads
  BY WorkerRecords DEF RelayInv, TypeOK, Threads, Worker, Labels
<1>b. /\ Idle.at = "idle" /\ Idle.left = {}
      /\ \A c : Tearing(c).at = "teardown" /\ Tearing(c).c = c /\ Tearing(c).left = {}
  BY DEF Idle, Tearing
<1>c. /\ table \in [Ids -> Conns \cup {NoConn}] /\ idOf \in [Conns -> Ids \cup {NoId}]
      /\ \A id \in Ids : table[id] \in Conns => idOf[table[id]] = id
      /\ opened \subseteq ready
  BY DEF RelayInv, TypeOK, EntriesUsable
<1>d. /\ \A c \in Conns, k \in {"timer", "ice", "close"} : <<c, k>> # Cleaner /\ <<c, k>> \notin Callers
      /\ \A t \in Callers : t # Cleaner
  <2>1. ASSUME NEW c \in Conns, NEW k \in {"timer", "ice", "close"}
        PROVE  <<c, k>> # Cleaner /\ <<c, k>> \notin Callers
    <3>1. <<c, k>> \in Conns \X {"timer", "ice", "close"}
      OBVIOUS
    <3> QED
      BY <3>1, Zenon
  <2> QED
    BY <2>1
<1>e. \A t \in Callers, c \in Conns : t # <<c, "timer">> /\ t # <<c, "close">>
  BY <1>d
<1>1. ASSUME NEW t \in Callers, NEW id \in Ids, ConfigureRelays(t, id)
      PROVE  StartsFresh' /\ NoneForgotten'
  <2> DEFINE w == [Idle EXCEPT !.at = "insert", !.id = id]
  <2>1. /\ th' = [th EXCEPT ![t] = w] /\ th[t].at = "idle"
        /\ UNCHANGED <<table, idOf, pc, stop, ready, closed>>
    BY <1>1 DEF ConfigureRelays, Become, At, channel
  <2>2. w \in Worker /\ w.at = "insert"
    BY DEF Idle, Worker, Labels
  <2> HIDE DEF w
  <2>3. StartsFresh'
    BY <1>a, <1>d, <1>e, <2>1, <2>2, FreshStep
  <2> QED
    BY <1>a, <1>d, <2>1, <2>2, <2>3, QuietStep DEF NoneForgotten
<1>2. ASSUME NEW t \in Callers, NEW c \in Conns, connectToRelay(t, c)
      PROVE  StartsFresh' /\ NoneForgotten'
  <2> DEFINE w == [Idle EXCEPT !.at = "newpc", !.c = c]
  <2>1. /\ th' = [th EXCEPT ![t] = w] /\ idOf[c] = NoId /\ th[t].id \in Ids
        /\ th[t].at = "insert"
        /\ idOf' = [idOf EXCEPT ![c] = th[t].id]
        /\ table' = [table EXCEPT ![th[t].id] = c]
        /\ UNCHANGED <<pc, stop, ready, closed>>
    BY <1>a, <1>2 DEF connectToRelay, Become, At, RelayInv, WorkersKnowConnection, channel
  <2>2. w \in Worker /\ w.at = "newpc" /\ w.c = c
    BY DEF Idle, Worker, Labels
  <2> HIDE DEF w
  <2>3. c \notin ready
    BY <2>1 DEF RelayInv, UnbornUntouched
  <2>4. \A u \in Callers : th[u].at \in {"newpc", "setup"} => th[u].c # c
    BY <1>a, <2>1 DEF RelayInv, WorkersKnowConnection
  <2>5. StartsFresh'
    BY <1>a, <1>d, <1>e, <2>1, <2>2, <2>3, <2>4, FreshStep
  <2>6. Accounted(c)'
    BY <1>c, <2>1 DEF Accounted
  <2>7. \A d \in Conns : idOf[d] \in Ids => idOf'[d] = idOf[d] /\ d # c
    BY <1>c, <2>1
  <2>8. ASSUME NEW d \in Conns, idOf[d] \in Ids, table[idOf[d]] = d
        PROVE  Accounted(d)'
    <3>1. CASE idOf[d] = th[t].id
      BY <1>c, <2>1, <2>7, <2>8, <3>1 DEF Accounted
    <3>2. CASE idOf[d] # th[t].id
      BY <1>c, <2>1, <2>7, <2>8, <3>2 DEF Accounted
    <3> QED
      BY <3>1, <3>2
  <2>9. \A d \in Conns : idOf[d] \notin Ids /\ idOf'[d] \in Ids => Accounted(d)'
    BY <1>c, <2>1, <2>6
  <2>10. \A d \in Conns : idOf'[d] \in Ids /\ d \notin stop' => Accounted(d)'
    BY <1>a, <1>d, <2>1, <2>2, <2>7, <2>8, <2>9, AccountStep
  <2> QED
    BY <1>c, <2>1, <2>5, <2>7, <2>10 DEF NoneForgotten
<1>3. ASSUME NEW t \in Callers, NewPeerConnection(t)
      PROVE  StartsFresh' /\ NoneForgotten'
  <2> DEFINE w == [th[t] EXCEPT !.at = "setup"]
  <2>1. /\ th' = [th EXCEPT ![t] = w] /\ th[t].at = "newpc"
        /\ th[t].c \in Conns /\ idOf[th[t].c] \in Ids
        /\ pc' = [pc EXCEPT ![th[t].c] = IF th[t].c \in stop THEN "late" ELSE "made"]
        /\ UNCHANGED <<table, idOf, stop, ready, closed>>
    BY <1>a, <1>3 DEF NewPeerConnection, Goto, At, RelayInv, WorkersKnowConnection, channel
  <2>2. w \in Worker /\ w.at = "setup" /\ w.c = th[t].c
    BY <1>a DEF Worker, Labels
  <2> HIDE DEF w
  <2>3. /\ w.c \notin ready
        /\ \A u \in Callers : u # t /\ th[u].at \in {"newpc", "setup"} => th[u].c # w.c
    BY <2>1, <2>2 DEF StartsFresh
  <2>4. StartsFresh'
    BY <1>a, <1>d, <1>e, <2>1, <2>2, <2>3, FreshStep
  <2>5. \A d \in Conns : idOf'[d] \in Ids /\ d \notin stop' => Accounted(d)'
    BY <1>a, <1>d, <2>1, <2>2, QuietStep
  <2>6. \A d \in Conns : pc'[d] = "made" => idOf'[d] \in Ids /\ d \notin stop'
    BY <2>1 DEF RelayInv, TypeOK, NoneForgotten
  <2> QED
    BY <2>4, <2>5, <2>6 DEF NoneForgotten
<1>4. ASSUME NEW t \in Callers, SetupFails(t)
      PROVE  StartsFresh' /\ NoneForgotten'
  <2> DEFINE w == [th[t] EXCEPT !.at = "fail"]
  <2>1. /\ th' = [th EXCEPT ![t] = w] /\ th[t].at \in {"newpc", "setup"}
        /\ UNCHANGED <<table, idOf, pc, stop, ready, closed>>
    BY <1>a, <1>4 DEF SetupFails, Goto, At, channel
  <2>2. w \in Worker /\ w.at = "fail"
    BY <1>a DEF Worker, Labels
  <2> HIDE DEF w
  <2>3. StartsFresh'
    BY <1>a, <1>d, <1>e, <2>1, <2>2, FreshStep
  <2> QED
    BY <1>a, <1>d, <2>1, <2>2, <2>3, QuietStep DEF NoneForgotten
<1>5. ASSUME NEW t \in Callers, SetRemoteDescription(t)
      PROVE  StartsFresh' /\ NoneForgotten'
  <2> DEFINE c == th[t].c
             w == [Idle EXCEPT !.at = "wait", !.c = c]
  <2>1. /\ th' = [th EXCEPT ![t] = Idle, ![<<c, "timer">>] = w]
        /\ c \in Conns /\ th[t].at = "setup"
        /\ ready' = ready \cup {c}
        /\ UNCHANGED <<table, idOf, pc, stop, closed>>
    BY <1>a, <1>5 DEF SetRemoteDescription, At, RelayInv, WorkersKnowConnection
  <2>2. w \in Worker /\ w.at = "wait"
    BY <2>1 DEF Idle, Worker, Labels
  <2>3. th[<<c, "timer">>].at = "idle"
    BY <2>1 DEF StartsFresh, At
  <2>4. \A u \in Callers : u # t /\ th[u].at \in {"newpc", "setup"} => th[u].c # c
    BY <2>1 DEF StartsFresh
  <2> HIDE DEF w, c
  <2>5. /\ th'[t] = Idle /\ th'[<<c, "timer">>] = w
        /\ \A u \in Threads : u # t /\ u # <<c, "timer">> => th'[u] = th[u]
    BY <1>a, <1>d, <2>1
  <2>6. \A d \in Conns : <<d, "close">> # t /\ <<d, "close">> # <<c, "timer">>
                         /\ (<<d, "timer">> = <<c, "timer">> => d = c)
    BY <1>d, <2>1
  <2>7. /\ \A u \in Callers : th'[u].at \in {"newpc", "setup"} => th'[u] = th[u] /\ u # t
        /\ th'[Cleaner] = th[Cleaner]
    BY <1>a, <1>b, <1>d, <2>1, <2>5
  <2>8. \A u \in Callers : th'[u].at \in {"newpc", "setup"} =>
           /\ th'[u].c \notin ready'
           /\ \A v \in Callers : th'[v].at \in {"newpc", "setup"} /\ th'[v].c = th'[u].c => v = u
    <3> SUFFICES ASSUME NEW u \in Callers, th'[u].at \in {"newpc", "setup"}
                 PROVE  /\ th'[u].c \notin ready'
                        /\ \A v \in Callers : th'[v].at \in {"newpc", "setup"} /\ th'[v].c = th'[u].c
                                                => v = u
      OBVIOUS
    <3>1. u # t /\ th'[u] = th[u] /\ th[u].at \in {"newpc", "setup"}
      BY <2>7
    <3>2. th[u].c \notin ready /\ th[u].c # c
      BY <2>4, <3>1 DEF StartsFresh
    <3>3. \A v \in Callers : th[v].at \in {"newpc", "setup"} /\ th[v].c = th[u].c => v = u
      BY <3>1 DEF StartsFresh
    <3>4. th'[u].c \notin ready'
      BY <2>1, <3>1, <3>2
    <3>5. \A v \in Callers : th'[v].at \in {"newpc", "setup"} /\ th'[v].c = th'[u].c => v = u
      BY <2>7, <3>1, <3>3
    <3> QED
      BY <3>4, <3>5
  <2>9. \A d \in Conns : d \notin ready' => th'[<<d, "timer">>].at = "idle"
    BY <1>a, <1>d, <2>1, <2>5, <2>6 DEF StartsFresh, At
  <2>10. \A d \in Conns : d \notin closed' => th'[<<d, "close">>].at = "idle"
    BY <1>a, <2>1, <2>5, <2>6 DEF StartsFresh, At
  <2>11. StartsFresh'
    BY <2>7, <2>8, <2>9, <2>10 DEF StartsFresh, At
  <2>12. \A d \in Conns : BeingClosed(d) => BeingClosed(d)'
    BY <1>a, <2>1, <2>3, <2>5, <2>7 DEF BeingClosed, At
  <2> QED
    BY <2>1, <2>11, <2>12 DEF NoneForgotten, Accounted
<1>6. ASSUME NEW c \in Conns, TimerStops(c) \/ TimerFires(c)
      PROVE  StartsFresh' /\ NoneForgotten'
  <2> DEFINE t == <<c, "timer">>
  <2>1. PICK w \in {Idle, [th[t] EXCEPT !.at = "fail"]} :
           /\ th' = [th EXCEPT ![t] = w] /\ th[t].at = "wait"
           /\ UNCHANGED <<table, idOf, pc, stop, ready, closed>>
    BY <1>a, <1>6 DEF TimerStops, TimerFires, Goto, Return, Become, At, channel
  <2>2. t \in Threads /\ t # Cleaner /\ t \notin Callers
        /\ \A d \in Conns : t # <<d, "close">> /\ (t = <<d, "timer">> => d = c)
    BY <1>a, <1>d
  <2>3. w \in Worker
    BY <1>a, <2>2 DEF Worker, Labels
  <2>4. c \in ready
    BY <2>1 DEF StartsFresh, At
  <2> HIDE DEF t
  <2>5. StartsFresh'
    BY <2>1, <2>2, <2>3, <2>4, FreshStep
  <2> QED
    BY <2>1, <2>2, <2>3, <2>5, QuietStep DEF NoneForgotten
<1>7. ASSUME NEW t \in Threads, Fail(t)
      PROVE  StartsFresh' /\ NoneForgotten'
  <2>1. /\ th[t].c \in Conns /\ idOf[th[t].c] \in Ids /\ failConnection(t, th[t].c)
        /\ th[t].at = "fail" /\ UNCHANGED <<ready, closed>>
    BY <1>7 DEF Fail, RelayInv, WorkersKnowConnection, At, failConnection, channel
  <2>2. t # Cleaner
    BY <2>1 DEF StartsFresh
  <2>3. NoneForgotten' /\ \E w \in Worker : th' = [th EXCEPT ![t] = w] /\ w.at \in {"idle", "teardown"}
    BY <2>1, <2>2, FailForgetsNone
  <2>4. PICK w \in Worker : th' = [th EXCEPT ![t] = w] /\ w.at \in {"idle", "teardown"}
    BY <2>3
  <2>5. /\ \A c \in Conns : t = <<c, "timer">> => c \in ready
        /\ \A c \in Conns : t = <<c, "close">> => c \in closed
    BY <2>1 DEF StartsFresh, At
  <2>6. StartsFresh'
    BY <2>1, <2>2, <2>4, <2>5, FreshStep
  <2> QED
    BY <2>3, <2>6
<1>8. ASSUME NEW c \in Conns, OnICEConnectionStateChange(c)
      PROVE  StartsFresh' /\ NoneForgotten'
  <2> DEFINE t == <<c, "ice">>
  <2>1. /\ idOf[c] \in Ids /\ failConnection(t, c) /\ th[t].at = "idle"
        /\ UNCHANGED <<ready, closed>>
    BY <1>8, <1>c DEF OnICEConnectionStateChange, RelayInv, UnbornUntouched, At,
                      failConnection, channel
  <2>2. t \in Threads /\ t # Cleaner /\ t \notin Callers
        /\ \A d \in Conns : t # <<d, "close">> /\ t # <<d, "timer">>
    BY <1>a, <1>d
  <2> HIDE DEF t
  <2>3. NoneForgotten' /\ \E w \in Worker : th' = [th EXCEPT ![t] = w] /\ w.at \in {"idle", "teardown"}
    BY <2>1, <2>2, FailForgetsNone
  <2>4. PICK w \in Worker : th' = [th EXCEPT ![t] = w] /\ w.at \in {"idle", "teardown"}
    BY <2>3
  <2>5. StartsFresh'
    BY <2>1, <2>2, <2>4, FreshStep
  <2> QED
    BY <2>3, <2>5
<1>9. ASSUME NEW c \in Conns, ChannelOpens(c) \/ OnOpen(c) \/ KeepaliveEnds(c)
      PROVE  StartsFresh' /\ NoneForgotten'
  <2>1. UNCHANGED <<table, idOf, pc, stop, ready, closed, th>>
    BY <1>9 DEF ChannelOpens, OnOpen, KeepaliveEnds, channel
  <2> QED
    BY <2>1 DEF StartsFresh, NoneForgotten, Accounted, BeingClosed, At
<1>10. ASSUME NEW d \in Conns, OnClose(d)
       PROVE  StartsFresh' /\ NoneForgotten'
  <2> DEFINE t == <<d, "close">>
             id == idOf[d]
  <2>1. /\ closed' = closed \cup {d} /\ d \notin closed /\ d \in opened
        /\ UNCHANGED <<idOf, pc, stop, ready>>
    BY <1>10 DEF OnClose, closeConnection
  <2>2. id \in Ids /\ table[id] \in Conns \cup {NoConn}
    <3>1. d \in ready /\ idOf[d] # NoId
      BY <1>c, <2>1 DEF RelayInv, UnbornUntouched
    <3> QED
      BY <1>c, <3>1
  <2>3. t \in Threads /\ t # Cleaner /\ t \notin Callers /\ th[t].at = "idle"
        /\ \A e \in Conns : t # <<e, "timer">> /\ (t = <<e, "close">> => e = d)
    BY <1>a, <1>d, <2>1 DEF StartsFresh, At
  <2>4. CASE table[id] = NoConn
    <3>1. UNCHANGED <<table, state, th>>
      BY <1>10, <2>4 DEF OnClose, closeConnection
    <3> QED
      BY <2>1, <3>1 DEF StartsFresh, NoneForgotten, Accounted, BeingClosed, At
  <2>5. ASSUME NEW c \in Conns, table[id] = c
        PROVE  StartsFresh' /\ NoneForgotten'
    <3>1. /\ th' = [th EXCEPT ![t] = Tearing(c)]
          /\ table' = [table EXCEPT ![id] = NoConn]
      BY <1>10, <2>5 DEF OnClose, closeConnection, Become
    <3>2. c \in Conns /\ idOf[c] = id /\ Tearing(c) \in Worker
      BY <1>c, <2>2, <2>5, WorkerRecords
    <3>3. \A e \in Conns : idOf[e] \in Ids /\ table[idOf[e]] = e /\ idOf[e] = id => e = c
      BY <2>5
    <3> HIDE DEF t, id
    <3>4. StartsFresh'
      BY <1>b, <2>1, <2>3, <3>1, <3>2, FreshStep
    <3>5. BeingClosed(c)'
      BY <1>a, <1>b, <2>3, <3>1 DEF BeingClosed, At
    <3>6. ASSUME NEW e \in Conns, idOf[e] \in Ids, table[idOf[e]] = e
          PROVE  Accounted(e)'
      <4>1. CASE idOf[e] = id
        BY <3>3, <3>5, <3>6, <4>1 DEF Accounted
      <4>2. CASE idOf[e] # id
        BY <1>c, <2>1, <2>2, <3>1, <3>6, <4>2 DEF Accounted
      <4> QED
        BY <4>1, <4>2
    <3>7. \A e \in Conns : idOf'[e] \in Ids /\ e \notin stop' => Accounted(e)'
      BY <2>1, <2>3, <3>1, <3>2, <3>6, AccountStep
    <3> QED
      BY <2>1, <3>4, <3>7 DEF NoneForgotten
  <2> QED
    BY <2>2, <2>4, <2>5
<1>11. ASSUME NEW t \in Threads, teardown(t)
       PROVE  StartsFresh' /\ NoneForgotten'
  <2> DEFINE c == th[t].c
  <2>1. /\ c \in Conns /\ th[t].at = "teardown"
        /\ stop' = stop \cup {c}
        /\ pc' = [pc EXCEPT ![c] = IF @ = "none" THEN @ ELSE "closed"]
        /\ UNCHANGED <<table, idOf, ready, closed>>
    BY <1>11 DEF teardown, At, RelayInv, WorkersKnowConnection, channel
  <2>2. PICK w \in Worker : /\ th' = [th EXCEPT ![t] = w]
                            /\ t = Cleaner => w.at = "drain" /\ w.left = th[t].left
                            /\ t # Cleaner => w = Idle
    <3>1. CASE t = Cleaner
      <4> DEFINE w == [th[t] EXCEPT !.at = "drain"]
      <4>1. th' = [th EXCEPT ![t] = w]
        BY <1>11, <3>1 DEF teardown, Goto
      <4>2. w \in Worker /\ w.at = "drain" /\ w.left = th[t].left
        BY <1>a DEF Worker, Labels
      <4> HIDE DEF w
      <4> QED
        BY <3>1, <4>1, <4>2
    <3>2. CASE t # Cleaner
      BY <1>a, <1>11, <3>2 DEF teardown, Return, Become
    <3> QED
      BY <3>1, <3>2
  <2> HIDE DEF c
  <2>3. /\ t \in Callers => w.at = "idle"
        /\ \A d \in Conns : t = <<d, "timer">> \/ t = <<d, "close">> => w.at = "idle"
    BY <1>b, <1>d, <2>2
  <2>4. StartsFresh'
    BY <2>1, <2>2, <2>3, FreshStep
  <2>5. \A d \in Conns : idOf[d] \in Ids /\ table[idOf[d]] = d => Accounted(d)'
    BY <2>1 DEF Accounted
  <2>6. th[t].c \in stop'
    BY <2>1 DEF c
  <2>7. \A d \in Conns : idOf'[d] \in Ids /\ d \notin stop' => Accounted(d)'
    BY <2>1, <2>2, <2>5, <2>6, AccountStep
  <2>8. \A d \in Conns : pc'[d] = "made" => idOf'[d] \in Ids /\ d \notin stop'
    BY <2>1 DEF NoneForgotten, RelayInv, TypeOK
  <2> QED
    BY <2>4, <2>7, <2>8 DEF NoneForgotten
<1>12. ASSUME Cleanup
       PROVE  StartsFresh' /\ NoneForgotten'
  <2> DEFINE held == {table[id] : id \in Ids} \ {NoConn}
             w == [Idle EXCEPT !.at = "drain", !.left = held]
  <2>1. /\ th' = [th EXCEPT ![Cleaner] = w] /\ th[Cleaner].at = "idle"
        /\ table' = [id \in Ids |-> NoConn]
        /\ UNCHANGED <<idOf, pc, stop, ready, closed>>
    BY <1>12 DEF Cleanup, Become, At, channel
  <2>2. w \in Worker /\ w.at = "drain" /\ w.left = held
    <3>1. held \subseteq Conns
      BY <1>c
    <3> QED
      BY <3>1 DEF Idle, Worker, Labels
  <2>3. \A c \in Conns : idOf[c] \in Ids /\ table[idOf[c]] = c => c \in held
    OBVIOUS
  <2> HIDE DEF w, held
  <2>4. th[Cleaner].left = {}
    BY <2>1 DEF StartsFresh, At
  <2>5. StartsFresh'
    BY <1>a, <1>d, <2>1, <2>2, FreshStep
  <2>6. \A c \in Conns : idOf[c] \in Ids /\ table[idOf[c]] = c => Accounted(c)'
    BY <1>a, <2>1, <2>2, <2>3 DEF Accounted, BeingClosed
  <2>7. \A c \in Conns : idOf'[c] \in Ids /\ c \notin stop' => Accounted(c)'
    BY <1>a, <2>1, <2>2, <2>4, <2>6, AccountStep
  <2> QED
    BY <2>1, <2>5, <2>7 DEF NoneForgotten
<1>13. ASSUME drain
       PROVE  StartsFresh' /\ NoneForgotten'
  <2> DEFINE left == th[Cleaner].left
  <2>1. UNCHANGED <<table, idOf, pc, stop, ready, closed>> /\ th[Cleaner].at = "drain"
    BY <1>13 DEF drain, channel, At
  <2>2. left \subseteq Conns
    BY <1>a DEF Worker
  <2>3. PICK w \in Worker :
           /\ th' = [th EXCEPT ![Cleaner] = w]
           /\ w.at = "teardown" \/ w = Idle
           /\ \A c \in left : c \in w.left \/ (w.at = "teardown" /\ w.c = c)
    <3>1. CASE left = {} /\ th' = [th EXCEPT ![Cleaner] = Idle]
      BY <1>a, <3>1
    <3>2. ASSUME NEW c \in left, th' = [th EXCEPT ![Cleaner] = [Tearing(c) EXCEPT !.left = left \ {c}]]
          PROVE  \E w \in Worker :
                    /\ th' = [th EXCEPT ![Cleaner] = w]
                    /\ w.at = "teardown" \/ w = Idle
                    /\ \A e \in left : e \in w.left \/ (w.at = "teardown" /\ w.c = e)
      <4> DEFINE w == [Tearing(c) EXCEPT !.left = left \ {c}]
      <4>1. w \in Worker /\ w.at = "teardown" /\ w.c = c /\ w.left = left \ {c}
        BY <2>2 DEF Tearing, Idle, Worker, Labels
      <4>2. th' = [th EXCEPT ![Cleaner] = w]
        BY <3>2
      <4> HIDE DEF w, left
      <4> QED
        BY <4>1, <4>2
    <3> QED
      BY <1>13, <3>1, <3>2 DEF drain, Return, Become
  <2> HIDE DEF left
  <2>4. StartsFresh'
    BY <1>a, <1>d, <2>1, <2>3, FreshStep
  <2>5. \A c \in Conns : idOf[c] \in Ids /\ table[idOf[c]] = c => Accounted(c)'
    BY <2>1 DEF Accounted
  <2>6. \A c \in th[Cleaner].left : c \in w.left \/ (w.at = "teardown" /\ w.c = c)
    BY <2>3 DEF left
  <2>7. \A c \in Conns : idOf'[c] \in Ids /\ c \notin stop' => Accounted(c)'
    BY <1>a, <2>1, <2>3, <2>5, <2>6, AccountStep
  <2> QED
    BY <2>1, <2>4, <2>7 DEF NoneForgotten
<1>14. ASSUME UNCHANGED vars
       PROVE  StartsFresh' /\ NoneForgotten'
  BY <1>14 DEF vars, channel, StartsFresh, NoneForgotten, Accounted, BeingClosed, At
<1> QED
  BY <1>1, <1>2, <1>3, <1>4, <1>5, <1>6, <1>7, <1>8, <1>9, <1>10, <1>11, <1>12, <1>13,
     <1>14 DEF Next, Step, Connect, Timer

(* However setup errors, the timeout, ICE, the data channel and Cleanup
   interleave, and although entries are found and deleted by relay id, no peer
   connection that was made before its teardown drops out of the table without
   somebody on the way to close it, unless its relay was connected again. *)
THEOREM PeerConnectionsAccounted == Spec => []NoPeerConnectionLost
<1>1. Init => CloseInv
  <2>1. ASSUME Init PROVE StartsFresh /\ NoneForgotten
    <3>1. /\ \A t \in Threads : th[t].at = "idle" /\ th[t].left = {}
          /\ Cleaner \in Threads /\ Callers \subseteq Threads
          /\ \A c \in Conns : <<c, "timer">> \in Threads /\ <<c, "close">> \in Threads
      BY <2>1 DEF Init, Idle, Threads
    <3>2. \A c \in Conns : idOf[c] = NoId /\ pc[c] = "none"
      BY <2>1 DEF Init
    <3> QED
      BY <3>1, <3>2, RelayAssumption DEF StartsFresh, NoneForgotten, At
  <2> QED
    BY <2>1, RelayInit DEF CloseInv
<1>2. CloseInv /\ [Next]_vars => CloseInv'
  BY RelayStep, CloseStep DEF CloseInv
<1>3. CloseInv => NoPeerConnectionLost
  BY DEF CloseInv, NoneForgotten, Accounted, NoPeerConnectionLost
<1> QED
  BY <1>1, <1>2, <1>3, PTL DEF Spec
=============================================================================
