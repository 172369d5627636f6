---------------------------- MODULE BrokerProofs ----------------------------
(***************************************************************************)
(* Proofs about Broker: whatever the number of browsers, goroutines and    *)
(* calls and the capacity of a channel, the streams are sound and a        *)
(* browser that has read everything shows the calls there are.             *)
(*                                                                         *)
(* The argument for the second is BrokerInv's StreamsConverge: the views a *)
(* browser will go through while it reads its channel end at the table, or *)
(* a list of the whole table is still to be sent to it.                    *)
(***************************************************************************)
EXTENDS Broker, FiniteSetTheorems, TLAPS

-----------------------------------------------------------------------------
\* Events and jobs

\* The events the table's changes and the pairing plan are events, each of its type.
LEMMA EventTypes ==
  ASSUME BrokerInv, NEW c \in Calls, NEW st \in Statuses, NEW cl \in Clients \cup {NoClient}
  PROVE  /\ ListEv(calls) \in Events /\ ListEv(calls).type = "call-list"
         /\ StatusEv(c, st) \in Events /\ EndedEv(c) \in Events
         /\ QREv(cl) \in Events /\ QREv(cl).type = "session-qr"
         /\ Want \notin Events /\ Want.type = "list-wanted"
BY DEF BrokerInv, TypeOK, ListEv, StatusEv, EndedEv, QREv, Events, Want

\* A goroutine that has only a plan.
LEMMA PlanJob ==
  ASSUME NEW p \in Seq(Events \cup {Want})
  PROVE  /\ [Idle EXCEPT !.plan = p] \in Jobs
         /\ [Idle EXCEPT !.plan = p].plan = p /\ ~[Idle EXCEPT !.plan = p].holds
         /\ [Idle EXCEPT !.plan = p].todo = {} /\ [Idle EXCEPT !.plan = p].ev = [type |-> "none"]
BY DEF Idle, Jobs

\* An idle goroutine sends nothing.
LEMMA IdleJob ==
  /\ Idle \in Jobs /\ Idle.plan = <<>> /\ ~Idle.holds /\ Idle.todo = {}
  /\ Idle.ev = [type |-> "none"]
BY DEF Idle, Jobs

\* What a browser shows after an event is a table.
LEMMA ApplyType ==
  ASSUME NEW v \in Tables, NEW ev \in Events
  PROVE  apply(v, ev) \in Tables
<1>1. CASE ev \in [type : {"call-list"}, calls : Tables]
  BY <1>1 DEF apply
<1>2. CASE ev \in [type : {"call-status"}, id : Calls, status : Statuses]
  BY <1>2 DEF apply, Tables
<1>3. CASE ev \in [type : {"call-ended"}, id : Calls]
  BY <1>3 DEF apply, Tables
<1>4. CASE ev \in [type : {"session-qr"}, to : Clients \cup {NoClient}]
  BY <1>4 DEF apply
<1> QED
  BY <1>1, <1>2, <1>3, <1>4 DEF Events

\* An event that agrees with the table changes nothing in a browser that shows it, and a list
\* that does makes any browser show it.
LEMMA AgreesApply ==
  ASSUME calls \in Tables, NEW ev \in Events, Agrees(ev)
  PROVE  /\ apply(calls, ev) = calls
         /\ ev.type = "call-list" => \A v : apply(v, ev) = calls
<1>1. CASE ev \in [type : {"call-list"}, calls : Tables]
  BY <1>1 DEF apply, Agrees
<1>2. CASE ev \in [type : {"call-status"}, id : Calls, status : Statuses]
  BY <1>2 DEF apply, Tables, Agrees
<1>3. CASE ev \in [type : {"call-ended"}, id : Calls]
  BY <1>3 DEF apply, Tables, Agrees
<1>4. CASE ev \in [type : {"session-qr"}, to : Clients \cup {NoClient}]
  BY <1>4 DEF apply
<1> QED
  BY <1>1, <1>2, <1>3, <1>4 DEF Events

\* offer puts the event at the end of the channel, or notes that it was lost.
LEMMA OfferType ==
  ASSUME NEW s \in Subscribers, NEW ev \in Events, Len(s.ch) <= Capacity
  PROVE  /\ offer(s, ev) \in Subscribers /\ Len(offer(s, ev).ch) <= Capacity
         /\ offer(s, ev).state = s.state /\ offer(s, ev).view = s.view
         /\ offer(s, ev).ch = (IF Len(s.ch) < Capacity THEN Append(s.ch, ev) ELSE s.ch)
         /\ offer(s, ev).missed = (s.missed \/ ~(Len(s.ch) < Capacity))
<1>1. Capacity \in Nat
  BY BrokerAssumption
<1>2. s.ch \in Seq(Events)
  BY DEF Subscribers
<1>3. CASE Len(s.ch) < Capacity
  <2>1. Append(s.ch, ev) \in Seq(Events) /\ Len(Append(s.ch, ev)) <= Capacity
    BY <1>1, <1>2, <1>3
  <2>2. offer(s, ev) = [s EXCEPT !.ch = Append(s.ch, ev)]
    BY <1>3 DEF offer
  <2> QED
    BY <1>3, <2>1, <2>2 DEF Subscribers
<1>4. CASE ~(Len(s.ch) < Capacity)
  BY <1>1, <1>2, <1>4 DEF offer, Subscribers
<1> QED
  BY <1>3, <1>4

-----------------------------------------------------------------------------
\* BrokerInv is kept by every action: types

LEMMA InitInv == Init => BrokerInv
<1> SUFFICES ASSUME Init PROVE BrokerInv
  OBVIOUS
<1>1. Empty \in Tables /\ Fresh("new") \in Subscribers /\ Idle \in Jobs
  BY DEF Empty, Tables, Fresh, Subscribers, Idle, Jobs
<1>2. TypeOK
  <2>1. Capacity \in Nat /\ MaxOps \in Nat
    BY BrokerAssumption
  <2>2. Len(Fresh("new").ch) = 0
    BY DEF Fresh
  <2>3. sub \in [Subs -> Subscribers] /\ \A s \in Subs : Len(sub[s].ch) <= Capacity
    BY <1>1, <2>1, <2>2 DEF Init
  <2>4. job \in [Threads -> Jobs] /\ made \in [Calls -> 0 .. MaxOps]
    BY <1>1, <2>1 DEF Init
  <2>5. calls \in Tables /\ history \in Seq(Calls)
    BY <1>1 DEF Init
  <2>6. ops \in 0 .. MaxOps
    BY <2>1 DEF Init
  <2>7. overlapped \in BOOLEAN
    BY Zenon DEF Init
  <2> QED
    BY <2>3, <2>4, <2>5, <2>6, <2>7 DEF TypeOK
<1>3. VisitsSubscribed
  BY IdleJob DEF VisitsSubscribed, Init, Fresh, Threads
<1>4. QRPrivate
  BY BrokerAssumption DEF QRPrivate, Init, Fresh
<1>5. MadeBounded
  BY DEF MadeBounded, Init
<1>6. HistoryOnce
  <2> SUFFICES ASSUME NEW c \in Calls
               PROVE  Cardinality({i \in DOMAIN history : history[i] = c})
                        = made[c] - (IF calls[c] = NoCall THEN 0 ELSE 1)
    BY DEF HistoryOnce
  <2>1. {i \in DOMAIN history : history[i] = c} = {}
    BY DEF Init
  <2> QED
    BY <2>1, FS_EmptySet DEF Init, Empty
<1>7. StreamsConverge
  BY IdleJob DEF StreamsConverge, SaysTheTable, Init, Fresh, Threads
<1> QED
  BY <1>2, <1>3, <1>4, <1>5, <1>6, <1>7 DEF BrokerInv

\* One goroutine's job changes.
LEMMA JobStep ==
  ASSUME BrokerInv, NEW t \in Threads, NEW j \in Jobs, job' = [job EXCEPT ![t] = j]
  PROVE  /\ job' \in [Threads -> Jobs] /\ job'[t] = j
         /\ \A u \in Threads : u # t => job'[u] = job[u]
BY DEF BrokerInv, TypeOK

\* A goroutine that changes the table: who it is, what it was doing, and that a change nobody
\* overlapped was made when all were idle.
LEMMA ChangeFacts ==
  ASSUME BrokerInv, NEW t \in Emitters, Change(t)
  PROVE  /\ t \in Threads /\ job[t] = Idle /\ t \notin Subs
         /\ ops \in Nat /\ ops' = ops + 1 /\ ops' \in 0 .. MaxOps
         /\ overlapped' \in BOOLEAN
         /\ ~overlapped' => ~overlapped /\ \A u \in Threads : job[u] = Idle
<1>1. t \in Threads /\ job[t] = Idle /\ t \notin Subs
  BY BrokerAssumption DEF Change, Threads
<1>2. ops \in Nat /\ ops' = ops + 1 /\ ops' \in 0 .. MaxOps
  BY BrokerAssumption DEF Change, BrokerInv, TypeOK
<1>3. overlapped' \in BOOLEAN
  BY Zenon DEF Change
<1>4. ~overlapped' => ~overlapped /\ \A u \in Threads : job[u] = Idle
  BY Zenon DEF Change
<1> QED
  BY <1>1, <1>2, <1>3, <1>4

\* A goroutine with a new plan and none under the lock: nobody new is visited, and a code
\* travels in channels as before.
LEMMA PlanStep ==
  ASSUME BrokerInv, NEW t \in Threads, job[t] = Idle,
         NEW p \in Seq(Events \cup {Want}), Plan(t, p),
         t \in Subs => sub'[t].state = "in",
         sub' \in [Subs -> Subscribers],
         \A s \in Subs : /\ sub'[s].ch = sub[s].ch /\ sub'[s].view = sub[s].view
                         /\ sub'[s].state = sub[s].state \/ (sub[s].state = "new" /\ sub'[s].state = "in")
  PROVE  /\ VisitsSubscribed' /\ QRPrivate' /\ job' \in [Threads -> Jobs]
         /\ job'[t].plan = p /\ ~job'[t].holds /\ job'[t].ev = [type |-> "none"] /\ job'[t].todo = {}
         /\ \A u \in Threads : u # t => job'[u] = job[u]
<1> DEFINE j == [Idle EXCEPT !.plan = p]
<1>1. j \in Jobs /\ j.plan = p /\ ~j.holds /\ j.todo = {} /\ j.ev = [type |-> "none"]
  BY PlanJob
<1>2. job' = [job EXCEPT ![t] = j]
  BY DEF Plan
<1> HIDE DEF j
<1>3. job' \in [Threads -> Jobs] /\ job'[t] = j /\ \A u \in Threads : u # t => job'[u] = job[u]
  BY <1>1, <1>2, JobStep
<1>4. VisitsSubscribed'
  <2>1. \A u \in Threads :
          /\ ~job'[u].holds => job'[u].todo = {}
          /\ job'[u].holds => job'[u].ev \in Events
          /\ \A s \in job'[u].todo :
               /\ sub'[s].state = "in"
               /\ job'[u].ev.type = "session-qr" => job'[u].ev.to \in {ClientOf[s], NoClient}
    <3> SUFFICES ASSUME NEW u \in Threads
                 PROVE  /\ ~job'[u].holds => job'[u].todo = {}
                        /\ job'[u].holds => job'[u].ev \in Events
                        /\ \A s \in job'[u].todo :
                             /\ sub'[s].state = "in"
                             /\ job'[u].ev.type = "session-qr"
                                  => job'[u].ev.to \in {ClientOf[s], NoClient}
      OBVIOUS
    <3>1. CASE u = t
      BY <3>1, <1>1, <1>3
    <3>2. CASE u # t
      <4>1. job'[u] = job[u] /\ job[u].todo \subseteq Subs
        BY <3>2, <1>3 DEF BrokerInv, TypeOK, Jobs
      <4> QED
        BY <4>1 DEF BrokerInv, VisitsSubscribed
    <3> QED
      BY <3>1, <3>2
  <2>2. \A s \in Subs : sub'[s].state # "in" => job'[s] = Idle /\ sub'[s].ch = <<>>
    BY <1>3 DEF BrokerInv, VisitsSubscribed, Threads
  <2>3. \A s \in Subs : sub'[s].state = "new" => sub'[s].view = Empty
    BY DEF BrokerInv, VisitsSubscribed
  <2> QED
    BY <2>1, <2>2, <2>3 DEF VisitsSubscribed
<1>5. QRPrivate'
  BY DEF BrokerInv, QRPrivate
<1> QED
  BY <1>1, <1>3, <1>4, <1>5

-----------------------------------------------------------------------------
\* The history

\* The rows of a call in the history are finitely many.
LEMMA RowsFinite ==
  ASSUME NEW h \in Seq(Calls), NEW c
  PROVE  /\ IsFiniteSet({i \in DOMAIN h : h[i] = c})
         /\ Cardinality({i \in DOMAIN h : h[i] = c}) \in Nat
<1>1. DOMAIN h = 1 .. Len(h) /\ Len(h) \in Nat
  OBVIOUS
<1>2. IsFiniteSet(1 .. Len(h))
  BY <1>1, FS_Interval
<1>3. {i \in DOMAIN h : h[i] = c} \subseteq 1 .. Len(h)
  BY <1>1
<1>4. IsFiniteSet({i \in DOMAIN h : h[i] = c})
  BY <1>2, <1>3, FS_Subset
<1> QED
  BY <1>4, FS_CardinalityType

\* A new row counts for its call and for no other.
LEMMA RowAdded ==
  ASSUME NEW h \in Seq(Calls), NEW d \in Calls, NEW c \in Calls
  PROVE  Cardinality({i \in DOMAIN Append(h, d) : Append(h, d)[i] = c})
           = Cardinality({i \in DOMAIN h : h[i] = c}) + (IF c = d THEN 1 ELSE 0)
<1> DEFINE rows == {i \in DOMAIN h : h[i] = c}
           more == {i \in DOMAIN Append(h, d) : Append(h, d)[i] = c}
<1>1. IsFiniteSet(rows) /\ Cardinality(rows) \in Nat
  BY RowsFinite
<1>2. DOMAIN Append(h, d) = 1 .. Len(h) + 1 /\ DOMAIN h = 1 .. Len(h) /\ Len(h) \in Nat
  OBVIOUS
<1>3. CASE c = d
  <2>1. more = rows \cup {Len(h) + 1} /\ Len(h) + 1 \notin rows
    BY <1>2, <1>3
  <2> HIDE DEF rows, more
  <2>2. Cardinality(more) = Cardinality(rows) + 1
    BY <1>1, <2>1, FS_AddElement
  <2> QED
    BY <1>3, <2>2 DEF rows, more
<1>4. CASE c # d
  <2>1. more = rows
    BY <1>2, <1>4
  <2> HIDE DEF rows, more
  <2>2. Cardinality(more) = Cardinality(rows) + 0
    BY <1>1, <2>1
  <2> QED
    BY <1>4, <2>2 DEF rows, more
<1> QED
  BY <1>3, <1>4

-----------------------------------------------------------------------------
\* Changes of the table

\* After a change nobody overlapped, its own list is on its way to every browser.
LEMMA ChangeConverges ==
  ASSUME BrokerInv, NEW t \in Threads, sub' = sub,
         ~overlapped' => ~overlapped /\ \A u \in Threads : job[u] = Idle,
         \A u \in Threads : u # t => job'[u] = job[u],
         \E i \in DOMAIN job'[t].plan : job'[t].plan[i].type = "list-wanted",
         SaysTheTable(t)'
  PROVE  StreamsConverge'
<1> SUFFICES ASSUME ~overlapped' PROVE StreamsConverge'
  BY DEF StreamsConverge
<1>1. ASSUME NEW u \in Threads PROVE SaysTheTable(u)'
  <2>1. CASE u = t
    BY <2>1
  <2>2. CASE u # t
    BY <2>2, IdleJob DEF SaysTheTable
  <2> QED
    BY <2>1, <2>2
<1>2. ASSUME NEW s \in Subs, sub'[s].state = "in", ~sub'[s].missed
      PROVE  Converges(s)'
  <2>1. Converges(s)
    BY <1>2 DEF BrokerInv, StreamsConverge
  <2>2. ListComing(s)'
    BY DEF ListComing
  <2> QED
    BY <2>1, <2>2 DEF Converges
<1> QED
  BY <1>1, <1>2 DEF StreamsConverge

LEMMA UpsertInv ==
  ASSUME BrokerInv, NEW t \in Emitters, upsertCall(t)
  PROVE  BrokerInv'
<1>1. PICK c \in Calls, st \in Statuses :
        /\ calls' = [calls EXCEPT ![c] = st]
        /\ made' = [made EXCEPT ![c] = IF calls[c] = NoCall THEN @ + 1 ELSE @]
        /\ Plan(t, <<Want, StatusEv(c, st)>>)
  BY DEF upsertCall
<1>2. Change(t) /\ history' = history /\ sub' = sub
  BY DEF upsertCall
<1>3. /\ t \in Threads /\ job[t] = Idle /\ t \notin Subs
      /\ ops \in Nat /\ ops' = ops + 1 /\ ops' \in 0 .. MaxOps
      /\ overlapped' \in BOOLEAN
      /\ ~overlapped' => ~overlapped /\ \A u \in Threads : job[u] = Idle
  BY <1>2, ChangeFacts
<1>4. PICK p : p = <<Want, StatusEv(c, st)>>
  OBVIOUS
<1>5. StatusEv(c, st) \in Events
  BY EventTypes
<1>6. p \in Seq(Events \cup {Want}) /\ Plan(t, p) /\ DOMAIN p = {1, 2}
  BY <1>1, <1>4, <1>5
<1>7. /\ VisitsSubscribed' /\ QRPrivate' /\ job' \in [Threads -> Jobs]
      /\ job'[t].plan = p /\ ~job'[t].holds
      /\ \A u \in Threads : u # t => job'[u] = job[u]
  BY <1>2, <1>3, <1>6, PlanStep DEF BrokerInv, TypeOK
<1>8. /\ calls \in Tables /\ made \in [Calls -> 0 .. MaxOps] /\ MaxOps \in Nat
      /\ \A d \in Calls : made[d] <= ops /\ made[d] \in Nat
  BY BrokerAssumption DEF BrokerInv, TypeOK, MadeBounded
<1>9. calls' \in Tables /\ calls'[c] = st /\ \A d \in Calls : d # c => calls'[d] = calls[d]
  BY <1>1, <1>8 DEF Tables
<1>10. /\ made' \in [Calls -> 0 .. MaxOps] /\ \A d \in Calls : made'[d] <= ops'
       /\ made'[c] = made[c] + (IF calls[c] = NoCall THEN 1 ELSE 0)
       /\ \A d \in Calls : d # c => made'[d] = made[d]
  BY <1>1, <1>3, <1>8
<1>11. TypeOK'
  BY <1>2, <1>3, <1>7, <1>9, <1>10 DEF BrokerInv, TypeOK
<1>12. MadeBounded'
  BY <1>10 DEF MadeBounded
<1>13. HistoryOnce'
  <2>1. \A d \in Calls : Cardinality({i \in DOMAIN history : history[i] = d})
                           = made[d] - (IF calls[d] = NoCall THEN 0 ELSE 1)
    BY DEF BrokerInv, HistoryOnce
  <2>2. \A d \in Calls : made'[d] - (IF calls'[d] = NoCall THEN 0 ELSE 1)
                           = made[d] - (IF calls[d] = NoCall THEN 0 ELSE 1)
    BY <1>8, <1>9, <1>10, BrokerAssumption
  <2> QED
    BY <1>2, <2>1, <2>2 DEF HistoryOnce
<1>14. StreamsConverge'
  <2>1. Agrees(StatusEv(c, st))'
    BY <1>9 DEF Agrees, StatusEv
  <2>2. p[1] = Want /\ p[2] = StatusEv(c, st) /\ Want.type = "list-wanted"
    BY <1>4 DEF Want
  <2>3. Agrees(Want)'
    BY DEF Agrees, Want
  <2>4. SaysTheTable(t)'
    BY <1>6, <1>7, <2>1, <2>2, <2>3 DEF Agrees, SaysTheTable
  <2>5. \E i \in DOMAIN job'[t].plan : job'[t].plan[i].type = "list-wanted"
    BY <1>6, <1>7, <2>2
  <2> QED
    BY <1>2, <1>3, <1>7, <2>4, <2>5, ChangeConverges
<1> QED
  BY <1>7, <1>11, <1>12, <1>13, <1>14 DEF BrokerInv

LEMMA EndInv ==
  ASSUME BrokerInv, NEW t \in Emitters, endCall(t)
  PROVE  BrokerInv'
<1>1. PICK c \in Calls :
        /\ calls[c] # NoCall /\ calls' = [calls EXCEPT ![c] = NoCall]
        /\ history' = Append(history, c)
        /\ Plan(t, <<EndedEv(c), Want>>)
  BY DEF endCall
<1>2. Change(t) /\ made' = made /\ sub' = sub
  BY DEF endCall
<1>3. /\ t \in Threads /\ job[t] = Idle /\ t \notin Subs
      /\ ops \in Nat /\ ops' = ops + 1 /\ ops' \in 0 .. MaxOps
      /\ overlapped' \in BOOLEAN
      /\ ~overlapped' => ~overlapped /\ \A u \in Threads : job[u] = Idle
  BY <1>2, ChangeFacts
<1>4. PICK p : p = <<EndedEv(c), Want>>
  OBVIOUS
<1>5. EndedEv(c) \in Events
  BY DEF EndedEv, Events
<1>6. p \in Seq(Events \cup {Want}) /\ Plan(t, p) /\ DOMAIN p = {1, 2}
  BY <1>1, <1>4, <1>5
<1>7. /\ VisitsSubscribed' /\ QRPrivate' /\ job' \in [Threads -> Jobs]
      /\ job'[t].plan = p /\ ~job'[t].holds
      /\ \A u \in Threads : u # t => job'[u] = job[u]
  BY <1>2, <1>3, <1>6, PlanStep DEF BrokerInv, TypeOK
<1>8. /\ calls \in Tables /\ made \in [Calls -> 0 .. MaxOps] /\ MaxOps \in Nat
      /\ \A d \in Calls : made[d] <= ops /\ made[d] \in Nat
  BY BrokerAssumption DEF BrokerInv, TypeOK, MadeBounded
<1>9. calls' \in Tables /\ calls'[c] = NoCall /\ \A d \in Calls : d # c => calls'[d] = calls[d]
  BY <1>1, <1>8 DEF Tables
<1>10. history \in Seq(Calls) /\ history' \in Seq(Calls)
  BY <1>1 DEF BrokerInv, TypeOK
<1>11. TypeOK'
  BY <1>2, <1>3, <1>7, <1>9, <1>10 DEF BrokerInv, TypeOK
<1>12. MadeBounded'
  BY <1>2, <1>3, <1>8 DEF MadeBounded
<1>13. HistoryOnce'
  <2> SUFFICES ASSUME NEW d \in Calls
               PROVE  Cardinality({i \in DOMAIN history' : history'[i] = d})
                        = made'[d] - (IF calls'[d] = NoCall THEN 0 ELSE 1)
    BY DEF HistoryOnce
  <2>1. Cardinality({i \in DOMAIN history : history[i] = d})
          = made[d] - (IF calls[d] = NoCall THEN 0 ELSE 1)
    BY DEF BrokerInv, HistoryOnce
  <2>2. Cardinality({i \in DOMAIN history' : history'[i] = d})
          = Cardinality({i \in DOMAIN history : history[i] = d}) + (IF d = c THEN 1 ELSE 0)
    BY <1>1, <1>10, RowAdded
  <2>3. Cardinality({i \in DOMAIN history : history[i] = d}) \in Nat
    BY <1>10, RowsFinite
  <2> DEFINE n == Cardinality({i \in DOMAIN history : history[i] = d})
             m == Cardinality({i \in DOMAIN history' : history'[i] = d})
  <2> HIDE DEF n, m
  <2>4. /\ n = made[d] - (IF calls[d] = NoCall THEN 0 ELSE 1)
        /\ m = n + (IF d = c THEN 1 ELSE 0) /\ n \in Nat /\ calls[c] # NoCall
    BY <1>1, <2>1, <2>2, <2>3 DEF n, m
  <2>5. m = made'[d] - (IF calls'[d] = NoCall THEN 0 ELSE 1)
    BY <1>2, <1>8, <1>9, <2>4
  <2> QED
    BY <2>5 DEF m
<1>14. StreamsConverge'
  <2>1. Agrees(EndedEv(c))'
    BY <1>9 DEF Agrees, EndedEv
  <2>2. p[1] = EndedEv(c) /\ p[2] = Want /\ Want.type = "list-wanted"
    BY <1>4 DEF Want
  <2>3. Agrees(Want)'
    BY DEF Agrees, Want
  <2>4. SaysTheTable(t)'
    BY <1>6, <1>7, <2>1, <2>2, <2>3 DEF Agrees, SaysTheTable
  <2>5. \E i \in DOMAIN job'[t].plan : job'[t].plan[i].type = "list-wanted"
    BY <1>6, <1>7, <2>2
  <2> QED
    BY <1>2, <1>3, <1>7, <2>4, <2>5, ChangeConverges
<1> QED
  BY <1>7, <1>11, <1>12, <1>13, <1>14 DEF BrokerInv

-----------------------------------------------------------------------------
\* Steps that leave the table alone

\* Table, history and bounds stay as they are.
LEMMA TableKept ==
  ASSUME BrokerInv, UNCHANGED <<calls, history, made>>, ops' \in 0 .. MaxOps, ops <= ops',
         overlapped' = overlapped, job' \in [Threads -> Jobs],
         sub' \in [Subs -> Subscribers], \A s \in Subs : Len(sub'[s].ch) <= Capacity
  PROVE  TypeOK' /\ MadeBounded' /\ HistoryOnce'
<1>1. TypeOK'
  BY DEF BrokerInv, TypeOK
<1>2. MadeBounded'
  <2>1. \A c \in Calls : made[c] \in Nat /\ made[c] <= ops
    BY BrokerAssumption DEF BrokerInv, TypeOK, MadeBounded
  <2>2. ops \in Nat /\ ops' \in Nat
    BY BrokerAssumption DEF BrokerInv, TypeOK
  <2> QED
    BY <2>1, <2>2 DEF MadeBounded
<1>3. HistoryOnce'
  BY DEF BrokerInv, HistoryOnce
<1> QED
  BY <1>1, <1>2, <1>3

\* A browser whose channel and view stay as they are, with the list still coming if it was.
LEMMA ConvergesKept ==
  ASSUME calls' = calls, NEW s \in Subs, Converges(s),
         sub'[s].ch = sub[s].ch, sub'[s].view = sub[s].view,
         ListComing(s) => ListComing(s)'
  PROVE  Converges(s)'
BY DEF Converges

\* Goroutines other than t are as they were, and so is what they say.
LEMMA OthersSay ==
  ASSUME NEW t \in Threads, calls' = calls,
         \A u \in Threads : u # t => job'[u] = job[u],
         \A u \in Threads : SaysTheTable(u), SaysTheTable(t)'
  PROVE  \A u \in Threads : SaysTheTable(u)'
<1>1. ASSUME NEW u \in Threads PROVE SaysTheTable(u)'
  <2>1. CASE u = t
    BY <2>1
  <2>2. CASE u # t
    BY <2>2 DEF SaysTheTable, Agrees
  <2> QED
    BY <2>1, <2>2
<1> QED
  BY <1>1

\* A goroutine starts a plan that agrees with the table: what was coming still comes.
LEMMA NewPlanComing ==
  ASSUME BrokerInv, NEW t \in Threads, job[t] = Idle,
         \A u \in Threads : u # t => job'[u] = job[u], NEW s \in Subs, ListComing(s)
  PROVE  ListComing(s)'
<1>1. PICK u \in Threads :
        \/ \E i \in DOMAIN job[u].plan : job[u].plan[i].type \in {"list-wanted", "call-list"}
        \/ job[u].ev.type = "call-list" /\ s \in job[u].todo
  BY DEF ListComing
<1>2. u # t
  BY <1>1, IdleJob
<1> QED
  BY <1>1, <1>2 DEF ListComing

LEMMA QRInv ==
  ASSUME BrokerInv, NEW t \in Emitters, emitSessionQR(t)
  PROVE  BrokerInv'
<1>1. PICK cl \in Clients \cup {NoClient} : Plan(t, <<QREv(cl)>>)
  BY DEF emitSessionQR
<1>2. /\ t \in Threads /\ t \notin Subs /\ job[t] = Idle /\ sub' = sub
      /\ UNCHANGED <<calls, history, made, overlapped>>
  BY BrokerAssumption DEF emitSessionQR, Threads
<1>3. ops' \in 0 .. MaxOps /\ ops <= ops'
  BY BrokerAssumption DEF emitSessionQR, BrokerInv, TypeOK
<1>4. PICK p : p = <<QREv(cl)>>
  OBVIOUS
<1>5. QREv(cl) \in Events /\ QREv(cl).type = "session-qr"
  BY DEF QREv, Events
<1>6. p \in Seq(Events \cup {Want}) /\ Plan(t, p) /\ DOMAIN p = {1} /\ p[1] = QREv(cl)
  BY <1>1, <1>4, <1>5
<1>7. /\ VisitsSubscribed' /\ QRPrivate' /\ job' \in [Threads -> Jobs]
      /\ job'[t].plan = p /\ ~job'[t].holds
      /\ \A u \in Threads : u # t => job'[u] = job[u]
  BY <1>2, <1>6, PlanStep DEF BrokerInv, TypeOK
<1>8. TypeOK' /\ MadeBounded' /\ HistoryOnce'
  BY <1>2, <1>3, <1>7, TableKept DEF BrokerInv, TypeOK
<1>9. StreamsConverge'
  <2> SUFFICES ASSUME ~overlapped' PROVE StreamsConverge'
    BY DEF StreamsConverge
  <2>1. SaysTheTable(t)'
    BY <1>5, <1>6, <1>7 DEF SaysTheTable, Agrees
  <2>2. \A u \in Threads : SaysTheTable(u)'
    BY <1>2, <1>7, <2>1, OthersSay DEF BrokerInv, StreamsConverge
  <2>3. ASSUME NEW s \in Subs, sub'[s].state = "in", ~sub'[s].missed PROVE Converges(s)'
    <3>1. Converges(s)
      BY <1>2, <2>3 DEF BrokerInv, StreamsConverge
    <3> QED
      BY <1>2, <1>7, <3>1, NewPlanComing, ConvergesKept
  <2> QED
    BY <2>2, <2>3 DEF StreamsConverge
<1> QED
  BY <1>7, <1>8, <1>9 DEF BrokerInv

LEMMA ServeInv ==
  ASSUME BrokerInv, NEW r \in Subs, serveSSE(r)
  PROVE  BrokerInv'
<1>1. /\ r \in Threads /\ job[r] = Idle /\ sub[r].state = "new" /\ sub[r].ch = <<>>
      /\ UNCHANGED <<calls, history, ops, made, overlapped>> /\ Plan(r, <<Want>>)
      /\ sub[r].view = Empty
  BY DEF serveSSE, Threads, BrokerInv, VisitsSubscribed
<1>2. /\ sub' \in [Subs -> Subscribers] /\ sub'[r].state = "in"
      /\ \A s \in Subs : /\ sub'[s].ch = sub[s].ch /\ sub'[s].view = sub[s].view
                          /\ Len(sub'[s].ch) <= Capacity
  BY DEF serveSSE, BrokerInv, TypeOK, Subscribers
<1>3. \A s \in Subs : s # r => sub'[s] = sub[s]
  BY DEF serveSSE, BrokerInv, TypeOK
<1>4. \A s \in Subs : sub'[s].state = sub[s].state \/ (sub[s].state = "new" /\ sub'[s].state = "in")
  BY <1>1, <1>2, <1>3
<1>5. PICK p : p = <<Want>>
  OBVIOUS
<1>6. p \in Seq(Events \cup {Want}) /\ Plan(r, p) /\ DOMAIN p = {1} /\ p[1] = Want
  BY <1>1, <1>5
<1>7. /\ VisitsSubscribed' /\ QRPrivate' /\ job' \in [Threads -> Jobs]
      /\ job'[r].plan = p /\ ~job'[r].holds
      /\ \A u \in Threads : u # r => job'[u] = job[u]
  BY <1>1, <1>2, <1>4, <1>6, PlanStep
<1>8. TypeOK' /\ MadeBounded' /\ HistoryOnce'
  <2>1. ops' \in 0 .. MaxOps /\ ops <= ops'
    BY <1>1, BrokerAssumption DEF BrokerInv, TypeOK
  <2> QED
    BY <1>1, <1>2, <1>7, <2>1, TableKept
<1>9. StreamsConverge'
  <2> SUFFICES ASSUME ~overlapped' PROVE StreamsConverge'
    BY DEF StreamsConverge
  <2>1. SaysTheTable(r)'
    BY <1>6, <1>7 DEF SaysTheTable, Agrees, Want
  <2>2. \A u \in Threads : SaysTheTable(u)'
    BY <1>1, <1>7, <2>1, OthersSay DEF BrokerInv, StreamsConverge
  <2>3. ASSUME NEW s \in Subs, sub'[s].state = "in", ~sub'[s].missed PROVE Converges(s)'
    <3>1. CASE s = r
      <4>1. ListComing(s)'
        BY <1>1, <1>6, <1>7 DEF ListComing, Want
      <4>2. sub'[s].ch = <<>> /\ sub'[s].view = Empty /\ Len(sub'[s].ch) = 0
        BY <1>1, <1>2, <3>1
      <4>3. PICK vs \in [0 .. Len(sub'[s].ch) -> Tables] : vs[0] = Empty
        <5>1. [i \in 0 .. 0 |-> Empty] \in [0 .. Len(sub'[s].ch) -> Tables]
          BY <4>2 DEF Empty, Tables
        <5>2. [i \in 0 .. 0 |-> Empty][0] = Empty
          OBVIOUS
        <5> QED
          BY <5>1, <5>2
      <4>4. \A i \in 1 .. Len(sub'[s].ch) : FALSE
        BY <4>2
      <4> QED
        BY <4>1, <4>2, <4>3, <4>4 DEF Converges
    <3>2. CASE s # r
      <4>1. Converges(s)
        BY <1>1, <1>3, <2>3, <3>2 DEF BrokerInv, StreamsConverge
      <4> QED
        BY <1>1, <1>2, <1>7, <4>1, NewPlanComing, ConvergesKept
    <3> QED
      BY <3>1, <3>2
  <2> QED
    BY <2>2, <2>3 DEF StreamsConverge
<1> QED
  BY <1>7, <1>8, <1>9 DEF BrokerInv

-----------------------------------------------------------------------------
\* Broadcasting

\* One goroutine goes on with its broadcast, nobody else does anything and the channels stay.
LEMMA SenderStep ==
  ASSUME BrokerInv, NEW t \in Threads, NEW j \in Jobs, job' = [job EXCEPT ![t] = j],
         UNCHANGED <<calls, history, sub, ops, made, overlapped>>,
         job[t] # Idle,
         j.holds => j.ev \in Events, ~j.holds => j.todo = {},
         \A s \in j.todo : /\ sub[s].state = "in"
                           /\ j.ev.type = "session-qr" => j.ev.to \in {ClientOf[s], NoClient},
         ~overlapped => /\ \A i \in DOMAIN j.plan : Agrees(j.plan[i])
                        /\ j.holds => Agrees(j.ev),
         \A s \in Subs : (sub[s].state = "in" /\ ListComing(s)) => ListComing(s)'
  PROVE  BrokerInv'
<1>1. job' \in [Threads -> Jobs] /\ job'[t] = j /\ \A u \in Threads : u # t => job'[u] = job[u]
  BY JobStep
<1>2. TypeOK' /\ MadeBounded' /\ HistoryOnce'
  <2>1. ops' \in 0 .. MaxOps /\ ops <= ops'
    BY BrokerAssumption DEF BrokerInv, TypeOK
  <2> QED
    BY <1>1, <2>1, TableKept DEF BrokerInv, TypeOK
<1>3. QRPrivate'
  BY DEF BrokerInv, QRPrivate
<1>4. VisitsSubscribed'
  <2>1. ASSUME NEW u \in Threads
        PROVE  /\ ~job'[u].holds => job'[u].todo = {}
               /\ job'[u].holds => job'[u].ev \in Events
               /\ \A s \in job'[u].todo :
                    /\ sub'[s].state = "in"
                    /\ job'[u].ev.type = "session-qr" => job'[u].ev.to \in {ClientOf[s], NoClient}
    <3>1. CASE u = t
      BY <3>1, <1>1
    <3>2. CASE u # t
      BY <3>2, <1>1 DEF BrokerInv, VisitsSubscribed
    <3> QED
      BY <3>1, <3>2
  <2>2. \A s \in Subs : sub'[s].state # "in" => job'[s] = Idle /\ sub'[s].ch = <<>>
    BY <1>1 DEF BrokerInv, VisitsSubscribed, Threads
  <2>3. \A s \in Subs : sub'[s].state = "new" => sub'[s].view = Empty
    BY DEF BrokerInv, VisitsSubscribed
  <2> QED
    BY <2>1, <2>2, <2>3 DEF VisitsSubscribed
<1>5. StreamsConverge'
  <2> SUFFICES ASSUME ~overlapped' PROVE StreamsConverge'
    BY DEF StreamsConverge
  <2>1. SaysTheTable(t)'
    BY <1>1 DEF SaysTheTable, Agrees
  <2>2. \A u \in Threads : SaysTheTable(u)'
    BY <1>1, <2>1, OthersSay DEF BrokerInv, StreamsConverge
  <2>3. ASSUME NEW s \in Subs, sub'[s].state = "in", ~sub'[s].missed PROVE Converges(s)'
    <3>1. Converges(s) /\ sub[s].state = "in"
      BY <2>3 DEF BrokerInv, StreamsConverge
    <3> QED
      BY <3>1, ConvergesKept
  <2> QED
    BY <2>2, <2>3 DEF StreamsConverge
<1> QED
  BY <1>2, <1>3, <1>4, <1>5 DEF BrokerInv

\* A goroutine with something to send: its job, and that it is not idle.
LEMMA SenderFacts ==
  ASSUME BrokerInv, NEW t \in Threads
  PROVE  /\ job[t] \in Jobs /\ job[t].plan \in Seq(Events \cup {Want}) /\ job[t].todo \subseteq Subs
         /\ job[t].ev \in Events \cup {[type |-> "none"]}
         /\ job[t].plan # <<>> \/ job[t].holds => job[t] # Idle
BY DEF BrokerInv, TypeOK, Jobs, Idle

LEMMA ReadListInv ==
  ASSUME BrokerInv, NEW t \in Threads, readList(t)
  PROVE  BrokerInv'
<1>1. /\ job[t].plan # <<>> /\ ~job[t].holds /\ Head(job[t].plan) = Want
      /\ UNCHANGED <<calls, history, sub, ops, made, overlapped>>
  BY DEF readList
<1>2. /\ job[t] \in Jobs /\ job[t].plan \in Seq(Events \cup {Want})
      /\ job[t].ev \in Events \cup {[type |-> "none"]} /\ job[t] # Idle
  BY <1>1, SenderFacts
<1>3. job[t].todo = {}
  BY <1>1 DEF BrokerInv, VisitsSubscribed
<1>4. PICK q : q = <<ListEv(calls)>> \o Tail(job[t].plan)
  OBVIOUS
<1>5. ListEv(calls) \in Events /\ ListEv(calls).type = "call-list" /\ Agrees(ListEv(calls))
  BY DEF ListEv, Events, BrokerInv, TypeOK, Agrees
<1>6. /\ q \in Seq(Events \cup {Want}) /\ Len(q) = Len(job[t].plan) /\ q[1] = ListEv(calls)
      /\ \A i \in DOMAIN q : i # 1 => q[i] = job[t].plan[i]
      /\ DOMAIN q = DOMAIN job[t].plan /\ 1 \in DOMAIN q
  <2>1. PICK p \in Seq(Events \cup {Want}) : p = job[t].plan /\ p # <<>>
    BY <1>1, <1>2
  <2>2. PICK e \in Events \cup {Want} : e = ListEv(calls)
    BY <1>5
  <2>3. q = <<e>> \o Tail(p)
    BY <1>4, <2>1, <2>2
  <2>4. /\ q \in Seq(Events \cup {Want}) /\ Len(q) = Len(p) /\ q[1] = e
        /\ \A i \in DOMAIN q : i # 1 => q[i] = p[i]
        /\ DOMAIN q = DOMAIN p /\ 1 \in DOMAIN q
    BY <2>1, <2>3
  <2> QED
    BY <2>1, <2>2, <2>4
<1>7. PICK j : j = [job[t] EXCEPT !.plan = q]
  OBVIOUS
<1>8. /\ j \in Jobs /\ j.plan = q /\ ~j.holds /\ j.todo = {}
  BY <1>1, <1>2, <1>3, <1>6, <1>7 DEF Jobs
<1>9. job' = [job EXCEPT ![t] = j]
  BY <1>4, <1>7 DEF readList, BrokerInv, TypeOK
<1>10. ASSUME ~overlapped PROVE \A i \in DOMAIN j.plan : Agrees(j.plan[i])
  <2>1. SaysTheTable(t)
    BY <1>10 DEF BrokerInv, StreamsConverge
  <2> QED
    BY <1>5, <1>6, <1>8, <2>1 DEF SaysTheTable
<1>11. ASSUME NEW s \in Subs, ListComing(s) PROVE ListComing(s)'
  <2>1. job'[t] = j /\ \A u \in Threads : u # t => job'[u] = job[u]
    BY <1>8, <1>9, JobStep
  <2>2. PICK u \in Threads :
        \/ \E i \in DOMAIN job[u].plan : job[u].plan[i].type \in {"list-wanted", "call-list"}
        \/ job[u].ev.type = "call-list" /\ s \in job[u].todo
    BY <1>11 DEF ListComing
  <2>3. CASE u = t
    BY <1>5, <1>6, <1>8, <2>1, <2>3 DEF ListComing
  <2>4. CASE u # t
    BY <2>1, <2>2, <2>4 DEF ListComing
  <2> QED
    BY <2>3, <2>4
<1> QED
  BY <1>1, <1>2, <1>8, <1>9, <1>10, <1>11, SenderStep

\* A broadcast visits subscribers only, a code only its client's, a list all of them.
LEMMA RecipientsFacts ==
  ASSUME BrokerInv, NEW ev \in Events
  PROVE  /\ recipients(ev) \subseteq Subs
         /\ \A s \in recipients(ev) :
              /\ sub[s].state = "in"
              /\ ev.type = "session-qr" => ev.to \in {ClientOf[s], NoClient}
         /\ ev.type = "call-list" => \A s \in Subs : sub[s].state = "in" => s \in recipients(ev)
BY DEF recipients, Subscribed

LEMMA BroadcastInv ==
  ASSUME BrokerInv, NEW t \in Threads, broadcast(t)
  PROVE  BrokerInv'
<1>1. /\ job[t].plan # <<>> /\ ~job[t].holds /\ Head(job[t].plan) # Want
      /\ UNCHANGED <<calls, history, sub, ops, made, overlapped>>
  BY DEF broadcast
<1>2. /\ job[t] \in Jobs /\ job[t].plan \in Seq(Events \cup {Want}) /\ job[t] # Idle
  BY <1>1, SenderFacts
<1>3. job[t].todo = {}
  BY <1>1 DEF BrokerInv, VisitsSubscribed
<1>4. PICK ev \in Events, q \in Seq(Events \cup {Want}) :
        /\ ev = Head(job[t].plan) /\ q = Tail(job[t].plan) /\ ev = job[t].plan[1]
        /\ \A i \in DOMAIN q : q[i] = job[t].plan[i + 1] /\ i + 1 \in DOMAIN job[t].plan
        /\ \A i \in DOMAIN job[t].plan : i = 1 \/ (i - 1 \in DOMAIN q /\ q[i - 1] = job[t].plan[i])
        /\ 1 \in DOMAIN job[t].plan
  <2>1. PICK p \in Seq(Events \cup {Want}) : p = job[t].plan /\ p # <<>> /\ Head(p) # Want
    BY <1>1, <1>2
  <2>2. /\ Head(p) \in Events /\ Tail(p) \in Seq(Events \cup {Want}) /\ Head(p) = p[1]
        /\ \A i \in DOMAIN Tail(p) : Tail(p)[i] = p[i + 1] /\ i + 1 \in DOMAIN p
        /\ \A i \in DOMAIN p : i = 1 \/ (i - 1 \in DOMAIN Tail(p) /\ Tail(p)[i - 1] = p[i])
        /\ 1 \in DOMAIN p
    BY <2>1
  <2> QED
    BY <2>1, <2>2
<1>5. /\ recipients(ev) \subseteq Subs
      /\ \A s \in recipients(ev) :
              /\ sub[s].state = "in"
              /\ ev.type = "session-qr" => ev.to \in {ClientOf[s], NoClient}
      /\ ev.type = "call-list" => \A s \in Subs : sub[s].state = "in" => s \in recipients(ev)
  BY RecipientsFacts
<1>6. PICK j : j = [plan |-> q, ev |-> ev, todo |-> recipients(ev), holds |-> TRUE]
  OBVIOUS
<1>7. j \in Jobs /\ j.plan = q /\ j.ev = ev /\ j.todo = recipients(ev) /\ j.holds
  BY <1>5, <1>6 DEF Jobs
<1>8. job' = [job EXCEPT ![t] = j]
  BY <1>4, <1>6 DEF broadcast
<1>9. ASSUME ~overlapped PROVE (\A i \in DOMAIN j.plan : Agrees(j.plan[i])) /\ Agrees(j.ev)
  <2>1. SaysTheTable(t)
    BY <1>9 DEF BrokerInv, StreamsConverge
  <2> QED
    BY <1>4, <1>7, <2>1 DEF SaysTheTable
<1>10. ASSUME NEW s \in Subs, sub[s].state = "in", ListComing(s) PROVE ListComing(s)'
  <2>1. job'[t] = j /\ \A u \in Threads : u # t => job'[u] = job[u]
    BY <1>7, <1>8, JobStep
  <2>2. PICK u \in Threads :
        \/ \E i \in DOMAIN job[u].plan : job[u].plan[i].type \in {"list-wanted", "call-list"}
        \/ job[u].ev.type = "call-list" /\ s \in job[u].todo
    BY <1>10 DEF ListComing
  <2>3. CASE u = t
    <3>1. PICK i \in DOMAIN job[t].plan : job[t].plan[i].type \in {"list-wanted", "call-list"}
      BY <1>3, <2>2, <2>3
    <3>2. CASE i = 1
      <4>1. ev.type # "list-wanted"
        BY DEF Events
      <4>2. ev.type = "call-list"
        BY <1>4, <3>1, <3>2, <4>1
      <4> QED
        BY <1>5, <1>7, <1>10, <2>1, <4>2 DEF ListComing
    <3>3. CASE i # 1
      <4>1. PICK k : k \in DOMAIN q /\ q[k] = job[t].plan[i]
        BY <1>4, <3>3
      <4>2. k \in DOMAIN job'[t].plan /\ job'[t].plan[k].type \in {"list-wanted", "call-list"}
        BY <1>7, <2>1, <3>1, <4>1
      <4> QED
        BY <4>2 DEF ListComing
    <3> QED
      BY <3>2, <3>3
  <2>4. CASE u # t
    BY <2>1, <2>2, <2>4 DEF ListComing
  <2> QED
    BY <2>3, <2>4
<1> QED
  BY <1>1, <1>2, <1>5, <1>7, <1>8, <1>9, <1>10, SenderStep

\* A browser that is sent an event goes through the same views, and then through the event's.
LEMMA AppendConverges ==
  ASSUME BrokerInv, NEW s \in Subs, NEW ev \in Events, Converges(s), Agrees(ev), calls' = calls,
         sub'[s].ch = Append(sub[s].ch, ev), sub'[s].view = sub[s].view,
         ListComing(s) => ev.type = "call-list" \/ ListComing(s)'
  PROVE  Converges(s)'
<1>1. PICK n \in Nat : n = Len(sub[s].ch)
  BY DEF BrokerInv, TypeOK, Subscribers
<1>2. PICK ch \in Seq(Events) : ch = sub[s].ch
  BY DEF BrokerInv, TypeOK, Subscribers
<1>3. /\ Len(sub'[s].ch) = n + 1 /\ sub'[s].ch[n + 1] = ev
      /\ \A i \in 1 .. n : sub'[s].ch[i] = sub[s].ch[i]
  BY <1>1, <1>2
<1>4. PICK views \in [0 .. n -> Tables] :
        /\ views[0] = sub[s].view
        /\ \A i \in 1 .. n : views[i] = apply(views[i - 1], sub[s].ch[i])
        /\ views[n] = calls \/ ListComing(s)
  BY <1>1 DEF Converges
<1>5. calls \in Tables
  BY DEF BrokerInv, TypeOK
<1>6. apply(views[n], ev) \in Tables
  BY ApplyType
<1>7. PICK more : more = [i \in 0 .. n + 1 |-> IF i = n + 1 THEN apply(views[n], ev) ELSE views[i]]
  OBVIOUS
<1>8. /\ more \in [0 .. n + 1 -> Tables] /\ more[n + 1] = apply(views[n], ev)
      /\ \A i \in 0 .. n : more[i] = views[i]
  BY <1>6, <1>7
<1>9. \A i \in 1 .. n + 1 : more[i] = apply(more[i - 1], sub'[s].ch[i])
  <2> SUFFICES ASSUME NEW i \in 1 .. n + 1 PROVE more[i] = apply(more[i - 1], sub'[s].ch[i])
    OBVIOUS
  <2>1. CASE i = n + 1
    BY <1>3, <1>8, <2>1
  <2>2. CASE i # n + 1
    <3>1. i \in 1 .. n /\ i - 1 \in 0 .. n /\ i \in 0 .. n
      BY <2>2
    <3> QED
      BY <1>3, <1>4, <1>8, <3>1
  <2> QED
    BY <2>1, <2>2
<1>10. more[n + 1] = calls' \/ ListComing(s)'
  <2>1. CASE views[n] = calls
    BY <1>5, <1>8, <2>1, AgreesApply
  <2>2. CASE ListComing(s)
    BY <1>5, <1>8, <2>2, AgreesApply
  <2> QED
    BY <1>4, <2>1, <2>2
<1>11. more[0] = sub'[s].view
  BY <1>4, <1>8
<1> QED
  BY <1>3, <1>8, <1>9, <1>10, <1>11 DEF Converges

LEMMA SendInv ==
  ASSUME BrokerInv, NEW t \in Threads, send(t)
  PROVE  BrokerInv'
<1>1. /\ job[t].holds /\ UNCHANGED <<calls, history, ops, made, overlapped>>
      /\ sub' = [s \in Subs |-> IF s \in job[t].todo THEN offer(sub[s], job[t].ev) ELSE sub[s]]
      /\ job' = [job EXCEPT ![t] = [Idle EXCEPT !.plan = job[t].plan]]
  BY DEF send
<1>2. /\ job[t].plan \in Seq(Events \cup {Want}) /\ job[t].todo \subseteq Subs /\ job[t] # Idle
  BY <1>1, SenderFacts
<1>3. job[t].ev \in Events /\ \A s \in job[t].todo :
         /\ sub[s].state = "in"
         /\ job[t].ev.type = "session-qr" => job[t].ev.to \in {ClientOf[s], NoClient}
  BY <1>1 DEF BrokerInv, VisitsSubscribed
<1>4. PICK ev \in Events : ev = job[t].ev
  BY <1>3
<1>5. PICK j : j = [Idle EXCEPT !.plan = job[t].plan]
  OBVIOUS
<1>6. j \in Jobs /\ j.plan = job[t].plan /\ ~j.holds /\ j.todo = {} /\ j.ev = [type |-> "none"]
  BY <1>2, <1>5, PlanJob
<1>7. job' \in [Threads -> Jobs] /\ job'[t] = j /\ \A u \in Threads : u # t => job'[u] = job[u]
  BY <1>1, <1>5, <1>6, JobStep
<1>8. ASSUME NEW s \in Subs
      PROVE  /\ sub[s] \in Subscribers /\ Len(sub[s].ch) <= Capacity
             /\ s \in job[t].todo => sub'[s] = offer(sub[s], ev)
             /\ s \notin job[t].todo => sub'[s] = sub[s]
  BY <1>1, <1>4 DEF BrokerInv, TypeOK
<1>9. ASSUME NEW s \in Subs
      PROVE  /\ sub'[s] \in Subscribers /\ Len(sub'[s].ch) <= Capacity
             /\ sub'[s].state = sub[s].state /\ sub'[s].view = sub[s].view
             /\ sub'[s].ch = sub[s].ch
                 \/ (s \in job[t].todo /\ sub'[s].ch = Append(sub[s].ch, ev))
  <2>1. PICK w \in Subscribers : w = sub[s] /\ Len(w.ch) <= Capacity
    BY <1>8
  <2>2. PICK v : v = sub'[s]
    OBVIOUS
  <2>3. CASE s \in job[t].todo
    <3>1. v = offer(w, ev)
      BY <1>8, <2>1, <2>2, <2>3
    <3>2. /\ v \in Subscribers /\ Len(v.ch) <= Capacity /\ v.state = w.state /\ v.view = w.view
          /\ v.ch = w.ch \/ v.ch = Append(w.ch, ev)
      BY <2>1, <3>1, OfferType
    <3> QED
      BY <2>1, <2>2, <2>3, <3>2
  <2>4. CASE s \notin job[t].todo
    <3>1. sub'[s] = w
      BY <1>8, <2>1, <2>4
    <3> QED
      BY <2>1, <3>1
  <2> QED
    BY <2>3, <2>4
<1>10. sub' \in [Subs -> Subscribers]
  BY <1>1, <1>9
<1>11. TypeOK' /\ MadeBounded' /\ HistoryOnce'
  <2>1. ops' \in 0 .. MaxOps /\ ops <= ops'
    BY <1>1, BrokerAssumption DEF BrokerInv, TypeOK
  <2> QED
    BY <1>1, <1>7, <1>9, <1>10, <2>1, TableKept
<1>12. VisitsSubscribed'
  <2>1. ASSUME NEW u \in Threads
        PROVE  /\ ~job'[u].holds => job'[u].todo = {}
               /\ job'[u].holds => job'[u].ev \in Events
               /\ \A s \in job'[u].todo :
                    /\ sub'[s].state = "in"
                    /\ job'[u].ev.type = "session-qr" => job'[u].ev.to \in {ClientOf[s], NoClient}
    <3>1. CASE u = t
      BY <3>1, <1>6, <1>7
    <3>2. CASE u # t
      <4>1. job'[u] = job[u] /\ job[u].todo \subseteq Subs
        BY <3>2, <1>7, SenderFacts
      <4>2. \A s \in job[u].todo : sub'[s].state = "in"
        BY <1>9, <4>1 DEF BrokerInv, VisitsSubscribed
      <4> QED
        BY <4>1, <4>2 DEF BrokerInv, VisitsSubscribed
    <3> QED
      BY <3>1, <3>2
  <2>2. ASSUME NEW s \in Subs, sub'[s].state # "in" PROVE job'[s] = Idle /\ sub'[s].ch = <<>>
    <3>1. sub[s].state # "in" /\ job[s] = Idle /\ sub[s].ch = <<>> /\ s \in Threads
      BY <1>9, <2>2 DEF BrokerInv, VisitsSubscribed, Threads
    <3>2. s # t /\ s \notin job[t].todo
      BY <1>2, <1>3, <3>1
    <3> QED
      BY <1>7, <1>8, <3>1, <3>2
  <2>3. \A s \in Subs : sub'[s].state = "new" => sub'[s].view = Empty
    BY <1>9 DEF BrokerInv, VisitsSubscribed
  <2> QED
    BY <2>1, <2>2, <2>3 DEF VisitsSubscribed
<1>13. QRPrivate'
  <2> SUFFICES ASSUME NEW s \in Subs, NEW i \in 1 .. Capacity,
                      i <= Len(sub'[s].ch), sub'[s].ch[i].type = "session-qr"
               PROVE  sub'[s].ch[i].to \in {ClientOf[s], NoClient}
    BY DEF QRPrivate
  <2>1. CASE sub'[s].ch = sub[s].ch
    BY <2>1 DEF BrokerInv, QRPrivate
  <2>2. CASE s \in job[t].todo /\ sub'[s].ch = Append(sub[s].ch, ev)
    <3>1. PICK ch \in Seq(Events) : ch = sub[s].ch
      BY <1>8 DEF Subscribers
    <3>2. /\ i \in Nat /\ Len(sub'[s].ch) = Len(ch) + 1 /\ sub'[s].ch[Len(ch) + 1] = ev
          /\ \A k \in 1 .. Len(ch) : sub'[s].ch[k] = ch[k]
      BY <2>2, <3>1, BrokerAssumption
    <3>3. CASE i = Len(ch) + 1
      BY <1>3, <1>4, <2>2, <3>2, <3>3
    <3>4. CASE i # Len(ch) + 1
      <4>1. i \in 1 .. Len(ch)
        BY <3>1, <3>2, <3>4
      <4>2. sub'[s].ch[i] = sub[s].ch[i] /\ i <= Len(sub[s].ch)
        BY <3>1, <3>2, <4>1
      <4> QED
        BY <4>2 DEF BrokerInv, QRPrivate
    <3> QED
      BY <3>3, <3>4
  <2> QED
    BY <1>9, <2>1, <2>2
<1>14. StreamsConverge'
  <2> SUFFICES ASSUME ~overlapped' PROVE StreamsConverge'
    BY DEF StreamsConverge
  <2>1. SaysTheTable(t)
    BY <1>1 DEF BrokerInv, StreamsConverge
  <2>2. SaysTheTable(t)' /\ Agrees(ev)
    <3>1. Agrees(ev)
      BY <1>1, <1>4, <2>1 DEF SaysTheTable
    <3>2. job'[t].plan = job[t].plan /\ ~job'[t].holds
      BY <1>6, <1>7
    <3>3. calls' = calls
      BY <1>1
    <3> QED
      BY <2>1, <3>1, <3>2, <3>3 DEF SaysTheTable, Agrees
  <2>3. \A u \in Threads : SaysTheTable(u)'
    BY <1>1, <1>7, <2>2, OthersSay DEF BrokerInv, StreamsConverge
  <2>4. ASSUME NEW s \in Subs, ListComing(s)
        PROVE  (s \in job[t].todo /\ ev.type = "call-list") \/ ListComing(s)'
    <3>1. PICK u \in Threads :
        \/ \E i \in DOMAIN job[u].plan : job[u].plan[i].type \in {"list-wanted", "call-list"}
        \/ job[u].ev.type = "call-list" /\ s \in job[u].todo
      BY <2>4 DEF ListComing
    <3>2. CASE u = t
      BY <1>4, <1>6, <1>7, <3>1, <3>2 DEF ListComing
    <3>3. CASE u # t
      BY <1>7, <3>1, <3>3 DEF ListComing
    <3> QED
      BY <3>2, <3>3
  <2>5. ASSUME NEW s \in Subs, sub'[s].state = "in", ~sub'[s].missed PROVE Converges(s)'
    <3>1. CASE s \in job[t].todo
      <4>1. /\ sub'[s].ch = (IF Len(sub[s].ch) < Capacity THEN Append(sub[s].ch, ev) ELSE sub[s].ch)
            /\ sub'[s].missed = (sub[s].missed \/ ~(Len(sub[s].ch) < Capacity))
        BY <1>8, <3>1, OfferType
      <4>2. Len(sub[s].ch) < Capacity /\ ~sub[s].missed
        BY <2>5, <4>1
      <4>3. Converges(s)
        BY <1>1, <1>9, <2>5, <4>2 DEF BrokerInv, StreamsConverge
      <4> QED
        BY <1>1, <1>9, <2>2, <2>4, <4>1, <4>2, <4>3, AppendConverges
    <3>2. CASE s \notin job[t].todo
      <4>1. Converges(s)
        BY <1>1, <1>8, <2>5, <3>2 DEF BrokerInv, StreamsConverge
      <4> QED
        BY <1>1, <1>8, <2>4, <3>2, <4>1, ConvergesKept
    <3> QED
      BY <3>1, <3>2
  <2> QED
    BY <2>3, <2>5 DEF StreamsConverge
<1> QED
  BY <1>11, <1>12, <1>13, <1>14 DEF BrokerInv

-----------------------------------------------------------------------------
\* The browser's side

\* Only request r's subscription changes, and only while no goroutine visits it.
LEMMA SubStep ==
  ASSUME BrokerInv, NEW r \in Subs, NEW w \in Subscribers, sub' = [sub EXCEPT ![r] = w],
         UNCHANGED <<calls, history, job, ops, made, overlapped>>,
         Len(w.ch) <= Capacity,
         w.state = "in" \/ \A t \in Threads : r \notin job[t].todo,
         w.state # "in" => job[r] = Idle /\ w.ch = <<>>, w.state = "new" => w.view = Empty,
         \A i \in 1 .. Capacity : (i <= Len(w.ch) /\ w.ch[i].type = "session-qr")
                                      => w.ch[i].to \in {ClientOf[r], NoClient},
         (w.state = "in" /\ ~w.missed /\ ~overlapped) => Converges(r)'
  PROVE  BrokerInv'
<1>1. sub' \in [Subs -> Subscribers] /\ sub'[r] = w
  BY DEF BrokerInv, TypeOK
<1>2. \A s \in Subs : s # r => sub'[s] = sub[s]
  BY DEF BrokerInv, TypeOK
<1>3. TypeOK' /\ MadeBounded' /\ HistoryOnce'
  <2>1. ops' \in 0 .. MaxOps /\ ops <= ops'
    BY BrokerAssumption DEF BrokerInv, TypeOK
  <2>2. ASSUME NEW s \in Subs PROVE Len(sub'[s].ch) <= Capacity
    <3>1. CASE s = r
      BY <1>1, <3>1
    <3>2. CASE s # r
      <4>1. sub'[s] = sub[s]
        BY <1>2, <3>2
      <4> QED
        BY <4>1 DEF BrokerInv, TypeOK
    <3> QED
      BY <3>1, <3>2
  <2>3. job' \in [Threads -> Jobs]
    BY DEF BrokerInv, TypeOK
  <2> QED
    BY <1>1, <2>1, <2>2, <2>3, TableKept
<1>4. VisitsSubscribed'
  <2>1. ASSUME NEW u \in Threads
        PROVE  /\ ~job'[u].holds => job'[u].todo = {}
               /\ job'[u].holds => job'[u].ev \in Events
               /\ \A s \in job'[u].todo :
                    /\ sub'[s].state = "in"
                    /\ job'[u].ev.type = "session-qr" => job'[u].ev.to \in {ClientOf[s], NoClient}
    <3>1. job' = job /\ job[u].todo \subseteq Subs
      BY SenderFacts
    <3>2. \A s \in job[u].todo : sub[s].state = "in"
      BY DEF BrokerInv, VisitsSubscribed
    <3>3. \A s \in job[u].todo : sub'[s].state = "in"
      BY <1>1, <1>2, <3>1, <3>2
    <3> QED
      BY <3>1, <3>3 DEF BrokerInv, VisitsSubscribed
  <2>2. ASSUME NEW s \in Subs, sub'[s].state # "in" PROVE job'[s] = Idle /\ sub'[s].ch = <<>>
    <3>1. CASE s = r
      BY <1>1, <2>2, <3>1
    <3>2. CASE s # r
      BY <1>2, <2>2, <3>2 DEF BrokerInv, VisitsSubscribed
    <3> QED
      BY <3>1, <3>2
  <2>3. ASSUME NEW s \in Subs, sub'[s].state = "new" PROVE sub'[s].view = Empty
    <3>1. CASE s = r
      BY <1>1, <2>3, <3>1
    <3>2. CASE s # r
      BY <1>2, <2>3, <3>2 DEF BrokerInv, VisitsSubscribed
    <3> QED
      BY <3>1, <3>2
  <2> QED
    BY <2>1, <2>2, <2>3 DEF VisitsSubscribed
<1>5. QRPrivate'
  <2> SUFFICES ASSUME NEW s \in Subs, NEW i \in 1 .. Capacity,
                      i <= Len(sub'[s].ch), sub'[s].ch[i].type = "session-qr"
               PROVE  sub'[s].ch[i].to \in {ClientOf[s], NoClient}
    BY DEF QRPrivate
  <2>1. CASE s = r
    BY <1>1, <2>1
  <2>2. CASE s # r
    <3>1. sub'[s] = sub[s]
      BY <1>2, <2>2
    <3> QED
      BY <3>1 DEF BrokerInv, QRPrivate
  <2> QED
    BY <2>1, <2>2
<1>6. StreamsConverge'
  <2> SUFFICES ASSUME ~overlapped' PROVE StreamsConverge'
    BY DEF StreamsConverge
  <2>1. ASSUME NEW u \in Threads PROVE SaysTheTable(u)'
    <3>1. SaysTheTable(u)
      BY DEF BrokerInv, StreamsConverge
    <3> QED
      BY <3>1 DEF SaysTheTable, Agrees
  <2>2. ASSUME NEW s \in Subs, sub'[s].state = "in", ~sub'[s].missed PROVE Converges(s)'
    <3>1. CASE s = r
      BY <1>1, <2>2, <3>1
    <3>2. CASE s # r
      <4>1. sub'[s] = sub[s]
        BY <1>2, <3>2
      <4>2. Converges(s)
        BY <2>2, <4>1 DEF BrokerInv, StreamsConverge
      <4>3. ListComing(s) => ListComing(s)'
        BY DEF ListComing
      <4> QED
        BY <4>1, <4>2, <4>3, ConvergesKept
    <3> QED
      BY <3>1, <3>2
  <2> QED
    BY <2>1, <2>2 DEF StreamsConverge
<1> QED
  BY <1>3, <1>4, <1>5, <1>6 DEF BrokerInv

LEMMA DeliverInv ==
  ASSUME BrokerInv, NEW r \in Subs, deliver(r)
  PROVE  BrokerInv'
<1>1. /\ sub[r].state = "in" /\ sub[r].ch # <<>>
      /\ UNCHANGED <<calls, history, job, ops, made, overlapped>>
  BY DEF deliver
<1>2. PICK s \in Subscribers : s = sub[r] /\ Len(s.ch) <= Capacity
  BY DEF BrokerInv, TypeOK
<1>3. PICK ch \in Seq(Events), ev \in Events, n \in Nat :
        /\ ch = Tail(s.ch) /\ ev = Head(s.ch) /\ ev = s.ch[1] /\ n = Len(ch) /\ Len(s.ch) = n + 1
        /\ \A i \in 1 .. n : ch[i] = s.ch[i + 1]
  <2>1. PICK c \in Seq(Events) : c = s.ch /\ c # <<>>
    BY <1>1, <1>2 DEF Subscribers
  <2>2. /\ Tail(c) \in Seq(Events) /\ Head(c) \in Events /\ Head(c) = c[1]
        /\ Len(Tail(c)) \in Nat /\ Len(c) = Len(Tail(c)) + 1
        /\ \A i \in 1 .. Len(Tail(c)) : Tail(c)[i] = c[i + 1]
    BY <2>1
  <2> QED
    BY <2>1, <2>2
<1>4. s.view \in Tables /\ apply(s.view, ev) \in Tables
  BY ApplyType DEF Subscribers
<1>5. PICK w : w = [s EXCEPT !.ch = ch, !.view = apply(s.view, ev)]
  OBVIOUS
<1>6. /\ w \in Subscribers /\ w.state = s.state /\ w.ch = ch /\ w.view = apply(s.view, ev)
  BY <1>4, <1>5 DEF Subscribers
<1>7. w.missed = s.missed
  BY <1>5 DEF Subscribers
<1>8. sub' = [sub EXCEPT ![r] = w]
  <2>1. sub' = [sub EXCEPT ![r] = [sub[r] EXCEPT !.ch = Tail(sub[r].ch),
                                                 !.view = apply(sub[r].view, Head(sub[r].ch))]]
    BY DEF deliver, BrokerInv, TypeOK, Subscribers
  <2> QED
    BY <1>2, <1>3, <1>5, <2>1
<1>9. Len(w.ch) <= Capacity
  BY <1>2, <1>3, <1>6, BrokerAssumption
<1>10. ASSUME NEW i \in 1 .. Capacity, i <= Len(w.ch), w.ch[i].type = "session-qr"
       PROVE  w.ch[i].to \in {ClientOf[r], NoClient}
  <2>1. i \in 1 .. n /\ i + 1 <= Len(s.ch) /\ i + 1 \in 1 .. Capacity
    BY <1>2, <1>3, <1>6, <1>10, BrokerAssumption
  <2>2. w.ch[i] = sub[r].ch[i + 1] /\ i + 1 <= Len(sub[r].ch)
    BY <1>2, <1>3, <1>6, <2>1
  <2> QED
    BY <1>10, <2>1, <2>2 DEF BrokerInv, QRPrivate
<1>11. ASSUME ~w.missed, ~overlapped PROVE Converges(r)'
  <2>1. ~sub[r].missed
    BY <1>2, <1>7, <1>11
  <2>2. Converges(r)
    BY <1>1, <1>11, <2>1 DEF BrokerInv, StreamsConverge
  <2>3. PICK views \in [0 .. n + 1 -> Tables] :
          /\ views[0] = s.view
          /\ \A i \in 1 .. n + 1 : views[i] = apply(views[i - 1], s.ch[i])
          /\ views[n + 1] = calls \/ ListComing(r)
    BY <1>2, <1>3, <2>2 DEF Converges
  <2>4. PICK left : left = [i \in 0 .. n |-> views[i + 1]]
    OBVIOUS
  <2>5. left \in [0 .. n -> Tables] /\ left[n] = views[n + 1] /\ left[0] = views[1]
    BY <2>4
  <2>6. left[0] = w.view
    <3>1. 1 \in 1 .. n + 1 /\ 1 - 1 = 0
      OBVIOUS
    <3>2. views[1] = apply(views[0], s.ch[1])
      BY <2>3, <3>1
    <3> QED
      BY <1>3, <1>6, <2>3, <2>5, <3>2
  <2>7. ASSUME NEW i \in 1 .. n PROVE left[i] = apply(left[i - 1], w.ch[i])
    <3>1. i + 1 \in 1 .. n + 1 /\ (i + 1) - 1 = i /\ i \in 0 .. n /\ i - 1 \in 0 .. n /\ (i - 1) + 1 = i
      OBVIOUS
    <3>2. views[i + 1] = apply(views[i], s.ch[i + 1])
      BY <2>3, <3>1
    <3>3. left[i] = views[i + 1] /\ left[i - 1] = views[i]
      BY <2>4, <3>1
    <3> QED
      BY <1>3, <1>6, <3>2, <3>3
  <2>8. sub'[r] = w
    BY <1>6, <1>8 DEF BrokerInv, TypeOK
  <2>9. ListComing(r) => ListComing(r)'
    BY <1>1 DEF ListComing
  <2>10. calls' = calls /\ Len(w.ch) = n
    BY <1>1, <1>3, <1>6
  <2> QED
    BY <2>3, <2>5, <2>6, <2>7, <2>8, <2>9, <2>10 DEF Converges
<1>12. w.state = "in"
  BY <1>1, <1>2, <1>6
<1> QED
  BY <1>1, <1>6, <1>8, <1>9, <1>10, <1>11, <1>12, SubStep

\* A request whose stream is over reads nothing.
LEMMA FreshSub ==
  ASSUME NEW state \in {"out", "closed"}
  PROVE  /\ Fresh(state) \in Subscribers /\ Fresh(state).state = state
         /\ Fresh(state).ch = <<>> /\ Len(Fresh(state).ch) = 0
BY DEF Fresh, Subscribers, Tables, Empty

LEMMA OutInv ==
  ASSUME BrokerInv, NEW r \in Subs, NEW state \in {"out", "closed"}, job[r] = Idle,
         \A t \in Threads : r \notin job[t].todo, sub' = [sub EXCEPT ![r] = Fresh(state)],
         UNCHANGED <<calls, history, job, ops, made, overlapped>>
  PROVE  BrokerInv'
<1>1. PICK w \in Subscribers : w = Fresh(state) /\ w.state = state /\ w.ch = <<>> /\ Len(w.ch) = 0
  BY FreshSub
<1>2. Len(w.ch) <= Capacity /\ \A i \in 1 .. Capacity : ~(i <= Len(w.ch))
  BY <1>1, BrokerAssumption
<1>3. w.state # "in" /\ w.state # "new"
  BY <1>1
<1> QED
  BY <1>1, <1>2, <1>3, SubStep

LEMMA UnsubscribeInv ==
  ASSUME BrokerInv, NEW r \in Subs, unsubscribe(r) \/ closeChannel(r)
  PROVE  BrokerInv'
<1>1. CASE unsubscribe(r)
  <2>1. /\ job[r] = Idle /\ Lock /\ sub' = [sub EXCEPT ![r] = Fresh("out")]
        /\ UNCHANGED <<calls, history, job, ops, made, overlapped>>
    BY <1>1 DEF unsubscribe
  <2>2. \A t \in Threads : r \notin job[t].todo
    BY <2>1 DEF Lock, BrokerInv, VisitsSubscribed
  <2> QED
    BY <2>1, <2>2, OutInv
<1>2. CASE closeChannel(r)
  <2>1. /\ sub[r].state = "out" /\ sub' = [sub EXCEPT ![r] = Fresh("closed")]
        /\ UNCHANGED <<calls, history, job, ops, made, overlapped>>
    BY <1>2 DEF closeChannel
  <2>2. job[r] = Idle /\ \A t \in Threads : r \notin job[t].todo
    BY <2>1 DEF BrokerInv, VisitsSubscribed
  <2> QED
    BY <2>1, <2>2, OutInv
<1> QED
  BY <1>1, <1>2

-----------------------------------------------------------------------------
\* The theorems

LEMMA NextInv == BrokerInv /\ [Next]_vars => BrokerInv'
<1> SUFFICES ASSUME BrokerInv, [Next]_vars PROVE BrokerInv'
  OBVIOUS
<1>1. CASE \E t \in Emitters : upsertCall(t) \/ endCall(t) \/ emitSessionQR(t)
  BY <1>1, UpsertInv, EndInv, QRInv
<1>2. CASE \E t \in Threads : Step(t)
  BY <1>2, ReadListInv, BroadcastInv, SendInv DEF Step
<1>3. CASE \E s \in Subs : serveSSE(s) \/ deliver(s) \/ unsubscribe(s) \/ closeChannel(s)
  BY <1>3, ServeInv, DeliverInv, UnsubscribeInv
<1>4. CASE UNCHANGED vars
  <2>1. TypeOK' /\ MadeBounded'
    BY <1>4 DEF BrokerInv, TypeOK, MadeBounded, vars
  <2>2. HistoryOnce'
    BY <1>4 DEF BrokerInv, HistoryOnce, vars
  <2>3. VisitsSubscribed'
    BY <1>4 DEF BrokerInv, VisitsSubscribed, vars
  <2>4. QRPrivate'
    BY <1>4 DEF BrokerInv, QRPrivate, vars
  <2>5. StreamsConverge'
    BY <1>4 DEF BrokerInv, StreamsConverge, SaysTheTable, Agrees, Converges, ListComing, vars
  <2> QED
    BY <2>1, <2>2, <2>3, <2>4, <2>5 DEF BrokerInv
<1> QED
  BY <1>1, <1>2, <1>3, <1>4 DEF Next

\* BrokerInv is an invariant of the broker.
THEOREM Inductive == Spec => []BrokerInv
BY InitInv, NextInv, PTL DEF Spec

\* For any number of browsers and goroutines and any capacity of a channel: channels stay within
\* their capacity, no goroutine sends on a channel unsubscribe has closed, a pairing code
\* stays in the channels of the client emitTo names, and every record ever made is live or in
\* the history once.
THEOREM StreamsAreSound == Spec => []StreamsSound
<1>1. BrokerInv => StreamsSound
  <2> SUFFICES ASSUME BrokerInv PROVE StreamsSound
    OBVIOUS
  <2>1. NoSendOnClosed
    BY DEF BrokerInv, VisitsSubscribed, NoSendOnClosed
  <2> QED
    BY <2>1 DEF BrokerInv, StreamsSound
<1> QED
  BY <1>1, Inductive, PTL

\* A browser that lost no event and has read everything shows exactly the calls of the table,
\* whenever serveSSE subscribed it, as long as the table changes one goroutine at a time.
THEOREM BrowsersCurrent == Spec => []ViewCurrent
<1>1. BrokerInv => ViewCurrent
  <2> SUFFICES ASSUME BrokerInv, NEW s \in Subs, sub[s].state = "in", sub[s].ch = <<>>,
                      ~sub[s].missed, ~overlapped, \A t \in Threads : job[t] = Idle
               PROVE  sub[s].view = calls
    BY DEF ViewCurrent
  <2>1. Converges(s)
    BY DEF BrokerInv, StreamsConverge
  <2>2. ~ListComing(s)
    BY IdleJob DEF ListComing
  <2>3. Len(sub[s].ch) = 0
    OBVIOUS
  <2> QED
    BY <2>1, <2>2, <2>3 DEF Converges
<1> QED
  BY <1>1, Inductive, PTL
=============================================================================
