---------------------------- MODULE SessionsProofs ----------------------------
(***************************************************************************)
(* A linked session survives, a deleted one never comes back, and a        *)
(* configuration is kept: for any number of sessions, goroutines,          *)
(* pairings, requests and crashes.                                         *)
(***************************************************************************)
EXTENDS Sessions, TLAPS

(* What the two kinds of records are made of, and what the actions make of them. *)
LEMMA RequestRecords ==
    /\ Idle \in Request
    /\ \A r \in Request, pc \in Pcs : [r EXCEPT !.pc = pc] \in Request
    /\ \A r \in Request, s \in SUBSET Ids : [r EXCEPT !.todo = s] \in Request
    /\ \A r \in Request, pc \in Pcs, s \in SUBSET Ids :
         [r EXCEPT !.pc = pc, !.todo = s] \in Request
    /\ \A r \in Request, pc \in Pcs, id \in Ids \cup {NoId} :
         [r EXCEPT !.pc = pc, !.id = id] \in Request
    /\ \A r \in Request, pc \in Pcs, id \in Ids \cup {NoId}, s \in SUBSET Ids :
         [r EXCEPT !.pc = pc, !.id = id, !.todo = s] \in Request
<1>1. Idle \in Request
  BY DEF Idle, Request, Ops, Pcs
<1> QED
  BY <1>1 DEF Request

LEMMA SessionRecords ==
    /\ Absent \in SessionObj
    /\ \A j \in Jids \cup {Unpaired} : newSession(j) \in SessionObj
    /\ \A s \in SessionObj, c \in Conns : [s EXCEPT !.conn = c] \in SessionObj
    /\ \A s \in SessionObj : [s EXCEPT !.reg = FALSE] \in SessionObj
    /\ \A s \in SessionObj, c \in Conns, j \in Jids \cup {Unpaired} :
         [s EXCEPT !.jid = j, !.conn = c] \in SessionObj
    /\ \A s \in SessionObj, c \in Conns, e \in SUBSET Events :
         [s EXCEPT !.conn = c, !.events = e] \in SessionObj
    /\ \A s \in SessionObj, c \in Conns, j \in Jids, e \in SUBSET Events :
         [s EXCEPT !.jid = j, !.conn = c, !.events = e] \in SessionObj
    /\ \A s \in SessionObj, e \in SUBSET Events, w \in SUBSET Jids :
         [s EXCEPT !.events = e, !.writes = w] \in SessionObj
    /\ \A s \in SessionObj, w \in SUBSET Jids : [s EXCEPT !.writes = w] \in SessionObj
BY DEF Absent, newSession, SessionObj, Conns, Events

(* A step that gives one goroutine another record. *)
LEMMA ReqUpdate ==
    ASSUME TypeOK, NEW t \in Threads, NEW r \in Request, req' = [req EXCEPT ![t] = r]
    PROVE  /\ req' \in [Threads -> Request] /\ req'[t] = r
           /\ \A u \in Threads : u # t => req'[u] = req[u]
BY DEF TypeOK

(* A step that changes one session object. *)
LEMMA SessUpdate ==
    ASSUME TypeOK, NEW id \in Ids, NEW s \in SessionObj, sess' = [sess EXCEPT ![id] = s]
    PROVE  /\ sess' \in [Ids -> SessionObj] /\ sess'[id] = s
           /\ \A i \in Ids : i # id => sess'[i] = sess[i]
BY DEF TypeOK

(* The types of what the actions read. *)
LEMMA FieldTypes ==
    ASSUME TypeOK
    PROVE  /\ \A t \in Threads : /\ req[t] \in Request /\ req[t].id \in Ids \cup {NoId}
                                 /\ req[t].todo \subseteq Ids
           /\ \A id \in Ids : /\ sess[id] \in SessionObj /\ sess[id].reg \in BOOLEAN
                              /\ sess[id].jid \in Jids \cup {Unpaired}
                              /\ sess[id].writes \subseteq Jids
           /\ Main \in Threads /\ Workers \subseteq Threads
BY DEF TypeOK, Request, SessionObj, Threads

(* Sessions a step does not touch keep what they have. *)
LEMMA OthersKept ==
    ASSUME IndInv, TypeOK', NEW id \in Ids,
           \A i \in Ids : i # id => sess'[i] = sess[i] /\ row'[i] = row[i] /\ linked'[i] = linked[i],
           used \subseteq used', devices \ {sess[id].jid} \subseteq devices', proc' = proc,
           pairings <= pairings', Held(id)' \subseteq Held(id) \cup (pairings + 1 .. pairings'),
           \A i \in Ids : i # id => Ahead(i)' = Ahead(i),
           \A t \in Threads : req'[t] # req[t] => req[t].id \in {id, NoId} /\ req'[t].id \in {id, NoId}
    PROVE  /\ \A i \in Ids : i # id => UnusedOK(i)' /\ ClientOK(i)' /\ LinkedOK(i)' /\ (Known(i) => Known(i)')
           /\ JidsDistinct'
<1> USE NilAssumption
<1>0. TypeOK /\ UnusedUntouched /\ JidsDistinct /\ ClientsKnown /\ LinkedSound
  BY DEF IndInv
<1>1. \A i \in Ids : i # id => UnusedOK(i)'
  BY <1>0 DEF UnusedUntouched, UnusedOK
<1>2. \A i \in Ids : i # id => Held(i)' = Held(i)
  BY DEF Held
<1>3. pairings \in Nat /\ pairings' \in Nat
  BY <1>0 DEF TypeOK
<1>4. JidsDistinct'
  <2>1. \A i \in Ids : Held(i) \subseteq 1 .. pairings
    BY <1>0 DEF JidsDistinct
  <2>2. \A i \in Ids : Held(i)' \subseteq 1 .. pairings'
    BY <1>2, <1>3, <2>1
  <2>3. \A i \in Ids : i # id => Held(i)' \cap Held(id)' = {}
    BY <1>0, <1>2, <1>3, <2>1 DEF JidsDistinct
  <2>4. \A i, j \in Ids : i # id /\ j # id /\ i # j => Held(i)' \cap Held(j)' = {}
    BY <1>0, <1>2 DEF JidsDistinct
  <2> QED
    BY <2>2, <2>3, <2>4 DEF JidsDistinct
<1>5. ASSUME NEW i \in Ids, i # id
      PROVE  /\ sess[i].jid \in devices => sess[i].jid \in devices'
             /\ linked[i] \in devices => linked[i] \in devices'
  <2>1. devices \subseteq Jids
    BY <1>0 DEF TypeOK
  <2>2. sess[id].jid \in Jids => sess[id].jid \in Held(id)
    BY DEF Held
  <2>3. /\ sess[i].jid \in Jids => sess[i].jid \in Held(i)
        /\ linked[i] \in Jids => linked[i] \in Held(i)
    BY DEF Held
  <2>4. Held(i) \cap Held(id) = {}
    BY <1>0, <1>5 DEF JidsDistinct
  <2> QED
    BY <2>1, <2>2, <2>3, <2>4
<1>6. Main \in Threads /\ Workers \subseteq Threads /\ NoId \notin Ids
  BY DEF Threads
<1>7. ASSUME NEW i \in Ids, i # id, NEW t \in Threads
      PROVE  (req[t].id = i \/ req'[t].id = i) => req'[t] = req[t]
  BY <1>6, <1>7
<1>8. \A i \in Ids : i # id => Deleting(i)' = Deleting(i)
  BY <1>6, <1>7 DEF Deleting
<1>9. \A i \in Ids : i # id => (Known(i) => Known(i)')
  BY <1>8 DEF Known
<1>10. \A i \in Ids : i # id => ClientOK(i)'
  BY <1>0, <1>5, <1>8, <1>9 DEF ClientsKnown, ClientOK
<1>11. ASSUME NEW i \in Ids, i # id
       PROVE  LinkedOK(i)'
  <2>1. LinkedOK(i)
    BY <1>0 DEF LinkedSound
  <2>2. Ahead(i)' = Ahead(i)
    BY <1>11
  <2>3. \A t \in Threads : req'[t].id = i => req'[t] = req[t]
    BY <1>7, <1>11
  <2> QED
    BY <1>5, <1>11, <2>1, <2>2, <2>3 DEF LinkedOK
<1> QED
  BY <1>1, <1>4, <1>9, <1>10, <1>11

(* Steps of a request goroutine w on session id: what is left to show concerns id and w. *)
LEMMA WorkerStep ==
    ASSUME IndInv, TypeOK', NEW w \in Workers, NEW id \in Ids, proc = "serving", proc' = proc,
           \A i \in Ids : i # id => sess'[i] = sess[i] /\ row'[i] = row[i] /\ linked'[i] = linked[i],
           used \subseteq used', devices \ {sess[id].jid} \subseteq devices', pairings' = pairings,
           Held(id)' \subseteq Held(id),
           \A u \in Threads : u # w => req'[u] = req[u],
           req[w].id \in {id, NoId}, req'[w].id \in {id, NoId},
           StepOK(w)', CreatedOK(w)', UnusedOK(id)', ClientOK(id)', LinkedOK(id)',
           \A v \in Workers : v # w /\ req[v].pc = "register" => req[v].id # id,
           \A v \in Workers : req'[v].id = id /\ req'[v].pc # "register" => Known(id)'
    PROVE  IndInv'
<1> USE NilAssumption, EnvAssumption
<1>0. TypeOK /\ StepsOfOps /\ CreatedUnseen /\ ClientsKnown
  BY DEF IndInv
<1>1. Main \in Threads /\ Workers \subseteq Threads /\ w # Main
  BY DEF Threads
<1>2. /\ \A i \in Ids : i # id => UnusedOK(i)' /\ ClientOK(i)' /\ LinkedOK(i)' /\ (Known(i) => Known(i)')
      /\ JidsDistinct'
  <2>1. \A t \in Threads : req'[t] # req[t] => req[t].id \in {id, NoId} /\ req'[t].id \in {id, NoId}
    OBVIOUS
  <2>2. \A i \in Ids : i # id => Ahead(i)' = Ahead(i)
    BY <1>1 DEF Ahead
  <2>3. pairings <= pairings'
    BY <1>0 DEF TypeOK
  <2>4. Held(id)' \subseteq Held(id) \cup (pairings + 1 .. pairings')
    OBVIOUS
  <2> QED
    BY <2>1, <2>2, <2>3, <2>4, OthersKept
<1>3. StepsOfOps'
  <2> SUFFICES ASSUME NEW u \in Threads, u # w PROVE StepOK(u)'
    BY DEF StepsOfOps
  <2>1. req'[u] = req[u] /\ StepOK(u)
    BY <1>0 DEF StepsOfOps
  <2> QED
    BY <2>1 DEF StepOK, At
<1>4. CreatedUnseen'
  <2> SUFFICES ASSUME NEW v \in Workers, v # w, req[v].pc = "register" PROVE CreatedOK(v)'
    BY <1>1 DEF CreatedUnseen, CreatedOK, At
  <2>1. req'[v] = req[v] /\ req[v].id # id
    BY <1>1
  <2>2. req[v].id \in Ids
    BY <1>0, <1>1 DEF StepsOfOps, StepOK
  <2>3. CreatedOK(v)
    BY <1>0 DEF CreatedUnseen
  <2>4. \A t \in Threads \ {v} : req'[t].id # req[v].id
    BY <2>1, <2>2, <2>3 DEF CreatedOK, At
  <2> QED
    BY <2>1, <2>2, <2>3, <2>4 DEF CreatedOK, At
<1>5. ClientsKnown'
  <2>1. \A i \in Ids : ClientOK(i)'
    BY <1>2
  <2>2. ASSUME NEW v \in Workers PROVE KnownOK(v)'
    <3> SUFFICES ASSUME NEW j \in Ids, req'[v].id = j, req'[v].pc # "register" PROVE Known(j)'
      BY DEF KnownOK, Known, Deleting, At
    <3>1. CASE j # id
      <4>1. v # w
        BY <3>1
      <4>2. req'[v] = req[v]
        BY <1>1, <4>1
      <4>3. Known(j)
        BY <1>0, <4>2 DEF ClientsKnown, KnownOK, At
      <4> QED
        BY <1>2, <3>1, <4>3
    <3> QED
      BY <3>1
  <2> QED
    BY <2>1, <2>2 DEF ClientsKnown
<1> QED
  BY <1>2, <1>3, <1>4, <1>5 DEF IndInv, UnusedUntouched, LinkedSound, RestoreSound

(* Events of session id and their handlers: no goroutine of a request moves. *)
LEMMA EventStep ==
    ASSUME IndInv, TypeOK', NEW id \in Ids, req' = req, proc' = proc, used' = used,
           \A i \in Ids : i # id => sess'[i] = sess[i] /\ row'[i] = row[i] /\ linked'[i] = linked[i],
           devices \ {sess[id].jid} \subseteq devices',
           pairings <= pairings', Held(id)' \subseteq Held(id) \cup (pairings + 1 .. pairings'),
           sess[id] # Absent, sess'[id].reg = sess[id].reg,
           row'[id] = row[id] \/ (row[id] # NoRow /\ row'[id] \in Jids),
           ClientOK(id)', LinkedOK(id)'
    PROVE  IndInv'
<1> USE NilAssumption, EnvAssumption
<1>0. TypeOK /\ StepsOfOps /\ UnusedUntouched /\ CreatedUnseen /\ ClientsKnown /\ RestoreSound
  BY DEF IndInv
<1>1. Main \in Threads /\ Workers \subseteq Threads
  BY DEF Threads
<1>2. \A i \in Ids : (Ahead(i)' = Ahead(i)) /\ (Deleting(i)' = Deleting(i))
  BY DEF Ahead, Deleting
<1>3. /\ \A i \in Ids : i # id => UnusedOK(i)' /\ ClientOK(i)' /\ LinkedOK(i)' /\ (Known(i) => Known(i)')
      /\ JidsDistinct'
  BY <1>2, OthersKept
<1>4. UnusedOK(id)'
  BY <1>0 DEF UnusedUntouched, UnusedOK
<1>5. StepsOfOps'
  BY <1>0 DEF StepsOfOps, StepOK, At
<1>6. CreatedUnseen'
  <2> SUFFICES ASSUME NEW v \in Workers, req[v].pc = "register" PROVE CreatedOK(v)'
    BY DEF CreatedUnseen, CreatedOK, At
  <2>1. CreatedOK(v) /\ req[v].id \in Ids
    BY <1>0, <1>1 DEF CreatedUnseen, StepsOfOps, StepOK
  <2>2. req[v].id # id
    BY <2>1 DEF CreatedOK, At
  <2> QED
    BY <2>1, <2>2 DEF CreatedOK, At
<1>7. Known(id) => Known(id)'
  BY <1>2 DEF Known
<1>8. ClientsKnown'
  <2>1. \A i \in Ids : ClientOK(i)'
    BY <1>3
  <2>2. ASSUME NEW v \in Workers PROVE KnownOK(v)'
    <3> SUFFICES ASSUME NEW j \in Ids, req[v].id = j, req[v].pc # "register" PROVE Known(j)'
      BY DEF KnownOK, Known, Deleting, At
    <3>1. Known(j)
      BY <1>0 DEF ClientsKnown, KnownOK, At
    <3> QED
      BY <1>3, <1>7, <3>1
  <2> QED
    BY <2>1, <2>2 DEF ClientsKnown
<1>9. RestoreSound'
  <2>1. proc # "down"
    BY <1>0 DEF RestoreSound
  <2>2. ASSUME proc = "starting", NEW i \in Ids PROVE RowOK(i)'
    <3>1. RowOK(i)
      BY <1>0, <2>2 DEF RestoreSound
    <3>2. CASE i # id
      BY <1>2, <3>1, <3>2 DEF RowOK
    <3>3. CASE i = id
      BY <1>2, <3>1, <3>3 DEF RowOK
    <3> QED
      BY <3>2, <3>3
  <2>3. ASSUME proc = "starting", req[Main].pc \in {"rows", "configs", "recording"}
        PROVE  Ahead(req[Main].id)'
    BY <1>0, <2>3 DEF RestoreSound, Ahead
  <2>4. ASSUME proc = "starting", req[Main].pc \in {"configs", "recording"}
        PROVE  row'[req[Main].id] = NoRow
    <3>1. row[req[Main].id] = NoRow /\ req[Main].id \in Ids
      BY <1>0, <1>1, <2>4 DEF RestoreSound, StepsOfOps, StepOK
    <3> QED
      BY <3>1
  <2> QED
    BY <2>1, <2>2, <2>3, <2>4 DEF RestoreSound, Ahead
<1> QED
  BY <1>3, <1>4, <1>5, <1>6, <1>8, <1>9 DEF IndInv, UnusedUntouched, LinkedSound

(* The main goroutine goes on without touching a session. *)
LEMMA MainPasses ==
    ASSUME IndInv, TypeOK', proc = "starting", proc' = proc,
           UNCHANGED <<row, sess, devices, linked, used, pairings>>,
           \A w \in Workers : req'[w] = req[w],
           req'[Main].id = req[Main].id, req'[Main].op = req[Main].op, StepOK(Main)',
           req'[Main].pc \notin {"rows", "configs", "recording"},
           \A i \in Ids : Ahead(i)' = Ahead(i)
    PROVE  IndInv'
<1> USE EnvAssumption
<1>0. /\ TypeOK /\ StepsOfOps /\ UnusedUntouched /\ CreatedUnseen /\ JidsDistinct
      /\ ClientsKnown /\ LinkedSound /\ RestoreSound
  BY DEF IndInv
<1>1. Main \in Threads /\ Threads = Workers \cup {Main}
  BY DEF Threads
<1>2. StepsOfOps'
  <2> SUFFICES ASSUME NEW u \in Workers PROVE StepOK(u)'
    BY <1>1 DEF StepsOfOps
  <2>1. StepOK(u) /\ req'[u] = req[u]
    BY <1>0, <1>1 DEF StepsOfOps
  <2> QED
    BY <2>1 DEF StepOK, At
<1>3. UnusedUntouched'
  BY <1>0 DEF UnusedUntouched, UnusedOK
<1>4. JidsDistinct'
  BY <1>0 DEF JidsDistinct, Held
<1>5. CreatedUnseen'
  <2> SUFFICES ASSUME NEW v \in Workers, req[v].pc = "register" PROVE FALSE
    BY DEF CreatedUnseen, CreatedOK, At
  <2> QED
    BY <1>0, <1>1 DEF StepsOfOps, StepOK
<1>6. \A i \in Ids : Deleting(i)' = Deleting(i)
  BY DEF Deleting
<1>7. ClientsKnown'
  BY <1>0, <1>6 DEF ClientsKnown, ClientOK, KnownOK, Known, At
<1>8. LinkedSound'
  <2> SUFFICES ASSUME NEW i \in Ids PROVE LinkedOK(i)'
    BY DEF LinkedSound
  <2>1. LinkedOK(i)
    BY <1>0 DEF LinkedSound
  <2>2. \A t \in Threads : req'[t].id = req[t].id /\ req'[t].op = req[t].op
    BY <1>1
  <2> QED
    BY <2>1, <2>2 DEF LinkedOK
<1>9. RestoreSound'
  BY <1>0 DEF RestoreSound, RowOK
<1> QED
  BY <1>2, <1>3, <1>4, <1>5, <1>7, <1>8, <1>9 DEF IndInv

(* The main goroutine works on row id. *)
LEMMA MainStep ==
    ASSUME IndInv, TypeOK', NEW id \in Ids, proc = "starting", proc' = proc,
           UNCHANGED <<devices, used, pairings>>,
           \A i \in Ids : i # id => /\ sess'[i] = sess[i] /\ row'[i] = row[i]
                                   /\ linked'[i] = linked[i] /\ Ahead(i)' = Ahead(i),
           \A w \in Workers : req'[w] = req[w],
           req[Main].id \in {id, NoId}, req'[Main].id \in {id, NoId}, StepOK(Main)',
           Held(id)' \subseteq Held(id),
           UnusedOK(id)', ClientOK(id)', LinkedOK(id)', RowOK(id)',
           req'[Main].pc \in {"rows", "configs", "recording"} => Ahead(id)' /\ req'[Main].id = id,
           req'[Main].pc \in {"configs", "recording"} => row'[id] = NoRow
    PROVE  IndInv'
<1> USE NilAssumption, EnvAssumption
<1>0. /\ TypeOK /\ StepsOfOps /\ UnusedUntouched /\ CreatedUnseen /\ JidsDistinct
      /\ ClientsKnown /\ LinkedSound /\ RestoreSound
  BY DEF IndInv
<1>1. Main \in Threads /\ Threads = Workers \cup {Main}
  BY DEF Threads
<1>2. \A w \in Workers : req[w].pc = "" /\ req[w].id \notin Ids
  BY <1>0, <1>1 DEF StepsOfOps, StepOK
<1>3. /\ \A i \in Ids : i # id => UnusedOK(i)' /\ ClientOK(i)' /\ LinkedOK(i)' /\ (Known(i) => Known(i)')
      /\ JidsDistinct'
  <2>1. \A t \in Threads : req'[t] # req[t] => req[t].id \in {id, NoId} /\ req'[t].id \in {id, NoId}
    BY <1>1
  <2>2. pairings <= pairings'
    BY <1>0 DEF TypeOK
  <2>3. Held(id)' \subseteq Held(id) \cup (pairings + 1 .. pairings')
    OBVIOUS
  <2>4. devices \ {sess[id].jid} \subseteq devices'
    OBVIOUS
  <2>5. \A i \in Ids : i # id => sess'[i] = sess[i] /\ row'[i] = row[i] /\ linked'[i] = linked[i]
    OBVIOUS
  <2> QED
    BY <2>1, <2>2, <2>3, <2>4, <2>5, OthersKept
<1>4. StepsOfOps'
  <2> SUFFICES ASSUME NEW u \in Workers PROVE StepOK(u)'
    BY <1>1 DEF StepsOfOps
  <2>1. StepOK(u) /\ req'[u] = req[u]
    BY <1>0, <1>1 DEF StepsOfOps
  <2> QED
    BY <2>1 DEF StepOK, At
<1>5. CreatedUnseen'
  BY <1>2 DEF CreatedUnseen, CreatedOK, At
<1>6. ClientsKnown'
  <2>1. \A w \in Workers : KnownOK(w)'
    BY <1>2 DEF KnownOK
  <2> QED
    BY <1>3, <2>1 DEF ClientsKnown
<1>7. RestoreSound'
  <2>1. \A i \in Ids : RowOK(i)'
    <3> SUFFICES ASSUME NEW i \in Ids, i # id PROVE RowOK(i)'
      OBVIOUS
    <3>1. RowOK(i)
      BY <1>0 DEF RestoreSound
    <3> QED
      BY <3>1 DEF RowOK
  <2> QED
    BY <2>1 DEF RestoreSound, Ahead
<1> QED
  BY <1>3, <1>4, <1>5, <1>6, <1>7 DEF IndInv, UnusedUntouched, LinkedSound

(* A request goroutine at work names a used session, and Create's is its own. *)
LEMMA AtWork ==
    ASSUME IndInv, NEW w \in Workers, req[w].pc # ""
    PROVE  /\ TypeOK /\ w \in Threads /\ w # Main /\ req[w] \in Request /\ proc = "serving"
           /\ req[w].id \in Ids /\ req[w].id \in used /\ StepOK(w) /\ CreatedOK(w)
           /\ req[w].pc # "register" => Known(req[w].id)
           /\ req[w].op \notin Harmless => linked[req[w].id] = Unpaired
           /\ \A v \in Workers : v # w /\ req[v].pc = "register" => req[v].id # req[w].id
           /\ \A v \in Workers : req[v].id = req[w].id /\ req[v].pc # "register" => Known(req[w].id)
<1> USE EnvAssumption
<1>0. TypeOK /\ StepsOfOps /\ CreatedUnseen /\ ClientsKnown /\ LinkedSound
  BY DEF IndInv
<1>1. w \in Threads /\ w # Main /\ Workers \subseteq Threads
  BY DEF Threads
<1>2. StepOK(w) /\ CreatedOK(w) /\ KnownOK(w) /\ req[w] \in Request
  BY <1>0, <1>1 DEF StepsOfOps, CreatedUnseen, ClientsKnown, TypeOK
<1>3. proc = "serving" /\ req[w].id \in Ids /\ req[w].id \in used
  BY <1>1, <1>2 DEF StepOK
<1>4. req[w].pc # "register" => Known(req[w].id)
  BY <1>2, <1>3 DEF KnownOK, At
<1>5. req[w].op \notin Harmless => linked[req[w].id] = Unpaired
  BY <1>0, <1>1, <1>3 DEF LinkedSound, LinkedOK
<1>6. \A v \in Workers : v # w /\ req[v].pc = "register" => req[v].id # req[w].id
  BY <1>0, <1>1 DEF CreatedUnseen, CreatedOK, At
<1>7. ASSUME NEW v \in Workers, req[v].id = req[w].id, req[v].pc # "register"
      PROVE  Known(req[w].id)
  BY <1>0, <1>3, <1>7 DEF ClientsKnown, KnownOK, At
<1> QED
  BY <1>0, <1>1, <1>2, <1>3, <1>4, <1>5, <1>6, <1>7

(* Steps of a request goroutine w on session id that leave rows and clients alone. *)
LEMMA RequestStep ==
    ASSUME IndInv, TypeOK', NEW w \in Workers, NEW id \in Ids, proc = "serving",
           UNCHANGED <<row, sess, devices, used, pairings, proc>>,
           \A i \in Ids : i # id => linked'[i] = linked[i],
           linked'[id] \in {linked[id], Unpaired},
           \A u \in Threads : u # w => req'[u] = req[u],
           req[w].id \in {id, NoId}, req'[w].id \in {id, NoId},
           req[w].pc \notin {"unregister", "rows"}, req'[w].pc # "register",
           Known(id), id \in used, StepOK(w)',
           req'[w].id = id => req'[w].op \in Harmless \/ linked'[id] = Unpaired,
           \A v \in Workers : v # w /\ req[v].pc = "register" => req[v].id # id
    PROVE  IndInv'
<1> USE NilAssumption, EnvAssumption
<1>0. TypeOK /\ StepsOfOps /\ UnusedUntouched /\ CreatedUnseen /\ ClientsKnown /\ LinkedSound
  BY DEF IndInv
<1>1. Workers \subseteq Threads /\ w \in Threads /\ w # Main /\ Main \in Threads
  BY DEF Threads
<1>2. Deleting(id) => Deleting(id)'
  BY <1>1 DEF Deleting
<1>3. Known(id)'
  BY <1>2 DEF Known
<1>4. ClientOK(id)'
  BY <1>0, <1>2, <1>3 DEF ClientsKnown, ClientOK
<1>5. LinkedOK(id)'
  <2>1. LinkedOK(id)
    BY <1>0 DEF LinkedSound
  <2>2. Ahead(id)' = Ahead(id)
    BY <1>1 DEF Ahead
  <2>3. ASSUME linked'[id] # Unpaired, NEW t \in Threads, req'[t].id = id
        PROVE  req'[t].op \in Harmless
    BY <2>1, <2>3 DEF LinkedOK
  <2> QED
    BY <2>1, <2>2, <2>3 DEF LinkedOK
<1>6. UnusedOK(id)' /\ CreatedOK(w)'
  BY DEF UnusedOK, CreatedOK, At
<1>7. Held(id)' \subseteq Held(id)
  BY DEF Held
<1>8. \A i \in Ids : i # id => sess'[i] = sess[i] /\ row'[i] = row[i] /\ linked'[i] = linked[i]
  OBVIOUS
<1> QED
  BY <1>3, <1>4, <1>5, <1>6, <1>7, <1>8, WorkerStep

(* A request on a registered session. *)
LEMMA Asked ==
    ASSUME IndInv, NEW w \in Workers, NEW id \in Registered
    PROVE  /\ TypeOK /\ w \in Threads /\ w # Main /\ id \in Ids /\ id \in used /\ Known(id)
           /\ \A v \in Workers : v # w /\ req[v].pc = "register" => req[v].id # id
<1> USE EnvAssumption
<1>0. TypeOK /\ UnusedUntouched /\ CreatedUnseen
  BY DEF IndInv
<1>1. sess[id] # Absent /\ id \in Ids /\ sess[id].reg
  BY DEF Registered, Absent
<1> QED
  BY <1>0, <1>1 DEF UnusedUntouched, UnusedOK, CreatedUnseen, CreatedOK, Known, At, Threads

(* Serve gives the goroutine a record with exactly these fields. *)
LEMMA Served ==
    ASSUME TypeOK, NEW w \in Workers, NEW op \in Ops, NEW id \in Ids, NEW pc \in Pcs,
           Serve(w, op, id, pc)
    PROVE  /\ req' \in [Threads -> Request] /\ proc = "serving"
           /\ req[w].id = NoId /\ req[w].pc = "" /\ req[w].op = "idle"
           /\ req'[w].op = op /\ req'[w].id = id /\ req'[w].pc = pc /\ req'[w].todo = {}
           /\ \A u \in Threads : u # w => req'[u] = req[u]
<1>1. [op |-> op, id |-> id, pc |-> pc, todo |-> {}] \in Request /\ w \in Threads
  BY DEF Request, Threads
<1>2. req' = [req EXCEPT ![w] = [op |-> op, id |-> id, pc |-> pc, todo |-> {}]]
  BY DEF Serve
<1>3. req[w].id = NoId /\ req[w].pc = "" /\ req[w].op = "idle" /\ proc = "serving"
  <2>1. req[w] = Idle /\ proc = "serving"
    BY DEF Serve
  <2>2. Idle.id = NoId /\ Idle.pc = "" /\ Idle.op = "idle"
    BY DEF Idle
  <2> QED
    BY <2>1, <2>2
<1> QED
  BY <1>1, <1>2, <1>3, ReqUpdate

(* Pair, Logout, Delete and the configuration requests begin. *)
LEMMA PairAsked ==
    ASSUME IndInv, NEW w \in Workers, Pair(w)
    PROVE  IndInv'
<1> USE NilAssumption
<1>1. PICK id \in Registered : sess[id].jid = Unpaired /\ Serve(w, "Pair", id, "replace")
  BY DEF Pair
<1>2. UNCHANGED <<row, name, devices, cfg, rec, used, sess, proc, pairings, linked>>
  BY DEF Pair, db
<1>3. /\ TypeOK /\ w \in Threads /\ w # Main /\ id \in Ids /\ id \in used /\ Known(id)
      /\ \A v \in Workers : v # w /\ req[v].pc = "register" => req[v].id # id
  BY Asked
<1>4. /\ req' \in [Threads -> Request] /\ proc = "serving"
      /\ req[w].id = NoId /\ req[w].pc = "" /\ req[w].op = "idle"
      /\ req'[w].op = "Pair" /\ req'[w].id = id /\ req'[w].pc = "replace" /\ req'[w].todo = {}
      /\ \A u \in Threads : u # w => req'[u] = req[u]
  BY <1>1, <1>3, Served DEF Ops, Pcs
<1>5. TypeOK'
  BY <1>2, <1>3, <1>4 DEF TypeOK
<1>6. StepOK(w)'
  BY <1>2, <1>3, <1>4 DEF StepOK, At
<1>7. linked[id] = Unpaired
  <2>1. LinkedOK(id)
    BY <1>3 DEF IndInv, LinkedSound
  <2> QED
    BY <1>1, <1>4, <2>1 DEF LinkedOK
<1> QED
  BY <1>2, <1>3, <1>4, <1>5, <1>6, <1>7, RequestStep

LEMMA LogoutAsked ==
    ASSUME IndInv, NEW w \in Workers, Logout(w)
    PROVE  IndInv'
<1> USE NilAssumption
<1>1. PICK id \in Registered :
        Serve(w, "Logout", id, "logout") /\ linked' = [linked EXCEPT ![id] = Unpaired]
  BY DEF Logout
<1>2. UNCHANGED <<row, name, devices, cfg, rec, used, sess, proc, pairings>>
  BY DEF Logout, db
<1>3. /\ TypeOK /\ w \in Threads /\ w # Main /\ id \in Ids /\ id \in used /\ Known(id)
      /\ \A v \in Workers : v # w /\ req[v].pc = "register" => req[v].id # id
  BY Asked
<1>4. /\ req' \in [Threads -> Request] /\ proc = "serving"
      /\ req[w].id = NoId /\ req[w].pc = "" /\ req[w].op = "idle"
      /\ req'[w].op = "Logout" /\ req'[w].id = id /\ req'[w].pc = "logout" /\ req'[w].todo = {}
      /\ \A u \in Threads : u # w => req'[u] = req[u]
  BY <1>1, <1>3, Served DEF Ops, Pcs
<1>5. /\ linked' \in [Ids -> Jids \cup {Unpaired}] /\ linked'[id] = Unpaired
      /\ \A i \in Ids : i # id => linked'[i] = linked[i]
  BY <1>1, <1>3 DEF TypeOK
<1>6. TypeOK'
  BY <1>2, <1>3, <1>4, <1>5 DEF TypeOK
<1>7. StepOK(w)'
  BY <1>2, <1>3, <1>4 DEF StepOK, At
<1> QED
  BY <1>2, <1>3, <1>4, <1>5, <1>6, <1>7, RequestStep

LEMMA DeleteAsked ==
    ASSUME IndInv, NEW w \in Workers, Delete(w)
    PROVE  IndInv'
<1> USE NilAssumption
<1>1. PICK id \in Registered :
        Serve(w, "Delete", id, "logout") /\ linked' = [linked EXCEPT ![id] = Unpaired]
  BY DEF Delete
<1>2. UNCHANGED <<row, name, devices, cfg, rec, used, sess, proc, pairings>>
  BY DEF Delete, db
<1>3. /\ TypeOK /\ w \in Threads /\ w # Main /\ id \in Ids /\ id \in used /\ Known(id)
      /\ \A v \in Workers : v # w /\ req[v].pc = "register" => req[v].id # id
  BY Asked
<1>4. /\ req' \in [Threads -> Request] /\ proc = "serving"
      /\ req[w].id = NoId /\ req[w].pc = "" /\ req[w].op = "idle"
      /\ req'[w].op = "Delete" /\ req'[w].id = id /\ req'[w].pc = "logout" /\ req'[w].todo = {}
      /\ \A u \in Threads : u # w => req'[u] = req[u]
  BY <1>1, <1>3, Served DEF Ops, Pcs
<1>5. /\ linked' \in [Ids -> Jids \cup {Unpaired}] /\ linked'[id] = Unpaired
      /\ \A i \in Ids : i # id => linked'[i] = linked[i]
  BY <1>1, <1>3 DEF TypeOK
<1>6. TypeOK'
  BY <1>2, <1>3, <1>4, <1>5 DEF TypeOK
<1>7. StepOK(w)'
  BY <1>2, <1>3, <1>4 DEF StepOK, At
<1> QED
  BY <1>2, <1>3, <1>4, <1>5, <1>6, <1>7, RequestStep

LEMMA ConfigureAsked ==
    ASSUME IndInv, NEW w \in Workers, Configure(w)
    PROVE  IndInv'
<1> USE NilAssumption
<1>1. PICK id \in Registered, op \in {"SetChatwoot", "DeleteChatwoot", "SetRecording"} :
        Serve(w, op, id, "write")
  BY DEF Configure
<1>2. UNCHANGED <<row, name, devices, cfg, rec, used, sess, proc, pairings, linked>>
  BY DEF Configure, db
<1>3. /\ TypeOK /\ w \in Threads /\ w # Main /\ id \in Ids /\ id \in used /\ Known(id)
      /\ \A v \in Workers : v # w /\ req[v].pc = "register" => req[v].id # id
  BY Asked
<1>4. /\ req' \in [Threads -> Request] /\ proc = "serving"
      /\ req[w].id = NoId /\ req[w].pc = "" /\ req[w].op = "idle"
      /\ req'[w].op = op /\ req'[w].id = id /\ req'[w].pc = "write" /\ req'[w].todo = {}
      /\ \A u \in Threads : u # w => req'[u] = req[u]
  <2>1. op \in Ops /\ "write" \in Pcs
    BY DEF Ops, Pcs
  <2> QED
    BY <1>1, <1>3, <2>1, Served
<1>5. TypeOK'
  BY <1>2, <1>3, <1>4 DEF TypeOK
<1>6. StepOK(w)'
  BY <1>2, <1>3, <1>4 DEF StepOK, At
<1>7. op \in Harmless
  BY DEF Harmless
<1> QED
  BY <1>2, <1>3, <1>4, <1>5, <1>6, <1>7, RequestStep

(* A goroutine's record after its next step, or at the end of its request. *)
LEMMA Moved ==
    ASSUME TypeOK, NEW t \in Threads, NEW pc \in Pcs, req' = [req EXCEPT ![t].pc = pc]
    PROVE  /\ req' \in [Threads -> Request]
           /\ req'[t].op = req[t].op /\ req'[t].id = req[t].id /\ req'[t].todo = req[t].todo
           /\ req'[t].pc = pc
           /\ \A u \in Threads : u # t => req'[u] = req[u]
<1>1. [req[t] EXCEPT !.pc = pc] \in Request /\ req[t] \in Request
  BY FieldTypes, RequestRecords
<1>2. /\ req' \in [Threads -> Request] /\ req'[t] = [req[t] EXCEPT !.pc = pc]
      /\ \A u \in Threads : u # t => req'[u] = req[u]
  BY <1>1, ReqUpdate
<1> QED
  BY <1>1, <1>2 DEF Request

LEMMA Finished ==
    ASSUME TypeOK, NEW t \in Threads, req' = [req EXCEPT ![t] = Idle]
    PROVE  /\ req' \in [Threads -> Request]
           /\ req'[t].op = "idle" /\ req'[t].id = NoId /\ req'[t].todo = {} /\ req'[t].pc = ""
           /\ \A u \in Threads : u # t => req'[u] = req[u]
<1>1. req' \in [Threads -> Request] /\ req'[t] = Idle /\ \A u \in Threads : u # t => req'[u] = req[u]
  BY RequestRecords, ReqUpdate
<1> QED
  BY <1>1 DEF Idle

(* A finished goroutine is in order. *)
LEMMA FinishedOK ==
    ASSUME TypeOK, NEW w \in Workers, req'[w].op = "idle", req'[w].id = NoId, req'[w].todo = {}, req'[w].pc = ""
    PROVE  StepOK(w)' /\ CreatedOK(w)'
BY NilAssumption, EnvAssumption DEF StepOK, CreatedOK, At

(* handleSetChatwoot, handleDeleteChatwoot and handleSetRecording write their row. *)
LEMMA ConfigureWriteStep ==
    ASSUME IndInv, NEW w \in Workers, ConfigureWrite(w)
    PROVE  IndInv'
<1> USE NilAssumption
<1>1. req[w].pc = "write" /\ req' = [req EXCEPT ![w] = Idle]
  BY DEF ConfigureWrite, At, Done
<1>2. UNCHANGED <<row, name, devices, used, sess, proc, pairings, linked>>
  BY DEF ConfigureWrite, counters
<1>3. /\ TypeOK /\ w \in Threads /\ w # Main /\ req[w] \in Request /\ proc = "serving"
      /\ req[w].id \in Ids /\ req[w].id \in used /\ Known(req[w].id)
      /\ \A v \in Workers : v # w /\ req[v].pc = "register" => req[v].id # req[w].id
  BY <1>1, AtWork
<1>4. PICK id \in Ids : id = req[w].id
  BY <1>3
<1>5. /\ req' \in [Threads -> Request]
      /\ req'[w].op = "idle" /\ req'[w].id = NoId /\ req'[w].todo = {} /\ req'[w].pc = ""
      /\ \A u \in Threads : u # w => req'[u] = req[u]
  BY <1>1, <1>3, Finished
<1>6. cfg' \in [Ids -> Cfgs \cup {NoCfg}] /\ rec' \in [Ids -> BOOLEAN]
  BY <1>3 DEF ConfigureWrite, deleteChatwoot, TypeOK
<1>7. TypeOK'
  BY <1>2, <1>3, <1>5, <1>6 DEF TypeOK
<1>8. StepOK(w)'
  BY <1>3, <1>5, FinishedOK
<1> QED
  BY <1>1, <1>2, <1>3, <1>4, <1>5, <1>7, <1>8, RequestStep

(* Create: the row of a fresh id, which nobody knows yet. *)
LEMMA CreateInsertStep ==
    ASSUME IndInv, NEW w \in Workers, CreateInsert(w)
    PROVE  IndInv'
<1> USE NilAssumption, EnvAssumption
<1>0. TypeOK /\ StepsOfOps /\ UnusedUntouched /\ w \in Threads /\ w # Main
  BY DEF IndInv, Threads
<1>1. PICK id \in Ids : /\ id \notin used /\ Serve(w, "Create", id, "register")
                        /\ row' = [row EXCEPT ![id] = Unpaired] /\ used' = used \cup {id}
  BY DEF CreateInsert
<1>2. UNCHANGED <<name, devices, cfg, rec, sess, proc, pairings, linked>>
  BY DEF CreateInsert
<1>3. /\ req' \in [Threads -> Request] /\ proc = "serving"
      /\ req[w].id = NoId /\ req[w].pc = "" /\ req[w].op = "idle"
      /\ req'[w].op = "Create" /\ req'[w].id = id /\ req'[w].pc = "register" /\ req'[w].todo = {}
      /\ \A u \in Threads : u # w => req'[u] = req[u]
  BY <1>0, <1>1, Served DEF Ops, Pcs
<1>4. row'[id] = Unpaired /\ \A i \in Ids : i # id => row'[i] = row[i]
  BY <1>0, <1>1 DEF TypeOK
<1>5. TypeOK'
  BY <1>0, <1>1, <1>2, <1>3 DEF TypeOK
<1>6. row[id] = NoRow /\ sess[id] = Absent /\ linked[id] = Unpaired
  BY <1>0, <1>1 DEF UnusedUntouched, UnusedOK
<1>7. \A t \in Threads : req[t].id # id
  BY <1>0, <1>1 DEF StepsOfOps, StepOK
<1>8. \A t \in Threads : t # w => req'[t].id # id
  BY <1>3, <1>7
<1>9. StepOK(w)'
  BY <1>0, <1>1, <1>2, <1>3 DEF StepOK, At
<1>10. CreatedOK(w)'
  BY <1>2, <1>3, <1>6, <1>8 DEF CreatedOK, At
<1>11. UnusedOK(id)' /\ LinkedOK(id)'
  BY <1>1, <1>2, <1>6 DEF UnusedOK, LinkedOK
<1>12. ClientOK(id)'
  BY <1>2, <1>6 DEF ClientOK, Absent
<1>13. Held(id)' \subseteq Held(id)
  BY <1>2, <1>4 DEF Held
<1>14. /\ \A i \in Ids : i # id => sess'[i] = sess[i] /\ row'[i] = row[i] /\ linked'[i] = linked[i]
       /\ used \subseteq used' /\ devices \ {sess[id].jid} \subseteq devices'
  BY <1>1, <1>2, <1>4
<1>15. \A v \in Workers : req'[v].id = id /\ req'[v].pc # "register" => Known(id)'
  BY <1>3, <1>8 DEF Threads
<1>16. \A v \in Workers : v # w /\ req[v].pc = "register" => req[v].id # id
  BY <1>7 DEF Threads
<1> QED
  BY <1>2, <1>3, <1>5, <1>9, <1>10, <1>11, <1>12, <1>13, <1>14, <1>15, <1>16, WorkerStep

(* Create: the session enters the map before anybody else can name it. *)
LEMMA CreateRegisterStep ==
    ASSUME IndInv, NEW w \in Workers, CreateRegister(w)
    PROVE  IndInv'
<1> USE NilAssumption, EnvAssumption
<1>1. req[w].pc = "register" /\ req' = [req EXCEPT ![w].pc = "env"]
  BY DEF CreateRegister, At, Goto
<1>2. UNCHANGED <<row, name, devices, cfg, rec, used, proc, pairings, linked>>
  BY DEF CreateRegister, db, counters
<1>3. /\ TypeOK /\ w \in Threads /\ w # Main /\ proc = "serving"
      /\ req[w].id \in Ids /\ req[w].id \in used /\ StepOK(w) /\ CreatedOK(w)
      /\ \A v \in Workers : v # w /\ req[v].pc = "register" => req[v].id # req[w].id
  BY <1>1, AtWork
<1>4. PICK id \in Ids : id = req[w].id
  BY <1>3
<1>5. /\ req' \in [Threads -> Request]
      /\ req'[w].op = "Create" /\ req'[w].id = id /\ req'[w].todo = req[w].todo /\ req'[w].pc = "env"
      /\ \A u \in Threads : u # w => req'[u] = req[u]
  <2>1. "env" \in Pcs /\ req[w].op = "Create"
    BY <1>1, <1>3 DEF Pcs, StepOK, At
  <2> QED
    BY <1>1, <1>3, <1>4, <2>1, Moved
<1>6. /\ sess' \in [Ids -> SessionObj] /\ sess'[id] = newSession(Unpaired)
      /\ \A i \in Ids : i # id => sess'[i] = sess[i]
  <2>1. sess' = [sess EXCEPT ![id] = newSession(Unpaired)]
    BY <1>4 DEF CreateRegister
  <2> QED
    BY <1>3, <2>1, SessionRecords, SessUpdate
<1>7. sess'[id].reg /\ sess'[id].jid = Unpaired /\ sess'[id].conn = "new" /\ sess'[id].writes = {}
  BY <1>6 DEF newSession, Absent
<1>8. linked[id] = Unpaired
  BY <1>1, <1>3, <1>4 DEF CreatedOK, At
<1>9. TypeOK'
  BY <1>2, <1>3, <1>5, <1>6 DEF TypeOK
<1>10. StepOK(w)' /\ CreatedOK(w)'
  BY <1>1, <1>2, <1>3, <1>4, <1>5 DEF StepOK, CreatedOK, At
<1>11. UnusedOK(id)' /\ LinkedOK(id)'
  BY <1>2, <1>3, <1>4, <1>8 DEF UnusedOK, LinkedOK
<1>12. Known(id)' /\ ClientOK(id)'
  BY <1>7 DEF Known, ClientOK
<1>13. Held(id)' \subseteq Held(id)
  BY <1>2, <1>7 DEF Held
<1> QED
  BY <1>2, <1>3, <1>4, <1>5, <1>6, <1>9, <1>10, <1>11, <1>12, <1>13, WorkerStep

(* Pairing begins, or is refused by GetQRChannel. *)
LEMMA PairStartStep ==
    ASSUME IndInv, NEW w \in Workers, PairStart(w)
    PROVE  IndInv'
<1> USE NilAssumption, EnvAssumption
<1>1. req[w].pc = "pair" /\ req' = [req EXCEPT ![w] = Idle]
  BY DEF PairStart, At, Done
<1>2. UNCHANGED <<row, name, devices, cfg, rec, used, proc, pairings, linked>>
  BY DEF PairStart, db, counters
<1>3. /\ TypeOK /\ w \in Threads /\ w # Main /\ proc = "serving"
      /\ req[w].id \in Ids /\ req[w].id \in used /\ Known(req[w].id)
      /\ \A v \in Workers : v # w /\ req[v].pc = "register" => req[v].id # req[w].id
  BY <1>1, AtWork
<1>4. PICK id \in Ids : id = req[w].id
  BY <1>3
<1>5. /\ req' \in [Threads -> Request]
      /\ req'[w].op = "idle" /\ req'[w].id = NoId /\ req'[w].todo = {} /\ req'[w].pc = ""
      /\ \A u \in Threads : u # w => req'[u] = req[u]
  BY <1>1, <1>3, Finished
<1>6. StepOK(w)' /\ CreatedOK(w)'
  BY <1>3, <1>5, FinishedOK
<1>7. CASE UNCHANGED sess
  <2>1. TypeOK'
    BY <1>2, <1>3, <1>5, <1>7 DEF TypeOK
  <2> QED
    BY <1>1, <1>2, <1>3, <1>4, <1>5, <1>6, <1>7, <2>1, RequestStep
<1>8. CASE /\ sess[id].conn = "new" /\ sess[id].jid = Unpaired
           /\ sess' = [sess EXCEPT ![id] = startPairing(sess[id])]
  <2>1. /\ sess' \in [Ids -> SessionObj] /\ sess'[id] = [sess[id] EXCEPT !.conn = "pairing"]
        /\ \A i \in Ids : i # id => sess'[i] = sess[i]
    <3>1. [sess[id] EXCEPT !.conn = "pairing"] \in SessionObj
      BY <1>3, FieldTypes, SessionRecords DEF Conns
    <3> QED
      BY <1>3, <1>8, <3>1, SessUpdate DEF startPairing
  <2>2. /\ sess'[id].reg = sess[id].reg /\ sess'[id].jid = Unpaired /\ sess'[id].writes = sess[id].writes
    BY <1>3, <1>8, <2>1, FieldTypes DEF SessionObj
  <2>3. TypeOK'
    BY <1>2, <1>3, <1>5, <2>1 DEF TypeOK
  <2>4. Deleting(id) => Deleting(id)'
    BY <1>1, <1>3, <1>5 DEF Deleting, Threads
  <2>5. Known(id)'
    BY <1>2, <1>3, <1>4, <2>2, <2>4 DEF Known
  <2>6. ClientOK(id)' /\ UnusedOK(id)'
    BY <1>2, <1>3, <1>4, <2>2, <2>5 DEF ClientOK, UnusedOK
  <2>7. LinkedOK(id) /\ linked[id] = Unpaired
    BY <1>3, <1>8 DEF IndInv, LinkedSound, LinkedOK
  <2>8. LinkedOK(id)'
    BY <1>2, <2>7 DEF LinkedOK
  <2>9. Held(id)' \subseteq Held(id)
    BY <1>2, <1>8, <2>2 DEF Held
  <2> QED
    BY <1>2, <1>3, <1>4, <1>5, <1>6, <2>1, <2>3, <2>5, <2>6, <2>8, <2>9, WorkerStep
<1> QED
  BY <1>4, <1>7, <1>8 DEF PairStart

(* client.Logout of a Logout or a Delete: of all devices only the session's own may go. *)
LEMMA ClientLogoutStep ==
    ASSUME IndInv, NEW w \in Workers, ClientLogout(w)
    PROVE  IndInv'
<1> USE NilAssumption, EnvAssumption
<1>1. PICK to \in Pcs : /\ to = IF req[w].op = "Delete" THEN "unregister" ELSE "replace"
                       /\ req[w].pc = "logout" /\ req' = [req EXCEPT ![w].pc = to]
  BY DEF ClientLogout, At, Goto, Pcs
<1>2. UNCHANGED <<row, name, cfg, rec, used, proc, pairings, linked>>
  BY DEF ClientLogout, counters
<1>3. /\ TypeOK /\ w \in Threads /\ w # Main /\ proc = "serving"
      /\ req[w].id \in Ids /\ req[w].id \in used /\ StepOK(w) /\ Known(req[w].id)
      /\ req[w].op \notin Harmless => linked[req[w].id] = Unpaired
      /\ \A v \in Workers : v # w /\ req[v].pc = "register" => req[v].id # req[w].id
  BY <1>1, AtWork
<1>4. PICK id \in Ids : id = req[w].id
  BY <1>3
<1>5. req[w].op \in {"Logout", "Delete"} /\ linked[id] = Unpaired
  BY <1>1, <1>3, <1>4 DEF StepOK, At, Harmless
<1>6. /\ req' \in [Threads -> Request]
      /\ req'[w].op = req[w].op /\ req'[w].id = id /\ req'[w].todo = req[w].todo /\ req'[w].pc = to
      /\ \A u \in Threads : u # w => req'[u] = req[u]
  <2>1. req' = [req EXCEPT ![w].pc = to] /\ TypeOK /\ w \in Threads
    BY <1>1, <1>3
  <2>2. /\ req' \in [Threads -> Request]
        /\ req'[w].op = req[w].op /\ req'[w].id = req[w].id /\ req'[w].todo = req[w].todo
        /\ req'[w].pc = to
        /\ \A u \in Threads : u # w => req'[u] = req[u]
    BY <2>1, Moved
  <2> QED
    BY <1>4, <2>2
<1>7. /\ sess' \in [Ids -> SessionObj] /\ \A i \in Ids : i # id => sess'[i] = sess[i]
      /\ sess'[id].reg = sess[id].reg /\ sess'[id].writes = sess[id].writes
      /\ sess'[id].jid \in {sess[id].jid, Unpaired}
      /\ sess'[id].conn \in {sess[id].conn, "off"}
      /\ devices' \in {devices, devices \ {sess[id].jid}}
      /\ sess'[id].jid = Unpaired \/ devices' = devices \/ req[w].op = "Delete"
  <2>1. sess[id] \in SessionObj /\ sess \in [Ids -> SessionObj]
    BY <1>3, FieldTypes DEF TypeOK
  <2>2. CASE /\ devices' = devices \ {sess[id].jid}
             /\ sess' = [sess EXCEPT ![id] = [sess[id] EXCEPT !.jid = Unpaired, !.conn = "off"]]
    <3>1. [sess[id] EXCEPT !.jid = Unpaired, !.conn = "off"] \in SessionObj
      BY <2>1, SessionRecords DEF Conns
    <3>2. /\ sess' \in [Ids -> SessionObj] /\ \A i \in Ids : i # id => sess'[i] = sess[i]
          /\ sess'[id] = [sess[id] EXCEPT !.jid = Unpaired, !.conn = "off"]
      BY <1>3, <2>2, <3>1, SessUpdate
    <3> QED
      BY <2>1, <2>2, <3>2 DEF SessionObj
  <2>3. CASE /\ sess' = sess
             /\ devices' = IF req[w].op = "Delete" THEN devices \ {sess[id].jid} ELSE devices
    BY <2>1, <2>3
  <2>4. CASE devices' = devices /\ sess' = [sess EXCEPT ![id].conn = "off"]
    <3>1. [sess[id] EXCEPT !.conn = "off"] \in SessionObj
      BY <2>1, SessionRecords DEF Conns
    <3>2. /\ sess' \in [Ids -> SessionObj] /\ \A i \in Ids : i # id => sess'[i] = sess[i]
          /\ sess'[id] = [sess[id] EXCEPT !.conn = "off"]
      BY <1>3, <2>4, <3>1, SessUpdate
    <3> QED
      BY <2>1, <2>4, <3>2 DEF SessionObj
  <2>5. CASE devices' = devices /\ sess' = sess
    BY <2>1, <2>5
  <2> QED
    BY <1>4, <2>2, <2>3, <2>4, <2>5 DEF ClientLogout
<1>8. TypeOK'
  BY <1>2, <1>3, <1>6, <1>7 DEF TypeOK
<1>9. StepOK(w)' /\ CreatedOK(w)'
  BY <1>1, <1>2, <1>3, <1>4, <1>5, <1>6 DEF StepOK, CreatedOK, At
<1>10. Deleting(id) \/ req[w].op = "Delete" => Deleting(id)'
  BY <1>1, <1>3, <1>6 DEF Deleting, Threads
<1>11. Known(id)'
  BY <1>2, <1>3, <1>4, <1>7, <1>10 DEF Known
<1>12. ClientOK(id)'
  <2>1. ClientOK(id)
    BY DEF IndInv, ClientsKnown
  <2> QED
    BY <1>2, <1>7, <1>10, <1>11, <2>1 DEF ClientOK
<1>13. UnusedOK(id)' /\ LinkedOK(id)'
  BY <1>2, <1>3, <1>4, <1>5 DEF UnusedOK, LinkedOK
<1>14. Held(id)' \subseteq Held(id)
  BY <1>2, <1>7 DEF Held
<1>15. devices \ {sess[id].jid} \subseteq devices'
  BY <1>7
<1> QED
  BY <1>2, <1>3, <1>4, <1>6, <1>7, <1>8, <1>9, <1>11, <1>12, <1>13, <1>14, <1>15, WorkerStep

(* The session leaves the map; its Delete is on its way to the row. *)
LEMMA UnregisterStep ==
    ASSUME IndInv, NEW w \in Workers, Unregister(w)
    PROVE  IndInv'
<1> USE NilAssumption, EnvAssumption
<1>1. req[w].pc = "unregister" /\ req' = [req EXCEPT ![w].pc = "rows"]
  BY DEF Unregister, At, Goto
<1>2. UNCHANGED <<row, name, devices, cfg, rec, used, proc, pairings, linked>>
  BY DEF Unregister, db, counters
<1>3. /\ TypeOK /\ w \in Threads /\ w # Main /\ proc = "serving"
      /\ req[w].id \in Ids /\ req[w].id \in used /\ StepOK(w)
      /\ req[w].op \notin Harmless => linked[req[w].id] = Unpaired
      /\ \A v \in Workers : v # w /\ req[v].pc = "register" => req[v].id # req[w].id
  BY <1>1, AtWork
<1>4. PICK id \in Ids : id = req[w].id
  BY <1>3
<1>5. req[w].op = "Delete" /\ linked[id] = Unpaired
  BY <1>1, <1>3, <1>4 DEF StepOK, At, Harmless
<1>6. /\ req' \in [Threads -> Request]
      /\ req'[w].op = "Delete" /\ req'[w].id = id /\ req'[w].todo = req[w].todo /\ req'[w].pc = "rows"
      /\ \A u \in Threads : u # w => req'[u] = req[u]
  <2>1. "rows" \in Pcs
    BY DEF Pcs
  <2> QED
    BY <1>1, <1>3, <1>4, <1>5, <2>1, Moved
<1>7. /\ sess' \in [Ids -> SessionObj] /\ sess'[id] = [sess[id] EXCEPT !.reg = FALSE]
      /\ \A i \in Ids : i # id => sess'[i] = sess[i]
  <2>1. [sess[id] EXCEPT !.reg = FALSE] \in SessionObj
    BY <1>3, FieldTypes, SessionRecords
  <2>2. sess' = [sess EXCEPT ![id] = [sess[id] EXCEPT !.reg = FALSE]]
    BY <1>4 DEF Unregister
  <2> QED
    BY <1>3, <2>1, <2>2, SessUpdate
<1>8. sess'[id].jid = sess[id].jid /\ sess'[id].conn = sess[id].conn /\ sess'[id].writes = sess[id].writes
  BY <1>3, <1>7, FieldTypes DEF SessionObj
<1>9. TypeOK'
  BY <1>2, <1>3, <1>6, <1>7 DEF TypeOK
<1>10. StepOK(w)' /\ CreatedOK(w)'
  BY <1>1, <1>2, <1>3, <1>4, <1>5, <1>6 DEF StepOK, CreatedOK, At
<1>11. Deleting(id)' /\ Known(id)'
  BY <1>6 DEF Deleting, Known
<1>12. ClientOK(id)'
  <2>1. ClientOK(id)
    BY DEF IndInv, ClientsKnown
  <2> QED
    BY <1>8, <1>11, <2>1 DEF ClientOK
<1>13. UnusedOK(id)' /\ LinkedOK(id)'
  BY <1>2, <1>3, <1>4, <1>5 DEF UnusedOK, LinkedOK
<1>14. Held(id)' \subseteq Held(id)
  BY <1>2, <1>8 DEF Held
<1> QED
  BY <1>2, <1>3, <1>4, <1>6, <1>7, <1>9, <1>10, <1>11, <1>12, <1>13, <1>14, WorkerStep

(* A fresh client takes the place of the old one. *)
LEMMA ReplaceClientStep ==
    ASSUME IndInv, NEW w \in Workers, ReplaceClient(w)
    PROVE  IndInv'
<1> USE NilAssumption, EnvAssumption
<1>1. PICK to \in Pcs : /\ to = IF req[w].op = "Pair" THEN "pair" ELSE "setjid"
                       /\ req[w].pc = "replace" /\ req' = [req EXCEPT ![w].pc = to]
  BY DEF ReplaceClient, At, Goto, Pcs
<1>2. UNCHANGED <<row, name, devices, cfg, rec, used, proc, pairings, linked>>
  BY DEF ReplaceClient, db, counters
<1>3. /\ TypeOK /\ w \in Threads /\ w # Main /\ proc = "serving"
      /\ req[w].id \in Ids /\ req[w].id \in used /\ StepOK(w) /\ Known(req[w].id)
      /\ req[w].op \notin Harmless => linked[req[w].id] = Unpaired
      /\ \A v \in Workers : v # w /\ req[v].pc = "register" => req[v].id # req[w].id
  BY <1>1, AtWork
<1>4. PICK id \in Ids : id = req[w].id
  BY <1>3
<1>5. req[w].op \in {"Pair", "Logout"} /\ linked[id] = Unpaired
  BY <1>1, <1>3, <1>4 DEF StepOK, At, Harmless
<1>6. /\ req' \in [Threads -> Request]
      /\ req'[w].op = req[w].op /\ req'[w].id = id /\ req'[w].todo = req[w].todo /\ req'[w].pc = to
      /\ \A u \in Threads : u # w => req'[u] = req[u]
  <2>1. req' = [req EXCEPT ![w].pc = to] /\ TypeOK /\ w \in Threads
    BY <1>1, <1>3
  <2>2. /\ req' \in [Threads -> Request]
        /\ req'[w].op = req[w].op /\ req'[w].id = req[w].id /\ req'[w].todo = req[w].todo
        /\ req'[w].pc = to
        /\ \A u \in Threads : u # w => req'[u] = req[u]
    BY <2>1, Moved
  <2> QED
    BY <1>4, <2>2
<1>7. /\ sess' \in [Ids -> SessionObj] /\ sess'[id] = [sess[id] EXCEPT !.jid = Unpaired, !.conn = "new"]
      /\ \A i \in Ids : i # id => sess'[i] = sess[i]
  <2>1. [sess[id] EXCEPT !.jid = Unpaired, !.conn = "new"] \in SessionObj
    BY <1>3, FieldTypes, SessionRecords DEF Conns
  <2>2. sess' = [sess EXCEPT ![id] = [sess[id] EXCEPT !.jid = Unpaired, !.conn = "new"]]
    BY <1>4 DEF ReplaceClient, replaceClient
  <2> QED
    BY <1>3, <2>1, <2>2, SessUpdate
<1>8. /\ sess'[id].jid = Unpaired /\ sess'[id].conn = "new" /\ sess'[id].reg = sess[id].reg
      /\ sess'[id].writes = sess[id].writes
  BY <1>3, <1>7, FieldTypes DEF SessionObj
<1>9. TypeOK'
  BY <1>2, <1>3, <1>6, <1>7 DEF TypeOK
<1>10. StepOK(w)' /\ CreatedOK(w)'
  BY <1>1, <1>2, <1>3, <1>4, <1>5, <1>6 DEF StepOK, CreatedOK, At
<1>11. Deleting(id) => Deleting(id)'
  BY <1>1, <1>6 DEF Deleting, Threads
<1>12. Known(id)' /\ ClientOK(id)'
  BY <1>2, <1>3, <1>4, <1>8, <1>11 DEF Known, ClientOK
<1>13. UnusedOK(id)' /\ LinkedOK(id)'
  BY <1>2, <1>3, <1>4, <1>5 DEF UnusedOK, LinkedOK
<1>14. Held(id)' \subseteq Held(id)
  BY <1>2, <1>8 DEF Held
<1> QED
  BY <1>2, <1>3, <1>4, <1>6, <1>7, <1>9, <1>10, <1>12, <1>13, <1>14, WorkerStep

(* Logout forgets the JID of the row. *)
LEMMA LogoutDoneStep ==
    ASSUME IndInv, NEW w \in Workers, LogoutDone(w)
    PROVE  IndInv'
<1> USE NilAssumption, EnvAssumption
<1>1. req[w].pc = "setjid" /\ req' = [req EXCEPT ![w] = Idle]
  BY DEF LogoutDone, At, Done
<1>2. UNCHANGED <<name, devices, cfg, rec, used, sess, proc, pairings, linked>>
  BY DEF LogoutDone, counters
<1>3. /\ TypeOK /\ w \in Threads /\ w # Main /\ proc = "serving"
      /\ req[w].id \in Ids /\ req[w].id \in used /\ StepOK(w) /\ Known(req[w].id)
      /\ req[w].op \notin Harmless => linked[req[w].id] = Unpaired
      /\ \A v \in Workers : v # w /\ req[v].pc = "register" => req[v].id # req[w].id
  BY <1>1, AtWork
<1>4. PICK id \in Ids : id = req[w].id
  BY <1>3
<1>5. linked[id] = Unpaired
  BY <1>1, <1>3, <1>4 DEF StepOK, At, Harmless
<1>6. /\ req' \in [Threads -> Request]
      /\ req'[w].op = "idle" /\ req'[w].id = NoId /\ req'[w].todo = {} /\ req'[w].pc = ""
      /\ \A u \in Threads : u # w => req'[u] = req[u]
  BY <1>1, <1>3, Finished
<1>7. /\ row' \in [Ids -> Jids \cup {NoRow, Unpaired}] /\ \A i \in Ids : i # id => row'[i] = row[i]
      /\ row'[id] = IF row[id] = NoRow THEN NoRow ELSE Unpaired
  BY <1>3, <1>4 DEF LogoutDone, setJID, TypeOK
<1>8. TypeOK'
  BY <1>2, <1>3, <1>6, <1>7 DEF TypeOK
<1>9. StepOK(w)' /\ CreatedOK(w)'
  BY <1>3, <1>6, FinishedOK
<1>10. Deleting(id) => Deleting(id)'
  BY <1>1, <1>6 DEF Deleting, Threads
<1>11. Known(id)'
  BY <1>2, <1>3, <1>4, <1>7, <1>10 DEF Known
<1>12. ClientOK(id)'
  <2>1. ClientOK(id)
    BY DEF IndInv, ClientsKnown
  <2> QED
    BY <1>2, <1>7, <1>10, <1>11, <2>1 DEF ClientOK
<1>13. UnusedOK(id)' /\ LinkedOK(id)'
  BY <1>2, <1>3, <1>4, <1>5 DEF UnusedOK, LinkedOK
<1>14. Held(id)' \subseteq Held(id)
  BY <1>2, <1>7 DEF Held
<1>15. \A i \in Ids : i # id => sess'[i] = sess[i] /\ row'[i] = row[i] /\ linked'[i] = linked[i]
  BY <1>2, <1>7
<1> QED
  BY <1>2, <1>3, <1>4, <1>6, <1>8, <1>9, <1>11, <1>12, <1>13, <1>14, <1>15, WorkerStep

(* delete, statement by statement, for a Delete request. *)
LEMMA DeleteRowsStep ==
    ASSUME IndInv, NEW w \in Workers, deleteRows(w)
    PROVE  IndInv'
<1> USE NilAssumption, EnvAssumption
<1>1. req[w].pc \in {"rows", "configs", "recording"}
  BY DEF deleteRows, At
<1>2. UNCHANGED <<used, name, devices, sess, proc, pairings, linked>>
  BY DEF deleteRows, counters
<1>3. /\ TypeOK /\ w \in Threads /\ w # Main /\ proc = "serving"
      /\ req[w].id \in Ids /\ req[w].id \in used /\ StepOK(w) /\ Known(req[w].id)
      /\ req[w].op \notin Harmless => linked[req[w].id] = Unpaired
      /\ \A v \in Workers : v # w /\ req[v].pc = "register" => req[v].id # req[w].id
  BY <1>1, AtWork
<1>4. PICK id \in Ids : id = req[w].id
  BY <1>3
<1>5. req[w].op = "Delete" /\ linked[id] = Unpaired
  BY <1>1, <1>3, <1>4 DEF StepOK, At, Harmless
<1>6. CASE req[w].pc = "rows"
  <2>1. /\ req' = [req EXCEPT ![w].pc = "configs"] /\ row' = [row EXCEPT ![id] = NoRow]
        /\ UNCHANGED <<cfg, rec>>
    BY <1>4, <1>6 DEF deleteRows, At, Goto
  <2>2. /\ req' \in [Threads -> Request]
        /\ req'[w].op = "Delete" /\ req'[w].id = id /\ req'[w].todo = req[w].todo /\ req'[w].pc = "configs"
        /\ \A u \in Threads : u # w => req'[u] = req[u]
    <3>1. "configs" \in Pcs
      BY DEF Pcs
    <3> QED
      BY <1>3, <1>4, <1>5, <2>1, <3>1, Moved
  <2>3. /\ row' \in [Ids -> Jids \cup {NoRow, Unpaired}] /\ row'[id] = NoRow
        /\ \A i \in Ids : i # id => row'[i] = row[i]
    BY <1>3, <2>1 DEF TypeOK
  <2>4. TypeOK'
    BY <1>2, <1>3, <2>1, <2>2, <2>3 DEF TypeOK
  <2>5. StepOK(w)' /\ CreatedOK(w)'
    BY <1>2, <1>3, <1>4, <1>5, <1>6, <2>2 DEF StepOK, CreatedOK, At
  <2>6. Known(id)'
    BY <2>3 DEF Known
  <2>7. ClientOK(id)'
    <3>1. ClientOK(id)
      BY DEF IndInv, ClientsKnown
    <3> QED
      BY <1>2, <2>3, <2>6, <3>1 DEF ClientOK
  <2>8. UnusedOK(id)' /\ LinkedOK(id)'
    BY <1>2, <1>3, <1>4, <1>5 DEF UnusedOK, LinkedOK
  <2>9. Held(id)' \subseteq Held(id)
    BY <1>2, <2>3 DEF Held
  <2>10. \A i \in Ids : i # id => sess'[i] = sess[i] /\ row'[i] = row[i] /\ linked'[i] = linked[i]
    BY <1>2, <2>3
  <2> QED
    BY <1>2, <1>3, <1>4, <2>2, <2>4, <2>5, <2>6, <2>7, <2>8, <2>9, <2>10, WorkerStep
<1>7. CASE req[w].pc = "configs"
  <2>1. req' = [req EXCEPT ![w].pc = "recording"] /\ UNCHANGED <<row, rec>> /\ cfg' = [cfg EXCEPT ![id] = NoCfg]
    BY <1>4, <1>7 DEF deleteRows, deleteChatwoot, At, Goto
  <2>2. /\ req' \in [Threads -> Request]
        /\ req'[w].op = "Delete" /\ req'[w].id = id /\ req'[w].todo = req[w].todo /\ req'[w].pc = "recording"
        /\ \A u \in Threads : u # w => req'[u] = req[u]
    <3>1. "recording" \in Pcs
      BY DEF Pcs
    <3> QED
      BY <1>3, <1>4, <1>5, <2>1, <3>1, Moved
  <2>3. TypeOK'
    BY <1>2, <1>3, <2>1, <2>2 DEF TypeOK
  <2>4. StepOK(w)'
    BY <1>2, <1>3, <1>4, <1>5, <1>7, <2>2 DEF StepOK, At
  <2> QED
    BY <1>2, <1>3, <1>4, <1>5, <1>7, <2>1, <2>2, <2>3, <2>4, RequestStep
<1>8. CASE req[w].pc = "recording"
  <2>1. req' = [req EXCEPT ![w] = Idle] /\ UNCHANGED <<row, cfg>> /\ rec' = [rec EXCEPT ![id] = FALSE]
    BY <1>3, <1>4, <1>8 DEF deleteRows, At
  <2>2. /\ req' \in [Threads -> Request]
        /\ req'[w].op = "idle" /\ req'[w].id = NoId /\ req'[w].todo = {} /\ req'[w].pc = ""
        /\ \A u \in Threads : u # w => req'[u] = req[u]
    BY <1>3, <2>1, Finished
  <2>3. TypeOK'
    BY <1>2, <1>3, <2>1, <2>2 DEF TypeOK
  <2>4. StepOK(w)'
    BY <1>3, <2>2, FinishedOK
  <2> QED
    BY <1>2, <1>3, <1>4, <1>5, <1>8, <2>1, <2>2, <2>3, <2>4, RequestStep
<1> QED
  BY <1>1, <1>6, <1>7, <1>8

(* What the four steps of the environment's settings do to a goroutine: its pc and its list. *)
EnvMove(t) ==
    /\ req' \in [Threads -> Request]
    /\ req'[t].op = req[t].op /\ req'[t].id = req[t].id /\ req'[t].todo \subseteq used
    /\ req'[t].pc \in {"envset", "rec", "recset"} \cup (IF t = Main THEN {} ELSE {"pair"})
    /\ req'[t].pc = "envset" /\ EnvCfg = NoCfg => req'[t].todo = {}
    /\ req'[t].pc = "recset" /\ EnvRec = NoCfg => req'[t].todo = {}
    /\ \A u \in Threads : u # t => req'[u] = req[u]

LEMMA EnvMoves ==
    ASSUME IndInv, NEW t \in Threads,
           \/ chatwootEnvTargets(t) \/ applyChatwootEnv(t) \/ recordingEnvTargets(t)
           \/ applyRecordingEnv(t) /\ ~(t = Main /\ req[t].todo = {})
    PROVE  /\ req[t].pc \in {"env", "envset", "rec", "recset"} /\ EnvMove(t) /\ TypeOK'
           /\ UNCHANGED <<row, sess, devices, linked, used, pairings, proc>>
<1> USE NilAssumption, EnvAssumption
<1>0. TypeOK /\ StepOK(t) /\ UnusedUntouched
  BY DEF IndInv, StepsOfOps
<1>1. req[t] \in Request /\ req[t].todo \subseteq Ids /\ req[t].todo \subseteq used
  BY <1>0, FieldTypes DEF StepOK
<1>2. Registered \subseteq used /\ Registered \subseteq Ids
  <2>1. \A id \in Ids : id \notin used => sess[id] = Absent
    BY <1>0 DEF UnusedUntouched, UnusedOK
  <2>2. Absent.reg = FALSE
    BY DEF Absent
  <2> QED
    BY <2>1, <2>2 DEF Registered
<1>3. ASSUME NEW pc \in Pcs, NEW s \in SUBSET Ids, s \subseteq used,
             req' = [req EXCEPT ![t].pc = pc, ![t].todo = s],
             pc \in {"envset", "rec", "recset"} \cup (IF t = Main THEN {} ELSE {"pair"}),
             pc = "envset" /\ EnvCfg = NoCfg => s = {}, pc = "recset" /\ EnvRec = NoCfg => s = {}
      PROVE  EnvMove(t)
  <2>1. [req[t] EXCEPT !.pc = pc, !.todo = s] \in Request
    BY <1>1, RequestRecords
  <2>2. req' = [req EXCEPT ![t] = [req[t] EXCEPT !.pc = pc, !.todo = s]]
    BY <1>0, <1>3 DEF TypeOK
  <2>3. /\ req' \in [Threads -> Request] /\ req'[t] = [req[t] EXCEPT !.pc = pc, !.todo = s]
        /\ \A u \in Threads : u # t => req'[u] = req[u]
    BY <1>0, <2>1, <2>2, ReqUpdate
  <2>4. req'[t].op = req[t].op /\ req'[t].id = req[t].id /\ req'[t].todo = s /\ req'[t].pc = pc
    BY <1>1, <2>3 DEF Request
  <2> QED
    BY <1>3, <2>3, <2>4 DEF EnvMove
<1>4. ASSUME NEW s \in SUBSET Ids, s \subseteq req[t].todo, req' = [req EXCEPT ![t].todo = s],
             req[t].pc \in {"envset", "recset"}
      PROVE  EnvMove(t)
  <2>1. [req[t] EXCEPT !.todo = s] \in Request
    BY <1>1, RequestRecords
  <2>2. req' = [req EXCEPT ![t] = [req[t] EXCEPT !.todo = s]]
    BY <1>0, <1>4 DEF TypeOK
  <2>3. /\ req' \in [Threads -> Request] /\ req'[t] = [req[t] EXCEPT !.todo = s]
        /\ \A u \in Threads : u # t => req'[u] = req[u]
    BY <1>0, <2>1, <2>2, ReqUpdate
  <2>4. req'[t].op = req[t].op /\ req'[t].id = req[t].id /\ req'[t].todo = s /\ req'[t].pc = req[t].pc
    BY <1>1, <2>3 DEF Request
  <2> QED
    BY <1>0, <1>1, <1>4, <2>3, <2>4 DEF EnvMove, StepOK, At
<1>5. CASE chatwootEnvTargets(t)
  <2>1. PICK s \in SUBSET Ids : /\ s \subseteq Registered /\ (EnvCfg = NoCfg => s = {})
                                /\ req' = [req EXCEPT ![t].pc = "envset", ![t].todo = s]
    <3> DEFINE targets == IF Cardinality(Registered) = 1 THEN Registered
                          ELSE {id \in Registered : name[id] = EnvName}
               list == IF EnvCfg = NoCfg THEN {} ELSE targets
    <3>1. req' = [req EXCEPT ![t].pc = "envset", ![t].todo = list]
      BY <1>5 DEF chatwootEnvTargets
    <3>2. list \subseteq Registered /\ (EnvCfg = NoCfg => list = {})
      OBVIOUS
    <3> HIDE DEF list
    <3> QED
      BY <1>2, <3>1, <3>2
  <2>2. EnvMove(t)
    BY <1>2, <1>3, <2>1 DEF Pcs
  <2> QED
    BY <1>0, <1>5, <2>2 DEF chatwootEnvTargets, EnvMove, TypeOK, At, db, counters
<1>6. CASE applyChatwootEnv(t)
  <2>1. EnvMove(t)
    <3>1. CASE req[t].todo = {} /\ Goto(t, "rec")
      <4>1. /\ req' \in [Threads -> Request]
            /\ req'[t].op = req[t].op /\ req'[t].id = req[t].id /\ req'[t].todo = req[t].todo
            /\ req'[t].pc = "rec"
            /\ \A u \in Threads : u # t => req'[u] = req[u]
        <5>1. "rec" \in Pcs
          BY DEF Pcs
        <5> QED
          BY <1>0, <3>1, <5>1, Moved DEF Goto
      <4> QED
        BY <3>1, <4>1 DEF EnvMove
    <3>2. CASE \E id \in req[t].todo : req' = [req EXCEPT ![t].todo = @ \ {id}]
      <4>1. PICK id \in req[t].todo : req' = [req EXCEPT ![t].todo = req[t].todo \ {id}]
        BY <1>0, <3>2 DEF TypeOK
      <4>2. req[t].todo \ {id} \in SUBSET Ids
        BY <1>1
      <4> QED
        BY <1>4, <1>6, <4>1, <4>2 DEF applyChatwootEnv, At
    <3> QED
      BY <1>6, <3>1, <3>2 DEF applyChatwootEnv
  <2>2. cfg' \in [Ids -> Cfgs \cup {NoCfg}]
    BY <1>0, <1>6 DEF applyChatwootEnv, TypeOK
  <2> QED
    BY <1>0, <1>6, <2>1, <2>2 DEF applyChatwootEnv, EnvMove, TypeOK, At, counters
<1>7. CASE recordingEnvTargets(t)
  <2>1. PICK s \in SUBSET Ids : /\ s \subseteq Registered /\ (EnvRec = NoCfg => s = {})
                                /\ req' = [req EXCEPT ![t].pc = "recset", ![t].todo = s]
    <3> DEFINE list == IF EnvRec = NoCfg THEN {} ELSE Registered
    <3>1. req' = [req EXCEPT ![t].pc = "recset", ![t].todo = list]
      BY <1>7 DEF recordingEnvTargets
    <3>2. list \subseteq Registered /\ (EnvRec = NoCfg => list = {})
      OBVIOUS
    <3> HIDE DEF list
    <3> QED
      BY <1>2, <3>1, <3>2
  <2>2. EnvMove(t)
    BY <1>2, <1>3, <2>1 DEF Pcs
  <2> QED
    BY <1>0, <1>7, <2>2 DEF recordingEnvTargets, EnvMove, TypeOK, At, db, counters
<1>8. CASE applyRecordingEnv(t) /\ ~(t = Main /\ req[t].todo = {})
  <2>1. EnvMove(t)
    <3>1. CASE t # Main /\ req[t].todo = {} /\ req' = [req EXCEPT ![t] = [@ EXCEPT !.pc = "pair"]]
      <4>1. /\ req' \in [Threads -> Request]
            /\ req'[t].op = req[t].op /\ req'[t].id = req[t].id /\ req'[t].todo = req[t].todo
            /\ req'[t].pc = "pair"
            /\ \A u \in Threads : u # t => req'[u] = req[u]
        <5>1. "pair" \in Pcs /\ req' = [req EXCEPT ![t].pc = "pair"]
          BY <3>1 DEF Pcs
        <5> QED
          BY <1>0, <5>1, Moved
      <4> QED
        BY <3>1, <4>1 DEF EnvMove
    <3>2. CASE \E id \in req[t].todo : req' = [req EXCEPT ![t].todo = @ \ {id}]
      <4>1. PICK id \in req[t].todo : req' = [req EXCEPT ![t].todo = req[t].todo \ {id}]
        BY <1>0, <3>2 DEF TypeOK
      <4>2. req[t].todo \ {id} \in SUBSET Ids
        BY <1>1
      <4> QED
        BY <1>4, <1>8, <4>1, <4>2 DEF applyRecordingEnv, At
    <3> QED
      BY <1>8, <3>1, <3>2 DEF applyRecordingEnv
  <2>2. rec' \in [Ids -> BOOLEAN]
    BY <1>0, <1>8 DEF applyRecordingEnv, TypeOK, StepOK, At
  <2> QED
    BY <1>0, <1>8, <2>1, <2>2 DEF applyRecordingEnv, EnvMove, TypeOK, At, counters
<1> QED
  BY <1>5, <1>6, <1>7, <1>8

(* The environment's settings, applied by a Create request or by the main goroutine. *)
LEMMA EnvStep ==
    ASSUME IndInv, NEW t \in Threads,
           \/ chatwootEnvTargets(t) \/ applyChatwootEnv(t) \/ recordingEnvTargets(t)
           \/ applyRecordingEnv(t) /\ ~(t = Main /\ req[t].todo = {})
    PROVE  IndInv'
<1> USE NilAssumption, EnvAssumption
<1>1. /\ req[t].pc \in {"env", "envset", "rec", "recset"} /\ EnvMove(t) /\ TypeOK'
      /\ UNCHANGED <<row, sess, devices, linked, used, pairings, proc>>
  BY EnvMoves
<1>2. TypeOK /\ StepOK(t) /\ LinkedSound /\ RestoreSound
  BY DEF IndInv, StepsOfOps
<1>3. StepOK(t)'
  BY <1>1, <1>2 DEF StepOK, EnvMove, At
<1>4. CASE t \in Workers
  <2>1. /\ proc = "serving" /\ req[t].id \in Ids /\ req[t].id \in used /\ Known(req[t].id)
        /\ req[t].op \notin Harmless => linked[req[t].id] = Unpaired
        /\ \A v \in Workers : v # t /\ req[v].pc = "register" => req[v].id # req[t].id
    BY <1>1, <1>4, AtWork
  <2>2. PICK id \in Ids : id = req[t].id
    BY <2>1
  <2>3. /\ req'[t].id = id /\ req'[t].pc # "register" /\ req[t].pc \notin {"unregister", "rows"}
        /\ \A u \in Threads : u # t => req'[u] = req[u]
        /\ req'[t].op \in Harmless \/ linked'[id] = Unpaired
    BY <1>1, <2>1, <2>2 DEF EnvMove
  <2> QED
    BY <1>1, <1>3, <1>4, <2>1, <2>2, <2>3, RequestStep
<1>5. CASE t = Main
  <2>1. proc = "starting"
    BY <1>1, <1>2, <1>5 DEF StepOK
  <2>2. \A w \in Workers : req'[w] = req[w]
    BY <1>1, <1>5 DEF EnvMove, Threads
  <2>3. \A i \in Ids : Ahead(i)' = Ahead(i)
    <3>1. /\ req[Main].pc \notin {"restore", "rows", "configs", "recording"}
          /\ req'[Main].pc \notin {"restore", "rows", "configs", "recording"}
      BY <1>1, <1>5 DEF EnvMove
    <3> QED
      BY <3>1 DEF Ahead
  <2>4. /\ req'[Main].id = req[Main].id /\ req'[Main].op = req[Main].op
        /\ req'[Main].pc \notin {"rows", "configs", "recording"}
    BY <1>1, <1>5 DEF EnvMove
  <2> QED
    BY <1>1, <1>3, <1>5, <2>1, <2>2, <2>3, <2>4, MainPasses
<1> QED
  BY <1>4, <1>5 DEF Threads

(* The last step of the start: everything is restored, and the process serves. *)
LEMMA ServingStep ==
    ASSUME IndInv, applyRecordingEnv(Main), req[Main].todo = {}
    PROVE  IndInv'
<1> USE NilAssumption, EnvAssumption
<1>0. /\ TypeOK /\ StepsOfOps /\ UnusedUntouched /\ CreatedUnseen /\ JidsDistinct
      /\ ClientsKnown /\ LinkedSound /\ RestoreSound
  BY DEF IndInv
<1>1. Main \in Threads /\ Threads = Workers \cup {Main}
  BY DEF Threads
<1>2. /\ req[Main].pc = "recset" /\ req' = [req EXCEPT ![Main] = Idle] /\ proc' = "serving"
      /\ UNCHANGED <<row, name, devices, cfg, rec, used, sess, pairings, linked>>
  BY DEF applyRecordingEnv, At, counters
<1>3. proc = "starting" /\ \A w \in Workers : req[w].pc = "" /\ req[w].id \notin Ids
  BY <1>0, <1>1, <1>2 DEF StepsOfOps, StepOK
<1>4. /\ req' \in [Threads -> Request]
      /\ req'[Main].op = "idle" /\ req'[Main].id = NoId /\ req'[Main].todo = {} /\ req'[Main].pc = ""
      /\ \A u \in Threads : u # Main => req'[u] = req[u]
  BY <1>0, <1>1, <1>2, Finished
<1>5. TypeOK'
  BY <1>0, <1>2, <1>4 DEF TypeOK
<1>6. StepsOfOps'
  <2>1. StepOK(Main)'
    BY <1>2, <1>4 DEF StepOK, At
  <2>2. ASSUME NEW w \in Workers PROVE StepOK(w)'
    <3>1. StepOK(w) /\ req'[w] = req[w] /\ w # Main
      BY <1>0, <1>1, <1>4 DEF StepsOfOps
    <3> QED
      BY <1>2, <1>3, <3>1 DEF StepOK, At
  <2> QED
    BY <1>1, <2>1, <2>2 DEF StepsOfOps
<1>7. \A w \in Workers : req'[w] = req[w]
  BY <1>1, <1>4
<1>8. UnusedUntouched' /\ JidsDistinct'
  BY <1>0, <1>2 DEF UnusedUntouched, UnusedOK, JidsDistinct, Held
<1>9. CreatedUnseen'
  BY <1>3, <1>7 DEF CreatedUnseen, CreatedOK, At
<1>10. ClientsKnown'
  <2>1. \A i \in Ids : Deleting(i)' = Deleting(i)
    BY <1>7 DEF Deleting
  <2>2. \A w \in Workers : KnownOK(w)'
    BY <1>3, <1>7 DEF KnownOK
  <2> QED
    BY <1>0, <1>2, <2>1, <2>2 DEF ClientsKnown, ClientOK, Known
<1>11. LinkedSound'
  <2> SUFFICES ASSUME NEW i \in Ids PROVE LinkedOK(i)'
    BY DEF LinkedSound
  <2>1. LinkedOK(i) /\ ~Ahead(i)
    BY <1>0, <1>2 DEF LinkedSound, Ahead
  <2>2. \A t \in Threads : req'[t].id = i => req'[t] = req[t]
    BY <1>4
  <2> QED
    BY <1>2, <1>3, <2>1, <2>2 DEF LinkedOK
<1>12. RestoreSound'
  BY <1>2 DEF RestoreSound
<1> QED
  BY <1>5, <1>6, <1>8, <1>9, <1>10, <1>11, <1>12 DEF IndInv

(* The process starts: every row lies ahead. *)
LEMMA StartStep ==
    ASSUME IndInv, Start
    PROVE  IndInv'
<1> USE NilAssumption, EnvAssumption
<1>0. /\ TypeOK /\ StepsOfOps /\ UnusedUntouched /\ CreatedUnseen /\ JidsDistinct
      /\ ClientsKnown /\ LinkedSound /\ RestoreSound
  BY DEF IndInv
<1>1. Main \in Threads /\ Threads = Workers \cup {Main}
  BY DEF Threads
<1> DEFINE rows == {id \in Ids : row[id] # NoRow}
           r == [op |-> "Restore", id |-> NoId, pc |-> "restore", todo |-> rows]
<1>2. /\ proc = "down" /\ proc' = "starting" /\ req' = [req EXCEPT ![Main] = r]
      /\ UNCHANGED <<row, name, devices, cfg, rec, used, sess, pairings, linked>>
  BY DEF Start, db, counters
<1>3. /\ \A w \in Workers : req[w].pc = "" /\ req[w].id \notin Ids
      /\ \A id \in Ids : sess[id] = Absent
  BY <1>0, <1>1, <1>2 DEF StepsOfOps, StepOK, RestoreSound
<1>4. /\ req' \in [Threads -> Request] /\ req'[Main] = r
      /\ \A u \in Threads : u # Main => req'[u] = req[u]
  <2>1. r \in Request
    BY DEF Request, Ops, Pcs
  <2> HIDE DEF r
  <2> QED
    BY <1>0, <1>1, <1>2, <2>1, ReqUpdate
<1>5. /\ req'[Main].op = "Restore" /\ req'[Main].id = NoId /\ req'[Main].pc = "restore"
      /\ req'[Main].todo = rows
  BY <1>4
<1> HIDE DEF r
<1>6. TypeOK'
  BY <1>0, <1>2, <1>4 DEF TypeOK
<1>7. rows \subseteq used
  BY <1>0 DEF UnusedUntouched, UnusedOK
<1>8. StepsOfOps'
  <2>1. StepOK(Main)'
    BY <1>2, <1>5, <1>7 DEF StepOK, At
  <2>2. ASSUME NEW w \in Workers PROVE StepOK(w)'
    <3>1. StepOK(w) /\ req'[w] = req[w] /\ w # Main
      BY <1>0, <1>1, <1>4 DEF StepsOfOps
    <3> QED
      BY <1>2, <1>3, <3>1 DEF StepOK, At
  <2> QED
    BY <1>1, <2>1, <2>2 DEF StepsOfOps
<1>9. \A w \in Workers : req'[w] = req[w]
  BY <1>1, <1>4
<1>10. UnusedUntouched' /\ JidsDistinct'
  BY <1>0, <1>2 DEF UnusedUntouched, UnusedOK, JidsDistinct, Held
<1>11. CreatedUnseen'
  BY <1>3, <1>9 DEF CreatedUnseen, CreatedOK, At
<1>12. ClientsKnown'
  <2>1. \A i \in Ids : Deleting(i)' = Deleting(i)
    BY <1>9 DEF Deleting
  <2>2. \A w \in Workers : KnownOK(w)'
    BY <1>3, <1>9 DEF KnownOK
  <2> QED
    BY <1>0, <1>2, <2>1, <2>2 DEF ClientsKnown, ClientOK, Known
<1>13. ASSUME NEW i \in Ids PROVE Ahead(i)' = (row[i] # NoRow)
  BY <1>5 DEF Ahead
<1>14. LinkedSound'
  <2> SUFFICES ASSUME NEW i \in Ids PROVE LinkedOK(i)'
    BY DEF LinkedSound
  <2>1. LinkedOK(i) /\ linked[i] \in Jids \cup {Unpaired}
    BY <1>0 DEF LinkedSound, TypeOK
  <2>2. ASSUME NEW t \in Threads PROVE req'[t].id # i
    <3>1. CASE t = Main
      BY <1>5, <3>1
    <3>2. CASE t \in Workers
      BY <1>3, <1>9, <3>2
    <3> QED
      BY <1>1, <3>1, <3>2
  <2> QED
    BY <1>2, <1>13, <2>1, <2>2 DEF LinkedOK
<1>15. RestoreSound'
  <2>1. Absent.reg = FALSE
    BY DEF Absent
  <2>2. ASSUME NEW i \in Ids PROVE RowOK(i)'
    BY <1>2, <1>3, <1>13, <2>1 DEF RowOK
  <2> QED
    BY <1>2, <1>5, <2>2 DEF RestoreSound
<1> QED
  BY <1>6, <1>8, <1>10, <1>11, <1>12, <1>14, <1>15 DEF IndInv

(* A crash leaves the database. *)
LEMMA CrashStep ==
    ASSUME IndInv, Crash
    PROVE  IndInv'
<1> USE NilAssumption, EnvAssumption
<1>0. TypeOK /\ UnusedUntouched /\ JidsDistinct /\ LinkedSound
  BY DEF IndInv
<1>1. Main \in Threads /\ Workers \subseteq Threads
  BY DEF Threads
<1>2. /\ proc' = "down" /\ UNCHANGED <<row, name, devices, cfg, rec, used, pairings, linked>>
      /\ sess' = [id \in Ids |-> Absent] /\ req' = [t \in Threads |-> Idle]
  BY DEF Crash, db
<1>3. \A t \in Threads : req'[t].op = "idle" /\ req'[t].id = NoId /\ req'[t].todo = {} /\ req'[t].pc = ""
  BY <1>2 DEF Idle
<1>4. \A i \in Ids : /\ sess'[i] = Absent /\ ~sess'[i].reg /\ sess'[i].jid = Unpaired
                     /\ sess'[i].conn = "new" /\ sess'[i].writes = {}
  BY <1>2 DEF Absent
<1>5. TypeOK'
  BY <1>0, <1>2, RequestRecords, SessionRecords DEF TypeOK
<1>6. StepsOfOps'
  BY <1>2, <1>3 DEF StepsOfOps, StepOK, At
<1>7. UnusedUntouched'
  BY <1>0, <1>2, <1>4 DEF UnusedUntouched, UnusedOK
<1>8. CreatedUnseen'
  BY <1>1, <1>3 DEF CreatedUnseen, CreatedOK, At
<1>9. JidsDistinct'
  <2>1. \A i \in Ids : Held(i)' \subseteq Held(i)
    BY <1>2, <1>4 DEF Held
  <2> QED
    BY <1>0, <1>2, <2>1 DEF JidsDistinct
<1>10. ClientsKnown'
  BY <1>1, <1>3, <1>4 DEF ClientsKnown, ClientOK, KnownOK
<1>11. LinkedSound'
  <2> SUFFICES ASSUME NEW i \in Ids PROVE LinkedOK(i)'
    BY DEF LinkedSound
  <2>1. LinkedOK(i)
    BY <1>0 DEF LinkedSound
  <2>2. \A t \in Threads : req'[t].id # i
    BY <1>3
  <2> QED
    BY <1>2, <1>4, <2>1, <2>2 DEF LinkedOK
<1>12. RestoreSound'
  BY <1>2, <1>4 DEF RestoreSound
<1> QED
  BY <1>5, <1>6, <1>7, <1>8, <1>9, <1>10, <1>11, <1>12 DEF IndInv

(* The last row is done. *)
LEMMA RestoredStep ==
    ASSUME IndInv, Restored
    PROVE  IndInv'
<1> USE NilAssumption, EnvAssumption
<1>0. TypeOK /\ StepOK(Main) /\ Main \in Threads
  BY DEF IndInv, StepsOfOps, Threads
<1>1. /\ req[Main].pc = "restore" /\ req[Main].todo = {} /\ req' = [req EXCEPT ![Main].pc = "env"]
      /\ UNCHANGED <<row, name, devices, cfg, rec, used, sess, proc, pairings, linked>>
  BY DEF Restored, At, Goto, db, counters
<1>2. /\ req' \in [Threads -> Request]
      /\ req'[Main].op = req[Main].op /\ req'[Main].id = req[Main].id /\ req'[Main].todo = req[Main].todo
      /\ req'[Main].pc = "env"
      /\ \A u \in Threads : u # Main => req'[u] = req[u]
  <2>1. "env" \in Pcs
    BY DEF Pcs
  <2> QED
    BY <1>0, <1>1, <2>1, Moved
<1>3. TypeOK'
  BY <1>0, <1>1, <1>2 DEF TypeOK
<1>4. StepOK(Main)'
  BY <1>0, <1>1, <1>2 DEF StepOK, At
<1>5. proc = "starting"
  BY <1>0, <1>1 DEF StepOK
<1>6. \A i \in Ids : Ahead(i)' = Ahead(i)
  BY <1>1, <1>2 DEF Ahead
<1>7. \A w \in Workers : req'[w] = req[w]
  BY <1>2 DEF Threads
<1> QED
  BY <1>1, <1>2, <1>3, <1>4, <1>5, <1>6, <1>7, MainPasses

(* Restore looks at one row: it begins to drop it, or registers its session. *)
LEMMA RestoreRowStep ==
    ASSUME IndInv, RestoreRow
    PROVE  IndInv'
<1> USE NilAssumption, EnvAssumption
<1>0. TypeOK /\ StepOK(Main) /\ Main \in Threads /\ LinkedSound /\ RestoreSound /\ ClientsKnown
  BY DEF IndInv, StepsOfOps, Threads
<1>1. /\ req[Main].pc = "restore" /\ req[Main] \in Request
      /\ UNCHANGED <<row, name, devices, cfg, rec, used, proc, pairings>>
  BY <1>0, FieldTypes DEF RestoreRow, At, db, counters
<1>2. PICK id \in req[Main].todo :
        \/ /\ (row[id] \notin devices /\ UNCHANGED linked) \/ linked' = [linked EXCEPT ![id] = Unpaired]
           /\ req' = [req EXCEPT ![Main].pc = "rows", ![Main].id = id] /\ UNCHANGED sess
        \/ /\ row[id] \in devices /\ UNCHANGED linked
           /\ req' = [req EXCEPT ![Main].todo = @ \ {id}]
           /\ \E conn \in {"linking", "new"} :
                sess' = [sess EXCEPT ![id] = [newSession(row[id]) EXCEPT !.conn = conn]]
  BY DEF RestoreRow
<1>3. /\ id \in Ids /\ id \in used /\ proc = "starting" /\ req[Main].op = "Restore"
      /\ req[Main].todo \subseteq Ids /\ req[Main].todo \subseteq used
  BY <1>0, <1>1, FieldTypes DEF StepOK, At
<1>4. /\ Ahead(id) /\ RowOK(id) /\ LinkedOK(id) /\ ClientOK(id)
      /\ row[id] \in Jids \cup {NoRow, Unpaired} /\ devices \subseteq Jids
  BY <1>0, <1>1, <1>3 DEF Ahead, RestoreSound, LinkedSound, ClientsKnown, TypeOK
<1>5. ~sess[id].reg /\ sess[id] = Absent /\ Absent.writes = {} /\ Absent.jid = Unpaired /\ Absent.conn = "new"
  BY <1>4 DEF RowOK, Absent
<1>6. req[Main].id = NoId /\ Threads = Workers \cup {Main}
  BY <1>0, <1>1 DEF StepOK, At, Threads
<1>7. CASE /\ (row[id] \notin devices /\ UNCHANGED linked) \/ linked' = [linked EXCEPT ![id] = Unpaired]
           /\ req' = [req EXCEPT ![Main].pc = "rows", ![Main].id = id] /\ UNCHANGED sess
  <2>1. /\ req' \in [Threads -> Request] /\ req'[Main] = [req[Main] EXCEPT !.pc = "rows", !.id = id]
        /\ \A u \in Threads : u # Main => req'[u] = req[u]
    <3>1. [req[Main] EXCEPT !.pc = "rows", !.id = id] \in Request
      BY <1>1, <1>3, RequestRecords DEF Pcs
    <3>2. req' = [req EXCEPT ![Main] = [req[Main] EXCEPT !.pc = "rows", !.id = id]]
      BY <1>0, <1>7 DEF TypeOK
    <3> QED
      BY <1>0, <3>1, <3>2, ReqUpdate
  <2>2. /\ req'[Main].pc = "rows" /\ req'[Main].id = id /\ req'[Main].op = "Restore"
        /\ req'[Main].todo = req[Main].todo
    BY <1>1, <1>3, <2>1 DEF Request
  <2>0. /\ linked' \in [Ids -> Jids \cup {Unpaired}] /\ linked'[id] = Unpaired
        /\ \A i \in Ids : i # id => linked'[i] = linked[i]
    BY <1>0, <1>3, <1>4, <1>7 DEF TypeOK, LinkedOK
  <2>3. TypeOK'
    BY <1>0, <1>1, <1>7, <2>0, <2>1 DEF TypeOK
  <2>4. StepOK(Main)'
    BY <1>1, <1>3, <2>2 DEF StepOK, At
  <2>5. \A i \in Ids : Ahead(i)' = Ahead(i)
    BY <1>1, <2>2 DEF Ahead
  <2>6. \A w \in Workers : req'[w] = req[w]
    BY <1>6, <2>1
  <2>7. UnusedOK(id)' /\ LinkedOK(id)' /\ RowOK(id)'
    BY <1>1, <1>3, <1>4, <1>7, <2>0, <2>5 DEF UnusedOK, LinkedOK, RowOK
  <2>8. ClientOK(id)'
    BY <1>5, <1>7 DEF ClientOK
  <2>9. Held(id)' \subseteq Held(id)
    BY <1>1, <1>7, <2>0, NilAssumption DEF Held
  <2> QED
    BY <1>1, <1>3, <1>4, <1>6, <1>7, <2>0, <2>2, <2>3, <2>4, <2>5, <2>6, <2>7, <2>8, <2>9, MainStep
<1>8. CASE /\ row[id] \in devices /\ UNCHANGED linked
           /\ req' = [req EXCEPT ![Main].todo = @ \ {id}]
           /\ \E conn \in {"linking", "new"} :
                sess' = [sess EXCEPT ![id] = [newSession(row[id]) EXCEPT !.conn = conn]]
  <2>1. /\ req' \in [Threads -> Request] /\ req'[Main] = [req[Main] EXCEPT !.todo = req[Main].todo \ {id}]
        /\ \A u \in Threads : u # Main => req'[u] = req[u]
    <3>1. [req[Main] EXCEPT !.todo = req[Main].todo \ {id}] \in Request
      <4>1. req[Main].todo \ {id} \in SUBSET Ids
        BY <1>3
      <4> QED
        BY <1>1, <4>1, RequestRecords
    <3>2. req' = [req EXCEPT ![Main] = [req[Main] EXCEPT !.todo = req[Main].todo \ {id}]]
      BY <1>0, <1>8 DEF TypeOK
    <3> QED
      BY <1>0, <3>1, <3>2, ReqUpdate
  <2>2. /\ req'[Main].pc = "restore" /\ req'[Main].id = NoId /\ req'[Main].op = "Restore"
        /\ req'[Main].todo = req[Main].todo \ {id}
    BY <1>1, <1>3, <1>6, <2>1 DEF Request
  <2>3. PICK conn \in {"linking", "new"} :
          sess' = [sess EXCEPT ![id] = [newSession(row[id]) EXCEPT !.conn = conn]]
    BY <1>8
  <2>4. /\ sess' \in [Ids -> SessionObj] /\ sess'[id] = [newSession(row[id]) EXCEPT !.conn = conn]
        /\ \A i \in Ids : i # id => sess'[i] = sess[i]
    <3>1. newSession(row[id]) \in SessionObj /\ conn \in Conns
      BY <1>4, <1>8, SessionRecords DEF Conns
    <3>2. [newSession(row[id]) EXCEPT !.conn = conn] \in SessionObj
      BY <3>1, SessionRecords
    <3> QED
      BY <1>0, <1>3, <2>3, <3>2, SessUpdate
  <2>5. /\ sess'[id].reg /\ sess'[id].jid = row[id] /\ sess'[id].conn \in {"linking", "new"}
        /\ sess'[id].writes = {}
    BY <2>4 DEF newSession, Absent
  <2>6. TypeOK'
    BY <1>0, <1>1, <1>8, <2>1, <2>4 DEF TypeOK
  <2>7. StepOK(Main)'
    BY <1>1, <1>3, <2>2 DEF StepOK, At
  <2>8. /\ \A i \in Ids : i # id => Ahead(i)' = Ahead(i)
        /\ ~Ahead(id)'
    BY <1>1, <2>2 DEF Ahead
  <2>9. \A w \in Workers : req'[w] = req[w]
    BY <1>6, <2>1
  <2>10. UnusedOK(id)' /\ RowOK(id)'
    BY <1>1, <1>3, <1>4, <1>8, <2>5, <2>8 DEF UnusedOK, RowOK
  <2>11. ClientOK(id)'
    BY <1>1, <1>8, <2>5 DEF ClientOK, Known
  <2>12. LinkedOK(id)'
    <3>1. \A t \in Threads : req'[t].id = id => req'[t] = req[t]
      BY <1>3, <2>1, <2>2
    <3> QED
      BY <1>1, <1>3, <1>4, <1>8, <2>5, <3>1 DEF LinkedOK
  <2>13. Held(id)' \subseteq Held(id)
    BY <1>1, <1>8, <2>5 DEF Held
  <2> QED
    BY <1>1, <1>3, <1>6, <1>8, <2>2, <2>4, <2>6, <2>7, <2>8, <2>9, <2>10, <2>11, <2>12, <2>13, MainStep
<1> QED
  BY <1>2, <1>7, <1>8

(* delete, statement by statement, for a row Restore drops. *)
LEMMA DropRowStep ==
    ASSUME IndInv, deleteRows(Main)
    PROVE  IndInv'
<1> USE NilAssumption, EnvAssumption
<1>0. TypeOK /\ StepOK(Main) /\ Main \in Threads /\ LinkedSound /\ RestoreSound /\ ClientsKnown
  BY DEF IndInv, StepsOfOps, Threads
<1>1. /\ req[Main].pc \in {"rows", "configs", "recording"} /\ req[Main] \in Request
      /\ UNCHANGED <<used, name, devices, sess, proc, pairings, linked>>
  BY <1>0, FieldTypes DEF deleteRows, At, counters
<1>2. /\ req[Main].id \in Ids /\ req[Main].id \in used /\ proc = "starting" /\ req[Main].op = "Restore"
      /\ req[Main].todo \subseteq Ids /\ req[Main].todo \subseteq used /\ Threads = Workers \cup {Main}
  BY <1>0, <1>1, FieldTypes DEF StepOK, At, Threads
<1>3. PICK id \in Ids : id = req[Main].id
  BY <1>2
<1>4. /\ Ahead(id) /\ RowOK(id) /\ ClientOK(id) /\ linked[id] = Unpaired
      /\ req[Main].pc \in {"configs", "recording"} => row[id] = NoRow
  <2>1. LinkedOK(id) /\ RowOK(id) /\ ClientOK(id)
    BY <1>0, <1>2 DEF LinkedSound, RestoreSound, ClientsKnown
  <2>2. linked[id] = Unpaired
    BY <1>0, <1>2, <1>3, <2>1 DEF LinkedOK, Harmless
  <2>3. Ahead(req[Main].id)
    BY <1>0, <1>1, <1>2 DEF RestoreSound
  <2> QED
    BY <1>0, <1>2, <1>3, <2>1, <2>2, <2>3 DEF RestoreSound
<1>5. ~sess[id].reg /\ sess[id] = Absent /\ Absent.jid = Unpaired /\ Absent.conn = "new"
  BY <1>4 DEF RowOK, Absent
<1>6. UnusedOK(id)' /\ ClientOK(id)' /\ LinkedOK(id)'
  BY <1>1, <1>2, <1>3, <1>4, <1>5 DEF UnusedOK, ClientOK, LinkedOK
<1>7. CASE req[Main].pc \in {"rows", "configs"}
  <2>1. PICK to \in Pcs : /\ to \in {"configs", "recording"} /\ req' = [req EXCEPT ![Main].pc = to]
    BY <1>7 DEF deleteRows, At, Goto, Pcs
  <2>2. /\ row' \in [Ids -> Jids \cup {NoRow, Unpaired}] /\ row'[id] = NoRow
        /\ \A i \in Ids : i # id => row'[i] = row[i]
        /\ cfg' \in [Ids -> Cfgs \cup {NoCfg}] /\ rec' = rec
    BY <1>0, <1>3, <1>4, <1>7 DEF deleteRows, deleteChatwoot, At, TypeOK
  <2>3. /\ req' \in [Threads -> Request]
        /\ req'[Main].op = req[Main].op /\ req'[Main].id = req[Main].id
        /\ req'[Main].todo = req[Main].todo /\ req'[Main].pc = to
        /\ \A u \in Threads : u # Main => req'[u] = req[u]
    BY <1>0, <2>1, Moved
  <2>4. TypeOK'
    BY <1>0, <1>1, <2>2, <2>3 DEF TypeOK
  <2>5. StepOK(Main)'
    <3>1. /\ req'[Main].op = "Restore" /\ req'[Main].id \in used' /\ req'[Main].todo \subseteq used'
          /\ req'[Main].id \in Ids /\ req'[Main].pc \in {"configs", "recording"} /\ proc' = "starting"
      BY <1>1, <1>2, <2>1, <2>3
    <3> QED
      BY <3>1 DEF StepOK, At
  <2>6. \A i \in Ids : Ahead(i)' = Ahead(i)
    BY <1>1, <2>1, <2>3 DEF Ahead
  <2>7. \A w \in Workers : req'[w] = req[w]
    BY <1>2, <2>3
  <2>8. RowOK(id)' /\ Held(id)' \subseteq Held(id)
    BY <1>1, <1>5, <2>2 DEF RowOK, Held
  <2> QED
    BY <1>1, <1>2, <1>3, <1>4, <1>6, <2>1, <2>2, <2>3, <2>4, <2>5, <2>6, <2>7, <2>8, MainStep
<1>8. CASE req[Main].pc = "recording"
  <2> DEFINE r == [req[Main] EXCEPT !.pc = "restore", !.id = NoId, !.todo = req[Main].todo \ {id}]
  <2>1. /\ UNCHANGED <<row, cfg>> /\ rec' = [rec EXCEPT ![id] = FALSE]
        /\ req' = [req EXCEPT ![Main].pc = "restore", ![Main].id = NoId,
                              ![Main].todo = @ \ {req[Main].id}]
    BY <1>3, <1>8 DEF deleteRows, At
  <2>2. req' \in [Threads -> Request] /\ req'[Main] = r /\ \A u \in Threads : u # Main => req'[u] = req[u]
    <3>1. r \in Request
      <4>1. req[Main].todo \ {id} \in SUBSET Ids /\ "restore" \in Pcs
        BY <1>2 DEF Pcs
      <4> QED
        BY <1>1, <4>1, RequestRecords
    <3>2. req' = [req EXCEPT ![Main] = r]
      BY <1>0, <1>3, <2>1 DEF TypeOK
    <3> HIDE DEF r
    <3> QED
      BY <1>0, <3>1, <3>2, ReqUpdate
  <2>3. /\ req'[Main].op = "Restore" /\ req'[Main].id = NoId /\ req'[Main].pc = "restore"
        /\ req'[Main].todo = req[Main].todo \ {id}
    BY <1>1, <1>2, <2>2 DEF Request
  <2> HIDE DEF r
  <2>4. TypeOK'
    BY <1>0, <1>1, <2>1, <2>2 DEF TypeOK
  <2>5. StepOK(Main)'
    BY <1>1, <1>2, <2>3 DEF StepOK, At
  <2>6. \A i \in Ids : i # id => Ahead(i)' = Ahead(i)
    BY <1>1, <2>3 DEF Ahead
  <2>7. \A w \in Workers : req'[w] = req[w]
    BY <1>2, <2>2
  <2>8. RowOK(id)' /\ Held(id)' \subseteq Held(id)
    BY <1>1, <1>4, <1>5, <1>8, <2>1 DEF RowOK, Held
  <2> QED
    BY <1>1, <1>2, <1>3, <1>6, <2>1, <2>3, <2>4, <2>5, <2>6, <2>7, <2>8, MainStep
<1> QED
  BY <1>1, <1>7, <1>8

(* What is known of a session that does something by itself. *)
LEMMA Alive ==
    ASSUME IndInv, NEW id \in Ids, sess[id] # Absent
    PROVE  /\ TypeOK /\ sess[id] \in SessionObj /\ sess[id].jid \in Jids \cup {Unpaired}
           /\ sess[id].writes \subseteq Jids /\ sess[id].events \subseteq Events /\ sess[id].conn \in Conns
           /\ ClientOK(id) /\ LinkedOK(id) /\ proc \in {"starting", "serving"}
           /\ proc = "starting" => sess[id].reg /\ ~Ahead(id)
<1>0. TypeOK /\ ClientsKnown /\ LinkedSound /\ RestoreSound
  BY DEF IndInv
<1>1. sess[id] \in SessionObj
  BY <1>0, FieldTypes
<1>2. /\ sess[id].jid \in Jids \cup {Unpaired} /\ sess[id].writes \subseteq Jids
      /\ sess[id].events \subseteq Events /\ sess[id].conn \in Conns
  BY <1>1 DEF SessionObj
<1>3. proc \in {"starting", "serving"} /\ (proc = "starting" => RowOK(id))
  BY <1>0 DEF RestoreSound, TypeOK
<1> QED
  BY <1>0, <1>1, <1>2, <1>3 DEF ClientsKnown, LinkedSound, RowOK

(* Nobody scans the code, and a client with a device comes online. *)
LEMMA ConnectionStep ==
    ASSUME IndInv, NEW id \in Ids, PairingTimeout(id) \/ Online(id)
    PROVE  IndInv'
<1> USE NilAssumption
<1>1. UNCHANGED <<row, name, devices, cfg, rec, used, proc, req, pairings, linked>>
  BY DEF PairingTimeout, Online, db, counters
<1>2. sess[id] # Absent
  <2>1. Absent.conn = "new"
    BY DEF Absent
  <2> QED
    BY <2>1 DEF PairingTimeout, Online
<1>3. /\ TypeOK /\ sess[id] \in SessionObj /\ sess[id].jid \in Jids \cup {Unpaired}
      /\ sess[id].writes \subseteq Jids /\ sess[id].events \subseteq Events /\ sess[id].conn \in Conns
      /\ ClientOK(id) /\ LinkedOK(id) /\ proc \in {"starting", "serving"}
  BY <1>2, Alive
<1>4. /\ sess' \in [Ids -> SessionObj] /\ \A i \in Ids : i # id => sess'[i] = sess[i]
      /\ sess'[id].reg = sess[id].reg /\ sess'[id].jid = sess[id].jid /\ sess'[id].conn # "pairing"
      /\ sess'[id].writes = sess[id].writes
  <2>1. CASE PairingTimeout(id)
    <3>1. sess' = [sess EXCEPT ![id] = [sess[id] EXCEPT !.conn = "off"]]
      BY <1>3, <2>1 DEF PairingTimeout, TypeOK
    <3>2. [sess[id] EXCEPT !.conn = "off"] \in SessionObj
      BY <1>3, SessionRecords DEF Conns
    <3>3. /\ sess' \in [Ids -> SessionObj] /\ sess'[id] = [sess[id] EXCEPT !.conn = "off"]
          /\ \A i \in Ids : i # id => sess'[i] = sess[i]
      BY <1>3, <3>1, <3>2, SessUpdate
    <3> QED
      BY <1>3, <3>3 DEF SessionObj
  <2>2. CASE Online(id)
    <3>1. PICK e \in SUBSET Events : e = sess[id].events \cup {"connected"}
      BY <1>3 DEF Events
    <3>2. sess' = [sess EXCEPT ![id] = [sess[id] EXCEPT !.conn = "online", !.events = e]]
      BY <1>3, <2>2, <3>1 DEF Online, TypeOK
    <3>3. [sess[id] EXCEPT !.conn = "online", !.events = e] \in SessionObj
      BY <1>3, SessionRecords DEF Conns
    <3>4. /\ sess' \in [Ids -> SessionObj] /\ sess'[id] = [sess[id] EXCEPT !.conn = "online", !.events = e]
          /\ \A i \in Ids : i # id => sess'[i] = sess[i]
      BY <1>3, <3>2, <3>3, SessUpdate
    <3> QED
      BY <1>3, <3>4 DEF SessionObj
  <2> QED
    BY <2>1, <2>2
<1>5. TypeOK'
  BY <1>1, <1>3, <1>4 DEF TypeOK
<1>6. (Deleting(id)' = Deleting(id)) /\ (Ahead(id)' = Ahead(id))
  BY <1>1 DEF Deleting, Ahead
<1>7. ClientOK(id)'
  BY <1>1, <1>3, <1>4, <1>6 DEF ClientOK, Known
<1>8. LinkedOK(id)'
  BY <1>1, <1>3, <1>4, <1>6 DEF LinkedOK
<1>9. Held(id)' \subseteq Held(id)
  BY <1>1, <1>4 DEF Held
<1>10. pairings <= pairings' /\ Held(id)' \subseteq Held(id) \cup (pairings + 1 .. pairings')
  BY <1>1, <1>3, <1>9 DEF TypeOK
<1>11. \A i \in Ids : i # id => sess'[i] = sess[i] /\ row'[i] = row[i] /\ linked'[i] = linked[i]
  BY <1>1, <1>4
<1> QED
  BY <1>1, <1>2, <1>4, <1>5, <1>7, <1>8, <1>10, <1>11, EventStep

(* The phone scans the code: the JID is fresh. *)
LEMMA ScanStep ==
    ASSUME IndInv, NEW id \in Ids, Scan(id)
    PROVE  IndInv'
<1> USE NilAssumption
<1>1. /\ sess[id].conn = "pairing" /\ pairings < MaxPairings /\ pairings' = pairings + 1
      /\ devices' = devices \cup {pairings'}
      /\ UNCHANGED <<row, name, cfg, rec, used, proc, req, linked>>
  BY DEF Scan
<1>2. sess[id] # Absent
  <2>1. Absent.conn = "new"
    BY DEF Absent
  <2> QED
    BY <1>1, <2>1
<1>3. /\ TypeOK /\ sess[id] \in SessionObj /\ sess[id].jid \in Jids \cup {Unpaired}
      /\ sess[id].writes \subseteq Jids /\ sess[id].events \subseteq Events
      /\ ClientOK(id) /\ LinkedOK(id) /\ proc \in {"starting", "serving"}
      /\ proc = "starting" => sess[id].reg /\ ~Ahead(id)
  BY <1>2, Alive
<1>4. /\ pairings \in Nat /\ pairings' \in Nat /\ pairings' \in 0 .. MaxPairings /\ pairings' \in Jids
      /\ pairings <= pairings' /\ pairings' \in pairings + 1 .. pairings'
  BY <1>1, <1>3 DEF TypeOK, Jids
<1>5. /\ sess' \in [Ids -> SessionObj] /\ \A i \in Ids : i # id => sess'[i] = sess[i]
      /\ sess'[id].reg = sess[id].reg /\ sess'[id].jid = pairings' /\ sess'[id].conn = "linking"
      /\ sess'[id].writes = sess[id].writes
  <2>1. PICK e \in SUBSET Events, j \in Jids : e = sess[id].events \cup {"success"} /\ j = pairings'
    BY <1>3, <1>4 DEF Events
  <2>2. sess' = [sess EXCEPT ![id] = [sess[id] EXCEPT !.jid = j, !.conn = "linking", !.events = e]]
    BY <1>3, <2>1 DEF Scan, TypeOK
  <2>3. [sess[id] EXCEPT !.jid = j, !.conn = "linking", !.events = e] \in SessionObj
    BY <1>3, SessionRecords DEF Conns
  <2>4. /\ sess' \in [Ids -> SessionObj] /\ \A i \in Ids : i # id => sess'[i] = sess[i]
        /\ sess'[id] = [sess[id] EXCEPT !.jid = j, !.conn = "linking", !.events = e]
    BY <1>3, <2>2, <2>3, SessUpdate
  <2> QED
    BY <1>3, <2>1, <2>4 DEF SessionObj
<1>6. TypeOK'
  BY <1>1, <1>3, <1>4, <1>5 DEF TypeOK
<1>7. linked[id] = Unpaired
  BY <1>1, <1>3 DEF ClientOK, LinkedOK
<1>8. Deleting(id)' = Deleting(id)
  BY <1>1 DEF Deleting
<1>9. ClientOK(id)'
  BY <1>1, <1>3, <1>5, <1>8 DEF ClientOK, Known
<1>10. LinkedOK(id)'
  BY <1>1, <1>7 DEF LinkedOK
<1>11. Held(id)' \subseteq Held(id) \cup (pairings + 1 .. pairings')
  BY <1>1, <1>4, <1>5 DEF Held
<1>12. /\ devices \ {sess[id].jid} \subseteq devices'
       /\ \A i \in Ids : i # id => sess'[i] = sess[i] /\ row'[i] = row[i] /\ linked'[i] = linked[i]
  BY <1>1, <1>5
<1> QED
  BY <1>1, <1>2, <1>4, <1>5, <1>6, <1>9, <1>10, <1>11, <1>12, EventStep

(* The phone unlinks the device. *)
LEMMA RemoteLogoutStep ==
    ASSUME IndInv, NEW id \in Ids, RemoteLogout(id)
    PROVE  IndInv'
<1> USE NilAssumption
<1>1. /\ sess[id].conn = "online" /\ devices' = devices \ {sess[id].jid}
      /\ linked' = [linked EXCEPT ![id] = Unpaired]
      /\ UNCHANGED <<row, name, cfg, rec, used, proc, req, pairings>>
  BY DEF RemoteLogout, counters
<1>2. sess[id] # Absent
  <2>1. Absent.conn = "new"
    BY DEF Absent
  <2> QED
    BY <1>1, <2>1
<1>3. TypeOK /\ sess[id] \in SessionObj /\ ClientOK(id)
  BY <1>2, Alive
<1>4. /\ sess' \in [Ids -> SessionObj] /\ \A i \in Ids : i # id => sess'[i] = sess[i]
      /\ sess'[id].reg = sess[id].reg /\ sess'[id].jid = Unpaired /\ sess'[id].conn = "off"
      /\ sess'[id].writes = sess[id].writes
  <2>1. sess' = [sess EXCEPT ![id] = [sess[id] EXCEPT !.jid = Unpaired, !.conn = "off"]]
    BY <1>3 DEF RemoteLogout, TypeOK
  <2>2. [sess[id] EXCEPT !.jid = Unpaired, !.conn = "off"] \in SessionObj
    BY <1>3, SessionRecords DEF Conns
  <2>3. /\ sess' \in [Ids -> SessionObj] /\ \A i \in Ids : i # id => sess'[i] = sess[i]
        /\ sess'[id] = [sess[id] EXCEPT !.jid = Unpaired, !.conn = "off"]
    BY <1>3, <2>1, <2>2, SessUpdate
  <2> QED
    BY <1>3, <2>3 DEF SessionObj
<1>5. /\ linked' \in [Ids -> Jids \cup {Unpaired}] /\ linked'[id] = Unpaired
      /\ \A i \in Ids : i # id => linked'[i] = linked[i]
  BY <1>1, <1>3 DEF TypeOK
<1>6. TypeOK'
  BY <1>1, <1>3, <1>4, <1>5 DEF TypeOK
<1>7. ClientOK(id)' /\ LinkedOK(id)'
  BY <1>4, <1>5 DEF ClientOK, LinkedOK
<1>8. Held(id)' \subseteq Held(id)
  BY <1>1, <1>4, <1>5 DEF Held
<1>9. pairings <= pairings' /\ Held(id)' \subseteq Held(id) \cup (pairings + 1 .. pairings')
  BY <1>1, <1>3, <1>8 DEF TypeOK
<1>10. /\ devices \ {sess[id].jid} \subseteq devices'
       /\ \A i \in Ids : i # id => sess'[i] = sess[i] /\ row'[i] = row[i] /\ linked'[i] = linked[i]
  BY <1>1, <1>4, <1>5
<1> QED
  BY <1>1, <1>2, <1>4, <1>6, <1>7, <1>9, <1>10, EventStep

(* A handler reads the JID of the present client. *)
LEMMA HandlePairedStep ==
    ASSUME IndInv, NEW id \in Ids, HandlePaired(id)
    PROVE  IndInv'
<1> USE NilAssumption
<1>1. UNCHANGED <<row, name, devices, cfg, rec, used, proc, req, pairings, linked>>
  BY DEF HandlePaired, db, counters
<1>2. sess[id] # Absent
  <2>1. Absent.events = {}
    BY DEF Absent
  <2> QED
    BY <2>1 DEF HandlePaired
<1>3. /\ TypeOK /\ sess[id] \in SessionObj /\ sess[id].jid \in Jids \cup {Unpaired}
      /\ sess[id].writes \subseteq Jids /\ sess[id].events \subseteq Events
      /\ ClientOK(id) /\ LinkedOK(id) /\ proc \in {"starting", "serving"}
  BY <1>2, Alive
<1>4. PICK e \in SUBSET Events, ws \in SUBSET Jids :
        /\ ws = sess[id].writes \cup (IF sess[id].jid = Unpaired THEN {} ELSE {sess[id].jid})
        /\ sess' = [sess EXCEPT ![id] = [sess[id] EXCEPT !.events = e, !.writes = ws]]
  <2>1. PICK x \in sess[id].events :
          sess' = [sess EXCEPT ![id].events = @ \ {x},
                               ![id].writes = @ \cup (IF sess[id].jid = Unpaired THEN {} ELSE {sess[id].jid})]
    BY DEF HandlePaired
  <2> DEFINE e0 == sess[id].events \ {x}
             ws0 == sess[id].writes \cup (IF sess[id].jid = Unpaired THEN {} ELSE {sess[id].jid})
  <2>2. e0 \in SUBSET Events /\ ws0 \in SUBSET Jids
    BY <1>3
  <2>3. sess' = [sess EXCEPT ![id] = [sess[id] EXCEPT !.events = e0, !.writes = ws0]]
    BY <1>3, <2>1 DEF TypeOK
  <2> QED
    BY <2>2, <2>3
<1>5. /\ sess' \in [Ids -> SessionObj] /\ \A i \in Ids : i # id => sess'[i] = sess[i]
      /\ sess'[id].reg = sess[id].reg /\ sess'[id].jid = sess[id].jid /\ sess'[id].conn = sess[id].conn
      /\ sess'[id].writes = ws
  <2>1. [sess[id] EXCEPT !.events = e, !.writes = ws] \in SessionObj
    BY <1>3, SessionRecords
  <2>2. /\ sess' \in [Ids -> SessionObj] /\ \A i \in Ids : i # id => sess'[i] = sess[i]
        /\ sess'[id] = [sess[id] EXCEPT !.events = e, !.writes = ws]
    BY <1>3, <1>4, <2>1, SessUpdate
  <2> QED
    BY <1>3, <2>2 DEF SessionObj
<1>6. TypeOK'
  BY <1>1, <1>3, <1>5 DEF TypeOK
<1>7. (Deleting(id)' = Deleting(id)) /\ (Ahead(id)' = Ahead(id))
  BY <1>1 DEF Deleting, Ahead
<1>8. ClientOK(id)'
  BY <1>1, <1>3, <1>5, <1>7 DEF ClientOK, Known
<1>9. LinkedOK(id)'
  BY <1>1, <1>3, <1>4, <1>5, <1>7 DEF LinkedOK
<1>10. Held(id)' \subseteq Held(id)
  BY <1>1, <1>4, <1>5 DEF Held
<1>11. pairings <= pairings' /\ Held(id)' \subseteq Held(id) \cup (pairings + 1 .. pairings')
  BY <1>1, <1>3, <1>10 DEF TypeOK
<1>12. \A i \in Ids : i # id => sess'[i] = sess[i] /\ row'[i] = row[i] /\ linked'[i] = linked[i]
  BY <1>1, <1>5
<1> QED
  BY <1>1, <1>2, <1>5, <1>6, <1>8, <1>9, <1>11, <1>12, EventStep

(* ... and saves it: alone, the pairing is linked from here on. *)
LEMMA SaveJIDStep ==
    ASSUME IndInv, NEW id \in Ids, SaveJID(id)
    PROVE  IndInv'
<1> USE NilAssumption, EnvAssumption
<1>1. PICK j \in sess[id].writes :
        /\ setJID(id, j)
        /\ sess' = [sess EXCEPT ![id].writes = @ \ {j}]
        /\ linked' = IF Settled(id) /\ row[id] # NoRow /\ sess[id].jid = j
                     THEN [linked EXCEPT ![id] = j] ELSE linked
  BY DEF SaveJID
<1>2. UNCHANGED <<name, devices, cfg, rec, used, proc, req, pairings>>
  BY DEF SaveJID, counters
<1>3. sess[id] # Absent
  <2>1. Absent.writes = {}
    BY DEF Absent
  <2> QED
    BY <2>1
<1>4. /\ TypeOK /\ sess[id] \in SessionObj /\ sess[id].jid \in Jids \cup {Unpaired}
      /\ sess[id].writes \subseteq Jids /\ j \in Jids
      /\ ClientOK(id) /\ LinkedOK(id) /\ proc \in {"starting", "serving"}
      /\ proc = "starting" => sess[id].reg /\ ~Ahead(id)
  BY <1>3, Alive
<1>5. PICK ws \in SUBSET Jids : ws = sess[id].writes \ {j}
  BY <1>4
<1>6. /\ sess' \in [Ids -> SessionObj] /\ \A i \in Ids : i # id => sess'[i] = sess[i]
      /\ sess'[id].reg = sess[id].reg /\ sess'[id].jid = sess[id].jid /\ sess'[id].conn = sess[id].conn
      /\ sess'[id].writes = ws
  <2>1. [sess[id] EXCEPT !.writes = ws] \in SessionObj
    BY <1>4, SessionRecords
  <2>2. sess' = [sess EXCEPT ![id] = [sess[id] EXCEPT !.writes = ws]]
    BY <1>1, <1>4, <1>5 DEF TypeOK
  <2>3. /\ sess' \in [Ids -> SessionObj] /\ \A i \in Ids : i # id => sess'[i] = sess[i]
        /\ sess'[id] = [sess[id] EXCEPT !.writes = ws]
    BY <1>4, <2>1, <2>2, SessUpdate
  <2> QED
    BY <1>4, <2>3 DEF SessionObj
<1>7. /\ row' \in [Ids -> Jids \cup {NoRow, Unpaired}] /\ \A i \in Ids : i # id => row'[i] = row[i]
      /\ row'[id] = IF row[id] = NoRow THEN NoRow ELSE j
  BY <1>1, <1>4 DEF setJID, TypeOK
<1>8. /\ linked' \in [Ids -> Jids \cup {Unpaired}] /\ \A i \in Ids : i # id => linked'[i] = linked[i]
      /\ linked'[id] = linked[id] \/ linked'[id] = j
  BY <1>1, <1>4 DEF TypeOK
<1>9. TypeOK'
  BY <1>2, <1>4, <1>6, <1>7, <1>8 DEF TypeOK
<1>10. (Deleting(id)' = Deleting(id)) /\ (Ahead(id)' = Ahead(id))
  BY <1>2 DEF Deleting, Ahead
<1>11. ClientOK(id)'
  BY <1>2, <1>4, <1>6, <1>7, <1>10 DEF ClientOK, Known
<1>12. LinkedOK(id)'
  <2>1. CASE linked' = linked
    <3>1. linked[id] # Unpaired => row'[id] = row[id] /\ ws \subseteq {linked[id]}
      BY <1>4, <1>5, <1>7 DEF LinkedOK
    <3> QED
      BY <1>2, <1>4, <1>6, <1>10, <2>1, <3>1 DEF LinkedOK
  <2>2. CASE Settled(id) /\ row[id] # NoRow /\ sess[id].jid = j /\ linked' = [linked EXCEPT ![id] = j]
    <3>1. linked'[id] = j /\ row'[id] = j /\ ws = {}
      BY <1>4, <1>5, <1>7, <2>2 DEF TypeOK, Settled
    <3>2. ASSUME NEW t \in Threads, req[t].id = id PROVE req[t].op \in Harmless
      BY <2>2, <3>2 DEF Settled, Harmless
    <3>3. ~Deleting(id)
      <4>1. "Delete" \notin Harmless
        BY DEF Harmless
      <4> QED
        BY <3>2, <4>1 DEF Deleting, Threads
    <3>4. j \in devices /\ sess[id].reg
      BY <1>4, <2>2, <3>3 DEF ClientOK, Known
    <3> QED
      BY <1>2, <1>6, <2>2, <3>1, <3>2, <3>4 DEF LinkedOK
  <2> QED
    BY <1>1, <2>1, <2>2
<1>13. Held(id)' \subseteq Held(id)
  BY <1>4, <1>5, <1>6, <1>7, <1>8 DEF Held
<1>14. pairings <= pairings' /\ Held(id)' \subseteq Held(id) \cup (pairings + 1 .. pairings')
  BY <1>2, <1>4, <1>13 DEF TypeOK
<1>15. /\ \A i \in Ids : i # id => sess'[i] = sess[i] /\ row'[i] = row[i] /\ linked'[i] = linked[i]
       /\ row'[id] = row[id] \/ (row[id] # NoRow /\ row'[id] \in Jids)
  BY <1>4, <1>6, <1>7, <1>8
<1> QED
  BY <1>2, <1>3, <1>6, <1>9, <1>11, <1>12, <1>14, <1>15, EventStep

(* An empty database and no process. *)
LEMMA SessionsInit == Init => IndInv
<1> SUFFICES ASSUME Init PROVE IndInv
  OBVIOUS
<1> USE NilAssumption, EnvAssumption DEF Init
<1>1. \A t \in Threads : req[t].op = "idle" /\ req[t].id = NoId /\ req[t].todo = {} /\ req[t].pc = ""
  BY DEF Idle
<1>2. \A i \in Ids : /\ sess[i] = Absent /\ sess[i].jid = Unpaired
                     /\ sess[i].conn = "new" /\ sess[i].writes = {}
  BY DEF Absent
<1>3. TypeOK
  <2>1. sess \in [Ids -> SessionObj] /\ req \in [Threads -> Request]
    BY RequestRecords, SessionRecords
  <2>2. /\ row \in [Ids -> Jids \cup {NoRow, Unpaired}] /\ cfg \in [Ids -> Cfgs \cup {NoCfg}]
        /\ rec \in [Ids -> BOOLEAN] /\ linked \in [Ids -> Jids \cup {Unpaired}]
    OBVIOUS
  <2>3. name \in [Ids -> Names] /\ devices \subseteq Jids /\ used \subseteq Ids /\ pairings \in 0 .. MaxPairings
        /\ proc \in {"down", "starting", "serving"}
    OBVIOUS
  <2> QED
    BY <2>1, <2>2, <2>3 DEF TypeOK
<1>4. StepsOfOps
  BY <1>1 DEF StepsOfOps, StepOK, At
<1>5. UnusedUntouched
  BY DEF UnusedUntouched, UnusedOK
<1>6. CreatedUnseen
  BY <1>1 DEF CreatedUnseen, CreatedOK, At, Threads
<1>7. JidsDistinct
  <2>1. \A i \in Ids : Held(i) = {}
    BY <1>2 DEF Held
  <2> QED
    BY <2>1 DEF JidsDistinct
<1>8. ClientsKnown
  BY <1>1, <1>2 DEF ClientsKnown, ClientOK, KnownOK, Threads
<1>9. LinkedSound /\ RestoreSound
  BY DEF LinkedSound, LinkedOK, RestoreSound
<1> QED
  BY <1>3, <1>4, <1>5, <1>6, <1>7, <1>8, <1>9 DEF IndInv

(* Every step keeps the invariant. *)
LEMMA SessionsStep == IndInv /\ [Next]_vars => IndInv'
<1> SUFFICES ASSUME IndInv, [Next]_vars PROVE IndInv'
  OBVIOUS
<1>1. CASE Start \/ Crash \/ RestoreRow \/ Restored
  BY <1>1, StartStep, CrashStep, RestoreRowStep, RestoredStep
<1>2. ASSUME NEW t \in Threads, deleteRows(t) PROVE IndInv'
  BY <1>2, DeleteRowsStep, DropRowStep DEF Threads
<1>3. ASSUME NEW t \in Threads,
             \/ chatwootEnvTargets(t) \/ applyChatwootEnv(t)
             \/ recordingEnvTargets(t) \/ applyRecordingEnv(t)
      PROVE  IndInv'
  BY <1>3, EnvStep, ServingStep
<1>4. ASSUME NEW w \in Workers,
             \/ CreateInsert(w) \/ CreateRegister(w) \/ PairStart(w) \/ Pair(w)
             \/ Logout(w) \/ Delete(w) \/ ClientLogout(w)
             \/ Unregister(w) \/ ReplaceClient(w) \/ LogoutDone(w)
             \/ Configure(w) \/ ConfigureWrite(w)
      PROVE  IndInv'
  BY <1>4, CreateInsertStep, CreateRegisterStep, PairStartStep, PairAsked, LogoutAsked, DeleteAsked,
     ClientLogoutStep, UnregisterStep, ReplaceClientStep, LogoutDoneStep, ConfigureAsked, ConfigureWriteStep
<1>5. ASSUME NEW id \in Ids,
             \/ Scan(id) \/ PairingTimeout(id) \/ Online(id) \/ RemoteLogout(id)
             \/ HandlePaired(id) \/ SaveJID(id)
      PROVE  IndInv'
  BY <1>5, ScanStep, ConnectionStep, RemoteLogoutStep, HandlePairedStep, SaveJIDStep
<1>6. CASE UNCHANGED vars
  <2>1. UNCHANGED <<row, name, devices, cfg, rec, used, sess, proc, req, pairings, linked>>
    BY <1>6 DEF vars, db, counters
  <2>2. TypeOK' = TypeOK
    BY <2>1 DEF TypeOK
  <2>3. (StepsOfOps' = StepsOfOps) /\ (CreatedUnseen' = CreatedUnseen)
    BY <2>1 DEF StepsOfOps, StepOK, CreatedUnseen, CreatedOK, At
  <2>4. (UnusedUntouched' = UnusedUntouched) /\ (JidsDistinct' = JidsDistinct)
    BY <2>1 DEF UnusedUntouched, UnusedOK, JidsDistinct, Held
  <2>5. ClientsKnown' = ClientsKnown
    BY <2>1 DEF ClientsKnown, ClientOK, KnownOK, Known, Deleting, At
  <2>6. (LinkedSound' = LinkedSound) /\ (RestoreSound' = RestoreSound)
    BY <2>1 DEF LinkedSound, LinkedOK, RestoreSound, RowOK, Ahead
  <2> QED
    BY <2>2, <2>3, <2>4, <2>5, <2>6 DEF IndInv
<1> QED
  BY <1>1, <1>2, <1>3, <1>4, <1>5, <1>6 DEF Next

(* The session manager never leaves its inductive invariant, whatever requests, events of
   the WhatsApp clients and crashes come in whatever order. *)
THEOREM SessionsInvariant == Spec => []IndInv
BY SessionsInit, SessionsStep, PTL DEF Spec

(* A saved pairing lasts until somebody ends it or a Restore fails to read its device: crashes,
   a Restore that reads it, the requests and the failed queries of other sessions and the late
   handlers of a replaced client leave its row and its device alone. *)
THEOREM PairingsSurvive == Spec => []LinkedSurvives
<1>1. IndInv => LinkedSurvives
  BY DEF IndInv, LinkedSound, LinkedOK, LinkedSurvives
<1> QED
  BY <1>1, SessionsInvariant, PTL

(* No late handler and no crash gives a deleted session its row back: the only statement that
   inserts one is Create's, with an id that was never used. *)
THEOREM DeletedStaysDeleted == Spec => NoResurrection
<1>1. IndInv /\ [Next]_vars =>
        [\A id \in Ids : row[id] = NoRow /\ row'[id] # NoRow => id \notin used]_vars
  <2> SUFFICES ASSUME IndInv, Next, NEW id \in Ids, row[id] = NoRow, row'[id] # NoRow
               PROVE  id \notin used
    OBVIOUS
  <2>1. row \in [Ids -> Jids \cup {NoRow, Unpaired}]
    BY DEF IndInv, TypeOK
  <2>2. ASSUME NEW t \in Threads, deleteRows(t) PROVE FALSE
    BY <2>1, <2>2 DEF deleteRows
  <2>3. ASSUME NEW w \in Workers, LogoutDone(w) PROVE FALSE
    BY <2>1, <2>3 DEF LogoutDone, setJID
  <2>4. ASSUME NEW i \in Ids, SaveJID(i) PROVE FALSE
    BY <2>1, <2>4 DEF SaveJID, setJID
  <2>5. ASSUME NEW w \in Workers, CreateInsert(w) PROVE id \notin used
    BY <2>1, <2>5 DEF CreateInsert
  <2>6. CASE row' = row
    BY <2>6
  <2>7. ASSUME \/ Start \/ Crash \/ RestoreRow \/ Restored
               \/ \E t \in Threads : \/ chatwootEnvTargets(t) \/ applyChatwootEnv(t)
                                     \/ recordingEnvTargets(t) \/ applyRecordingEnv(t)
        PROVE  row' = row
    BY <2>7 DEF Start, Crash, RestoreRow, Restored, chatwootEnvTargets, applyChatwootEnv,
       recordingEnvTargets, applyRecordingEnv, db
  <2>8. ASSUME NEW w \in Workers,
               \/ CreateRegister(w) \/ PairStart(w) \/ Pair(w) \/ Logout(w) \/ Delete(w)
               \/ ClientLogout(w) \/ Unregister(w) \/ ReplaceClient(w)
               \/ Configure(w) \/ ConfigureWrite(w)
        PROVE  row' = row
    BY <2>8 DEF CreateRegister, PairStart, Pair, Logout, Delete, ClientLogout, Unregister,
       ReplaceClient, Configure, ConfigureWrite, db
  <2>9. ASSUME NEW i \in Ids,
               Scan(i) \/ PairingTimeout(i) \/ Online(i) \/ RemoteLogout(i) \/ HandlePaired(i)
        PROVE  row' = row
    BY <2>9 DEF Scan, PairingTimeout, Online, RemoteLogout, HandlePaired, db
  <2> QED
    BY <2>2, <2>3, <2>4, <2>5, <2>6, <2>7, <2>8, <2>9 DEF Next
<1> QED
  BY <1>1, SessionsInvariant, PTL DEF Spec, NoResurrection

(* While its pairing lasts, a session loses its Chatwoot configuration only to a request about
   it. *)
THEOREM ConfigurationKept == Spec => ConfigKept
<1> USE NilAssumption, EnvAssumption
<1>1. IndInv /\ [Next]_vars =>
        [\A id \in Ids : linked[id] # Unpaired /\ linked'[id] # Unpaired /\ cfg[id] # NoCfg =>
           \/ cfg'[id] # NoCfg
           \/ \E w \in Workers : req[w].id = id /\ req[w].op \in {"DeleteChatwoot", "Delete"}]_vars
  <2> SUFFICES ASSUME IndInv, Next, NEW id \in Ids, linked[id] # Unpaired, linked'[id] # Unpaired,
                      cfg[id] # NoCfg, cfg'[id] = NoCfg
               PROVE  \E w \in Workers : req[w].id = id /\ req[w].op \in {"DeleteChatwoot", "Delete"}
    OBVIOUS
  <2>1. cfg \in [Ids -> Cfgs \cup {NoCfg}] /\ StepsOfOps /\ LinkedOK(id)
    BY DEF IndInv, TypeOK, LinkedSound
  <2>2. ASSUME NEW t \in Threads, deleteRows(t)
        PROVE  t \in Workers /\ req[t].id = id /\ req[t].op = "Delete"
    <3>1. req[t].pc \in {"rows", "configs", "recording"} /\ req[t].id = id
      BY <2>1, <2>2 DEF deleteRows, deleteChatwoot, At
    <3>2. StepOK(t) /\ req[t].op \in Harmless
      BY <2>1, <3>1 DEF StepsOfOps, LinkedOK
    <3>3. req[t].op \in {"Delete", "Restore"}
      BY <3>1, <3>2 DEF StepOK
    <3> QED
      BY <3>2, <3>3 DEF Harmless
  <2>3. ASSUME NEW t \in Threads, applyChatwootEnv(t) PROVE FALSE
    <3>1. StepOK(t) /\ req[t].pc = "envset"
      BY <2>1, <2>3 DEF StepsOfOps, applyChatwootEnv, At
    <3>2. CASE EnvCfg = NoCfg
      <4>1. req[t].todo = {}
        BY <3>1, <3>2 DEF StepOK, At
      <4> QED
        BY <2>3, <4>1 DEF applyChatwootEnv
    <3>3. CASE EnvCfg # NoCfg
      BY <2>1, <2>3, <3>3 DEF applyChatwootEnv
    <3> QED
      BY <3>2, <3>3
  <2>4. ASSUME NEW w \in Workers, ConfigureWrite(w)
        PROVE  req[w].id = id /\ req[w].op = "DeleteChatwoot"
    BY <2>1, <2>4 DEF ConfigureWrite, deleteChatwoot
  <2>5. CASE cfg' = cfg
    BY <2>5
  <2>6. ASSUME \/ Start \/ Crash \/ RestoreRow \/ Restored
               \/ \E t \in Threads : \/ chatwootEnvTargets(t)
                                     \/ recordingEnvTargets(t) \/ applyRecordingEnv(t)
        PROVE  cfg' = cfg
    BY <2>6 DEF Start, Crash, RestoreRow, Restored, chatwootEnvTargets,
       recordingEnvTargets, applyRecordingEnv, db
  <2>7. ASSUME NEW w \in Workers,
               \/ CreateInsert(w) \/ CreateRegister(w) \/ PairStart(w) \/ Pair(w) \/ Logout(w)
               \/ Delete(w) \/ ClientLogout(w) \/ Unregister(w) \/ ReplaceClient(w)
               \/ LogoutDone(w) \/ Configure(w)
        PROVE  cfg' = cfg
    BY <2>7 DEF CreateInsert, CreateRegister, PairStart, Pair, Logout, Delete, ClientLogout,
       Unregister, ReplaceClient, LogoutDone, Configure, db
  <2>8. ASSUME NEW i \in Ids,
               \/ Scan(i) \/ PairingTimeout(i) \/ Online(i) \/ RemoteLogout(i)
               \/ HandlePaired(i) \/ SaveJID(i)
        PROVE  cfg' = cfg
    BY <2>8 DEF Scan, PairingTimeout, Online, RemoteLogout, HandlePaired, SaveJID, db
  <2> QED
    BY <2>2, <2>3, <2>4, <2>5, <2>6, <2>7, <2>8 DEF Next
<1> QED
  BY <1>1, SessionsInvariant, PTL DEF Spec, ConfigKept

(* When the process begins to serve, its sessions are the rows, each with its JID: whatever a
   crash left half-created or half-deleted is gone. *)
THEOREM ServesWhatIsStored == Spec => RestoredServed
<1> USE NilAssumption, EnvAssumption
<1>1. IndInv /\ [Next]_vars =>
        [proc = "starting" /\ proc' = "serving" =>
           \A id \in Ids : /\ sess'[id].reg <=> row'[id] # NoRow
                           /\ row'[id] # NoRow => row'[id] \in Jids]_vars
  <2> SUFFICES ASSUME IndInv, Next, proc = "starting", proc' = "serving", NEW id \in Ids
               PROVE  /\ sess'[id].reg <=> row'[id] # NoRow
                      /\ row'[id] # NoRow => row'[id] \in Jids
    OBVIOUS
  <2>1. ASSUME NEW t \in Threads, applyRecordingEnv(t)
        PROVE  t = Main /\ req[t].pc = "recset" /\ row' = row /\ sess' = sess
    BY <2>1 DEF applyRecordingEnv, At
  <2>2. PICK t \in Threads : applyRecordingEnv(t)
    <3>1. ASSUME \/ Start \/ Crash \/ RestoreRow \/ Restored
                 \/ \E t \in Threads : \/ deleteRows(t) \/ chatwootEnvTargets(t)
                                       \/ applyChatwootEnv(t) \/ recordingEnvTargets(t)
          PROVE  FALSE
      BY <3>1 DEF Start, Crash, RestoreRow, Restored, deleteRows, chatwootEnvTargets,
         applyChatwootEnv, recordingEnvTargets
    <3>2. ASSUME NEW w \in Workers,
                 \/ CreateInsert(w) \/ CreateRegister(w) \/ PairStart(w) \/ Pair(w)
                 \/ Logout(w) \/ Delete(w) \/ ClientLogout(w)
                 \/ Unregister(w) \/ ReplaceClient(w) \/ LogoutDone(w)
                 \/ Configure(w) \/ ConfigureWrite(w)
          PROVE  FALSE
      BY <3>2 DEF CreateInsert, CreateRegister, PairStart, Pair, Logout, Delete, ClientLogout,
         Unregister, ReplaceClient, LogoutDone, Configure, ConfigureWrite
    <3>3. ASSUME NEW i \in Ids,
                 \/ Scan(i) \/ PairingTimeout(i) \/ Online(i) \/ RemoteLogout(i)
                 \/ HandlePaired(i) \/ SaveJID(i)
          PROVE  FALSE
      BY <3>3 DEF Scan, PairingTimeout, Online, RemoteLogout, HandlePaired, SaveJID
    <3> QED
      BY <3>1, <3>2, <3>3 DEF Next
  <2>3. req[Main].pc = "recset" /\ row' = row /\ sess' = sess
    BY <2>1, <2>2
  <2>4. RowOK(id) /\ ~Ahead(id)
    BY <2>3 DEF IndInv, RestoreSound, Ahead
  <2> QED
    BY <2>3, <2>4 DEF RowOK
<1> QED
  BY <1>1, SessionsInvariant, PTL DEF Spec, RestoredServed

====
