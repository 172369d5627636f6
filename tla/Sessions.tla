------------------------------ MODULE Sessions ------------------------------
(***************************************************************************)
(* The session manager of cmd/server and the SQLite rows it keeps: create, *)
(* pair, log out, delete and configure a WhatsApp session, the events the  *)
(* WhatsApp client raises in between, a crash of the process at any step,  *)
(* and Restore at the next start.                                          *)
(*                                                                         *)
(* A JID names one pairing (a phone gives every linked device a number of  *)
(* its own), so each pairing takes a fresh one.  One statement on the      *)
(* database is one step: nothing in the code runs two in a transaction.    *)
(***************************************************************************)
EXTENDS Naturals, FiniteSets

CONSTANTS Ids,        \* session ids newSessionID can return, each once
          Names,      \* names a user gives to sessions
          Cfgs,       \* Chatwoot configurations
          EnvCfg,     \* the one WACALLS_CHATWOOT_* describes, or NoCfg
          EnvName,    \* WACALLS_CHATWOOT_SESSION
          EnvRec,     \* WACALLS_RECORDING: TRUE, FALSE or NoCfg
          Workers,    \* goroutines serving HTTP requests
          Main,       \* the goroutine of main
          MaxPairings, MaxRequests, MaxCrashes,  \* bounds
          NoRow, Unpaired, NoCfg, NoId

Jids == 1 .. MaxPairings

ASSUME EnvAssumption ==
  /\ EnvCfg \in Cfgs \cup {NoCfg} /\ EnvName \in Names /\ EnvRec \in {TRUE, FALSE, NoCfg}
  /\ Main \notin Workers
ASSUME NilAssumption ==
  /\ MaxPairings \in Nat
  /\ NoRow # Unpaired /\ Jids \cap {NoRow, Unpaired} = {}
  /\ NoId \notin Ids /\ NoCfg \notin {TRUE, FALSE} /\ NoCfg \notin Cfgs

VARIABLES row, name, devices, cfg, rec,   \* the database
          sess,                           \* Session objects of this process
          proc, req,                      \* life of the process, its goroutines
          pairings, requests, crashes,    \* counters against the bounds
          used,                           \* ids newSessionID has returned
          linked                          \* history: pairings that must last

db == <<row, name, devices, cfg, rec, used>>
counters == <<pairings, requests, crashes>>
vars == <<db, sess, proc, req, counters, linked>>

Threads == Workers \cup {Main}
Absent == [reg |-> FALSE, jid |-> Unpaired, conn |-> "new",
           events |-> {}, writes |-> {}]
Idle == [op |-> "idle", id |-> NoId, pc |-> "", todo |-> {}]
Registered == {id \in Ids : sess[id].reg}

Conns == {"new", "pairing", "linking", "online", "off"}
Events == {"success", "connected"}
SessionObj == [reg : BOOLEAN, jid : Jids \cup {Unpaired}, conn : Conns,
               events : SUBSET Events, writes : SUBSET Jids]

Ops == {"idle", "Restore", "Create", "Delete", "Logout", "Pair",
        "SetChatwoot", "DeleteChatwoot", "SetRecording"}
Pcs == {"", "register", "env", "envset", "rec", "recset", "restore", "pair", "logout",
        "unregister", "rows", "configs", "recording", "replace", "setjid", "write"}
Request == [op : Ops, id : Ids \cup {NoId}, todo : SUBSET Ids, pc : Pcs]

\* Every row, session object and request is of its type.
TypeOK ==
  /\ row \in [Ids -> Jids \cup {NoRow, Unpaired}]
  /\ name \in [Ids -> Names]
  /\ devices \subseteq Jids
  /\ cfg \in [Ids -> Cfgs \cup {NoCfg}] /\ rec \in [Ids -> BOOLEAN]
  /\ sess \in [Ids -> SessionObj]
  /\ proc \in {"down", "starting", "serving"}
  /\ req \in [Threads -> Request]
  /\ linked \in [Ids -> Jids \cup {Unpaired}] /\ used \subseteq Ids
  /\ pairings \in 0 .. MaxPairings

\* newServer on an empty database; name[id] is the name a Create of id will ask for
Init ==
  /\ row = [id \in Ids |-> NoRow] /\ name \in [Ids -> Names]
  /\ devices = {} /\ cfg = [id \in Ids |-> NoCfg] /\ rec = [id \in Ids |-> FALSE]
  /\ sess = [id \in Ids |-> Absent]
  /\ proc = "down" /\ req = [t \in Threads |-> Idle]
  /\ pairings = 0 /\ requests = 0 /\ crashes = 0 /\ used = {}
  /\ linked = [id \in Ids |-> Unpaired]

At(t, pc) == req[t].pc = pc
Goto(t, pc) == req' = [req EXCEPT ![t].pc = pc]
Done(t) == req' = [req EXCEPT ![t] = Idle]

\* no request and no handler is at work on session id
Settled(id) == /\ \A t \in Threads : req[t].id # id \/ req[t].op = "Create"
               /\ sess[id].events = {} /\ \A i, j \in sess[id].writes : i = j

-----------------------------------------------------------------------------
\* A session's store row and its Session object

setJIDUpserts(id, jid) == row' = [row EXCEPT ![id] = jid]

\* UPDATE ... WHERE id = ?: without a row it has no effect
setJID(id, jid) == row' = [row EXCEPT ![id] = IF @ = NoRow THEN NoRow ELSE jid]

deleteChatwootByAccount(id) == [i \in Ids |-> IF cfg[i] = cfg[id] THEN NoCfg ELSE cfg[i]]

\* the configuration of one session; its conversation mappings are Chatwoot's
deleteChatwoot(id) == [cfg EXCEPT ![id] = NoCfg]

newSession(jid) == [Absent EXCEPT !.reg = TRUE, !.jid = jid]

\* a fresh unpaired client takes the old one's place; the old one is disconnected,
\* but the handlers it started go on
replaceClient(s) == [s EXCEPT !.jid = Unpaired, !.conn = "new"]

\* the goroutine that reads the QR channel, from the first code on
startPairing(s) == [s EXCEPT !.conn = "pairing"]

-----------------------------------------------------------------------------
\* Steps Restore, Create and Delete share

\* delete: sessions, then chatwoot_configs and its mappings, then session_recording
deleteRows(t) ==
  /\ \/ /\ At(t, "rows") /\ Goto(t, "configs")
        /\ row' = [row EXCEPT ![req[t].id] = NoRow]
        /\ UNCHANGED <<cfg, rec>>
     \/ /\ At(t, "configs") /\ Goto(t, "recording")
        /\ cfg' = deleteChatwoot(req[t].id)
        /\ UNCHANGED <<row, rec>>
     \/ /\ At(t, "recording")
        /\ req' = IF t = Main
                  THEN [req EXCEPT ![t].pc = "restore", ![t].id = NoId, ![t].todo = @ \ {req[t].id}]
                  ELSE [req EXCEPT ![t] = Idle]
        /\ rec' = [rec EXCEPT ![req[t].id] = FALSE]
        /\ UNCHANGED <<row, cfg>>
  /\ UNCHANGED <<used, name, devices, sess, proc, counters, linked>>

\* applyChatwootEnv: the sessions of the configured name, or the only session there is
chatwootEnvTargets(t) ==
  /\ At(t, "env")
  /\ LET targets == IF Cardinality(Registered) = 1 THEN Registered
                    ELSE {id \in Registered : name[id] = EnvName}
     IN  req' = [req EXCEPT ![t].pc = "envset",
                            ![t].todo = IF EnvCfg = NoCfg THEN {} ELSE targets]
  /\ UNCHANGED <<db, sess, proc, counters, linked>>

\* one session of the loop; a configuration that is already the same is left alone
applyChatwootEnv(t) ==
  /\ At(t, "envset")
  /\ \/ \E id \in req[t].todo :
          cfg' = [cfg EXCEPT ![id] = EnvCfg] /\ req' = [req EXCEPT ![t].todo = @ \ {id}]
     \/ req[t].todo = {} /\ Goto(t, "rec") /\ UNCHANGED cfg
  /\ UNCHANGED <<used, row, name, devices, rec, sess, proc, counters, linked>>

recordingEnvTargets(t) ==
  /\ At(t, "rec")
  /\ req' = [req EXCEPT ![t].pc = "recset", ![t].todo = IF EnvRec = NoCfg THEN {} ELSE Registered]
  /\ UNCHANGED <<db, sess, proc, counters, linked>>

applyRecordingEnv(t) ==
  /\ At(t, "recset")
  /\ \/ /\ \E id \in req[t].todo :
             rec' = [rec EXCEPT ![id] = EnvRec] /\ req' = [req EXCEPT ![t].todo = @ \ {id}]
        /\ UNCHANGED proc
     \/ /\ req[t].todo = {} /\ UNCHANGED rec
        /\ req' = [req EXCEPT ![t] = IF t = Main THEN Idle ELSE [@ EXCEPT !.pc = "pair"]]
        /\ proc' = IF t = Main THEN "serving" ELSE proc
  /\ UNCHANGED <<used, row, name, devices, cfg, sess, counters, linked>>

-----------------------------------------------------------------------------
\* Start and crash of the process

Start ==
  /\ proc = "down" /\ proc' = "starting"
  /\ req' = [req EXCEPT ![Main] = [op |-> "Restore", id |-> NoId, pc |-> "restore",
                                   todo |-> {id \in Ids : row[id] # NoRow}]]
  /\ UNCHANGED <<db, sess, counters, linked>>

RestoreKeepsUnpaired ==
  /\ At(Main, "restore")
  /\ \E id \in req[Main].todo :
       /\ row[id] = Unpaired \/ row[id] \in devices
       /\ req' = [req EXCEPT ![Main].todo = @ \ {id}]
       /\ sess' = IF row[id] = Unpaired THEN sess
                  ELSE [sess EXCEPT ![id] = [newSession(row[id]) EXCEPT !.conn = "linking"]]
  /\ UNCHANGED <<db, proc, counters, linked>>

\* one row: dropped when it is not paired, has no stored device or GetDevice fails, which
\* ends a pairing that was there; otherwise a session is registered and connected, and a
\* connect that fails is only logged
RestoreRow ==
  /\ At(Main, "restore")
  /\ \E id \in req[Main].todo :
       \/ /\ row[id] \notin devices /\ UNCHANGED <<sess, linked>>
          /\ req' = [req EXCEPT ![Main].pc = "rows", ![Main].id = id]
       \/ /\ row[id] \in devices /\ UNCHANGED sess
          /\ req' = [req EXCEPT ![Main].pc = "rows", ![Main].id = id]
          /\ linked' = [linked EXCEPT ![id] = Unpaired]
       \/ /\ row[id] \in devices /\ UNCHANGED linked
          /\ req' = [req EXCEPT ![Main].todo = @ \ {id}]
          /\ \E conn \in {"linking", "new"} :
               sess' = [sess EXCEPT ![id] = [newSession(row[id]) EXCEPT !.conn = conn]]
  /\ UNCHANGED <<db, proc, counters>>

Restored ==
  /\ At(Main, "restore") /\ req[Main].todo = {}
  /\ Goto(Main, "env")
  /\ UNCHANGED <<db, sess, proc, counters, linked>>

\* the process stops between any two steps; a shutdown loses no more than this
Crash ==
  /\ proc # "down" /\ crashes < MaxCrashes
  /\ proc' = "down" /\ crashes' = crashes + 1
  /\ sess' = [id \in Ids |-> Absent] /\ req' = [t \in Threads |-> Idle]
  /\ UNCHANGED <<db, pairings, requests, linked>>

-----------------------------------------------------------------------------
\* Requests

\* the server has a free goroutine for a request
Serve(w, op, id, pc) ==
  /\ proc = "serving" /\ req[w] = Idle /\ requests < MaxRequests
  /\ requests' = requests + 1
  /\ req' = [req EXCEPT ![w] = [op |-> op, id |-> id, pc |-> pc, todo |-> {}]]

\* Create: the row first
CreateInsert(w) ==
  /\ \E id \in Ids \ used :
       /\ Serve(w, "Create", id, "register")
       /\ row' = [row EXCEPT ![id] = Unpaired] /\ used' = used \cup {id}
  /\ UNCHANGED <<name, devices, cfg, rec, sess, proc, pairings, crashes, linked>>

CreateRegister(w) ==
  /\ At(w, "register")
  /\ sess' = [sess EXCEPT ![req[w].id] = newSession(Unpaired)]
  /\ Goto(w, "env")
  /\ UNCHANGED <<db, proc, counters, linked>>

\* the last step of Create and of Pair; GetQRChannel refuses a client that is connected or
\* has a device, and when pairing does not start the session stays registered
PairStart(w) ==
  /\ At(w, "pair") /\ Done(w)
  /\ LET s == sess[req[w].id]
     IN  \/ /\ s.conn = "new" /\ s.jid = Unpaired
            /\ sess' = [sess EXCEPT ![req[w].id] = startPairing(s)]
         \/ UNCHANGED sess
  /\ UNCHANGED <<db, proc, counters, linked>>

PairUnguarded(w) ==
  /\ \E id \in Registered : Serve(w, "Pair", id, "replace")
  /\ UNCHANGED <<db, sess, proc, pairings, crashes, linked>>

\* refused, without effect, when the client already has a device
Pair(w) ==
  /\ \E id \in Registered : sess[id].jid = Unpaired /\ Serve(w, "Pair", id, "replace")
  /\ UNCHANGED <<db, sess, proc, pairings, crashes, linked>>

\* Logout and Delete end what the history variable stands for
Logout(w) ==
  /\ \E id \in Registered : Serve(w, "Logout", id, "logout")
                            /\ linked' = [linked EXCEPT ![id] = Unpaired]
  /\ UNCHANGED <<db, sess, proc, pairings, crashes>>

Delete(w) ==
  /\ \E id \in Registered : Serve(w, "Delete", id, "logout")
                            /\ linked' = [linked EXCEPT ![id] = Unpaired]
  /\ UNCHANGED <<db, sess, proc, pairings, crashes>>

\* client.Logout deletes the device and disconnects, or fails and does neither: then
\* Delete removes the device itself and leaves the client connected, and Logout goes on.
\* Without a device Delete disconnects and removes whatever the client holds.
ClientLogout(w) ==
  /\ At(w, "logout")
  /\ LET id == req[w].id
         s == sess[id]
         off == [s EXCEPT !.jid = Unpaired, !.conn = "off"]
     IN  \/ s.jid # Unpaired /\ devices' = devices \ {s.jid} /\ sess' = [sess EXCEPT ![id] = off]
         \/ s.jid # Unpaired /\ UNCHANGED sess
            /\ devices' = IF req[w].op = "Delete" THEN devices \ {s.jid} ELSE devices
         \/ s.jid = Unpaired /\ UNCHANGED devices
            /\ sess' = IF req[w].op = "Delete" THEN [sess EXCEPT ![id].conn = "off"] ELSE sess
  /\ Goto(w, IF req[w].op = "Delete" THEN "unregister" ELSE "replace")
  /\ UNCHANGED <<row, name, cfg, rec, used, proc, counters, linked>>

\* teardownAllCalls is the call server's; the session leaves the map
Unregister(w) ==
  /\ At(w, "unregister")
  /\ sess' = [sess EXCEPT ![req[w].id].reg = FALSE]
  /\ Goto(w, "rows")
  /\ UNCHANGED <<db, proc, counters, linked>>

ReplaceClient(w) ==
  /\ At(w, "replace")
  /\ sess' = [sess EXCEPT ![req[w].id] = replaceClient(@)]
  /\ Goto(w, IF req[w].op = "Pair" THEN "pair" ELSE "setjid")
  /\ UNCHANGED <<db, proc, counters, linked>>

\* Logout forgets the JID
LogoutDone(w) ==
  /\ At(w, "setjid") /\ Done(w)
  /\ setJID(req[w].id, Unpaired)
  /\ UNCHANGED <<name, devices, cfg, rec, used, sess, proc, counters, linked>>

\* handleSetChatwoot, handleDeleteChatwoot, handleSetRecording: find the session ...
Configure(w) ==
  /\ \E id \in Registered, op \in {"SetChatwoot", "DeleteChatwoot", "SetRecording"} :
       Serve(w, op, id, "write")
  /\ UNCHANGED <<db, sess, proc, pairings, crashes, linked>>

\* ... and write the row
ConfigureWrite(w) ==
  /\ At(w, "write") /\ Done(w)
  /\ LET id == req[w].id
     IN  \/ req[w].op = "SetChatwoot" /\ (\E c \in Cfgs : cfg' = [cfg EXCEPT ![id] = c]) /\ UNCHANGED rec
         \/ req[w].op = "DeleteChatwoot" /\ cfg' = deleteChatwoot(id) /\ UNCHANGED rec
         \/ req[w].op = "SetRecording" /\ (\E b \in BOOLEAN : rec' = [rec EXCEPT ![id] = b]) /\ UNCHANGED cfg
  /\ UNCHANGED <<row, name, devices, used, sess, proc, counters, linked>>

-----------------------------------------------------------------------------
\* The WhatsApp client (external) and the handlers of its events

\* the phone scans the code: whatsmeow stores the device, then reports success
Scan(id) ==
  /\ sess[id].conn = "pairing" /\ pairings < MaxPairings
  /\ pairings' = pairings + 1
  /\ devices' = devices \cup {pairings'}
  /\ sess' = [sess EXCEPT ![id].jid = pairings', ![id].conn = "linking",
                          ![id].events = @ \cup {"success"}]
  /\ UNCHANGED <<row, name, cfg, rec, used, proc, req, requests, crashes, linked>>

\* nobody scans
PairingTimeout(id) ==
  /\ sess[id].conn = "pairing"
  /\ sess' = [sess EXCEPT ![id].conn = "off"]
  /\ UNCHANGED <<db, proc, req, counters, linked>>

\* a client with a device connects, for the first time or again
Online(id) ==
  /\ sess[id].conn \in {"linking", "online"} /\ sess[id].jid # Unpaired
  /\ sess' = [sess EXCEPT ![id].conn = "online", ![id].events = @ \cup {"connected"}]
  /\ UNCHANGED <<db, proc, req, counters, linked>>

\* the phone unlinks the device: whatsmeow deletes it, the handler of LoggedOut only tells
\* the clients
RemoteLogout(id) ==
  /\ sess[id].conn = "online" /\ sess[id].jid # Unpaired
  /\ devices' = devices \ {sess[id].jid}
  /\ sess' = [sess EXCEPT ![id].jid = Unpaired, ![id].conn = "off"]
  /\ linked' = [linked EXCEPT ![id] = Unpaired]
  /\ UNCHANGED <<row, name, cfg, rec, used, proc, req, counters>>

\* "success" and Connected: read the JID of the session's present client ...
HandlePaired(id) ==
  /\ \E e \in sess[id].events :
       sess' = [sess EXCEPT ![id].events = @ \ {e},
                            ![id].writes = @ \cup (IF sess[id].jid = Unpaired THEN {} ELSE {sess[id].jid})]
  /\ UNCHANGED <<db, proc, req, counters, linked>>

\* ... and save it
SaveJID(id) ==
  /\ \E j \in sess[id].writes :
       /\ setJID(id, j)
       /\ sess' = [sess EXCEPT ![id].writes = @ \ {j}]
       /\ linked' = IF Settled(id) /\ row[id] # NoRow /\ sess[id].jid = j
                    THEN [linked EXCEPT ![id] = j] ELSE linked
  /\ UNCHANGED <<name, devices, cfg, rec, used, proc, req, counters>>

-----------------------------------------------------------------------------
Next ==
  \/ Start \/ Crash \/ RestoreRow \/ Restored
  \/ \E t \in Threads : \/ deleteRows(t) \/ chatwootEnvTargets(t) \/ applyChatwootEnv(t)
                        \/ recordingEnvTargets(t) \/ applyRecordingEnv(t)
  \/ \E w \in Workers : \/ CreateInsert(w) \/ CreateRegister(w) \/ PairStart(w) \/ Pair(w)
                        \/ Logout(w) \/ Delete(w) \/ ClientLogout(w)
                        \/ Unregister(w) \/ ReplaceClient(w) \/ LogoutDone(w)
                        \/ Configure(w) \/ ConfigureWrite(w)
  \/ \E id \in Ids : \/ Scan(id) \/ PairingTimeout(id) \/ Online(id) \/ RemoteLogout(id)
                     \/ HandlePaired(id) \/ SaveJID(id)

Spec == Init /\ [][Next]_vars

-----------------------------------------------------------------------------
\* Properties

\* A pairing that was saved with nothing else at work on the session lasts until somebody
\* ends it or a Restore fails to read its own device: the row and the device stay through
\* every crash, every other session's request and failed query and every refused Pair, and a
\* serving process has the session under that JID.
LinkedSurvives ==
  \A id \in Ids : linked[id] # Unpaired =>
    /\ row[id] = linked[id] /\ linked[id] \in devices
    /\ proc = "serving" => sess[id].reg /\ sess[id].jid = linked[id]

\* A session whose row was deleted never gets one again: a pairing that succeeds late, a
\* Connected event or a Logout that ends after the Delete only update a row that is there.
NoResurrection == [][\A id \in Ids : row[id] = NoRow /\ row'[id] # NoRow => id \notin used]_vars

\* While a pairing lasts, only a request about it takes its Chatwoot configuration away:
\* neither a crash, nor a Restore that reads its device, nor one that drops another session,
\* nor the deletion of another does.
ConfigKept ==
  [][\A id \in Ids : linked[id] # Unpaired /\ linked'[id] # Unpaired /\ cfg[id] # NoCfg =>
       \/ cfg'[id] # NoCfg
       \/ \E w \in Workers : req[w].id = id /\ req[w].op \in {"DeleteChatwoot", "Delete"}]_vars

\* When the process starts to serve, its sessions are the rows, and each has a device
\* and its JID: rows a crash left half-created or half-deleted are gone.
RestoredServed ==
  [][proc = "starting" /\ proc' = "serving" =>
       \A id \in Ids : /\ sess'[id].reg <=> row'[id] # NoRow
                       /\ row'[id] # NoRow => row'[id] \in Jids]_vars

-----------------------------------------------------------------------------
\* The inductive invariant behind the properties

\* requests that never touch the row, the device or the client of a linked session
Harmless == {"Create", "SetChatwoot", "DeleteChatwoot", "SetRecording"}

\* which steps belong to which operation, and which goroutines run at which time
StepOK(t) ==
  /\ At(t, "register") => req[t].op = "Create"
  /\ req[t].pc \in {"rows", "configs", "recording"} => req[t].op \in {"Delete", "Restore"}
  /\ At(t, "unregister") => req[t].op = "Delete"
  /\ At(t, "logout") => req[t].op \in {"Logout", "Delete"}
  /\ At(t, "replace") => req[t].op \in {"Pair", "Logout"}
  /\ At(t, "setjid") => req[t].op = "Logout"
  /\ At(t, "restore") => req[t].op = "Restore" /\ req[t].id = NoId
  /\ t = Main /\ req[t].pc # "" => req[t].op = "Restore"
  /\ At(t, "envset") /\ EnvCfg = NoCfg => req[t].todo = {}
  /\ At(t, "recset") /\ EnvRec = NoCfg => req[t].todo = {}
  /\ req[t].op = "Restore" <=> t = Main /\ proc = "starting"
  /\ (req[t].id \in Ids => req[t].id \in used) /\ req[t].todo \subseteq used
  /\ req[t].pc # "" /\ ~(t = Main /\ req[t].pc \in {"restore", "env", "envset", "rec", "recset"})
       => req[t].id \in Ids
  /\ t \in Workers /\ (req[t].pc # "" \/ req[t].id \in Ids) => proc = "serving"
StepsOfOps == \A t \in Threads : StepOK(t)

\* newSessionID returns an id once: an id not yet returned has left no trace
UnusedOK(id) == id \notin used => row[id] = NoRow /\ sess[id] = Absent /\ linked[id] = Unpaired
UnusedUntouched == \A id \in Ids : UnusedOK(id)

\* Create registers the session before anybody else can name it
CreatedOK(w) ==
  At(w, "register") => /\ sess[req[w].id] = Absent /\ linked[req[w].id] = Unpaired
                       /\ \A t \in Threads \ {w} : req[t].id # req[w].id
CreatedUnseen == \A w \in Workers : CreatedOK(w)

\* JIDs a session holds in its row, its client, a handler or the history
Held(id) == Jids \cap ({row[id], sess[id].jid, linked[id]} \cup sess[id].writes)

\* every JID was handed out, and no two sessions hold the same
JidsDistinct ==
  /\ \A id \in Ids : Held(id) \subseteq 1 .. pairings
  /\ \A id, other \in Ids : id # other => Held(id) \cap Held(other) = {}

\* session id is registered, deleted, or on its way to be
Deleting(id) == \E w \in Workers : req[w].id = id /\ req[w].op = "Delete" /\ req[w].pc \in {"unregister", "rows"}
Known(id) == sess[id].reg \/ row[id] = NoRow \/ Deleting(id)

\* only known sessions pair and have requests; a client's device is stored unless a Delete
\* took it
ClientOK(id) ==
  /\ sess[id].conn = "pairing" => sess[id].jid = Unpaired
  /\ sess[id].conn = "pairing" \/ sess[id].jid # Unpaired => Known(id)
  /\ sess[id].jid \in devices \cup {Unpaired} \/ row[id] = NoRow \/ Deleting(id)
KnownOK(w) == req[w].id \in Ids /\ ~At(w, "register") => Known(req[w].id)
ClientsKnown == (\A id \in Ids : ClientOK(id)) /\ (\A w \in Workers : KnownOK(w))

\* what lies ahead of the main goroutine before it has restored row id
Ahead(id) == req[Main].pc \in {"restore", "rows", "configs", "recording"} /\ id \in req[Main].todo

\* a linked session: no request that would end it is at work, late handlers save the same
\* JID, and a starting process has it or will come to it
LinkedOK(id) ==
  linked[id] # Unpaired =>
    /\ row[id] = linked[id] /\ linked[id] \in devices
    /\ \A t \in Threads : req[t].id = id => req[t].op \in Harmless
    /\ sess[id].writes \subseteq {linked[id]} /\ sess[id].jid \in {Unpaired, linked[id]}
    /\ proc = "serving" => sess[id].reg /\ sess[id].jid = linked[id]
    /\ proc = "starting" => Ahead(id) \/ (sess[id].reg /\ sess[id].jid = linked[id])
LinkedSound == \A id \in Ids : LinkedOK(id)

\* before it starts the process has no session; while it starts, a row is registered or
\* lies ahead, and never both
RowOK(id) == /\ sess[id].reg => row[id] \in Jids /\ ~Ahead(id)
             /\ ~sess[id].reg => sess[id] = Absent
             /\ row[id] # NoRow => sess[id].reg \/ Ahead(id)
RestoreSound ==
  /\ proc = "down" => \A id \in Ids : sess[id] = Absent
  /\ proc = "starting" =>
       /\ \A id \in Ids : RowOK(id)
       /\ req[Main].pc \in {"rows", "configs", "recording"} => Ahead(req[Main].id)
       /\ req[Main].pc \in {"configs", "recording"} => row[req[Main].id] = NoRow

IndInv == /\ TypeOK /\ StepsOfOps /\ UnusedUntouched /\ CreatedUnseen /\ JidsDistinct
          /\ ClientsKnown /\ LinkedSound /\ RestoreSound
=============================================================================
