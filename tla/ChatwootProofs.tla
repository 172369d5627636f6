--------------------------- MODULE ChatwootProofs ---------------------------
(***************************************************************************)
(* Proofs about Chatwoot: for any messages, goroutines, inboxes and bounds *)
(* a message is shown once, only agents speak on WhatsApp, a mirrored echo *)
(* was early, and the mappings follow the configuration.                   *)
(*                                                                         *)
(* BridgeInv is inductive.  A step changes the job of one goroutine; the   *)
(* first part says what it has to respect so that a conjunct is kept, the  *)
(* second takes the actions one by one.                                    *)
(***************************************************************************)
EXTENDS Chatwoot, TLAPS

-----------------------------------------------------------------------------
(* Messages, events and jobs. *)

LEMMA EchoIds ==
  ASSUME NEW e \in Echoes
  PROVE  /\ e \in [id : {e.id}, addr : {"pn"}, own : {TRUE}, media : BOOLEAN, text : BOOLEAN]
         /\ e.id \notin Agents /\ e.id # CallNote
<1>1. PICK a \in DOMAIN AgentMsgs, k \in 1 .. MaxParts :
         e = [id |-> <<"sent", a, k>>, addr |-> "pn", own |-> TRUE, media |-> FALSE, text |-> TRUE]
  BY DEF Echoes
<1>2. PICK i : i = <<"sent", a, k>>
  OBVIOUS
<1>3. i[1] = "sent"
  BY <1>2
<1>4. \A j \in Agents : j[1] = "agent"
  BY DEF Agents
<1>5. CallNote[1] = "call"
  BY DEF CallNote
<1>6. e.id = i /\ e = [id |-> i, addr |-> "pn", own |-> TRUE, media |-> FALSE, text |-> TRUE]
  BY <1>1, <1>2
<1>7. e.id \notin Agents /\ e.id # CallNote
  BY <1>3, <1>4, <1>5, <1>6
<1> QED
  BY <1>6, <1>7

LEMMA MessageIds ==
  ASSUME NEW m \in Messages
  PROVE  /\ m.id \in MsgIds /\ m.id \notin Agents /\ m.id # CallNote
         /\ m.own \in BOOLEAN /\ m.media \in BOOLEAN /\ m.text \in BOOLEAN
         /\ m # None /\ m \notin Events
<1>1. m.id \in MsgIds /\ m # None
  BY MessagesAssumption DEF MsgIds
<1>2. m.id \notin Agents /\ m.id # CallNote
  BY EchoIds, MessagesAssumption DEF Messages
<1>3. "text" \in DOMAIN m /\ m.own \in BOOLEAN /\ m.media \in BOOLEAN /\ m.text \in BOOLEAN
  BY EchoIds, MessagesAssumption DEF Messages
<1>4. \A p \in Events : "text" \notin DOMAIN p
  BY DEF Events
<1> QED
  BY <1>1, <1>2, <1>3, <1>4

LEMMA IdleJob ==
  /\ Idle \in Jobs /\ Idle.kind = "idle" /\ Idle.msg = None /\ Idle.conv = 0 /\ Idle.pc = ""
  /\ ThreadJob(Idle) /\ ConfigurerJob(Idle)
<1>1. Idle \in Jobs /\ Idle.kind = "idle" /\ Idle.msg = None /\ Idle.conv = 0 /\ Idle.pc = ""
  BY DEF Idle, Jobs
<1>2. Idle.msg \notin Messages
  BY <1>1, MessagesAssumption
<1> QED
  BY <1>1, <1>2 DEF ThreadJob, ConfigurerJob, Talks

LEMMA JobFacts ==
  ASSUME BridgeInv, NEW t \in Threads
  PROVE  /\ job[t] \in Jobs /\ ThreadJob(job[t]) /\ t # Configurer
         /\ job[t].conv \in 0 .. Len(convs)
BY ThreadsAssumption DEF BridgeInv, TypeOK, JobsSound

(* The step of goroutine t gives it the job f. *)
LEMMA JobStep ==
  ASSUME BridgeInv, NEW t \in Threads, NEW f \in Jobs, Set(t, f), ThreadJob(f),
         f.conv \in 0 .. Len(convs'), Len(convs') \in Nat, Len(convs) <= Len(convs')
  PROVE  /\ job'[t] = f /\ \A u \in (Threads \cup {Configurer}) \ {t} : job'[u] = job[u]
         /\ job' \in [Threads \cup {Configurer} -> Jobs] /\ JobsSound'
         /\ \A u \in Threads \cup {Configurer} : job'[u].conv \in 0 .. Len(convs')
         /\ job'[Configurer] = job[Configurer]
<1>1. job \in [Threads \cup {Configurer} -> Jobs] /\ Len(convs) \in Nat
  BY DEF BridgeInv, TypeOK
<1>2. job'[t] = f /\ \A u \in (Threads \cup {Configurer}) \ {t} : job'[u] = job[u]
  BY <1>1 DEF Set
<1>3. job' \in [Threads \cup {Configurer} -> Jobs]
  BY <1>1 DEF Set
<1>4. job'[Configurer] = job[Configurer]
  BY <1>2, ThreadsAssumption
<1>5. ASSUME NEW u \in Threads \cup {Configurer} PROVE job'[u].conv \in 0 .. Len(convs')
  <2>1. CASE u = t
    BY <1>2, <2>1
  <2>2. CASE u # t
    <3>1. job[u].conv \in 0 .. Len(convs)
      BY DEF BridgeInv, TypeOK
    <3> QED
      BY <1>1, <1>2, <2>2, <3>1
  <2> QED
    BY <2>1, <2>2
<1>6. JobsSound'
  <2>1. \A u \in Threads : ThreadJob(job[u])
    BY DEF BridgeInv, JobsSound
  <2>2. \A u \in Threads : ThreadJob(job'[u])
    BY <1>2, <2>1
  <2>3. ConfigurerJob(job'[Configurer])
    BY <1>4 DEF BridgeInv, JobsSound
  <2> QED
    BY <2>2, <2>3 DEF JobsSound, ThreadJob, ConfigurerJob
<1> QED
  BY <1>2, <1>3, <1>4, <1>5, <1>6

-----------------------------------------------------------------------------
(* What keeps the parts of the invariant. *)

LEMMA SeenKept ==
  ASSUME BridgeInv, seenIDs \subseteq seenIDs', \A m \in Messages : posts'[m.id] = posts[m.id],
         \A u \in Threads : \/ job'[u] = job[u] \/ job'[u].kind # "message"
                            \/ job[u].kind = "message" /\ job'[u].msg = job[u].msg
  PROVE  SeenFirst' /\ PostedOnce'
<1>1. PostedOnce'
  BY DEF BridgeInv, PostedOnce
<1>2. \A m \in Messages : posts'[m.id] > 0 => m.id \in seenIDs'
  BY DEF BridgeInv, SeenFirst
<1>3. \A u \in Threads : job'[u].kind = "message" =>
         job[u].kind = "message" /\ job'[u].msg = job[u].msg /\ job[u].msg \in Messages
  BY JobFacts DEF ThreadJob
<1>4. ASSUME NEW t \in Threads, job'[t].kind = "message"
      PROVE  /\ job'[t].msg.id \in seenIDs' /\ posts'[job'[t].msg.id] = 0
             /\ \A u \in Threads \ {t} : job'[u].kind = "message" => job'[u].msg.id # job'[t].msg.id
  BY <1>3, <1>4 DEF BridgeInv, SeenFirst
<1> QED
  BY <1>1, <1>2, <1>4 DEF SeenFirst

LEMMA MarksKept ==
  ASSUME BridgeInv, inbound' \cap Echoes \subseteq inbound, sentIDs \subseteq sentIDs',
         \A u \in Threads : job'[u] = job[u] \/ ~At(u, {"webhook"}, "mark")
  PROVE  EchoesMarked'
<1> SUFFICES ASSUME NEW m \in Echoes, m \in inbound', m.id \notin sentIDs'
             PROVE  \E t \in Threads : At(t, {"webhook"}, "mark")' /\ sentID(t)' = m.id
  BY DEF EchoesMarked
<1>1. PICK t \in Threads : At(t, {"webhook"}, "mark") /\ sentID(t) = m.id
  BY DEF BridgeInv, EchoesMarked
<1>2. job'[t] = job[t]
  BY <1>1
<1> QED
  BY <1>1, <1>2 DEF At, sentID

LEMMA SuppressedKept ==
  ASSUME BridgeInv, early \subseteq early', \A m \in Messages : posts'[m.id] = posts[m.id],
         \A u \in Threads : \/ job'[u] = job[u] \/ job'[u].msg \notin Messages
                            \/ job'[u].msg = job[u].msg
  PROVE  EchoSuppressed'
<1> SUFFICES ASSUME NEW m \in Echoes, (\E t \in Threads : job'[t].msg = m) \/ posts'[m.id] > 0
             PROVE  m.id \in early'
  BY DEF EchoSuppressed
<1>1. m \in Messages
  BY DEF Messages
<1>2. (\E t \in Threads : job[t].msg = m) \/ posts[m.id] > 0
  BY <1>1
<1> QED
  BY <1>2 DEF BridgeInv, EchoSuppressed

LEMMA FollowKept ==
  ASSUME BridgeInv, UNCHANGED <<cfg, mapping, raced>>, job'[Configurer] = job[Configurer],
         \A i \in 1 .. Len(convs) : convs'[i].inbox = convs[i].inbox,
         \A u \in Threads :
            \/ job'[u] = job[u] \/ job'[u].kind \notin Talks
            \/ /\ job[u].kind \in Talks /\ job'[u].inbox = job[u].inbox
               /\ job'[u].pc = "save" => job'[u].conv # 0 /\ convs'[job'[u].conv].inbox = job[u].inbox
  PROVE  MappingsFollow'
<1> SUFFICES ASSUME ~raced PROVE
      /\ Busy' => job'[Configurer] = Idle
      /\ \A t \in Threads : job'[t].kind \in Talks =>
           /\ job'[t].inbox = cfg.inbox
           /\ job'[t].pc = "save" => convs'[job'[t].conv].inbox = cfg.inbox /\ job'[t].conv # 0
      /\ job'[Configurer].pc # "clear" =>
           \A c \in Chats : mapping[c] # 0 => convs'[mapping[c]].inbox = Target'
  BY DEF MappingsFollow
<1>1. Busy' => Busy
  BY DEF Busy
<1>2. Busy' => job'[Configurer] = Idle
  BY <1>1 DEF BridgeInv, MappingsFollow
<1>3. Target' = Target
  BY DEF Target
<1>4. ASSUME NEW t \in Threads, job'[t].kind \in Talks
      PROVE  /\ job'[t].inbox = cfg.inbox
             /\ job'[t].pc = "save" => convs'[job'[t].conv].inbox = cfg.inbox /\ job'[t].conv # 0
  <2>1. job[t].kind \in Talks /\ job[t].inbox = cfg.inbox /\ job'[t].inbox = cfg.inbox
    BY <1>4 DEF BridgeInv, MappingsFollow
  <2>2. CASE job'[t] = job[t]
    <3>1. job[t].conv \in 0 .. Len(convs) /\ Len(convs) \in Nat
      BY DEF BridgeInv, TypeOK
    <3>2. job[t].pc = "save" => convs[job[t].conv].inbox = cfg.inbox /\ job[t].conv # 0
      BY <2>1 DEF BridgeInv, MappingsFollow
    <3>3. job[t].pc = "save" => job[t].conv \in 1 .. Len(convs)
      BY <3>1, <3>2
    <3> QED
      BY <2>1, <2>2, <3>2, <3>3
  <2>3. CASE job'[t] # job[t]
    BY <1>4, <2>1, <2>3
  <2> QED
    BY <2>2, <2>3
<1>5. ASSUME job'[Configurer].pc # "clear", NEW c \in Chats, mapping[c] # 0
      PROVE  convs'[mapping[c]].inbox = Target'
  <2>1. mapping[c] \in 1 .. Len(convs)
    BY <1>5 DEF BridgeInv, TypeOK
  <2>2. convs[mapping[c]].inbox = Target
    BY <1>5 DEF BridgeInv, MappingsFollow
  <2> QED
    BY <1>3, <2>1, <2>2
<1> QED
  BY <1>2, <1>4, <1>5

-----------------------------------------------------------------------------
(* WhatsApp -> Chatwoot. *)

(* A goroutine that talks to Chatwoot goes on, changing only its step and conversation. *)
LEMMA TalkStep ==
  ASSUME BridgeInv, NEW t \in Threads, job[t].kind \in Talks,
         UNCHANGED <<cfg, mapping, seenIDs, sentIDs, posts, webhooks, inbound, sent, configs, early, raced>>,
         contacts' \in [Inboxes \X Chats -> {"none", "lead", "ours"}],
         convs' \in Seq(Conversations), Len(convs') >= Len(convs),
         \A i \in 1 .. Len(convs) : convs'[i].inbox = convs[i].inbox,
         NEW f \in Jobs, Set(t, f), f.conv \in 0 .. Len(convs'),
         \/ f = Idle
         \/ /\ f.kind = job[t].kind /\ f.msg = job[t].msg /\ f.inbox = job[t].inbox /\ f.chat = job[t].chat
            /\ f.pc = "save" => f.conv # 0 /\ convs'[f.conv].inbox = job[t].inbox
  PROVE  BridgeInv'
<1>1. /\ job[t] \in Jobs /\ ThreadJob(job[t]) /\ job[t].kind # "idle" /\ job[t].kind # "webhook"
      /\ job[t] # Idle
  BY JobFacts, IdleJob DEF Talks
<1>2. ThreadJob(f)
  <2>1. CASE f = Idle
    BY <2>1, IdleJob
  <2>2. CASE f # Idle
    <3>1. f.kind \in Talks /\ f.kind # "idle" /\ f.kind # "webhook"
      BY <1>1, <2>2
    <3>2. f.inbox \in Inboxes /\ f.chat \in Chats /\ (f.kind = "message" <=> f.msg \in Messages)
      BY <1>1, <2>2, <3>1 DEF ThreadJob
    <3> QED
      BY <2>2, <3>1, <3>2 DEF ThreadJob, Talks
  <2> QED
    BY <2>1, <2>2
<1>3. Len(convs) \in Nat /\ Len(convs') \in Nat
  BY DEF BridgeInv, TypeOK
<1>4. /\ job'[t] = f /\ \A u \in Threads \ {t} : job'[u] = job[u]
      /\ job' \in [Threads \cup {Configurer} -> Jobs] /\ JobsSound'
      /\ \A u \in Threads \cup {Configurer} : job'[u].conv \in 0 .. Len(convs')
      /\ job'[Configurer] = job[Configurer]
  BY <1>2, <1>3, JobStep
<1>5. TypeOK'
  <2>1. mapping \in [Chats -> 0 .. Len(convs')]
    BY <1>3 DEF BridgeInv, TypeOK
  <2> QED
    BY <1>4, <2>1 DEF BridgeInv, TypeOK
<1>6. SeenFirst' /\ PostedOnce'
  BY <1>4, SeenKept, IdleJob
<1>7. EchoesMarked'
  <2>1. ~At(t, {"webhook"}, "mark")
    BY <1>1 DEF At
  <2> QED
    BY <1>4, <2>1, MarksKept
<1>8. EchoSuppressed'
  <2>1. f.msg = job[t].msg \/ f.msg \notin Messages
    BY IdleJob, MessagesAssumption
  <2> QED
    BY <1>4, <2>1, SuppressedKept
<1>9. MappingsFollow'
  <2>1. f.kind \notin Talks \/ f # Idle
    BY IdleJob DEF Talks
  <2> QED
    BY <1>4, <2>1, FollowKept
<1>10. RelayableFromAgents' /\ OnlyAgentsSpeak'
  BY DEF BridgeInv, RelayableFromAgents, shouldRelay, OnlyAgentsSpeak
<1> QED
  BY <1>4, <1>5, <1>6, <1>7, <1>8, <1>9, <1>10 DEF BridgeInv

Steps == {"search", "create", "find", "open", "save", "post", "send", "mark"}

(* A job with another step, and with another conversation. *)
LEMMA GoFacts ==
  ASSUME BridgeInv, NEW t \in Threads, NEW pc \in Steps, NEW f, f = [job[t] EXCEPT !.pc = pc]
  PROVE  /\ f \in Jobs /\ f.pc = pc /\ f.kind = job[t].kind /\ f.msg = job[t].msg
         /\ f.inbox = job[t].inbox /\ f.chat = job[t].chat /\ f.conv = job[t].conv /\ f.left = job[t].left
<1>1. PICK j \in Jobs : j = job[t]
  BY JobFacts
<1> QED
  BY <1>1 DEF Jobs, Steps

WithConv(t, n, pc) == [job[t] EXCEPT !.conv = n, !.pc = pc]

LEMMA GoWithFacts ==
  ASSUME BridgeInv, NEW t \in Threads, NEW pc \in Steps, NEW n \in Nat,
         NEW f, f = WithConv(t, n, pc)
  PROVE  /\ f \in Jobs /\ f.pc = pc /\ f.kind = job[t].kind /\ f.msg = job[t].msg
         /\ f.inbox = job[t].inbox /\ f.chat = job[t].chat /\ f.conv = n /\ f.left = job[t].left
<1>1. PICK j \in Jobs : j = job[t]
  BY JobFacts
<1> QED
  BY <1>1 DEF Jobs, Steps, WithConv

LEMMA Unfold ==
  ASSUME BridgeInv
  PROVE  /\ contacts \in [Inboxes \X Chats -> {"none", "lead", "ours"}]
         /\ convs \in Seq(Conversations) /\ Len(convs) \in Nat /\ Len(convs) >= Len(convs)
         /\ mapping \in [Chats -> 0 .. Len(convs)] /\ posts \in [MsgIds -> Nat]
         /\ webhooks \subseteq Events /\ inbound \subseteq Messages
BY DEF BridgeInv, TypeOK

LEMMA LookupInv ==
  ASSUME BridgeInv, NEW t \in Threads, lookupConversation(t)
  PROVE  BridgeInv'
<1>1. /\ job[t].kind \in Talks
      /\ UNCHANGED <<cfg, mapping, seenIDs, sentIDs, contacts, convs, posts, webhooks, inbound, sent, configs, early, raced>>
  BY DEF lookupConversation, At, local, remote, whatsapp, counters
<1>2. PICK n \in 0 .. Len(convs) : n = mapping[job[t].chat]
  <2>1. job[t].chat \in Chats
    BY <1>1, JobFacts DEF ThreadJob
  <2> QED
    BY <2>1, Unfold
<1>3. PICK pc \in {"search", "post"} : pc = IF n = 0 THEN "search" ELSE "post"
  OBVIOUS
<1>4. PICK f : f = WithConv(t, n, pc)
  OBVIOUS
<1>5. Set(t, f)
  BY <1>2, <1>3, <1>4 DEF lookupConversation, WithConv
<1>6. /\ f \in Jobs /\ f.pc \in {"search", "post"} /\ f.kind = job[t].kind /\ f.msg = job[t].msg
      /\ f.inbox = job[t].inbox /\ f.chat = job[t].chat /\ f.conv = n
  <2>1. n \in Nat /\ pc \in Steps
    BY <1>2, Unfold DEF Steps
  <2> QED
    BY <1>4, <2>1, GoWithFacts
<1> QED
  BY <1>1, <1>5, <1>6, Unfold, TalkStep

(* A goroutine that goes on to one of the steps before "save", or past it. *)
LEMMA TalkGoes ==
  ASSUME BridgeInv, NEW t \in Threads, job[t].kind \in Talks,
         UNCHANGED <<cfg, mapping, seenIDs, sentIDs, posts, webhooks, inbound, sent, configs, early, raced>>,
         contacts' \in [Inboxes \X Chats -> {"none", "lead", "ours"}], convs' = convs,
         Done(t) \/ \E pc \in {"search", "create", "find", "open", "post"} : Go(t, pc)
  PROVE  BridgeInv'
<1>1. CASE Done(t)
  <2>1. Set(t, Idle) /\ Idle \in Jobs
    BY <1>1, IdleJob DEF Done
  <2>2. convs' \in Seq(Conversations) /\ Len(convs') >= Len(convs) /\ 0 \in 0 .. Len(convs')
    BY Unfold
  <2>3. Idle.conv \in 0 .. Len(convs')
    BY <2>2, IdleJob
  <2> QED
    BY <2>1, <2>2, <2>3, TalkStep
<1>2. ASSUME NEW pc \in {"search", "create", "find", "open", "post"}, Go(t, pc)
      PROVE  BridgeInv'
  <2>1. PICK f : f = [job[t] EXCEPT !.pc = pc]
    OBVIOUS
  <2>2. Set(t, f)
    BY <1>2, <2>1 DEF Go
  <2>3. /\ f \in Jobs /\ f.pc = pc /\ f.kind = job[t].kind /\ f.msg = job[t].msg
        /\ f.inbox = job[t].inbox /\ f.chat = job[t].chat /\ f.conv = job[t].conv
    BY <2>1, GoFacts DEF Steps
  <2>4. convs' \in Seq(Conversations) /\ Len(convs') >= Len(convs) /\ f.conv \in 0 .. Len(convs')
    BY <2>3, Unfold, JobFacts
  <2> QED
    BY <2>2, <2>3, <2>4, TalkStep
<1> QED
  BY <1>1, <1>2

LEMMA SearchInv ==
  ASSUME BridgeInv, NEW t \in Threads, searchContact(t)
  PROVE  BridgeInv'
<1>1. /\ job[t].kind \in Talks
      /\ UNCHANGED <<cfg, mapping, seenIDs, sentIDs, contacts, convs, posts, webhooks, inbound, sent, configs, early, raced>>
  BY DEF searchContact, At, local, remote, whatsapp
<1>2. Go(t, "create") \/ Go(t, "find")
  BY DEF searchContact
<1> QED
  BY <1>1, <1>2, Unfold, TalkGoes

LEMMA EnsureContactInv ==
  ASSUME BridgeInv, NEW t \in Threads, ensureContact(t)
  PROVE  BridgeInv'
<1>1. /\ job[t].kind \in Talks
      /\ UNCHANGED <<cfg, mapping, seenIDs, sentIDs, convs, posts, webhooks, inbound, sent, configs, early, raced>>
  BY DEF ensureContact, At, local, whatsapp
<1>2. Done(t) \/ Go(t, "find")
  BY DEF ensureContact
<1>3. contacts' \in [Inboxes \X Chats -> {"none", "lead", "ours"}]
  <2>1. contacts' = contacts \/ contacts' = [contacts EXCEPT ![<<job[t].inbox, job[t].chat>>] = "ours"]
    BY DEF ensureContact
  <2> QED
    BY <2>1, Unfold
<1> QED
  BY <1>1, <1>2, <1>3, TalkGoes

LEMMA FindInv ==
  ASSUME BridgeInv, NEW t \in Threads, findOpenConversation(t)
  PROVE  BridgeInv'
<1>1. /\ job[t].kind \in Talks
      /\ UNCHANGED <<cfg, mapping, seenIDs, sentIDs, contacts, convs, posts, webhooks, inbound, sent, configs, early, raced>>
  BY DEF findOpenConversation, At, local, remote, whatsapp
<1>2. CASE Done(t) \/ Go(t, "open")
  BY <1>1, <1>2, Unfold, TalkGoes
<1>3. ASSUME NEW i \in OpenConvs(job[t].inbox, job[t].chat), Set(t, [job[t] EXCEPT !.conv = i, !.pc = "save"])
      PROVE  BridgeInv'
  <2>1. i \in 1 .. Len(convs) /\ i \in Nat
    BY <1>3, Unfold DEF OpenConvs
  <2>2. convs[i].inbox = job[t].inbox
    BY <1>3 DEF OpenConvs
  <2>3. PICK f : f = WithConv(t, i, "save")
    OBVIOUS
  <2>4. /\ f \in Jobs /\ f.pc = "save" /\ f.kind = job[t].kind /\ f.msg = job[t].msg
        /\ f.inbox = job[t].inbox /\ f.chat = job[t].chat /\ f.conv = i
    BY <2>1, <2>3, GoWithFacts DEF Steps
  <2>5. Set(t, f)
    BY <1>3, <2>3 DEF WithConv
  <2>6. f.conv # 0 /\ convs'[f.conv].inbox = job[t].inbox /\ f.conv \in 0 .. Len(convs')
    BY <1>1, <2>1, <2>2, <2>4, Unfold
  <2> QED
    BY <1>1, <2>4, <2>5, <2>6, Unfold, TalkStep
<1> QED
  BY <1>2, <1>3 DEF findOpenConversation

LEMMA CreateConversationInv ==
  ASSUME BridgeInv, NEW t \in Threads, createConversation(t)
  PROVE  BridgeInv'
<1>1. /\ job[t].kind \in Talks
      /\ UNCHANGED <<cfg, mapping, seenIDs, sentIDs, contacts, posts, webhooks, inbound, sent, configs, early, raced>>
  BY DEF createConversation, At, local, whatsapp
<1>2. CASE Done(t) /\ UNCHANGED convs
  BY <1>1, <1>2, Unfold, TalkGoes
<1>3. ASSUME convs' = Append(convs, [inbox |-> job[t].inbox, chat |-> job[t].chat, open |-> TRUE]),
             Set(t, [job[t] EXCEPT !.conv = Len(convs'), !.pc = "save"])
      PROVE  BridgeInv'
  <2>1. PICK c \in Conversations : c = [inbox |-> job[t].inbox, chat |-> job[t].chat, open |-> TRUE]
    BY <1>1, JobFacts DEF ThreadJob, Conversations
  <2>2. convs' = Append(convs, c) /\ c.inbox = job[t].inbox
    BY <1>3, <2>1
  <2>3. /\ convs' \in Seq(Conversations) /\ Len(convs') = Len(convs) + 1
        /\ \A i \in 1 .. Len(convs) : convs'[i] = convs[i]
        /\ convs'[Len(convs')] = c
    BY <2>2, Unfold
  <2>4. PICK n \in Nat : n = Len(convs')
    BY <2>3, Unfold
  <2>5. PICK f : f = WithConv(t, n, "save")
    OBVIOUS
  <2>6. /\ f \in Jobs /\ f.pc = "save" /\ f.kind = job[t].kind /\ f.msg = job[t].msg
        /\ f.inbox = job[t].inbox /\ f.chat = job[t].chat /\ f.conv = n
    BY <2>4, <2>5, GoWithFacts DEF Steps
  <2>7. Set(t, f)
    BY <1>3, <2>4, <2>5 DEF WithConv
  <2>8. f.conv # 0 /\ convs'[f.conv].inbox = job[t].inbox /\ f.conv \in 0 .. Len(convs')
    BY <2>2, <2>3, <2>4, <2>6, Unfold
  <2>9. Len(convs') >= Len(convs) /\ \A i \in 1 .. Len(convs) : convs'[i].inbox = convs[i].inbox
    BY <2>3, Unfold
  <2> QED
    BY <1>1, <2>3, <2>6, <2>7, <2>8, <2>9, Unfold, TalkStep
<1> QED
  BY <1>2, <1>3 DEF createConversation

LEMMA SaveInv ==
  ASSUME BridgeInv, NEW t \in Threads, saveConversation(t)
  PROVE  BridgeInv'
<1>1. /\ job[t].kind \in Talks /\ job[t].pc = "save"
      /\ UNCHANGED <<cfg, seenIDs, sentIDs, contacts, convs, posts, webhooks, inbound, sent, configs, early, raced>>
      /\ mapping' = [mapping EXCEPT ![job[t].chat] = job[t].conv]
  BY DEF saveConversation, At, remote, whatsapp, counters
<1>2. PICK f : f = [job[t] EXCEPT !.pc = "post"]
  OBVIOUS
<1>3. /\ f \in Jobs /\ f.pc = "post" /\ f.kind = job[t].kind /\ f.msg = job[t].msg
      /\ f.inbox = job[t].inbox /\ f.chat = job[t].chat /\ f.conv = job[t].conv /\ f.left = job[t].left
  BY <1>2, GoFacts DEF Steps
<1>4. f # Idle /\ f.kind # "idle" /\ ThreadJob(f)
  BY <1>1, <1>3, JobFacts, IdleJob DEF ThreadJob, Talks
<1>5. Set(t, f)
  BY <1>2 DEF saveConversation, Go
<1>6. /\ job'[t] = f /\ \A u \in Threads \ {t} : job'[u] = job[u]
      /\ job' \in [Threads \cup {Configurer} -> Jobs] /\ JobsSound'
      /\ \A u \in Threads \cup {Configurer} : job'[u].conv \in 0 .. Len(convs')
      /\ job'[Configurer] = job[Configurer]
  <2>1. f.conv \in 0 .. Len(convs') /\ Len(convs') \in Nat /\ Len(convs) <= Len(convs')
    BY <1>1, <1>3, JobFacts, Unfold
  <2> QED
    BY <1>3, <1>4, <1>5, <2>1, JobStep
<1>7. mapping' \in [Chats -> 0 .. Len(convs')]
  BY <1>1, JobFacts, Unfold
<1>8. TypeOK'
  BY <1>1, <1>6, <1>7 DEF BridgeInv, TypeOK
<1>9. SeenFirst' /\ PostedOnce'
  BY <1>1, <1>3, <1>6, SeenKept
<1>10. EchoesMarked'
  <2>1. ~At(t, {"webhook"}, "mark")
    BY <1>1 DEF At
  <2> QED
    BY <1>1, <1>6, <2>1, MarksKept
<1>11. EchoSuppressed'
  BY <1>1, <1>3, <1>6, SuppressedKept
<1>12. MappingsFollow'
  <2> SUFFICES ASSUME ~raced PROVE
      /\ Busy' => job'[Configurer] = Idle
      /\ \A u \in Threads : job'[u].kind \in Talks =>
           /\ job'[u].inbox = cfg.inbox
           /\ job'[u].pc = "save" => convs[job'[u].conv].inbox = cfg.inbox /\ job'[u].conv # 0
      /\ job'[Configurer].pc # "clear" =>
           \A c \in Chats : mapping'[c] # 0 => convs[mapping'[c]].inbox = Target'
    BY <1>1 DEF MappingsFollow
  <2>1. job[Configurer] = Idle /\ job'[Configurer] = Idle /\ Target = cfg.inbox /\ Target' = cfg.inbox
        /\ job[Configurer].pc # "clear"
    BY <1>1, <1>6, IdleJob DEF BridgeInv, MappingsFollow, Busy, Target
  <2>2. job[t].inbox = cfg.inbox /\ convs[job[t].conv].inbox = cfg.inbox
    BY <1>1 DEF BridgeInv, MappingsFollow
  <2>3. \A u \in Threads : job'[u].kind \in Talks =>
           /\ job'[u].inbox = cfg.inbox
           /\ job'[u].pc = "save" => convs[job'[u].conv].inbox = cfg.inbox /\ job'[u].conv # 0
    BY <1>3, <1>6, <2>2 DEF BridgeInv, MappingsFollow
  <2>4. ASSUME NEW c \in Chats, mapping'[c] # 0 PROVE convs[mapping'[c]].inbox = cfg.inbox
    <3>1. CASE c = job[t].chat
      BY <1>1, <2>2, <3>1, Unfold
    <3>2. CASE c # job[t].chat
      <4>1. mapping'[c] = mapping[c]
        BY <1>1, <3>2, Unfold
      <4> QED
        BY <2>1, <2>4, <4>1 DEF BridgeInv, MappingsFollow
    <3> QED
      BY <3>1, <3>2
  <2> QED
    BY <2>1, <2>3, <2>4
<1>13. RelayableFromAgents' /\ OnlyAgentsSpeak'
  BY <1>1 DEF BridgeInv, RelayableFromAgents, shouldRelay, OnlyAgentsSpeak
<1> QED
  BY <1>1, <1>6, <1>8, <1>9, <1>10, <1>11, <1>12, <1>13 DEF BridgeInv

(* What is posted is an event that would not be relayed. *)
LEMMA PostingFacts ==
  ASSUME BridgeInv, NEW t \in Threads, job[t].kind \in Talks
  PROVE  /\ posting(t) \in Events /\ ~shouldRelay(posting(t))
         /\ job[t].kind = "note" => posting(t).from = CallNote
         /\ job[t].kind = "message" => posting(t).from = job[t].msg.id /\ job[t].msg \in Messages
<1>1. CASE job[t].kind = "note"
  <2>1. posting(t) = [type |-> "outgoing", private |-> TRUE, source |-> None, from |-> CallNote]
    BY <1>1 DEF posting
  <2>2. CallNote \in MsgIds
    BY DEF MsgIds
  <2> QED
    BY <1>1, <2>1, <2>2 DEF Events, shouldRelay
<1>2. CASE job[t].kind = "message"
  <2>1. PICK m \in Messages : m = job[t].msg
    BY <1>2, JobFacts DEF ThreadJob
  <2>2. m.id \in MsgIds
    BY MessageIds
  <2>3. CASE m.own
    <3>1. posting(t) = [type |-> "outgoing", private |-> TRUE, source |-> None, from |-> m.id]
      BY <1>2, <2>1, <2>3 DEF posting
    <3> QED
      BY <1>2, <2>1, <2>2, <3>1 DEF Events, shouldRelay
  <2>4. CASE ~m.own
    <3>1. PICK x \in MsgIds \cup {None} : x = IF ~m.media THEN m.id ELSE None
      BY <2>2
    <3>2. posting(t) = [type |-> "incoming", private |-> FALSE, source |-> x, from |-> m.id]
      BY <1>2, <2>1, <2>4, <3>1 DEF posting
    <3> QED
      BY <1>2, <2>1, <2>2, <3>2 DEF Events, shouldRelay
  <2> QED
    BY <2>3, <2>4
<1> QED
  BY <1>1, <1>2 DEF Talks

LEMMA PostInv ==
  ASSUME BridgeInv, NEW t \in Threads, post(t)
  PROVE  BridgeInv'
<1>1. /\ job[t].kind \in Talks
      /\ UNCHANGED <<cfg, mapping, seenIDs, sentIDs, contacts, convs, inbound, sent, configs, early, raced>>
      /\ Set(t, Idle)
  BY DEF post, At, local, whatsapp, Done
<1>2. CASE UNCHANGED <<posts, webhooks>>
  BY <1>1, <1>2, Unfold, TalkGoes DEF Done
<1>3. CASE /\ posts' = [posts EXCEPT ![posting(t).from] = @ + 1]
           /\ webhooks' = webhooks \cup {posting(t)}
  <2>1. /\ posting(t) \in Events /\ ~shouldRelay(posting(t)) /\ posting(t).from \in MsgIds
        /\ job[t].kind = "note" => posting(t).from = CallNote
        /\ job[t].kind = "message" => posting(t).from = job[t].msg.id /\ job[t].msg \in Messages
    BY <1>1, PostingFacts DEF Events
  <2>2. posts' \in [MsgIds -> Nat]
    BY <1>3, <2>1, Unfold
  <2>3. /\ job'[t] = Idle /\ \A u \in Threads \ {t} : job'[u] = job[u]
        /\ job' \in [Threads \cup {Configurer} -> Jobs] /\ JobsSound'
        /\ \A u \in Threads \cup {Configurer} : job'[u].conv \in 0 .. Len(convs')
        /\ job'[Configurer] = job[Configurer]
    <3>1. 0 \in 0 .. Len(convs') /\ Len(convs') \in Nat /\ Len(convs) <= Len(convs')
      BY <1>1, Unfold
    <3>2. Idle.conv \in 0 .. Len(convs')
      BY <3>1, IdleJob
    <3> QED
      BY <1>1, <3>1, <3>2, IdleJob, JobStep
  <2>4. TypeOK'
    BY <1>1, <1>3, <2>1, <2>2, <2>3 DEF BridgeInv, TypeOK
  <2>5. \A m \in Messages : posts[m.id] \in Nat /\ posts'[m.id] \in Nat
    BY <2>2, MessageIds, Unfold
  <2>6. \A m \in Messages : posts'[m.id] = IF m.id = posting(t).from THEN posts[m.id] + 1 ELSE posts[m.id]
    BY <1>3, MessageIds, Unfold
  <2>7. ASSUME job[t].kind = "note" PROVE SeenFirst' /\ PostedOnce' /\ EchoSuppressed'
    <3>1. \A m \in Messages : posts'[m.id] = posts[m.id]
      BY <2>1, <2>6, <2>7, MessageIds
    <3>2. SeenFirst' /\ PostedOnce'
      BY <1>1, <2>3, <3>1, IdleJob, SeenKept
    <3>3. EchoSuppressed'
      BY <1>1, <2>3, <3>1, IdleJob, MessagesAssumption, SuppressedKept
    <3> QED
      BY <3>2, <3>3
  <2>8. ASSUME job[t].kind = "message" PROVE SeenFirst' /\ PostedOnce' /\ EchoSuppressed'
    <3>1. PICK n \in Messages : n = job[t].msg /\ posting(t).from = n.id
      BY <2>1, <2>8
    <3>2. n.id \in seenIDs /\ posts[n.id] = 0
      BY <2>8, <3>1 DEF BridgeInv, SeenFirst
    <3>3. \A m \in Messages : IF m.id = n.id THEN posts'[m.id] = 1 ELSE posts'[m.id] = posts[m.id]
      BY <2>5, <2>6, <3>1, <3>2
    <3>4. PostedOnce'
      BY <3>3 DEF BridgeInv, PostedOnce
    <3>5. SeenFirst'
      <4>1. \A m \in Messages : posts'[m.id] > 0 => m.id \in seenIDs
        BY <3>2, <3>3 DEF BridgeInv, SeenFirst
      <4>2. ASSUME NEW u \in Threads, job'[u].kind = "message"
            PROVE  /\ job'[u].msg.id \in seenIDs /\ posts'[job'[u].msg.id] = 0
                   /\ \A v \in Threads \ {u} : job'[v].kind = "message" => job'[v].msg.id # job'[u].msg.id
        <5>1. u # t /\ job'[u] = job[u] /\ job[u].msg \in Messages
          BY <2>3, <4>2, IdleJob, JobFacts DEF ThreadJob
        <5>2. job[u].msg.id # n.id
          BY <2>8, <3>1, <4>2, <5>1 DEF BridgeInv, SeenFirst
        <5>3. job[u].msg.id \in seenIDs /\ posts'[job[u].msg.id] = 0
          BY <3>3, <4>2, <5>1, <5>2 DEF BridgeInv, SeenFirst
        <5>4. ASSUME NEW v \in Threads \ {u}, job'[v].kind = "message" PROVE job'[v].msg.id # job'[u].msg.id
          BY <2>3, <4>2, <5>1, <5>4, IdleJob DEF BridgeInv, SeenFirst
        <5> QED
          BY <5>1, <5>3, <5>4
      <4> QED
        BY <1>1, <4>1, <4>2 DEF SeenFirst
    <3>6. EchoSuppressed'
      <4> SUFFICES ASSUME NEW m \in Echoes, (\E u \in Threads : job'[u].msg = m) \/ posts'[m.id] > 0
                   PROVE  m.id \in early
        BY <1>1 DEF EchoSuppressed
      <4>1. m \in Messages /\ m # None
        BY MessagesAssumption DEF Messages
      <4>2. CASE posts'[m.id] > 0 /\ m.id # n.id
        BY <3>3, <4>1, <4>2 DEF BridgeInv, EchoSuppressed
      <4>3. CASE m.id = n.id
        <5>1. n \in Echoes
          <6>1. n \notin Incoming
            BY <4>3, MessagesAssumption
          <6> QED
            BY <6>1 DEF Messages
        <5> QED
          BY <3>1, <4>3, <5>1 DEF BridgeInv, EchoSuppressed
      <4>4. CASE \E u \in Threads : job'[u].msg = m
        BY <2>3, <4>1, <4>4, IdleJob DEF BridgeInv, EchoSuppressed
      <4> QED
        BY <4>2, <4>3, <4>4
    <3> QED
      BY <3>4, <3>5, <3>6
  <2>9. EchoesMarked'
    <3>1. ~At(t, {"webhook"}, "mark")
      BY <1>1 DEF At, Talks
    <3> QED
      BY <1>1, <2>3, <3>1, MarksKept
  <2>10. MappingsFollow'
    <3>1. Idle.kind \notin Talks
      BY IdleJob DEF Talks
    <3> QED
      BY <1>1, <2>3, <3>1, FollowKept
  <2>11. RelayableFromAgents' /\ OnlyAgentsSpeak'
    BY <1>1, <1>3, <2>1 DEF BridgeInv, RelayableFromAgents, shouldRelay, OnlyAgentsSpeak
  <2> QED
    BY <1>1, <2>3, <2>4, <2>7, <2>8, <2>9, <2>10, <2>11 DEF BridgeInv, Talks
<1> QED
  BY <1>2, <1>3 DEF post

LEMMA CallConversationInv ==
  ASSUME BridgeInv, NEW t \in Threads, callConversation(t)
  PROVE  BridgeInv'
<1>1. /\ job[t] = Idle /\ cfg.inbox # None
      /\ UNCHANGED <<cfg, mapping, seenIDs, sentIDs, contacts, convs, posts, webhooks, inbound, sent, configs, early>>
      /\ raced' = (raced \/ job[Configurer] # Idle)
  BY DEF callConversation, local, remote, whatsapp
<1>2. PICK f : f = [Idle EXCEPT !.kind = "note", !.pc = "lookup", !.inbox = cfg.inbox, !.chat = "pn"]
  OBVIOUS
<1>3. /\ f \in Jobs /\ f.kind = "note" /\ f.pc = "lookup" /\ f.inbox = cfg.inbox /\ f.chat = "pn"
      /\ f.msg = None /\ f.conv = 0
  BY <1>1, <1>2 DEF Idle, Jobs, Chats, BridgeInv, TypeOK
<1>4. cfg.inbox \in Inboxes /\ f # Idle /\ ThreadJob(f)
  <2>1. cfg.inbox \in Inboxes
    BY <1>1 DEF BridgeInv, TypeOK
  <2>2. None \notin Messages
    BY MessagesAssumption
  <2> QED
    BY <1>3, <2>1, <2>2, IdleJob DEF ThreadJob, Talks, Chats
<1>5. /\ job'[t] = f /\ \A u \in Threads \ {t} : job'[u] = job[u]
      /\ job' \in [Threads \cup {Configurer} -> Jobs] /\ JobsSound'
      /\ \A u \in Threads \cup {Configurer} : job'[u].conv \in 0 .. Len(convs')
      /\ job'[Configurer] = job[Configurer]
  <2>1. 0 \in 0 .. Len(convs') /\ Len(convs') \in Nat /\ Len(convs) <= Len(convs')
    BY <1>1, Unfold
  <2>2. f.conv \in 0 .. Len(convs')
    BY <1>3, <2>1
  <2>3. Set(t, f)
    BY <1>2 DEF callConversation
  <2> QED
    BY <1>3, <1>4, <2>1, <2>2, <2>3, JobStep
<1>6. TypeOK'
  BY <1>1, <1>5 DEF BridgeInv, TypeOK
<1>7. SeenFirst' /\ PostedOnce'
  BY <1>1, <1>3, <1>5, SeenKept
<1>8. EchoesMarked'
  <2>1. ~At(t, {"webhook"}, "mark")
    BY <1>1, IdleJob DEF At
  <2> QED
    BY <1>1, <1>5, <2>1, MarksKept
<1>9. EchoSuppressed'
  BY <1>1, <1>3, <1>5, MessagesAssumption, SuppressedKept
<1>10. MappingsFollow'
  <2> SUFFICES ASSUME ~raced' PROVE
      /\ job'[Configurer] = Idle
      /\ \A u \in Threads : job'[u].kind \in Talks =>
           /\ job'[u].inbox = cfg.inbox
           /\ job'[u].pc = "save" => convs[job'[u].conv].inbox = cfg.inbox /\ job'[u].conv # 0
      /\ \A c \in Chats : mapping[c] # 0 => convs[mapping[c]].inbox = Target'
    BY <1>1 DEF MappingsFollow
  <2>1. job[Configurer] = Idle /\ ~raced /\ job'[Configurer] = Idle /\ Target' = Target
        /\ job[Configurer].pc # "clear"
    BY <1>1, <1>5, IdleJob DEF Target
  <2> QED
    BY <1>3, <1>5, <2>1 DEF BridgeInv, MappingsFollow
<1>11. RelayableFromAgents' /\ OnlyAgentsSpeak'
  BY <1>1 DEF BridgeInv, RelayableFromAgents, shouldRelay, OnlyAgentsSpeak
<1> QED
  BY <1>1, <1>5, <1>6, <1>7, <1>8, <1>9, <1>10, <1>11 DEF BridgeInv

(* A step that leaves the goroutines, the configuration and what was seen alone. *)
LEMMA QuietInv ==
  ASSUME BridgeInv, UNCHANGED <<cfg, mapping, seenIDs, sentIDs, contacts, sent, job, configs, early, raced>>,
         convs' \in Seq(Conversations), Len(convs') >= Len(convs),
         \A i \in 1 .. Len(convs) : convs'[i].inbox = convs[i].inbox,
         posts' \in [MsgIds -> Nat], \A m \in Messages : posts'[m.id] = posts[m.id],
         webhooks' \subseteq Events, \A p \in webhooks' \ webhooks : p.from \in Agents,
         inbound' \subseteq Messages, inbound' \cap Echoes \subseteq inbound
  PROVE  BridgeInv'
<1>1. \A u \in Threads \cup {Configurer} : job'[u].conv \in 0 .. Len(convs')
  <2>1. Len(convs) \in Nat /\ Len(convs') \in Nat
    BY Unfold
  <2> QED
    BY <2>1 DEF BridgeInv, TypeOK
<1>2. TypeOK'
  <2>1. mapping \in [Chats -> 0 .. Len(convs')]
    <3>1. Len(convs) \in Nat /\ Len(convs') \in Nat /\ mapping \in [Chats -> 0 .. Len(convs)]
      BY Unfold
    <3> QED
      BY <3>1
  <2> QED
    BY <1>1, <2>1 DEF BridgeInv, TypeOK
<1>3. JobsSound'
  BY DEF BridgeInv, JobsSound, ThreadJob, ConfigurerJob
<1>4. SeenFirst' /\ PostedOnce'
  BY SeenKept
<1>5. EchoesMarked'
  BY MarksKept
<1>6. EchoSuppressed'
  BY SuppressedKept
<1>7. MappingsFollow'
  BY FollowKept
<1>8. RelayableFromAgents' /\ OnlyAgentsSpeak'
  BY DEF BridgeInv, RelayableFromAgents, shouldRelay, OnlyAgentsSpeak
<1> QED
  BY <1>2, <1>3, <1>4, <1>5, <1>6, <1>7, <1>8 DEF BridgeInv

(* The job of a goroutine that takes the message m. *)
Taking(m, chat) == [Idle EXCEPT !.kind = "message", !.pc = "lookup", !.msg = m,
                                !.inbox = cfg.inbox, !.chat = chat]

LEMMA TakingFacts ==
  ASSUME NEW m \in Messages, NEW chat \in Chats, cfg.inbox \in Inboxes, NEW f, f = Taking(m, chat)
  PROVE  /\ f \in Jobs /\ f.kind = "message" /\ f.pc = "lookup" /\ f.inbox = cfg.inbox /\ f.chat = chat
         /\ f.msg = m /\ f.conv = 0
<1>1. PICK i \in Inboxes : i = cfg.inbox
  OBVIOUS
<1>2. f = [kind |-> "message", pc |-> "lookup", msg |-> m, inbox |-> i, chat |-> chat,
           conv |-> 0, left |-> <<>>]
  BY <1>1 DEF Taking, Idle
<1>3. <<>> \in Seq(Kinds)
  OBVIOUS
<1> QED
  BY <1>1, <1>2, <1>3 DEF Jobs

(* The goroutine t takes the message m. *)
Taken(t, m) ==
  /\ m.addr \in Chats /\ ~(m.own /\ m.id \in sentIDs) /\ cfg.inbox # None /\ m.id \notin seenIDs
  /\ alreadySeen(m)
  /\ Set(t, Taking(m, chatTarget(m)))
  /\ early' = early \cup {sentID(u) : u \in {v \in Threads : At(v, {"webhook"}, "mark")}}
  /\ raced' = (raced \/ job[Configurer] # Idle)

LEMMA IncomingInv ==
  ASSUME BridgeInv, NEW t \in Threads, handleIncomingMessage(t)
  PROVE  BridgeInv'
<1>1. PICK m \in inbound : /\ inbound' = inbound \ {m}
                           /\ Taken(t, m) \/ UNCHANGED <<seenIDs, job, early, raced>>
  BY DEF handleIncomingMessage, Taken, Taking
<1>2. /\ job[t] = Idle /\ m \in Messages
      /\ UNCHANGED <<cfg, mapping, sentIDs, contacts, convs, posts, webhooks, sent, configs>>
  BY Unfold DEF handleIncomingMessage, remote, counters
<1>3. CASE UNCHANGED <<seenIDs, job, early, raced>>
  <2>1. inbound' \subseteq Messages /\ inbound' \cap Echoes \subseteq inbound
    BY <1>1, Unfold
  <2> QED
    BY <1>2, <1>3, <2>1, Unfold, QuietInv
<1>4. CASE Taken(t, m)
  <2>1. /\ m.addr \in Chats /\ ~(m.own /\ m.id \in sentIDs) /\ cfg.inbox # None /\ m.id \notin seenIDs
        /\ seenIDs' = seenIDs \cup {m.id}
        /\ early' = early \cup {sentID(u) : u \in {v \in Threads : At(v, {"webhook"}, "mark")}}
        /\ raced' = (raced \/ job[Configurer] # Idle)
    BY <1>4 DEF Taken, alreadySeen
  <2>2. PICK chat \in Chats : chat = chatTarget(m)
    BY <2>1 DEF chatTarget, Chats
  <2>3. PICK f : f = Taking(m, chat)
    OBVIOUS
  <2>4. cfg.inbox \in Inboxes
    BY <2>1 DEF BridgeInv, TypeOK
  <2>5. /\ f \in Jobs /\ f.kind = "message" /\ f.pc = "lookup" /\ f.inbox = cfg.inbox /\ f.chat = chat
        /\ f.msg = m /\ f.conv = 0
    BY <1>2, <2>3, <2>4, TakingFacts
  <2>6. f # Idle /\ ThreadJob(f)
    BY <1>2, <2>4, <2>5, IdleJob DEF ThreadJob, Talks
  <2>7. /\ job'[t] = f /\ \A u \in Threads \ {t} : job'[u] = job[u]
        /\ job' \in [Threads \cup {Configurer} -> Jobs] /\ JobsSound'
        /\ \A u \in Threads \cup {Configurer} : job'[u].conv \in 0 .. Len(convs')
        /\ job'[Configurer] = job[Configurer]
    <3>1. 0 \in 0 .. Len(convs') /\ Len(convs') \in Nat /\ Len(convs) <= Len(convs')
      BY <1>2, Unfold
    <3>2. f.conv \in 0 .. Len(convs')
      BY <2>5, <3>1
    <3>3. Set(t, f)
      BY <1>4, <2>2, <2>3 DEF Taken
    <3> QED
      BY <2>5, <2>6, <3>1, <3>2, <3>3, JobStep
  <2>8. TypeOK'
    BY <1>1, <1>2, <2>7 DEF BridgeInv, TypeOK
  <2>9. posts[m.id] = 0
    <3>1. posts[m.id] \in Nat
      BY <1>2, MessageIds, Unfold
    <3>2. ~(posts[m.id] > 0)
      BY <1>2, <2>1 DEF BridgeInv, SeenFirst
    <3> QED
      BY <3>1, <3>2
  <2>10. SeenFirst' /\ PostedOnce'
    <3>1. PostedOnce' /\ \A n \in Messages : posts'[n.id] > 0 => n.id \in seenIDs'
      BY <1>2, <2>1 DEF BridgeInv, PostedOnce, SeenFirst
    <3>2. ASSUME NEW u \in Threads, job'[u].kind = "message"
          PROVE  /\ job'[u].msg.id \in seenIDs' /\ posts'[job'[u].msg.id] = 0
                 /\ \A v \in Threads \ {u} : job'[v].kind = "message" => job'[v].msg.id # job'[u].msg.id
      <4>1. \A v \in Threads \ {t} : job'[v].kind = "message" =>
               /\ job'[v].msg.id \in seenIDs /\ posts[job'[v].msg.id] = 0
               /\ \A z \in Threads \ {v} : job[z].kind = "message" => job[z].msg.id # job'[v].msg.id
        BY <2>7 DEF BridgeInv, SeenFirst
      <4>2. CASE u = t
        BY <1>2, <2>1, <2>5, <2>7, <2>9, <4>1, <4>2
      <4>3. CASE u # t
        BY <1>2, <2>1, <2>5, <2>7, <3>2, <4>1, <4>3
      <4> QED
        BY <4>2, <4>3
    <3> QED
      BY <3>1, <3>2 DEF SeenFirst
  <2>11. EchoesMarked'
    <3>1. ~At(t, {"webhook"}, "mark")
      BY <1>2, IdleJob DEF At
    <3> QED
      BY <1>1, <1>2, <2>7, <3>1, MarksKept
  <2>12. EchoSuppressed'
    <3> SUFFICES ASSUME NEW e \in Echoes, (\E u \in Threads : job'[u].msg = e) \/ posts'[e.id] > 0
                 PROVE  e.id \in early'
      BY DEF EchoSuppressed
    <3>1. CASE (\E u \in Threads : job[u].msg = e) \/ posts[e.id] > 0
      BY <2>1, <3>1 DEF BridgeInv, EchoSuppressed
    <3>2. CASE e = m
      <4>1. e.id \notin sentIDs
        BY <2>1, <3>2, EchoIds
      <4>2. PICK u \in Threads : At(u, {"webhook"}, "mark") /\ sentID(u) = e.id
        BY <1>1, <3>2, <4>1 DEF BridgeInv, EchoesMarked
      <4> QED
        BY <2>1, <4>2
    <3> QED
      BY <1>2, <2>5, <2>7, <3>1, <3>2
  <2>13. MappingsFollow'
    <3> SUFFICES ASSUME ~raced' PROVE
        /\ job'[Configurer] = Idle
        /\ \A u \in Threads : job'[u].kind \in Talks =>
             /\ job'[u].inbox = cfg.inbox
             /\ job'[u].pc = "save" => convs[job'[u].conv].inbox = cfg.inbox /\ job'[u].conv # 0
        /\ \A c \in Chats : mapping[c] # 0 => convs[mapping[c]].inbox = Target'
      BY <1>2 DEF MappingsFollow
    <3>1. job[Configurer] = Idle /\ ~raced /\ job'[Configurer] = Idle /\ Target' = Target
          /\ job[Configurer].pc # "clear"
      BY <1>2, <2>1, <2>7, IdleJob DEF Target
    <3> QED
      BY <2>5, <2>7, <3>1 DEF BridgeInv, MappingsFollow
  <2>14. RelayableFromAgents' /\ OnlyAgentsSpeak'
    BY <1>2 DEF BridgeInv, RelayableFromAgents, shouldRelay, OnlyAgentsSpeak
  <2> QED
    BY <1>2, <2>7, <2>8, <2>10, <2>11, <2>12, <2>13, <2>14 DEF BridgeInv
<1> QED
  BY <1>1, <1>3, <1>4

-----------------------------------------------------------------------------
(* What others do. *)

LEMMA RedeliverInv ==
  ASSUME BridgeInv, Redeliver
  PROVE  BridgeInv'
<1>1. UNCHANGED <<cfg, mapping, seenIDs, sentIDs, contacts, convs, posts, webhooks, sent, job, configs, early, raced>>
  BY DEF Redeliver, local, remote
<1>2. PICK m \in Incoming : inbound' = inbound \cup {m}
  BY DEF Redeliver
<1>3. m \notin Echoes
  BY MessagesAssumption
<1>4. inbound' \subseteq Messages /\ inbound' \cap Echoes \subseteq inbound
  BY <1>2, <1>3, Unfold DEF Messages
<1> QED
  BY <1>1, <1>4, Unfold, QuietInv

LEMMA ResolveInv ==
  ASSUME BridgeInv, Resolve
  PROVE  BridgeInv'
<1>1. UNCHANGED <<cfg, mapping, seenIDs, sentIDs, contacts, posts, webhooks, inbound, sent, job, configs, early, raced>>
  BY DEF Resolve, local, whatsapp, counters
<1>2. PICK i \in DOMAIN convs : convs' = [convs EXCEPT ![i].open = FALSE]
  BY DEF Resolve
<1>3. convs' = [convs EXCEPT ![i] = [@ EXCEPT !.open = FALSE]]
  BY <1>2
<1>4. PICK c \in Conversations : c = [convs[i] EXCEPT !.open = FALSE] /\ c.inbox = convs[i].inbox
  <2>1. PICK d \in Conversations : d = convs[i]
    BY Unfold
  <2>2. [d EXCEPT !.open = FALSE] \in Conversations /\ [d EXCEPT !.open = FALSE].inbox = d.inbox
    BY DEF Conversations
  <2> QED
    BY <2>1, <2>2
<1>5. convs' = [convs EXCEPT ![i] = c]
  BY <1>3, <1>4
<1>6. /\ convs' \in Seq(Conversations) /\ Len(convs') = Len(convs)
      /\ \A j \in 1 .. Len(convs) : convs'[j].inbox = convs[j].inbox
  BY <1>4, <1>5, Unfold
<1> QED
  BY <1>1, <1>6, Unfold, QuietInv

LEMMA AgentWritesInv ==
  ASSUME BridgeInv, AgentWrites
  PROVE  BridgeInv'
<1>1. UNCHANGED <<cfg, mapping, seenIDs, sentIDs, contacts, inbound, sent, job, configs, early, raced>>
  BY DEF AgentWrites, local, whatsapp, counters
<1>2. PICK a \in Agents :
         /\ posts' = [posts EXCEPT ![a] = 1]
         /\ webhooks' = webhooks \cup {[type |-> "outgoing", private |-> FALSE, source |-> None, from |-> a]}
  BY DEF AgentWrites
<1>3. a \in MsgIds
  BY DEF MsgIds
<1>4. posts' \in [MsgIds -> Nat] /\ \A m \in Messages : posts'[m.id] = posts[m.id]
  <2>1. \A m \in Messages : m.id # a /\ m.id \in MsgIds
    BY MessageIds
  <2> QED
    BY <1>2, <1>3, <2>1, Unfold
<1>5. webhooks' \subseteq Events /\ \A p \in webhooks' \ webhooks : p.from \in Agents
  <2>1. PICK p : p = [type |-> "outgoing", private |-> FALSE, source |-> None, from |-> a]
    OBVIOUS
  <2>2. p \in Events /\ p.from = a
    BY <1>3, <2>1 DEF Events
  <2>3. webhooks' = webhooks \cup {p}
    BY <1>2, <2>1
  <2> QED
    BY <2>2, <2>3, Unfold
<1>6. /\ convs' \in Seq(Conversations) /\ Len(convs') >= Len(convs)
      /\ \A j \in 1 .. Len(convs) : convs'[j].inbox = convs[j].inbox
  <2>1. cfg.inbox \in Inboxes
    BY DEF AgentWrites, BridgeInv, TypeOK
  <2>2. PICK c \in Conversations : c = [inbox |-> cfg.inbox, chat |-> "pn", open |-> TRUE]
    BY <2>1 DEF Conversations, Chats
  <2>3. convs' = convs \/ convs' = Append(convs, c)
    BY <2>2 DEF AgentWrites
  <2>4. ASSUME convs' = Append(convs, c)
        PROVE  /\ convs' \in Seq(Conversations) /\ Len(convs') = Len(convs) + 1
               /\ \A j \in 1 .. Len(convs) : convs'[j] = convs[j]
    BY <2>4, Unfold
  <2>5. CASE convs' = Append(convs, c)
    BY <2>4, <2>5, Unfold
  <2>6. CASE convs' = convs
    BY <2>6, Unfold
  <2> QED
    BY <2>3, <2>5, <2>6
<1> QED
  BY <1>1, <1>4, <1>5, <1>6, Unfold, QuietInv

-----------------------------------------------------------------------------
(* Chatwoot -> WhatsApp. *)

LEMMA AgentParts ==
  ASSUME NEW p \in Events, p.from \in Agents
  PROVE  parts(p) \in Seq(Kinds) /\ parts(p) # <<>>
<1>1. PICK a \in DOMAIN AgentMsgs : p.from = <<"agent", a, 0>>
  BY DEF Agents
<1>2. p.from[2] = a
  BY <1>1
<1>3. AgentMsgs[a] \in Seq(Kinds)
  <2>1. PICK k \in Seq(Kinds \ {"text"}) : k = AgentMsgs[a]
    BY AgentAssumption
  <2>2. Len(k) \in Nat /\ k = [i \in 1 .. Len(k) |-> k[i]] /\ \A i \in 1 .. Len(k) : k[i] \in Kinds
    BY <2>1
  <2>3. k \in Seq(Kinds)
    BY <2>2
  <2> QED
    BY <2>1, <2>3
<1>4. PICK k \in Seq(Kinds) : k = AgentMsgs[a]
  BY <1>3
<1>5. parts(p) = IF k = <<>> THEN <<"text">> ELSE k
  BY <1>2, <1>4 DEF parts
<1>6. <<"text">> \in Seq(Kinds) /\ <<"text">> # <<>>
  <2>1. PICK x \in Kinds : x = "text"
    BY DEF Kinds
  <2>2. <<x>> \in Seq(Kinds) /\ <<x>> # <<>>
    OBVIOUS
  <2> QED
    BY <2>1, <2>2
<1> QED
  BY <1>4, <1>5, <1>6

(* A goroutine that serves the webhook. *)
LEMMA ServeStep ==
  ASSUME BridgeInv, NEW t \in Threads,
         UNCHANGED <<cfg, mapping, seenIDs, contacts, convs, posts, configs, early, raced>>,
         webhooks' \subseteq webhooks, inbound' \subseteq Messages,
         NEW f \in Jobs, Set(t, f), f.conv \in 0 .. Len(convs),
         f = Idle \/ (f.kind = "webhook" /\ f.msg.from \in Agents /\ f.msg \notin Messages /\ f.left # <<>>),
         EchoesMarked', OnlyAgentsSpeak'
  PROVE  BridgeInv'
<1>1. ThreadJob(f) /\ f.kind \notin Talks /\ f.msg \notin Messages /\ f.kind # "message"
  <2>1. CASE f = Idle
    BY <2>1, IdleJob, MessagesAssumption DEF Talks
  <2>2. CASE f # Idle
    BY <2>2 DEF ThreadJob, Talks
  <2> QED
    BY <2>1, <2>2
<1>2. /\ job'[t] = f /\ \A u \in Threads \ {t} : job'[u] = job[u]
      /\ job' \in [Threads \cup {Configurer} -> Jobs] /\ JobsSound'
      /\ \A u \in Threads \cup {Configurer} : job'[u].conv \in 0 .. Len(convs')
      /\ job'[Configurer] = job[Configurer]
  <2>1. f.conv \in 0 .. Len(convs') /\ Len(convs') \in Nat /\ Len(convs) <= Len(convs')
    BY Unfold
  <2> QED
    BY <1>1, <2>1, JobStep
<1>3. TypeOK'
  BY <1>2 DEF BridgeInv, TypeOK
<1>4. SeenFirst' /\ PostedOnce'
  BY <1>1, <1>2, SeenKept
<1>5. EchoSuppressed'
  BY <1>1, <1>2, SuppressedKept
<1>6. MappingsFollow'
  BY <1>1, <1>2, FollowKept
<1>7. RelayableFromAgents'
  BY DEF BridgeInv, RelayableFromAgents, shouldRelay
<1> QED
  BY <1>2, <1>3, <1>4, <1>5, <1>6, <1>7 DEF BridgeInv

(* The job of a goroutine that serves the event p. *)
Serving(p) == [Idle EXCEPT !.kind = "webhook", !.pc = "send", !.msg = p, !.left = parts(p)]

LEMMA WebhookInv ==
  ASSUME BridgeInv, NEW t \in Threads, handleChatwootWebhook(t)
  PROVE  BridgeInv'
<1>1. PICK p \in webhooks : /\ shouldRelay(p) /\ webhooks' = webhooks \ {p}
                            /\ Set(t, Serving(p)) \/ UNCHANGED job
  BY DEF handleChatwootWebhook, Serving
<1>2. /\ job[t] = Idle
      /\ UNCHANGED <<cfg, mapping, seenIDs, sentIDs, contacts, convs, posts, inbound, sent, configs, early, raced>>
  BY DEF handleChatwootWebhook, local, whatsapp, counters
<1>3. CASE UNCHANGED job
  <2>1. webhooks' \subseteq Events /\ webhooks' \ webhooks = {}
    BY <1>1, Unfold
  <2> QED
    BY <1>2, <1>3, <2>1, Unfold, QuietInv
<1>4. CASE Set(t, Serving(p))
  <2>1. p \in Events /\ p.from \in Agents /\ p \notin Messages
    BY <1>1, Unfold, MessageIds DEF BridgeInv, RelayableFromAgents
  <2>2. PICK k \in Seq(Kinds) : k = parts(p) /\ k # <<>>
    BY <2>1, AgentParts
  <2>3. PICK f : f = Serving(p)
    OBVIOUS
  <2>4. f = [kind |-> "webhook", pc |-> "send", msg |-> p, inbox |-> None, chat |-> None, conv |-> 0, left |-> k]
    BY <2>2, <2>3 DEF Serving, Idle
  <2>5. /\ f \in Jobs /\ f.kind = "webhook" /\ f.pc = "send" /\ f.msg = p /\ f.conv = 0 /\ f.left = k
    BY <2>1, <2>4 DEF Jobs
  <2>6. Set(t, f)
    BY <1>4, <2>3
  <2>7. EchoesMarked'
    <3>1. ~At(t, {"webhook"}, "mark")
      BY <1>2, IdleJob DEF At
    <3>2. \A u \in Threads : job'[u] = job[u] \/ u = t
      BY <2>6, JobFacts DEF Set, BridgeInv, TypeOK
    <3> QED
      BY <1>2, <3>1, <3>2, MarksKept
  <2>8. OnlyAgentsSpeak'
    BY <1>2 DEF BridgeInv, OnlyAgentsSpeak
  <2>9. webhooks' \subseteq webhooks /\ inbound' \subseteq Messages
    BY <1>1, <1>2, Unfold
  <2>10. f.conv \in 0 .. Len(convs)
    BY <2>5, Unfold
  <2> QED
    BY <1>2, <2>1, <2>2, <2>5, <2>6, <2>7, <2>8, <2>9, <2>10, ServeStep
<1> QED
  BY <1>1, <1>3, <1>4

LEMMA ServerFacts ==
  ASSUME BridgeInv, NEW t \in Threads, job[t].kind = "webhook"
  PROVE  /\ job[t].msg.from \in Agents /\ job[t].msg \notin Messages /\ job[t].left # <<>>
         /\ job[t].left \in Seq(Kinds) /\ job[t].kind \notin Talks
BY JobFacts DEF ThreadJob, Jobs, Talks

(* A goroutine that ends. *)
LEMMA IdleConv ==
  ASSUME BridgeInv
  PROVE  Idle.conv \in 0 .. Len(convs)
<1>1. 0 \in 0 .. Len(convs)
  BY Unfold
<1> QED
  BY <1>1, IdleJob

LEMMA SendInv ==
  ASSUME BridgeInv, NEW t \in Threads, sendPart(t)
  PROVE  BridgeInv'
<1>1. /\ job[t].kind = "webhook" /\ job[t].pc = "send"
      /\ UNCHANGED <<cfg, mapping, seenIDs, sentIDs, contacts, convs, posts, webhooks, configs, early, raced>>
  BY DEF sendPart, At, local, remote
<1>2. \A u \in Threads : job'[u] = job[u] \/ u = t
  BY DEF sendPart, Done, Go, Set, BridgeInv, TypeOK
<1>3. ~At(t, {"webhook"}, "mark")
  BY <1>1 DEF At
<1>4. CASE Done(t) /\ UNCHANGED whatsapp
  <2>1. inbound' = inbound /\ sent' = sent /\ Set(t, Idle)
    BY <1>4 DEF whatsapp, Done
  <2>2. EchoesMarked'
    BY <1>1, <1>2, <1>3, <2>1, MarksKept
  <2>3. OnlyAgentsSpeak'
    BY <2>1 DEF BridgeInv, OnlyAgentsSpeak
  <2> QED
    BY <1>1, <2>1, <2>2, <2>3, Unfold, IdleJob, IdleConv, ServeStep
<1>5. ASSUME NEW p, p.from = job[t].msg.from, sent' = sent \cup {p},
             inbound' = inbound \cup {m \in Echoes : m.id = sentID(t)}, Go(t, "mark")
      PROVE  BridgeInv'
  <2>1. PICK f : f = [job[t] EXCEPT !.pc = "mark"]
    OBVIOUS
  <2>2. /\ f \in Jobs /\ f.pc = "mark" /\ f.kind = job[t].kind /\ f.msg = job[t].msg
        /\ f.conv = job[t].conv /\ f.left = job[t].left
    BY <2>1, GoFacts DEF Steps
  <2>3. Set(t, f) /\ job'[t] = f
    BY <1>5, <2>1 DEF Go, Set, BridgeInv, TypeOK
  <2>4. EchoesMarked'
    <3> SUFFICES ASSUME NEW m \in Echoes, m \in inbound', m.id \notin sentIDs'
                 PROVE  \E u \in Threads : At(u, {"webhook"}, "mark")' /\ sentID(u)' = m.id
      BY DEF EchoesMarked
    <3>1. CASE m.id = sentID(t)
      BY <1>1, <2>2, <2>3, <3>1 DEF At, sentID
    <3>2. CASE m \in inbound
      <4>1. PICK u \in Threads : At(u, {"webhook"}, "mark") /\ sentID(u) = m.id
        BY <1>1, <3>2 DEF BridgeInv, EchoesMarked
      <4>2. job'[u] = job[u]
        BY <1>2, <1>3, <4>1
      <4> QED
        BY <4>1, <4>2 DEF At, sentID
    <3> QED
      BY <1>5, <3>1, <3>2
  <2>5. OnlyAgentsSpeak'
    BY <1>1, <1>5, ServerFacts DEF BridgeInv, OnlyAgentsSpeak
  <2>6. webhooks' \subseteq webhooks /\ inbound' \subseteq Messages /\ f.conv \in 0 .. Len(convs)
    BY <1>1, <1>5, <2>2, JobFacts, Unfold DEF Messages
  <2> QED
    BY <1>1, <2>2, <2>3, <2>4, <2>5, <2>6, ServerFacts, ServeStep
<1>6. \/ Done(t) /\ UNCHANGED whatsapp
      \/ \E p : /\ p.from = job[t].msg.from /\ sent' = sent \cup {p}
                /\ inbound' = inbound \cup {m \in Echoes : m.id = sentID(t)} /\ Go(t, "mark")
  BY DEF sendPart
<1> QED
  BY <1>4, <1>5, <1>6

LEMMA TailFacts ==
  ASSUME NEW S, NEW k \in Seq(S), k # <<>>, Len(k) # 1
  PROVE  Tail(k) \in Seq(S) /\ Tail(k) # <<>>
<1>1. Len(k) \in Nat /\ Len(k) # 0
  OBVIOUS
<1>2. Len(k) > 1
  BY <1>1
<1>6. Tail(k) \in Seq(S) /\ Len(Tail(k)) = Len(k) - 1
  BY <1>2
<1>3. PICK r \in Seq(S) : r = Tail(k)
  BY <1>6
<1>4. Len(r) # 0
  BY <1>1, <1>2, <1>3, <1>6
<1>5. r # <<>>
  BY <1>4
<1> QED
  BY <1>3, <1>5

LEMMA MarkInv ==
  ASSUME BridgeInv, NEW t \in Threads, markPart(t)
  PROVE  BridgeInv'
<1>1. /\ job[t].kind = "webhook" /\ sentIDs' = sentIDs \cup {sentID(t)}
      /\ UNCHANGED <<cfg, mapping, seenIDs, contacts, convs, posts, webhooks, inbound, sent, configs, early, raced>>
  BY DEF markPart, At, remote, whatsapp, counters, markSelfSent
<1>2. \A u \in Threads : job'[u] = job[u] \/ u = t
  BY DEF markPart, Done, Set, BridgeInv, TypeOK
<1>3. EchoesMarked'
  <2> SUFFICES ASSUME NEW m \in Echoes, m \in inbound', m.id \notin sentIDs'
               PROVE  \E u \in Threads : At(u, {"webhook"}, "mark")' /\ sentID(u)' = m.id
    BY DEF EchoesMarked
  <2>1. PICK u \in Threads : At(u, {"webhook"}, "mark") /\ sentID(u) = m.id
    BY <1>1 DEF BridgeInv, EchoesMarked
  <2>2. job'[u] = job[u]
    BY <1>1, <1>2, <2>1
  <2> QED
    BY <2>1, <2>2 DEF At, sentID
<1>4. OnlyAgentsSpeak'
  BY <1>1 DEF BridgeInv, OnlyAgentsSpeak
<1>5. CASE Done(t)
  BY <1>1, <1>3, <1>4, <1>5, Unfold, IdleJob, IdleConv, ServeStep DEF Done
<1>6. ASSUME Len(job[t].left) # 1, Set(t, [job[t] EXCEPT !.left = Tail(@), !.pc = "send"])
      PROVE  BridgeInv'
  <2>1. PICK j \in Jobs : j = job[t]
    BY JobFacts
  <2>2. PICK k \in Seq(Kinds) : k = j.left /\ k # <<>> /\ Len(k) # 1
    BY <1>1, <1>6, <2>1, ServerFacts
  <2>3. PICK r \in Seq(Kinds) : r = Tail(k) /\ r # <<>>
    BY <2>2, TailFacts
  <2>4. PICK f : f = [j EXCEPT !.left = r, !.pc = "send"]
    OBVIOUS
  <2>5. f \in Jobs /\ f.kind = j.kind /\ f.msg = j.msg /\ f.conv = j.conv /\ f.left = r
    BY <2>4 DEF Jobs
  <2>6. f = [j EXCEPT !.left = Tail(@), !.pc = "send"]
    BY <2>2, <2>3, <2>4
  <2>7. Set(t, f)
    BY <1>6, <2>1, <2>6
  <2>8. f.kind = "webhook" /\ f.msg.from \in Agents /\ f.msg \notin Messages /\ f.left # <<>>
    BY <1>1, <2>1, <2>3, <2>5, ServerFacts
  <2>9. f.conv \in 0 .. Len(convs)
    BY <2>1, <2>5, JobFacts
  <2>10. webhooks' \subseteq webhooks /\ inbound' \subseteq Messages
    BY <1>1, Unfold
  <2> QED
    BY <1>1, <1>3, <1>4, <2>5, <2>7, <2>8, <2>9, <2>10, ServeStep
<1> QED
  BY <1>5, <1>6 DEF markPart

-----------------------------------------------------------------------------
(* The configuration. *)

(* The configurer changes its own job, the configuration and the mappings. *)
LEMMA ConfigureStep ==
  ASSUME BridgeInv,
         UNCHANGED <<seenIDs, sentIDs, contacts, convs, posts, webhooks, inbound, sent, early>>,
         NEW f \in Jobs, Set(Configurer, f), ConfigurerJob(f),
         configs' \in 1 .. MaxConfigs, cfg' \in [inbox : Inboxes \cup {None}, secret : 0 .. MaxConfigs],
         cfg'.inbox = None <=> cfg'.secret = 0,
         mapping' \in [Chats -> 0 .. Len(convs)],
         \/ raced'
         \/ /\ ~raced /\ ~Busy
            /\ f.pc # "clear" => \A c \in Chats : mapping'[c] # 0 =>
                  convs[mapping'[c]].inbox = IF f.pc = "write" THEN f.inbox ELSE cfg'.inbox
  PROVE  BridgeInv'
<1>1. /\ job'[Configurer] = f /\ \A u \in Threads : job'[u] = job[u]
      /\ job' \in [Threads \cup {Configurer} -> Jobs]
  BY ThreadsAssumption DEF Set, BridgeInv, TypeOK
<1>2. \A u \in Threads \cup {Configurer} : job'[u].conv \in 0 .. Len(convs')
  <2>1. 0 \in 0 .. Len(convs) /\ f.conv = 0
    BY Unfold DEF ConfigurerJob
  <2> QED
    BY <1>1, <2>1, JobFacts
<1>3. TypeOK'
  BY <1>1, <1>2 DEF BridgeInv, TypeOK
<1>4. JobsSound'
  BY <1>1 DEF BridgeInv, JobsSound, ThreadJob, ConfigurerJob
<1>5. SeenFirst' /\ PostedOnce'
  BY <1>1, SeenKept
<1>6. EchoesMarked'
  BY <1>1, MarksKept
<1>7. EchoSuppressed'
  BY <1>1, SuppressedKept
<1>8. MappingsFollow'
  <2> SUFFICES ASSUME ~raced'
               PROVE  /\ Busy' => job'[Configurer] = Idle
                      /\ \A t \in Threads : job'[t].kind \notin Talks
                      /\ job'[Configurer].pc # "clear" =>
                           \A c \in Chats : mapping'[c] # 0 => convs[mapping'[c]].inbox = Target'
    BY DEF MappingsFollow
  <2>1. ~Busy /\ \A t \in Threads : job'[t].kind \notin Talks
    BY <1>1 DEF Busy
  <2>2. ~Busy'
    BY <2>1 DEF Busy
  <2>3. Target' = IF f.pc = "write" THEN f.inbox ELSE cfg'.inbox
    BY <1>1 DEF Target
  <2> QED
    BY <1>1, <2>1, <2>2, <2>3
<1>9. RelayableFromAgents' /\ OnlyAgentsSpeak'
  BY DEF BridgeInv, RelayableFromAgents, shouldRelay, OnlyAgentsSpeak
<1> QED
  BY <1>3, <1>4, <1>5, <1>6, <1>7, <1>8, <1>9 DEF BridgeInv

LEMMA ReconfigureFacts ==
  ASSUME BridgeInv, Reconfigure
  PROVE  /\ job[Configurer] = Idle /\ configs' \in 1 .. MaxConfigs
         /\ raced' \/ (~raced /\ ~Busy)
         /\ ~raced => \A c \in Chats : mapping[c] # 0 => convs[mapping[c]].inbox = cfg.inbox
<1>1. job[Configurer] = Idle /\ configs' \in 1 .. MaxConfigs
  BY BoundsAssumption DEF Reconfigure, BridgeInv
<1>2. Target = cfg.inbox /\ job[Configurer].pc # "clear"
  BY <1>1, IdleJob DEF Target
<1>3. raced' \/ (~raced /\ ~Busy)
  BY DEF Reconfigure
<1> QED
  BY <1>1, <1>2, <1>3 DEF BridgeInv, MappingsFollow

LEMMA SetChatwootInv ==
  ASSUME BridgeInv, setChatwoot
  PROVE  BridgeInv'
<1>1. UNCHANGED <<cfg, mapping, seenIDs, sentIDs, contacts, convs, posts, webhooks, inbound, sent, early>>
  BY DEF setChatwoot, local, remote, whatsapp
<1>2. PICK i \in Inboxes, pc \in {"clear", "write"} :
         /\ Set(Configurer, [Idle EXCEPT !.kind = "set", !.inbox = i, !.pc = pc])
         /\ pc = "write" => cfg.inbox \in {None, i}
  BY DEF setChatwoot
<1>3. PICK f : f = [Idle EXCEPT !.kind = "set", !.inbox = i, !.pc = pc]
  OBVIOUS
<1>4. f \in Jobs /\ f.kind = "set" /\ f.inbox = i /\ f.pc = pc /\ f.msg = None /\ f.conv = 0
  <2>1. f = [kind |-> "set", pc |-> pc, msg |-> None, inbox |-> i, chat |-> None, conv |-> 0, left |-> <<>>]
    BY <1>3 DEF Idle
  <2>2. <<>> \in Seq(Kinds)
    OBVIOUS
  <2> QED
    BY <2>1, <2>2 DEF Jobs
<1>5. ConfigurerJob(f) /\ Set(Configurer, f)
  BY <1>2, <1>3, <1>4, IdleJob DEF ConfigurerJob
<1>6. /\ job[Configurer] = Idle /\ configs' \in 1 .. MaxConfigs
      /\ raced' \/ (~raced /\ ~Busy)
      /\ ~raced => \A c \in Chats : mapping[c] # 0 => convs[mapping[c]].inbox = cfg.inbox
  BY ReconfigureFacts DEF setChatwoot
<1>7. ASSUME ~raced, f.pc # "clear", NEW c \in Chats, mapping[c] # 0
      PROVE  convs[mapping[c]].inbox = IF f.pc = "write" THEN f.inbox ELSE cfg.inbox
  <2>1. convs[mapping[c]].inbox = cfg.inbox /\ convs[mapping[c]].inbox \in Inboxes
    <3>1. mapping[c] \in 1 .. Len(convs)
      BY <1>7, Unfold
    <3>2. convs[mapping[c]] \in Conversations
      BY <3>1, Unfold
    <3> QED
      BY <1>6, <1>7, <3>2 DEF Conversations
  <2>2. pc = "write" /\ cfg.inbox = i
    BY <1>2, <1>4, <1>7, <2>1, MessagesAssumption
  <2> QED
    BY <1>4, <2>1, <2>2
<1>8. cfg \in [inbox : Inboxes \cup {None}, secret : 0 .. MaxConfigs] /\ (cfg.inbox = None <=> cfg.secret = 0)
  BY DEF BridgeInv, TypeOK
<1> QED
  BY <1>1, <1>4, <1>5, <1>6, <1>7, <1>8, Unfold, ConfigureStep

LEMMA DeleteChatwootInv ==
  ASSUME BridgeInv, deleteChatwoot
  PROVE  BridgeInv'
<1>1. /\ UNCHANGED <<mapping, seenIDs, sentIDs, contacts, convs, posts, webhooks, inbound, sent, early>>
      /\ cfg' = NoConfig
  BY DEF deleteChatwoot, remote, whatsapp
<1>2. PICK f : f = [Idle EXCEPT !.kind = "delete", !.pc = "clear"]
  OBVIOUS
<1>3. f \in Jobs /\ f.kind = "delete" /\ f.pc = "clear" /\ f.msg = None /\ f.conv = 0
  <2>1. f = [kind |-> "delete", pc |-> "clear", msg |-> None, inbox |-> None, chat |-> None, conv |-> 0,
             left |-> <<>>]
    BY <1>2 DEF Idle
  <2>2. <<>> \in Seq(Kinds)
    OBVIOUS
  <2> QED
    BY <2>1, <2>2 DEF Jobs
<1>4. ConfigurerJob(f) /\ Set(Configurer, f)
  BY <1>2, <1>3, IdleJob DEF ConfigurerJob, deleteChatwoot
<1>5. configs' \in 1 .. MaxConfigs /\ (raced' \/ (~raced /\ ~Busy))
  BY ReconfigureFacts DEF deleteChatwoot
<1>6. /\ cfg' \in [inbox : Inboxes \cup {None}, secret : 0 .. MaxConfigs]
      /\ cfg'.inbox = None <=> cfg'.secret = 0
  BY <1>1, BoundsAssumption DEF NoConfig
<1> QED
  BY <1>1, <1>3, <1>4, <1>5, <1>6, Unfold, ConfigureStep

LEMMA ClearInv ==
  ASSUME BridgeInv, clearConversations
  PROVE  BridgeInv'
<1>1. /\ UNCHANGED <<cfg, seenIDs, sentIDs, contacts, convs, posts, webhooks, inbound, sent, configs, early, raced>>
      /\ mapping' = [c \in Chats |-> 0]
      /\ job[Configurer].kind \in {"set", "delete"} /\ job[Configurer].pc = "clear"
  BY DEF clearConversations, At, clearAll, remote, whatsapp, counters
<1>2. PICK f \in Jobs : Set(Configurer, f) /\ ConfigurerJob(f)
  <2>1. CASE job[Configurer].kind = "set"
    <3>1. PICK j \in Jobs : j = job[Configurer] /\ ConfigurerJob(j)
      BY DEF BridgeInv, TypeOK, JobsSound
    <3>2. PICK g : g = [j EXCEPT !.pc = "write"]
      OBVIOUS
    <3>3. g \in Jobs /\ g.kind = j.kind /\ g.msg = j.msg /\ g.inbox = j.inbox /\ g.conv = j.conv
      BY <3>1, <3>2 DEF Jobs
    <3>4. ConfigurerJob(g)
      BY <2>1, <3>1, <3>3, IdleJob DEF ConfigurerJob
    <3>5. Set(Configurer, g)
      BY <2>1, <3>1, <3>2 DEF clearConversations, Go
    <3> QED
      BY <3>3, <3>4, <3>5
  <2>2. CASE job[Configurer].kind # "set"
    <3>1. Set(Configurer, Idle)
      BY <2>2 DEF clearConversations, Done
    <3> QED
      BY <3>1, IdleJob
  <2> QED
    BY <2>1, <2>2
<1>3. raced' \/ (~raced /\ ~Busy)
  BY <1>1, IdleJob DEF BridgeInv, MappingsFollow
<1>4. mapping' \in [Chats -> 0 .. Len(convs)] /\ \A c \in Chats : mapping'[c] = 0
  <2>1. 0 \in 0 .. Len(convs)
    BY Unfold
  <2> QED
    BY <1>1, <2>1
<1>5. /\ cfg \in [inbox : Inboxes \cup {None}, secret : 0 .. MaxConfigs] /\ configs \in 1 .. MaxConfigs
      /\ cfg.inbox = None <=> cfg.secret = 0
  BY DEF BridgeInv, TypeOK
<1> QED
  BY <1>1, <1>2, <1>3, <1>4, <1>5, ConfigureStep

LEMMA WriteConfigInv ==
  ASSUME BridgeInv, writeConfig
  PROVE  BridgeInv'
<1>1. /\ UNCHANGED <<mapping, seenIDs, sentIDs, contacts, convs, posts, webhooks, inbound, sent, configs, early, raced>>
      /\ cfg' = keepSecret(job[Configurer].inbox) /\ Set(Configurer, Idle)
      /\ job[Configurer].kind = "set" /\ job[Configurer].pc = "write"
  BY DEF writeConfig, At, Done, remote, whatsapp, counters
<1>2. PICK i \in Inboxes : i = job[Configurer].inbox
  BY <1>1 DEF BridgeInv, JobsSound, ConfigurerJob
<1>3. PICK n \in 1 .. MaxConfigs : cfg' = [inbox |-> i, secret |-> n]
  <2>1. cfg.secret \in 0 .. MaxConfigs /\ configs \in 1 .. MaxConfigs
    BY DEF BridgeInv, TypeOK
  <2>2. PICK n \in 1 .. MaxConfigs : n = IF cfg.secret # 0 THEN cfg.secret ELSE configs
    BY <2>1, BoundsAssumption
  <2> QED
    BY <1>1, <1>2, <2>2 DEF keepSecret
<1>4. /\ cfg' \in [inbox : Inboxes \cup {None}, secret : 0 .. MaxConfigs]
      /\ (cfg'.inbox = None <=> cfg'.secret = 0) /\ cfg'.inbox = i
  <2>1. i # None /\ n # 0 /\ n \in 0 .. MaxConfigs
    BY MessagesAssumption, BoundsAssumption
  <2> QED
    BY <1>3, <2>1
<1>5. raced' \/ (~raced /\ ~Busy)
  BY <1>1, IdleJob DEF BridgeInv, MappingsFollow
<1>6. ~raced => \A c \in Chats : mapping[c] # 0 => convs[mapping[c]].inbox = i
  <2>1. Target = i /\ job[Configurer].pc # "clear"
    BY <1>1, <1>2 DEF Target
  <2> QED
    BY <2>1 DEF BridgeInv, MappingsFollow
<1>7. configs \in 1 .. MaxConfigs
  BY DEF BridgeInv
<1> QED
  BY <1>1, <1>4, <1>5, <1>6, <1>7, Unfold, IdleJob, ConfigureStep

-----------------------------------------------------------------------------
(* The invariant and what follows from it. *)

LEMMA InitInv == Init => BridgeInv
<1> SUFFICES ASSUME Init PROVE BridgeInv
  OBVIOUS
<1>1. \A t \in Threads \cup {Configurer} : job[t] = Idle
  BY DEF Init
<1>2. \A m \in Messages : posts[m.id] = 0
  BY MessageIds DEF Init
<1>3. TypeOK
  <2>1. cfg \in [inbox : Inboxes \cup {None}, secret : 0 .. MaxConfigs] /\ (cfg.inbox = None <=> cfg.secret = 0)
    <3>1. 0 \in 0 .. MaxConfigs /\ 1 \in 0 .. MaxConfigs /\ None \notin Inboxes
      BY BoundsAssumption, MessagesAssumption
    <3>2. CASE cfg = NoConfig
      BY <3>1, <3>2 DEF NoConfig
    <3>3. CASE cfg # NoConfig
      <4>1. PICK i \in Inboxes : cfg = [inbox |-> i, secret |-> 1]
        BY <3>3 DEF Init
      <4> QED
        BY <3>1, <4>1
    <3> QED
      BY <3>2, <3>3
  <2>2. convs = <<>> /\ Len(convs) = 0 /\ convs \in Seq(Conversations) /\ 0 \in 0 .. Len(convs)
    BY DEF Init
  <2>3. mapping \in [Chats -> 0 .. Len(convs)]
    BY <2>2 DEF Init
  <2>4. contacts \in [Inboxes \X Chats -> {"none", "lead", "ours"}]
    BY DEF Init
  <2>5. webhooks \subseteq Events /\ inbound \subseteq Messages /\ posts \in [MsgIds -> Nat]
    BY DEF Init, Messages
  <2>6. job \in [Threads \cup {Configurer} -> Jobs]
    BY IdleJob DEF Init
  <2>7. \A t \in Threads \cup {Configurer} : job[t].conv \in 0 .. Len(convs)
    BY <1>1, <2>2, IdleJob
  <2> QED
    BY <2>1, <2>2, <2>3, <2>4, <2>5, <2>6, <2>7 DEF TypeOK
<1>4. configs \in 1 .. MaxConfigs
  BY BoundsAssumption DEF Init
<1>5. JobsSound
  BY <1>1, IdleJob DEF JobsSound
<1>6. SeenFirst /\ PostedOnce
  <2>1. \A t \in Threads : job[t].kind # "message"
    BY <1>1, IdleJob
  <2>2. \A m \in Messages : ~(posts[m.id] > 0) /\ posts[m.id] <= 1
    BY <1>2
  <2>3. PostedOnce
    BY <2>2 DEF PostedOnce
  <2>4. SeenFirst
    BY <2>1, <2>2 DEF SeenFirst
  <2> QED
    BY <2>3, <2>4
<1>7. RelayableFromAgents /\ OnlyAgentsSpeak
  BY DEF Init, RelayableFromAgents, OnlyAgentsSpeak
<1>8. EchoesMarked /\ EchoSuppressed
  <2>1. \A m \in Echoes : m \notin inbound /\ m \in Messages /\ m # None
    BY MessagesAssumption DEF Init, Messages
  <2>2. EchoesMarked
    BY <2>1 DEF EchoesMarked
  <2>3. \A t \in Threads : job[t].msg = None
    BY <1>1, IdleJob
  <2>4. EchoSuppressed
    BY <1>2, <2>1, <2>3 DEF EchoSuppressed
  <2> QED
    BY <2>2, <2>4
<1>9. MappingsFollow
  BY <1>1, IdleJob DEF Init, MappingsFollow, Busy, Talks
<1> QED
  BY <1>3, <1>4, <1>5, <1>6, <1>7, <1>8, <1>9 DEF BridgeInv

LEMMA NextInv == BridgeInv /\ [Next]_vars => BridgeInv'
<1> SUFFICES ASSUME BridgeInv, [Next]_vars PROVE BridgeInv'
  OBVIOUS
<1>1. ASSUME NEW t \in Threads,
             \/ handleIncomingMessage(t) \/ callConversation(t) \/ lookupConversation(t)
             \/ searchContact(t) \/ ensureContact(t) \/ findOpenConversation(t)
      PROVE  BridgeInv'
  BY <1>1, IncomingInv, CallConversationInv, LookupInv, SearchInv, EnsureContactInv, FindInv
<1>2. ASSUME NEW t \in Threads,
             \/ createConversation(t) \/ saveConversation(t) \/ post(t)
             \/ handleChatwootWebhook(t) \/ sendPart(t) \/ markPart(t)
      PROVE  BridgeInv'
  BY <1>2, CreateConversationInv, SaveInv, PostInv, WebhookInv, SendInv, MarkInv
<1>3. CASE Redeliver \/ AgentWrites \/ Resolve
  BY <1>3, RedeliverInv, AgentWritesInv, ResolveInv
<1>4. CASE setChatwoot \/ deleteChatwoot \/ clearConversations \/ writeConfig
  BY <1>4, SetChatwootInv, DeleteChatwootInv, ClearInv, WriteConfigInv
<1>5. CASE UNCHANGED vars
  BY <1>5, Unfold, QuietInv DEF vars, local, remote, whatsapp, counters
<1> QED
  BY <1>1, <1>2, <1>3, <1>4, <1>5 DEF Next

(* BridgeInv holds throughout: whatever WhatsApp redelivers, Chatwoot refuses and
   the administrator reconfigures, the goroutines of the bridge keep to it. *)
THEOREM BridgeInductive == Spec => []BridgeInv
<1> QED
  BY InitInv, NextInv, PTL DEF Spec

(* alreadySeen runs before anything is posted: Chatwoot shows a message once,
   however often and however concurrently WhatsApp delivers it. *)
THEOREM ShownOnce == Spec => []PostedOnce
<1>1. BridgeInv => PostedOnce
  BY DEF BridgeInv
<1> QED
  BY <1>1, BridgeInductive, PTL

(* handleChatwootWebhook relays nothing the bridge posted itself: what leaves on
   WhatsApp is what an agent wrote. *)
THEOREM AgentsSpeak == Spec => []OnlyAgentsSpeak
<1>1. BridgeInv => OnlyAgentsSpeak
  BY DEF BridgeInv
<1> QED
  BY <1>1, BridgeInductive, PTL

(* isSelfSent drops the echo of an agent's message: one that is mirrored came
   back between SendMessage and markSelfSent. *)
THEOREM EchoesSuppressed == Spec => []EchoSuppressed
<1>1. BridgeInv => EchoSuppressed
  BY DEF BridgeInv
<1> QED
  BY <1>1, BridgeInductive, PTL

(* setChatwoot clears the mappings before it writes another inbox: unless somebody
   posted across the change, a mapping names a conversation of the inbox in use. *)
THEOREM MappingsAreSound == Spec => []MappingsSound
<1>1. BridgeInv => MappingsSound
  <2> SUFFICES ASSUME BridgeInv PROVE TypeOK /\ MappingFollowsConfig
    BY DEF MappingsSound
  <2>1. job[Configurer] = Idle => Target = cfg.inbox /\ job[Configurer].pc # "clear"
    BY IdleJob DEF Target
  <2> QED
    BY <2>1 DEF BridgeInv, MappingFollowsConfig, MappingsFollow
<1> QED
  BY <1>1, BridgeInductive, PTL
=============================================================================
