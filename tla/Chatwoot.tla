------------------------------ MODULE Chatwoot ------------------------------
(***************************************************************************)
(* The Chatwoot bridge of one paired session: WhatsApp messages and call   *)
(* notes go to a conversation of the configured inbox, the agent's         *)
(* messages come back through the webhook, and the configuration may       *)
(* change meanwhile.  Each call of the Chatwoot API, each SQL statement    *)
(* and each send on WhatsApp is a step of the goroutine that makes it, and *)
(* every remote call may fail.                                             *)
(***************************************************************************)
EXTENDS Naturals, Sequences, FiniteSets

CONSTANTS Inboxes,       \* account and inbox pairs a configuration can name
          Incoming,      \* the messages WhatsApp delivers of itself
          AgentMsgs,     \* what agents write: sequences of attachment kinds, <<>> is text only
          Threads,       \* goroutines: WhatsApp events, call notes, webhook requests
          Configurer,    \* the goroutine of a configuration request
          LidKnown,      \* whether the LID of the contact has a known phone
          MaxParts, MaxCalls, MaxRedeliveries, MaxConfigs, MaxFailures, MaxResolved,   \* bounds
          None

ASSUME ThreadsAssumption == Configurer \notin Threads
ASSUME BoundsAssumption == MaxConfigs \in Nat \ {0}

\* what an agent's message may hold; anything else goes as a document
Kinds == {"text", "image", "video", "audio", "document"}

ASSUME AgentAssumption ==
  /\ AgentMsgs \in Seq(Seq(Kinds \ {"text"})) /\ MaxParts \in Nat \ {0}
  /\ \A a \in DOMAIN AgentMsgs : Len(AgentMsgs[a]) <= MaxParts

VARIABLES cfg, mapping,            \* chatwoot_configs and chatwoot_conversations
          seenIDs, sentIDs,        \* of the Session
          contacts, convs, posts,  \* Chatwoot: contacts, conversations, copies of messages
          webhooks,                \* events Chatwoot has not sent to the webhook yet
          inbound,                 \* events WhatsApp has not delivered yet
          sent,                    \* what was sent on WhatsApp
          job,                     \* what each goroutine is doing
          calls, redeliveries, configs, failures,   \* counters against the bounds
          early, raced             \* history

local == <<cfg, mapping, seenIDs, sentIDs>>
remote == <<contacts, convs, posts, webhooks>>
whatsapp == <<inbound, sent>>
counters == <<calls, redeliveries, configs, failures>>
vars == <<local, remote, whatsapp, job, counters, early, raced>>

Idle == [kind |-> "idle", pc |-> "", msg |-> None, inbox |-> None, chat |-> None,
         conv |-> 0, left |-> <<>>]
Chats == {"pn", "lid", "group"}
NoConfig == [inbox |-> None, secret |-> 0]

\* ids: of WhatsApp messages, of agents' messages, of the parts sent for them, of call notes
Agents == {<<"agent", a, 0>> : a \in DOMAIN AgentMsgs}
CallNote == <<"call", 0, 0>>
Echoes == {[id |-> <<"sent", a, k>>, addr |-> "pn", own |-> TRUE, media |-> FALSE, text |-> TRUE] :
             a \in DOMAIN AgentMsgs, k \in 1 .. MaxParts}

Messages == Incoming \cup Echoes
MsgIds == {m.id : m \in Messages} \cup Agents \cup {CallNote}

\* WhatsApp gives every message an id of its own
ASSUME MessagesAssumption ==
  /\ Incoming \subseteq [id : {m.id : m \in Incoming}, addr : {m.addr : m \in Incoming},
                       own : BOOLEAN, media : BOOLEAN, text : BOOLEAN]
  /\ \A m \in Incoming : m.id \notin {e.id : e \in Echoes} \cup Agents \cup {CallNote}
  /\ None \notin Inboxes \cup Messages

\* the events of the webhook, and what a goroutine may be doing
Events == [type : {"incoming", "outgoing"}, private : BOOLEAN, source : MsgIds \cup {None},
           from : MsgIds]
Conversations == [inbox : Inboxes, chat : Chats, open : BOOLEAN]
Jobs == [kind : {"idle", "message", "note", "webhook", "set", "delete"},
         pc : {"", "lookup", "search", "create", "find", "open", "save", "post", "send", "mark",
               "clear", "write"},
         msg : Messages \cup Events \cup {None}, inbox : Inboxes \cup {None},
         chat : Chats \cup {None}, conv : Nat, left : Seq(Kinds)]

\* The rows, the remote state and the goroutines are of their types.
TypeOK ==
  /\ cfg \in [inbox : Inboxes \cup {None}, secret : 0 .. MaxConfigs]
  /\ cfg.inbox = None <=> cfg.secret = 0
  /\ mapping \in [Chats -> 0 .. Len(convs)]
  /\ contacts \in [Inboxes \X Chats -> {"none", "lead", "ours"}]
  /\ convs \in Seq(Conversations) /\ webhooks \subseteq Events
  /\ inbound \subseteq Messages
  /\ posts \in [MsgIds -> Nat]
  /\ job \in [Threads \cup {Configurer} -> Jobs]
  /\ \A t \in Threads \cup {Configurer} : job[t].conv \in 0 .. Len(convs)

\* A paired session, configured or not; the contact may exist because an agent made it
Init ==
  /\ cfg \in {NoConfig} \cup {[inbox |-> i, secret |-> 1] : i \in Inboxes}
  /\ mapping = [c \in Chats |-> 0]
  /\ seenIDs = {} /\ sentIDs = {}
  /\ \E lead \in {"none", "lead"} :
       contacts = [x \in Inboxes \X Chats |-> IF x[2] = "pn" THEN lead ELSE "none"]
  /\ convs = <<>> /\ posts = [id \in MsgIds |-> 0] /\ webhooks = {}
  /\ inbound = Incoming /\ sent = {}
  /\ job = [t \in Threads \cup {Configurer} |-> Idle]
  /\ calls = 0 /\ redeliveries = 0 /\ configs = 1 /\ failures = 0
  /\ early = {} /\ raced = FALSE

At(t, kinds, pc) == job[t].kind \in kinds /\ job[t].pc = pc
Set(t, f) == job' = [job EXCEPT ![t] = f]
Done(t) == Set(t, Idle)
Go(t, pc) == Set(t, [job[t] EXCEPT !.pc = pc])

\* a remote call fails: the error is logged and the goroutine ends
Fails == failures < MaxFailures /\ failures' = failures + 1
Works == UNCHANGED failures

Talks == {"message", "note"}
Busy == \E t \in Threads : job[t].kind \in Talks

\* the parts deliverToWhatsApp sends for a message
parts(p) == IF p.from \notin Agents THEN <<"text">>
            ELSE LET atts == AgentMsgs[p.from[2]] IN IF atts = <<>> THEN <<"text">> ELSE atts

\* the id of the part a webhook goroutine is at
sentID(t) == <<"sent", job[t].msg.from[2], Len(parts(job[t].msg)) - Len(job[t].left) + 1>>

-----------------------------------------------------------------------------
\* WhatsApp -> Chatwoot

\* the contact a message belongs to: a LID is translated when its phone is known
chatTarget(m) == IF m.addr = "lid" /\ LidKnown THEN "pn" ELSE m.addr

LoadOnly(m) == seenIDs' = seenIDs

\* LoadOrStore; what is older than ten minutes is forgotten, and WhatsApp delivers a
\* message again much sooner
alreadySeen(m) == seenIDs' = seenIDs \cup {m.id}

\* handleIncomingMessage up to alreadySeen
handleIncomingMessage(t) ==
  /\ job[t] = Idle
  /\ \E m \in inbound :
       /\ inbound' = inbound \ {m}
       /\ LET taken == /\ m.addr \in Chats
                       /\ ~(m.own /\ m.id \in sentIDs)
                       /\ m.media \/ m.text
                       /\ cfg.inbox # None
                       /\ m.id \notin seenIDs
          IN  IF taken
              THEN /\ alreadySeen(m)
                   /\ Set(t, [Idle EXCEPT !.kind = "message", !.pc = "lookup", !.msg = m,
                                          !.inbox = cfg.inbox, !.chat = chatTarget(m)])
                   /\ early' = early \cup {sentID(u) : u \in {v \in Threads : At(v, {"webhook"}, "mark")}}
                   /\ raced' = (raced \/ job[Configurer] # Idle)
              ELSE UNCHANGED <<seenIDs, job, early, raced>>
  /\ UNCHANGED <<cfg, mapping, sentIDs, remote, sent, counters>>

\* WhatsApp did not register the acknowledgement
Redeliver ==
  /\ redeliveries < MaxRedeliveries /\ redeliveries' = redeliveries + 1
  /\ \E m \in Incoming \ inbound : inbound' = inbound \cup {m}
  /\ UNCHANGED <<local, remote, sent, job, calls, configs, failures, early, raced>>

\* noteMissedCall and finalizeRecording: callConversation, in a goroutine of their own
callConversation(t) ==
  /\ job[t] = Idle /\ calls < MaxCalls /\ cfg.inbox # None
  /\ calls' = calls + 1
  /\ Set(t, [Idle EXCEPT !.kind = "note", !.pc = "lookup", !.inbox = cfg.inbox, !.chat = "pn"])
  /\ raced' = (raced \/ job[Configurer] # Idle)
  /\ UNCHANGED <<local, remote, whatsapp, redeliveries, configs, failures, early>>

lookupConversation(t) ==
  /\ At(t, Talks, "lookup")
  /\ LET conv == mapping[job[t].chat]
     IN  Set(t, [job[t] EXCEPT !.conv = conv, !.pc = IF conv = 0 THEN "search" ELSE "post"])
  /\ UNCHANGED <<local, remote, whatsapp, counters, early, raced>>

Contact(t) == contacts[<<job[t].inbox, job[t].chat>>]

\* a search that fails finds nobody
searchContact(t) ==
  /\ At(t, Talks, "search")
  /\ \/ Works /\ Go(t, IF Contact(t) = "none" THEN "create" ELSE "find")
     \/ Fails /\ Go(t, "create")
  /\ UNCHANGED <<local, remote, whatsapp, calls, redeliveries, configs, early, raced>>

\* Chatwoot refuses a second contact with the same identifier or phone
ensureContact(t) ==
  /\ At(t, Talks, "create")
  /\ \/ /\ Works /\ Contact(t) = "none"
        /\ contacts' = [contacts EXCEPT ![<<job[t].inbox, job[t].chat>>] = "ours"]
        /\ Go(t, "find")
     \/ Works /\ Contact(t) # "none" /\ Done(t) /\ UNCHANGED contacts
     \/ Fails /\ Done(t) /\ UNCHANGED contacts
  /\ UNCHANGED <<local, convs, posts, webhooks, whatsapp, calls, redeliveries, configs, early, raced>>

OpenConvs(inbox, chat) == {i \in DOMAIN convs : convs[i] = [inbox |-> inbox, chat |-> chat, open |-> TRUE]}

\* ensureSourceID may fail; findOpenConversation answers 0 when it does
findOpenConversation(t) ==
  /\ At(t, Talks, "find")
  /\ \/ /\ Works
        /\ LET found == OpenConvs(job[t].inbox, job[t].chat)
           IN  \/ found = {} /\ Go(t, "open")
               \/ \E i \in found : Set(t, [job[t] EXCEPT !.conv = i, !.pc = "save"])
     \/ Fails /\ (Go(t, "open") \/ Done(t))
  /\ UNCHANGED <<local, remote, whatsapp, calls, redeliveries, configs, early, raced>>

createConversation(t) ==
  /\ At(t, Talks, "open")
  /\ \/ /\ Works
        /\ convs' = Append(convs, [inbox |-> job[t].inbox, chat |-> job[t].chat, open |-> TRUE])
        /\ Set(t, [job[t] EXCEPT !.conv = Len(convs'), !.pc = "save"])
     \/ Fails /\ Done(t) /\ UNCHANGED convs
  /\ UNCHANGED <<local, contacts, posts, webhooks, whatsapp, calls, redeliveries, configs, early, raced>>

saveConversation(t) ==
  /\ At(t, Talks, "save")
  /\ mapping' = [mapping EXCEPT ![job[t].chat] = job[t].conv]
  /\ Go(t, "post")
  /\ UNCHANGED <<cfg, seenIDs, sentIDs, remote, whatsapp, counters, early, raced>>

\* what the goroutine posts: a text of the contact names its WhatsApp id, an attachment
\* does not; what was answered on the phone and what a call leaves are private notes
posting(t) ==
  LET m == job[t].msg
      theirs == job[t].kind = "message" /\ ~m.own
  IN  [type |-> IF theirs THEN "incoming" ELSE "outgoing", private |-> ~theirs,
       source |-> IF theirs /\ ~m.media THEN m.id ELSE None,
       from |-> IF job[t].kind = "note" THEN CallNote ELSE m.id]

\* download the media and post; a conversation of another inbox answers 404, and a
\* message that could not be posted is not tried again
post(t) ==
  /\ At(t, Talks, "post") /\ Done(t)
  /\ \/ /\ Works /\ convs[job[t].conv].inbox = job[t].inbox
        /\ posts' = [posts EXCEPT ![posting(t).from] = @ + 1]
        /\ webhooks' = webhooks \cup {posting(t)}
     \/ Works /\ convs[job[t].conv].inbox # job[t].inbox /\ UNCHANGED <<posts, webhooks>>
     \/ Fails /\ UNCHANGED <<posts, webhooks>>
  /\ UNCHANGED <<local, contacts, convs, whatsapp, calls, redeliveries, configs, early, raced>>

-----------------------------------------------------------------------------
\* Chatwoot -> WhatsApp

\* (external) an agent writes in an open conversation, or opens one with a contact
AgentWrites ==
  /\ \E a \in Agents :
       LET m == [type |-> "outgoing", private |-> FALSE, source |-> None, from |-> a]
       IN  /\ posts[a] = 0 /\ posts' = [posts EXCEPT ![a] = 1]
           /\ webhooks' = webhooks \cup {m}
  /\ cfg.inbox # None /\ contacts[<<cfg.inbox, "pn">>] # "none"
  /\ convs' = IF OpenConvs(cfg.inbox, "pn") # {} THEN convs
              ELSE Append(convs, [inbox |-> cfg.inbox, chat |-> "pn", open |-> TRUE])
  /\ UNCHANGED <<local, contacts, whatsapp, job, counters, early, raced>>

\* (external) an agent closes a conversation
Resolve ==
  /\ Cardinality({i \in DOMAIN convs : ~convs[i].open}) < MaxResolved
  /\ \E i \in DOMAIN convs : convs[i].open /\ convs' = [convs EXCEPT ![i].open = FALSE]
  /\ UNCHANGED <<local, contacts, posts, webhooks, whatsapp, job, counters, early, raced>>

shouldRelayPrivate(p) == p.type = "outgoing" /\ p.source = None

shouldRelay(p) == p.type = "outgoing" /\ ~p.private /\ p.source = None

\* an event that is not relayed has no effect; without a configuration there is no secret
\* and the webhook is refused; the request is answered with success whatever the delivery
\* does, so Chatwoot does not send it again
handleChatwootWebhook(t) ==
  /\ job[t] = Idle
  /\ \E p \in webhooks :
       /\ shouldRelay(p) /\ webhooks' = webhooks \ {p}
       /\ IF cfg.inbox # None
          THEN Set(t, [Idle EXCEPT !.kind = "webhook", !.pc = "send", !.msg = p, !.left = parts(p)])
          ELSE UNCHANGED job
  /\ UNCHANGED <<local, contacts, convs, posts, whatsapp, counters, early, raced>>

\* one attachment or the text: download, upload and SendMessage, each of which may fail and
\* leaves the rest unsent; the caption goes with the first, unless that is an audio
sendPart(t) ==
  /\ At(t, {"webhook"}, "send")
  /\ \/ /\ Works
        /\ sent' = sent \cup {[from |-> job[t].msg.from, kind |-> Head(job[t].left),
                            caption |-> Head(job[t].left) # "audio" /\ job[t].left = parts(job[t].msg)]}
        /\ inbound' = inbound \cup {m \in Echoes : m.id = sentID(t)}
        /\ Go(t, "mark")
     \/ Fails /\ Done(t) /\ UNCHANGED whatsapp
  /\ UNCHANGED <<local, remote, calls, redeliveries, configs, early, raced>>

markNothing(t) == UNCHANGED sentIDs

markSelfSent(t) == sentIDs' = sentIDs \cup {sentID(t)}

markPart(t) ==
  /\ At(t, {"webhook"}, "mark")
  /\ markSelfSent(t)
  /\ IF Len(job[t].left) = 1 THEN Done(t)
     ELSE Set(t, [job[t] EXCEPT !.left = Tail(@), !.pc = "send"])
  /\ UNCHANGED <<cfg, mapping, seenIDs, remote, whatsapp, counters, early, raced>>

-----------------------------------------------------------------------------
\* The configuration

\* the secret is made once and kept by later updates
keepSecret(i) == [inbox |-> i, secret |-> IF cfg.secret # 0 THEN cfg.secret ELSE configs]

Reconfigure ==
  /\ job[Configurer] = Idle /\ configs < MaxConfigs /\ configs' = configs + 1
  /\ raced' = (raced \/ Busy)

\* setChatwoot: another account or inbox invalidates the mappings first
setChatwoot ==
  /\ Reconfigure
  /\ \E i \in Inboxes :
       Set(Configurer, [Idle EXCEPT !.kind = "set", !.inbox = i,
                          !.pc = IF cfg.inbox \notin {None, i} THEN "clear" ELSE "write"])
  /\ UNCHANGED <<local, remote, whatsapp, calls, redeliveries, failures, early>>

deleteChatwoot ==
  /\ Reconfigure /\ cfg' = NoConfig
  /\ Set(Configurer, [Idle EXCEPT !.kind = "delete", !.pc = "clear"])
  /\ UNCHANGED <<mapping, seenIDs, sentIDs, remote, whatsapp, calls, redeliveries, failures, early>>

clearNothing == UNCHANGED mapping

clearAll == mapping' = [c \in Chats |-> 0]

clearConversations ==
  /\ At(Configurer, {"set", "delete"}, "clear")
  /\ clearAll
  /\ IF job[Configurer].kind = "set" THEN Go(Configurer, "write") ELSE Done(Configurer)
  /\ UNCHANGED <<cfg, seenIDs, sentIDs, remote, whatsapp, counters, early, raced>>

writeConfig ==
  /\ At(Configurer, {"set"}, "write") /\ Done(Configurer)
  /\ cfg' = keepSecret(job[Configurer].inbox)
  /\ UNCHANGED <<mapping, seenIDs, sentIDs, remote, whatsapp, counters, early, raced>>

-----------------------------------------------------------------------------
Next ==
  \/ \E t \in Threads :
       \/ handleIncomingMessage(t) \/ callConversation(t) \/ lookupConversation(t)
       \/ searchContact(t) \/ ensureContact(t) \/ findOpenConversation(t)
       \/ createConversation(t) \/ saveConversation(t) \/ post(t)
       \/ handleChatwootWebhook(t) \/ sendPart(t) \/ markPart(t)
  \/ Redeliver \/ AgentWrites \/ Resolve
  \/ setChatwoot \/ deleteChatwoot \/ clearConversations \/ writeConfig

Spec == Init /\ [][Next]_vars

-----------------------------------------------------------------------------
\* Properties

\* However often and however concurrently WhatsApp delivers a message, Chatwoot shows it
\* once: alreadySeen marks it before anything is posted.
PostedOnce == \A m \in Messages : posts[m.id] <= 1

\* Nothing the bridge itself posted is sent to the contact: of all the events the webhook
\* gets, only an agent's message leaves, so a mirrored answer, a call note or a recording
\* never loops back to WhatsApp.
OnlyAgentsSpeak == \A p \in sent : p.from \in Agents

\* What an agent sent comes back as a mirror note only when WhatsApp returned it before
\* markSelfSent had run.
EchoSuppressed ==
  \A m \in Echoes :
    (\E t \in Threads : job[t].msg = m) \/ posts[m.id] > 0 => m.id \in early

\* A configuration changed while nobody was posting leaves no mapping to a conversation of
\* the inbox that was replaced.
MappingFollowsConfig ==
  ~raced /\ job[Configurer] = Idle /\ cfg.inbox # None =>
    \A c \in Chats : mapping[c] # 0 => convs[mapping[c]].inbox = cfg.inbox

\* The rows agree with each other and with Chatwoot: a configuration has a secret, a mapping
\* names a conversation there is, and one of the configured inbox (setChatwoot).
MappingsSound == TypeOK /\ MappingFollowsConfig

-----------------------------------------------------------------------------
\* The inductive invariant

\* A goroutine that talks to Chatwoot knows the inbox and the chat; one that serves the
\* webhook has an agent's message and parts left to send.
ThreadJob(j) ==
  /\ j.kind \in {"idle", "message", "note", "webhook"}
  /\ j.kind \in Talks => j.inbox \in Inboxes /\ j.chat \in Chats
  /\ j.kind = "message" <=> j.msg \in Messages
  /\ j.kind = "webhook" => j.msg.from \in Agents /\ j.left # <<>>
  /\ j.kind = "idle" <=> j = Idle
ConfigurerJob(j) ==
  /\ j.kind \in {"idle", "set", "delete"} /\ j.msg = None /\ j.conv = 0
  /\ j.kind = "set" => j.inbox \in Inboxes
  /\ j.kind = "idle" <=> j = Idle
JobsSound == (\A t \in Threads : ThreadJob(job[t])) /\ ConfigurerJob(job[Configurer])

\* A message that was posted or is on its way to Chatwoot was seen; it is on its way in one
\* goroutine, and then not posted yet.
SeenFirst ==
  /\ \A m \in Messages : posts[m.id] > 0 => m.id \in seenIDs
  /\ \A t \in Threads : job[t].kind = "message" =>
       /\ job[t].msg.id \in seenIDs /\ posts[job[t].msg.id] = 0
       /\ \A u \in Threads \ {t} : job[u].kind = "message" => job[u].msg.id # job[t].msg.id

\* What the webhook would relay is an agent's.
RelayableFromAgents == \A p \in webhooks : shouldRelay(p) => p.from \in Agents

\* WhatsApp returns only what was sent, and that is marked or about to be.
EchoesMarked ==
  \A m \in Echoes : m \in inbound =>
    m.id \in sentIDs \/ \E t \in Threads : At(t, {"webhook"}, "mark") /\ sentID(t) = m.id

\* The inbox the mappings are about: the one being configured once the old mappings are
\* gone, nothing in particular while they are being cleared.
Target ==
  CASE job[Configurer].pc = "write" -> job[Configurer].inbox
    [] OTHER                        -> cfg.inbox

\* While nobody posted across a change of the configuration, whoever posts uses the inbox of
\* the configuration, and mappings that are not being cleared follow it.
MappingsFollow ==
  ~raced =>
    /\ Busy => job[Configurer] = Idle
    /\ \A t \in Threads : job[t].kind \in Talks =>
         /\ job[t].inbox = cfg.inbox
         /\ job[t].pc = "save" => convs[job[t].conv].inbox = cfg.inbox /\ job[t].conv # 0
    /\ job[Configurer].pc # "clear" =>
         \A c \in Chats : mapping[c] # 0 => convs[mapping[c]].inbox = Target

BridgeInv ==
  /\ TypeOK /\ configs \in 1 .. MaxConfigs
  /\ JobsSound /\ SeenFirst /\ RelayableFromAgents /\ EchoesMarked /\ MappingsFollow
  /\ PostedOnce /\ OnlyAgentsSpeak /\ EchoSuppressed
=============================================================================
