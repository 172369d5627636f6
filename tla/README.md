# A TLA+ model of wacalls

wacalls pairs WhatsApp accounts, places and receives 1:1 calls over a pure-Go
VoIP engine, hands the audio to browsers over WebRTC and mirrors chats and calls
into Chatwoot. This directory models its state machines (the engine of a call,
its relay transport, the server's calls, sessions, events, media and Chatwoot
bridge) and, as functions, the formats it writes and reads.

## 1. Inventory

| Component | State | Operations | Hard behaviour | What makes it correct |
|---|---|---|---|---|
| Call state machine (`voip/call/callstate.go`) | `CallInfo.StateData` | `ApplyTransition` | callers ignore its errors | states in order, one end |
| Call manager (`voip/call/callmanager*.go`) | the call, its key, `RelayData`, `acceptedByJid`, SRTP session, codec, silence goroutine | `StartCall`, `AcceptCall`, `RejectCall`, `EndCall`, the `HandleCall*` events, the offer's ack, `onRelayConnected` | the mutex is released between the sections of a handler; ack, accept, transport and relay openings come in any order; late callbacks after the end | an answered call whose relay is open becomes active, with the SRTP session of the device that accepted; nothing restarts after the end |
| Relay transport (`voip/transport`) | connection table, state and stop channel of each connection | `ConfigureRelays`, `OnOpen`, timeout, ICE failure, `Cleanup`, keepalive; STUN messages | check-then-insert, double teardown, timeout against late open | one connection per relay, none left behind; relays understand what is sent |
| Session layer (`cmd/server/session.go`) | the session's calls, wired callbacks, client, seen and sent messages | `createCall`, `wireCall`, `startOutgoing`, `onIncomingOffer`, ring timeout, `setBridge`, `removeCall`, `teardownAllCalls`, pairing and connection events | `OnStateChange` runs with the engine's mutex held and calls registry, broker and bridge | an ended call leaves registry and broker; nobody stays inside the engine; no call rings for ever |
| Call registry (`callregistry.go`) | map of `activeCall` | `add`, `get`, `remove`, `drain`, `count` | limit checked before the insertion | slots are given back |
| HTTP API (`httpapi.go`) | none of its own | calls, sessions, configuration | concurrent requests between a check and the write it guards | the first claim wins |
| Broker (`broker.go`) and the browser's call store (`stores/calls.ts`) | records with owner and status, history, subscribers with bounded channels; the browser's list | `upsertCall`, `setOwner`, `endCall`, `subscribe`, `unsubscribe`, `broadcast`, `emitTo`, `serveSSE` | lists read under the lock and sent after it, full channels, browsers that leave during a broadcast | browsers show the calls there are; codes stay private; calls never wait for a browser |
| Browser audio bridge (`bridge.go`) | peer connection, PCM buffers | `NewBridge`, `Close`, `OnTerminalICE` | a bridge attached to a call that ends meanwhile | no peer connection is left open |
| Session manager and store (`sessionmanager.go`, `sessionstore.go`) | sessions, their clients, rows, devices, configuration | `Create`, `Pair`, `Logout`, `Delete`, `Restore`, environment settings | several statements without a transaction, crash between any two, events of a replaced client | every saved pairing whose device can be read comes back, nothing deleted does |
| Chatwoot integration (`chatwoot*.go`) | configuration, conversation mappings, seen and sent ids | messages and notes to Chatwoot, webhook to WhatsApp, configuration | redelivery, failing API calls, echoes, a configuration changed under a message | each message once, no loop, mappings of the right inbox |
| SRTP and RTP (`voip/media`), recorder (`recorder.go`) | sequence numbers, roll-over counters, frame buffer, two recorded sides | `Protect`, `Unprotect`, `FeedCapturedPCM`, `onRelayData`, silence, `removeCall`, `finishWAV` | 16-bit wrap with reordering and two readers; sessions replaced under the stream; audio that arrives while the recording is finished | packet index recovered, no keystream twice, no sample lost, a finished recording stays as it is |
| MLow codec (`voip/media/mlow`) | predictors of encoder and decoder, range coder registers | encode, decode, redundancy | carries, predictors carried over frames | the decoder reads what was encoded |
| Signalling stanzas (`voip/signaling`, `voip/wanode`) | none | build and parse | order and depth of nodes | both sides find the key, the devices, the relays |
| WhatsApp socket, widget, program start | | | adapter, presentation, flags | |

Interactions. Browser requests and WhatsApp events find a call's engine through
the session's registry and enter it under the mutex `m.mu`. The engine calls
back into the session (`OnStateChange`, `OnIncoming`, `OnEnded`), which changes
registry, broker and bridge. `OnStateChange` is called with `m.mu` held. The
relay transport calls `onRelayConnected` and `onRelayData` from its own
goroutines; the bridge's `OnTerminalICE` and the ring timeout call
`terminateCall`. Browsers know only what the broker publishes. Sessions are
found through the session manager's map, which is rebuilt from the database at
each start; the Chatwoot bridge of a session reads its configuration from the
same database at each message.

The hazards this gives rise to are listed, with their lines and the properties
aimed at them, under `hazards` in `PROJECT.json`.

## 2. Modules

| Module | Models | State and actions |
|---|---|---|
| `CallState` | `callstate.go` | `Apply(s, t)`: an invalid transition changes nothing, as every caller discards or merely tests the error |
| `CallLifecycle` | what the engine promises (abstract) | `state` and `silence`; `Begin`, `Ring`, `Answer`, `Connect`, `Hush`, `End` |
| `CallManager` | the engine of one call | each section under `m.mu` is an action, each release between sections a thread label |
| `CallManagerProofs` | theorems about `CallManager` | |
| `CallServer` | session layer, registry, HTTP call API, broker records, bridge ownership | `lock` is `m.mu`; each access to registry or broker is one action; a goroutine is the sequence of steps it still has to do |
| `CallServerProofs` | theorems about `CallServer` | |
| `SctpRelay` | the relay transport of one call | connection objects with table entry, state, peer connection and stop channel; one action per section of `m.mu`, per unlocked access of the state and per callback |
| `SctpRelayProofs` | theorems about `SctpRelay` | |
| `Sessions` | session manager, session store, pairing and connection events, environment settings | the rows, the `Session` objects of the process, one step per SQL statement and per call of the client; `Crash` and `Start` |
| `SessionsProofs` | theorems about `Sessions` | |
| `Chatwoot` | the bridge of one session in both directions | rows, seen and sent ids, Chatwoot's contacts and conversations; one step per API call, SQL statement and send |
| `ChatwootProofs` | theorems about `Chatwoot` | |
| `Broker` | subscribers, broadcasts, the SSE stream and the browser's call store | table, channels and views; the read lock of a broadcast is a flag of the goroutine |
| `BrokerProofs` | theorems about `Broker` | |
| `Media` | capture, silence, SRTP contexts, relay readers, recorder | the sequence numbers are `2 * Half` (65536 in the code); a turn of the capture loop, and each unlocked read or write of the context in `Unprotect`, is a step |
| `MediaProofs` | theorems about `Media` | |
| `RangeCoder` | `mlow/rangecoder.go` | encoder and decoder as functions of their registers |
| `MLowFrame` | frame parameters of `mlow`: LSF, pitch, gains, pulses | the symbols a frame is written as and read from, with the predictors carried over |
| `MLowPacket` | `mlow/toc.go`, `mlow/red.go`, the decoder's dispatch | payload with redundant blocks |
| `RelayWire` | `stun.go`, `subscriptions.go`, `rtp.go` | datagrams as sequences of bytes |
| `Signaling` | `voip/signaling`, `voip/wanode`, device helpers of `voip/call` | nodes as records of tag, attributes, children, bytes |
| `TextFormat` | `format.go` | texts as sequences of marks and words |
| `Stanzas` | what the two ends of a call read from its stanzas | the state is one input: an answer to an offer, grown node by node, or the arguments of a call |
| `StanzasProofs` | theorems about `Stanzas` | |
| `Formats` | the questions asked of the format modules | the state is one input, grown symbol by symbol; each invariant writes it and reads it back |
| `MC...` | TLC instances | constants and symmetry |

`CallServer` and `CallManager` share `CallState`. `CallServer` keeps of an engine
only its state and its mutex, because what happens to media inside does not
reach the registry; `CallManager` keeps of the server only whether the registry
still leads to the engine. `CallManager` implements `CallLifecycle`
(`Lifecycle == INSTANCE CallLifecycle WITH silence <- keepalive`). `Stanzas`
extends `Signaling` and has a specification of its own; `Formats` extends it and
the other format modules, and an input of `Formats` may be one of `Stanzas`.
`MLowPacket` is an instance in it.

### CallManager

`state = "none"` is `currentCall == nil`. `conn` is the relay's connection
table; `pending` holds the relays whose `OnOpen` has run but has not reached
`onRelayConnected`; `torn` those taken out of the table before they opened,
whose `OnOpen` may still come. `th` says where each goroutine is: the event loop
(whatsmeow delivers a session's events one at a time), the ack goroutine
`StartCall` leaves behind, and request goroutines. A handler that reads a value
under the mutex and uses it after releasing it carries the value in its thread
state: the endpoints (`eps`), the accepting device (`dev`), whether a relay was
open (`has`). `registered` is cut by whoever ends the call, since
`OnStateChange` removes it from the registry under the mutex.

Data is reduced to what the properties tell apart: a key is present or not, an
SRTP session is the device and the key it was made from, the endpoints of a
relay are a set. The endpoints of a transport message are the empty set: the
attribute form has no raw token, and `buildRelayConfigs` drops every endpoint
without one (the run `transport_served` shows it of the parsers). Each relay
has one connection here; that overlapping `ConfigureRelays` may make two for one
relay is in `SctpRelay`. To the engine a replaced connection looks like one that
was lost (`LoseConnection`, with its `LateOnOpen`) and connected again.

`NoLostWakeup`, `ActiveHasMedia` and `AcceptedGoesOn` are stated for outgoing
calls. `AcceptCall` never looks at `HasConnection`, and an incoming call that is
accepted while its `RelayData` is nil skips `setupIncomingMedia`; the hazard at
`callmanager_relay.go:43` says where that leaves an incoming call.

### CallServer

`Enter` takes the engine's mutex, makes the transition and starts
`OnStateChange`; `upsert` (of a live call) or `endCall` (of an ended one) is its
last step and releases the mutex. The owner `OnStateChange` read from the broker
is kept in `snap` until it is written back. `removeCall` is `remove` (the
registry entry), `note` (the missed-call note, which needs the broker's record)
and `close`. A lookup in the registry that changes nothing is one step with the access
that follows it. `cap` is the limit on calls; the limit 0, which the code takes
for none, is not an instance. `EndCall` and `HandleCallTerminate` repeat `remove` and `endCall`
outside the mutex: that is `OnEnded`. The goroutine named after a call is its
ring timeout; the goroutine named after a bridge runs `terminateCall` from
`OnTerminalICE` (one at a time: a second one would find the call gone). A
browser may name only calls the broker has shown (`Known`), and the peer may
answer a call only after the goroutine sending the offer exists (`PeerKnows`).

### SctpRelay

The table check of `ConfigureRelays` and the insertion of `connectToRelay` are
two sections of the mutex, so two callers may connect one relay. `OnOpen` writes
the connection's state without the mutex, whatever it was, and the timeout reads
it without the mutex before `failConnection` takes it. `failConnection` and
`closeConnection` delete a table entry by its id, which may be that of a newer
connection. `teardown` closes the stop channel and what there is of the peer
connection; a peer connection made after it is `"late"`. pion is external: a
channel that has its remote description may open and close once and report ICE
failures at any time, also after the teardown that overtook the callback.

### Sessions

The database is `row` (a session's JID, or unpaired, or no row), `devices` (what
whatsmeow stored), `cfg` and `rec`. `sess[id]` is the `Session` object: whether
the manager's map holds it, the JID and connection of its present client, the
events that client has raised and the handlers that have read a JID and not yet
saved it. `replaceClient` puts a fresh client in place while handlers of the old
one go on, so a late "success" reads the new client. Each SQL statement is a
step, because nothing in the code runs two in one transaction. `Crash` may
happen between any two steps and clears what is not in the database; a
`shutdown` does no more. `Restore` drops every row that is not paired, has no
stored device, or whose `GetDevice` fails (the code makes no difference between
the last two), statement by statement, and a crash inside it is just another
crash. The other SQL statements are assumed not to fail: `Restore` and `Delete`
discard the errors of `store.delete`, and a statement that failed there would
leave its rows. The JID of a row always parses, since `setJID` wrote it.

`linked[id]` is history: the pairing that was saved while nothing else was at
work on the session, until a request, the phone, or a `Restore` that fails to
read its device ends it. It is what `LinkedSurvives` and `ConfigKept` are about:
a failed query costs a paired session its row, its configuration and its
recording setting, which is what the code does and is listed as a hazard; what
the properties promise is that it costs no other session anything. A `Logout`
still running while the session is paired again clears the new JID; that is why
the pairing counts only when it was saved alone (`Settled`), and this overlap is
outside `LinkedSurvives`.

### Chatwoot

A goroutine that handles a message or a call note looks the conversation up,
searches or creates contact and conversation, saves the mapping and posts, with
every API call free to fail (`MaxFailures`). Chatwoot is external: it refuses a
second contact with the same identifier, answers 404 for a conversation of
another inbox, and sends every message posted in the inbox, the bridge's own
too, to the webhook. WhatsApp is external: it redelivers, and returns what was
sent as an event of the own account. `early` remembers the echoes that overtook
`markSelfSent`, `raced` that the configuration changed while a message was being
posted; the code leaves both windows open, and the properties name them. Two
messages of a new contact may open two conversations; the code has that race,
which is listed as a hazard without a property.

The ids of seen and sent messages are kept for ever here. The code keeps them in
memory, prunes them after ten minutes and does not deduplicate an empty id, so
`PostedOnce` and `EchoSuppressed` speak of one process and of that time, and of
messages that have an id. A send to WhatsApp that fails has no effect here; the
real one may report an error after the message has left.

### Broker

A change of the table under the write lock leaves the goroutine a plan of events
to broadcast. `readList` reads the table under the read lock, `broadcast` takes
the read lock again and fixes the recipients, `send` offers the event to each
and releases it. A full channel loses the event (`missed`). The browser applies
events the way `stores/calls.ts` does. `overlapped` remembers that the table
changed while another goroutine still had something to send: then an older list
may come last, and a browser stays stale until the next change. `made` counts
the records of a call, so that `HistoryOnce` also speaks about a record a late
`upsertCall` makes anew. `setOwner` changes a record and broadcasts nothing; browsers
learn the owner with the next change, so it is no change here (`CallServer` has
it).

### Media

The legs of a call meet only in the SRTP session and in the recorder, and
neither looks at the recorder, so a behaviour (`leg`) follows the packets of the
sending or of the receiving leg, or records a call that both legs hand audio to.

Sending. `ivs` collects what keystreams were derived from (SSRC, roll-over
counter, sequence number). `feed` is the chunk of the browser at hand:
`FeedCapturedPCM` is one turn of the loop over it, all turns under the engine's
lock, which nobody else gets meanwhile (`Unlocked`); the chunk goes to the
recorder (`writeBrowser`) after the unlock.

Receiving. Relay connections run `Unprotect` on one context without a lock, so
every read and every write it makes of `initialized`, `lastSeq` and `roc` is a
step of its own (`readInitialized`, `readLast`, `readRoc`, `writeRoc`,
`writeLast`, `setInitialized`, `decode`), the two halves of `roc++` included.
`InPlace` is what the receiver needs of the order of packets. The code keeps no
window, so a packet from before a wrap that arrives after it leaves the counter
wrong. It takes no lock either: of two goroutines inside `Unprotect` at a wrap
both may count it (one has written `roc` and not yet `lastSeq`), or one decrypts
its packet with the counter the other has moved. So a packet is in its place
beside another goroutine's only if both, and the context, are in one epoch. That is a
restriction of the property, not of the code, which garbles audio there:
`InStep` promises correct indices in all other orders, and TLC does not follow a
behaviour after a packet has left its place (`StillOrderly`). `NoKeystreamReuse`
excepts a session replaced after its sequence numbers came round to 0.
`LearnParticipants` may give an engine a new SSRC but never its old one again:
SSRCs are derived from the call and the device, and an engine learns its
participants once, from the ack of its offer or when it accepts.

Recording. `removeCall` runs inside `OnStateChange`, with the engine's lock held:
the call leaves the registry and `finalizeRecording` starts on a goroutine of its
own, so `finishWAV` may come before or after `cleanupMedia`, which the engine
reaches later. A relay's goroutine that has decoded a frame (`FrameDecoded`) looks
the call up (`OnPeerAudio`) and writes to the recorder it found (`writePeer`),
the browser's writes without looking it up (`writeBrowser`), each possibly after
the recorder was closed. `finishWAV` takes both sides under the recorder's lock and mixes them
outside it (`mixWAV`). Either side may be the longer one.

### Stanzas

The functions of `Signaling` walk the children of a node. A loop that keeps some
of them is the list of the places kept, in order (`InOrder`, `At`); a loop that
stops at a child, or keeps the last one seen, is its place (`First`, `Final`); a
loop inside a loop goes over pairs of places (`Nested`). The stable sort by
round-trip time is a list of places too, in the order `Earlier`. `Stanzas` asks of
them what the two ends of a call rely on. An answer grows by a child of the
answer (`AddBranch`) or of its last child (`AddLeaf`), so it may hold any number
of relay and user nodes, each with its own keys, tokens, endpoints and
participants in any order. `offered` and `named` say, without the order of the
parsers, what an answer offers and names.

`MirroredDevices` speaks of answers that name exactly one device of each user:
with two devices of the peer the code keeps the first it finds, and has nothing
that says which one answered. `KeyReadable` compares offer and accept with every
other stanza that has a builder in `Signaling`; the accept receipt and the
transport stanza that are put together in line are not among them.
`StanzaAssumption` says what the children of an answer are: nodes of two levels (no parser of an answer looks deeper), whose
device attributes are devices and whose round-trip times are natural numbers or
no number. The code writes -1 for a missing time, and would take a negative time
sent by the server for a missing one.

### Formats

Each action adds one symbol, frame, subframe, byte, attribute, header, SSRC or
piece of text to the input `x`, and TLC enumerates all inputs up to the bounds. The modules are parameterised where the code has a constant too
large to enumerate: the range coder by the width of its registers and symbols,
the frame coder by positions per subframe, number of coefficients and pitch
blocks. An input of the kind `"stanzas"` grows by the steps of `Stanzas`.
Readers the repository does not have (a relay's view of a STUN digest, a
protobuf reader) are reference definitions. Tables of the codec (cumulative
frequencies, contours, gain weights) are small stand-ins with the same shape. The
range coder is checked at one ratio of its widths (2 and 8 bits for 8 and 32),
frames at configuration 0 and as the encoder writes them, and texts without bold
that contains italic or marks that touch.

## 3. Runs

| Run | Instance | Shows |
|---|---|---|
| `call_engine` | both directions, 1 relay, 2 devices, 1 handler, fair | `TypeOK`, `SrtpKeyedToAccepter`, `SilenceStopped`, `NoLostWakeup`, `ActiveHasMedia`, `LifecycleSpec`, `AcceptedGoesOn` |
| `server_inbound` | 1 incoming call, 2 operators, 2 handlers, fair | `LiveCallPublished`, `RegistrySound` (`TypeOK`, `EndedLeavesRegistry`), `EndedLeavesBroker` |
| `server_outbound` | 1 outgoing call, 1 operator, 1 handler, 1 bridge, fair | `BridgeOwned`, `EngineReleased`, `RingingEnds` |
| `relay_table` | 1 relay, 2 connections, 2 overlapping callers | `TableSound` (`TypeOK`, `EntriesUsable`), `NoPeerConnectionLost` |
| `relay_timeout` | 1 relay, 1 connection, fair | `EntryResolved`, `KeepaliveStops` |
| `sessions` | 2 ids, 2 workers, 2 pairings, 3 requests, 1 crash | `LinkedSurvives`, `NoResurrection`, `ConfigKept`, `RestoredServed` |
| `chatwoot` | 1 contact writing under its LID, 1 agent's message with an attachment, 2 inboxes, 1 call note; 1 redelivery, 1 failure, 2 configurations in turn | `PostedOnce`, `OnlyAgentsSpeak`, `EchoSuppressed`, `MappingsSound` |
| `broker` | 1 call, 2 emitters, 2 browsers of different clients, channels of 2, 3 changes | `StreamsSound` (`TypeOK`, `NoSendOnClosed`, `QRPrivate`, `HistoryOnce`), `ViewCurrent`, `EmitterNeverBlocked` |
| `media` | 8 sequence numbers, 2 relay readers, frames of 2 samples | `InStep`, `NoKeystreamReuse`, `SamplesKept` (`TypeOK`, `FramesExact`), `RecordingFinal` |
| `formats` | bounds of `Formats.cfg` and `MCFormats`; answers of up to 2 children with up to 4 each, from 3 kinds of children and 8 of theirs; calls between 6 JIDs | `StreamReadBack`, `FramesReadBack`, `RedPartition`, `DatagramsReadBack`, `TextAsMeant`, `RelaysRanked`, `MirroredDevices`, `KeyReadable` |
| `transport_served` | the instance of `formats`; expects a violation | `TransportServed` |
| `ghost_record` | 1 outgoing call, fair; expects a violation | `EndedRecordGone` |

Why these sizes. Two devices are what it takes for one accept to overtake
another (several relays and several concurrent requests of one engine are
covered by the proofs, which bound neither); two handlers and two operators for
two requests to meet between a check and its write; two relay connections for one to
replace another. One bridge can be opened for a call and closed by the browser,
the call or its ring timeout; that one bridge replaces another, and records of
outgoing calls, are covered by the theorems `BridgesOwned` and `LivePublished`,
which bound neither bridges nor calls. A connection's timeout and keepalive
concern that connection only, so liveness of the relay transport is checked on
one. Two sessions and two workers let the deletion of one meet the restore or
configuration of the other, two pairings let a session be linked again, three
requests reach every pair of concurrent requests with one before them. Two
emitters and channels of two reach a full channel with an event of another
goroutine in between. Eight sequence numbers wrap within the packets the bound
allows, and the window is below half of them as in the code; a recording's cap of four
samples and its minimum of three are reached by each side. In `Formats` the
registers are narrow so that carries, full buffers and the shared last byte
occur within four symbols. Answers with two relay nodes of four children
reach an address offered twice with different times, a token that comes before
or after the endpoint that names it, and devices named in both kinds of node.

Bounds by name: `MaxPairings`, `MaxRequests`, `MaxCrashes` (Sessions);
`MaxParts` (attachments of an agent's message), `MaxCalls`, `MaxRedeliveries`,
`MaxConfigs`, `MaxFailures`, `MaxResolved` (Chatwoot); `MaxOps` (Broker);
`MaxPackets`, `MaxPeerPackets`, `MaxSamples`, `MaxSessions` (Media);
`MaxSymbols`, `MaxRed`, `MaxPieces` (Formats); `MaxBranches`, `MaxLeaves`
(Stanzas). The call modules have none besides their constant sets.

A system without work, or at a bound, may simply stop, so the configurations
switch TLC's deadlock check off; that nobody is stuck inside a handler or a
broadcast is what `EngineReleased` and `EmitterNeverBlocked` say.

Fairness. Weak fairness is assumed for a goroutine that has begun a handler (Go
schedules runnable goroutines, and the model's locks are held only over finite
sections), for the offer's query (`Socket.Query` times out), for an `OnOpen`
callback that has begun, and for the timers (ring timeout and relay timeout).
Nothing is assumed about peers, relays, browsers or operators. `Sessions`,
`Chatwoot`, `Broker`, `Media`, `Formats` and `Stanzas` state safety only.

### Disagreements the model exhibits

`ghost_record` ends in a counterexample: an outgoing call that ends before
`doStartCall` writes its record leaves a ringing record that nobody removes.

`transport_served` ends in another: relays that are connected when an answer
names them are not when a transport message lists them by attribute.
`ExtractRelayEndpoints` leaves the raw token empty and `buildRelayConfigs` drops
such an endpoint, so an accepted call that waits for a transport message, as
`AcceptCall` logs it does, waits in vain.

The lines of the repository they contradict are quoted under `findings`. Other
places where the code leaves a window open (the ring timeout that cuts an
answered call while its media connects, the limit on calls, a missed-call note
of an accepted call, a paired row dropped for a failed query, two relay readers
at a wrap) are hazards with a note.

## 4. Proofs

Eight modules hold theorems; none of them bounds the sets it speaks about. Each
starts from an inductive invariant written in the module it is about, which TLC
checked on the instances of section 3 before it was proved.

### CallManagerProofs

It proves, for every set of relays, devices and request
goroutines (no bound, no finiteness):

| Theorem | Says |
|---|---|
| `TypeCorrect` | `Spec => []TypeOK` |
| `WakeupNotLost` | `Spec => []NoLostWakeup` |
| `ActiveCallsHaveMedia` | `Spec => []ActiveHasMedia` |
| `SessionKeyedToAccepter` | `Spec => []SrtpKeyedToAccepter` |
| `SilenceStaysStopped` | `Spec => []SilenceStopped` |
| `EngineImplementsLifecycle` | `Spec => LifecycleSpec` |

The only assumption is `ConstantsAssumption`: the threads are distinct, and the
values that stand for nil are none of the values they replace. TLC evaluates it
in every run of `MCCallManager`.

The argument is one inductive invariant, `IndInv`. `NoLostWakeup` is inductive
given that a relay becomes open only together with an entry of `pending` and
that `remoteAccepted` reads `HasConnection` in the section that makes the call
connecting; it needs `OutgoingNeverRingsIn` so that `AcceptCall` cannot make an
outgoing call connecting without that reading. `ActiveHasMedia` is not
inductive: `AnsweredHasMedia` extends it to connecting calls, `KeyBeforeSrtp`
says the accept really makes a session, and `EnderUnregistered` that whoever
takes the session away has first taken the call out of the registry (or is a
rejection on its way to do so). `SrtpKeyedToAccepter` needs `AccepterKnown` and
`KeyBeforeSrtp`: an early accept with another key makes a wrong session that
only the locked section of the same handler corrects. `SilenceStopped` needs
`NothingBeforeTheCall`, because `StartCall` and `HandleCallOffer` are what makes
a codec. `EngineImplementsLifecycle` shows that every step is a step of
`CallLifecycle` or a stutter, from the same invariant.

### SctpRelayProofs

It proves, for every set of relays, connection objects and
callers, from `RelayAssumption` (the idle values and the goroutines are distinct;
evaluated in every run of `MCSctpRelay`):

| Theorem | Says |
|---|---|
| `TableHoldsNoDeadConnection` | `Spec => []TableSound` |
| `PeerConnectionsAccounted` | `Spec => []NoPeerConnectionLost` |

`EntriesUsable` is not inductive: the state of a connection is written without
the lock and entries are deleted by relay id. `RelayInv` adds that a goroutine
working on a connection works on one that exists (`WorkersKnowConnection`), that
whoever is about to tear a connection down has already found it out of the
table, and a connection is inserted only once (`TornIsUnlisted`), and that a
connection object not yet made has neither channel nor teardown
(`UnbornUntouched`).

`NoPeerConnectionLost` needs more: `CloseInv` adds that a connection which was
not torn down is in the table, or about to be torn down by a goroutine that has
it in hand, or shares its relay with another (`NoneForgotten`), and that the
goroutines that tear connections down start once and with nothing left over
(`StartsFresh`), so that starting one never forgets a teardown another had
begun. The property names two exceptions because the code has them: a relay that
was connected twice by overlapping callers, or replaced while a callback of the
old connection was on its way, and a peer connection created after `Cleanup` had
already torn its connection down. Both leave a peer connection open that no
table leads to. Two goroutines may also be in `teardown` for one connection at
the same time; the test of the stop channel and its closing are two steps of the
code, and one of the model.

### CallServerProofs

For every set of incoming and outgoing calls, operators, handlers and bridges,
from `ServerAssumption` and `RolesAssumption` (directions, goroutines and the
values for nobody are distinct; a call names its own ring timeout):

| Theorem | Says |
|---|---|
| `ServerInductive` | `Spec => []ServerInv` |
| `LivePublished` | `Spec => []LiveCallPublished` |
| `EndedCallsLeave` | `Spec => []RegistrySound` |
| `BridgesOwned` | `Spec => []BridgeOwned` |

A goroutine of `CallServer` is the list of steps it has left, so the invariant
speaks about lists. `Ordered` says which steps may follow which: a record is
ended only after its call left the registry, the engine's callbacks come first,
`teardownAllCalls` drains to its end. `Births` says that a call comes into being
in one goroutine, and that until its engine has a call nobody else but whoever
drains the registry knows of it; without that a second creator could undo what
the first published. `RingOnce` says that a ring timeout starts once, on a
goroutine that does nothing yet. `Locked` ties the engine's mutex to the
goroutine in `OnStateChange` and to the state it found. With these the three
properties are inductive: a live call that nobody is inside of was published by
the callback that made it live, and whoever is inside an ended one still has
`remove` before the release. Most actions only consume the first step of their
goroutine (`GoesOn`) or leave calls and records alone (`QuietInv`); these lemmas
prove such steps once.

### SessionsProofs

It proves, for every set of session ids, names, configurations and
request goroutines and every number of pairings, requests and crashes:

| Theorem | Says |
|---|---|
| `SessionsInvariant` | `Spec => []IndInv` |
| `PairingsSurvive` | `Spec => []LinkedSurvives` |
| `DeletedStaysDeleted` | `Spec => NoResurrection` |
| `ConfigurationKept` | `Spec => ConfigKept` |
| `ServesWhatIsStored` | `Spec => RestoredServed` |

The assumptions are `EnvAssumption` and `NilAssumption`: the settings of the
environment are among the names and configurations, the main goroutine serves no
requests, and the values that stand for nothing are none of the others. TLC
evaluates both in the run `sessions`.

Both `SessionsInvariant` and what follows from it allow every `GetDevice` of a
`Restore` to fail. `LinkedSurvives` is far from inductive. `IndInv`, at the end of `Sessions`, adds
which steps belong to which operation (`StepsOfOps`); that an id `newSessionID`
has not returned left no trace and that `Create` registers its session before
anybody can name it (`UnusedUntouched`, `CreatedUnseen`); that no two sessions
hold the same JID anywhere, so that no logout can take another session's device
(`JidsDistinct`); that a client's device is stored unless a `Delete` is taking it
(`ClientsKnown`); that late handlers of a linked session carry only its own JID
(`LinkedSound`); and that while the process starts every row is either registered
or still ahead of `Restore` (`RestoreSound`). A step touches one session and one
goroutine: `OthersKept` shows once that the others keep what they have,
`WorkerStep`, `EventStep`, `MainStep` and `MainPasses` reduce the four kinds of
steps to what happens to that session, and there is one lemma per action.

### ChatwootProofs

For every set of inboxes, messages and goroutines, any number of agents'
messages, redeliveries, failures and configurations, from `ThreadsAssumption`,
`BoundsAssumption`, `AgentAssumption` and `MessagesAssumption` (the request that
configures is a goroutine of its own, agents' messages hold at most `MaxParts`
attachments, WhatsApp gives every message an id of its own):

| Theorem | Says |
|---|---|
| `BridgeInductive` | `Spec => []BridgeInv` |
| `ShownOnce` | `Spec => []PostedOnce` |
| `AgentsSpeak` | `Spec => []OnlyAgentsSpeak` |
| `EchoesSuppressed` | `Spec => []EchoSuppressed` |
| `MappingsAreSound` | `Spec => []MappingsSound` |

`PostedOnce` follows from `SeenFirst`: what was posted or is on its way was
marked as seen, and is on its way in one goroutine only. `OnlyAgentsSpeak` needs
that everything in the webhook's queue which `shouldRelay` lets through is an
agent's (`RelayableFromAgents`), which rests on the marks the bridge puts on its
own posts. `EchoSuppressed` needs that an echo exists only for a part that was
sent, and that its id is marked or its sender is at the marking step
(`EchoesMarked`). `MappingsSound` needs `MappingsFollow`, which says which inbox
a mapping is about while a configuration is between clearing the old mappings
and writing its row.

### BrokerProofs

For every set of calls, statuses, goroutines and browsers, every capacity and
number of changes, from `BrokerAssumption`:

| Theorem | Says |
|---|---|
| `Inductive` | `Spec => []BrokerInv` |
| `StreamsAreSound` | `Spec => []StreamsSound` |
| `BrowsersCurrent` | `Spec => []ViewCurrent` |

`ViewCurrent` speaks about the moment everything is broadcast; `StreamsConverge`
extends it to the moments before. For a browser that missed nothing, the events
in its channel and those still planned, applied in order to its view, lead to
the table, or a list that will be read later is among them (`Converges`,
`ListComing`), and what a goroutine has yet to send agrees with the table
(`SaysTheTable`). `VisitsSubscribed` (a broadcast only visits
subscribers, and the read lock keeps them subscribed) is what `NoSendOnClosed`
needs, `MadeBounded` what `HistoryOnce` needs.

### MediaProofs

For every number of sequence numbers, frame size, set of relay readers, set of
chunk sizes, window, recording cap and number of packets and sessions, from
`MediaAssumption` (sizes are positive, and what a relay still delivers lies
within half the sequence numbers):

| Theorem | Says |
|---|---|
| `MediaInductive` | `Spec => []MediaInv` |
| `ReceiverStaysInStep` | `Spec => []InStep` |
| `KeystreamsFresh` | `Spec => []NoKeystreamReuse` |
| `SamplesAreKept` | `Spec => []SamplesKept` |
| `RecordingsFinal` | `Spec => []RecordingFinal` |

`MediaInv` has a part for each side. Of the sender `SenderInStep` says that the
context has seen the sequence number before the next one, so that every index
used so far is below the next packet's, or belongs to an earlier SSRC. A replaced
session starts again at roll-over counter 0 with the sequence numbers going on:
harmless before they have come round, and `wrapLost` afterwards. Of the receiver
`InStep` says nothing about the goroutines between two accesses. `ContextFollows`
ties each context to its last packet, but for a goroutine between two of its
writes: `roc` is written before `lastSeq`, and `lastSeq` before `initialized`. A
goroutine inside `Unprotect` either has a packet of the epoch its context is in
(`InEpoch`), and then finds no wrap whatever the other goroutines wrote since, or
it is alone with the packet that takes the context into the next epoch
(`Crossing`); that no third case arises is where `InPlace` is needed, and that
packets in flight lie within half the sequence numbers of each other (`Reads`).
Of the capture, `CaptureSound` says that the lock is kept only in a live call;
`FramesExact` and `RecordingFinal` are inductive with it.

### StanzasProofs

For every set of devices, keys and nodes, and answers of any size, from
`StanzaAssumption`:

| Theorem | Says |
|---|---|
| `StanzasTyped` | `Spec => []TypeOK` |
| `StanzasRanked` | `Spec => []RelaysRanked` |
| `StanzasMirrored` | `Spec => []MirroredDevices` |
| `StanzasReadable` | `Spec => []KeyReadable` |

The inductive invariant is `TypeOK`, the shape of an answer; the properties
follow from it for every answer of that shape, so the work is in the lemmas about
the operators, which need no induction because the operators do not recurse.
`InOrderLists` says that `InOrder` lists every member of a finite set of places
once and in order (the place of a member is the number of members before it),
`RisingOrders`, `NestedOrders` and `EarlierOrders` that the orders it is used
with are orders, `FirstOf` and `LeastOf` that a list that is not empty has a
first and a least place.

`RelaysRanked`: `SortRanks` shows that sorting permutes the endpoints and orders
their times. An endpoint is kept if no usable one of its address comes before
it, so what is kept of an address is its fastest (`ConfigsKept`), and
`RelaysSorted` and `EndpointsOffered` tie the list to what the answer offers. The
relays listed by attribute are another list with the same times, and two sorted
lists with the same times are equal in each of them (`SameTimes`, from counting
how many are below: `Squeeze`). `MirroredDevices`: `SeenNamed` shows that the
participants are the devices named, each once; `OursFound` and `PeerFound` that
each side then finds its own device, and a peer that is not it, whatever the
order. `KeyReadable`: the children of a stanza are a concatenation
(`MembersJoined`), the node the key is in is the first one that has one
(`EncFirst`), and no other node has one at any depth (`NoKey`, `KeyDeep`).

### What is only model-checked

- Liveness (`AcceptedGoesOn`, `EngineReleased`, `RingingEnds`,
  `EndedLeavesBroker`, `EntryResolved`, `KeepaliveStops`) and
  `EmitterNeverBlocked`: fairness and `ENABLED` are outside the prover's reach.
- The other properties of `Formats`, whose algorithms are recursive over their
  input: what a recursion computes needs induction over data.
- `EndedRecordGone` and `TransportServed`, which the code violates.

## 5. Not modelled, and the plan

Not modelled: the signal processing of the MLow codec (analysis, LPC, pitch
search, CELP search, synthesis and post-filter are floating and fixed point
arithmetic over frames of hundreds of samples, out of TLC's reach; what they
decide is the input of the bit stream modelled here); ciphers and key
derivation; the WhatsApp socket, a stateless adapter; the widget and the React
components, presentation over the modelled API and event stream; stanza
builders nobody calls; video, hold and resume (no caller of the server uses
them); logging, flags, formatting of notes.

Left of the plan:

1. Engines instead of ids in the registry of `CallServer`, for a second offer
   with the id of a live call.
2. The latched peer SSRC in `Media`.
