------------------------------- MODULE Media --------------------------------
(***************************************************************************)
(* The media path of one call (internal/voip/call/callmanager_media.go,    *)
(* callmanager_srtp.go, internal/voip/media, cmd/server/recorder.go):      *)
(* captured samples are cut into frames, packed by the RTP session and     *)
(* protected by the SRTP session, frame after frame under the engine's     *)
(* lock; packets of the peer arrive on one goroutine per relay connection  *)
(* and are unprotected outside that lock, on a context they share.  Offer  *)
(* acknowledgement and acceptance replace the SRTP session while media     *)
(* flows.  The legs share only the SRTP session and the recorder, and      *)
(* neither ever looks at the recorder: a behaviour follows the packets of  *)
(* one leg, without recording, or records what both legs hand over.        *)
(***************************************************************************)
EXTENDS Integers, Sequences, FiniteSets

CONSTANTS Half,         \* half of the sequence numbers (32768)
          FrameSize,    \* samples of a frame (960)
          Readers,      \* relay connections, each with its reading goroutine
          Window,       \* how far behind the newest packet a relay still delivers
          Chunks,       \* sizes of what the browser sends at once
          RecMax, RecMin, \* recMaxSamples, and the samples of recMinSeconds
          MaxPackets, MaxPeerPackets, MaxSamples, MaxSessions \* bounds

SeqSpace == 2 * Half
Sessions == 1 .. MaxSessions

ASSUME MediaAssumption ==
  /\ Half \in Nat /\ Window \in 1 .. Half - 1
  /\ {FrameSize, RecMax} \subseteq Nat \ {0} /\ Chunks \subseteq Nat \ {0} /\ Chunks # {}
  /\ {RecMin, MaxPackets, MaxPeerPackets, MaxSamples, MaxSessions} \subseteq Nat

VARIABLES leg,      \* "send" or "recv"; "both" when the call is recorded
          up,       \* relay.HasConnection()
          live,     \* FALSE once cleanupMedia ran
          sess,     \* number of the SRTP session in use, 0 before the first
          ctx,      \* receiving context of every session
          \* sending
          rtp,      \* RtpSession: ssrc, sequenceNumber
          snd,      \* sending context of the session in use
          buf,      \* encodeBuf up to encodeBufPos
          framed,   \* the frames cut so far
          captured, \* samples copied from the browser's chunks, numbered from 1
          feed,     \* the chunk at hand: its size, and how much is left to copy
          idle,     \* more than 120 ms since lastCaptureAt
          ivs,      \* what keystreams were derived from
          packets,  \* packets sent
          wrapLost, \* the session was replaced after its sequence numbers came round
          \* receiving
          peer,     \* the peer's first sequence number and how many packets it sent
          rd,       \* the goroutines reading from the relays
          prev,     \* the last packet each session's context has seen
          orderly,  \* no packet crossed a wrap the wrong way
          garbled,  \* a packet was decrypted with the wrong index
          \* recording
          reg,      \* the session's registry has the call
          heard,    \* goroutines that have a decoded frame for OnPeerAudio
          rec       \* the recorder: samples of each side, and its file

sending == <<rtp, snd, buf, framed, captured, feed, idle, ivs, packets, wrapLost>>
receiving == <<ctx, peer, rd, prev, orderly, garbled>>
recording == <<reg, heard, rec>>
vars == <<leg, up, live, sess, sending, receiving, recording>>

NewContext == [roc |-> 0, last |-> 0, initialized |-> FALSE]
NoChunk == [size |-> 0, left |-> 0]
Reading == [pc |-> "idle", pkt |-> 0, sess |-> 0, roc |-> 0]

\* taken is what finishWAV has to mix, -1 before; wav the samples of the file, -1 before and
\* 0 when the call was too short
NewRecorder == [peer |-> 0, browser |-> 0, closed |-> FALSE, taken |-> -1, wav |-> -1]

\* the number of a packet of the peer counts from its first sequence number's epoch
Seq16(n) == n % SeqSpace
Epoch(n) == n \div SeqSpace

Init ==
  /\ leg \in {"send", "recv", "both"}
  /\ up = FALSE /\ live = TRUE
  /\ sess = 0 /\ ctx = [s \in Sessions |-> NewContext]
  /\ \E first \in 0 .. SeqSpace - 1 :
       /\ rtp = [ssrc |-> 1, seq |-> IF leg = "send" THEN first ELSE 0]
       /\ peer = [first |-> IF leg = "recv" THEN first ELSE 0, sent |-> 0]
  /\ snd = NewContext
  /\ buf = <<>> /\ framed = <<>> /\ captured = 0 /\ feed = NoChunk /\ idle = TRUE
  /\ ivs = {} /\ packets = 0 /\ wrapLost = FALSE
  /\ rd = [r \in Readers |-> Reading]
  /\ prev = [s \in Sessions |-> -1] /\ orderly = TRUE /\ garbled = FALSE
  /\ reg = TRUE /\ heard = [r \in Readers |-> "none"] /\ rec = NewRecorder

\* the engine's lock is free: only the loop of FeedCapturedPCM keeps it over several steps
Unlocked == feed.left = 0

-----------------------------------------------------------------------------
\* Sessions

\* initSrtpKeysLocked: a new session, with fresh contexts in both directions
initSrtpKeys ==
  /\ sess < MaxSessions
  /\ sess' = sess + 1
  /\ snd' = NewContext
  /\ wrapLost' = (wrapLost \/ (snd.initialized /\ (snd.roc > 0 \/ rtp.seq < snd.last)))
  /\ ctx' = [ctx EXCEPT ![sess + 1] = NewContext]

\* NewRtpSession starts at a random sequence number
renewAlways(ssrc) == \E s \in 0 .. SeqSpace - 1 : rtp' = [ssrc |-> ssrc, seq |-> s]

\* HandleCallAck, setupIncomingMedia: the RTP session survives unless our SSRC changed
renewRtp(ssrc) ==
  IF ssrc = rtp.ssrc THEN UNCHANGED rtp
  ELSE \E s \in 0 .. SeqSpace - 1 : rtp' = [ssrc |-> ssrc, seq |-> s]

\* participants become known: our device, and with it our SSRC, may be another
LearnParticipants(ssrc) ==
  /\ live /\ Unlocked /\ leg # "both" /\ ssrc >= rtp.ssrc /\ (leg = "recv" => ssrc = rtp.ssrc)
  /\ renewRtp(ssrc) /\ initSrtpKeys
  /\ UNCHANGED <<leg, up, live, buf, framed, captured, feed, idle, ivs, packets, peer,
                 rd, prev, orderly, garbled, recording>>

\* HandleCallAccept
Accept ==
  /\ live /\ Unlocked /\ sess > 0 /\ initSrtpKeys
  /\ UNCHANGED <<leg, up, live, rtp, buf, framed, captured, feed, idle, ivs, packets, peer,
                 rd, prev, orderly, garbled, recording>>

Connect == live /\ ~up /\ leg # "both" /\ up' = TRUE /\ UNCHANGED <<leg, live, sess, sending, receiving, recording>>
Disconnect == up /\ up' = FALSE /\ UNCHANGED <<leg, live, sess, sending, receiving, recording>>

\* removeCall, from the OnStateChange of a call that ends: with the engine's lock held the
\* call leaves the registry and the goroutine of finalizeRecording starts
removeCall ==
  /\ leg = "both" /\ reg /\ live /\ Unlocked /\ reg' = FALSE
  /\ UNCHANGED <<leg, up, live, sess, sending, receiving, heard, rec>>

\* later the engine, unlocked in between, drops its media
cleanupMedia ==
  /\ live /\ Unlocked /\ live' = FALSE /\ up' = FALSE /\ (leg = "both" => ~reg)
  /\ buf' = <<>>
  /\ UNCHANGED <<leg, sess, receiving, recording, rtp, snd, framed, captured, feed, idle, ivs, packets,
                 wrapLost>>

-----------------------------------------------------------------------------
\* Roll-over counter: sequence numbers are compared as integers of a wider type

wrappedBack(seq, last) == seq - last < 0
wrapped(seq, last) == seq - last < -Half

updateRoc(c, seq) ==
  IF ~c.initialized THEN [c EXCEPT !.last = seq, !.initialized = TRUE]
  ELSE [c EXCEPT !.roc = IF wrapped(seq, c.last) THEN @ + 1 ELSE @, !.last = seq]

-----------------------------------------------------------------------------
\* Sending

\* the keystream is derived from SSRC and index (packetIndex, generateIV)
Protect(c) == snd' = c /\ ivs' = ivs \cup {<<rtp.ssrc, c.roc, rtp.seq>>}

\* sendOpusFrameLocked: CreatePacket, then Protect; the payload plays no part
sendOpusFrame ==
  /\ packets < MaxPackets /\ packets' = packets + 1
  /\ rtp' = [rtp EXCEPT !.seq = (@ + 1) % SeqSpace]
  /\ Protect(updateRoc(snd, rtp.seq))
sendsNothing == UNCHANGED <<rtp, snd, ivs, packets>>

Ready == live /\ up /\ sess > 0

\* the browser's audio channel hands over a chunk, also after the call has ended; without a
\* session or a connection FeedCapturedPCM returns at once
OnBrowserPCM(n) ==
  /\ leg \in {"send", "both"} /\ feed = NoChunk
  /\ IF Ready THEN /\ captured + n <= MaxSamples
                   /\ feed' = [size |-> n, left |-> n] /\ idle' = FALSE
              ELSE feed' = [size |-> n, left |-> 0] /\ UNCHANGED idle
  /\ UNCHANGED <<leg, up, live, sess, rtp, snd, buf, framed, captured, ivs, packets, wrapLost,
                 receiving, recording>>

toCopyAll == feed.left

\* as many samples as there are and as the buffer takes
toCopy == LET room == FrameSize - Len(buf) IN IF feed.left < room THEN feed.left ELSE room
Samples(from, n) == [i \in 1 .. n |-> from + i]
Filled == buf \o Samples(captured, toCopy)

\* one turn of the loop: a full buffer is a frame, which the encoder may refuse
FeedCapturedPCM ==
  /\ feed.left > 0
  /\ feed' = [feed EXCEPT !.left = @ - toCopy] /\ captured' = captured + toCopy
  /\ IF Len(Filled) < FrameSize THEN buf' = Filled /\ sendsNothing /\ UNCHANGED framed
     ELSE /\ framed' = Append(framed, Filled) /\ buf' = <<>>
          /\ sendOpusFrame \/ sendsNothing
  /\ UNCHANGED <<leg, up, live, sess, idle, wrapLost, receiving, recording>>

\* under the recorder's lock; without recording there is no recorder, and nothing to do
appendSideOpen(side, n) ==
  IF leg # "both" \/ rec[side] >= RecMax THEN rec ELSE [rec EXCEPT ![side] = @ + n]
appendSide(side, n) ==
  IF leg # "both" \/ rec.closed \/ rec[side] >= RecMax THEN rec ELSE [rec EXCEPT ![side] = @ + n]

\* after FeedCapturedPCM has returned the chunk goes to the recorder, in the registry or not
writeBrowser ==
  /\ feed.size > 0 /\ Unlocked
  /\ rec' = appendSide("browser", feed.size) /\ feed' = NoChunk
  /\ UNCHANGED <<leg, up, live, sess, rtp, snd, buf, framed, captured, idle, ivs, packets, wrapLost,
                 receiving, reg, heard>>

CaptureStops ==
  /\ leg = "send" /\ ~idle /\ idle' = TRUE
  /\ UNCHANGED <<leg, up, live, sess, rtp, snd, buf, framed, captured, feed, ivs, packets,
                 wrapLost, receiving, recording>>

\* the ticker of startSilenceKeepaliveLocked
Silence ==
  /\ leg = "send" /\ Unlocked /\ Ready /\ idle
  /\ sendOpusFrame
  /\ UNCHANGED <<leg, up, live, sess, buf, framed, captured, feed, idle, wrapLost, receiving, recording>>

-----------------------------------------------------------------------------
\* Receiving

PeerSends ==
  /\ leg = "recv" /\ live /\ peer.sent < MaxPeerPackets
  /\ peer' = [peer EXCEPT !.sent = @ + 1]
  /\ UNCHANGED <<leg, up, live, sess, sending, ctx, rd, prev, orderly, garbled, recording>>

Busy(r) == rd[r].pc # "idle"
\* A packet n in its place: not of an epoch before the last packet's, not half the space after
\* it, of the peer's first epoch when it opens a session, and beside another goroutine's only
\* within half the space of it and inside an epoch whose first packet has left updateRoc
InPlace(n, s) ==
  /\ prev[s] >= 0 => n - prev[s] < Half /\ Epoch(n) >= Epoch(prev[s])
  /\ prev[s] < 0 => Epoch(n) = 0
  /\ \A r \in Readers : Busy(r) /\ rd[r].sess = s =>
       /\ n - rd[r].pkt <= Half /\ Epoch(rd[r].pkt) = Epoch(n)
       /\ prev[s] >= 0 => Epoch(prev[s]) = Epoch(n)

\* onRelayData up to the unlock: a relay hands over any packet of the window, lost ones never
onRelayData(r, n) ==
  /\ leg = "recv" /\ live /\ up /\ sess > 0 /\ ~Busy(r)
  /\ n - peer.first \in 0 .. peer.sent - 1
  /\ peer.first + peer.sent - n <= Window
  /\ rd' = [rd EXCEPT ![r] = [Reading EXCEPT !.pc = "initialized", !.pkt = n, !.sess = sess]]
  /\ orderly' = (orderly /\ InPlace(n, sess))
  /\ UNCHANGED <<leg, up, live, sess, sending, ctx, peer, prev, garbled, recording>>

\* Unprotect, outside the lock.  Each access updateRoc and packetIndex make to the shared
\* context is a step; the goroutine keeps what it has read.
Context(r) == ctx[rd[r].sess]
Goto(r, pc) == rd' = [rd EXCEPT ![r].pc = pc]
reads == <<leg, up, live, sess, sending, ctx, peer, prev, orderly, garbled, recording>>

readInitialized(r) ==
  /\ rd[r].pc = "initialized"
  /\ Goto(r, IF Context(r).initialized THEN "diff" ELSE "first")
  /\ UNCHANGED reads

readLast(r) ==
  /\ rd[r].pc = "diff"
  /\ Goto(r, IF wrapped(Seq16(rd[r].pkt), Context(r).last) THEN "roc" ELSE "last")
  /\ UNCHANGED reads

readRoc(r) ==
  /\ rd[r].pc = "roc"
  /\ rd' = [rd EXCEPT ![r].roc = Context(r).roc, ![r].pc = "increment"]
  /\ UNCHANGED reads

writeRoc(r) ==
  /\ rd[r].pc = "increment" /\ Goto(r, "last")
  /\ ctx' = [ctx EXCEPT ![rd[r].sess].roc = rd[r].roc + 1]
  /\ UNCHANGED <<leg, up, live, sess, sending, peer, prev, orderly, garbled, recording>>

\* lastSeq, for a first packet and for a later one
writeLast(r) ==
  /\ rd[r].pc \in {"first", "last"}
  /\ Goto(r, IF rd[r].pc = "first" THEN "set" ELSE "index")
  /\ ctx' = [ctx EXCEPT ![rd[r].sess].last = Seq16(rd[r].pkt)]
  /\ prev' = [prev EXCEPT ![rd[r].sess] = rd[r].pkt]
  /\ UNCHANGED <<leg, up, live, sess, sending, peer, orderly, garbled, recording>>

setInitialized(r) ==
  /\ rd[r].pc = "set" /\ Goto(r, "index")
  /\ ctx' = [ctx EXCEPT ![rd[r].sess].initialized = TRUE]
  /\ UNCHANGED <<leg, up, live, sess, sending, peer, prev, orderly, garbled, recording>>

\* packetIndex reads roc, which with the packet's own number gives the keystream
decode(r) ==
  /\ rd[r].pc = "index"
  /\ garbled' = (garbled \/ Context(r).roc # Epoch(rd[r].pkt))
  /\ rd' = [rd EXCEPT ![r] = Reading]
  /\ UNCHANGED <<leg, up, live, sess, sending, ctx, peer, prev, orderly, recording>>

-----------------------------------------------------------------------------
\* Recording: both legs hand their audio over, on goroutines of their own

\* a packet taken while there was media has been decoded, on the goroutine of its relay
FrameDecoded(r) ==
  /\ leg = "both" /\ live /\ heard[r] = "none"
  /\ heard' = [heard EXCEPT ![r] = "frame"]
  /\ UNCHANGED <<leg, up, live, sess, sending, receiving, reg, rec>>

\* OnPeerAudio looks the call up ...
OnPeerAudio(r) ==
  /\ heard[r] = "frame"
  /\ heard' = [heard EXCEPT ![r] = IF reg THEN "found" ELSE "none"]
  /\ UNCHANGED <<leg, up, live, sess, sending, receiving, reg, rec>>

\* ... and writes to the recorder it found, which may have been closed meanwhile
writePeer(r) ==
  /\ heard[r] = "found" /\ heard' = [heard EXCEPT ![r] = "none"]
  /\ rec' = appendSide("peer", FrameSize)
  /\ UNCHANGED <<leg, up, live, sess, sending, receiving, reg>>

Longer == IF rec.peer > rec.browser THEN rec.peer ELSE rec.browser

\* finishWAV closes the recorder and takes both sides under its lock ...
finishWAV ==
  /\ ~reg /\ ~rec.closed
  /\ rec' = [rec EXCEPT !.closed = TRUE, !.taken = Longer]
  /\ UNCHANGED <<leg, up, live, sess, sending, receiving, reg, heard>>

\* ... and mixes them outside it, sample by sample up to the end of the longer one
mixWAV ==
  /\ rec.taken >= 0 /\ rec.wav = -1
  /\ rec' = [rec EXCEPT !.wav = IF rec.taken < RecMin THEN 0 ELSE rec.taken]
  /\ UNCHANGED <<leg, up, live, sess, sending, receiving, reg, heard>>

Next ==
  \/ \E ssrc \in {1, 2} : LearnParticipants(ssrc)
  \/ Accept \/ Connect \/ Disconnect \/ cleanupMedia
  \/ \E n \in Chunks : OnBrowserPCM(n)
  \/ FeedCapturedPCM \/ writeBrowser \/ CaptureStops \/ Silence
  \/ PeerSends
  \/ \E r \in Readers : \/ \E n \in 0 .. SeqSpace + MaxPeerPackets : onRelayData(r, n)
                        \/ readInitialized(r) \/ readLast(r) \/ readRoc(r) \/ writeRoc(r)
                        \/ writeLast(r) \/ setInitialized(r) \/ decode(r)
                        \/ FrameDecoded(r) \/ OnPeerAudio(r) \/ writePeer(r)
  \/ removeCall \/ finishWAV \/ mixWAV

Spec == Init /\ [][Next]_vars

-----------------------------------------------------------------------------
\* Properties

\* Every variable holds a value of its kind; the encode buffer never fills (it is cut at
\* FrameSize), the roll-over counter stays below what the packets can have wrapped, and a
\* recording below its cap but for one chunk.
TypeOK ==
  /\ leg \in {"send", "recv", "both"} /\ up \in BOOLEAN /\ live \in BOOLEAN /\ sess \in 0 .. MaxSessions
  /\ ctx \in [Sessions -> [roc : Nat, last : 0 .. SeqSpace - 1, initialized : BOOLEAN]]
  /\ rtp \in [ssrc : 1 .. 2, seq : 0 .. SeqSpace - 1]
  /\ snd \in [roc : Nat, last : 0 .. SeqSpace - 1, initialized : BOOLEAN]
  /\ snd.initialized => snd.roc * SeqSpace + snd.last < packets + SeqSpace
  /\ buf \in Seq(Nat) /\ Len(buf) < FrameSize /\ framed \in Seq(Seq(Nat)) /\ captured \in Nat
  /\ feed \in [size : Chunks \cup {0}, left : Nat]
  /\ idle \in BOOLEAN /\ wrapLost \in BOOLEAN
  /\ ivs \subseteq (1 .. 2) \X Nat \X (0 .. SeqSpace - 1) /\ packets \in 0 .. MaxPackets
  /\ peer \in [first : 0 .. SeqSpace - 1, sent : 0 .. MaxPeerPackets]
  /\ rd \in [Readers -> [pc : {"idle", "initialized", "first", "set", "diff", "roc", "increment",
                               "last", "index"},
                         pkt : Nat, sess : 0 .. MaxSessions, roc : Nat]]
  /\ prev \in [Sessions -> Nat \cup {-1}] /\ orderly \in BOOLEAN /\ garbled \in BOOLEAN
  /\ reg \in BOOLEAN /\ heard \in [Readers -> {"none", "frame", "found"}]
  /\ rec \in [peer : Nat, browser : Nat, closed : BOOLEAN, taken : Nat \cup {-1}, wav : Nat \cup {-1}]
  /\ rec.peer < RecMax + FrameSize /\ \E n \in Chunks : rec.browser < RecMax + n

\* InStep: a receiver whose packets came in their place (InPlace) decrypts every one of them
\* with the index the peer used, whatever was lost, sent twice by a second relay or reordered
\* within an epoch, and however the goroutines interleave inside Unprotect there
\* (SrtpContext.updateRoc).
InStep == orderly => ~garbled

\* NoKeystreamReuse: no two packets of a call are encrypted with the same SSRC and index,
\* through sequence wrap, silence and capture interleaved, a new SSRC and a replaced session,
\* unless a session was replaced after its sequence numbers had come round to 0 (generateIV,
\* HandleCallAck, HandleCallAccept).
NoKeystreamReuse == wrapLost \/ Cardinality(ivs) = packets

\* FramesExact: the frames cut from the capture, then the buffer, are the captured samples,
\* each once and in order, whatever sizes they came in (FeedCapturedPCM).
FramesExact ==
  live =>
    /\ \A k \in DOMAIN framed : framed[k] = Samples((k - 1) * FrameSize, FrameSize)
    /\ buf = Samples(Len(framed) * FrameSize, Len(buf))
    /\ captured = Len(framed) * FrameSize + Len(buf)

\* RecordingFinal: the file of a call has exactly the samples of the longer side as it stood
\* when the recorder was closed, and nothing is added to either side from then on, with the
\* browser and several relays still handing over audio while the call ends, its media is
\* dropped and the file is mixed (removeCall, finishWAV, writePeer, writeBrowser).
RecordingFinal ==
  /\ rec.closed <=> rec.taken >= 0
  /\ rec.closed => rec.taken = Longer
  /\ rec.wav >= 0 => rec.closed /\ rec.wav = IF Longer < RecMin THEN 0 ELSE Longer

\* SamplesKept: between the browser and the frames every sample is kept once and in order,
\* within buffer and bounds, and neither side of a recording outgrows its cap by more than
\* the chunk that reached it (FeedCapturedPCM, appendSide).
SamplesKept == TypeOK /\ FramesExact

-----------------------------------------------------------------------------
\* The inductive invariants

\* The sender: the context has seen the sequence number before the next one, and every
\* keystream used so far was derived from an earlier SSRC, or from the present one and an
\* index below the next packet's.
nextRoc == updateRoc(snd, rtp.seq).roc
Before(iv) ==
  \/ iv[1] < rtp.ssrc
  \/ iv[1] = rtp.ssrc /\ (iv[2] < nextRoc \/ (iv[2] = nextRoc /\ iv[3] < rtp.seq))
SenderInStep ==
  /\ IF snd.initialized THEN rtp.seq = (snd.last + 1) % SeqSpace ELSE snd = NewContext
  /\ IsFiniteSet(ivs)
  /\ ~wrapLost => Cardinality(ivs) = packets /\ \A iv \in ivs : Before(iv)

\* The capture: the lock is kept only in a live call, and a chunk has no more left than it had.
CaptureSound ==
  /\ feed.left > 0 => live
  /\ feed.left <= feed.size

\* The receiver.  A context is where its last packet was, but for a goroutine between two of
\* its writes: the roll-over counter goes before lastSeq, and lastSeq before initialized.
Crossed(r, s) == rd[r].pc = "last" /\ rd[r].sess = s /\ Epoch(rd[r].pkt) = Epoch(prev[s]) + 1
Setting(r, s) == rd[r].pc = "set" /\ rd[r].sess = s
ContextFollows(s) ==
  /\ s > sess => prev[s] = -1
  /\ IF prev[s] = -1 THEN ctx[s] = NewContext
     ELSE /\ ctx[s].last = Seq16(prev[s]) /\ prev[s] < peer.first + peer.sent
          /\ ctx[s].roc = Epoch(prev[s]) \/ \E r \in Readers : Crossed(r, s)
          /\ ctx[s].initialized \/ \E r \in Readers : Setting(r, s)

\* A goroutine in Unprotect has a packet of the epoch its context is in, not far behind the
\* last one, or is alone with the packet that takes the context into the next epoch.
InEpoch(r) ==
  LET s == rd[r].sess
  IN  /\ rd[r].pc \in {"initialized", "first", "set", "diff", "last", "index"}
      /\ Epoch(rd[r].pkt) = ctx[s].roc /\ prev[s] - rd[r].pkt <= Half
      /\ IF prev[s] >= 0 THEN Epoch(rd[r].pkt) = Epoch(prev[s])
         ELSE Epoch(rd[r].pkt) = 0 /\ rd[r].pc \in {"initialized", "first"}
Crossing(r) ==
  LET s == rd[r].sess
  IN  /\ rd[r].pc \in {"initialized", "diff", "roc", "increment", "last"}
      /\ prev[s] >= 0 /\ rd[r].pkt - prev[s] < Half /\ Epoch(rd[r].pkt) = Epoch(prev[s]) + 1
      /\ ctx[s].roc = IF rd[r].pc = "last" THEN Epoch(prev[s]) + 1 ELSE Epoch(prev[s])
      /\ rd[r].pc = "increment" => rd[r].roc = ctx[s].roc
      /\ \A q \in Readers \ {r} : Busy(q) => rd[q].sess # s
Reads(r) ==
  /\ rd[r].pkt < peer.first + peer.sent
  /\ InEpoch(r) \/ Crossing(r)
  /\ \A q \in Readers : Busy(q) /\ rd[q].sess = rd[r].sess => rd[r].pkt - rd[q].pkt <= Half
ReceiverInStep ==
  /\ \A r \in Readers : Busy(r) => rd[r].sess \in 1 .. sess
  /\ orderly => /\ ~garbled /\ \A s \in Sessions : ContextFollows(s)
                /\ \A r \in Readers : Busy(r) => Reads(r)

MediaInv ==
  /\ TypeOK /\ SenderInStep /\ CaptureSound /\ FramesExact /\ RecordingFinal /\ ReceiverInStep
=============================================================================
