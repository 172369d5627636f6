----------------------------- MODULE MediaProofs -----------------------------
(***************************************************************************)
(* Theorems about Media, for every width of sequence numbers, frame size,  *)
(* set of relay connections and chunk sizes.  The invariant falls into     *)
(* four parts, sender, capture, recorder and receiver, each with a lemma   *)
(* that says which actions touch it and one lemma for each of these.       *)
(***************************************************************************)
EXTENDS Media, FiniteSetTheorems, SequenceTheorems, TLAPS

LEMMA SpaceType == Half \in Nat /\ Half > 1 /\ SeqSpace \in Nat /\ SeqSpace = 2 * Half
BY MediaAssumption DEF SeqSpace

LEMMA Division ==
  ASSUME NEW n \in Nat
  PROVE  /\ Seq16(n) \in 0 .. SeqSpace - 1 /\ Epoch(n) \in Nat
         /\ n = SeqSpace * Epoch(n) + Seq16(n)
<1>1. ASSUME NEW s \in Nat \ {0}
      PROVE  n % s \in 0 .. s - 1 /\ n \div s \in Nat /\ n = s * (n \div s) + (n % s)
  OBVIOUS
<1>2. SeqSpace \in Nat \ {0}
  BY SpaceType
<1>. QED  BY <1>1, <1>2, Zenon DEF Seq16, Epoch

LEMMA NextSeq ==
  ASSUME NEW seq \in 0 .. SeqSpace - 1
  PROVE  (seq + 1) % SeqSpace = IF seq = SeqSpace - 1 THEN 0 ELSE seq + 1
BY SpaceType

LEMMA Multiples ==
  ASSUME NEW s \in Nat, NEW e \in Nat, NEW f \in Nat, NEW a \in 0 .. s - 1, NEW b \in 0 .. s - 1,
         NEW h \in Nat, s = 2 * h, e > f, (s * e + a) - (s * f + b) < h
  PROVE  e = f + 1 /\ (s * e + a) - (s * f + b) = s + a - b
<1>1. s * e - s * f = s * (e - f)
  OBVIOUS
<1>2. e - f >= 2 => s * (e - f) >= 2 * s
  OBVIOUS
<1>. QED  BY <1>1, <1>2

LEMMA SameEpoch ==
  ASSUME NEW n \in Nat, NEW m \in Nat, Epoch(n) = Epoch(m)
  PROVE  n - m = Seq16(n) - Seq16(m)
BY Division, SpaceType

LEMMA LaterEpoch ==
  ASSUME NEW n \in Nat, NEW m \in Nat, Epoch(n) > Epoch(m), n - m < Half
  PROVE  Epoch(n) = Epoch(m) + 1 /\ n - m = SeqSpace + Seq16(n) - Seq16(m)
<1>. DEFINE e == Epoch(n)  f == Epoch(m)  a == Seq16(n)  b == Seq16(m)
<1>1. e \in Nat /\ f \in Nat /\ a \in 0 .. SeqSpace - 1 /\ b \in 0 .. SeqSpace - 1
  BY Division
<1>2. n = SeqSpace * e + a /\ m = SeqSpace * f + b
  BY Division
<1>. HIDE DEF e, f, a, b
<1>3. e = f + 1 /\ (SeqSpace * e + a) - (SeqSpace * f + b) = SeqSpace + a - b
  <2>. e > f /\ (SeqSpace * e + a) - (SeqSpace * f + b) < Half
    BY <1>2 DEF e, f
  <2>. QED  BY <1>1, Multiples, SpaceType
<1>. QED  BY <1>2, <1>3 DEF e, f, a, b
-----------------------------------------------------------------------------
(* What the goroutines of the relays and the recording leave alone. *)

unprotects(r) == \/ readInitialized(r) \/ readLast(r) \/ readRoc(r) \/ writeRoc(r)
                 \/ writeLast(r) \/ setInitialized(r) \/ decode(r)
LEMMA ReadersTouch ==
  ASSUME NEW r \in Readers,
         unprotects(r) \/ \E n \in 0 .. SeqSpace + MaxPeerPackets : onRelayData(r, n)
  PROVE  UNCHANGED <<leg, up, live, sess, peer, sending, recording>>
BY DEF unprotects, readInitialized, readLast, readRoc, writeRoc, writeLast, setInitialized, decode,
       onRelayData, reads

records == \/ removeCall \/ finishWAV \/ mixWAV
           \/ \E r \in Readers : FrameDecoded(r) \/ OnPeerAudio(r) \/ writePeer(r)
LEMMA RecordingTouches ==
  ASSUME records
  PROVE  UNCHANGED <<leg, up, live, sess, sending, receiving>>
BY DEF records, removeCall, finishWAV, mixWAV, FrameDecoded, OnPeerAudio, writePeer
-----------------------------------------------------------------------------
(* The sender. *)

sender == <<rtp, snd, ivs, packets, wrapLost>>
SenderTypes ==
  /\ rtp \in [ssrc : 1 .. 2, seq : 0 .. SeqSpace - 1]
  /\ snd \in [roc : Nat, last : 0 .. SeqSpace - 1, initialized : BOOLEAN]
  /\ snd.initialized => snd.roc * SeqSpace + snd.last < packets + SeqSpace
  /\ ivs \subseteq (1 .. 2) \X Nat \X (0 .. SeqSpace - 1) /\ packets \in 0 .. MaxPackets
  /\ wrapLost \in BOOLEAN

(* The context after the next packet. *)
LEMMA NextContext ==
  ASSUME SenderTypes
  PROVE  /\ nextRoc \in Nat
         /\ updateRoc(snd, rtp.seq) = [roc |-> nextRoc, last |-> rtp.seq, initialized |-> TRUE]
         /\ nextRoc = IF snd.initialized /\ rtp.seq - snd.last < - Half THEN snd.roc + 1 ELSE snd.roc
<1>1. /\ snd = [roc |-> snd.roc, last |-> snd.last, initialized |-> snd.initialized]
      /\ snd.roc \in Nat /\ snd.last \in 0 .. SeqSpace - 1 /\ snd.initialized \in BOOLEAN
      /\ rtp.seq \in 0 .. SeqSpace - 1
  BY DEF SenderTypes
<1>2. CASE snd.initialized /\ rtp.seq - snd.last < - Half
  <2>1. updateRoc(snd, rtp.seq) = [roc |-> snd.roc + 1, last |-> rtp.seq, initialized |-> TRUE]
    BY <1>1, <1>2 DEF updateRoc, wrapped
  <2>. QED  BY <1>1, <1>2, <2>1 DEF nextRoc
<1>3. CASE ~(snd.initialized /\ rtp.seq - snd.last < - Half)
  <2>1. updateRoc(snd, rtp.seq) = [roc |-> snd.roc, last |-> rtp.seq, initialized |-> TRUE]
    BY <1>1, <1>3 DEF updateRoc, wrapped
  <2>. QED  BY <1>1, <1>3, <2>1 DEF nextRoc
<1>. QED  BY <1>2, <1>3

LEMMA SenderMoves ==
  ASSUME SenderTypes, [Next]_vars
  PROVE  \/ UNCHANGED sender
         \/ sendOpusFrame /\ UNCHANGED wrapLost
         \/ /\ initSrtpKeys /\ UNCHANGED <<ivs, packets>>
            /\ \E ssrc \in {1, 2} : ssrc >= rtp.ssrc /\ renewRtp(ssrc)
<1>1. CASE UNCHANGED vars
  BY <1>1 DEF vars, sending, sender
<1>2. CASE \E ssrc \in {1, 2} : LearnParticipants(ssrc)
  BY <1>2 DEF LearnParticipants
<1>3. CASE Accept
  <2>1. rtp.ssrc \in {1, 2} /\ rtp.ssrc >= rtp.ssrc
    BY DEF SenderTypes
  <2>. QED  BY <1>3, <2>1 DEF Accept, renewRtp
<1>4. CASE FeedCapturedPCM \/ Silence
  BY <1>4 DEF FeedCapturedPCM, Silence, sendsNothing, sender
<1>5. CASE \/ Connect \/ Disconnect \/ cleanupMedia \/ writeBrowser \/ CaptureStops \/ PeerSends
           \/ \E n \in Chunks : OnBrowserPCM(n)
  BY <1>5 DEF Connect, Disconnect, cleanupMedia, writeBrowser, CaptureStops, PeerSends,
       OnBrowserPCM, sending, sender
<1>6. ASSUME NEW r \in Readers,
             unprotects(r) \/ \E n \in 0 .. SeqSpace + MaxPeerPackets : onRelayData(r, n)
      PROVE  UNCHANGED sender
  BY <1>6, ReadersTouch DEF sending, sender
<1>7. CASE records
  BY <1>7, RecordingTouches DEF sending, sender
<1>. QED  BY <1>1, <1>2, <1>3, <1>4, <1>5, <1>6, <1>7 DEF Next, unprotects, records

(* Protecting a packet uses an index that is above every one used before. *)
LEMMA SendKeeps ==
  ASSUME SenderTypes, SenderInStep, sendOpusFrame, UNCHANGED wrapLost
  PROVE  SenderTypes' /\ SenderInStep'
<1>. DEFINE iv == <<rtp.ssrc, nextRoc, rtp.seq>>
<1>1. /\ packets < MaxPackets /\ packets' = packets + 1
      /\ rtp' = [rtp EXCEPT !.seq = (@ + 1) % SeqSpace]
      /\ snd' = [roc |-> nextRoc, last |-> rtp.seq, initialized |-> TRUE]
      /\ ivs' = ivs \cup {iv}
  BY NextContext DEF sendOpusFrame, Protect
<1>2. /\ rtp.seq \in 0 .. SeqSpace - 1 /\ rtp.ssrc \in 1 .. 2 /\ packets \in Nat /\ MaxPackets \in Nat
      /\ snd.roc \in Nat /\ snd.last \in 0 .. SeqSpace - 1 /\ snd.initialized \in BOOLEAN /\ nextRoc \in Nat
  BY NextContext, MediaAssumption DEF SenderTypes
<1>3. rtp' = [ssrc |-> rtp.ssrc, seq |-> IF rtp.seq = SeqSpace - 1 THEN 0 ELSE rtp.seq + 1]
  BY <1>1, <1>2, NextSeq DEF SenderTypes
<1>4. nextRoc * SeqSpace + rtp.seq < packets + 1 + SeqSpace
  <2>1. CASE ~snd.initialized
    BY <1>2, <2>1, NextContext, SpaceType DEF SenderInStep, NewContext
  <2>2. CASE snd.initialized
    <3>1. rtp.seq = IF snd.last = SeqSpace - 1 THEN 0 ELSE snd.last + 1
      BY <1>2, <2>2, NextSeq DEF SenderInStep
    <3>2. nextRoc = IF snd.last = SeqSpace - 1 THEN snd.roc + 1 ELSE snd.roc
      BY <1>2, <2>2, <3>1, NextContext, SpaceType
    <3>3. (snd.roc + 1) * SeqSpace = snd.roc * SeqSpace + SeqSpace
      BY <1>2, SpaceType
    <3>4. snd.roc * SeqSpace \in Nat /\ snd.roc * SeqSpace + snd.last < packets + SeqSpace
      BY <1>2, <2>2, SpaceType DEF SenderTypes
    <3>. QED  BY <1>2, <3>1, <3>2, <3>3, <3>4, SpaceType
  <2>. QED  BY <1>2, <2>1, <2>2
<1>5. SenderTypes'
  BY <1>1, <1>2, <1>3, <1>4, SpaceType DEF SenderTypes
<1>6. nextRoc' = IF rtp.seq = SeqSpace - 1 THEN nextRoc + 1 ELSE nextRoc
  BY <1>1, <1>2, <1>3, SpaceType DEF nextRoc, updateRoc, wrapped
<1>7. rtp'.seq = (snd'.last + 1) % SeqSpace /\ snd'.initialized
  BY <1>1, <1>2 DEF SenderTypes
<1>8. ASSUME ~wrapLost
      PROVE  Cardinality(ivs') = packets' /\ \A x \in ivs' : Before(x)'
  <2>1. Cardinality(ivs) = packets /\ IsFiniteSet(ivs) /\ \A x \in ivs : Before(x)
    BY <1>8 DEF SenderInStep
  <2>2. iv \notin ivs
    BY <2>1, <1>2 DEF Before
  <2>3. Cardinality(ivs') = packets'
    BY <1>1, <2>1, <2>2, FS_AddElement
  <2>4. ASSUME NEW x \in ivs PROVE Before(x)'
    <3>1. x[1] \in 1 .. 2 /\ x[2] \in Nat /\ x[3] \in 0 .. SeqSpace - 1
      BY DEF SenderTypes
    <3>. QED  BY <1>2, <1>3, <1>6, <2>1, <3>1, SpaceType DEF Before
  <2>5. ASSUME NEW x, x = iv PROVE Before(x)'
    BY <2>5, <1>2, <1>3, <1>6, SpaceType DEF Before
  <2>. QED  BY <1>1, <2>3, <2>4, <2>5
<1>9. IsFiniteSet(ivs')
  BY <1>1, FS_AddElement DEF SenderInStep
<1>. QED  BY <1>5, <1>7, <1>8, <1>9 DEF SenderInStep, Before

(* A replaced session starts again at roll-over counter 0: the index still grows, unless the
   sequence numbers have come round. *)
LEMMA RekeyKeeps ==
  ASSUME SenderTypes, SenderInStep, initSrtpKeys, UNCHANGED <<ivs, packets>>,
         NEW ssrc \in {1, 2}, ssrc >= rtp.ssrc, renewRtp(ssrc)
  PROVE  SenderTypes' /\ SenderInStep'
<1>1. /\ snd' = NewContext
      /\ wrapLost' = (wrapLost \/ (snd.initialized /\ (snd.roc > 0 \/ rtp.seq < snd.last)))
  BY DEF initSrtpKeys
<1>2. NewContext \in [roc : Nat, last : 0 .. SeqSpace - 1, initialized : BOOLEAN]
  BY SpaceType DEF NewContext
<1>3. /\ rtp.seq \in 0 .. SeqSpace - 1 /\ rtp.ssrc \in 1 .. 2 /\ nextRoc \in Nat
      /\ snd.roc \in Nat /\ snd.last \in 0 .. SeqSpace - 1 /\ snd.initialized \in BOOLEAN
      /\ wrapLost \in BOOLEAN
  BY NextContext DEF SenderTypes
<1>4. nextRoc' = 0
  BY <1>1 DEF nextRoc, updateRoc, NewContext
<1>5. /\ rtp' \in [ssrc : 1 .. 2, seq : 0 .. SeqSpace - 1] /\ rtp'.ssrc = ssrc
      /\ ssrc = rtp.ssrc => rtp' = rtp
  BY <1>3 DEF renewRtp, SenderTypes
<1>6. SenderTypes'
  BY <1>1, <1>2, <1>3, <1>5, SpaceType DEF SenderTypes, NewContext
<1>7. ASSUME ~wrapLost', NEW iv \in ivs
      PROVE  Before(iv)'
  <2>1. Before(iv) /\ iv[1] \in 1 .. 2 /\ iv[2] \in Nat /\ iv[3] \in 0 .. SeqSpace - 1
    BY <1>1, <1>7 DEF SenderInStep, SenderTypes
  <2>2. CASE ssrc = rtp.ssrc
    <3>1. nextRoc = 0
      <4>1. CASE snd.initialized
        <5>1. ~(snd.roc > 0 \/ rtp.seq < snd.last)
          BY <1>1, <1>7, <4>1
        <5>. QED  BY <1>3, <5>1, NextContext, SpaceType
      <4>2. CASE ~snd.initialized
        BY <4>2, NextContext DEF SenderInStep, NewContext
      <4>. QED  BY <4>1, <4>2
    <3>. QED  BY <1>4, <1>5, <2>1, <2>2, <3>1 DEF Before
  <2>3. CASE ssrc # rtp.ssrc
    BY <1>3, <1>5, <2>1, <2>3 DEF Before
  <2>. QED  BY <2>2, <2>3
<1>8. ~wrapLost' => Cardinality(ivs') = packets'
  BY <1>1 DEF SenderInStep
<1>9. IsFiniteSet(ivs') /\ ~snd'.initialized
  BY <1>1 DEF SenderInStep, NewContext
<1>. QED  BY <1>1, <1>6, <1>7, <1>8, <1>9 DEF SenderInStep

LEMMA SenderStep ==
  ASSUME SenderTypes, SenderInStep, [Next]_vars
  PROVE  SenderTypes' /\ SenderInStep'
<1>1. CASE UNCHANGED sender
  BY <1>1 DEF sender, SenderTypes, SenderInStep, Before, nextRoc
<1>2. CASE sendOpusFrame /\ UNCHANGED wrapLost
  BY <1>2, SendKeeps
<1>. QED  BY <1>1, <1>2, SenderMoves, RekeyKeeps

-----------------------------------------------------------------------------
(* The capture. *)

capture == <<buf, framed, captured, feed, live, idle>>
CaptureTypes ==
  /\ live \in BOOLEAN /\ idle \in BOOLEAN
  /\ buf \in Seq(Nat) /\ Len(buf) < FrameSize /\ framed \in Seq(Seq(Nat)) /\ captured \in Nat
  /\ feed \in [size : Chunks \cup {0}, left : Nat]

(* Consecutive samples after consecutive samples are consecutive samples. *)
LEMMA SamplesJoin ==
  ASSUME NEW from \in Nat, NEW m \in Nat, NEW n \in Nat
  PROVE  /\ Samples(from, m) \in Seq(Nat) /\ Len(Samples(from, m)) = m
         /\ Samples(from, m) \o Samples(from + m, n) = Samples(from, m + n)
<1>1. ASSUME NEW a \in Nat, NEW k \in Nat
      PROVE  /\ Samples(a, k) \in Seq(Nat) /\ Len(Samples(a, k)) = k
             /\ \A i \in 1 .. k : Samples(a, k)[i] = a + i
  BY DEF Samples
<1>. DEFINE s == Samples(from, m)  t == Samples(from + m, n)  u == Samples(from, m + n)
<1>2. /\ s \in Seq(Nat) /\ Len(s) = m /\ \A i \in 1 .. m : s[i] = from + i
      /\ t \in Seq(Nat) /\ Len(t) = n /\ \A i \in 1 .. n : t[i] = from + m + i
      /\ u \in Seq(Nat) /\ Len(u) = m + n /\ \A i \in 1 .. m + n : u[i] = from + i
  <2>. from + m \in Nat /\ m + n \in Nat
    OBVIOUS
  <2>. QED  BY <1>1
<1>. HIDE DEF s, t, u
<1>3. s \o t \in Seq(Nat) /\ Len(s \o t) = m + n
  BY <1>2, ConcatProperties, Zenon
<1>4. ASSUME NEW i \in 1 .. m + n PROVE (s \o t)[i] = u[i]
  <2>1. (s \o t)[i] = IF i <= m THEN s[i] ELSE t[i - m]
    <3>1. \A j \in 1 .. Len(s) + Len(t) : (s \o t)[j] = IF j <= Len(s) THEN s[j] ELSE t[j - Len(s)]
      BY <1>2, ConcatProperties
    <3>. QED  BY <1>2, <3>1
  <2>2. CASE i <= m
    BY <1>2, <2>1, <2>2
  <2>3. CASE i > m
    <3>1. i - m \in 1 .. n
      BY <2>3
    <3>2. t[i - m] = from + m + (i - m)
      BY <1>2, <3>1
    <3>. QED  BY <1>2, <2>1, <2>3, <3>2
  <2>4. i <= m \/ i > m
    OBVIOUS
  <2>. QED  BY <2>2, <2>3, <2>4, Zenon
<1>5. s \o t = u
  BY <1>2, <1>3, <1>4, SeqEqual
<1>. QED  BY <1>2, <1>5 DEF s, t, u

LEMMA CaptureMoves ==
  ASSUME [Next]_vars
  PROVE  \/ UNCHANGED <<buf, framed, captured, feed, live>> /\ idle' \in {idle, TRUE}
         \/ cleanupMedia
         \/ \E n \in Chunks : OnBrowserPCM(n)
         \/ FeedCapturedPCM
         \/ writeBrowser
<1>1. CASE UNCHANGED vars
  BY <1>1 DEF vars, sending
<1>2. CASE \/ Accept \/ Connect \/ Disconnect \/ Silence \/ CaptureStops \/ PeerSends
           \/ \E ssrc \in {1, 2} : LearnParticipants(ssrc)
  BY <1>2 DEF Accept, Connect, Disconnect, Silence, CaptureStops, PeerSends,
       LearnParticipants, sending
<1>3. ASSUME NEW r \in Readers,
             unprotects(r) \/ \E n \in 0 .. SeqSpace + MaxPeerPackets : onRelayData(r, n)
      PROVE  UNCHANGED capture
  BY <1>3, ReadersTouch DEF sending, capture
<1>4. CASE records
  BY <1>4, RecordingTouches DEF sending
<1>. QED  BY <1>1, <1>2, <1>3, <1>4 DEF Next, capture, unprotects, records

LEMMA FrameProduct ==
  ASSUME NEW k \in Nat
  PROVE  /\ FrameSize \in Nat \ {0} /\ k * FrameSize \in Nat
         /\ (k + 1) * FrameSize = k * FrameSize + FrameSize
         /\ ((k + 1) - 1) * FrameSize = k * FrameSize
<1>1. FrameSize \in Nat \ {0}
  BY MediaAssumption
<1>2. ASSUME NEW f \in Nat
      PROVE  k * f \in Nat /\ (k + 1) * f = k * f + f /\ ((k + 1) - 1) * f = k * f
  OBVIOUS
<1>. QED  BY <1>1, <1>2

CaptureInv == CaptureTypes /\ CaptureSound /\ FramesExact

(* One turn of the loop extends the buffer by the next samples, or makes them a frame. *)
LEMMA FeedKeeps ==
  ASSUME CaptureInv, FeedCapturedPCM
  PROVE  CaptureInv'
<1>. DEFINE B == Len(framed) * FrameSize
<1>1. /\ live /\ live' = live /\ idle' = idle /\ feed.left \in Nat /\ feed.left > 0
      /\ feed.size \in Chunks \cup {0}
      /\ captured \in Nat /\ Len(buf) \in Nat /\ Len(buf) < FrameSize /\ Len(framed) \in Nat
      /\ buf \in Seq(Nat) /\ framed \in Seq(Seq(Nat))
  BY DEF CaptureInv, CaptureTypes, CaptureSound, FeedCapturedPCM
<1>2. /\ B \in Nat /\ buf = Samples(B, Len(buf)) /\ captured = B + Len(buf)
      /\ \A k \in DOMAIN framed : framed[k] = Samples((k - 1) * FrameSize, FrameSize)
  BY <1>1, FrameProduct DEF CaptureInv, FramesExact
<1>3. /\ FrameSize \in Nat \ {0} /\ (Len(framed) + 1) * FrameSize = B + FrameSize
      /\ ((Len(framed) + 1) - 1) * FrameSize = B
  BY <1>1, FrameProduct
<1>. HIDE DEF B
<1>4. /\ toCopy \in Nat /\ toCopy <= feed.left /\ Len(buf) + toCopy <= FrameSize
      /\ toCopy < FrameSize - Len(buf) => toCopy = feed.left
  BY <1>1, <1>3 DEF toCopy
<1>5. /\ Filled = Samples(B, Len(buf) + toCopy)
      /\ Filled \in Seq(Nat) /\ Len(Filled) = Len(buf) + toCopy
  <2>1. Samples(B, Len(buf)) \o Samples(B + Len(buf), toCopy) = Samples(B, Len(buf) + toCopy)
    <3>1. B \in Nat /\ Len(buf) \in Nat /\ toCopy \in Nat
      BY <1>1, <1>2, <1>4
    <3>. QED  BY <3>1, SamplesJoin, Zenon
  <2>2. Filled = Samples(B, Len(buf) + toCopy)
    BY <1>2, <2>1 DEF Filled
  <2>3. Len(buf) + toCopy \in Nat
    BY <1>1, <1>4
  <2>. QED  BY <1>2, <2>2, <2>3, SamplesJoin
<1>6. /\ feed' = [size |-> feed.size, left |-> feed.left - toCopy]
      /\ captured' = captured + toCopy
  BY DEF FeedCapturedPCM, CaptureInv, CaptureTypes
<1>7. feed' \in [size : Chunks \cup {0}, left : Nat] /\ CaptureSound' /\ captured' \in Nat
  <2>1. feed'.left = feed.left - toCopy /\ feed'.size = feed.size /\ feed'.left \in Nat
    BY <1>1, <1>4, <1>6
  <2>2. feed.size \in Nat /\ feed.left <= feed.size
    <3>1. Chunks \cup {0} \subseteq Nat
      BY MediaAssumption
    <3>. QED  BY <1>1, <3>1 DEF CaptureInv, CaptureSound
  <2>3. feed'.left <= feed'.size
    BY <2>1, <2>2, <1>1, <1>4
  <2>. QED  BY <1>1, <1>4, <1>6, <2>1, <2>3 DEF CaptureSound
<1>. DEFINE n == toCopy  l == Len(buf)
<1>8. n \in Nat /\ l \in Nat /\ Len(Filled) = l + n /\ l + n <= FrameSize /\ FrameSize \in Nat
  BY <1>1, <1>3, <1>4, <1>5
<1>9. captured' = B + (l + n)
  BY <1>1, <1>2, <1>4, <1>6
<1>. HIDE DEF n, l
<1>10. CASE Len(Filled) < FrameSize
  <2>1. buf' = Filled /\ framed' = framed
    BY <1>10 DEF FeedCapturedPCM
  <2>2. captured' = B + Len(buf')
    BY <1>8, <1>9, <2>1
  <2>. QED
    BY <1>1, <1>2, <1>5, <1>7, <1>10, <2>1, <2>2 DEF B, CaptureInv, CaptureTypes, FramesExact
<1>11. CASE ~(Len(Filled) < FrameSize)
  <2>1. buf' = <<>> /\ framed' = Append(framed, Filled)
    BY <1>11 DEF FeedCapturedPCM
  <2>2. l + n = FrameSize
    BY <1>11, <1>8
  <2>3. Filled = Samples(B, FrameSize)
    BY <1>5, <2>2 DEF l, n
  <2>4. /\ framed' \in Seq(Seq(Nat)) /\ Len(framed') = Len(framed) + 1
        /\ DOMAIN framed' = 1 .. Len(framed) + 1 /\ DOMAIN framed = 1 .. Len(framed)
        /\ framed'[Len(framed) + 1] = Filled
        /\ \A k \in 1 .. Len(framed) : framed'[k] = framed[k]
    BY <1>1, <1>5, <2>1
  <2>5. \A k \in DOMAIN framed' : framed'[k] = Samples((k - 1) * FrameSize, FrameSize)
    <3>1. ASSUME NEW k \in 1 .. Len(framed)
          PROVE  framed'[k] = Samples((k - 1) * FrameSize, FrameSize)
      BY <1>2, <2>4
    <3>2. \A k \in 1 .. Len(framed) + 1 : k \in 1 .. Len(framed) \/ k = Len(framed) + 1
      BY <1>1
    <3>. QED  BY <1>3, <2>3, <2>4, <3>1, <3>2, Zenon
  <2>6. Len(framed') * FrameSize = B + FrameSize
    BY <1>3, <2>4
  <2>7. captured' = Len(framed') * FrameSize + Len(buf')
    <3>1. captured' = B + FrameSize
      BY <1>9, <2>2
    <3>. QED  BY <1>2, <1>3, <2>1, <2>6, <3>1
  <2>8. buf' = Samples(Len(framed') * FrameSize, Len(buf')) /\ buf' \in Seq(Nat) /\ Len(buf') = 0
    BY <2>1 DEF Samples
  <2>. QED
    BY <1>1, <1>3, <1>7, <2>4, <2>5, <2>7, <2>8 DEF CaptureInv, CaptureTypes, FramesExact
<1>. QED  BY <1>10, <1>11

LEMMA CaptureStep ==
  ASSUME CaptureInv, [Next]_vars
  PROVE  CaptureInv'
<1>1. CASE UNCHANGED <<buf, framed, captured, feed, live>> /\ idle' \in {idle, TRUE}
  BY <1>1 DEF CaptureInv, CaptureTypes, CaptureSound, FramesExact
<1>2. CASE cleanupMedia
  <2>1. live' = FALSE /\ buf' = <<>> /\ UNCHANGED <<framed, captured, feed, idle>> /\ feed.left = 0
    BY <1>2 DEF cleanupMedia, Unlocked
  <2>2. Len(buf') < FrameSize /\ buf' \in Seq(Nat)
    BY <2>1, MediaAssumption
  <2>3. CaptureTypes' /\ FramesExact'
    BY <2>1, <2>2 DEF CaptureInv, CaptureTypes, FramesExact
  <2>4. CaptureSound'
    BY <2>1 DEF CaptureInv, CaptureSound
  <2>. QED  BY <2>3, <2>4 DEF CaptureInv
<1>3. ASSUME NEW n \in Chunks, OnBrowserPCM(n)
      PROVE  CaptureInv'
  <2>1. n \in Nat
    BY MediaAssumption
  <2>2. UNCHANGED <<buf, framed, captured, live>> /\ idle' \in BOOLEAN
    BY <1>3 DEF OnBrowserPCM, CaptureInv, CaptureTypes
  <2>3. \/ feed' = [size |-> n, left |-> n] /\ live
        \/ feed' = [size |-> n, left |-> 0]
    BY <1>3 DEF OnBrowserPCM, Ready
  <2>. QED  BY <2>1, <2>2, <2>3 DEF CaptureInv, CaptureTypes, CaptureSound, FramesExact
<1>4. CASE writeBrowser
  BY <1>4, MediaAssumption
  DEF writeBrowser, Unlocked, NoChunk, CaptureInv, CaptureTypes, CaptureSound, FramesExact
<1>. QED  BY <1>1, <1>2, <1>3, <1>4, CaptureMoves, FeedKeeps

-----------------------------------------------------------------------------
(* The recorder. *)

RecorderTypes ==
  /\ rec \in [peer : Nat, browser : Nat, closed : BOOLEAN, taken : Nat \cup {-1}, wav : Nat \cup {-1}]
  /\ rec.peer < RecMax + FrameSize /\ \E n \in Chunks : rec.browser < RecMax + n
RecorderInv == RecorderTypes /\ RecordingFinal

LEMMA RecorderMoves ==
  ASSUME [Next]_vars
  PROVE  \/ UNCHANGED rec \/ writeBrowser \/ rec' = appendSide("peer", FrameSize)
         \/ finishWAV \/ mixWAV
<1>1. CASE UNCHANGED vars
  BY <1>1 DEF vars, recording
<1>2. CASE \/ Accept \/ Connect \/ Disconnect \/ Silence \/ CaptureStops \/ PeerSends \/ cleanupMedia
           \/ FeedCapturedPCM \/ removeCall \/ \E ssrc \in {1, 2} : LearnParticipants(ssrc)
           \/ \E n \in Chunks : OnBrowserPCM(n)
  BY <1>2 DEF Accept, Connect, Disconnect, Silence, CaptureStops, PeerSends, cleanupMedia,
       FeedCapturedPCM, removeCall, LearnParticipants, OnBrowserPCM, recording
<1>3. ASSUME NEW r \in Readers,
             unprotects(r) \/ \E n \in 0 .. SeqSpace + MaxPeerPackets : onRelayData(r, n)
      PROVE  UNCHANGED rec
  BY <1>3, ReadersTouch DEF recording
<1>4. ASSUME NEW r \in Readers, FrameDecoded(r) \/ OnPeerAudio(r) \/ writePeer(r)
      PROVE  UNCHANGED rec \/ rec' = appendSide("peer", FrameSize)
  BY <1>4 DEF FrameDecoded, OnPeerAudio, writePeer
<1>. QED  BY <1>1, <1>2, <1>3, <1>4 DEF Next, unprotects

(* A full side, or a recording that is closed, takes nothing more; what was taken is mixed as it
   is. *)
LEMMA RecorderStep ==
  ASSUME RecorderInv, CaptureTypes, [Next]_vars
  PROVE  RecorderInv'
<1>. DEFINE R == [peer : Nat, browser : Nat, closed : BOOLEAN, taken : Nat \cup {-1}, wav : Nat \cup {-1}]
<1>1. /\ rec \in R /\ rec.peer \in Nat /\ rec.browser \in Nat /\ RecMax \in Nat
      /\ FrameSize \in Nat /\ Chunks \subseteq Nat /\ RecMin \in Nat /\ Longer \in Nat
  BY MediaAssumption DEF RecorderInv, RecorderTypes, Longer
<1>2. CASE UNCHANGED rec
  BY <1>2 DEF RecorderInv, RecorderTypes, RecordingFinal, Longer
<1>8. ASSUME ~rec.closed, rec'.closed = rec.closed, rec'.taken = rec.taken, rec'.wav = rec.wav
      PROVE  RecordingFinal'
  BY <1>1, <1>8 DEF RecorderInv, RecordingFinal
<1>3. CASE writeBrowser
  <2>. DEFINE n == feed.size
  <2>1. CASE leg # "both" \/ rec.closed \/ rec.browser >= RecMax
    BY <1>2, <1>3, <2>1 DEF writeBrowser, appendSide
  <2>2. CASE ~(leg # "both" \/ rec.closed \/ rec.browser >= RecMax)
    <3>0. n \in Chunks
      BY <1>3 DEF writeBrowser, CaptureTypes
    <3>1. n \in Chunks /\ n \in Nat
      BY <1>1, <3>0
    <3>2. rec' = [rec EXCEPT !.browser = @ + n]
      BY <1>3, <2>2 DEF writeBrowser, appendSide
    <3>3. /\ rec' \in R /\ rec'.browser = rec.browser + n /\ rec'.peer = rec.peer
          /\ rec'.closed = rec.closed /\ rec'.taken = rec.taken /\ rec'.wav = rec.wav
      BY <1>1, <3>1, <3>2
    <3>4. rec'.browser < RecMax + n
      BY <1>1, <2>2, <3>1, <3>3
    <3>. HIDE DEF n
    <3>5. RecorderTypes'
      BY <3>1, <3>3, <3>4 DEF RecorderInv, RecorderTypes
    <3>6. RecordingFinal'
      BY <1>8, <2>2, <3>3
    <3>. QED  BY <3>5, <3>6 DEF RecorderInv
  <2>. QED  BY <2>1, <2>2
<1>4. CASE rec' = appendSide("peer", FrameSize)
  <2>1. CASE leg # "both" \/ rec.closed \/ rec.peer >= RecMax
    BY <1>2, <1>4, <2>1 DEF appendSide
  <2>2. CASE ~(leg # "both" \/ rec.closed \/ rec.peer >= RecMax)
    <3>1. rec' = [rec EXCEPT !.peer = @ + FrameSize]
      BY <1>4, <2>2 DEF appendSide
    <3>2. /\ rec' \in R /\ rec'.peer = rec.peer + FrameSize /\ rec'.browser = rec.browser
          /\ rec'.closed = rec.closed /\ rec'.taken = rec.taken /\ rec'.wav = rec.wav
      BY <1>1, <3>1
    <3>3. rec'.peer < RecMax + FrameSize
      BY <1>1, <2>2, <3>2
    <3>4. RecorderTypes'
      BY <3>2, <3>3 DEF RecorderInv, RecorderTypes
    <3>5. RecordingFinal'
      BY <1>8, <2>2, <3>2
    <3>. QED  BY <3>4, <3>5 DEF RecorderInv
  <2>. QED  BY <2>1, <2>2
<1>5. CASE finishWAV
  <2>1. ~rec.closed /\ rec' = [rec EXCEPT !.closed = TRUE, !.taken = Longer]
    BY <1>5 DEF finishWAV
  <2>2. /\ rec' \in R /\ rec'.peer = rec.peer /\ rec'.browser = rec.browser
        /\ rec'.closed /\ rec'.taken = Longer /\ rec'.wav = rec.wav
    BY <1>1, <2>1
  <2>3. Longer' = Longer
    BY <2>2 DEF Longer
  <2>. QED  BY <1>1, <2>1, <2>2, <2>3 DEF RecorderInv, RecorderTypes, RecordingFinal
<1>6. CASE mixWAV
  <2>. DEFINE w == IF rec.taken < RecMin THEN 0 ELSE rec.taken
  <2>1. rec.taken >= 0 /\ rec' = [rec EXCEPT !.wav = w]
    BY <1>6 DEF mixWAV
  <2>2. rec.taken \in Nat /\ w \in Nat
    BY <1>1, <2>1
  <2>3. /\ rec' \in R /\ rec'.peer = rec.peer /\ rec'.browser = rec.browser
        /\ rec'.closed = rec.closed /\ rec'.taken = rec.taken /\ rec'.wav = w
    BY <1>1, <2>1, <2>2
  <2>4. Longer' = Longer
    BY <2>3 DEF Longer
  <2>. QED  BY <1>1, <2>1, <2>2, <2>3, <2>4 DEF RecorderInv, RecorderTypes, RecordingFinal
<1>. QED  BY <1>2, <1>3, <1>4, <1>5, <1>6, RecorderMoves

-----------------------------------------------------------------------------
(* The receiver. *)

receiver == <<sess, ctx, peer, rd, prev, orderly, garbled>>
Ctx == [roc : Nat, last : 0 .. SeqSpace - 1, initialized : BOOLEAN]
Rd == [pc : {"idle", "initialized", "first", "set", "diff", "roc", "increment", "last", "index"},
       pkt : Nat, sess : 0 .. MaxSessions, roc : Nat]
ReceiverTypes ==
  /\ sess \in 0 .. MaxSessions
  /\ ctx \in [Sessions -> Ctx]
  /\ peer \in [first : 0 .. SeqSpace - 1, sent : 0 .. MaxPeerPackets]
  /\ rd \in [Readers -> Rd]
  /\ prev \in [Sessions -> Nat \cup {-1}] /\ orderly \in BOOLEAN /\ garbled \in BOOLEAN
ReceiverInv == ReceiverTypes /\ ReceiverInStep

LEMMA ReceiverMoves ==
  ASSUME [Next]_vars
  PROVE  \/ UNCHANGED receiver
         \/ initSrtpKeys /\ UNCHANGED <<peer, rd, prev, orderly, garbled>>
         \/ PeerSends
         \/ \E r \in Readers : unprotects(r) \/ \E n \in Nat : onRelayData(r, n)
<1>1. CASE UNCHANGED vars
  BY <1>1 DEF vars, receiver, receiving
<1>2. CASE Accept \/ \E ssrc \in {1, 2} : LearnParticipants(ssrc)
  BY <1>2 DEF Accept, LearnParticipants
<1>3. CASE \/ Connect \/ Disconnect \/ Silence \/ CaptureStops \/ cleanupMedia \/ writeBrowser
           \/ FeedCapturedPCM \/ \E n \in Chunks : OnBrowserPCM(n)
  BY <1>3 DEF Connect, Disconnect, Silence, CaptureStops, cleanupMedia, writeBrowser,
       FeedCapturedPCM, OnBrowserPCM, receiver, receiving
<1>4. CASE records
  BY <1>4, RecordingTouches DEF receiver, receiving
<1>5. 0 .. SeqSpace + MaxPeerPackets \subseteq Nat
  BY SpaceType, MediaAssumption
<1>. QED  BY <1>1, <1>2, <1>3, <1>4, <1>5 DEF Next, unprotects, records

LEMMA RekeyReceives ==
  ASSUME ReceiverInv, initSrtpKeys, UNCHANGED <<peer, rd, prev, orderly, garbled>>
  PROVE  ReceiverInv'
<1>1. /\ sess \in 0 .. MaxSessions /\ sess < MaxSessions /\ sess' = sess + 1 /\ MaxSessions \in Nat
      /\ ctx' = [ctx EXCEPT ![sess + 1] = NewContext]
  BY MediaAssumption DEF ReceiverInv, ReceiverTypes, initSrtpKeys
<1>2. NewContext \in Ctx
  BY SpaceType DEF NewContext, Ctx
<1>3. ReceiverTypes'
  BY <1>1, <1>2 DEF ReceiverInv, ReceiverTypes, Sessions
<1>4. \A r \in Readers : Busy(r)' => rd'[r].sess \in 1 .. sess'
  BY <1>1 DEF Busy, ReceiverInv, ReceiverInStep
<1>5. ASSUME orderly PROVE ReceiverInStep'
  <2>1. /\ ~garbled /\ \A s \in Sessions : ContextFollows(s)
        /\ \A r \in Readers : Busy(r) => Reads(r)
    BY <1>5 DEF ReceiverInv, ReceiverInStep
  <2>2. \A s \in Sessions : s # sess + 1 => ctx'[s] = ctx[s]
    BY <1>1 DEF ReceiverInv, ReceiverTypes
  <2>3. sess + 1 \in Sessions /\ ctx'[sess + 1] = NewContext /\ prev[sess + 1] = -1
    BY <1>1, <2>1 DEF ReceiverInv, ReceiverTypes, Sessions, ContextFollows
  <2>4. ASSUME NEW s \in Sessions PROVE ContextFollows(s)'
    BY <1>1, <2>1, <2>2, <2>3 DEF ContextFollows, Crossed, Setting, Sessions
  <2>5. ASSUME NEW r \in Readers, Busy(r)' PROVE Reads(r)'
    <3>1. Busy(r) /\ rd[r].sess \in 1 .. sess
      BY <2>5 DEF Busy, ReceiverInv, ReceiverInStep
    <3>2. ctx'[rd[r].sess] = ctx[rd[r].sess]
      BY <1>1, <2>2, <3>1 DEF Sessions
    <3>3. Reads(r)
      BY <2>1, <3>1
    <3>. QED  BY <1>1, <3>1, <3>2, <3>3 DEF Reads, InEpoch, Crossing, Busy
  <2>. QED  BY <1>4, <2>1, <2>4, <2>5 DEF ReceiverInStep
<1>. QED  BY <1>3, <1>5, <1>4 DEF ReceiverInv, ReceiverInStep

LEMMA PeerSendsKeeps ==
  ASSUME ReceiverInv, PeerSends
  PROVE  ReceiverInv'
<1>1. /\ UNCHANGED <<sess, ctx, rd, prev, orderly, garbled>>
      /\ peer' = [peer EXCEPT !.sent = @ + 1] /\ peer.sent < MaxPeerPackets
  BY DEF PeerSends
<1>2. /\ peer' \in [first : 0 .. SeqSpace - 1, sent : 0 .. MaxPeerPackets]
      /\ peer'.first + peer'.sent = peer.first + peer.sent + 1
      /\ peer.first + peer.sent \in Nat
  <2>1. MaxPeerPackets \in Nat
    BY MediaAssumption
  <2>2. peer.first \in 0 .. SeqSpace - 1 /\ peer.sent \in 0 .. MaxPeerPackets
    BY DEF ReceiverInv, ReceiverTypes
  <2>3. peer' = [first |-> peer.first, sent |-> peer.sent + 1]
    BY <1>1 DEF ReceiverInv, ReceiverTypes
  <2>4. peer.sent + 1 \in 0 .. MaxPeerPackets
    BY <1>1, <2>1, <2>2
  <2>. QED  BY <2>1, <2>2, <2>3, <2>4, SpaceType
<1>3. \A s \in Sessions : prev[s] \in Int
  BY DEF ReceiverInv, ReceiverTypes
<1>4. \A r \in Readers : rd[r].pkt \in Nat
  BY DEF ReceiverInv, ReceiverTypes, Rd
<1>5. ASSUME orderly, NEW s \in Sessions PROVE ContextFollows(s)'
  <2>1. ContextFollows(s)
    BY <1>5 DEF ReceiverInv, ReceiverInStep
  <2>2. \A r \in Readers : (Crossed(r, s) => Crossed(r, s)') /\ (Setting(r, s) => Setting(r, s)')
    BY <1>1 DEF Crossed, Setting
  <2>3. prev[s] < peer.first + peer.sent => prev'[s] < peer'.first + peer'.sent
    BY <1>1, <1>2, <1>3
  <2>. QED  BY <1>1, <2>1, <2>2, <2>3 DEF ContextFollows
<1>6. ASSUME orderly, NEW r \in Readers, Busy(r) PROVE Reads(r)'
  <2>. Reads(r)
    BY <1>6 DEF ReceiverInv, ReceiverInStep
  <2>. QED  BY <1>1, <1>2, <1>4 DEF Reads, InEpoch, Crossing, Busy
<1>. QED
  BY <1>1, <1>2, <1>5, <1>6 DEF ReceiverInv, ReceiverTypes, ReceiverInStep, Busy

(* What is known of a goroutine in Unprotect and of the context it works on. *)
LEMMA ReaderFacts ==
  ASSUME ReceiverInv, NEW r \in Readers
  PROVE  /\ rd[r] \in Rd /\ rd[r].pkt \in Nat /\ rd[r].roc \in Nat
         /\ Busy(r) =>
              /\ rd[r].sess \in 1 .. sess /\ rd[r].sess \in Sessions /\ ~(rd[r].sess > sess)
              /\ prev[rd[r].sess] \in Nat \cup {-1} /\ ctx[rd[r].sess] \in Ctx
              /\ ctx[rd[r].sess].roc \in Nat
         /\ orderly /\ Busy(r) => Reads(r) /\ ContextFollows(rd[r].sess)
<1>1. sess \in 0 .. MaxSessions /\ MaxSessions \in Nat
  BY MediaAssumption DEF ReceiverInv, ReceiverTypes
<1>2. ASSUME Busy(r)
      PROVE  rd[r].sess \in 1 .. sess /\ rd[r].sess \in Sessions /\ ~(rd[r].sess > sess)
  BY <1>1, <1>2 DEF ReceiverInv, ReceiverInStep, Sessions
<1>. QED  BY <1>2 DEF ReceiverInv, ReceiverTypes, ReceiverInStep, Rd, Ctx

(* A goroutine that goes on with its packet, and writes at most the context it works on: it
   remains to show where it and the others on this context stand, and that the context does
   not run away from its last packet. *)
LEMMA ReaderGoesOn ==
  ASSUME ReceiverInv, NEW r \in Readers, Busy(r), NEW s, s = rd[r].sess,
         NEW f \in Rd, rd' = [rd EXCEPT ![r] = f],
         f.pc # "idle", f.pkt = rd[r].pkt, f.sess = s,
         ctx' \in [Sessions -> Ctx], prev' \in [Sessions -> Nat \cup {-1}],
         \A z \in Sessions \ {s} : ctx'[z] = ctx[z] /\ prev'[z] = prev[z],
         UNCHANGED <<sess, peer, orderly, garbled>>,
         orderly => /\ (InEpoch(r) \/ Crossing(r))' /\ ContextFollows(s)'
                    /\ \A q \in Readers \ {r} :
                         Busy(q) /\ rd[q].sess = s => (InEpoch(q) \/ Crossing(q))'
  PROVE  ReceiverInv'
<1>1. /\ rd'[r] = f /\ s \in Sessions
      /\ \A q \in Readers \ {r} : rd'[q] = rd[q]
      /\ \A q \in Readers : Busy(q)' => Busy(q)
      /\ \A q \in Readers : rd'[q].pkt = rd[q].pkt /\ rd'[q].sess = rd[q].sess
  BY ReaderFacts DEF Busy, ReceiverInv, ReceiverTypes
<1>2. ReceiverTypes'
  BY <1>1 DEF ReceiverInv, ReceiverTypes
<1>3. ASSUME orderly, NEW q \in Readers, Busy(q)' PROVE Reads(q)'
  <2>1. Reads(q) /\ Busy(q) /\ rd[q].sess \in Sessions
    BY <1>1, <1>3, ReaderFacts
  <2>2. (InEpoch(q) \/ Crossing(q))'
    <3>1. CASE q = r
      BY <1>3, <3>1
    <3>2. CASE q # r /\ rd[q].sess = s
      BY <1>3, <2>1, <3>2
    <3>3. CASE q # r /\ rd[q].sess # s
      BY <1>1, <2>1, <3>3 DEF Reads, InEpoch, Crossing
    <3>. QED  BY <3>1, <3>2, <3>3
  <2>. QED  BY <1>1, <2>1, <2>2 DEF Reads
<1>4. ASSUME orderly, NEW z \in Sessions PROVE ContextFollows(z)'
  <2>1. CASE z = s
    BY <1>4, <2>1
  <2>2. CASE z # s
    <3>1. ContextFollows(z) /\ ctx'[z] = ctx[z] /\ prev'[z] = prev[z]
      BY <1>4, <2>2 DEF ReceiverInv, ReceiverInStep
    <3>2. \A q \in Readers : (Crossed(q, z) => Crossed(q, z)') /\ (Setting(q, z) => Setting(q, z)')
      BY <1>1, <2>2, <3>1 DEF Crossed, Setting
    <3>. QED  BY <3>1, <3>2 DEF ContextFollows
  <2>. QED  BY <2>1, <2>2
<1>5. \A q \in Readers : Busy(q)' => rd'[q].sess \in 1 .. sess'
  BY <1>1 DEF ReceiverInv, ReceiverInStep
<1>. QED  BY <1>2, <1>3, <1>4, <1>5 DEF ReceiverInv, ReceiverInStep

(* A goroutine that only reads the context, and owes it no write. *)
LEMMA ReaderReads ==
  ASSUME ReceiverInv, NEW r \in Readers, Busy(r), rd[r].pc \notin {"last", "set"},
         NEW f \in Rd, rd' = [rd EXCEPT ![r] = f],
         f.pc # "idle", f.pkt = rd[r].pkt, f.sess = rd[r].sess,
         UNCHANGED <<sess, ctx, peer, prev, orderly, garbled>>,
         orderly => (InEpoch(r) \/ Crossing(r))'
  PROVE  ReceiverInv'
<1>1. PICK s : s = rd[r].sess
  OBVIOUS
<1>2. \A q \in Readers \ {r} : rd'[q] = rd[q]
  BY DEF ReceiverInv, ReceiverTypes
<1>3. ASSUME orderly PROVE ContextFollows(s)'
  <2>1. ContextFollows(s)
    BY <1>1, <1>3, ReaderFacts
  <2>2. \A q \in Readers : (Crossed(q, s) => Crossed(q, s)') /\ (Setting(q, s) => Setting(q, s)')
    BY <1>2 DEF Crossed, Setting
  <2>. QED  BY <2>1, <2>2 DEF ContextFollows
<1>4. ASSUME orderly, NEW q \in Readers \ {r}, Busy(q), rd[q].sess = s
      PROVE  InEpoch(q)'
  <2>1. Reads(q)
    BY <1>4, ReaderFacts
  <2>2. ~Crossing(q)
    BY <1>1, <1>4 DEF Crossing
  <2>. QED  BY <1>2, <2>1, <2>2 DEF Reads, InEpoch
<1>5. ctx' \in [Sessions -> Ctx] /\ prev' \in [Sessions -> Nat \cup {-1}]
  BY DEF ReceiverInv, ReceiverTypes
<1>. QED  BY <1>1, <1>3, <1>4, <1>5, ReaderGoesOn

(* The context a goroutine works on, seen from the packet it holds. *)
LEMMA ContextFacts ==
  ASSUME ReceiverInv, orderly, NEW r \in Readers, Busy(r), NEW s, s = rd[r].sess
  PROVE  /\ Reads(r) /\ ContextFollows(s) /\ s \in Sessions /\ ~(s > sess)
         /\ prev[s] \in Nat \cup {-1} /\ ctx[s] \in Ctx
         /\ Crossing(r) => /\ prev[s] \in Nat
                           /\ \A q \in Readers \ {r} : Busy(q) => rd[q].sess # s
         /\ prev[s] = -1 => ctx[s] = NewContext
         /\ prev[s] # -1 => ctx[s].last = Seq16(prev[s])
<1>1. /\ Reads(r) /\ ContextFollows(s) /\ s \in Sessions /\ ~(s > sess)
      /\ prev[s] \in Nat \cup {-1} /\ ctx[s] \in Ctx
  BY ReaderFacts
<1>. QED  BY <1>1 DEF Crossing, ContextFollows

(* initialized is read: only a packet that opens the session may find it unset. *)
LEMMA ReadInitializedKeeps ==
  ASSUME ReceiverInv, NEW r \in Readers, readInitialized(r)
  PROVE  ReceiverInv'
<1>1. PICK s : s = rd[r].sess
  OBVIOUS
<1>. DEFINE pc == IF ctx[s].initialized THEN "diff" ELSE "first"
            f == [rd[r] EXCEPT !.pc = pc]
<1>2. /\ rd[r].pc = "initialized" /\ Busy(r) /\ rd' = [rd EXCEPT ![r] = f]
      /\ UNCHANGED <<sess, ctx, peer, prev, orderly, garbled>>
  <2>1. rd' = [rd EXCEPT ![r].pc = pc]
    BY <1>1 DEF readInitialized, Goto, Context
  <2>. QED  BY <2>1 DEF readInitialized, reads, Busy, ReceiverInv, ReceiverTypes
<1>3. pc \in {"diff", "first"}
  OBVIOUS
<1>4. f \in Rd /\ f.pc = pc /\ f.pkt = rd[r].pkt /\ f.sess = s
  BY <1>1, <1>3, ReaderFacts DEF Rd
<1>. HIDE DEF f
<1>5. rd'[r] = f /\ \A q \in Readers \ {r} : rd'[q] = rd[q]
  BY <1>2 DEF ReceiverInv, ReceiverTypes
<1>6. ASSUME orderly PROVE (InEpoch(r) \/ Crossing(r))'
  <2>1. /\ Reads(r) /\ ContextFollows(s) /\ prev[s] \in Nat \cup {-1}
        /\ Crossing(r) => prev[s] \in Nat /\ \A q \in Readers \ {r} : Busy(q) => rd[q].sess # s
        /\ prev[s] = -1 => ctx[s] = NewContext
    BY <1>1, <1>2, <1>6, ContextFacts
  <2>2. CASE InEpoch(r)
    <3>1. prev[s] = -1 => pc = "first"
      BY <2>1 DEF NewContext
    <3>. QED  BY <1>1, <1>2, <1>3, <1>4, <1>5, <2>1, <2>2, <3>1 DEF InEpoch
  <2>3. CASE Crossing(r)
    <3>1. ~ \E q \in Readers : Setting(q, s)
      BY <1>2, <2>1, <2>3 DEF Setting, Busy
    <3>2. pc = "diff"
      BY <2>1, <2>3, <3>1 DEF ContextFollows
    <3>. QED  BY <1>1, <1>2, <1>4, <1>5, <2>3, <3>2 DEF Crossing, Busy
  <2>. QED  BY <2>1, <2>2, <2>3 DEF Reads
<1>. QED  BY <1>1, <1>2, <1>3, <1>4, <1>6, ReaderReads

(* lastSeq is read: the comparison tells a packet that crosses from one that does not. *)
LEMMA ReadLastKeeps ==
  ASSUME ReceiverInv, NEW r \in Readers, readLast(r)
  PROVE  ReceiverInv'
<1>1. PICK s : s = rd[r].sess
  OBVIOUS
<1>. DEFINE n == rd[r].pkt  w == wrapped(Seq16(n), ctx[s].last)
            pc == IF w THEN "roc" ELSE "last"  f == [rd[r] EXCEPT !.pc = pc]
<1>2. /\ rd[r].pc = "diff" /\ Busy(r) /\ rd' = [rd EXCEPT ![r] = f]
      /\ UNCHANGED <<sess, ctx, peer, prev, orderly, garbled>>
  <2>1. rd' = [rd EXCEPT ![r].pc = pc]
    BY <1>1 DEF readLast, Goto, Context
  <2>. QED  BY <2>1 DEF readLast, reads, Busy, ReceiverInv, ReceiverTypes
<1>3. pc \in {"roc", "last"}
  OBVIOUS
<1>4. f \in Rd /\ f.pc = pc /\ f.pkt = n /\ f.sess = s
  BY <1>1, <1>3, ReaderFacts DEF Rd
<1>. HIDE DEF f
<1>5. rd'[r] = f /\ \A q \in Readers \ {r} : rd'[q] = rd[q]
  BY <1>2 DEF ReceiverInv, ReceiverTypes
<1>6. ASSUME orderly PROVE (InEpoch(r) \/ Crossing(r))'
  <2>1. /\ Reads(r) /\ n \in Nat /\ prev[s] \in Nat \cup {-1}
        /\ prev[s] # -1 => ctx[s].last = Seq16(prev[s])
    BY <1>1, <1>2, <1>6, ContextFacts, ReaderFacts
  <2>2. prev[s] \in Nat
    BY <1>1, <1>2, <2>1 DEF Reads, InEpoch, Crossing
  <2>3. /\ Seq16(n) \in 0 .. SeqSpace - 1 /\ Seq16(prev[s]) \in 0 .. SeqSpace - 1
        /\ ctx[s].last = Seq16(prev[s])
    BY <2>1, <2>2, Division
  <2>4. CASE InEpoch(r)
    <3>1. Epoch(n) = Epoch(prev[s]) /\ prev[s] - n <= Half
      BY <1>1, <2>2, <2>4 DEF InEpoch
    <3>2. n - prev[s] = Seq16(n) - Seq16(prev[s])
      BY <2>1, <2>2, <3>1, SameEpoch
    <3>3. ~(Seq16(n) - Seq16(prev[s]) < - Half)
      BY <2>1, <2>2, <2>3, <3>1, <3>2, SpaceType
    <3>4. pc = "last"
      BY <2>3, <3>3 DEF wrapped
    <3>. QED  BY <1>1, <1>2, <1>4, <1>5, <2>2, <2>4, <3>4 DEF InEpoch
  <2>5. CASE Crossing(r)
    <3>1. n - prev[s] < Half /\ Epoch(n) = Epoch(prev[s]) + 1
      BY <1>1, <2>5 DEF Crossing
    <3>2. n - prev[s] = SeqSpace + Seq16(n) - Seq16(prev[s])
      <4>1. Epoch(prev[s]) \in Nat
        BY <2>2, Division
      <4>2. Epoch(n) > Epoch(prev[s])
        BY <3>1, <4>1
      <4>. QED  BY <2>1, <2>2, <3>1, <4>2, LaterEpoch
    <3>3. Seq16(n) - Seq16(prev[s]) < - Half
      BY <2>1, <2>2, <2>3, <3>1, <3>2, SpaceType
    <3>4. pc = "roc"
      BY <2>3, <3>3 DEF wrapped
    <3>. QED  BY <1>1, <1>2, <1>4, <1>5, <2>5, <3>4 DEF Crossing, Busy
  <2>. QED  BY <2>1, <2>4, <2>5 DEF Reads
<1>. QED  BY <1>1, <1>2, <1>3, <1>4, <1>6, ReaderReads

LEMMA ReadRocKeeps ==
  ASSUME ReceiverInv, NEW r \in Readers, readRoc(r)
  PROVE  ReceiverInv'
<1>1. PICK s : s = rd[r].sess
  OBVIOUS
<1>. DEFINE v == ctx[s].roc  f == [rd[r] EXCEPT !.roc = v, !.pc = "increment"]
<1>2. /\ rd[r].pc = "roc" /\ Busy(r) /\ rd' = [rd EXCEPT ![r] = f]
      /\ UNCHANGED <<sess, ctx, peer, prev, orderly, garbled>>
  <2>1. rd' = [rd EXCEPT ![r].roc = v, ![r].pc = "increment"]
    BY <1>1 DEF readRoc, Context
  <2>. QED  BY <2>1 DEF readRoc, reads, Busy, ReceiverInv, ReceiverTypes
<1>3. v \in Nat
  BY <1>1, <1>2, ReaderFacts
<1>4. f \in Rd /\ f.pc = "increment" /\ f.pkt = rd[r].pkt /\ f.sess = s /\ f.roc = v
  BY <1>1, <1>3, ReaderFacts DEF Rd
<1>. HIDE DEF f
<1>5. rd'[r] = f /\ \A q \in Readers \ {r} : rd'[q] = rd[q]
  BY <1>2 DEF ReceiverInv, ReceiverTypes
<1>6. ASSUME orderly PROVE Crossing(r)'
  <2>1. Crossing(r)
    BY <1>2, <1>6, ReaderFacts DEF Reads, InEpoch
  <2>. QED  BY <1>1, <1>2, <1>4, <1>5, <2>1 DEF Crossing, Busy
<1>. QED  BY <1>1, <1>2, <1>4, <1>6, ReaderReads

(* The roll-over counter is written before lastSeq: for that long the context is ahead of its
   last packet, with the goroutine that takes it into the epoch alone on it. *)
LEMMA WriteRocKeeps ==
  ASSUME ReceiverInv, NEW r \in Readers, writeRoc(r)
  PROVE  ReceiverInv'
<1>1. PICK s : s = rd[r].sess
  OBVIOUS
<1>. DEFINE f == [rd[r] EXCEPT !.pc = "last"]  c == [ctx[s] EXCEPT !.roc = rd[r].roc + 1]
<1>2. /\ rd[r].pc = "increment" /\ Busy(r) /\ rd' = [rd EXCEPT ![r] = f]
      /\ UNCHANGED <<sess, peer, prev, orderly, garbled>>
  BY DEF writeRoc, Goto, Busy, ReceiverInv, ReceiverTypes
<1>3. f \in Rd /\ f.pc = "last" /\ f.pkt = rd[r].pkt /\ f.sess = s
  BY <1>1, ReaderFacts DEF Rd
<1>. HIDE DEF f
<1>4. /\ c \in Ctx /\ c.roc = rd[r].roc + 1
      /\ c.last = ctx[s].last /\ c.initialized = ctx[s].initialized
  BY <1>1, <1>2, ReaderFacts DEF Ctx
<1>5. ctx' = [ctx EXCEPT ![s] = c]
  <2>1. ctx' = [ctx EXCEPT ![s].roc = rd[r].roc + 1]
    BY <1>1 DEF writeRoc
  <2>. QED  BY <1>1, <1>2, <2>1, ReaderFacts DEF ReceiverInv, ReceiverTypes, Ctx
<1>. HIDE DEF c
<1>6. /\ s \in Sessions /\ ctx'[s] = c /\ \A z \in Sessions \ {s} : ctx'[z] = ctx[z]
      /\ ctx' \in [Sessions -> Ctx] /\ prev' \in [Sessions -> Nat \cup {-1}]
      /\ rd'[r] = f /\ \A q \in Readers \ {r} : rd'[q] = rd[q]
  BY <1>1, <1>2, <1>3, <1>4, <1>5, ReaderFacts DEF ReceiverInv, ReceiverTypes
<1>7. ASSUME orderly
      PROVE  Crossing(r)' /\ ContextFollows(s)' /\ \A q \in Readers \ {r} : Busy(q) => rd[q].sess # s
  <2>1. /\ ContextFollows(s) /\ Crossing(r) /\ prev[s] \in Nat
        /\ \A q \in Readers \ {r} : Busy(q) => rd[q].sess # s
    <3>1. Crossing(r)
      BY <1>2, <1>7, ReaderFacts DEF Reads, InEpoch
    <3>. QED  BY <1>1, <1>2, <1>7, <3>1, ContextFacts
  <2>2. c.roc = Epoch(prev[s]) + 1
    BY <1>1, <1>2, <1>4, <2>1 DEF Crossing
  <2>3. Crossing(r)'
    BY <1>1, <1>2, <1>3, <1>6, <2>1, <2>2 DEF Crossing, Busy
  <2>4. Crossed(r, s)'
    BY <1>1, <1>2, <1>3, <1>6, <2>1 DEF Crossing, Crossed
  <2>5. \A q \in Readers : Setting(q, s) => Setting(q, s)'
    BY <1>2, <1>6 DEF Setting
  <2>6. ContextFollows(s)'
    BY <1>2, <1>4, <1>6, <2>1, <2>4, <2>5 DEF ContextFollows
  <2>. QED  BY <2>1, <2>3, <2>6
<1>8. /\ f \in Rd /\ f.pc # "idle" /\ f.pkt = rd[r].pkt /\ f.sess = s
      /\ \A z \in Sessions \ {s} : ctx'[z] = ctx[z] /\ prev'[z] = prev[z]
      /\ UNCHANGED <<sess, peer, orderly, garbled>>
  BY <1>2, <1>3, <1>6
<1>9. orderly => /\ (InEpoch(r) \/ Crossing(r))' /\ ContextFollows(s)'
                 /\ \A q \in Readers \ {r} :
                      Busy(q) /\ rd[q].sess = s => (InEpoch(q) \/ Crossing(q))'
  BY <1>7
<1>. QED  BY <1>1, <1>2, <1>6, <1>8, <1>9, ReaderGoesOn, Zenon

(* lastSeq is written: the context is where the packet is, in the packet's epoch. *)
LEMMA WriteLastKeeps ==
  ASSUME ReceiverInv, NEW r \in Readers, writeLast(r)
  PROVE  ReceiverInv'
<1>1. PICK s : s = rd[r].sess
  OBVIOUS
<1>. DEFINE n == rd[r].pkt  pc == IF rd[r].pc = "first" THEN "set" ELSE "index"
            f == [rd[r] EXCEPT !.pc = pc]  c == [ctx[s] EXCEPT !.last = Seq16(n)]
<1>2. /\ rd[r].pc \in {"first", "last"} /\ Busy(r) /\ rd' = [rd EXCEPT ![r] = f]
      /\ prev' = [prev EXCEPT ![s] = n]
      /\ UNCHANGED <<sess, peer, orderly, garbled>>
  BY <1>1 DEF writeLast, Goto, Busy, ReceiverInv, ReceiverTypes
<1>3. pc \in {"set", "index"}
  OBVIOUS
<1>4. f \in Rd /\ f.pc = pc /\ f.pkt = n /\ f.sess = s /\ n \in Nat
  BY <1>1, <1>3, ReaderFacts DEF Rd
<1>. HIDE DEF f
<1>5. /\ c \in Ctx /\ c.roc = ctx[s].roc
      /\ c.last = Seq16(n) /\ c.initialized = ctx[s].initialized
  BY <1>1, <1>2, ReaderFacts, Division DEF Ctx
<1>6. ctx' = [ctx EXCEPT ![s] = c]
  <2>1. ctx' = [ctx EXCEPT ![s].last = Seq16(n)]
    BY <1>1 DEF writeLast
  <2>. QED  BY <1>1, <1>2, <2>1, ReaderFacts DEF ReceiverInv, ReceiverTypes, Ctx
<1>. HIDE DEF c
<1>7. /\ s \in Sessions /\ ctx'[s] = c /\ prev'[s] = n
      /\ \A z \in Sessions \ {s} : ctx'[z] = ctx[z] /\ prev'[z] = prev[z]
      /\ ctx' \in [Sessions -> Ctx] /\ prev' \in [Sessions -> Nat \cup {-1}]
      /\ rd'[r] = f /\ \A q \in Readers \ {r} : rd'[q] = rd[q]
  BY <1>1, <1>2, <1>4, <1>5, <1>6, ReaderFacts DEF ReceiverInv, ReceiverTypes
<1>8. ASSUME orderly
      PROVE  /\ InEpoch(r)' /\ ContextFollows(s)'
             /\ \A q \in Readers \ {r} : Busy(q) /\ rd[q].sess = s => InEpoch(q)'
  <2>1. /\ Reads(r) /\ ContextFollows(s) /\ ~(s > sess) /\ prev[s] \in Nat \cup {-1}
        /\ Crossing(r) => prev[s] \in Nat /\ \A q \in Readers \ {r} : Busy(q) => rd[q].sess # s
    BY <1>1, <1>2, <1>8, ContextFacts
  <2>2. ctx[s].roc = Epoch(n)
    BY <1>1, <1>2, <2>1 DEF Reads, InEpoch, Crossing
  <2>3. InEpoch(r)'
    BY <1>2, <1>3, <1>4, <1>5, <1>7, <2>2, SpaceType DEF InEpoch
  <2>4. rd[r].pc = "first" => Setting(r, s)'
    BY <1>2, <1>4, <1>7 DEF Setting
  <2>5. rd[r].pc # "first" => prev[s] # -1
    BY <1>1, <1>2, <2>1 DEF Reads, InEpoch, Crossing
  <2>6. \A q \in Readers : Setting(q, s) => Setting(q, s)'
    BY <1>2, <1>7 DEF Setting
  <2>7. ContextFollows(s)'
    <3>1. prev'[s] # -1 /\ prev'[s] < peer.first + peer.sent
      BY <1>4, <1>7, <2>1 DEF Reads
    <3>2. ctx'[s].roc = Epoch(prev'[s]) /\ ctx'[s].last = Seq16(prev'[s])
      BY <1>5, <1>7, <2>2
    <3>3. ctx'[s].initialized \/ \E q \in Readers : Setting(q, s)'
      BY <1>5, <1>7, <2>1, <2>4, <2>5, <2>6 DEF ContextFollows
    <3>. QED  BY <1>2, <2>1, <3>1, <3>2, <3>3 DEF ContextFollows
  <2>8. ASSUME NEW q \in Readers \ {r}, Busy(q), rd[q].sess = s PROVE InEpoch(q)'
    <3>1. InEpoch(q)
      BY <1>1, <1>2, <1>8, <2>8, ReaderFacts DEF Reads, Crossing
    <3>2. n - rd[q].pkt <= Half
      BY <1>1, <2>1, <2>8 DEF Reads
    <3>. QED  BY <1>4, <1>5, <1>7, <2>2, <2>8, <3>1, <3>2 DEF InEpoch
  <2>. QED  BY <2>3, <2>7, <2>8
<1>9. /\ f \in Rd /\ f.pc # "idle" /\ f.pkt = rd[r].pkt /\ f.sess = s
      /\ rd' = [rd EXCEPT ![r] = f] /\ Busy(r) /\ s \in Sessions
      /\ ctx' \in [Sessions -> Ctx] /\ prev' \in [Sessions -> Nat \cup {-1}]
      /\ \A z \in Sessions \ {s} : ctx'[z] = ctx[z] /\ prev'[z] = prev[z]
      /\ UNCHANGED <<sess, peer, orderly, garbled>>
  BY <1>2, <1>3, <1>4, <1>7
<1>10. orderly => /\ (InEpoch(r) \/ Crossing(r))' /\ ContextFollows(s)'
                  /\ \A q \in Readers \ {r} :
                       Busy(q) /\ rd[q].sess = s => (InEpoch(q) \/ Crossing(q))'
  BY <1>8
<1>. QED  BY <1>1, <1>9, <1>10, ReaderGoesOn, Zenon

LEMMA SetInitializedKeeps ==
  ASSUME ReceiverInv, NEW r \in Readers, setInitialized(r)
  PROVE  ReceiverInv'
<1>1. PICK s : s = rd[r].sess
  OBVIOUS
<1>. DEFINE f == [rd[r] EXCEPT !.pc = "index"]  c == [ctx[s] EXCEPT !.initialized = TRUE]
<1>2. /\ rd[r].pc = "set" /\ Busy(r) /\ rd' = [rd EXCEPT ![r] = f]
      /\ UNCHANGED <<sess, peer, prev, orderly, garbled>>
  BY DEF setInitialized, Goto, Busy, ReceiverInv, ReceiverTypes
<1>3. f \in Rd /\ f.pc = "index" /\ f.pkt = rd[r].pkt /\ f.sess = s
  BY <1>1, ReaderFacts DEF Rd
<1>. HIDE DEF f
<1>4. c \in Ctx /\ c.roc = ctx[s].roc /\ c.last = ctx[s].last /\ c.initialized
  BY <1>1, <1>2, ReaderFacts DEF Ctx
<1>5. ctx' = [ctx EXCEPT ![s] = c]
  <2>1. ctx' = [ctx EXCEPT ![s].initialized = TRUE]
    BY <1>1 DEF setInitialized
  <2>. QED  BY <1>1, <1>2, <2>1, ReaderFacts DEF ReceiverInv, ReceiverTypes, Ctx
<1>. HIDE DEF c
<1>6. /\ s \in Sessions /\ ctx'[s] = c /\ \A z \in Sessions \ {s} : ctx'[z] = ctx[z]
      /\ ctx' \in [Sessions -> Ctx] /\ prev' \in [Sessions -> Nat \cup {-1}]
      /\ rd'[r] = f /\ \A q \in Readers \ {r} : rd'[q] = rd[q]
  BY <1>1, <1>2, <1>3, <1>4, <1>5, ReaderFacts DEF ReceiverInv, ReceiverTypes
<1>7. ASSUME orderly
      PROVE  /\ InEpoch(r)' /\ ContextFollows(s)'
             /\ \A q \in Readers \ {r} : Busy(q) /\ rd[q].sess = s => InEpoch(q)'
  <2>1. InEpoch(r) /\ ContextFollows(s) /\ prev[s] # -1
    BY <1>1, <1>2, <1>7, ReaderFacts DEF Reads, InEpoch, Crossing
  <2>2. InEpoch(r)'
    BY <1>1, <1>2, <1>3, <1>4, <1>6, <2>1 DEF InEpoch
  <2>3. \A q \in Readers : Crossed(q, s) => Crossed(q, s)'
    BY <1>2, <1>6 DEF Crossed
  <2>4. ContextFollows(s)'
    BY <1>2, <1>4, <1>6, <2>1, <2>3 DEF ContextFollows
  <2>5. ASSUME NEW q \in Readers \ {r}, Busy(q), rd[q].sess = s PROVE InEpoch(q)'
    <3>1. InEpoch(q)
      BY <1>1, <1>2, <1>7, <2>5, ReaderFacts DEF Reads, Crossing
    <3>. QED  BY <1>2, <1>4, <1>6, <2>5, <3>1 DEF InEpoch
  <2>. QED  BY <2>2, <2>4, <2>5
<1>8. /\ f \in Rd /\ f.pc # "idle" /\ f.pkt = rd[r].pkt /\ f.sess = s
      /\ \A z \in Sessions \ {s} : ctx'[z] = ctx[z] /\ prev'[z] = prev[z]
      /\ UNCHANGED <<sess, peer, orderly, garbled>>
  BY <1>2, <1>3, <1>6
<1>9. orderly => /\ (InEpoch(r) \/ Crossing(r))' /\ ContextFollows(s)'
                 /\ \A q \in Readers \ {r} :
                      Busy(q) /\ rd[q].sess = s => (InEpoch(q) \/ Crossing(q))'
  BY <1>7
<1>. QED  BY <1>1, <1>2, <1>6, <1>8, <1>9, ReaderGoesOn, Zenon

(* The packet is decrypted with the counter of its own epoch. *)
LEMMA DecodeKeeps ==
  ASSUME ReceiverInv, NEW r \in Readers, decode(r)
  PROVE  ReceiverInv'
<1>1. /\ rd[r].pc = "index" /\ Busy(r) /\ rd' = [rd EXCEPT ![r] = Reading]
      /\ garbled' = (garbled \/ ctx[rd[r].sess].roc # Epoch(rd[r].pkt))
      /\ UNCHANGED <<sess, ctx, peer, prev, orderly>>
  BY DEF decode, Context, Busy
<1>2. Reading.pc = "idle" /\ Reading \in Rd
  <2>. 0 \in 0 .. MaxSessions
    BY MediaAssumption
  <2>. QED  BY DEF Reading, Rd
<1>3. ReceiverTypes'
  <2>1. garbled' \in BOOLEAN
    BY <1>1 DEF ReceiverInv, ReceiverTypes
  <2>. QED  BY <1>1, <1>2, <2>1 DEF ReceiverInv, ReceiverTypes
<1>4. \A q \in Readers : /\ Busy(q)' => q # r /\ Busy(q)
                         /\ q # r => rd'[q] = rd[q]
  BY <1>1, <1>2 DEF Busy, ReceiverInv, ReceiverTypes
<1>5. ASSUME orderly, NEW s \in Sessions PROVE ~garbled' /\ ContextFollows(s)'
  <2>1. Reads(r) /\ ~garbled /\ ContextFollows(s)
    BY <1>1, <1>5, ReaderFacts DEF ReceiverInv, ReceiverInStep
  <2>2. InEpoch(r)
    BY <1>1, <2>1 DEF Reads, Crossing
  <2>3. \A q \in Readers : (Crossed(q, s) => Crossed(q, s)') /\ (Setting(q, s) => Setting(q, s)')
    BY <1>1, <1>4 DEF Crossed, Setting
  <2>. QED  BY <1>1, <2>1, <2>2, <2>3 DEF InEpoch, ContextFollows
<1>6. ASSUME orderly, NEW q \in Readers, Busy(q)' PROVE Reads(q)'
  <2>1. Reads(q) /\ q # r /\ rd'[q] = rd[q]
    BY <1>4, <1>6, ReaderFacts
  <2>2. \A p \in Readers : Busy(p)' => Busy(p) /\ rd'[p] = rd[p]
    BY <1>4
  <2>. QED  BY <1>1, <2>1, <2>2 DEF Reads, InEpoch, Crossing
<1>7. ASSUME orderly PROVE ~garbled'
  BY <1>1, <1>7, ReaderFacts DEF ReceiverInv, ReceiverInStep, Reads, Crossing, InEpoch
<1>. QED  BY <1>1, <1>3, <1>4, <1>5, <1>6, <1>7 DEF ReceiverInv, ReceiverInStep

(* A packet in its place is of the epoch of the context, or alone on the way into the next. *)
LEMMA OnRelayDataKeeps ==
  ASSUME ReceiverInv, NEW r \in Readers, NEW n \in Nat, onRelayData(r, n)
  PROVE  ReceiverInv'
<1>1. PICK s : s = sess
  OBVIOUS
<1>. DEFINE f == [Reading EXCEPT !.pc = "initialized", !.pkt = n, !.sess = s]
<1>2. /\ sess > 0 /\ ~Busy(r) /\ rd' = [rd EXCEPT ![r] = f]
      /\ n - peer.first \in 0 .. peer.sent - 1 /\ peer.first + peer.sent - n <= Window
      /\ orderly' = (orderly /\ InPlace(n, s))
      /\ UNCHANGED <<sess, ctx, peer, prev, garbled>>
  BY <1>1 DEF onRelayData
<1>3. /\ s \in 0 .. MaxSessions /\ s \in 1 .. sess /\ s \in Sessions
      /\ prev[s] \in Nat \cup {-1} /\ ctx[s].roc \in Nat
      /\ peer.first \in Nat /\ peer.sent \in Nat /\ Window < Half /\ Window \in Nat
  <2>1. /\ sess \in 0 .. MaxSessions /\ MaxSessions \in Nat /\ MaxPeerPackets \in Nat
        /\ Window < Half /\ Window \in Nat
    BY MediaAssumption DEF ReceiverInv, ReceiverTypes
  <2>2. s \in 1 .. sess /\ s \in Sessions
    BY <1>1, <1>2, <2>1 DEF Sessions
  <2>3. peer.first \in 0 .. SeqSpace - 1 /\ peer.sent \in 0 .. MaxPeerPackets
    BY DEF ReceiverInv, ReceiverTypes
  <2>4. prev[s] \in Nat \cup {-1} /\ ctx[s].roc \in Nat
    BY <2>2 DEF ReceiverInv, ReceiverTypes, Ctx
  <2>. QED  BY <1>1, <2>1, <2>2, <2>3, <2>4, SpaceType
<1>4. f \in Rd /\ f.pc = "initialized" /\ f.pkt = n /\ f.sess = s
  <2>. 0 \in 0 .. MaxSessions
    BY MediaAssumption
  <2>. QED  BY <1>3 DEF Reading, Rd
<1>. HIDE DEF f
<1>5. rd'[r] = f /\ \A q \in Readers \ {r} : rd'[q] = rd[q]
  BY <1>2, <1>4 DEF ReceiverInv, ReceiverTypes
<1>6. ReceiverTypes'
  <2>. InPlace(n, s) \in BOOLEAN
    BY DEF InPlace
  <2>. QED  BY <1>2, <1>4 DEF ReceiverInv, ReceiverTypes
<1>7. \A q \in Readers : Busy(q)' => rd'[q].sess \in 1 .. sess' /\ (q = r \/ Busy(q))
  BY <1>2, <1>3, <1>4, <1>5 DEF Busy, ReceiverInv, ReceiverInStep
<1>8. ASSUME orderly' PROVE ReceiverInStep'
  <2>1. /\ orderly /\ InPlace(n, s) /\ ~garbled /\ \A z \in Sessions : ContextFollows(z)
        /\ \A q \in Readers : Busy(q) => Reads(q)
    BY <1>2, <1>8 DEF ReceiverInv, ReceiverInStep
  <2>2. ASSUME NEW z \in Sessions PROVE ContextFollows(z)'
    <3>1. \A q \in Readers : (Crossed(q, z) => Crossed(q, z)') /\ (Setting(q, z) => Setting(q, z)')
      BY <1>2, <1>5 DEF Crossed, Setting, Busy
    <3>. QED  BY <1>2, <2>1, <3>1 DEF ContextFollows
  <2>3. n < peer.first + peer.sent /\ \A m \in Nat : m < peer.first + peer.sent => m - n <= Half
    BY <1>2, <1>3, SpaceType
  <2>4. \A q \in Readers : Busy(q) => rd[q].pkt \in Nat /\ rd[q].pkt < peer.first + peer.sent
    BY <2>1, ReaderFacts DEF Reads
  <2>5. ASSUME NEW q \in Readers, Busy(q), rd[q].sess = s
        PROVE  /\ n - rd[q].pkt <= Half /\ rd[q].pkt - n <= Half
               /\ ctx[s].roc = Epoch(n) /\ InEpoch(q)
    <3>1. n - rd[q].pkt <= Half /\ Epoch(rd[q].pkt) = Epoch(n)
          /\ (prev[s] >= 0 => Epoch(prev[s]) = Epoch(n))
      BY <2>1, <2>5 DEF InPlace
    <3>2. InEpoch(q)
      <4>1. SUFFICES ASSUME Crossing(q) PROVE FALSE
        BY <2>1, <2>5 DEF Reads
      <4>2. prev[s] >= 0 /\ Epoch(n) = Epoch(prev[s]) + 1 /\ Epoch(prev[s]) = Epoch(n)
        BY <2>5, <3>1, <4>1 DEF Crossing
      <4>3. Epoch(n) \in Nat
        BY Division
      <4>. QED  BY <4>2, <4>3
    <3>. QED  BY <2>3, <2>4, <2>5, <3>1, <3>2 DEF InEpoch
  <2>6. InEpoch(r)' \/ Crossing(r)'
    <3>1. ContextFollows(s) /\ prev[s] - n <= Half
      <4>1. prev[s] = -1 => prev[s] - n <= Half
        BY SpaceType
      <4>2. ContextFollows(s)
        BY <1>3, <2>1
      <4>. QED  BY <1>3, <2>3, <4>1, <4>2 DEF ContextFollows
    <3>2. CASE \E q \in Readers : Busy(q) /\ rd[q].sess = s
      <4>1. ctx[s].roc = Epoch(n)
        BY <2>5, <3>2
      <4>2. IF prev[s] >= 0 THEN Epoch(n) = Epoch(prev[s]) ELSE Epoch(n) = 0
        BY <1>3, <2>1, <3>2 DEF InPlace
      <4>. QED  BY <1>2, <1>4, <1>5, <3>1, <4>1, <4>2 DEF InEpoch
    <3>3. CASE ~ \E q \in Readers : Busy(q) /\ rd[q].sess = s
      <4>1. ~ \E q \in Readers : Crossed(q, s)
        BY <3>3 DEF Crossed, Busy
      <4>2. CASE prev[s] = -1
        <5>1. Epoch(n) = 0 /\ ctx[s].roc = 0
          BY <2>1, <3>1, <4>2 DEF InPlace, ContextFollows, NewContext
        <5>. QED  BY <1>2, <1>4, <1>5, <3>1, <4>2, <5>1 DEF InEpoch
      <4>3. CASE prev[s] # -1
        <5>1. /\ prev[s] \in Nat /\ prev[s] >= 0 /\ ctx[s].roc = Epoch(prev[s])
              /\ n - prev[s] < Half /\ Epoch(n) >= Epoch(prev[s])
          BY <1>3, <2>1, <3>1, <4>1, <4>3 DEF InPlace, ContextFollows
        <5>2. Epoch(n) \in Nat /\ Epoch(prev[s]) \in Nat
          BY <5>1, Division
        <5>3. CASE Epoch(n) = Epoch(prev[s])
          BY <1>2, <1>4, <1>5, <3>1, <5>1, <5>3 DEF InEpoch
        <5>4. CASE Epoch(n) > Epoch(prev[s])
          <6>1. Epoch(n) = Epoch(prev[s]) + 1
            BY <5>1, <5>4, LaterEpoch
          <6>2. \A q \in Readers \ {r} : Busy(q)' => rd'[q].sess # s
            BY <1>5, <1>7, <3>3
          <6>. QED  BY <1>2, <1>4, <1>5, <5>1, <6>1, <6>2 DEF Crossing
        <5>. QED  BY <5>1, <5>2, <5>3, <5>4
      <4>. QED  BY <4>2, <4>3
    <3>. QED  BY <3>2, <3>3
  <2>7. Reads(r)'
    <3>1. n - n <= Half
      BY SpaceType
    <3>2. ASSUME NEW q \in Readers, Busy(q)', rd'[q].sess = s
          PROVE  n - rd'[q].pkt <= Half
      BY <1>4, <1>5, <1>7, <2>5, <3>1, <3>2
    <3>. QED  BY <1>2, <1>4, <1>5, <2>3, <2>6, <3>2 DEF Reads
  <2>8. ASSUME NEW q \in Readers \ {r}, Busy(q)' PROVE Reads(q)'
    <3>1. Reads(q) /\ Busy(q) /\ rd'[q] = rd[q]
      BY <1>5, <1>7, <2>1, <2>8
    <3>2. ASSUME NEW p \in Readers, Busy(p)', rd'[p].sess = rd'[q].sess
          PROVE  rd[q].pkt - rd'[p].pkt <= Half
      <4>1. CASE p = r
        BY <1>4, <1>5, <2>5, <3>1, <3>2, <4>1
      <4>2. CASE p # r
        BY <1>5, <1>7, <3>1, <3>2, <4>2 DEF Reads
      <4>. QED  BY <4>1, <4>2
    <3>3. InEpoch(q)' \/ Crossing(q)'
      <4>1. CASE InEpoch(q)
        BY <1>2, <3>1, <4>1 DEF InEpoch
      <4>2. CASE Crossing(q) /\ ~InEpoch(q)
        <5>1. rd[q].sess # s
          BY <2>5, <3>1, <4>2
        <5>. QED  BY <1>2, <1>4, <1>5, <1>7, <3>1, <4>2, <5>1 DEF Crossing
      <4>. QED  BY <3>1, <4>1, <4>2 DEF Reads
    <3>. QED  BY <1>2, <3>1, <3>2, <3>3 DEF Reads
  <2>. QED  BY <1>2, <1>7, <2>1, <2>2, <2>7, <2>8 DEF ReceiverInStep
<1>. QED  BY <1>2, <1>6, <1>7, <1>8 DEF ReceiverInv, ReceiverInStep

LEMMA ReceiverStep ==
  ASSUME ReceiverInv, [Next]_vars
  PROVE  ReceiverInv'
<1>1. CASE UNCHANGED receiver
  BY <1>1 DEF receiver, ReceiverInv, ReceiverTypes, ReceiverInStep, ContextFollows, Crossed, Setting,
       Reads, InEpoch, Crossing, Busy
<1>2. ASSUME NEW r \in Readers, unprotects(r)
      PROVE  ReceiverInv'
  BY <1>2, ReadInitializedKeeps, ReadLastKeeps, ReadRocKeeps, WriteRocKeeps, WriteLastKeeps,
     SetInitializedKeeps, DecodeKeeps DEF unprotects
<1>. QED
  BY <1>1, <1>2, ReceiverMoves, RekeyReceives, PeerSendsKeeps, OnRelayDataKeeps

-----------------------------------------------------------------------------
(* The theorems. *)

(* The variables no part is about. *)
Rest == /\ leg \in {"send", "recv", "both"} /\ up \in BOOLEAN
        /\ reg \in BOOLEAN /\ heard \in [Readers -> {"none", "frame", "found"}]

LEMMA Parts ==
  MediaInv <=> /\ Rest /\ SenderTypes /\ SenderInStep /\ CaptureInv /\ RecorderInv /\ ReceiverInv
BY DEF MediaInv, TypeOK, Rest, SenderTypes, CaptureInv, CaptureTypes, RecorderInv, RecorderTypes,
       ReceiverInv, ReceiverTypes, Ctx, Rd

LEMMA InitInv == Init => MediaInv
<1>. SUFFICES ASSUME Init PROVE MediaInv
  OBVIOUS
<1>1. /\ FrameSize \in Nat \ {0} /\ RecMax \in Nat \ {0} /\ Chunks \subseteq Nat \ {0} /\ Chunks # {}
      /\ MaxPackets \in Nat /\ MaxPeerPackets \in Nat /\ MaxSessions \in Nat
  BY MediaAssumption
<1>2. NewContext \in [roc : Nat, last : 0 .. SeqSpace - 1, initialized : BOOLEAN]
      /\ ~NewContext.initialized
  BY SpaceType DEF NewContext
<1>3. PICK first \in 0 .. SeqSpace - 1 :
        /\ rtp = [ssrc |-> 1, seq |-> IF leg = "send" THEN first ELSE 0]
        /\ peer = [first |-> IF leg = "recv" THEN first ELSE 0, sent |-> 0]
  BY DEF Init
<1>4. SenderTypes
  <2>1. rtp \in [ssrc : 1 .. 2, seq : 0 .. SeqSpace - 1]
    BY <1>3, SpaceType
  <2>2. /\ snd \in [roc : Nat, last : 0 .. SeqSpace - 1, initialized : BOOLEAN]
        /\ ~snd.initialized
    BY <1>2 DEF Init
  <2>3. ivs = {} /\ packets = 0 /\ wrapLost = FALSE
    BY DEF Init
  <2>4. 0 \in 0 .. MaxPackets
    BY <1>1
  <2>. QED  BY <2>1, <2>2, <2>3, <2>4 DEF SenderTypes
<1>5. SenderInStep
  BY <1>2, FS_EmptySet DEF Init, SenderInStep
<1>6. CaptureInv
  <2>1. <<>> \in Seq(Nat) /\ <<>> \in Seq(Seq(Nat)) /\ Len(<<>>) = 0
    OBVIOUS
  <2>2. NoChunk \in [size : Chunks \cup {0}, left : Nat] /\ NoChunk.left = 0 /\ NoChunk.size = 0
    BY DEF NoChunk
  <2>3. CaptureTypes /\ CaptureSound
    BY <1>1, <2>1, <2>2 DEF Init, CaptureTypes, CaptureSound
  <2>4. Samples(0, 0) = <<>> /\ 0 * FrameSize = 0
    BY <1>1 DEF Samples
  <2>5. FramesExact
    BY <2>1, <2>4 DEF Init, FramesExact
  <2>. QED  BY <2>3, <2>5 DEF CaptureInv
<1>7. RecorderInv
  <2>1. rec.peer = 0 /\ rec.browser = 0 /\ ~rec.closed /\ rec.taken = -1 /\ rec.wav = -1
        /\ rec \in [peer : Nat, browser : Nat, closed : BOOLEAN, taken : Nat \cup {-1},
                   wav : Nat \cup {-1}]
    BY DEF Init, NewRecorder
  <2>2. PICK n \in Chunks : TRUE
    BY <1>1
  <2>3. 0 < RecMax + FrameSize /\ 0 < RecMax + n
    BY <1>1, <2>2
  <2>. QED  BY <2>1, <2>2, <2>3 DEF RecorderInv, RecorderTypes, RecordingFinal
<1>8. ReceiverInv
  <2>1. peer \in [first : 0 .. SeqSpace - 1, sent : 0 .. MaxPeerPackets]
    BY <1>1, <1>3, SpaceType
  <2>2. Reading \in Rd /\ Reading.pc = "idle"
    <3>. 0 \in 0 .. MaxSessions
      BY <1>1
    <3>. QED  BY DEF Reading, Rd
  <2>3. ReceiverTypes
    <3>1. sess = 0 /\ 0 \in 0 .. MaxSessions
      BY <1>1 DEF Init
    <3>2. ctx \in [Sessions -> Ctx]
      BY <1>2 DEF Init, Ctx
    <3>3. /\ rd \in [Readers -> Rd]
          /\ prev \in [Sessions -> Nat \cup {-1}] /\ orderly \in BOOLEAN /\ garbled \in BOOLEAN
      BY <2>2 DEF Init
    <3>. QED  BY <2>1, <3>1, <3>2, <3>3 DEF ReceiverTypes
  <2>4. \A r \in Readers : ~Busy(r)
    BY <2>2 DEF Init, Busy
  <2>5. \A s \in Sessions : ContextFollows(s)
    BY DEF Init, ContextFollows
  <2>. QED  BY <2>3, <2>4, <2>5 DEF Init, ReceiverInv, ReceiverInStep
<1>. QED  BY <1>4, <1>5, <1>6, <1>7, <1>8, Parts DEF Init, Rest

LEMMA StepInv ==
  ASSUME MediaInv, [Next]_vars
  PROVE  MediaInv'
<1>1. Rest /\ SenderTypes /\ SenderInStep /\ CaptureInv /\ RecorderInv /\ ReceiverInv
  BY Parts
<1>2. Rest'
  <2>1. CASE UNCHANGED vars
    BY <1>1, <2>1 DEF vars, recording, Rest
  <2>2. CASE \/ \E ssrc \in {1, 2} : LearnParticipants(ssrc)
             \/ Accept \/ Connect \/ Disconnect \/ cleanupMedia
             \/ \E n \in Chunks : OnBrowserPCM(n)
             \/ FeedCapturedPCM \/ writeBrowser \/ CaptureStops \/ Silence \/ PeerSends
    BY <1>1, <2>2 DEF Rest, recording, LearnParticipants, Accept, Connect, Disconnect, cleanupMedia,
      OnBrowserPCM, FeedCapturedPCM, writeBrowser, CaptureStops, Silence, PeerSends
  <2>3. ASSUME NEW r \in Readers,
               unprotects(r) \/ \E n \in 0 .. SeqSpace + MaxPeerPackets : onRelayData(r, n)
        PROVE  Rest'
    BY <1>1, <2>3, ReadersTouch DEF Rest, recording
  <2>4. CASE records
    BY <1>1, <2>4 DEF Rest, records, removeCall, finishWAV, mixWAV, FrameDecoded, OnPeerAudio, writePeer
  <2>. QED  BY <2>1, <2>2, <2>3, <2>4 DEF Next, unprotects, records
<1>3. CaptureTypes
  BY <1>1 DEF CaptureInv
<1>4. SenderTypes' /\ SenderInStep' /\ CaptureInv' /\ RecorderInv' /\ ReceiverInv'
  BY <1>1, <1>3, SenderStep, CaptureStep, RecorderStep, ReceiverStep
<1>5. (Rest /\ SenderTypes /\ SenderInStep /\ CaptureInv /\ RecorderInv /\ ReceiverInv)'
  BY <1>2, <1>4
<1>. QED  BY <1>5, Parts, PTL

(* The media path keeps its invariant: contexts on both sides, capture and recording. *)
THEOREM MediaInductive == Spec => []MediaInv
<1>1. Init => MediaInv
  BY InitInv
<1>2. MediaInv /\ [Next]_vars => MediaInv'
  BY StepInv
<1>. QED  BY <1>1, <1>2, PTL DEF Spec

(* As long as packets arrive in their place, every one is decrypted with the index the peer
   used (SrtpContext.Unprotect). *)
THEOREM ReceiverStaysInStep == Spec => []InStep
<1>1. MediaInv => InStep
  BY DEF MediaInv, ReceiverInStep, InStep
<1>. QED  BY <1>1, MediaInductive, PTL

(* No keystream is used for two packets, unless the session was replaced after its sequence
   numbers had come round (SrtpContext.Protect). *)
THEOREM KeystreamsFresh == Spec => []NoKeystreamReuse
<1>1. MediaInv => NoKeystreamReuse
  BY DEF MediaInv, TypeOK, SenderInStep, NoKeystreamReuse
<1>. QED  BY <1>1, MediaInductive, PTL

(* Every sample of the capture is in one frame or in the buffer, in order (FeedCapturedPCM). *)
THEOREM SamplesAreKept == Spec => []SamplesKept
<1>1. MediaInv => SamplesKept
  BY DEF MediaInv, SamplesKept
<1>. QED  BY <1>1, MediaInductive, PTL

(* What finishWAV took when it closed the recorder is what both sides stay at, and the file has
   the samples of the longer one, whoever still hands over audio (callRecorder). *)
THEOREM RecordingsFinal == Spec => []RecordingFinal
<1>1. MediaInv => RecordingFinal
  BY DEF MediaInv
<1>. QED  BY <1>1, MediaInductive, PTL

=============================================================================
