------------------------------ MODULE Formats -------------------------------
(***************************************************************************)
(* What is written must be read: the pure algorithms of the repository     *)
(* against each other and against reference definitions.  A state is one   *)
(* input, grown a piece at a time; each action grows one kind of input,    *)
(* each invariant judges what the code makes of it.  The input may be a    *)
(* call's stanzas, which grow as Stanzas says.                             *)
(***************************************************************************)
EXTENDS RangeCoder, MLowFrame, RelayWire, TextFormat, Stanzas

Packet == INSTANCE MLowPacket

CONSTANTS Cdf, Icdf,        \* tables of the symbols coded
          MaxSymbols,       \* symbols of a stream
          Frames,           \* internal frames of a packet
          Predictors,       \* predictors a decoder may have kept
          SubframePulses,   \* the pulses of one subframe
          CountTop,         \* largest pulse count (160)
          StunAttrs,        \* attributes of a message, <<type, data>>
          RtpHeaders,       \* RTP headers
          Ssrcs,            \* SSRCs of a subscription list
          RedBytes, MaxRed, \* bytes and length of a payload with redundancy
          MaxPieces         \* pieces of a text

VARIABLE x  \* the input, or that it is in ack and call

Empty == {[kind |-> k, of |-> <<>>] : k \in {"stream", "packet", "pulses", "stun", "rtp", "subscriptions",
                                              "red", "text", "stanzas"}}
         \cup [kind : {"count"}, of : 0 .. CountTop]
FormatsInit == x \in Empty /\ Init /\ (x.kind # "stanzas" => call = NoCall)

Grow(kind, limit, pieces) ==
  /\ x.kind = kind /\ Len(x.of) < limit
  /\ \E piece \in pieces : x' = [x EXCEPT !.of = Append(@, piece)]
  /\ UNCHANGED <<ack, call>>

-----------------------------------------------------------------------------
\* The range coder

Symbols == [op : {"cdf"}, v : 0 .. Len(Cdf) - 2] \cup [op : {"icdf"}, v : 0 .. Len(Icdf) - 1]
             \cup [op : {"logp"}, v : 0 .. 1] \cup [op : {"uint"}, v : {0, 5, 8}]
             \cup [op : {"bits"}, v : {0, 5}] \cup [op : {"raw"}, v : {0, 7}] \cup [op : {"fine"}, v : {0, 2, 3}]

encodeSymbol(e, s) ==
  CASE s.op = "cdf" -> EncodeCDF(e, s.v, Cdf) [] s.op = "icdf" -> EncodeICDF(e, s.v, Icdf, 2)
    [] s.op = "logp" -> EncodeBitLogp(e, s.v, 3) [] s.op = "uint" -> EncodeUint(e, s.v, 9)
    [] s.op = "bits" -> EncodeBitsN(e, s.v, 3) [] s.op = "raw" -> EncodeRawSymbol(e, s.v, 3)
    [] s.op = "fine" -> Encode64FineSym(e, s.v)
decodeSymbol(d, s) ==
  CASE s.op = "cdf" -> DecodeCDF(d, Cdf) [] s.op = "icdf" -> DecodeICDF(d, Icdf, 2)
    [] s.op = "logp" -> DecodeBitLogp(d, 3) [] s.op = "uint" -> DecodeUint(d, 9)
    [] s.op = "bits" -> DecodeBitsN(d, 3) [] s.op = "raw" -> DecodeRawSymbol(d, 3)
    [] s.op = "fine" -> Decode64FineSym(d)

WriteSymbol == Grow("stream", MaxSymbols, Symbols)

\* Reading the symbols back in the order they were written
Reads(buf, symbols) ==
  LET step(acc, s) == LET y == decodeSymbol(acc.d, s) IN [d |-> y.d, ok |-> acc.ok /\ y.v = s.v]
      r == FoldLeft(step, [d |-> NewRangeDecoder(buf), ok |-> TRUE], symbols)
  IN  r.ok /\ ~r.d.err

(* A stream that fits its buffer decodes to the symbols written, through every carry and   *)
(* with raw bits at the back; and when nothing was written at the back, the bytes          *)
(* ConsumedLen keeps are enough (EncodeSmplFrame sends only those).                        *)
StreamReadBack ==
  x.kind = "stream" =>
    LET e == Done(FoldLeft(encodeSymbol, NewRangeEncoder, x.of))
        plain == \A i \in DOMAIN x.of : x.of[i].op \notin {"uint", "bits"}
    IN  ~e.err => /\ Reads(Bytes(e), x.of)
                  /\ plain => Reads(SubSeq(Bytes(e), 1, ConsumedLen(e)), x.of)

-----------------------------------------------------------------------------
\* The MLow frame

AddFrame == Grow("packet", 3, Frames)

(* Whatever predictor the decoder has kept from earlier packets, lost or not, it reads a   *)
(* packet the encoder wrote from a fresh one: every symbol fits its table, is read against *)
(* the table it was written with, and none is left over (EncodeSmplFrame,                  *)
(* decodeActiveFrame).                                                                     *)
PacketReadBack ==
  x.kind = "packet" /\ Len(x.of) = 3 =>
    LET whole(r) == r.d.ok /\ r.d.in = <<>> /\ r.out = x.of
        read(in) == /\ \A i \in DOMAIN in : in[i].fits
                    /\ \A st \in Predictors : whole(decodeActiveFrame(in, st))
    IN  read(EncodeSmplFrame(x.of))

AddSubframe == Grow("pulses", 4, SubframePulses)

(* Pulses go through counts, splits, run lengths and batches of signs and come back where  *)
(* they were, with their size and sign (smplBuildPulseParams, encodeSmplPulses,            *)
(* DecodeSmplPulses).                                                                      *)
PulsesReadBack ==
  x.kind = "pulses" /\ Len(x.of) = 4 =>
    LET whole(r) == r.d.ok /\ r.d.in = <<>> /\ r.pulses = FlattenSeq(x.of)
        read(in) == /\ \A i \in DOMAIN in : in[i].fits
                    /\ whole(DecodeSmplPulses([in |-> in, ok |-> TRUE], 4 * SubfrMax))
    IN  read(encodeSmplPulses(4 * SubfrMax, smplBuildPulseParams(FlattenSeq(x.of))))

(* The 16-bit triangular prior gives every count an interval of its own that the search    *)
(* ends in, the intervals fill 0 .. triT(CountTop), and none is empty.                     *)
CountsDistinct ==
  x.kind = "count" =>
    LET lo == triFrom(x.of, CountTop)
        hi == triT(x.of, CountTop)
    IN  lo < hi /\ \A val \in {lo, hi - 1} : triSearch(val, CountTop) = x.of

-----------------------------------------------------------------------------
\* Payloads with redundancy

AddByte == Grow("red", MaxRed, RedBytes)

(* Of any bytes, DepackSplitRed either refuses or cuts the payload after its header into   *)
(* the announced blocks and a main frame, all of it and nothing twice; what a sender packs *)
(* from the cut frames is the payload again, and Decode plays the main frame.              *)
RedPartition ==
  x.kind = "red" =>
    LET r == Packet!DepackSplitRed(x.of)
        blocks == Front(r.frames)
        main == Last(r.frames)
    IN  r.err = "" =>
          /\ main.isMain /\ main.data # <<>>
          /\ Packet!Pack(blocks, main.code, main.data) = x.of
          /\ Packet!Decode(x.of, 1) = Packet!Decode(main.data, 0)

-----------------------------------------------------------------------------
\* Datagrams

Txid == [i \in 1 .. 12 |-> 100 + i]
AddAttribute == Grow("stun", 2, StunAttrs)

\* a message of these attributes, and the client's requests with their data; mac and fp tell
\* whether it ends in integrity and fingerprint
StunMessages(attrs) ==
  LET data(i) == IF i \in DOMAIN attrs THEN attrs[i][2] ELSE <<>>
  IN  {[b |-> buildStunMessage(257, EncodeAttrs(attrs), Txid, 9, TRUE), attrs |-> attrs, mac |-> 1, fp |-> 1],
       [b |-> BuildBindingRequestWithSubs(data(1), 9, data(2), TRUE, TRUE, Txid),
        attrs |-> bindingAttrs(data(1), data(2), TRUE), mac |-> 1, fp |-> 1],
       [b |-> BuildAllocateForRelay(data(1), data(2), 9, <<10, 0, 0, 1>>, 3478, Txid),
        attrs |-> allocateAttrs(data(1), data(2), <<10, 0, 0, 1>>, 3478), mac |-> 1, fp |-> 0],
       [b |-> BuildWhatsAppPing(Txid), attrs |-> <<>>, mac |-> 0, fp |-> 0]}

(* A message built from attributes of any length parses to them, followed by integrity and *)
(* fingerprint; cut short anywhere it parses to a prefix, never to an attribute that was   *)
(* not sent (encodeAttribute, buildStunMessage, ParseStunResponse).                        *)
StunReadBack ==
  x.kind = "stun" =>
    \A m \in StunMessages(x.of) :
      LET whole == ParseStunResponse(m.b)
      IN  /\ IsStunPacket(m.b) /\ ~IsRtpPacket(m.b)
          /\ IsPrefix(m.attrs, whole.attrs) /\ Len(whole.attrs) = Len(m.attrs) + m.mac + m.fp
          /\ \A n \in 20 .. Len(m.b) :
               LET cut == ParseStunResponse(SubSeq(m.b, 1, n))
               IN  /\ cut.txid = Txid /\ cut.class = whole.class /\ cut.method = whole.method
                   /\ IsPrefix(cut.attrs, whole.attrs)

(* The relay that recomputes the digests finds them: each covers everything before it      *)
(* under a header whose length runs up to its own end (buildStunMessage).                  *)
StunIntegrity ==
  x.kind = "stun" =>
    \A m \in StunMessages(x.of) :
      LET mac == Len(m.b) - 24 - 8 * m.fp
          crc == Len(m.b) - 8
      IN  /\ m.mac = 1 => /\ Uint16At(m.b, mac) = attrMessageIntegrity
                          /\ SubSeq(m.b, mac + 5, mac + 24) = DigestAt(m.b, mac, 9, 20)
          /\ m.fp = 1 => /\ Uint16At(m.b, crc) = attrFingerprint
                         /\ SubSeq(m.b, crc + 5, crc + 8) = DigestAt(m.b, crc, 0, 4)

AddRtpHeader == Grow("rtp", 1, RtpHeaders)

(* An RTP packet with any number of contributing sources and extension words comes back    *)
(* whole, is told from STUN, and its payload starts where its header ends (DecodeRtpPacket).*)
RtpReadBack ==
  x.kind = "rtp" /\ x.of # <<>> =>
    LET b == encodeRtpPacket(x.of[1], <<7, 8, 9>>)
    IN  DecodeRtpPacket(b) = [header |-> x.of[1], payload |-> <<7, 8, 9>>] /\ IsRtpPacket(b) /\ ~IsStunPacket(b)

AddSsrc == Grow("subscriptions", 3, Ssrcs)

(* A protobuf reader finds in a subscription list every SSRC of both participants but 0,   *)
(* under its participant id, however many bytes it takes (BuildSSRCSubscriptionList).      *)
SubscriptionsReadBack ==
  x.kind = "subscriptions" =>
    LET peers == Reverse(x.of)
        sent == readProto(BuildSSRCSubscriptionList(x.of, peers, 1, 300))
        entry(pid, ssrc) == [field |-> 1, sub |-> <<[field |-> 1, v |-> pid], [field |-> 2, v |-> 1],
                                                    [field |-> 3, v |-> ssrc]>>]
        nonZero(s) == SelectSeq(s, LAMBDA ssrc : ssrc # 0)
    IN  sent = [i \in DOMAIN nonZero(x.of) |-> entry(1, nonZero(x.of)[i])]
                 \o [i \in DOMAIN nonZero(peers) |-> entry(300, nonZero(peers)[i])]
        /\ \A ssrc \in ToSet(x.of) :
             readProto(BuildSenderSubscriptions(ssrc))[1].sub[1] = [field |-> 3, v |-> ssrc]

-----------------------------------------------------------------------------
\* Text

\* an editor joins two marked pieces with nothing between them
AddPiece == Grow("text", MaxPieces, IF x.of = <<>> \/ Last(x.of) \in Unmarked THEN Styles ELSE Unmarked)

(* A text of bold, italic and plain pieces reads on WhatsApp as its author meant it,       *)
(* without the space around it (chatwootToWhatsApp).                                       *)
TextAsMeant ==
  x.kind = "text" =>
    LET write(style(_)) == FlattenSeq([i \in DOMAIN x.of |-> style(x.of[i])])
    IN  chatwootToWhatsApp(write(Markdown)) = TrimSpace(write(WhatsApp))

-----------------------------------------------------------------------------
\* Parts of one question

(* Frames, the pulses of their subframes and the counts of those are read as written.      *)
FramesReadBack == PacketReadBack /\ PulsesReadBack /\ CountsDistinct

(* Every datagram sent to a relay or taken from one is read as written, digests included.  *)
DatagramsReadBack == StunReadBack /\ StunIntegrity /\ RtpReadBack /\ SubscriptionsReadBack

FormatsNext == \/ WriteSymbol \/ AddFrame \/ AddSubframe \/ AddByte
               \/ AddAttribute \/ AddRtpHeader \/ AddSsrc
               \/ AddPiece
               \/ x.kind = "stanzas" /\ Next /\ UNCHANGED x
FormatsSpec == FormatsInit /\ [][FormatsNext]_<<x, ack, call>>
=============================================================================
