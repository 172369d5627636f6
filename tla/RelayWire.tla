----------------------------- MODULE RelayWire ------------------------------
(***************************************************************************)
(* The datagrams exchanged with a WhatsApp relay                           *)
(* (internal/voip/transport/stun.go, subscriptions.go, media/rtp.go): STUN *)
(* messages with padded attributes, message integrity and fingerprint, the *)
(* protobuf subscription lists they carry, the parser of the relay's       *)
(* answers, and RTP packets.  Bytes are numbers; the digests are a hash    *)
(* that depends on every byte it covers.                                   *)
(***************************************************************************)
EXTENDS Integers, Sequences, SequencesExt, Bitwise

Cookie == <<33, 18, 164, 66>>
stunBindingRequest == 1
stunAllocateRequest == 3
whatsappPing == 2049
attrUsername == 6
attrMessageIntegrity == 8
attrErrorCode == 9
attrXorRelayedAddress == 22
attrPriority == 36
attrSenderSubscriptions == 16384
attrSsrcList == 16420
attrConnID == 16435
attrFingerprint == 32808
attrIceControlling == 32810

PutUint16(n) == <<n \div 256, n % 256>>
Uint16At(b, offset) == b[offset + 1] * 256 + b[offset + 2]
Cat(parts) == FlattenSeq(parts)
Zeros(n) == [i \in 1 .. n |-> 0]

\* stands for HMAC-SHA1 (n = 20) and for CRC-32 (n = 4), taken word by word
Digest(key, bytes, n) ==
  LET mix(h, i) == (h * 31 + bytes[i] + 3 * bytes[i + 1] + 5 * bytes[i + 2] + 11 * bytes[i + 3] + 7) % 65521
      h == FoldLeft(mix, key, [k \in 1 .. Len(bytes) \div 4 |-> 4 * k - 3])
  IN  [i \in 1 .. n |-> (h + i * (h \div 256)) % 256]

-----------------------------------------------------------------------------
\* Building

\* the length is that of the data; zeros pad it to a multiple of four
encodeAttribute(type, data) ==
  PutUint16(type) \o PutUint16(Len(data)) \o data \o Zeros((4 - (Len(data) % 4)) % 4)

StunHeader(type, length, txid) == PutUint16(type) \o PutUint16(length) \o Cookie \o txid

digestHeaderShort(type, attrs, txid, tail) == StunHeader(type, Len(attrs), txid)

\* a digest covers a header whose length already counts the attribute that will hold it
digestHeader(type, attrs, txid, tail) == StunHeader(type, Len(attrs) + tail, txid)

\* key 0 is the nil key
buildStunMessage(type, attrs, txid, key, fingerprint) ==
  LET mac == Digest(key, digestHeader(type, attrs, txid, 24) \o attrs, 20)
      a1 == IF key = 0 THEN attrs ELSE attrs \o encodeAttribute(attrMessageIntegrity, mac)
      crc == Digest(0, digestHeader(type, a1, txid, 8) \o a1, 4)
      a2 == IF fingerprint THEN a1 \o encodeAttribute(attrFingerprint, crc) ELSE a1
  IN  StunHeader(type, Len(a2), txid) \o a2

\* IPv4: family 1, port and address masked with the cookie
encodeXorRelayedAddress(ip, port) ==
  <<0, 1>> \o [i \in 1 .. 2 |-> PutUint16(port)[i] ^^ Cookie[i]] \o [i \in 1 .. 4 |-> ip[i] ^^ Cookie[i]]

\* the attributes of the two requests the client sends, as <<type, data>> pairs
allocateAttrs(subs, ssrcList, ip, port) ==
  <<<<attrSenderSubscriptions, subs>>, <<attrSsrcList, ssrcList>>>>
    \o (IF ip = <<>> \/ port = 0 THEN <<>>
        ELSE <<<<attrXorRelayedAddress, encodeXorRelayedAddress(ip, port)>>>>)

bindingAttrs(username, subs, controlling) ==
  (IF username = <<>> THEN <<>> ELSE <<<<attrUsername, username>>>>)
    \o <<<<attrPriority, <<0, 255, 255, 255>>>>>>
    \o (IF controlling THEN <<<<attrIceControlling, [i \in 1 .. 8 |-> 200 + i]>>>> ELSE <<>>)
    \o (IF subs = <<>> THEN <<>> ELSE <<<<attrSenderSubscriptions, subs>>>>)

EncodeAttrs(pairs) == Cat([i \in DOMAIN pairs |-> encodeAttribute(pairs[i][1], pairs[i][2])])

BuildAllocateForRelay(subs, ssrcList, key, ip, port, txid) ==
  buildStunMessage(stunAllocateRequest, EncodeAttrs(allocateAttrs(subs, ssrcList, ip, port)), txid, key, FALSE)

BuildBindingRequestWithSubs(username, key, subs, controlling, fingerprint, txid) ==
  buildStunMessage(stunBindingRequest, EncodeAttrs(bindingAttrs(username, subs, controlling)), txid, key, fingerprint)

BuildWhatsAppPing(txid) == StunHeader(whatsappPing, 0, txid)

-----------------------------------------------------------------------------
\* Reading

IsStunPacket(b) == Len(b) >= 2 /\ b[1] \div 64 = 0
IsRtpPacket(b) == Len(b) >= 2 /\ b[1] \div 64 = 2

StunClass(rawType) ==
  <<"request", "indication", "success", "error">>[2 * ((rawType \div 256) % 2) + ((rawType \div 16) % 2) + 1]

StunMethod(rawType) ==
  LET bits == ((rawType \div 512) % 32) * 128 + ((rawType \div 32) % 8) * 16 + (rawType % 16)
      names == <<"binding", "unknown", "allocate", "refresh", "unknown", "send", "data",
                 "create-permission", "channel-bind">>
  IN  CASE rawType = whatsappPing -> "wa-ping"
        [] rawType = whatsappPing + 1 -> "wa-pong"
        [] OTHER -> IF bits \in DOMAIN names THEN names[bits] ELSE "unknown"

\* attributes while a whole attribute fits in both the stated length and the data
RECURSIVE readAttributes(_, _, _)
readAttributes(b, limit, offset) ==
  IF offset + 4 > limit \/ offset + 4 > Len(b) THEN <<>>
  ELSE LET length == Uint16At(b, offset + 2)
           end == offset + 4 + length
       IN  IF end > Len(b) THEN <<>>
           ELSE <<<<Uint16At(b, offset), SubSeq(b, offset + 5, end)>>>>
                  \o readAttributes(b, limit, end + ((4 - (length % 4)) % 4))

NoStunInfo == [rawType |-> -1]

ParseStunResponse(b) ==
  IF Len(b) < 20 THEN NoStunInfo
  ELSE LET rawType == Uint16At(b, 0)
           info == [rawType |-> rawType, method |-> StunMethod(rawType), class |-> "indication",
                    txid |-> SubSeq(b, 9, 20), attrs |-> <<>>, errorCode |-> 0, connID |-> <<>>]
           attrs == readAttributes(b, 20 + Uint16At(b, 2), 20)
           code(acc, a) == IF a[1] = attrErrorCode /\ Len(a[2]) >= 4
                           THEN (a[2][3] % 8) * 100 + a[2][4] ELSE acc
           conn(acc, a) == IF a[1] = attrConnID /\ Len(a[2]) = 8 /\ StunClass(rawType) = "success"
                           THEN a[2] ELSE acc
       IN  IF SubSeq(b, 5, 8) # Cookie
           THEN IF rawType \in {whatsappPing, whatsappPing + 1} THEN info ELSE NoStunInfo
           ELSE [info EXCEPT !.class = StunClass(rawType), !.attrs = attrs,
                             !.errorCode = FoldLeft(code, 0, attrs), !.connID = FoldLeft(conn, <<>>, attrs)]

-----------------------------------------------------------------------------
\* RTP packets.  A header: the flags, type (7 bits), seq, and the words ts, ssrc, csrc as
\* groups of four bytes; ext holds whole words behind its profile

BoolBit(b) == IF b THEN 1 ELSE 0

rtpHeaderSize(h) == 12 + 4 * Len(h.csrc) + (IF h.extension THEN 4 + Len(h.ext) ELSE 0)

encodeRtpPacket(h, payload) ==
  <<128 + 32 * BoolBit(h.padding) + 16 * BoolBit(h.extension) + Len(h.csrc), 128 * BoolBit(h.marker) + h.type>>
    \o PutUint16(h.seq) \o h.ts \o h.ssrc \o Cat(h.csrc)
    \o (IF h.extension THEN PutUint16(h.profile) \o PutUint16(Len(h.ext) \div 4) \o h.ext ELSE <<>>)
    \o payload

\* of a packet that holds what its header announces
DecodeRtpHeader(b) ==
  LET ncsrc == b[1] % 16
      extension == (b[1] \div 16) % 2 = 1
      at == 12 + 4 * ncsrc
  IN  [padding |-> (b[1] \div 32) % 2 = 1, extension |-> extension, marker |-> b[2] \div 128 = 1,
       type |-> b[2] % 128, seq |-> Uint16At(b, 2), ts |-> SubSeq(b, 5, 8), ssrc |-> SubSeq(b, 9, 12),
       csrc |-> [i \in 1 .. ncsrc |-> SubSeq(b, 9 + 4 * i, 12 + 4 * i)],
       profile |-> IF extension THEN Uint16At(b, at) ELSE 0,
       ext |-> IF extension THEN SubSeq(b, at + 5, at + 4 + 4 * Uint16At(b, at + 2)) ELSE <<>>]

DecodeRtpPacket(b) ==
  LET h == DecodeRtpHeader(b) IN [header |-> h, payload |-> SubSeq(b, rtpHeaderSize(h) + 1, Len(b))]

-----------------------------------------------------------------------------
\* Protobuf subscription lists

RECURSIVE encodeVarint(_)
encodeVarint(v) == IF v > 127 THEN <<128 + (v % 128)>> \o encodeVarint(v \div 128) ELSE <<v>>

encodeProtobufVarintField(field, v) == encodeVarint(field * 8) \o encodeVarint(v)
encodeProtobufLengthDelimited(field, data) == encodeVarint(field * 8 + 2) \o encodeVarint(Len(data)) \o data

BuildSenderSubscriptions(ssrc) ==
  encodeProtobufLengthDelimited(1, encodeProtobufVarintField(3, ssrc) \o encodeProtobufVarintField(5, 0)
                                     \o encodeProtobufVarintField(6, 0))

\* one SSRC of a participant; an SSRC of 0 has no entry
ssrcEntry(ssrc, pid) ==
  LET inner == encodeProtobufVarintField(1, pid) \o encodeProtobufVarintField(2, 1)
                 \o encodeProtobufVarintField(3, ssrc)
  IN  IF ssrc = 0 THEN <<>> ELSE encodeProtobufLengthDelimited(1, inner)

BuildSSRCSubscriptionList(selfSsrcs, peerSsrcs, selfPid, peerPid) ==
  Cat([i \in DOMAIN selfSsrcs |-> ssrcEntry(selfSsrcs[i], selfPid)]
        \o [i \in DOMAIN peerSsrcs |-> ssrcEntry(peerSsrcs[i], peerPid)])

-----------------------------------------------------------------------------
\* Reference readers: what the relay does with the messages

\* STUN integrity: the digest of everything before the attribute, the header's length
\* running up to the attribute's end
DigestAt(b, offset, key, n) ==
  Digest(key, SubSeq(b, 1, 2) \o PutUint16(offset + 4 + n - 20) \o SubSeq(b, 5, offset), n)

\* a protobuf reader of one level: <<field, value>> pairs
RECURSIVE readVarint(_)
readVarint(b) ==
  IF Head(b) < 128 THEN [v |-> Head(b), rest |-> Tail(b)]
  ELSE LET x == readVarint(Tail(b)) IN [x EXCEPT !.v = Head(b) - 128 + 128 * @]

RECURSIVE readProto(_)
readProto(b) ==
  IF b = <<>> THEN <<>>
  ELSE LET tag == readVarint(b)
           x == readVarint(tag.rest)
       IN  IF tag.v % 8 = 0 THEN <<[field |-> tag.v \div 8, v |-> x.v]>> \o readProto(x.rest)
           ELSE <<[field |-> tag.v \div 8, sub |-> readProto(SubSeq(x.rest, 1, x.v))]>>
                  \o readProto(SubSeq(x.rest, x.v + 1, Len(x.rest)))
=============================================================================
