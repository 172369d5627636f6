----------------------------- MODULE Signaling ------------------------------
(***************************************************************************)
(* Call stanzas (internal/voip/signaling, wanode, call/helpers.go): how    *)
(* they are built and read.  A node is a tag, its attributes, its children *)
(* and its bytes.  An absent and an empty attribute read alike, so the     *)
(* model has only absent ones; numbers are numbers, one that does not      *)
(* parse is NotANumber.  A JID is a user and a device, device -1 when it   *)
(* names none.                                                             *)
(***************************************************************************)
EXTENDS Integers, Sequences, FiniteSets

NotANumber == -1
NoAttrs == [k \in {} |-> ""]
Node(tag, attrs, kids) == [tag |-> tag, attrs |-> attrs, kids |-> kids, bytes |-> <<>>]
Leaf(tag, attrs, bytes) == [tag |-> tag, attrs |-> attrs, kids |-> <<>>, bytes |-> bytes]
NoNode == Node("none", NoAttrs, <<>>)

HasAttr(attrs, k) == k \in DOMAIN attrs
AttrString(attrs, k) == IF HasAttr(attrs, k) THEN attrs[k] ELSE ""
AttrInt(attrs, k, fallback) ==
  IF HasAttr(attrs, k) /\ attrs[k] # NotANumber THEN attrs[k] ELSE fallback

\* JIDs
NoJID == [user |-> "", dev |-> -1]
CleanJID(jid) == [jid EXCEPT !.dev = -1]
ensureDeviceJid(jid) == IF jid.dev >= 0 THEN jid ELSE [jid EXCEPT !.dev = 0]

\* the first, and the last, element of s that P holds of
First(s, P(_), none) ==
  IF \E i \in DOMAIN s : P(s[i])
  THEN s[CHOOSE i \in DOMAIN s : P(s[i]) /\ \A j \in 1 .. i - 1 : ~P(s[j])] ELSE none
Final(s, P(_), none) ==
  IF \E i \in DOMAIN s : P(s[i])
  THEN s[CHOOSE i \in DOMAIN s : P(s[i]) /\ \A j \in i + 1 .. Len(s) : ~P(s[j])] ELSE none

\* The members of a finite set, listed in the order of a relation.  A loop that keeps some of
\* its elements is the list of their places: numbers, or <<i, j>> for child j of child i and
\* <<i, 0>> for child i itself.
InOrder(S, R) ==
  [k \in 1 .. Cardinality(S) |-> CHOOSE i \in S : Cardinality({j \in S : <<j, i>> \in R}) = k - 1]
Rising(S) == {p \in S \X S : p[1] < p[2]}
Nested(S) == {p \in S \X S : p[1][1] < p[2][1] \/ (p[1][1] = p[2][1] /\ p[1][2] < p[2][2])}

Places(node) == UNION {{i} \X (0 .. Len(node.kids[i].kids)) : i \in DOMAIN node.kids}
At(node, p) == IF p[2] = 0 THEN node.kids[p[1]] ELSE node.kids[p[1]].kids[p[2]]

findOurDevice(participants, ours, fallback) ==
  LET P(jid) == CleanJID(jid) = ours /\ jid.dev >= 0 IN First(participants, P, fallback)

firstPeerDeviceRaw(participants, ours) ==
  LET P(jid) == jid # ours IN First(participants, P, NoJID)
firstPeerDevice(participants, ours) ==
  LET P(jid) == CleanJID(jid) # ours IN First(participants, P, NoJID)

-----------------------------------------------------------------------------
\* Building

CallAttrs(callID, creator) == [callid |-> callID, creator |-> creator]
callWrap(to, inner) == Node("call", [to |-> to], <<inner>>)
AudioNode == Leaf("audio", NoAttrs, <<>>)
NetNode == Leaf("net", NoAttrs, <<>>)
EncoptNode == Leaf("encopt", NoAttrs, <<>>)
CapabilityNode(last) == Leaf("capability", NoAttrs, <<1, 5, 247, 9, 228, 187, last>>)
VideoNode == Leaf("video", NoAttrs, <<>>)
DeviceIdentity == Leaf("device-identity", NoAttrs, <<>>)
When(c, s) == IF c THEN s ELSE <<>>

\* CreateParticipantNodes (external): the key encrypted for every device, a prekey message
\* for those without a session
ParticipantNodes(devices, key, fresh) ==
  [i \in DOMAIN devices |->
     Node("to", [jid |-> devices[i]],
          <<Leaf("enc", [type |-> IF devices[i] \in fresh THEN "pkmsg" ELSE "msg"], <<key, devices[i].dev>>)>>)]

BuildOfferStanza(callID, creator, peer, devices, key, fresh, token, isVideo) ==
  callWrap(peer, Node("offer", CallAttrs(callID, creator),
    When(token # <<>>, <<Leaf("privacy", NoAttrs, token)>>) \o <<AudioNode, AudioNode>>
      \o When(isVideo, <<VideoNode>>)
      \o <<NetNode, CapabilityNode(19), Node("destination", NoAttrs, ParticipantNodes(devices, key, fresh)), EncoptNode>>
      \o When(\E i \in DOMAIN devices : devices[i] \in fresh, <<DeviceIdentity>>)))

\* extractEncFromParticipant: the enc node itself or the first one a level down
extractEncFromParticipant(nodes) ==
  LET isEnc(n) == n.tag = "enc"
      holds(n) == isEnc(n) \/ \E i \in DOMAIN n.kids : isEnc(n.kids[i])
      n == First(nodes, holds, NoNode)
  IN  IF isEnc(n) THEN n ELSE First(n.kids, isEnc, NoNode)

BuildAcceptStanza(callID, creator, peer, key, fresh, isVideo) ==
  LET enc == extractEncFromParticipant(ParticipantNodes(<<creator>>, key, fresh))
  IN  callWrap(CleanJID(peer), Node("accept", CallAttrs(callID, creator),
        <<AudioNode, NetNode, enc, EncoptNode>> \o When(creator \in fresh, <<DeviceIdentity>>)
          \o When(isVideo, <<VideoNode>>)))

BuildPreacceptStanza(callID, creator, peer) ==
  callWrap(peer, Node("preaccept", CallAttrs(callID, creator), <<AudioNode, EncoptNode, CapabilityNode(7)>>))

BuildTerminateStanza(callID, creator, peer) == callWrap(peer, Node("terminate", CallAttrs(callID, creator), <<>>))
BuildRejectStanza(callID, creator, peer) == callWrap(peer, Node("reject", CallAttrs(callID, creator), <<>>))
BuildMuteV2Stanza(callID, creator, peer) == callWrap(peer, Node("mute_v2", CallAttrs(callID, creator), <<>>))

-----------------------------------------------------------------------------
\* Reading

ExtractNodeInfo(node) ==
  IF node.kids = <<>> THEN [tag |-> "none", callID |-> "", inner |-> NoNode]
  ELSE [tag |-> node.kids[1].tag, callID |-> AttrString(node.kids[1].attrs, "callid"), inner |-> node.kids[1]]

typedEnc(n) == n.tag = "enc" /\ HasAttr(n.attrs, "type")

findEncNodeDirect(inner) == First(inner.kids, typedEnc, NoNode)
\* an enc child, otherwise the first in a <to> of a <destination>
findEncNode(inner) ==
  LET to(n) == n.tag = "to" /\ \E k \in DOMAIN n.kids : typedEnc(n.kids[k])
      destination(n) == n.tag = "destination" /\ \E j \in DOMAIN n.kids : to(n.kids[j])
      found == First(First(inner.kids, destination, NoNode).kids, to, NoNode)
  IN  First(inner.kids, typedEnc, First(found.kids, typedEnc, NoNode))

\* sortRelaysByRtt: stable; a relay without a round-trip time (-1) comes after those with one
rttLessNaive(a, b) == a.rtt < b.rtt
rttLess(a, b) == a.rtt >= 0 /\ (b.rtt < 0 \/ a.rtt < b.rtt)
Earlier(relays) ==
  LET D == DOMAIN relays
  IN  {p \in D \X D : \/ rttLess(relays[p[1]], relays[p[2]])
                      \/ ~rttLess(relays[p[2]], relays[p[1]]) /\ p[1] < p[2]}
sortRelaysByRtt(relays) ==
  LET order == InOrder(DOMAIN relays, Earlier(relays)) IN [k \in DOMAIN order |-> relays[order[k]]]

\* the bytes of the last token node with this id; <<>> when there is none.  An id is a
\* name, "0" when it is left out
attrStringOr(attrs, k, fallback) == IF HasAttr(attrs, k) THEN attrs[k] ELSE fallback
tokenOf(content, tag, id) ==
  LET named(n) == n.tag = tag /\ n.bytes # <<>> /\ attrStringOr(n.attrs, "id", "0") = id
  IN  Final(content, named, NoNode).bytes

\* one te2 of a relay node; only IPv4 addresses, of six bytes, make an endpoint
relayEndpoint(content, rc) ==
  LET tokenID == attrStringOr(rc.attrs, "token_id", "0")
      authID == AttrString(rc.attrs, "auth_token_id")
      isKey(n) == n.tag = "key" /\ n.bytes # <<>>
  IN  [ip |-> SubSeq(rc.bytes, 1, 4), port |-> rc.bytes[5] * 256 + rc.bytes[6],
       rawToken |-> tokenOf(content, "token", tokenID),
       auth |-> IF authID = "" THEN <<>> ELSE tokenOf(content, "auth_token", authID),
       authID |-> IF authID = "" THEN tokenID ELSE authID,
       key |-> Final(content, isKey, NoNode).bytes,
       protocol |-> AttrInt(rc.attrs, "protocol", 0),
       relayID |-> AttrInt(rc.attrs, "relay_id", 0), name |-> AttrString(rc.attrs, "relay_name"),
       rtt |-> IF HasAttr(rc.attrs, "c2r_rtt") THEN AttrInt(rc.attrs, "c2r_rtt", 0) ELSE -1]

\* every usable te2 of every relay node, with the key and the tokens of that node
endpointsOf(ack) ==
  LET te2s == {p \in Places(ack) : p[2] > 0 /\ ack.kids[p[1]].tag = "relay" /\ At(ack, p).tag = "te2"
                                  /\ Len(At(ack, p).bytes) = 6}
      places == InOrder(te2s, Nested(te2s))
  IN  [k \in DOMAIN places |-> relayEndpoint(ack.kids[places[k][1]].kids, At(ack, places[k]))]

\* every device of every user node and participant of every relay node, once, as they come
participantsOf(ack) ==
  LET names(p, tag, child) == ack.kids[p[1]].tag = tag /\ p[2] > 0 /\ At(ack, p).tag = child
      jids == {p \in Places(ack) : (names(p, "user", "device") \/ names(p, "relay", "participant"))
                                  /\ HasAttr(At(ack, p).attrs, "jid")}
      jid(p) == At(ack, p).attrs["jid"]
      new == {p \in jids : \A q \in jids : <<q, p>> \in Nested(jids) => jid(q) # jid(p)}
      places == InOrder(new, Nested(new))
  IN  [k \in DOMAIN places |-> jid(places[k])]

\* hbh_key is read and kept but nothing uses it, so it is left out
ParseRelayFromAck(ack) ==
  LET pid(k) == LET P(n) == n.tag = "relay" /\ HasAttr(n.attrs, k)
                    relay == Final(ack.kids, P, NoNode)
                IN  IF relay = NoNode THEN -1 ELSE AttrInt(relay.attrs, k, 0)
  IN  [relays |-> sortRelaysByRtt(endpointsOf(ack)), participants |-> participantsOf(ack),
       selfPid |-> pid("self_pid"), peerPid |-> pid("peer_pid")]

\* the relays a transport or offer node lists by attribute; they come without a raw token
ExtractRelayEndpoints(node) ==
  LET parse(n) == [ip |-> n.attrs.ip, token |-> n.attrs.token, rawToken |-> <<>>, protocol |-> 0,
                   key |-> attrStringOr(n.attrs, "relay_key", attrStringOr(n.attrs, "key", <<>>)),
                   port |-> AttrInt(n.attrs, "port", 3480), relayID |-> AttrInt(n.attrs, "relay_id", 0),
                   rtt |-> IF HasAttr(n.attrs, "c2r_rtt") THEN AttrInt(n.attrs, "c2r_rtt", 0) ELSE -1]
      usable(p) == /\ p[2] = 0 \/ node.kids[p[1]].tag = "relays"
                   /\ At(node, p).tag = "relay"
                   /\ HasAttr(At(node, p).attrs, "ip") /\ HasAttr(At(node, p).attrs, "token")
      listed == {p \in Places(node) : usable(p)}
      places == InOrder(listed, Nested(listed))
  IN  sortRelaysByRtt([k \in DOMAIN places |-> parse(At(node, places[k]))])

\* buildRelayConfigs: the first usable endpoint of each address
buildRelayConfigs(endpoints) ==
  LET usable == {i \in DOMAIN endpoints : endpoints[i].protocol = 0 /\ endpoints[i].key # <<>>
                                            /\ endpoints[i].rawToken # <<>>}
      kept == {i \in usable : \A j \in usable : j < i => endpoints[j].ip # endpoints[i].ip}
      places == InOrder(kept, Rising(kept))
  IN  [k \in DOMAIN places |-> endpoints[places[k]]]
=============================================================================
