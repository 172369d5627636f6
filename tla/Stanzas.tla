------------------------------ MODULE Stanzas -------------------------------
(***************************************************************************)
(* What the two ends of a call read from its stanzas.  A state is one      *)
(* input: either the answer to an offer (ParseRelayFromAck), grown node by *)
(* node, from which relays are connected and SSRCs derived, or the         *)
(* arguments of a call's stanzas, from which the peer takes the key.       *)
(***************************************************************************)
EXTENDS Signaling

CONSTANTS JIDs,      \* devices, with or without a device number
          Keys,      \* call keys
          Branches,  \* children of an answer
          Leaves,    \* what those may hold more
          MaxBranches, MaxLeaves \* bounds: children of the answer, and of each of them

Kids == Leaves \cup UNION {{n.kids[j] : j \in DOMAIN n.kids} : n \in Branches}
\* a child of an answer: one of Branches, with more children
Grown == [tag : {n.tag : n \in Branches}, attrs : {n.attrs : n \in Branches},
          kids : Seq(Kids), bytes : {n.bytes : n \in Branches}]

ASSUME StanzaAssumption ==
  /\ JIDs \subseteq [user : STRING, dev : Nat \cup {-1}]
  /\ Branches \subseteq Grown
  /\ \A n \in Kids : /\ HasAttr(n.attrs, "jid") => n.attrs["jid"] \in JIDs
                     /\ HasAttr(n.attrs, "c2r_rtt") => n.attrs["c2r_rtt"] \in Nat \cup {NotANumber}

VARIABLES ack,  \* the answer
          call  \* the arguments of a call's stanzas, or NoCall

NoCall == [key |-> -1]
Calls == [device : JIDs, creator : JIDs, key : Keys, fresh : SUBSET JIDs, video : BOOLEAN, token : {<<>>, <<1>>}]

Init == ack = Node("ack", NoAttrs, <<>>) /\ call \in Calls \cup {NoCall}

AddBranch(n) ==
  /\ call = NoCall /\ Len(ack.kids) < MaxBranches
  /\ ack' = [ack EXCEPT !.kids = Append(@, n)] /\ UNCHANGED call
AddLeaf(n) ==
  LET last == Len(ack.kids)
  IN  /\ call = NoCall /\ last > 0 /\ Len(ack.kids[last].kids) < MaxLeaves
      /\ ack' = [ack EXCEPT !.kids[last].kids = Append(@, n)] /\ UNCHANGED call

Next == (\E n \in Branches : AddBranch(n)) \/ \E n \in Leaves : AddLeaf(n)
Spec == Init /\ [][Next]_<<ack, call>>

-----------------------------------------------------------------------------
\* Properties

\* The answer is a node of two levels, whatever it grew by.
TypeOK ==
  /\ ack \in [tag : {"ack"}, attrs : {NoAttrs}, bytes : {<<>>}, kids : Seq(Grown)]
  /\ call \in Calls \cup {NoCall}

\* The relays of an answer that can be connected, and which of two is preferred
usable(ep) == ep.protocol = 0 /\ ep.key # <<>> /\ ep.rawToken # <<>>
offered == UNION {{relayEndpoint(n.kids, n.kids[j]) :
                     j \in {j \in DOMAIN n.kids : n.kids[j].tag = "te2" /\ Len(n.kids[j].bytes) = 6}} :
                   n \in {ack.kids[i] : i \in {i \in DOMAIN ack.kids : ack.kids[i].tag = "relay"}}}
noSlower(a, b) == b.rtt >= 0 => a.rtt \in 0 .. b.rtt

\* the same relays listed by attribute, the last first
listed(relays) ==
  LET attrs(ep) == IF ep.rtt < 0 THEN [ip |-> ep.ip, token |-> <<1>>, key |-> <<1>>]
                   ELSE [ip |-> ep.ip, token |-> <<1>>, key |-> <<1>>, c2r_rtt |-> ep.rtt]
      relay(ep) == Leaf("relay", attrs(ep), <<>>)
  IN  Node("relays", NoAttrs, [i \in 1 .. Len(relays) |-> relay(relays[Len(relays) + 1 - i])])
transport(relays) == Node("transport", NoAttrs, <<listed(relays)>>)

\* RelaysRanked: of an answer with any number of relay nodes, every address with a usable
\* endpoint is served exactly once, by its endpoint of the lowest round-trip time (one without
\* a time only if none has one), with the key and token of its own relay node, and the best
\* address first; the same relays listed by attribute come out in the same order
\* (ParseRelayFromAck, ExtractRelayEndpoints, sortRelaysByRtt, buildRelayConfigs).
RelaysRanked ==
  LET relays == ParseRelayFromAck(ack).relays
      configs == buildRelayConfigs(relays)
      byAttribute == ExtractRelayEndpoints(transport(relays))
  IN  /\ \A ep \in offered : usable(ep) => \E i \in DOMAIN configs : configs[i].ip = ep.ip
      /\ \A i, j \in DOMAIN configs : i < j => configs[i].ip # configs[j].ip
      /\ \A i \in DOMAIN configs :
           /\ configs[i] \in offered /\ usable(configs[i])
           /\ \A ep \in offered : usable(ep) /\ ep.ip = configs[i].ip => noSlower(configs[i], ep)
           /\ \A j \in DOMAIN configs : i < j => noSlower(configs[i], configs[j])
      /\ Len(byAttribute) = Len(relays)
      /\ \A i \in DOMAIN relays : byAttribute[i].rtt = relays[i].rtt

\* TransportServed: relays that would be connected if the answer named them are connected when
\* a transport message names them, which an accepted call waits for (HandleCallTransport,
\* buildRelayConfigs).
TransportServed ==
  LET relays == ParseRelayFromAck(ack).relays
  IN  buildRelayConfigs(relays) # <<>> =>
        buildRelayConfigs(ExtractRelayEndpoints(transport(relays))) # <<>>

\* what an answer names: each device and participant
named == UNION {{n.kids[j].attrs["jid"] :
                   j \in {j \in DOMAIN n.kids : /\ HasAttr(n.kids[j].attrs, "jid")
                                                /\ <<n.tag, n.kids[j].tag>> \in {<<"user", "device">>,
                                                                                 <<"relay", "participant">>}}} :
                 n \in {ack.kids[i] : i \in DOMAIN ack.kids}}

\* Both sides of a call derive the streams of the same two devices: what one calls its own the
\* other calls its peer's.  Each knows itself by a JID that may leave a first device's number
\* out; the order in which the devices were named plays no part.
MirroredDevices ==
  LET seen == ParseRelayFromAck(ack).participants
      ours(a, own) == ensureDeviceJid(findOurDevice(seen, CleanJID(a), own))
      peers(a) == ensureDeviceJid(firstPeerDevice(seen, CleanJID(a)))
  IN  /\ {seen[i] : i \in DOMAIN seen} = named
      /\ \A i, j \in DOMAIN seen : i # j => seen[i] # seen[j]
      /\ \A a, b, own \in JIDs :
           named = {a, b} /\ a.user # b.user /\ ensureDeviceJid(own) = ensureDeviceJid(a)
             => ours(a, own) = peers(b)

\* The call key a stanza carries is found by the side it is for: by the device of an offer, by
\* the caller in an accept, at whatever depth and beside whatever else, and in no other stanza.
KeyReadable ==
  call # NoCall =>
    LET d == call.device
        c == call.creator
        key(dev) == <<call.key, dev>>
        offer == ExtractNodeInfo(BuildOfferStanza("id", c, CleanJID(d), <<d>>, call.key, call.fresh,
                                                  call.token, call.video))
        accept == ExtractNodeInfo(BuildAcceptStanza("id", c, d, call.key, call.fresh, call.video))
    IN  /\ offer.tag = "offer" /\ offer.callID = "id" /\ findEncNode(offer.inner).bytes = key(d.dev)
        /\ accept.tag = "accept" /\ accept.callID = "id" /\ findEncNode(accept.inner).bytes = key(c.dev)
        /\ \A stanza \in {BuildPreacceptStanza("id", c, d), BuildTerminateStanza("id", c, d),
                          BuildRejectStanza("id", c, d), BuildMuteV2Stanza("id", c, d)} :
             LET info == ExtractNodeInfo(stanza) IN info.callID = "id" /\ findEncNode(info.inner) = NoNode
=============================================================================
