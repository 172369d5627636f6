----------------------------- MODULE MCFormats ------------------------------
(* Small tables, frames, messages and answers for Formats *)
EXTENDS Formats, TLC

MCCdf == <<3, 4, 9, 10>>
MCIcdf == <<3, 1, 0>>

\* two contours begin in block 0; one goes down; weights on both sides of the thresholds
MCContours == <<<<[blk |-> 0, len |-> 4]>>, <<[blk |-> 0, len |-> 2], [blk |-> 1, len |-> 2]>>,
                <<[blk |-> 1, len |-> 4]>>, <<[blk |-> 3, len |-> 1], [blk |-> 2, len |-> 3]>>>>
MCGainWeight == (0 :> 0) @@ (1 :> 1) @@ (2 :> 3)

Lsf(s, g) == [stage1 |-> s, grid |-> g, stage2 |-> <<1>>, extra |-> 2]
SomePulses == {Times(0, 12), <<0, -1, 0, 0, 0, 0, 1, 0, 0, 0, 0, 2>>}
PerSubframe(p, v(_), none) == [sf \in Sf |-> IF Subfr(p)[sf] > 0 THEN v(sf) ELSE none]
Two(sf) == 2
Mod3(sf) == sf % 3
Unvoiced == {[lsf |-> Lsf(0, 0), pulses |-> p, pitch |-> <<>>,
              gains |-> [main |-> 1, delta |-> 0, nrg |-> PerSubframe(p, Two, 0)]] : p \in SomePulses}
Voiced == {[lsf |-> Lsf(1, 1), pulses |-> pg[1], gains |-> <<>>,
            pitch |-> [gain |-> pg[2], filt |-> PerSubframe(pg[1], Mod3, -1), contour |-> c,
                       lags |-> [k \in DOMAIN MCContours[c] |-> MCContours[c][k].blk * Blocksize + ((k + c) % 2)]]]
             : pg \in {<<p, IF p[12] = 0 THEN <<0, 0, 0, 0>> ELSE <<1, 2, 2, 0>>>> : p \in SomePulses},
               c \in DOMAIN MCContours}
MCFrames == Unvoiced \cup Voiced
MCPredictors == {[stage1 |-> s, gain |-> g, filt |-> g - 1, blk |-> b, idx |-> b * Blocksize]
                   : s \in 0 .. 1, g \in {0, 2}, b \in {-1, 1}}
MCSubframePulses == {p \in [1 .. PosPer -> {-1, 0, 2}] : Abs(p[1]) + Abs(p[2]) + Abs(p[3]) <= SubfrMax}

\* data of every length modulo four; an attribute whose bytes look like another attribute
MCStunAttrs == {<<attrUsername, <<1>>>>, <<attrSsrcList, <<1, 2>>>>, <<attrSenderSubscriptions, <<3, 4, 5>>>>,
                <<attrConnID, [i \in 1 .. 8 |-> i]>>, <<attrPriority, <<>>>>,
                <<attrUsername, <<0, 9, 0, 4, 0, 0, 4>>>>, <<attrErrorCode, <<0, 0, 4, 1>>>>}
MCRtpHeaders ==
  LET word(n) == [i \in 1 .. 4 |-> 40 * n + i]
  IN  {h \in [padding : BOOLEAN, extension : BOOLEAN, marker : BOOLEAN, type : {0, 120}, seq : {0, 65535},
              ts : {word(1)}, ssrc : {word(2)}, csrc : {<<>>, <<word(3)>>, <<word(3), word(4)>>},
              profile : {0, 48862}, ext : {<<>>, word(5), word(5) \o word(6)}] :
         ~h.extension => h.profile = 0 /\ h.ext = <<>>}
MCSsrcs == {0, 1, 127, 128, 16384, 2000000000}
MCRedBytes == {0, 1, 2, 127, 128, 80}

\* Nodes of an answer
MCJIDs == [user : {"a", "b"}, dev : {-1, 0, 3}]
key(k) == Leaf("key", NoAttrs, <<k>>)
token(id, t) == Leaf("token", IF id = "0" THEN NoAttrs ELSE "id" :> id, <<t>>)
te2(ip, rtt, tok, proto) ==
  Leaf("te2", (IF rtt < 0 THEN NoAttrs ELSE "c2r_rtt" :> rtt) @@ (IF tok = "0" THEN NoAttrs ELSE "token_id" :> tok)
                @@ (IF proto = 0 THEN NoAttrs ELSE "protocol" :> proto), <<10, 0, 0, ip, 13, 150>>)
device(tag, user, dev) == Leaf(tag, "jid" :> [user |-> user, dev |-> dev], <<>>)

\* each with room for two more children
MCBranches == {Node("relay", NoAttrs, <<key(4), token("0", 3)>>), Node("relay", NoAttrs, <<token("0", 3), te2(1, 20, "0", 0)>>),
               Node("user", NoAttrs, <<device("device", "a", 0), key(8)>>)}
MCLeaves == {te2(1, -1, "0", 0), te2(1, 30, "1", 0), te2(2, 20, "0", 0), te2(2, 10, "0", 1),
             key(8), token("1", 5), device("participant", "b", -1), device("participant", "a", 0)}
=============================================================================
