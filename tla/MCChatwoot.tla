----------------------------- MODULE MCChatwoot -----------------------------
(***************************************************************************)
(* One contact that writes under its LID and one agent's message with an   *)
(* attachment; WhatsApp may return what was sent as a message of its own.  *)
(***************************************************************************)
EXTENDS Chatwoot, TLC

Msg(n, addr, own, media) ==
  [id |-> <<"wa", n, 0>>, addr |-> addr, own |-> own, media |-> media, text |-> ~media]

MCIncoming == {Msg(1, "lid", FALSE, FALSE)}
MCAgentMsgs == <<<<"image">>>>

Symm == Permutations(Threads) \cup Permutations(Inboxes)
=============================================================================
