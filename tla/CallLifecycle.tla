---------------------------- MODULE CallLifecycle ----------------------------
(***************************************************************************)
(* What the call engine promises its callers about one call, whatever the  *)
(* interleaving of requests, events, acks and relay callbacks: the call    *)
(* goes through its states in order, ends at most once and for good, and   *)
(* the silence generator that keeps the media path open is started only by *)
(* the step that makes the call active.                                    *)
(***************************************************************************)
VARIABLES state, silence

Init == state = "none" /\ silence = FALSE

Begin ==
    /\ state = "none"
    /\ state' \in {"initiating", "incoming_ringing"}
    /\ UNCHANGED silence

Ring ==
    /\ state = "initiating"
    /\ state' = "ringing"
    /\ UNCHANGED silence

Answer ==
    /\ state \in {"ringing", "incoming_ringing"}
    /\ state' = "connecting"
    /\ UNCHANGED silence

Connect ==
    /\ state = "connecting"
    /\ state' = "active"
    /\ silence' \in {silence, TRUE}

Hush ==
    /\ state \notin {"none"}
    /\ silence' = FALSE
    /\ UNCHANGED state

End ==
    /\ state \notin {"none", "ended"}
    /\ state' = "ended"
    /\ UNCHANGED silence

Next == Begin \/ Ring \/ Answer \/ Connect \/ Hush \/ End

Spec == Init /\ [][Next]_<<state, silence>>
=============================================================================
