------------------------------ MODULE CallState ------------------------------
(***************************************************************************)
(* The call state machine of internal/voip/call/callstate.go: the states   *)
(* of a CallInfo and the transitions ApplyTransition accepts.  A           *)
(* transition that is not valid in the current state returns an error and  *)
(* changes nothing; every caller either discards that error or looks at it *)
(* only to decide whether to go on, so Apply is total.                     *)
(***************************************************************************)

CallStates == {"initiating", "ringing", "incoming_ringing", "connecting",
               "active", "on_hold", "ended"}

TransitionTypes == {"offer_sent", "offer_received", "local_accepted",
                    "remote_accepted", "local_rejected", "remote_rejected",
                    "media_connected", "terminated", "hold", "resume",
                    "audio_mute_changed", "video_state_changed"}

(* The states in which ApplyTransition accepts a transition of type t. *)
ValidFrom(t) ==
    CASE t \in {"offer_sent", "offer_received"}         -> {"initiating"}
      [] t \in {"remote_accepted", "remote_rejected"}   -> {"ringing"}
      [] t \in {"local_accepted", "local_rejected"}     -> {"incoming_ringing"}
      [] t = "media_connected"                          -> {"connecting"}
      [] t = "terminated"                               -> CallStates \ {"ended"}
      [] t \in {"hold", "audio_mute_changed", "video_state_changed"} -> {"active"}
      [] t = "resume"                                   -> {"on_hold"}
      [] OTHER                                          -> {}

(* The state an accepted transition leads to. *)
Target(t) ==
    CASE t = "offer_sent"                                  -> "ringing"
      [] t = "offer_received"                              -> "incoming_ringing"
      [] t \in {"remote_accepted", "local_accepted"}       -> "connecting"
      [] t \in {"remote_rejected", "local_rejected", "terminated"} -> "ended"
      [] t = "hold"                                        -> "on_hold"
      [] OTHER                                             -> "active"

Apply(s, t) == IF s \in ValidFrom(t) THEN Target(t) ELSE s
=============================================================================
