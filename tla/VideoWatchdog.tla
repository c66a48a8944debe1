----------------------------- MODULE VideoWatchdog -----------------------------
(****************************************************************************)
(* The policies by which the owner loop of an Xbox stream answers video that*)
(* does not come: decideVideoWatchdogAction, which picks one recovery from  *)
(* what was observed, and VideoRecoveryRequestPolicy, which paces the       *)
(* requests for a key frame.  Times are abstract: a cool-down is running or *)
(* over, the delay before the next request runs or is over.                 *)
(****************************************************************************)
EXTENDS Naturals

Actions == {"none", "observeRenderer", "recoverRenderer", "recoverDecoder",
            "reconnect", "stop"}

(* What was tried since the video was last well: renderer_recovery_attempts,*)
(* decoder_recovery_attempts, and whether the cool-down of the last attempt *)
(* is over                                                                  *)
Fresh == [renderer |-> 0, decoder |-> 0, cooled |-> TRUE]

(* decideVideoWatchdogAction *)
Decide(o, tries) ==
    LET decoder == ~o.rtpStalled /\ tries.cooled /\ o.decodeStalled
        renderer == /\ ~o.rtpStalled /\ tries.cooled /\ ~o.decodeStalled
                    /\ ~o.suspended /\ o.presentStalled
    IN CASE o.rtpStalled -> "reconnect"
         [] decoder /\ tries.decoder = 0 -> "recoverDecoder"
         [] decoder /\ tries.decoder > 0 -> "reconnect"
         [] renderer /\ tries.renderer > 0 -> "stop"
         [] renderer /\ tries.renderer = 0 ->
              IF o.rendererPending THEN "observeRenderer" ELSE "recoverRenderer"
         [] OTHER -> "none"

(* Seeded fault: the attempt does not start its cool-down *)
CountOnly(tries, action) ==
    CASE action = "recoverDecoder" -> [tries EXCEPT !.decoder = @ + 1]
      [] action \in {"recoverRenderer", "observeRenderer"} ->
           [tries EXCEPT !.renderer = @ + 1]
      [] OTHER -> tries

(* What an action leaves behind *)
Tried(tries, action) ==
    CASE action = "recoverDecoder" ->
           [tries EXCEPT !.decoder = @ + 1, !.cooled = FALSE]
      [] action \in {"recoverRenderer", "observeRenderer"} ->
           [tries EXCEPT !.renderer = @ + 1, !.cooled = FALSE]
      [] OTHER -> tries

(* shouldRequest and recordAttempt: the first request of an episode goes    *)
(* out at once, each other one when its delay is over ("free" again), and   *)
(* without an episode the policy is reset                                   *)
ShouldRequest(pace, active) == active /\ pace = "free"
Paced(pace, active) == IF active THEN "waits" ELSE "free"
=============================================================================
