---------------------------- MODULE FrameDelivery ----------------------------
(****************************************************************************)
(* What the RTP jitter buffer promises to the decoder behind it: pictures   *)
(* come in the order of the stream and at most once, the first one after a  *)
(* start is a key frame, and the reference chain is never broken silently:  *)
(* a picture that follows a hole, or that lost a part of its own, is handed *)
(* on only when a key frame has been asked for since the last one.          *)
(* One exception: an overflow discards pictures without remembering that    *)
(* they are lost, and a key frame older than they are satisfies the         *)
(* request that it made.  Up to the newest of them a hole can be silent.    *)
(****************************************************************************)
EXTENDS Naturals

CONSTANT Frame    \* the frames of the stream, numbered in stream order from 1

VARIABLES
    shown,   \* the last frame handed to the decoder, 0 at a start
    chain,   \* "none" before a key frame, then "whole" or "broken"
    asked,   \* a key frame was asked for since the last one handed on
    forgotten   \* the newest frame discarded by an overflow

dvars == <<shown, chain, asked, forgotten>>

Init == shown = 0 /\ chain = "none" /\ asked = FALSE /\ forgotten = 0

ShowKey(f) ==
    /\ f > shown
    /\ shown' = f
    /\ chain' = "whole"
    /\ asked' = FALSE
    /\ UNCHANGED forgotten

ShowNext(f) ==
    /\ chain # "none"
    /\ f = shown + 1
    /\ shown' = f
    /\ UNCHANGED <<chain, asked, forgotten>>

ShowBroken(f) ==
    /\ chain # "none"
    /\ asked \/ shown < forgotten
    /\ f > shown
    /\ shown' = f
    /\ chain' = "broken"
    /\ UNCHANGED <<asked, forgotten>>

Ask == asked' = TRUE /\ UNCHANGED <<shown, chain, forgotten>>

Forget(f) == f > forgotten /\ forgotten' = f /\ UNCHANGED <<shown, chain, asked>>

Restart == shown' = 0 /\ chain' = "none" /\ asked' = FALSE /\ forgotten' = 0

Next ==
    \/ \E f \in Frame : ShowKey(f) \/ ShowNext(f) \/ ShowBroken(f) \/ Forget(f)
    \/ Ask
    \/ Restart

Spec == Init /\ [][Next]_dvars
=============================================================================
