------------------------------ MODULE VideoHealth ------------------------------
(****************************************************************************)
(* Keeping the video of an Xbox stream alive: the owner loop                *)
(* (XboxStreamSession::runLoop) polls the health of the media pipeline,     *)
(* asks the console for key frames, recovers the decoder or the renderer,   *)
(* sets up a fresh session, or gives the stream up.  Meanwhile packets,     *)
(* decoded frames and pictures come or stop coming, the pipeline starts     *)
(* recoveries of its own, the source changes, the user interface covers the *)
(* picture, and the connection breaks.                                      *)
(*                                                                          *)
(* Ages are kept as the threshold they have passed.  The loop polls every   *)
(* 50 ms and the shortest threshold is a second, so nothing passes a        *)
(* threshold before the loop has polled once more (`polled`).               *)
(****************************************************************************)
EXTENDS VideoWatchdog

VARIABLES phase,      \* "starting": control_started is not set yet; "running";
                      \* "down": not connected; "stopped"
          prepared,   \* reconnect_prepared
          age,        \* since video_watchdog_started: "new", "decode" or "rtp"
                      \* once it has passed that timeout
          rtp,        \* "none" yet, "flowing", "stalled" for the timeout
          decoding,   \* last_decoded_video_ns_: "none", "current", "aging"
                      \* (for a second), "late" (for two)
          picture,    \* the last presented one: "none", "shown", "faulty" after
                      \* a fault, "late" for a second or after two faults
          suspended,  \* video_presentation_suspended_
          pending,    \* video_renderer_recovery_pending_
          waiting,    \* video_waiting_for_keyframe_
          asked,      \* video_recovery_request_
          rendered,   \* video_frames of the statistics is not 0
          pace,       \* the delay of key-frame requests: the policy's, and
                      \* before the first picture that of the start-up retry
          tries,      \* the attempts of the watchdog and their cool-down
          resuming,   \* presentation_was_suspended, presentation_resume_grace
          changed,    \* a source discontinuity the loop has not seen
          polled,     \* the loop has polled since the last event
          trial       \* history: the last attempt on the decoder (since the
                      \* video was last well, for this source) and on the
                      \* renderer, "given", and "ripe" once its time is over;
                      \* "waived": a cover took the decoder's time back

media == <<decoding, picture, pending, waiting, asked>>
watchdog == <<age, pace, tries, resuming, changed, trial>>
link == <<phase, prepared, rtp>>
vars == <<link, media, watchdog, suspended, rendered, polled>>

Init ==
    /\ phase = "starting" /\ prepared = FALSE /\ age = "new" /\ rtp = "none"
    /\ decoding = "none" /\ picture = "none"
    /\ suspended = FALSE /\ pending = FALSE /\ waiting = FALSE /\ asked = FALSE
    /\ rendered = FALSE /\ pace = "free" /\ tries = Fresh
    /\ resuming = [was |-> FALSE, grace |-> FALSE]
    /\ changed = FALSE /\ polled = TRUE
    /\ trial = [decoder |-> "none", renderer |-> "none"]
-----------------------------------------------------------------------------
(* beginHardVideoRecovery: the pipeline waits for a key frame; an attempt   *)
(* on the renderer ends with the pictures it was for                        *)
HardRecovery(force) ==
    /\ asked' = TRUE /\ waiting' = TRUE
    /\ pending' = (pending /\ waiting /\ ~force)

(* prepareForNewVideoSource *)
NewSource ==
    /\ decoding' = "none" /\ picture' = "none"
    /\ asked' = TRUE /\ waiting' = TRUE /\ pending' = FALSE

(* Seeded fault: a request that was sent ends the wait *)
ClearAlways(sent) == asked' = (asked /\ ~sent)

(* clearVideoRecoveryRequest, after a request that could be sent *)
ClearRequest(sent) == asked' = (asked /\ (waiting \/ ~sent))
-----------------------------------------------------------------------------
(* What the loop makes of the ages *)
SinceStart == IF changed THEN "new" ELSE age
RtpStalled == rtp = "stalled" \/ (rtp = "none" /\ SinceStart = "rtp")
DecodeStalled ==
    rtp = "flowing" /\ (decoding = "late" \/ (decoding = "none" /\ SinceStart # "new"))
PresentStalled ==
    /\ decoding # "none"
    /\ picture = "late" \/ (picture = "none" /\ decoding \in {"aging", "late"})

Well == ~DecodeStalled /\ ~PresentStalled /\ picture = "shown"
-----------------------------------------------------------------------------
(* Packets, frames and pictures *)
Flowing == phase = "running" /\ rtp = "flowing"

RtpFlows ==
    /\ phase = "running" /\ rtp # "flowing"
    /\ rtp' = "flowing" /\ polled' = FALSE
    /\ UNCHANGED <<phase, prepared, media, watchdog, suspended, rendered>>
RtpStalls ==
    /\ Flowing /\ polled
    /\ rtp' = "stalled" /\ polled' = FALSE
    /\ UNCHANGED <<phase, prepared, media, watchdog, suspended, rendered>>

(* A frame is decoded and given to the renderer.  A key frame answers the   *)
(* request and ends the wait, in which nothing else is decoded.             *)
Decode(key) ==
    /\ Flowing /\ (decoding # "current" \/ asked) /\ (waiting => key)
    /\ decoding' = "current" /\ waiting' = FALSE
    /\ asked' = (asked /\ ~key)
    /\ rendered' = TRUE
    /\ pace' = IF rendered THEN pace ELSE "free"
    /\ polled' = FALSE
    /\ UNCHANGED <<link, picture, pending, age, tries, resuming, changed, trial, suspended>>

(* No frame for a second, and for another one *)
DecodeAges ==
    /\ phase = "running" /\ polled
    /\ \/ decoding = "current" /\ decoding' = "aging"
       \/ decoding = "aging" /\ decoding' = "late"
    /\ polled' = FALSE
    /\ UNCHANGED <<link, picture, pending, waiting, asked, watchdog, suspended, rendered>>

(* presentVideoFrame: a picture is presented, an old one too when no new    *)
(* one has come, and ends an attempt on the renderer unless that is being   *)
(* made just then                                                           *)
Show ==
    /\ phase # "stopped" /\ ~suspended
    /\ picture # "shown" /\ picture' = "shown"
    /\ pending' \in {FALSE, pending}
    /\ polled' = FALSE
    /\ UNCHANGED <<link, decoding, waiting, asked, watchdog, suspended, rendered>>

(* The last presented picture is a second old: if it was shown without a    *)
(* fault and frames were decoded, the video has been well in between.       *)
PictureAges ==
    /\ phase # "stopped" /\ polled /\ picture \in {"shown", "faulty"}
    /\ picture' = "late" /\ polled' = FALSE
    /\ trial' = IF phase = "running" /\ picture = "shown" /\ ~DecodeStalled
                THEN [trial EXCEPT !.renderer = "none"] ELSE trial
    /\ UNCHANGED <<link, decoding, pending, waiting, asked, age, pace, tries,
                   resuming, changed, suspended, rendered>>

(* A render fault: of a fence, which asks for a recovery of the renderer,   *)
(* or another one, which restarts the decoder                               *)
RenderFault(fence) ==
    /\ phase # "stopped" /\ ~suspended
    /\ picture' = IF picture = "shown" THEN "faulty" ELSE "late"
    /\ polled' = FALSE
    /\ \/ fence /\ pending' = TRUE /\ UNCHANGED <<waiting, asked>>
       \/ ~fence /\ HardRecovery(TRUE)
    /\ UNCHANGED <<link, decoding, watchdog, suspended, rendered>>
    /\ media' # media

(* videoWorkerLoop: the fences of the renderer could be retired *)
RetireFences ==
    /\ phase # "stopped" /\ pending /\ pending' = FALSE
    /\ polled' = FALSE
    /\ UNCHANGED <<link, decoding, picture, waiting, asked, watchdog, suspended, rendered>>

(* Recoveries the pipeline and the jitter buffer start, of the queue or the *)
(* decoder, or for a key frame only                                         *)
PipelineRecovers ==
    /\ phase = "running"
    /\ \/ \E force \in BOOLEAN : HardRecovery(force)
       \/ asked' = TRUE /\ UNCHANGED <<pending, waiting>>
    /\ polled' = FALSE
    /\ UNCHANGED <<link, decoding, picture, watchdog, suspended, rendered>>
    /\ media' # media

SourceChanges ==
    /\ Flowing
    /\ NewSource /\ changed' = TRUE /\ polled' = FALSE
    /\ UNCHANGED <<link, age, pace, tries, resuming, trial, suspended, rendered>>

(* setVideoPresentationSuspended, by the activities over the stream *)
Cover ==
    /\ suspended' = ~suspended /\ polled' = FALSE
    /\ UNCHANGED <<link, media, watchdog, rendered>>
-----------------------------------------------------------------------------
(* Timers of the loop *)
Ripe(t) == IF t = "given" THEN "ripe" ELSE t
Cool ==
    /\ ~tries.cooled /\ tries' = [tries EXCEPT !.cooled = TRUE] /\ polled' = FALSE
    /\ trial' = [decoder |-> Ripe(trial.decoder), renderer |-> Ripe(trial.renderer)]
    /\ UNCHANGED <<link, media, age, pace, resuming, changed, suspended, rendered>>
GraceEnds ==
    /\ resuming.grace /\ resuming' = [resuming EXCEPT !.grace = FALSE]
    /\ polled' = FALSE
    /\ UNCHANGED <<link, media, age, pace, tries, changed, trial, suspended, rendered>>
DelayEnds ==
    /\ pace = "waits" /\ pace' = "free" /\ polled' = FALSE
    /\ UNCHANGED <<link, media, age, tries, resuming, changed, trial, suspended, rendered>>
AgePasses ==
    /\ phase = "running" /\ age # "rtp"
    /\ age' = IF age = "new" THEN "decode" ELSE "rtp"
    /\ polled' = FALSE
    /\ UNCHANGED <<link, media, pace, tries, resuming, changed, trial, suspended, rendered>>
-----------------------------------------------------------------------------
(* What the loop makes of the suspension and of a new source before it      *)
(* looks at the video: either one takes an attempt on the renderer back     *)
Uncovered == suspended \/ resuming.was

(* Seeded fault: coming back to the picture takes every attempt back *)
ForgetAll == IF changed \/ Uncovered THEN Fresh ELSE tries

Restarted ==
    CASE changed -> Fresh
      [] ~changed /\ Uncovered -> [tries EXCEPT !.renderer = 0, !.cooled = TRUE]
      [] OTHER -> tries
Resumed == [was |-> suspended,
            grace |-> resuming.grace \/ (resuming.was /\ ~suspended)]

Observed ==
    [rtpStalled |-> RtpStalled, decodeStalled |-> DecodeStalled,
     presentStalled |-> PresentStalled,
     suspended |-> suspended \/ Resumed.grace, rendererPending |-> pending]

(* Asking for a key frame: `other` is damage the jitter buffer has counted, *)
(* or its own wait for a key frame                                          *)
Asks(other) ==
    IF rendered THEN ShouldRequest(pace, asked \/ other) ELSE pace = "free"
Request(other) ==
    pace' = IF rendered THEN Paced(pace, asked \/ other)
            ELSE IF Asks(other) THEN "waits" ELSE pace

Waived(t) == IF t = "given" THEN "waived" ELSE t

(* The watchdog's action on the media and on the session *)
Apply(action, sent) ==
    \/ /\ action = "reconnect"
       /\ phase' = "down" /\ prepared' = TRUE /\ rtp' = "none" /\ NewSource
    \/ /\ action = "recoverDecoder" /\ HardRecovery(FALSE)
       /\ UNCHANGED <<link, decoding, picture>>
    \/ /\ action = "recoverRenderer" /\ pending' = TRUE /\ ClearRequest(sent)
       /\ UNCHANGED <<link, decoding, picture, waiting>>
    \/ /\ action = "stop" /\ phase' = "stopped" /\ ClearRequest(sent)
       /\ UNCHANGED <<prepared, rtp, decoding, picture, pending, waiting>>
    \/ /\ action \in {"none", "observeRenderer"} /\ ClearRequest(sent)
       /\ UNCHANGED <<link, decoding, picture, pending, waiting>>

(* What an iteration that takes an action leaves in the loop.  A cover takes*)
(* the attempt on the renderer back, and of the one on the decoder the time *)
(* it still had, not the attempt.                                           *)
Look(action) ==
    LET back == changed \/ Uncovered
        well == phase = "running" /\ Well
    IN /\ tries' = IF well THEN Fresh
                   ELSE Tried(Restarted, action)
       /\ resuming' = Resumed
       /\ age' = SinceStart /\ changed' = FALSE
       /\ polled' = TRUE
       /\ trial' = [decoder |-> IF action = "recoverDecoder" THEN "given"
                                ELSE IF changed \/ well THEN "none"
                                ELSE IF Uncovered THEN Waived(trial.decoder)
                                ELSE trial.decoder,
                    renderer |-> CASE action \in {"recoverRenderer", "observeRenderer"} -> "given"
                                   [] action \in Actions \ {"recoverRenderer", "observeRenderer"}
                                      /\ back -> "none"
                                   [] OTHER -> trial.renderer]
       /\ UNCHANGED <<suspended, rendered>>

(* An iteration of the loop on a running stream, and on one that is not.    *)
(* Each one here polls the health of the media: those between two polls ask *)
(* for key frames and look at the age of the packets in the same way, and   *)
(* leave the rest as it is.                                                 *)
Iterate(other, sent) ==
    LET action == Decide(Observed, Restarted)
    IN /\ phase = "running"
       /\ Apply(action, sent /\ Asks(other))
       /\ Request(other)
       /\ Look(action)
Idle ==
    /\ phase \in {"starting", "down"}
    /\ Look("none")
    /\ UNCHANGED <<link, media, pace>>
-----------------------------------------------------------------------------
(* The session: the control protocol has started and the media are enabled, *)
(* the connection is lost, a fresh session is connected, or none of five is *)
StartControl ==
    /\ phase = "starting" /\ phase' = "running"
    /\ age' = "new" /\ pace' = IF rendered THEN "free" ELSE "waits"
    /\ polled' = FALSE
    /\ UNCHANGED <<prepared, rtp, media, tries, resuming, changed, trial, suspended, rendered>>
LinkLost ==
    /\ phase \in {"starting", "running"} /\ phase' = "down" /\ rtp' = "none"
    /\ UNCHANGED <<prepared, media, watchdog, suspended, rendered, polled>>
Reconnected ==
    /\ phase = "down" /\ phase' = "starting" /\ prepared' = FALSE
    /\ IF prepared THEN UNCHANGED media ELSE NewSource
    /\ age' = "new" /\ tries' = Fresh /\ changed' = FALSE
    /\ trial' = [decoder |-> "none", renderer |-> "none"]
    /\ UNCHANGED <<rtp, pace, resuming, suspended, rendered, polled>>
GiveUp ==
    /\ phase = "down" /\ phase' = "stopped"
    /\ UNCHANGED <<prepared, rtp, media, watchdog, suspended, rendered, polled>>

Loop == Idle \/ \E other, sent \in BOOLEAN : Iterate(other, sent)
Media == \/ RtpFlows \/ RtpStalls \/ DecodeAges \/ Show \/ PictureAges
         \/ \E key \in BOOLEAN : Decode(key)
         \/ \E fence \in BOOLEAN : RenderFault(fence)
         \/ RetireFences \/ PipelineRecovers \/ SourceChanges
Timers == Cool \/ GraceEnds \/ DelayEnds \/ AgePasses
Session == StartControl \/ LinkLost \/ Reconnected \/ GiveUp

Next == Loop \/ Media \/ Cover \/ Timers \/ Session

(* The loop polls after every event, and its clock goes on *)
Polls == ~polled /\ \E other, sent \in BOOLEAN : Iterate(other, sent)
Spec == /\ Init /\ [][Next]_vars
        /\ WF_vars(Polls) /\ WF_vars(Cool) /\ WF_vars(GraceEnds)
        /\ WF_vars(DelayEnds) /\ WF_vars(AgePasses)
-----------------------------------------------------------------------------
TypeOK ==
    /\ phase \in {"starting", "running", "down", "stopped"} /\ prepared \in BOOLEAN
    /\ age \in {"new", "decode", "rtp"} /\ rtp \in {"none", "flowing", "stalled"}
    /\ decoding \in {"none", "current", "aging", "late"}
    /\ picture \in {"none", "shown", "faulty", "late"}
    /\ suspended \in BOOLEAN /\ pending \in BOOLEAN /\ waiting \in BOOLEAN
    /\ asked \in BOOLEAN /\ rendered \in BOOLEAN
    /\ pace \in {"free", "waits"}
    /\ tries \in [renderer : 0..1, decoder : 0..1, cooled : BOOLEAN]
    /\ resuming \in [was : BOOLEAN, grace : BOOLEAN]
    /\ changed \in BOOLEAN /\ polled \in BOOLEAN
    /\ trial \in [decoder : {"none", "given", "ripe", "waived"},
                   renderer : {"none", "given", "ripe"}]

(* The stream is ended for a picture that does not come only after an       *)
(* attempt on the renderer that had its time, made since the renderer was   *)
(* last well, since the picture was last covered and for the same source.   *)
StopEarned ==
    [][phase = "running" /\ phase' = "stopped" => trial.renderer = "ripe"]_vars

(* A fresh session for video that is not decoded follows an attempt on the  *)
(* decoder, made for the same source since the video was last well, that    *)
(* had its time to decode a key frame, or whose time a cover of the picture *)
(* took back.                                                               *)
DecoderGetsItsTime ==
    [][phase = "running" /\ prepared' /\ ~RtpStalled
       => \/ trial.decoder \in {"ripe", "waived"}
          \/ trial.decoder = "given" /\ Uncovered]_vars

(* A stronger means follows a weaker one that had its time; only a cover of *)
(* the picture cuts an attempt short, and only one on the decoder.          *)
RecoverySafety == []TypeOK /\ StopEarned /\ DecoderGetsItsTime

(* A stream whose packets or frames have stopped for good does not stay as  *)
(* it is: the frames come again, a fresh session is set up or it ends.      *)
NoDeadStream ==
    LET dead == phase = "running" /\ (decoding = "late" \/ (decoding = "none" /\ age # "new"))
    IN dead ~> ~dead

(* Nor does one whose pictures have stopped while it is not covered.        *)
NoFrozenPicture ==
    LET frozen == phase = "running" /\ picture = "late" /\ ~suspended
    IN frozen ~> ~frozen

(* A stream that has stopped, at any stage, is acted on until it moves.     *)
PictureLiveness == NoDeadStream /\ NoFrozenPicture

(* While the pipeline waits for a key frame, it is asked for again and      *)
(* again, however many of the requests were sent and lost.                  *)
KeyFrameKeepsBeingAsked ==
    <>[](phase = "running" /\ waiting) => []<><<pace' = "waits" /\ pace # "waits">>_vars
=============================================================================
