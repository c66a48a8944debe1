------------------------------ MODULE XboxLatency ------------------------------
(****************************************************************************)
(* How much an Xbox stream is buffered.  The estimator closes a window of   *)
(* the path about every second; the owner loop observes it many times, with *)
(* whether the pipeline waits for a recovery, and XboxLatencyController     *)
(* answers with a latency mode.  A recovery is seen at once; the way back   *)
(* to a lower latency has to be earned by windows that are all different.   *)
(*                                                                          *)
(* A fresh session resets the estimator but not the controller and numbers  *)
(* the windows from 1 again: one of the new windows may have the number the *)
(* controller has seen last, and is then taken for that one.                *)
(****************************************************************************)
EXTENDS NetworkPath

CONSTANTS Loads,      \* what a window may count
          Inflations  \* how far its round-trip time may lie over the least one

LatencyModes == {"realtime", "balanced", "recovery"}
RecoveryCleanWindows == 5
RealtimeCleanWindows == 8
FairWindowsToBalance == 2

VARIABLES mode,       \* a home or a cloud stream
          path,       \* network_path_estimate_
          verdict,    \* quality_, bad_windows_ and good_windows_ of the estimator
          fresh,      \* its sequence is not the one the controller saw last
          renumbered, \* the windows are numbered from 1 again, and none of
                      \* them had the number seen last yet
          latency,    \* XboxLatencyController
          recovering, \* a recovery is pending in the pipeline
          streak      \* history: clean windows closed since the latency mode
                      \* last changed or the controller last saw a reason to
                      \* recover or a new window that was not clean

bufferVars == <<mode, path, verdict, fresh, renumbered, latency, recovering, streak>>

NoPath == [valid |-> FALSE, observed |-> "good"]

BufferInit ==
    /\ mode \in Modes
    /\ path = NoPath /\ verdict = NoVerdict /\ fresh = FALSE /\ renumbered = FALSE
    /\ latency = [mode |-> IF mode = "cloud" THEN "balanced" ELSE "realtime",
                  clean |-> 0, fair |-> 0]
    /\ recovering = FALSE /\ streak = 0
-----------------------------------------------------------------------------
(* XboxLatencyController::observe *)
Poor == path.valid /\ "poor" \in {path.observed, verdict.quality}
Good == path.valid /\ {path.observed, verdict.quality} = {"good"}
Fair == path.valid /\ "fair" \in {path.observed, verdict.quality}

(* A home stream: only the audio is buffered more while there is trouble *)
ObserveHome ==
    CASE recovering \/ (path.valid /\ verdict.quality = "poor") ->
           [latency EXCEPT !.mode = "balanced"]
      [] ~recovering /\ (~path.valid \/ verdict.quality = "good") ->
           [latency EXCEPT !.mode = "realtime"]
      [] OTHER -> latency

(* Seeded fault: a window that is not clean does not break the row *)
KeepRow(needed, better) ==
    CASE Good /\ latency.clean + 1 >= needed -> [latency EXCEPT !.mode = better, !.clean = 0]
      [] Good /\ latency.clean + 1 < needed -> [latency EXCEPT !.clean = @ + 1]
      [] ~Good -> latency

(* One more clean window, or none of a row; enough of them lead to `better` *)
Rise(needed, better) ==
    CASE Good /\ latency.clean + 1 >= needed -> [latency EXCEPT !.mode = better, !.clean = 0]
      [] Good /\ latency.clean + 1 < needed -> [latency EXCEPT !.clean = @ + 1]
      [] ~Good -> [latency EXCEPT !.clean = 0]
Fall ==
    CASE Fair /\ latency.fair + 1 >= FairWindowsToBalance ->
           [latency EXCEPT !.mode = "balanced", !.fair = 0]
      [] Fair /\ latency.fair + 1 < FairWindowsToBalance -> [latency EXCEPT !.fair = @ + 1]
      [] ~Fair -> [latency EXCEPT !.fair = 0]

ReasonToRecover == mode = "cloud" /\ (recovering \/ Poor)

(* Seeded fault: a window is observed as often as the loop comes by *)
ObserveAgain == ~ReasonToRecover

NewWindow == ~ReasonToRecover /\ (~path.valid \/ fresh)

(* Seeded fault: a window that was seen before breaks the row of clean ones *)
BreakRow ==
    CASE ReasonToRecover -> [mode |-> "recovery", clean |-> 0, fair |-> 0]
      [] NewWindow /\ latency.mode = "recovery" -> Rise(RecoveryCleanWindows, "balanced")
      [] NewWindow /\ latency.mode = "balanced" -> Rise(RealtimeCleanWindows, "realtime")
      [] OTHER -> [latency EXCEPT !.clean = 0]

ObserveCloud ==
    CASE ReasonToRecover -> [mode |-> "recovery", clean |-> 0, fair |-> 0]
      [] NewWindow /\ latency.mode = "recovery" -> Rise(RecoveryCleanWindows, "balanced")
      [] NewWindow /\ latency.mode = "balanced" -> Rise(RealtimeCleanWindows, "realtime")
      [] NewWindow /\ latency.mode = "realtime" -> Fall
      [] OTHER -> latency

(* An iteration of the owner loop *)
Observe ==
    /\ latency' = IF mode = "home" THEN ObserveHome ELSE ObserveCloud
    /\ fresh' = (fresh /\ (ReasonToRecover \/ mode = "home"))
    /\ renumbered' = (renumbered /\ ~(fresh /\ ~fresh'))
    /\ streak' = IF latency'.mode # latency.mode \/ ReasonToRecover \/ (NewWindow /\ ~Good)
                 THEN 0 ELSE streak
    /\ UNCHANGED <<mode, path, verdict, recovering>>
-----------------------------------------------------------------------------
(* NetworkPathEstimator::observe: a window is closed, with a new number *)
CloseWindow(load, inflation) ==
    LET observed == Classify(mode, [load |-> load, inflation |-> inflation])
    IN /\ path' = [valid |-> TRUE, observed |-> observed]
       /\ verdict' = UpdateQuality(verdict, observed)
       /\ \/ fresh' = TRUE /\ UNCHANGED renumbered
          \/ renumbered /\ fresh' = FALSE /\ renumbered' = FALSE
       /\ streak' = IF {observed, verdict'.quality} = {"good"} /\ streak < RealtimeCleanWindows
                    THEN streak + 1 ELSE streak
       /\ UNCHANGED <<mode, latency, recovering>>

(* The pipeline or the jitter buffer begins a recovery, or ends it *)
Recovery ==
    /\ recovering' = ~recovering
    /\ UNCHANGED <<mode, path, verdict, fresh, renumbered, latency, streak>>

(* reconnectWithFreshSession: the estimator is reset with the peer          *)
Reconnect ==
    /\ path' = NoPath /\ verdict' = NoVerdict /\ fresh' = FALSE /\ renumbered' = TRUE
    /\ UNCHANGED <<mode, latency, recovering, streak>>

NextWindow == \E load \in Loads, inflation \in Inflations : CloseWindow(load, inflation)
BufferNext == NextWindow \/ Observe \/ Recovery \/ Reconnect

(* The loop goes round, and windows are closed as long as the stream runs *)
BufferSpec ==
    /\ BufferInit /\ [][BufferNext]_bufferVars
    /\ WF_bufferVars(Observe) /\ WF_bufferVars(NextWindow)
-----------------------------------------------------------------------------
BufferTypeOK ==
    /\ mode \in Modes
    /\ path \in [valid : BOOLEAN, observed : Qualities]
    /\ verdict \in [quality : Qualities, bad : 0..BadWindows - 1, good : 0..GoodWindows - 1]
    /\ verdict.bad = 0 \/ verdict.good = 0
    /\ fresh \in BOOLEAN /\ renumbered \in BOOLEAN /\ recovering \in BOOLEAN
    /\ latency \in [mode : LatencyModes, clean : 0..RealtimeCleanWindows - 1,
                    fair : 0..FairWindowsToBalance - 1]
    /\ latency.clean > 0 => latency.mode # "realtime"
    /\ latency.mode = "recovery" => latency.clean < RecoveryCleanWindows
    /\ latency.fair > 0 => latency.mode = "realtime"
    /\ streak \in 0..RealtimeCleanWindows

(* The buffer of a cloud stream shrinks only after a row of as many         *)
(* different clean windows as it takes, however often the loop observes     *)
(* each of them: none that the controller took for a new one in between was *)
(* not clean.  Only the one in which a recovery ended may have been closed  *)
(* before its end.                                                          *)
RisesAreEarned ==
    [][mode = "cloud" =>
         /\ (latency.mode = "recovery" /\ latency'.mode # "recovery")
              => streak >= RecoveryCleanWindows - 1
         /\ (latency.mode = "balanced" /\ latency'.mode = "realtime")
              => streak >= RealtimeCleanWindows ]_bufferVars

(* The buffer shrinks by rows of clean windows that are counted rightly.    *)
BufferSafety == []BufferTypeOK /\ RisesAreEarned

(* From now on no recovery begins, the session stays and the windows are of *)
(* one quality                                                              *)
WindowsAre(quality) ==
    path'.valid /\ path'.observed = quality /\ ~recovering'

(* On a path that stays clean a stream comes back to the lowest latency     *)
CleanPathIsRealtime ==
    <>[][WindowsAre("good")]_bufferVars => <>[](latency.mode = "realtime")

(* On a path that stays fair a cloud stream is buffered again: it does not  *)
(* keep the lowest latency, and does not come back to it                    *)
FairPathIsBuffered ==
    (mode = "cloud" /\ <>[][WindowsAre("fair")]_bufferVars) => <>[](latency.mode # "realtime")

(* In the end the buffer is the one that the path calls for.                *)
BufferLiveness == CleanPathIsRealtime /\ FairPathIsBuffered
=============================================================================
