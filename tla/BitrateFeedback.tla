---------------------------- MODULE BitrateFeedback ----------------------------
(****************************************************************************)
(* The receiver feedback of an Xbox stream.  The owner loop pumps the peer  *)
(* connection, which closes a window of the path every second or later      *)
(* (PeerManager::updateNetworkPathEstimate), and asks the console for a     *)
(* bitrate every second or later (XboxStreamSession::runLoop).  The two     *)
(* seconds do not start together: a window may be overwritten before it is  *)
(* used, and a decoder that starts over is seen before, with or after the   *)
(* window that holds the loss it is about.                                  *)
(*                                                                          *)
(* A fresh session resets the estimator, not the controller, and numbers    *)
(* the windows from 1 again: until the controller has used one of them, the *)
(* number of a new window may be the last one it saw.                       *)
(****************************************************************************)
EXTENDS AdaptiveBitrate

CONSTANTS Loads,         \* what a window may count
          Rtts           \* the round-trip times measured

ASSUME RttsAssumption == Rtts \subseteq Nat

VARIABLES mode,          \* a home or a cloud stream
          history,       \* rtt_history_
          based,         \* have_baseline_
          window,        \* network_path_estimate_, NoWindow once it is used
          renumbered,    \* the windows are numbered from 1 again
          control,       \* bitrate_controller
          probeCuts,     \* history: reductions for the round-trip time alone
                         \* since the last clean or strongly congested window
          lowered,       \* history: the target that the first reduction found,
                         \* 0 once it is back, and the reductions since
          evidence       \* history: windows read that speak for a raise, each
                         \* counted once; unread: the last one was not read

vars == <<mode, history, based, window, renumbered, control, probeCuts,
          lowered, evidence>>

Capped(n, limit) == IF n < limit THEN n ELSE limit

(* A target lowered in several feedbacks counts each of them, until it has  *)
(* come back to where the first one found it                                *)
LoweredAfter(old, before, after) ==
    LET from == IF old.from = 0 /\ after < before THEN before ELSE old.from
    IN IF after >= from THEN [from |-> 0, count |-> 0]
       ELSE [from |-> from,
             count |-> IF after < before THEN Capped(old.count + 1, 2)
                       ELSE old.count]

Init ==
    /\ mode \in Modes
    /\ history = NoRtt /\ based = FALSE
    /\ window = NoWindow /\ renumbered = FALSE
    /\ control = NewController(mode)
    /\ probeCuts = 0
    /\ lowered = [from |-> 0, count |-> 0]
    /\ evidence = [clean |-> 0, inflated |-> 0, unread |-> FALSE]

(* updateNetworkPathEstimate: the first sample of a peer connection is only *)
(* the base of the differences                                              *)
Sample(load, rtt) ==
    /\ UNCHANGED <<mode, control, probeCuts, lowered>>
    /\ based' = TRUE
    /\ history' \in KeepRtt(history, rtt, Rtts)
    /\ \/ ~based /\ UNCHANGED <<window, renumbered, evidence>>
       \/ /\ based /\ window' = Window(load, Inflation(history', rtt))
          /\ evidence' = [evidence EXCEPT !.unread = TRUE]
          /\ UNCHANGED renumbered
       \/ /\ based /\ renumbered /\ window' = NoWindow /\ renumbered' = FALSE
          /\ evidence' = [evidence EXCEPT !.unread = FALSE]

(* last_sequence_: a window that was observed says nothing any more; seeded *)
(* fault: it is observed again until the next one is closed                 *)
NotUsed(w) == w
Used(w) == NoWindow

(* runLoop, the receiver feedback, with what it reads of the media: whether *)
(* a picture was corrupt since the last one or a wait for a key frame has   *)
(* begun, and whether the decoded picture is larger than the one asked for  *)
Feedback(hard, oversized) ==
    LET cut == control'.target < control.target
        raised == control'.target > control.target
        clean == Stable(mode, window)
        over == Strong(mode, window) \/ clean
    IN /\ UNCHANGED <<mode, history, based>>
       /\ window' = Used(window)
       /\ renumbered' = (renumbered /\ ~window.fresh)
       /\ control' = Observe(mode, control, window, hard, oversized)
       /\ probeCuts' = IF window.fresh /\ over THEN 0
                       ELSE IF cut /\ ~hard /\ ~oversized THEN probeCuts + 1
                       ELSE probeCuts
       /\ lowered' = LoweredAfter(lowered, control.target, control'.target)
       /\ evidence' =
            [clean |-> IF \/ cut \/ raised \/ hard
                          \/ evidence.unread /\ Congested(mode, window) THEN 0
                       ELSE IF ~evidence.unread \/ (clean /\ control.cooldown > 0)
                       THEN evidence.clean
                       ELSE IF clean THEN Capped(evidence.clean + 1, 5)
                       ELSE Max({0, evidence.clean - 1}),
             inflated |-> IF raised \/ ~control.latched THEN 0
                          ELSE IF ~evidence.unread \/ ~RttOnly(mode, window)
                          THEN evidence.inflated
                          ELSE IF Improved(control, window) THEN 0
                          ELSE Capped(evidence.inflated + 1, 1),
             unread |-> FALSE]

(* reconnectWithFreshSession: createOffer resets the estimator *)
Reconnect ==
    /\ history' = NoRtt /\ based' = FALSE /\ window' = NoWindow
    /\ renumbered' = TRUE
    /\ evidence' = [evidence EXCEPT !.unread = FALSE]
    /\ UNCHANGED <<mode, control, probeCuts, lowered>>

NextSample == \E load \in Loads, rtt \in Rtts : Sample(load, rtt)
NextFeedback == \E hard, oversized \in BOOLEAN : Feedback(hard, oversized)

Next == NextSample \/ NextFeedback \/ Reconnect

(* The owner loop pumps and gives feedback for as long as the stream runs *)
Spec == /\ Init /\ [][Next]_vars
        /\ WF_vars(NextSample) /\ WF_vars(window.fresh /\ NextFeedback)
-----------------------------------------------------------------------------
TypeOK ==
    /\ mode \in Modes /\ based \in BOOLEAN /\ renumbered \in BOOLEAN
    /\ history.least \in {0} \cup Rtts /\ history.age \in 0..BaselineWindow - 1
    /\ window.fresh => based
    /\ control.target \in Least..Configured
    /\ control.congested \in 0..RttOnlyWindows /\ control.stable \in 0..5
    /\ control.cuts \in 0..2 /\ control.probe \in 0..ProbeWindows - 1
    /\ control.cooldown \in 0..HardRecoveryCooldown(mode)

(* An episode of congestion is open exactly while the target has not come   *)
(* back to where the first reduction found it, and remembers that target    *)
(* and whether there was a second reduction: one that is closed too early,  *)
(* or forgets a reduction, would take a second for a first and raise the    *)
(* bitrate after two clean windows.                                         *)
EpisodeMatchesTarget ==
    /\ control.cuts > 0 <=> lowered.from > 0
    /\ control.cuts > 0 => control.target < lowered.from
                           /\ control.ceiling = lowered.from
    /\ control.cuts >= lowered.count

(* A longer route is not congestion: between two windows that are clean or  *)
(* strongly congested, a larger round-trip time alone lowers the bitrate at *)
(* most once.                                                               *)
ProbedOnce == probeCuts <= 1

(* What an episode of congestion remembers of how it came about.            *)
EpisodeSafety == TypeOK /\ EpisodeMatchesTarget /\ ProbedOnce

(* A decoder that starts over costs one step, whatever the window in force  *)
(* has counted: the loss it is about is not answered twice in one feedback. *)
OneStepPerRecovery ==
    [][ control'.target < Min({control.target, control'.cap}) - Step
        => \A oversized \in BOOLEAN : ~Feedback(TRUE, oversized) ]_vars

(* A cloud stream that once decoded a picture larger than the one asked for *)
(* is held to the ordinary tier until the session ends, fresh sessions      *)
(* included.                                                                *)
GuardHolds == [][ control.cap < Configured
                  => control'.target <= Max({control.target, control.cap})
                     /\ control'.cap = control.cap ]_vars

(* The bitrate is raised only on evidence of its own.  Either as many       *)
(* different clean windows were read as the state asks for (this one        *)
(* included) since the target last moved, the decoder started over and a    *)
(* congested window was read, those of a cool-down not counted and one      *)
(* taken back for each window that is neither; or, while a reduction for    *)
(* the round-trip time alone is on trial, as many different inflated        *)
(* windows as the trial lasts.  However often the loop looks at a window,   *)
(* it counts once.                                                          *)
RaisesAreEarned ==
    [][ control'.target > control.target =>
          /\ evidence.unread
          /\ \/ evidence.clean + 1 >= StableNeeded(mode, control)
             \/ control.latched /\ evidence.inflated + 1 >= ProbeWindows ]_vars

(* Every reduction is answered for once, and a guard once put up stays.     *)
ReductionSafety == OneStepPerRecovery /\ GuardHolds

(* Windows are clean and of round-trip time r, the session and the decoder  *)
(* are not started over                                                     *)
CleanAt(r) ==
    /\ based'
    /\ window'.fresh => /\ Stable(mode, [window' EXCEPT !.inflation = 0])
                       /\ window'.inflation + history'.least = r
    /\ IF window.fresh /\ ~window'.fresh
       THEN control' = Observe(mode, control, window, FALSE, FALSE)
       ELSE UNCHANGED control

(* A path whose round-trip time has settled, even at the longest value      *)
(* there is, gets its bitrate back: the least of the last windows forgets   *)
(* the shorter route, and what was lowered for it is raised again.          *)
SettledPathRecovers ==
    <>[][CleanAt(Max(Rtts))]_vars => <>[](control.target = control.cap)
=============================================================================
