---------------------------- MODULE StreamLaunch ----------------------------
(***************************************************************************)
(* From the menu to a stream and back: ui/main_activity.cpp (starting a    *)
(* stream), ui/stream_loading_activity.cpp with ui/connection_cancel_state,*)
(* and ui/stream_view.cpp, over the controller of StreamController.        *)
(*                                                                         *)
(* The UI thread handles one input or one closure posted with brls::sync   *)
(* at a time; a closure finds its activity alive or returns.  The user may *)
(* cancel, exit, open a child page or switch the console away and back at  *)
(* any time.  An activity is destroyed only when it is popped.             *)
(***************************************************************************)
EXTENDS StreamController

CONSTANTS MaxLaunches,  \* bound: streams the user starts
          MaxSwitches   \* bound: times the application loses the focus
ASSUME LaunchAssumption == MaxLaunches \in Nat /\ MaxSwitches \in Nat

VARIABLES
  screen,     \* the activity on top: "menu", "loading", "view"
  launch,     \* number of the launch that is on the screen
  posted,     \* closures the UI thread has yet to run
  load,       \* the loading page: ConnectionCancelState, finished, failure_pending
  view,       \* the stream view's flags
  focused,    \* whether the application has the focus
  switches,   \* focus losses so far
  teardowns   \* clean-ups of this launch's connection begun; not in the code
uiVars == <<screen, launch, posted, load, view, focused, switches, teardowns>>
vars == <<ctrlVars, uiVars>>

FreshLoad == [cancel |-> FALSE, started |-> FALSE, done |-> FALSE, claimed |-> FALSE,
              finished |-> FALSE, failure |-> FALSE]
FreshView == [running |-> TRUE, stopStarted |-> FALSE, deferred |-> FALSE, child |-> FALSE,
              backgrounded |-> FALSE, recovering |-> FALSE]

Init == /\ ControlInit
        /\ screen = "menu" /\ launch = 0 /\ posted = <<>>
        /\ load = FreshLoad /\ view = FreshView
        /\ focused = TRUE /\ switches = 0 /\ teardowns = 0

Closure(what) == [what |-> what, launch |-> launch]
Post(what) == posted' = Append(posted, Closure(what))

(* The UI thread is free but for an inline stopStream.                     *)
UiFree == pc["ui"] = "idle"
Loading == UiFree /\ screen = "loading"
Viewing == UiFree /\ screen = "view"

(* Seeded faults: plausible mistakes in operators below; no action uses    *)
(* them.                                                                   *)
ClaimsTwice(l) == l.cancel /\ l.done
ClaimKept(l) == [l EXCEPT !.claimed = TRUE]
DeferredForgotten == FALSE

(* tryClaimCleanup and releaseCleanupClaim on a page in state l.           *)
TryClaims(l) == l.cancel /\ l.done /\ ~l.claimed
ReleasesClaim(l) == [l EXCEPT !.claimed = FALSE]

(* What onResume finds in deferred_stop_.                                  *)
StopIsDeferred == view.deferred

(* The stop worker could not be made: stopStream on the UI thread.         *)
StopsInline == Goes("ui", "stop")

-----------------------------------------------------------------------------
(* The menu: while a stream is connecting or streaming it starts no other. *)
(* The worker of the last page has returned (bound: it has nothing left to *)
(* do but to find the clean-up claimed).                                   *)
MenuRefuses == state \in {"Connecting", "Streaming"}

StartConsoleStream ==
  /\ UiFree /\ screen = "menu" /\ launch < MaxLaunches /\ ~MenuRefuses
  /\ pc["connect"] = "idle"
  /\ screen' = "loading" /\ launch' = launch + 1
  /\ posted' = Append(posted, [what |-> "start", launch |-> launch'])
  /\ load' = FreshLoad /\ teardowns' = 0
  /\ UNCHANGED <<ctrlVars, view, focused, switches>>

-----------------------------------------------------------------------------
(* The UI thread runs the oldest closure; one that finds its activity gone *)
(* returns.                                                                *)
Runnable(whats) == UiFree /\ posted # <<>> /\ Head(posted).what \in whats
                          /\ posted' = Tail(posted)
Alive(page) == screen = page /\ Head(posted).launch = launch

Dropped ==
  /\ Runnable({"start", "ok", "failed", "cancelled", "exit", "stopped",
               "resumed", "notResumed"})
  /\ ~Alive(IF Head(posted).what \in {"start", "ok", "failed", "cancelled"}
            THEN "loading" ELSE "view")
  /\ UNCHANGED <<ctrlVars, screen, launch, load, view, focused, switches, teardowns>>

-----------------------------------------------------------------------------
(* The loading page.                                                       *)

(* startConnection, queued when the page was shown.                        *)
StartConnection ==
  /\ Runnable({"start"}) /\ Alive("loading") /\ ~load.cancel /\ ~load.finished
  /\ \/ /\ Goes("connect", "begin") /\ UNCHANGED faults
        /\ load' = [load EXCEPT !.started = TRUE]
     \/ /\ Fault /\ UNCHANGED pc
        /\ load' = [load EXCEPT !.done = TRUE, !.failure = TRUE]
  /\ UNCHANGED <<controlVars, report, ticket, terminal, screen, launch, view,
                 focused, switches, teardowns>>

(* The connection worker: markWorkerDone, and then, with a cancel, the     *)
(* clean-up if nobody else claimed it, else the result.                    *)
ConnectReturns ==
  /\ pc["connect"] \in {"ok", "failed"}
  /\ Goes("connect", IF pc["connect"] = "ok" THEN "doneOk" ELSE "doneFailed")
  /\ load' = [load EXCEPT !.done = TRUE]
  /\ UNCHANGED <<controlVars, report, ticket, terminal, faults, screen, launch,
                 posted, view, focused, switches, teardowns>>

(* runCancelCleanup on thread t.                                           *)
CleansUp(t) == Goes(t, "stop") /\ report' = FALSE /\ teardowns' = teardowns + 1

ConnectHandsOver ==
  /\ pc["connect"] \in {"doneOk", "doneFailed"}
  /\ \/ /\ ~load.cancel /\ Goes("connect", "idle")
        /\ Post(IF pc["connect"] = "doneOk" THEN "ok" ELSE "failed")
        /\ UNCHANGED <<report, load, teardowns>>
     \/ /\ load.cancel /\ TryClaims(load) /\ CleansUp("connect")
        /\ load' = [load EXCEPT !.claimed = TRUE] /\ UNCHANGED posted
     \/ /\ load.cancel /\ ~TryClaims(load) /\ Goes("connect", "idle")
        /\ UNCHANGED <<report, load, posted, teardowns>>
  /\ UNCHANGED <<controlVars, ticket, terminal, faults, screen, launch, view,
                 focused, switches>>

(* scheduleCancelCleanup, on a page whose state is now l.                  *)
ScheduleCancelCleanup(l) ==
  \/ ~TryClaims(l) /\ load' = l /\ UNCHANGED <<pc, report, faults, teardowns>>
  \/ /\ TryClaims(l) /\ CleansUp("stop")
     /\ load' = [l EXCEPT !.claimed = TRUE] /\ UNCHANGED faults
  \/ TryClaims(l) /\ Fault /\ load' = ReleasesClaim(l) /\ UNCHANGED <<pc, report, teardowns>>

(* finish and popActivity.                                                 *)
LeavesPage(l) == screen' = "menu" /\ load' = [l EXCEPT !.finished = TRUE]

(* requestCancel: B on a failure, before the worker, after it, and again.  *)
AcknowledgeFailure ==
  /\ Loading /\ load.failure /\ LeavesPage([load EXCEPT !.failure = FALSE])
  /\ UNCHANGED <<ctrlVars, launch, posted, view, focused, switches, teardowns>>
CancelBeforeStart ==
  /\ Loading /\ ~load.failure /\ ~load.finished /\ ~load.cancel /\ ~load.started
  /\ RequestStreamStop /\ LeavesPage([load EXCEPT !.cancel = TRUE])
  /\ UNCHANGED <<pc, op, state, session, report, ticket, terminal, faults, launch,
                 posted, view, focused, switches, teardowns>>
RequestCancel ==
  /\ Loading /\ ~load.failure /\ ~load.finished /\ ~load.cancel /\ load.started
  /\ RequestStreamStop /\ ScheduleCancelCleanup([load EXCEPT !.cancel = TRUE])
  /\ UNCHANGED <<op, state, session, ticket, terminal, screen, launch, posted,
                 view, focused, switches>>
RepeatCancel ==
  /\ Loading /\ ~load.failure /\ ~load.finished /\ load.cancel
  /\ ScheduleCancelCleanup(load)
  /\ UNCHANGED <<controlVars, ticket, terminal, screen, launch, posted, view,
                 focused, switches>>

(* The worker's result, posted to the UI thread: handleConnectionResult.   *)
ConnectionResult ==
  /\ Runnable({"ok", "failed"}) /\ Alive("loading") /\ ~load.finished
  /\ \/ load.cancel /\ ScheduleCancelCleanup(load) /\ UNCHANGED <<screen, view>>
     \/ /\ ~load.cancel /\ Head(posted).what = "failed"
        /\ load' = [load EXCEPT !.failure = TRUE]
        /\ UNCHANGED <<pc, report, faults, teardowns, screen, view>>
     \/ /\ ~load.cancel /\ Head(posted).what = "ok"
        /\ load' = [load EXCEPT !.finished = TRUE]
        /\ screen' = "view" /\ view' = FreshView
        /\ UNCHANGED <<pc, report, faults, teardowns>>
  /\ UNCHANGED <<controlVars, ticket, terminal, launch, focused, switches>>

(* The end of a clean-up: its thread posts, the UI thread pops the page.   *)
CleanupPops ==
  /\ Runnable({"cancelled"}) /\ Alive("loading") /\ ~load.finished
  /\ LeavesPage(load)
  /\ UNCHANGED <<ctrlVars, launch, view, focused, switches, teardowns>>
StopPosts(t) ==
  /\ pc[t] = "stopped" /\ t # "ui" /\ Goes(t, "idle")
  /\ Post(IF screen = "loading" THEN "cancelled" ELSE "stopped")
  /\ UNCHANGED <<controlVars, report, ticket, terminal, faults, screen, launch,
                 load, view, focused, switches, teardowns>>

-----------------------------------------------------------------------------
(* The stream view.                                                        *)

(* stopAndReturn, with the flags as v: under a child page it is deferred,  *)
(* else a worker stops the stream, or the UI thread itself.                *)
StopAndReturn(v, used) ==
  \/ /\ v.child
     /\ RequestStreamStop /\ terminal' = terminal \cup {launch}
     /\ view' = [v EXCEPT !.deferred = TRUE, !.running = FALSE]
     /\ faults' = faults + used /\ UNCHANGED <<pc, report>>
  \/ /\ ~v.child /\ v.stopStarted
     /\ view' = v /\ faults' = faults + used
     /\ UNCHANGED <<pc, report, cancelReq, current, terminal>>
  \/ /\ ~v.child /\ ~v.stopStarted
     /\ RequestStreamStop /\ terminal' = terminal \cup {launch}
     /\ view' = [v EXCEPT !.stopStarted = TRUE, !.running = FALSE]
     /\ report' = (state \notin {"Disconnected", "Error"})
     /\ \/ Goes("stop", "stop") /\ faults' = faults + used
        \/ StopsInline /\ faults' = faults + used + 1 /\ faults' <= MaxFaults

(* Focus: the loss is remembered; on return one recovery at a time.        *)
FocusLost ==
  /\ UiFree /\ focused /\ switches < MaxSwitches
  /\ focused' = FALSE /\ switches' = switches + 1
  /\ view' = IF screen = "view" THEN [view EXCEPT !.backgrounded = TRUE] ELSE view
  /\ UNCHANGED <<ctrlVars, screen, launch, posted, load, teardowns>>

FocusIgnored == screen # "view" \/ ~view.backgrounded \/ launch \in terminal
                  \/ view.stopStarted \/ view.recovering
FocusGained ==
  /\ UiFree /\ ~focused /\ focused' = TRUE
  /\ \/ /\ FocusIgnored
        /\ UNCHANGED <<pc, report, cancelReq, current, terminal, ticket, view, faults>>
     \/ /\ ~FocusIgnored /\ pc["resume"] = "idle" \* bound: one such worker
        /\ Goes("resume", "resume") /\ ticket' = launch
        /\ view' = [view EXCEPT !.backgrounded = FALSE, !.recovering = TRUE]
        /\ UNCHANGED <<report, cancelReq, current, terminal, faults>>
     \/ /\ ~FocusIgnored /\ faults < MaxFaults
        /\ StopAndReturn([view EXCEPT !.backgrounded = FALSE], 1) /\ UNCHANGED ticket
  /\ UNCHANGED <<op, state, session, screen, launch, posted, load, switches, teardowns>>

ResumePosts ==
  /\ pc["resume"] \in {"ok", "failed"} /\ Goes("resume", "idle")
  /\ posted' = Append(posted,
       [what |-> IF pc["resume"] = "ok" THEN "resumed" ELSE "notResumed", launch |-> ticket])
  /\ UNCHANGED <<controlVars, report, ticket, terminal, faults, screen, launch,
                 load, view, focused, switches, teardowns>>

(* The recovery's closure: ignored once the view is terminal.              *)
ResumeResult ==
  /\ Runnable({"resumed", "notResumed"}) /\ Alive("view")
  /\ LET v == [view EXCEPT !.recovering = FALSE]
     IN  IF launch \in terminal
         THEN UNCHANGED <<pc, report, cancelReq, current, terminal, faults, view>>
         ELSE IF Head(posted).what = "resumed"
              THEN view' = v /\ UNCHANGED <<pc, report, cancelReq, current, terminal, faults>>
              ELSE StopAndReturn(v, 0)
  /\ UNCHANGED <<op, state, session, ticket, screen, launch, load, focused, switches, teardowns>>

(* The update thread: a stream that ended, or its own failure, ends the    *)
(* view through the UI thread.                                             *)
ThreadEnds ==
  /\ view' = [view EXCEPT !.running = FALSE] /\ Post("exit")
  /\ UNCHANGED <<pc, controlVars, report, ticket, terminal, screen, launch, load,
                 focused, switches, teardowns>>
Detects ==
  /\ screen = "view" /\ view.running
  /\ ~view.backgrounded /\ ~view.recovering /\ state \in {"Disconnected", "Error"}
  /\ ThreadEnds /\ UNCHANGED faults
UpdateThreadFails == screen = "view" /\ view.running /\ Fault /\ ThreadEnds
Exit ==
  /\ Runnable({"exit"}) /\ Alive("view") /\ StopAndReturn(view, 0)
  /\ UNCHANGED <<op, state, session, ticket, screen, launch, load, focused, switches, teardowns>>

(* The user's exit; inputs are blocked once the stop has started.          *)
UserExits ==
  /\ Viewing /\ ~view.child /\ ~view.stopStarted
  /\ StopAndReturn(view, 0)
  /\ UNCHANGED <<op, state, session, ticket, screen, launch, posted, load, focused,
                 switches, teardowns>>

(* Settings or button mapping over the view, and onResume.                 *)
OpenChild ==
  /\ Viewing /\ ~view.child /\ ~view.stopStarted
  /\ view' = [view EXCEPT !.child = TRUE]
  /\ UNCHANGED <<ctrlVars, screen, launch, posted, load, focused, switches, teardowns>>
CloseChild ==
  /\ Viewing /\ view.child
  /\ view' = [view EXCEPT !.child = FALSE, !.deferred = FALSE]
  /\ IF StopIsDeferred THEN Post("exit") ELSE UNCHANGED posted
  /\ UNCHANGED <<ctrlVars, screen, launch, load, focused, switches, teardowns>>

(* popActivity and ~StreamView, which requests the stop once more.         *)
PopsView ==
  /\ screen' = "menu" /\ view' = [view EXCEPT !.running = FALSE]
  /\ RequestStreamStop /\ terminal' = terminal \cup {launch}
StopReturns ==
  /\ Runnable({"stopped"}) /\ Alive("view") /\ PopsView
  /\ UNCHANGED <<pc, op, state, session, report, ticket, faults, launch, load,
                 focused, switches, teardowns>>
InlineStopReturns ==
  /\ pc["ui"] = "stopped" /\ Goes("ui", "idle") /\ PopsView
  /\ UNCHANGED <<op, state, session, report, ticket, faults, launch, posted, load,
                 focused, switches, teardowns>>

-----------------------------------------------------------------------------
Controls(t) == Runs(t) /\ UNCHANGED uiVars
Connects == Controls("connect") \/ ConnectReturns \/ ConnectHandsOver \/ StopPosts("connect")
Recovers == (Resumes /\ UNCHANGED uiVars) \/ Controls("resume") \/ ResumePosts
Stops == Controls("stop") \/ StopPosts("stop")
UiStops == Controls("ui") \/ InlineStopReturns
SessionEnds == (SessionFails \/ SessionStopsItself) /\ UNCHANGED uiVars
RunsClosure == \/ Dropped \/ StartConnection \/ ConnectionResult \/ CleanupPops
               \/ ResumeResult \/ Exit \/ StopReturns
UserInput == \/ StartConsoleStream \/ AcknowledgeFailure \/ CancelBeforeStart
             \/ RequestCancel \/ RepeatCancel \/ FocusLost \/ FocusGained
             \/ UserExits \/ OpenChild \/ CloseChild

Next == \/ Connects \/ Recovers \/ Stops \/ UiStops \/ SessionEnds
        \/ RunsClosure \/ Detects \/ UpdateThreadFails \/ UserInput
Spec == Init /\ [][Next]_vars

(* Threads are scheduled, the UI thread runs what is posted, and a user    *)
(* who cancelled and is told that the cancel failed presses B again.       *)
LiveSpec == /\ Spec
            /\ WF_vars(Connects) /\ WF_vars(Recovers) /\ WF_vars(Stops)
            /\ WF_vars(UiStops) /\ WF_vars(RunsClosure) /\ WF_vars(Detects)
            /\ WF_vars(RepeatCancel /\ TryClaims(load))

-----------------------------------------------------------------------------
(* Types, and the invariant of StreamController's mutex: a stop or a start *)
(* runs on its own worker, one at a time.                                  *)
TypeOK ==
  /\ ControlTypeOK
  /\ screen \in {"menu", "loading", "view"} /\ launch \in 0..MaxLaunches
  /\ posted \in Seq([what : {"start", "ok", "failed", "cancelled", "exit", "stopped",
                             "resumed", "notResumed"}, launch : 0..MaxLaunches])
  /\ load \in [DOMAIN FreshLoad -> BOOLEAN] /\ view \in [DOMAIN FreshView -> BOOLEAN]
  /\ focused \in BOOLEAN /\ switches \in 0..MaxSwitches /\ teardowns \in Nat

(* No stream runs behind the menu, whatever was cancelled, stopped or      *)
(* resumed on the way back to it, and whichever worker came late.          *)
NoStreamBehindMenu == screen = "menu" => session # "live"

(* The connection worker hands teardown to a single claimed owner, and the *)
(* teardown waits until the start has returned.                            *)
SingleTeardown ==
  /\ teardowns <= 1
  /\ teardowns = 1 /\ screen = "loading" => load.done /\ load.cancel

(* The teardown has one owner, and the operations one at a time.           *)
TeardownSafety == TypeOK /\ SingleTeardown

(* The loading page comes to an end: a stream, the menu, or a failure that *)
(* waits for the user; a cancel is never left hanging.                     *)
LoadingEnds == (screen = "loading") ~> (screen # "loading" \/ load.failure)

(* A stop that has started takes the user back to the menu.                *)
ViewCloses == (screen = "view" /\ view.stopStarted) ~> (screen = "menu")

(* A stop under a child page happens once the user has left that page.     *)
DeferredStopHappens ==
  (screen = "view" /\ launch \in terminal) ~> (screen = "menu" \/ view.child)

(* A stop, started or put off until a child page is left, gets to the menu.*)
ViewLiveness == ViewCloses /\ DeferredStopHappens
=============================================================================
