------------------------------ MODULE PsConnect ------------------------------
(***************************************************************************)
(* From the console to a PlayStation stream and back: the connection page  *)
(* of ui/ps_activity.cpp and the life of ui/stream_view.cpp over the       *)
(* controller of PsStreamController.                                       *)
(*                                                                         *)
(* Pressing B on the page raises the cancel flag, reaches the controller,  *)
(* and leaves the clean-up to the connection worker when it returns, or to *)
(* a worker of its own when it has returned.  On the view, the application *)
(* comes back to the foreground, and the user exits.  Closures posted to   *)
(* the UI thread that find their activity gone return.  Child pages and    *)
(* the end of the view by a dead stream are in StreamLaunch.               *)
(***************************************************************************)
EXTENDS PsStreamController

VARIABLES
  screen,    \* "page", "view" or "gone"
  page,      \* PsConnectContext and finished_
  ui,        \* what the UI thread has yet to finish: "free", "cancel", "exit", "leave"
  posted,    \* closures for the UI thread
  recovering,  \* foreground_recovery_running_
  resumes,   \* recoveries begun
  cleanups,  \* clean-ups of the connection begun; not in the code
  overlapped \* a start that failed stopped itself during a resume; not in the code
pageVars == <<screen, page, ui, posted, recovering, resumes, cleanups>>
codeVars == <<ctrlVars, pageVars>>
vars == <<codeVars, overlapped>>

FreshPage == [started |-> FALSE, workerStarted |-> FALSE, cancel |-> FALSE,
              done |-> FALSE, claimed |-> FALSE, finished |-> FALSE]

Init == /\ ControlInit
        /\ screen = "page" /\ page = FreshPage /\ ui = "free" /\ posted = {}
        /\ recovering = FALSE /\ resumes = 0 /\ cleanups = 0 /\ overlapped = FALSE

(* Seeded faults, plausible mistakes in the next operators; no action uses *)
(* them.                                                                   *)
ClaimKept(p) == p

(* Who may clean up, and a claim given back.                               *)
TryClaims(p) == p.cancel /\ p.done /\ ~p.claimed
GivesClaimBack(p) == [p EXCEPT !.claimed = FALSE]
Claims(p) == [p EXCEPT !.claimed = TRUE]

OnPage == ui = "free" /\ screen = "page"
OnView == ui = "free" /\ screen = "view"

-----------------------------------------------------------------------------
(* The page.                                                               *)

(* The closure that starts the connection worker, once.                    *)
StartWorker ==
  /\ OnPage /\ ~page.started
  /\ \/ /\ Goes("connect", "auth") /\ UNCHANGED faults
        /\ page' = [page EXCEPT !.started = TRUE, !.workerStarted = TRUE]
     \/ Fault /\ page' = [page EXCEPT !.started = TRUE, !.done = TRUE] /\ UNCHANGED pc
  /\ UNCHANGED <<conn, published, rcancel, created, finis, resultH, then, op, flagVars,
                 state, connector, streamVars, workerVars, fixedVars, screen, ui, posted,
                 recovering, resumes, cleanups>>

(* The worker: the PSN token is made valid and stored, and the start       *)
(* begins if nobody cancelled meanwhile.                                   *)
Authorises ==
  /\ pc["connect"] = "auth"
  /\ \/ page.cancel /\ Goes("connect", "failed") /\ UNCHANGED faults
     \/ ~page.cancel /\ remote /\ Fault /\ Goes("connect", "failed")
     \/ ~page.cancel /\ Goes("connect", "begin") /\ UNCHANGED faults
  /\ UNCHANGED <<conn, published, rcancel, created, finis, resultH, then, op, flagVars,
                 state, connector, streamVars, workerVars, fixedVars, pageVars>>

(* ~PsConnectWorkerFinalizer: done first, and then the clean-up on this    *)
(* thread if there is a cancel that nobody cleaned up.                     *)
WorkerDone ==
  /\ pc["connect"] \in {"ok", "failed"} /\ Goes("connect", "done")
  /\ page' = [page EXCEPT !.done = TRUE]
  /\ UNCHANGED <<connVars, then, op, flagVars, state, connector, streamVars, workerVars,
                 fixedVars, screen, ui, posted, recovering, resumes, cleanups>>
CleansUp(t) ==
  /\ Goes(t, "stop") /\ then' = [then EXCEPT ![t] = "cleanup"] /\ cleanups' = cleanups + 1
WorkerFinalizes ==
  /\ pc["connect"] = "done"
  /\ \/ TryClaims(page) /\ CleansUp("connect") /\ page' = Claims(page)
     \/ ~TryClaims(page) /\ Goes("connect", "idle") /\ UNCHANGED <<then, cleanups, page>>
  /\ UNCHANGED <<connVars, op, flagVars, state, connector, streamVars, workerVars,
                 fixedVars, screen, ui, posted, recovering, resumes>>

(* schedulePsConnectCleanup                                                *)
SchedulesCleanup ==
  \/ ~TryClaims(page) /\ UNCHANGED <<pc, then, cleanups, page, faults>>
  \/ TryClaims(page) /\ CleansUp("stop") /\ page' = Claims(page) /\ UNCHANGED faults
  \/ TryClaims(page) /\ Fault /\ page' = GivesClaimBack(Claims(page)) /\ UNCHANGED <<pc, then, cleanups>>

(* cancel(): the flags of the page, and then the controller's; before the  *)
(* worker there is nothing to clean up.                                    *)
CancelPressed ==
  /\ OnPage /\ ~page.cancel /\ ~page.finished
  /\ page' = [page EXCEPT !.finished = TRUE, !.cancel = TRUE] /\ ui' = "cancel"
  /\ UNCHANGED <<ctrlVars, screen, posted, recovering, resumes, cleanups>>
CancelReaches ==
  /\ ui = "cancel" /\ cancelReq' = TRUE /\ ui' = "cancelled"
  /\ UNCHANGED <<connVars, pc, then, op, terminal, shutdown, state, connector, streamVars,
                 workerVars, fixedVars, screen, page, posted, recovering, resumes, cleanups>>
CancelsConnector == rcancel' = (rcancel \/ connector)
CancelSchedules ==
  /\ ui = "cancelled" /\ ui' = "free" /\ CancelsConnector
  /\ \/ /\ ~page.workerStarted /\ page' = Claims(page) /\ screen' = "gone"
        /\ UNCHANGED <<pc, then, cleanups, faults>>
     \/ page.workerStarted /\ SchedulesCleanup /\ UNCHANGED screen
  /\ UNCHANGED <<conn, published, created, finis, resultH, op, flagVars, state, connector,
                 streamVars, workerVars, fixedVars, posted, recovering, resumes>>
RepeatCancel ==
  /\ OnPage /\ page.cancel /\ SchedulesCleanup
  /\ UNCHANGED <<conn, published, rcancel, created, finis, resultH, op, flagVars, state,
                 connector, streamVars, workerVars, fixedVars, screen, ui, posted,
                 recovering, resumes>>

(* The first picture: the launch callback posts openStream.                *)
PictureArrives ==
  /\ VideoReady
  /\ posted' = IF screen = "page" THEN posted \cup {"open"} ELSE posted
  /\ UNCHANGED <<screen, page, ui, recovering, resumes, cleanups>>
OpenStream ==
  /\ OnPage /\ "open" \in posted /\ posted' = posted \ {"open"}
  /\ IF page.finished THEN UNCHANGED <<screen, page>>
     ELSE screen' = "view" /\ page' = [page EXCEPT !.finished = TRUE]
  /\ UNCHANGED <<ctrlVars, ui, recovering, resumes, cleanups>>

(* The end of a teardown pops the activity it belongs to.                  *)
TeardownEnds(t) ==
  /\ pc[t] = "stopped" /\ then[t] \in {"cleanup", "exit"} /\ Goes(t, "idle")
  /\ then' = [then EXCEPT ![t] = "none"] /\ posted' = posted \cup {"pop"}
  /\ UNCHANGED <<connVars, op, flagVars, state, connector, streamVars, workerVars,
                 fixedVars, screen, page, ui, recovering, resumes, cleanups>>
Pops ==
  /\ ui = "free" /\ screen # "gone" /\ "pop" \in posted /\ posted' = {}
  /\ screen' = "gone" /\ ui' = IF screen = "view" THEN "leave" ELSE "free"
  /\ UNCHANGED <<ctrlVars, page, recovering, resumes, cleanups>>

-----------------------------------------------------------------------------
(* The view.                                                               *)
ComesBack ==
  /\ OnView /\ ~terminal /\ ~recovering /\ resumes < MaxResumes /\ pc["resume"] = "idle"
  /\ Goes("resume", "resume") /\ recovering' = TRUE /\ resumes' = resumes + 1
  /\ UNCHANGED <<connVars, then, op, flagVars, state, connector, streamVars, workerVars,
                 fixedVars, screen, page, ui, posted, cleanups>>
ResumeReturns ==
  /\ pc["resume"] \in {"ok", "failed"} /\ Goes("resume", "idle")
  /\ posted' = posted \cup {IF pc["resume"] = "ok" THEN "resumed" ELSE "notResumed"}
  /\ UNCHANGED <<connVars, then, op, flagVars, state, connector, streamVars, workerVars,
                 fixedVars, screen, page, ui, recovering, resumes, cleanups>>

(* stopAndReturn: terminal_stop_, requestStop, and the stop's worker.  If  *)
(* it cannot be made the UI thread does the same and waits.                *)
StopAndReturn ==
  IF terminal THEN UNCHANGED <<terminal, report, ui>>
  ELSE /\ terminal' = TRUE /\ ui' = "exit"
       /\ report' = (state \notin {"Disconnected", "Error"})
ResumeResult ==
  /\ OnView /\ \E r \in posted \cap {"resumed", "notResumed"} :
       /\ posted' = posted \ {r} /\ recovering' = (recovering /\ terminal)
       /\ IF terminal \/ r = "resumed" THEN UNCHANGED <<terminal, report, ui>>
          ELSE StopAndReturn
  /\ UNCHANGED <<connVars, pc, then, op, remote, cancelReq, shutdown, state, connector,
                 streamVars, workerVars, screen, page, resumes, cleanups>>
UserExits ==
  /\ OnView /\ ~terminal /\ StopAndReturn
  /\ UNCHANGED <<connVars, pc, then, op, remote, cancelReq, shutdown, state, connector,
                 streamVars, workerVars, screen, page, posted, recovering, resumes, cleanups>>
(* requestStop of the exit, and once more that of ~StreamView.             *)
ExitReaches ==
  /\ ui \in {"exit", "leave"} /\ cancelReq' = TRUE
  /\ ui' = IF ui = "exit" THEN "exited" ELSE "left"
  /\ UNCHANGED <<connVars, pc, then, op, terminal, shutdown, state, connector, streamVars,
                 workerVars, fixedVars, screen, page, posted, recovering, resumes, cleanups>>
ExitStops ==
  /\ ui \in {"exited", "left"} /\ ui' = "free" /\ CancelsConnector
  /\ IF ui = "exited" THEN Goes("stop", "stop") /\ then' = [then EXCEPT !["stop"] = "exit"]
     ELSE UNCHANGED <<pc, then>>
  /\ UNCHANGED <<conn, published, created, finis, resultH, faults, op, flagVars, state,
                 connector, streamVars, workerVars, fixedVars, screen, page, posted,
                 recovering, resumes, cleanups>>

-----------------------------------------------------------------------------
Controls(t) == Runs(t) /\ UNCHANGED pageVars
ConnectWorker == \/ Controls("connect") \/ Authorises \/ WorkerDone \/ WorkerFinalizes
                 \/ TeardownEnds("connect")
ResumeWorker == Controls("resume") \/ (Resumes /\ UNCHANGED pageVars) \/ ResumeReturns
StopWorker == Controls("stop") \/ TeardownEnds("stop")
UiFinishes == CancelReaches \/ CancelSchedules \/ ExitReaches \/ ExitStops
UiClosures == StartWorker \/ OpenStream \/ Pops \/ ResumeResult
User == CancelPressed \/ RepeatCancel \/ ComesBack \/ UserExits

(* The history of overlapped: the connection's start takes itself down     *)
(* because a thread could not be made, and a focus return resumes it.      *)
StopMeetsResume == then["connect"] = "fail" /\ pc["resume"] # "idle"
Next ==
  /\ \/ ConnectWorker \/ ResumeWorker \/ StopWorker \/ UiFinishes \/ UiClosures
     \/ User \/ PictureArrives \/ (CallsBack /\ UNCHANGED pageVars)
  /\ overlapped' = (overlapped \/ StopMeetsResume')
Spec == Init /\ [][Next]_vars

(* The workers are scheduled and the calls they make return; the UI thread *)
(* finishes an input and runs closures; a user whose cancel could not be   *)
(* cleaned up presses B again.                                             *)
LiveSpec == /\ Spec
            /\ WF_codeVars(ConnectWorker) /\ WF_codeVars(ResumeWorker) /\ WF_codeVars(StopWorker)
            /\ WF_codeVars(UiFinishes) /\ WF_codeVars(Pops)
            /\ WF_codeVars(RepeatCancel /\ TryClaims(page))

-----------------------------------------------------------------------------
(* The types of the page, over those of the controller and the connector.  *)
TypeOK ==
  /\ ControlTypeOK
  /\ screen \in {"page", "view", "gone"} /\ page \in [DOMAIN FreshPage -> BOOLEAN]
  /\ ui \in {"free", "cancel", "cancelled", "exit", "exited", "leave", "left"}
  /\ posted \subseteq {"open", "pop", "resumed", "notResumed"}
  /\ {recovering, overlapped} \subseteq BOOLEAN /\ resumes \in 0..MaxResumes /\ cleanups \in Nat

(* What connect, the result, the session and chiaki hold, and what a       *)
(* cancel finds published, has not been finished; nobody holds what is in  *)
(* nobody's hands only because it was forgotten.                           *)
Held == {conn.handle, resultH, sessH, chiakiH} \ {None}
HandlesAreLive ==
  /\ \A h \in Held \cup ({published} \ {None}) : finis[h] = 0
  /\ \A h \in 1..created : h \in Held \/ finis[h] = 1

(* Who holds a hole-punch session, for HoleOwnership.                      *)
HolderOf(h) ==
  IF h > created THEN "none" ELSE IF finis[h] > 0 THEN "finished"
  ELSE IF h = conn.handle THEN "connector" ELSE IF h = resultH THEN "result"
  ELSE IF h = sessH THEN "session" ELSE IF h = chiakiH THEN "chiaki" ELSE "lost"
Ownership == INSTANCE HoleOwnership WITH holder <- [h \in Handles |-> HolderOf(h)]
(* Each hole-punch session is handed on in one direction only, to one      *)
(* holder at a time, and is finished once, by the last of them.            *)
HolePunchSessionsAreOwned == Ownership!Spec

(* A cancel that reached the controller has reached the connector it is    *)
(* waiting in, unless the canceller is still on its way: "remote connect   *)
(* must preserve cancellation across connector publication".               *)
CancelReachesConnector ==
  (conn.at # "off" /\ cancelReq) => (rcancel \/ ui \in {"cancelled", "exited", "left"})

(* A cancelled connection is torn down once, after its worker returned.    *)
SingleCleanup == cleanups <= 1 /\ (cleanups = 1 => page.done /\ page.cancel)

(* A cancel finds the connection it is about, and ends it once.            *)
ConnectSafety ==
  TypeOK /\ HandlesAreLive /\ CancelReachesConnector /\ SingleCleanup

(* Once the user has left and the workers have returned, the session is    *)
(* stopped and joined, its hole-punch session released, the pipeline shut, *)
(* in every history in which no start that took itself down met a resume.  *)
(* The input thread is not part of it: see InputStopsFirst.                *)
NothingLeftBehind ==
  (screen = "gone" /\ ui = "free" /\ ~overlapped /\ \A t \in Threads : pc[t] = "idle") =>
    /\ sess = "none" /\ chiaki = "off" /\ media \in {"none", "shut"}
    /\ ~connector /\ \A h \in 1..created : finis[h] = 1


(* The input thread stops before the session is released:                  *)
(* "PS input pump must stop before session resources are released".        *)
InputStopsFirst == sess = "none" => ~input
=============================================================================
