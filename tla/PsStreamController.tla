------------------------- MODULE PsStreamController -------------------------
(***************************************************************************)
(* ps/ps_stream_controller.cpp and ps/ps_stream_session.cpp: a PlayStation *)
(* stream is started, resumed, cancelled and stopped.  Starts and stops    *)
(* hold stream_operation_mutex_; a cancel only sets flags, those of the    *)
(* controller and of its connector, which a start looks at between its     *)
(* calls.  stopStream joins the input thread and the video monitor before  *)
(* it takes the mutex, and lets only one caller through.                   *)
(*                                                                         *)
(* Threads: "connect" is the connection worker of the page, "resume" the   *)
(* recovery worker of the view, "stop" the worker of a teardown; chiaki's  *)
(* thread and the pipeline's call back on their own.                       *)
(***************************************************************************)
EXTENDS PsRemoteConnector

Threads == {"connect", "resume", "stop"}
Nobody == "nobody"

VARIABLES
  pc,         \* the next step of each thread, "idle" when it runs nothing
  then,       \* what follows the stop that a thread runs
  op,         \* the thread that holds stream_operation_mutex_
  remote,     \* whether the plan goes through PSN
  cancelReq,  \* cancel_requested_
  terminal,   \* the view asked for the end: a resume's caller cancels
  shutdown,   \* shutdown_
  state,      \* state_
  connector,  \* whether remote_connector_ exists
  sess,       \* session_: "none", "made", "init" (initialized_), "started"
  sessH,      \* remote_result_.holepunch_session of the session
  chiakiH,    \* the hole-punch session chiaki took over
  chiaki,     \* chiaki's thread: "off", "run", "quit"
  transport,  \* stream_transport_connected_
  media,      \* media_: "none", "made", "ready", "shown" (first frame), "shut"
  noticed,    \* waiting_notice_sent of the video monitor
  input,      \* whether the input thread runs
  monitor,    \* whether the video monitor runs
  report      \* set_disconnected of the view's stop
psVars == <<pc, then, op, remote, cancelReq, terminal, shutdown, state, connector, sess,
            sessH, chiakiH, chiaki, transport, media, noticed, input, monitor, report>>
ctrlVars == <<connVars, psVars>>

streamVars == <<sess, sessH, chiakiH, chiaki, transport, media>>
workerVars == <<noticed, input, monitor>>
flagVars == <<cancelReq, terminal, shutdown>>
fixedVars == <<remote, report>>

Goes(t, step) == pc' = [pc EXCEPT ![t] = step]
Releases == op' = Nobody
Fails(t) == Releases /\ Goes(t, "failed")

(* Seeded faults, plausible mistakes in operators below; no action uses    *)
(* them.                                                                   *)
TicketIgnored(t) == FALSE
CreationUnchecked == FALSE
ResultKept == resultH' = resultH

(* The cancel callback of the view's recovery.                             *)
CallerCancels(t) == terminal

(* The look at cancel_requested_ once the connector can be reached.        *)
CancelledAtCreation == cancelReq

(* startRemote takes the result and leaves an empty one (remote = {}).     *)
ResultMoves == resultH' = None

(* The end of stopStream's scope.                                          *)
StopReleases == Releases

ControlInit ==
  /\ ConnInit
  /\ pc = [t \in Threads |-> "idle"] /\ then = [t \in Threads |-> "none"]
  /\ op = Nobody /\ remote \in BOOLEAN
  /\ cancelReq = FALSE /\ terminal = FALSE /\ shutdown = FALSE /\ state = "Idle"
  /\ connector = FALSE /\ sess = "none" /\ sessH = None /\ chiakiH = None
  /\ chiaki = "off" /\ transport = FALSE /\ media = "none" /\ noticed = FALSE
  /\ input = FALSE /\ monitor = FALSE /\ report = FALSE

-----------------------------------------------------------------------------
(* startStream.                                                            *)

StartLocks(t) ==
  /\ pc[t] = "begin" /\ op = Nobody
  /\ \/ (state # "Idle" \/ cancelReq) /\ Goes(t, "failed") /\ UNCHANGED <<op, state, transport>>
     \/ /\ state = "Idle" /\ ~cancelReq
        /\ op' = t /\ state' = "Connecting" /\ transport' = FALSE
        /\ Goes(t, IF remote THEN "connector" ELSE "parts")
  /\ UNCHANGED <<connVars, then, flagVars, connector, sess, sessH, chiakiH, chiaki,
                 media, workerVars, fixedVars>>

(* releasePendingRemoteResult                                              *)
ReleasesResult ==
  /\ resultH' = None
  /\ IF resultH = None THEN UNCHANGED finis ELSE Finishes(resultH)

(* A PSN account that cannot be used, or the connector: made under         *)
(* remote_connector_mutex_, where a cancel can reach it, and then the flag *)
(* is looked at.                                                           *)
MakesConnector(t) ==
  /\ pc[t] = "connector"
  /\ \/ Fault /\ Fails(t) /\ state' = "Error" /\ UNCHANGED <<connector, rcancel>>
     \/ /\ connector' = TRUE /\ rcancel' = FALSE /\ Goes(t, "made")
        /\ UNCHANGED <<op, state, faults>>
  /\ UNCHANGED <<conn, published, created, finis, resultH, then, flagVars, streamVars,
                 workerVars, fixedVars>>
ChecksConnector(t) ==
  /\ pc[t] = "made"
  /\ \/ CancelledAtCreation /\ ReleasesResult /\ Fails(t) /\ UNCHANGED conn
     \/ /\ ~CancelledAtCreation /\ At("enter") /\ Goes(t, "remote")
        /\ UNCHANGED <<op, resultH, finis>>
  /\ UNCHANGED <<published, rcancel, created, faults, then, flagVars, state, connector,
                 streamVars, workerVars, fixedVars>>

(* connect has returned: an error, or a result that a cancel gives back.   *)
RemoteFailed(t) ==
  /\ pc[t] = "remote" /\ conn.at = "failed"
  /\ At("off") /\ Fails(t) /\ state' = IF cancelReq \/ conn.err = "cancel" THEN state ELSE "Error"
  /\ UNCHANGED <<published, rcancel, created, finis, resultH, faults, then, flagVars,
                 connector, streamVars, workerVars, fixedVars>>
RemoteReady(t) ==
  /\ pc[t] = "remote" /\ conn.at = "ok" /\ At("off")
  /\ \/ cancelReq /\ ReleasesResult /\ Fails(t)
     \/ ~cancelReq /\ Goes(t, "parts") /\ UNCHANGED <<op, resultH, finis>>
  /\ UNCHANGED <<published, rcancel, created, faults, then, flagVars, state, connector,
                 streamVars, workerVars, fixedVars>>

SessionFinishes(h) == IF h = None THEN UNCHANGED finis ELSE Finishes(h)

(* PsStreamSession::stop: chiaki's thread reports that it was stopped, is  *)
(* joined, and what it held is finished.                                   *)
SessionStops ==
  /\ chiaki' = "off" /\ chiakiH' = None
  /\ IF sess \in {"init", "started"} THEN SessionFinishes(chiakiH) ELSE UNCHANGED finis

(* The pipeline, the bridge and the session are made; what was there is    *)
(* destroyed, a session by stopping it.  A local plan needs the            *)
(* credentials of the console.                                             *)
MakesParts(t) ==
  /\ pc[t] = "parts" /\ media' = "made"
  /\ \/ /\ ~remote /\ Fault /\ Fails(t) /\ state' = "Error"
        /\ UNCHANGED <<sess, chiaki, chiakiH, finis>>
     \/ /\ SessionStops /\ sess' = "made" /\ state' = "Connecting" /\ UNCHANGED faults
        /\ IF cancelReq THEN Fails(t) ELSE Goes(t, "sessInit") /\ UNCHANGED op
  /\ UNCHANGED <<conn, published, rcancel, created, resultH, then, flagVars,
                 connector, sessH, transport, workerVars, fixedVars>>

(* PsStreamSession::startRemote or start, up to chiaki_session_init, which *)
(* takes the hole-punch session whether or not it succeeds.                *)
StartRemote(t) ==
  /\ pc[t] = "sessInit" /\ sessH' = resultH /\ ResultMoves /\ Goes(t, "sessTake")
  /\ UNCHANGED <<conn, published, rcancel, created, finis, faults, then, op, flagVars,
                 state, connector, sess, chiakiH, chiaki, transport, media,
                 workerVars, fixedVars>>
SessionInits(t) ==
  /\ pc[t] = "sessTake" /\ sessH' = None
  /\ \/ /\ cancelReq /\ SessionFinishes(sessH) /\ Fails(t)
        /\ UNCHANGED <<sess, chiakiH, state, faults>>
     \/ /\ ~cancelReq /\ Fault /\ SessionFinishes(sessH) /\ Fails(t) /\ state' = "Error"
        /\ UNCHANGED <<sess, chiakiH>>
     \/ /\ ~cancelReq /\ sess' = "init" /\ chiakiH' = sessH /\ Goes(t, "sessStart")
        /\ UNCHANGED <<op, state, finis, faults>>
  /\ UNCHANGED <<conn, published, rcancel, created, resultH, then, flagVars, connector,
                 chiaki, transport, media, workerVars, fixedVars>>

(* chiaki_session_fini of an initialised session.                          *)
SessionFini == sess' = "made" /\ chiakiH' = None /\ SessionFinishes(chiakiH)
SessionStarts(t) ==
  /\ pc[t] = "sessStart"
  /\ \/ cancelReq /\ SessionFini /\ Fails(t) /\ UNCHANGED <<chiaki, state, faults>>
     \/ ~cancelReq /\ Fault /\ SessionFini /\ Fails(t) /\ state' = "Error" /\ UNCHANGED chiaki
     \/ /\ ~cancelReq /\ sess' = "started" /\ chiaki' = "run" /\ Goes(t, "sessUp")
        /\ UNCHANGED <<op, state, chiakiH, finis, faults>>
  /\ UNCHANGED <<conn, published, rcancel, created, resultH, then, flagVars, connector,
                 sessH, transport, media, workerVars, fixedVars>>

(* What the report of a stopped session leaves.                           *)
StateAfterStop == IF chiaki = "run" THEN "Disconnected" ELSE state

(* The flag is looked at when the session has started, and again by the    *)
(* controller; then the pipeline is initialised beside chiaki.             *)
SessionUp(t) ==
  /\ pc[t] = "sessUp"
  /\ \/ /\ cancelReq /\ SessionStops /\ sess' = "made" /\ state' = StateAfterStop /\ Fails(t)
     \/ /\ ~cancelReq /\ Goes(t, "media")
        /\ UNCHANGED <<op, state, sess, chiaki, chiakiH, finis>>
  /\ UNCHANGED <<conn, published, rcancel, created, resultH, faults, then, flagVars,
                 connector, sessH, transport, media, workerVars, fixedVars>>
MediaInits(t) ==
  /\ pc[t] = "media"
  /\ \/ /\ Fault /\ SessionStops /\ sess' = "made" /\ state' = "Error" /\ Fails(t)
        /\ UNCHANGED media
     \/ /\ media' = "ready" /\ Goes(t, "workers")
        /\ UNCHANGED <<op, state, sess, chiaki, chiakiH, finis, faults>>
  /\ UNCHANGED <<conn, published, rcancel, created, resultH, then, flagVars, connector,
                 sessH, transport, workerVars, fixedVars>>

(* startInputLoop, startVideoMonitor: a thread that cannot be made stops   *)
(* the stream, without the mutex.                                          *)
StartsInput(t) ==
  /\ pc[t] = "workers"
  /\ \/ input' = TRUE /\ Goes(t, "monitor") /\ UNCHANGED <<op, then, faults>>
     \/ /\ Fault /\ Releases /\ Goes(t, "stop") /\ then' = [then EXCEPT ![t] = "fail"]
        /\ UNCHANGED input
  /\ UNCHANGED <<conn, published, rcancel, created, finis, resultH, flagVars, state,
                 connector, streamVars, noticed, monitor, fixedVars>>
StartsMonitor(t) ==
  /\ pc[t] = "monitor" /\ Releases
  /\ \/ monitor' = TRUE /\ noticed' = FALSE /\ Goes(t, "ok") /\ UNCHANGED <<then, faults>>
     \/ /\ Fault /\ Goes(t, "stop") /\ then' = [then EXCEPT ![t] = "fail"]
        /\ UNCHANGED <<monitor, noticed>>
  /\ UNCHANGED <<conn, published, rcancel, created, finis, resultH, flagVars, state,
                 connector, streamVars, input, fixedVars>>

StartStream(t) ==
  \/ StartLocks(t) \/ MakesConnector(t) \/ ChecksConnector(t) \/ RemoteFailed(t)
  \/ RemoteReady(t) \/ MakesParts(t) \/ StartRemote(t) \/ SessionInits(t)
  \/ SessionStarts(t) \/ SessionUp(t) \/ MediaInits(t) \/ StartsInput(t) \/ StartsMonitor(t)

-----------------------------------------------------------------------------
(* stopStream: shutdown_ lets the first caller through, the threads are    *)
(* joined, and the rest is taken down under the mutex.                     *)
StopClaims(t) ==
  /\ pc[t] = "stop" /\ shutdown' = TRUE
  /\ Goes(t, IF shutdown THEN "stopped" ELSE "stopJoin")
  /\ UNCHANGED <<connVars, then, op, cancelReq, terminal, state, connector, streamVars,
                 workerVars, fixedVars>>
(* The stop flags of the threads and the joins are one step.               *)
StopJoins(t) ==
  /\ pc[t] = "stopJoin" /\ input' = FALSE /\ monitor' = FALSE /\ Goes(t, "stopLock")
  /\ UNCHANGED <<connVars, then, op, flagVars, state, connector, streamVars, noticed,
                 fixedVars>>
StopLocks(t) ==
  /\ pc[t] = "stopLock" /\ op = Nobody /\ op' = t /\ cancelReq' = TRUE /\ Goes(t, "stopSession")
  /\ UNCHANGED <<connVars, then, terminal, shutdown, state, connector, streamVars,
                 workerVars, fixedVars>>
StopsSession(t) ==
  /\ pc[t] = "stopSession" /\ SessionStops /\ sess' = "none" /\ state' = StateAfterStop
  /\ Goes(t, "stopRemote")
  /\ UNCHANGED <<conn, published, rcancel, created, resultH, faults, then, op, flagVars,
                 connector, sessH, transport, media, workerVars, fixedVars>>
StopsRemote(t) ==
  /\ pc[t] = "stopRemote" /\ connector' = FALSE /\ ReleasesResult /\ Goes(t, "stopMedia")
  /\ rcancel' = (rcancel \/ connector)
  /\ UNCHANGED <<conn, published, created, faults, then, op, flagVars, state, streamVars,
                 workerVars, fixedVars>>
StopsMedia(t) ==
  /\ pc[t] = "stopMedia" /\ media' = IF media = "none" THEN media ELSE "shut"
  /\ state' = IF then[t] = "exit" /\ report THEN "Disconnected" ELSE state
  /\ StopReleases /\ Goes(t, "stopped")
  /\ UNCHANGED <<connVars, then, flagVars, connector, sess, sessH, chiakiH, chiaki,
                 transport, workerVars, fixedVars>>

(* The failed start returns.                                               *)
StopFails(t) ==
  /\ pc[t] = "stopped" /\ then[t] = "fail" /\ state' = "Error" /\ Goes(t, "failed")
  /\ then' = [then EXCEPT ![t] = "none"]
  /\ UNCHANGED <<connVars, op, flagVars, connector, streamVars, workerVars, fixedVars>>

StopStream(t) ==
  \/ StopClaims(t) \/ StopJoins(t) \/ StopLocks(t) \/ StopsSession(t)
  \/ StopsRemote(t) \/ StopsMedia(t) \/ StopFails(t)

-----------------------------------------------------------------------------
(* resumeAfterForeground: keep a healthy stream, else stop, reset the      *)
(* flags between looks at the caller's cancel, and start.                  *)
ResumeLooks ==
  /\ pc["resume"] = "resume" /\ op = Nobody
  /\ \/ CallerCancels("resume") /\ Goes("resume", "failed") /\ UNCHANGED then
     \/ /\ ~CallerCancels("resume") /\ state = "Streaming" /\ transport
        /\ Goes("resume", "ok") /\ UNCHANGED then
     \/ /\ ~CallerCancels("resume") /\ (state # "Streaming" \/ ~transport)
        /\ Goes("resume", "stop") /\ then' = [then EXCEPT !["resume"] = "reset"]
  /\ UNCHANGED <<connVars, op, flagVars, state, connector, streamVars, workerVars, fixedVars>>
ResumeReopens ==
  /\ pc["resume"] = "stopped" /\ then["resume"] = "reset"
  /\ then' = [then EXCEPT !["resume"] = "none"]
  /\ IF CallerCancels("resume") THEN Goes("resume", "failed") /\ UNCHANGED shutdown
     ELSE Goes("resume", "reopened") /\ shutdown' = FALSE
  /\ UNCHANGED <<connVars, op, cancelReq, terminal, state, connector, streamVars,
                 workerVars, fixedVars>>
ResumeClears ==
  /\ pc["resume"] = "reopened"
  /\ IF CallerCancels("resume")
     THEN shutdown' = TRUE /\ Goes("resume", "failed") /\ UNCHANGED cancelReq
     ELSE cancelReq' = FALSE /\ Goes("resume", "cleared") /\ UNCHANGED shutdown
  /\ UNCHANGED <<connVars, then, op, terminal, state, connector, streamVars, workerVars,
                 fixedVars>>
ResumeStarts ==
  /\ pc["resume"] = "cleared"
  /\ IF CallerCancels("resume")
     THEN /\ shutdown' = TRUE /\ cancelReq' = TRUE /\ Goes("resume", "failed")
          /\ UNCHANGED state
     ELSE state' = "Idle" /\ Goes("resume", "begin") /\ UNCHANGED <<shutdown, cancelReq>>
  /\ UNCHANGED <<connVars, then, op, terminal, connector, streamVars, workerVars, fixedVars>>
Resumes == ResumeLooks \/ ResumeReopens \/ ResumeClears \/ ResumeStarts

-----------------------------------------------------------------------------
(* Callbacks: chiaki's thread, the pipeline's first frame, and the notice  *)
(* of the video monitor after ten seconds without a picture.               *)
Connected ==
  /\ chiaki = "run" /\ ~transport /\ transport' = TRUE /\ state' = "Connecting"
  /\ UNCHANGED <<connVars, pc, then, op, flagVars, connector, sess, sessH, chiakiH, chiaki,
                 media, workerVars, fixedVars>>
ChiakiQuits ==
  /\ chiaki = "run" /\ Fault /\ chiaki' = "quit" /\ state' \in {"Error", "Disconnected"}
  /\ UNCHANGED <<conn, published, rcancel, created, finis, resultH, pc, then, op, flagVars,
                 connector, sess, sessH, chiakiH, transport, media, workerVars, fixedVars>>
VideoReady ==
  /\ media = "ready" /\ transport /\ media' = "shown" /\ state' = "Streaming"
  /\ UNCHANGED <<connVars, pc, then, op, flagVars, connector, sess, sessH, chiakiH, chiaki,
                 transport, workerVars, fixedVars>>
MonitorNotices ==
  /\ monitor /\ transport /\ ~noticed /\ state # "Streaming"
  /\ noticed' = TRUE /\ state' = "Connecting"
  /\ UNCHANGED <<connVars, pc, then, op, flagVars, connector, streamVars, input, monitor,
                 fixedVars>>
MonitorSeesPicture ==
  /\ monitor /\ transport /\ noticed /\ state = "Streaming" /\ noticed' = FALSE
  /\ UNCHANGED <<connVars, pc, then, op, flagVars, state, connector, streamVars, input,
                 monitor, fixedVars>>

(* What a thread may do in the controller.                                 *)
ConnectRuns(t) == pc[t] = "remote" /\ Connects /\ UNCHANGED psVars
Runs(t) == StartStream(t) \/ ConnectRuns(t) \/ StopStream(t)
CallsBack == Connected \/ ChiakiQuits \/ MonitorNotices \/ MonitorSeesPicture

StartLocked == {"connector", "made", "remote", "parts", "sessInit", "sessTake", "sessStart",
                "sessUp", "media", "workers", "monitor"}
StopLocked == {"stopSession", "stopRemote", "stopMedia"}
StopSteps == {"idle", "stop", "stopJoin", "stopLock", "stopped"} \cup StopLocked
StartSteps == {"begin", "ok", "failed"} \cup StartLocked
Steps == [connect |-> StopSteps \cup StartSteps \cup {"auth", "done"},
          resume |-> StopSteps \cup StartSteps \cup {"resume", "reopened", "cleared"},
          stop |-> StopSteps]

(* The types, who holds the mutex, and that connect runs only inside it.   *)
ControlTypeOK ==
  /\ ConnTypeOK
  /\ DOMAIN pc = Threads /\ then \in [Threads -> {"none", "cleanup", "exit", "reset", "fail"}]
  /\ \A t \in Threads : pc[t] \in Steps[t]
  /\ \A t \in Threads : op = t <=> pc[t] \in StartLocked \cup StopLocked
  /\ op \in Threads \cup {Nobody}
  /\ conn.at # "off" => \E t \in Threads : pc[t] = "remote"
  /\ {remote, cancelReq, terminal, shutdown, connector, transport, noticed, input, monitor,
      report} \subseteq BOOLEAN
  /\ state \in {"Idle", "Connecting", "Streaming", "Disconnected", "Error"}
  /\ sess \in {"none", "made", "init", "started"} /\ chiaki \in {"off", "run", "quit"}
  /\ sessH \in Handles \cup {None} /\ chiakiH \in Handles \cup {None}
  /\ media \in {"none", "made", "ready", "shown", "shut"}
=============================================================================
