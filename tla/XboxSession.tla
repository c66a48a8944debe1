---------------------------- MODULE XboxSession ----------------------------
(***************************************************************************)
(* app/xbox_stream_session.cpp: one Xbox streaming session, from the       *)
(* session on the server to the media loop and back.                       *)
(*                                                                         *)
(* Threads and their program counters:                                     *)
(*   owner    start and stop, serialised by the controller's               *)
(*            stream_operation_mutex_: opc                                 *)
(*   stream   runLoop and reconnectWithFreshSession: spc                   *)
(*   control  controlLoop, keep-alive and token refresh: kpc               *)
(*   UI       requestStreamStop, which raises external_cancel: cancel      *)
(* The input thread only polls its flags and is left out.  The server      *)
(* numbers its sessions 1, 2, ...; the peer numbers its associations       *)
(* (calls of WebRtcTransport::initialize) the same way.  A request to the  *)
(* server is one step with every outcome the caller tells apart.           *)
(***************************************************************************)
EXTENDS Integers, FiniteSets

CONSTANTS
  MaxAttempts,     \* max_start_attempts: 2 for the cloud, 4 at home
  MaxReconnects,   \* failed reconnects before the stream gives up: 5
  MaxSessions,     \* bound: sessions the server grants in a behaviour
  MaxFaults,       \* bound: failures of the network, the host or memory
  MaxStarts        \* bound: calls of start

ASSUME AttemptsAssumption == MaxAttempts \in Nat \ {0}
ASSUME LimitsAssumption   == /\ MaxReconnects \in Nat
                             /\ MaxSessions \in Nat
                             /\ MaxFaults \in Nat
                             /\ MaxStarts \in Nat

Sessions == 1..MaxSessions

VARIABLES
  cancel,         \* external_cancel
  stopRequested,  \* stop_requested_
  streaming,      \* streaming_
  ready,          \* media_startup_ready_
  inputReady,     \* input_delivery_ready_
  sid,            \* session_id_, 0 when empty
  granted,        \* sessions the server has granted
  deletes,        \* deleteSessionAsync calls for each session
  opc, oid,       \* the owner, and its local session
  attempt,        \* attempt, from 1
  spc, ssid,      \* the stream thread, and its local session_id
  sconn,          \* its local connected
  controlled,     \* its local control_started
  prepared,       \* its local reconnect_prepared
  retries,        \* its local reconnect_count
  rested,         \* the backoff since last_reconnect has elapsed
  kpc, kid,       \* the control thread, and its active_session_id
  conn,           \* the peer: "none", "up" (not connected) or "ready"
  mediaOn,        \* the peer's media gate
  assoc,          \* number of the peer's association
  acked,          \* association whose control handshake succeeded last
  mediaUp,        \* the media pipeline is initialised
  mediaFrom,      \* associations the pipeline's current source got media from
  starts, faults  \* so far

flagVars    == <<stopRequested, streaming, ready, inputReady>>
serverVars  == <<sid, granted, deletes>>
ownerVars   == <<opc, oid, attempt, starts>>
loopVars    == <<sconn, controlled, prepared, retries, rested>>
streamVars  == <<spc, ssid, loopVars>>
controlVars == <<kpc, kid>>
peerVars    == <<conn, mediaOn, assoc, acked>>
mediaVars   == <<mediaUp, mediaFrom>>
vars == <<cancel, flagVars, serverVars, ownerVars, streamVars, controlVars,
          peerVars, mediaVars, faults>>

Cancelled == stopRequested \/ cancel
Fault == faults < MaxFaults /\ faults' = faults + 1

(* Every thread the owner started has left its loop.                       *)
Gone(pc) == pc \in {"none", "exited"}

(* Seeded faults: plausible mistakes in operators defined below; no action *)
(* uses them.                                                              *)
DropsLocally(id) ==
  /\ ssid' = 0 /\ UNCHANGED sid
  /\ deletes' = IF id = 0 THEN deletes ELSE [deletes EXCEPT ![id] = @ + 1]
SourceKept ==
  /\ inputReady' = FALSE /\ mediaOn' = FALSE
  /\ conn' = "none" /\ UNCHANGED mediaFrom
JoinsStreamOnly == Gone(spc)
FlagsKept ==
  /\ ready' = FALSE /\ inputReady' = FALSE
  /\ opc' = "join" /\ UNCHANGED <<stopRequested, streaming>>
FailureNotCounted ==
  /\ rested' = FALSE /\ spc' = "top"
  /\ UNCHANGED <<retries, controlled, prepared>>

(* attempt + 1 < max_start_attempts                                        *)
MayRetry == attempt < MaxAttempts

(* The condition of runLoop and controlLoop.                               *)
Live == streaming /\ ~Cancelled

Init ==
  /\ cancel = FALSE
  /\ stopRequested = FALSE /\ streaming = FALSE
  /\ ready = FALSE /\ inputReady = FALSE
  /\ sid = 0 /\ granted = 0 /\ deletes = [id \in Sessions |-> 0]
  /\ opc = "idle" /\ oid = 0 /\ attempt = 0 /\ starts = 0
  /\ spc = "none" /\ ssid = 0 /\ sconn = FALSE /\ controlled = FALSE
  /\ prepared = FALSE /\ retries = 0 /\ rested = FALSE
  /\ kpc = "none" /\ kid = 0
  /\ conn = "none" /\ mediaOn = FALSE /\ assoc = 0 /\ acked = 0
  /\ mediaUp = FALSE /\ mediaFrom = {}
  /\ faults = 0

(* deleteSessionAsync: the session is handed to a delete worker.           *)
DeleteSessionAsync(id) ==
  deletes' = IF id = 0 THEN deletes ELSE [deletes EXCEPT ![id] = @ + 1]

(* control_cv_.notify_all(): only a thread that already waits hears it.    *)
Notified(pc) == IF pc = "waiting" THEN "check" ELSE pc

(* createSession: the session the server granted, 0 for none.              *)
Grants(id) ==
  \/ id = 0 /\ UNCHANGED granted
  \/ granted < MaxSessions /\ granted' = granted + 1 /\ id = granted + 1

(* createAndWait fails: something broke, or the server has no more to give.*)
Refused == Fault \/ (granted = MaxSessions /\ UNCHANGED faults)

-----------------------------------------------------------------------------
(* start, on the owner.                                                    *)

OwnerGoes(pc) == opc' = pc
OwnerOnly == UNCHANGED <<flagVars, streamVars, controlVars, cancel, starts>>

(* failStart and cancelStart: cleanupResources, with no thread running.    *)
Abandon == OwnerGoes("cleanup")

(* The controller made a new session object and a new transport.           *)
StartCall ==
  /\ opc = "idle" /\ spc = "none"
  /\ starts < MaxStarts /\ starts' = starts + 1
  /\ cancel' = FALSE
  /\ stopRequested' = FALSE /\ streaming' = FALSE
  /\ ready' = FALSE /\ inputReady' = FALSE
  /\ attempt' = 1 /\ mediaOn' = FALSE /\ OwnerGoes("stale")
  /\ UNCHANGED <<serverVars, oid, streamVars, controlVars, conn, assoc, acked,
                 mediaVars, faults>>

CleanupStaleSessions ==
  /\ opc = "stale"
  /\ IF Cancelled THEN Abandon ELSE OwnerGoes("create")
  /\ OwnerOnly
  /\ UNCHANGED <<serverVars, oid, attempt, peerVars, mediaVars, faults>>

(* Another attempt, after a delay that a cancel cuts short.                *)
RetrySleep ==
  /\ opc = "retry"
  /\ \/ Cancelled /\ Abandon /\ UNCHANGED attempt
     \/ ~Cancelled /\ attempt' = attempt + 1 /\ OwnerGoes("stale")
  /\ OwnerOnly
  /\ UNCHANGED <<serverVars, oid, peerVars, mediaVars, faults>>

(* The cancel is seen after createSession as well: then the session just   *)
(* granted is deleted.                                                     *)
CreateAndWait ==
  /\ opc = "create"
  /\ \E id \in 0..MaxSessions :
       /\ Grants(id)
       /\ \/ /\ ~Cancelled /\ id # 0
             /\ oid' = id /\ OwnerGoes("register")
             /\ UNCHANGED <<deletes, faults>>
          \/ /\ Cancelled /\ Abandon
             /\ DeleteSessionAsync(id) /\ UNCHANGED <<oid, faults>>
          \/ /\ ~Cancelled /\ Refused
             /\ Abandon \/ (MayRetry /\ OwnerGoes("retry"))
             /\ DeleteSessionAsync(id) /\ UNCHANGED oid
  /\ OwnerOnly
  /\ UNCHANGED <<sid, attempt, peerVars, mediaVars>>

(* session_id_ is set before anything can fail; then transport_.initialize.*)
Register ==
  /\ opc = "register"
  /\ sid' = oid
  /\ \/ Cancelled /\ Abandon /\ UNCHANGED <<conn, assoc, faults>>
     \/ /\ ~Cancelled /\ conn' = "up" /\ assoc' = assoc + 1
        /\ OwnerGoes("negotiate") /\ UNCHANGED faults
     \/ /\ ~Cancelled /\ Fault /\ OwnerGoes("attemptFailed")
        /\ UNCHANGED <<conn, assoc>>
  /\ OwnerOnly
  /\ UNCHANGED <<granted, deletes, oid, attempt, mediaOn, acked, mediaVars>>

(* negotiateWebRtc, the callbacks, the closed media gate, waitDataChannels.*)
Negotiate ==
  /\ opc = "negotiate"
  /\ \/ /\ ~Cancelled /\ conn' = "ready" /\ mediaOn' = FALSE
        /\ OwnerGoes("media") /\ UNCHANGED faults
     \/ /\ Cancelled /\ UNCHANGED <<conn, mediaOn, faults>>
        /\ OwnerGoes("attemptFailed")
     \/ /\ ~Cancelled /\ Fault /\ UNCHANGED <<conn, mediaOn>>
        /\ OwnerGoes("attemptFailed")
  /\ OwnerOnly
  /\ UNCHANGED <<serverVars, oid, attempt, assoc, acked, mediaVars>>

(* A cancelled start leaves the session to cleanupResources.               *)
AttemptFailed ==
  /\ opc = "attemptFailed"
  /\ \/ Cancelled /\ Abandon /\ UNCHANGED <<sid, deletes, oid, conn>>
     \/ /\ ~Cancelled
        /\ conn' = "none" /\ sid' = 0 /\ DeleteSessionAsync(oid) /\ oid' = 0
        /\ IF MayRetry THEN OwnerGoes("retry") ELSE Abandon
  /\ OwnerOnly
  /\ UNCHANGED <<granted, attempt, mediaOn, assoc, acked, mediaVars, faults>>

(* media_.initialize, gamepad_.initialize, then streaming_ = true.         *)
MediaInit ==
  /\ opc = "media"
  /\ \/ Cancelled /\ Abandon /\ UNCHANGED <<streaming, inputReady, mediaVars, faults>>
     \/ /\ ~Cancelled /\ Fault /\ Abandon
        /\ mediaUp' \in BOOLEAN
        /\ UNCHANGED <<streaming, inputReady, mediaFrom>>
     \/ /\ ~Cancelled /\ OwnerGoes("launch")
        /\ mediaUp' = TRUE /\ mediaFrom' = {}
        /\ streaming' = TRUE /\ inputReady' = FALSE /\ UNCHANGED faults
  /\ UNCHANGED <<cancel, stopRequested, ready, serverVars, oid, attempt, starts,
                 streamVars, controlVars, peerVars>>

(* stop, up to its joins.                                                  *)
StopFlags ==
  /\ stopRequested' = TRUE /\ streaming' = FALSE
  /\ inputReady' = FALSE /\ ready' = FALSE
  /\ OwnerGoes("join")

(* The loops' locals when their threads begin.                             *)
FreshLoop ==
  /\ ssid' = oid /\ sconn' = FALSE /\ controlled' = FALSE
  /\ prepared' = FALSE /\ retries' = 0 /\ rested' = FALSE

(* Either thread may fail to be created: start stops what there is.        *)
Launch ==
  /\ opc = "launch"
  /\ \/ /\ spc' = "top" /\ kpc' = "check" /\ FreshLoop
        /\ OwnerGoes("await") /\ UNCHANGED <<flagVars, faults>>
     \/ /\ Fault /\ StopFlags /\ UNCHANGED kpc
        /\ \/ spc' = "top" /\ FreshLoop
           \/ UNCHANGED streamVars
  /\ oid' = 0
  /\ UNCHANGED <<cancel, serverVars, attempt, starts, kid, peerVars, mediaVars>>

(* The wait for media_startup_ready_ ends well, or by a timeout, the end   *)
(* of the stream or a cancel.                                              *)
AwaitReady ==
  /\ opc = "await" /\ ready
  /\ OwnerGoes("idle")
  /\ OwnerOnly
  /\ UNCHANGED <<serverVars, oid, attempt, peerVars, mediaVars, faults>>

StopQuiet == UNCHANGED <<cancel, serverVars, oid, attempt, starts, streamVars,
                         kid, peerVars, mediaVars, faults>>

AwaitFails ==
  /\ opc = "await" /\ ~ready
  /\ StopFlags /\ kpc' = Notified(kpc)
  /\ StopQuiet

StopCall ==
  /\ opc = "idle" /\ spc # "none"
  /\ StopFlags /\ kpc' = Notified(kpc)
  /\ StopQuiet

WorkersJoined == Gone(spc) /\ Gone(kpc)

Join ==
  /\ opc = "join" /\ WorkersJoined
  /\ OwnerGoes("cleanup")
  /\ OwnerOnly
  /\ UNCHANGED <<serverVars, oid, attempt, peerVars, mediaVars, faults>>

(* cleanupResources: take session_id_, delete it, peer, media.  The        *)
(* threads and their locals are gone.                                      *)
CleanupResources ==
  /\ opc = "cleanup"
  /\ sid' = 0 /\ DeleteSessionAsync(sid) /\ oid' = 0
  /\ streaming' = FALSE
  /\ conn' = "none" /\ mediaUp' = FALSE /\ mediaFrom' = {}
  /\ spc' = "none" /\ ssid' = 0 /\ kpc' = "none" /\ kid' = 0
  /\ OwnerGoes("idle")
  /\ UNCHANGED <<cancel, stopRequested, ready, inputReady, granted, attempt,
                 starts, loopVars, mediaOn, assoc, acked, faults>>

(* requestStreamStop, from the UI thread.                                  *)
RequestStreamStop ==
  /\ opc # "idle" \/ spc # "none"
  /\ ~cancel /\ cancel' = TRUE
  /\ UNCHANGED <<flagVars, serverVars, ownerVars, streamVars, controlVars,
                 peerVars, mediaVars, faults>>

OwnerNext ==
  \/ CleanupStaleSessions \/ RetrySleep \/ CreateAndWait \/ Register
  \/ Negotiate \/ AttemptFailed \/ MediaInit \/ Launch
  \/ AwaitReady \/ AwaitFails \/ Join \/ CleanupResources
-----------------------------------------------------------------------------
(* runLoop, on the stream thread.                                          *)

StreamGoes(pc) == spc' = pc
StreamOnly == UNCHANGED <<cancel, stopRequested, ownerVars, controlVars, mediaUp>>

StreamTop ==
  /\ spc = "top"
  /\ StreamGoes(IF Live THEN "pump" ELSE "end")
  /\ StreamOnly
  /\ UNCHANGED <<streaming, ready, inputReady, serverVars, ssid, loopVars,
                 peerVars, mediaFrom, faults>>

(* prepareFreshSessionReconnect: input, gate, peer, then the media source. *)
PrepareFresh ==
  /\ inputReady' = FALSE /\ mediaOn' = FALSE
  /\ conn' = "none" /\ mediaFrom' = {}

(* request_fresh_reconnect                                                 *)
RequestFreshReconnect ==
  /\ prepared' = TRUE
  /\ IF prepared THEN UNCHANGED <<inputReady, mediaOn, conn, mediaFrom>>
     ELSE PrepareFresh

(* processEvents: the connection may be lost, or be reported again by the  *)
(* library, a frame may come in, a data channel may run out of its budget. *)
ConnectionChanges ==
  /\ \/ conn' = conn
     \/ conn = "ready" /\ conn' = "up"
     \/ conn = "up" /\ conn' = "ready"
  /\ inputReady' = (inputReady /\ conn' = "ready")
  /\ UNCHANGED <<prepared, mediaOn, mediaFrom>>

FrameArrives ==
  /\ conn = "ready" /\ mediaOn
  /\ mediaFrom' = mediaFrom \cup {assoc}
  /\ UNCHANGED <<prepared, mediaOn, conn, inputReady>>

ChannelFails == conn = "ready" /\ RequestFreshReconnect

Pump ==
  /\ spc = "pump"
  /\ ConnectionChanges \/ FrameArrives \/ ChannelFails
  /\ sconn' = (conn' = "ready")
  /\ StreamGoes(IF ~sconn' THEN "tail"
                ELSE IF controlled THEN "watch" ELSE "control")
  /\ StreamOnly
  /\ UNCHANGED <<streaming, ready, serverVars, ssid, controlled, retries, rested,
                 assoc, acked, faults>>

(* channels_.startProtocol, then media, input and the startup flag.        *)
ControlHandshake ==
  /\ spc = "control"
  /\ \/ /\ mediaOn' = TRUE /\ acked' = assoc
        /\ controlled' = TRUE /\ inputReady' = TRUE /\ ready' = TRUE
        /\ StreamGoes("watch") /\ UNCHANGED faults
     \/ /\ Cancelled /\ StreamGoes("end")
        /\ UNCHANGED <<mediaOn, acked, controlled, inputReady, ready, faults>>
     \/ /\ ~Cancelled /\ Fault /\ StreamGoes("tail")
        /\ UNCHANGED <<mediaOn, acked, controlled, inputReady, ready>>
  /\ StreamOnly
  /\ UNCHANGED <<streaming, serverVars, ssid, sconn, prepared, retries, rested,
                 conn, assoc, mediaFrom>>

(* decideVideoWatchdogAction: carry on, reconnect, or stop with an error.  *)
(* The tail still sees the connected of before a reconnect request.        *)
Watchdog ==
  /\ spc = "watch"
  /\ \/ /\ StreamGoes("tail")
        /\ UNCHANGED <<streaming, prepared, inputReady, mediaOn, conn,
                       mediaFrom, faults>>
     \/ /\ Fault /\ RequestFreshReconnect /\ StreamGoes("tail")
        /\ UNCHANGED streaming
     \/ /\ Fault /\ streaming' = FALSE /\ StreamGoes("end")
        /\ UNCHANGED <<prepared, inputReady, mediaOn, conn, mediaFrom>>
  /\ StreamOnly
  /\ UNCHANGED <<ready, serverVars, ssid, sconn, controlled, retries, rested,
                 assoc, acked>>

BackoffElapses ==
  /\ ~Gone(spc) /\ ~rested
  /\ rested' = TRUE
  /\ UNCHANGED <<cancel, flagVars, serverVars, ownerVars, spc, ssid, sconn,
                 controlled, prepared, retries, controlVars, peerVars,
                 mediaVars, faults>>

Exhausted == retries >= MaxReconnects

(* The end of an iteration that needs no reconnect yet.                    *)
Tail ==
  /\ spc = "tail"
  /\ \/ /\ sconn /\ retries' = 0 /\ StreamGoes("top") /\ UNCHANGED streaming
     \/ /\ ~sconn /\ Exhausted /\ streaming' = FALSE
        /\ StreamGoes("end") /\ UNCHANGED retries
     \/ /\ ~sconn /\ ~Exhausted /\ ~rested
        /\ StreamGoes("top") /\ UNCHANGED <<streaming, retries>>
  /\ StreamOnly
  /\ UNCHANGED <<ready, inputReady, serverVars, ssid, sconn, controlled, prepared,
                 rested, peerVars, mediaFrom, faults>>

(* An exception out of the loop's body.                                    *)
LoopThrows ==
  /\ spc \in {"pump", "watch", "tail"} /\ Fault
  /\ streaming' = FALSE /\ StreamGoes("end")
  /\ StreamOnly
  /\ UNCHANGED <<ready, inputReady, serverVars, ssid, loopVars, peerVars, mediaFrom>>

LoopEnds ==
  /\ spc = "end"
  /\ streaming' = FALSE /\ kpc' = Notified(kpc)
  /\ StreamGoes("exited")
  /\ UNCHANGED <<cancel, stopRequested, ready, inputReady, ownerVars, kid, mediaUp,
                 serverVars, ssid, loopVars, peerVars, mediaFrom, faults>>

-----------------------------------------------------------------------------
(* reconnectWithFreshSession, on the stream thread.                        *)

(* session_api_mutex_ is held by the control thread across its calls.      *)
ApiFree == kpc \notin {"send", "refresh", "resend", "token"}

ReconnectQuiet ==
  /\ StreamOnly
  /\ UNCHANGED <<streaming, ready>>

(* The outcome of the attempt, in the loop's locals.                       *)
ReconnectFails ==
  /\ retries' = retries + 1 /\ rested' = FALSE
  /\ StreamGoes("top")
  /\ UNCHANGED <<controlled, prepared>>

ReconnectSucceeds ==
  /\ controlled' = FALSE /\ retries' = 0 /\ prepared' = FALSE /\ rested' = FALSE
  /\ StreamGoes("top")

(* The old session: out of session_id_, then deleted.                      *)
DropSession(id) == sid' = 0 /\ ssid' = 0 /\ DeleteSessionAsync(id)

ReconnectBegins ==
  /\ spc = "tail" /\ ~sconn /\ ~Exhausted /\ rested
  /\ RequestFreshReconnect
  /\ DropSession(ssid)
  /\ StreamGoes("rcCreate")
  /\ ReconnectQuiet
  /\ UNCHANGED <<granted, sconn, controlled, retries, rested, assoc, acked, faults>>

(* cleanupStaleSessions and createAndWait, each under session_api_mutex_.  *)
RcCreate ==
  /\ spc = "rcCreate" /\ ApiFree
  /\ \E id \in 0..MaxSessions :
       /\ Grants(id)
       /\ \/ /\ ~Cancelled /\ id # 0
             /\ ssid' = id /\ sid' = id
             /\ StreamGoes("rcTransport")
             /\ UNCHANGED <<deletes, controlled, prepared, retries, rested, faults>>
          \/ /\ \/ Cancelled /\ UNCHANGED faults
                \/ ~Cancelled /\ Refused
             /\ DeleteSessionAsync(id) /\ ReconnectFails
             /\ UNCHANGED <<ssid, sid>>
  /\ ReconnectQuiet
  /\ UNCHANGED <<inputReady, sconn, peerVars, mediaFrom>>

(* The new one fails: deleted while session_id_ still names it.            *)
NewSessionFails ==
  /\ conn' = "none" /\ DeleteSessionAsync(ssid) /\ StreamGoes("rcDrop")

RcTransport ==
  /\ spc = "rcTransport"
  /\ \/ /\ conn' = "up" /\ assoc' = assoc + 1 /\ mediaOn' = FALSE
        /\ StreamGoes("rcNegotiate")
        /\ UNCHANGED <<deletes, faults>>
     \/ /\ Fault /\ NewSessionFails /\ UNCHANGED <<assoc, mediaOn>>
  /\ ReconnectQuiet
  /\ UNCHANGED <<sid, ssid, granted, inputReady, sconn, controlled, prepared,
                 retries, rested, acked, mediaFrom>>

(* negotiateWebRtc under session_api_mutex_, then waitDataChannels.        *)
RcNegotiate ==
  /\ spc = "rcNegotiate" /\ ApiFree
  /\ \/ /\ ~Cancelled /\ conn' = "ready" /\ ReconnectSucceeds
        /\ UNCHANGED <<deletes, faults>>
     \/ /\ \/ Cancelled /\ UNCHANGED faults
           \/ ~Cancelled /\ Fault
        /\ NewSessionFails
        /\ UNCHANGED <<controlled, prepared, retries, rested>>
  /\ ReconnectQuiet
  /\ UNCHANGED <<sid, ssid, granted, inputReady, sconn, mediaOn, assoc, acked,
                 mediaFrom>>

RcDrop ==
  /\ spc = "rcDrop"
  /\ sid' = 0 /\ ssid' = 0 /\ ReconnectFails
  /\ ReconnectQuiet
  /\ UNCHANGED <<granted, deletes, inputReady, sconn, peerVars, mediaFrom, faults>>

StreamNext ==
  \/ StreamTop \/ Pump \/ ControlHandshake \/ Watchdog \/ Tail \/ LoopEnds
  \/ ReconnectBegins \/ RcCreate \/ RcTransport \/ RcNegotiate \/ RcDrop

-----------------------------------------------------------------------------
(* controlLoop, on the control thread.                                     *)

ControlGoes(pc) == kpc' = pc
ControlOnly == UNCHANGED <<cancel, flagVars, serverVars, ownerVars, streamVars,
                           peerVars, mediaVars>>
ControlStep == ControlOnly /\ UNCHANGED <<kid, faults>>

(* The loop's condition and the predicate of wait_until, under             *)
(* control_mutex_, which no one who notifies takes.                        *)
ControlChecks ==
  /\ kpc = "check"
  /\ ControlGoes(IF Live THEN "armed" ELSE "exited")
  /\ ControlStep

ControlBlocks == kpc = "armed" /\ ControlGoes("waiting") /\ ControlStep

(* next_keep_alive or next_token_refresh is reached.                       *)
DeadlinePasses ==
  /\ kpc = "waiting"
  /\ ControlGoes(IF Live THEN "due" ELSE "exited")
  /\ ControlStep

(* Keep-alive: session_api_mutex_, then session_id_ under state_mutex_.    *)
KeepAliveReads ==
  /\ kpc = "due"
  /\ IF sid # 0 /\ Live THEN kid' = sid /\ ControlGoes("send")
     ELSE kid' = 0 /\ ControlGoes("check")
  /\ ControlOnly /\ UNCHANGED faults

(* Only an authentication error is answered, by a token refresh.           *)
KeepAliveSent ==
  /\ kpc = "send"
  /\ \/ ControlGoes("check") /\ kid' = 0 /\ UNCHANGED faults
     \/ Fault /\ Live /\ ControlGoes("refresh") /\ UNCHANGED kid
  /\ ControlOnly

TokenRefreshed ==
  /\ kpc = "refresh"
  /\ \/ Live /\ ControlGoes("resend") /\ UNCHANGED kid
     \/ ControlGoes("check") /\ kid' = 0
  /\ ControlOnly /\ UNCHANGED faults

KeepAliveResent ==
  /\ kpc = "resend"
  /\ ControlGoes("check") /\ kid' = 0
  /\ ControlOnly /\ UNCHANGED faults

(* The periodic refresh, under session_api_mutex_.                         *)
PeriodicRefresh ==
  /\ \/ kpc = "due" /\ ControlGoes("token")
     \/ kpc = "token" /\ ControlGoes("check")
  /\ ControlStep

ControlRuns ==
  \/ ControlChecks \/ ControlBlocks \/ KeepAliveReads \/ KeepAliveSent
  \/ TokenRefreshed \/ KeepAliveResent \/ PeriodicRefresh
ControlNext == ControlRuns \/ DeadlinePasses

-----------------------------------------------------------------------------
Next == \/ StartCall \/ StopCall \/ RequestStreamStop
        \/ OwnerNext \/ StreamNext \/ BackoffElapses \/ LoopThrows
        \/ ControlNext

Spec == Init /\ [][Next]_vars

(* Every thread that runs is scheduled, the awaited calls return and the   *)
(* clock advances; nothing is assumed of callers or of the network.  The   *)
(* control thread leaves session_api_mutex_ alone for the length of a      *)
(* keep-alive interval between its calls, so the stream thread gets it.    *)
Fairness ==
  /\ WF_vars(OwnerNext) /\ WF_vars(StreamNext) /\ WF_vars(ControlNext)
  /\ SF_vars(RcCreate) /\ SF_vars(RcNegotiate)
  /\ WF_vars(BackoffElapses)
LiveSpec == Spec /\ Fairness

-----------------------------------------------------------------------------
(* Every variable holds a value of its kind; counters stay in their bounds.*)
TypeOK ==
  /\ {cancel, stopRequested, streaming, ready, inputReady} \subseteq BOOLEAN
  /\ {sconn, controlled, prepared, rested, mediaOn, mediaUp} \subseteq BOOLEAN
  /\ {sid, oid, ssid, kid, granted} \subseteq 0..MaxSessions
  /\ deletes \in [Sessions -> Nat]
  /\ opc \in {"idle", "stale", "retry", "create", "register", "negotiate",
              "attemptFailed", "media", "launch", "await", "join", "cleanup"}
  /\ attempt \in 0..MaxAttempts
  /\ spc \in {"none", "top", "pump", "control", "watch", "tail", "end",
              "rcCreate", "rcTransport", "rcNegotiate", "rcDrop", "exited"}
  /\ kpc \in {"none", "check", "armed", "waiting", "due", "send", "refresh",
              "resend", "token", "exited"}
  /\ retries \in 0..MaxReconnects
  /\ conn \in {"none", "up", "ready"}
  /\ {assoc, acked} \subseteq Nat
  /\ mediaFrom \subseteq Nat
  /\ starts \in 0..MaxStarts /\ faults \in 0..MaxFaults

(* No session is left behind on the server and none is deleted twice: when *)
(* the object is at rest, however its start, its reconnects and its stop   *)
(* went, each session it was granted has been deleted exactly once.        *)
EverySessionDeletedOnce ==
  /\ \A id \in Sessions : deletes[id] <= 1
  /\ (opc = "idle" /\ spc = "none") => \A id \in 1..granted : deletes[id] = 1

(* The session named by session_id_, where the next keep-alive will go,    *)
(* and the one the stream runs on have not been deleted, but for the moment*)
(* when a new one failed and both still name it.  The copy of the id that  *)
(* the control thread took earlier is not covered: it may outlive it.       *)
SessionInUseIsAlive ==
  spc # "rcDrop" => \A id \in {sid, ssid} \ {0} : deletes[id] = 0

(* prepareForNewMediaSource: between two resets of its source the pipeline *)
(* hears one association only.                                             *)
OneAssociationPerSource == Cardinality(mediaFrom) <= 1

(* RTP is let in, and input let out, only on an association whose own      *)
(* control handshake succeeded; an earlier one's does not count.           *)
MediaNeedsHandshake ==
  (mediaOn \/ (streaming /\ inputReady)) => acked = assoc

(* What each association may do is settled by its own reset and handshake. *)
AssociationSafety == TypeOK /\ OneAssociationPerSource /\ MediaNeedsHandshake

(* cleanupResources takes the peer and the pipeline away from nobody: both *)
(* threads have left their loops.                                          *)
CleanupAfterWorkers == opc = "cleanup" => Gone(spc) /\ Gone(kpc)

(* start comes to an end, with a stream or without.                        *)
StartEnds == opc = "stale" ~> opc = "idle"

(* stop joins its threads and returns.                                     *)
StopEnds == opc = "join" ~> opc = "idle"

(* The user's cancel alone makes the stream loop leave.                    *)
CancelEndsStream == (cancel /\ opc = "idle" /\ ~Gone(spc)) ~> Gone(spc)

(* No caller waits for ever: start and stop return, a cancel is heard.     *)
SessionLiveness == StartEnds /\ StopEnds /\ CancelEndsStream

(* A lost connection comes back, or the stream ends with an error.         *)
LossResolves == (spc = "tail" /\ ~sconn) ~> (sconn \/ Gone(spc))
=============================================================================
