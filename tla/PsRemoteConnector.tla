------------------------- MODULE PsRemoteConnector -------------------------
(***************************************************************************)
(* ps/ps_remote_connector.cpp with ps/ps_remote_retry_policy.h: connect    *)
(* tries up to three times to punch a hole to the console, and hands the   *)
(* hole-punch session of the attempt that succeeds to its caller.  Another *)
(* thread may cancel at any time: it reaches the session through session_, *)
(* which connect publishes and withdraws under session_mutex_.             *)
(*                                                                         *)
(* A session is the number of its creation.  The calls into the library    *)
(* take their time and then succeed or fail; how wide the ports are        *)
(* guessed (the policy's second mode) is data.                             *)
(***************************************************************************)
EXTENDS Naturals, FiniteSets

CONSTANTS
  MaxFaults,    \* bound: failures of the network, the console and threads
  MaxResumes    \* bound: times the stream is resumed
ASSUME BoundsAssumption == MaxFaults \in Nat /\ MaxResumes \in Nat

kRemoteMaxAttempts == 3
Handles == 1..(kRemoteMaxAttempts * (MaxResumes + 1))
None == 0

VARIABLES
  conn,        \* connect: its next step, attempt, session, error, refreshed
  published,   \* session_
  rcancel,     \* cancel_requested_ of the connector
  created,     \* sessions created so far
  finis,       \* how often each was finished; not in the code
  resultH,     \* remote_result_.holepunch_session of the controller
  faults       \* failures so far
connVars == <<conn, published, rcancel, created, finis, resultH, faults>>

Fault == faults < MaxFaults /\ faults' = faults + 1
At(step) == conn' = [conn EXCEPT !.at = step]
FailsWith(e) == conn' = [conn EXCEPT !.at = "unpublish", !.err = e]
Finishes(h) == finis' = [finis EXCEPT ![h] = @ + 1]

(* session_ = nullptr under session_mutex_.                                *)
Withdraws == published' = None

(* chiaki_holepunch_session_fini of an attempt that failed.                *)
FinishesAttempt(h) == Finishes(h)

ConnInit ==
  /\ conn = [at |-> "off", try |-> 0, handle |-> None, err |-> "none", refreshed |-> FALSE]
  /\ published = None /\ rcancel = FALSE /\ created = 0
  /\ finis = [h \in Handles |-> 0] /\ resultH = None /\ faults = 0

(* A cancel may come before connect is entered, and is never reset.        *)
ConnectEnters ==
  /\ conn.at = "enter"
  /\ \/ rcancel /\ At("failed") /\ UNCHANGED resultH
     \/ /\ ~rcancel /\ resultH' = None
        /\ conn' = [conn EXCEPT !.at = "init", !.try = 1, !.err = "none", !.refreshed = FALSE]
  /\ UNCHANGED <<published, rcancel, created, finis, faults>>

InitSession ==
  /\ conn.at = "init"
  /\ \/ Fault /\ At("failed") /\ UNCHANGED created
     \/ /\ created' = created + 1 /\ UNCHANGED faults
        /\ conn' = [conn EXCEPT !.at = "publish", !.handle = created']
  /\ UNCHANGED <<published, rcancel, finis, resultH>>

Publish ==
  /\ conn.at = "publish" /\ published' = conn.handle
  /\ IF rcancel THEN FailsWith("cancel") ELSE At("create")
  /\ UNCHANGED <<rcancel, created, finis, resultH, faults>>

(* One call into the library and the look at the flag after it: a session  *)
(* whose cancel was requested fails with it, others may be rejected by the *)
(* service, or fail in a way that is worth another attempt or not.         *)
CallReturns(call, next, errors) ==
  /\ conn.at = call
  /\ \/ rcancel /\ FailsWith("cancel") /\ UNCHANGED faults
     \/ ~rcancel /\ At(next) /\ UNCHANGED faults
     \/ ~rcancel /\ Fault /\ \E e \in errors : FailsWith(e)
  /\ UNCHANGED <<published, rcancel, created, finis, resultH>>
CreateSession == CallReturns("create", "start", {"reject", "retry", "final"})
StartConsole == CallReturns("start", "punch", {"retry", "final"})
PunchControl == CallReturns("punch", "ready", {"retry", "final"})

(* A failed attempt: the session is withdrawn, and then finished.          *)
Unpublish ==
  /\ conn.at = "unpublish" /\ Withdraws /\ At("finish")
  /\ UNCHANGED <<rcancel, created, finis, resultH, faults>>

AttemptRemains == conn.try < kRemoteMaxAttempts
(* shouldRefreshPsnToken and recordFailure.                                *)
ShouldRefresh == conn.err = "reject" /\ ~conn.refreshed /\ AttemptRemains /\ ~rcancel
ShouldRetry == conn.err = "retry" /\ AttemptRemains /\ ~rcancel

FinishAttempt ==
  /\ conn.at = "finish" /\ FinishesAttempt(conn.handle)
  /\ conn' = [conn EXCEPT !.handle = None, !.refreshed = @ \/ ShouldRefresh,
                !.at = IF ShouldRefresh THEN "refresh"
                       ELSE IF ShouldRetry THEN "backoff" ELSE "failed"]
  /\ UNCHANGED <<published, rcancel, created, resultH, faults>>

NextAttempt == conn' = [conn EXCEPT !.at = "init", !.try = @ + 1, !.err = "none"]

(* The token is refreshed once, and the flag looked at before the retry.   *)
RefreshToken ==
  /\ conn.at = "refresh"
  /\ \/ rcancel /\ At("failed") /\ UNCHANGED faults
     \/ ~rcancel /\ Fault /\ At("failed")
     \/ ~rcancel /\ NextAttempt /\ UNCHANGED faults
  /\ UNCHANGED <<published, rcancel, created, finis, resultH>>

(* The back-off ends with its time or with a cancel; a notification that   *)
(* comes before the wait begins only delays it by that time.               *)
Backoff ==
  /\ conn.at = "backoff"
  /\ IF rcancel THEN At("failed") ELSE NextAttempt
  /\ UNCHANGED <<published, rcancel, created, finis, resultH, faults>>

(* Success: the result takes the session, and then it is withdrawn.        *)
Ready ==
  /\ conn.at = "ready" /\ resultH' = conn.handle
  /\ conn' = [conn EXCEPT !.at = "handover", !.handle = None]
  /\ UNCHANGED <<published, rcancel, created, finis, faults>>
Handover ==
  /\ conn.at = "handover" /\ published' = None /\ At("ok")
  /\ UNCHANGED <<rcancel, created, finis, resultH, faults>>

Connects ==
  \/ ConnectEnters \/ InitSession \/ Publish \/ CreateSession \/ StartConsole
  \/ PunchControl \/ Unpublish \/ FinishAttempt \/ RefreshToken \/ Backoff
  \/ Ready \/ Handover

ConnSteps == {"off", "enter", "init", "publish", "create", "start", "punch", "unpublish",
              "finish", "refresh", "backoff", "ready", "handover", "ok", "failed"}
(* The types, and where an attempt has a session and has published it.     *)
ConnTypeOK ==
  /\ conn \in [at : ConnSteps, try : 0..kRemoteMaxAttempts, handle : Handles \cup {None},
               err : {"none", "reject", "retry", "final", "cancel"}, refreshed : BOOLEAN]
  /\ (conn.handle # None) <=>
       conn.at \in {"publish", "create", "start", "punch", "unpublish", "finish", "ready"}
  /\ published \in {None, conn.handle, resultH}
  /\ rcancel \in BOOLEAN /\ created \in 0..Cardinality(Handles)
  /\ finis \in [Handles -> Nat] /\ resultH \in Handles \cup {None} /\ faults \in 0..MaxFaults
=============================================================================
