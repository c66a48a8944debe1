-------------------------- MODULE StreamController --------------------------
(***************************************************************************)
(* app/stream_controller.cpp: what the threads that start, resume and stop *)
(* an Xbox stream do to each other.  One operation at a time holds         *)
(* stream_operation_mutex_; a stop request only sets a flag and advances   *)
(* stream_generation_, and reaches an operation that captured the          *)
(* generation before it.                                                   *)
(*                                                                         *)
(* The threads are named for the worker that runs them: "connect" from the *)
(* loading page, "resume" after a return to the foreground, "stop" for the *)
(* teardown, and "ui" when no worker could be made for it.  The stream     *)
(* session is the one of XboxSession, seen from outside.  Generations are  *)
(* compared for equality only: `current` is the set of those whose         *)
(* captured value is the value of stream_generation_.                      *)
(***************************************************************************)
EXTENDS Naturals, Sequences, FiniteSets

CONSTANT MaxFaults   \* bound: failures of the network, the host and threads
ASSUME FaultsAssumption == MaxFaults \in Nat

Threads == {"connect", "resume", "stop", "ui"}
Nobody == "nobody"

VARIABLES
  pc,          \* the next step of each thread, "idle" when it runs nothing
  op,          \* the thread that holds stream_operation_mutex_
  cancelReq,   \* cancel_requested_
  current,     \* holders of the current generation: threads, "session"
  state,       \* state_
  session,     \* stream_session_: "none", "live", or "dead" when its loop ended
  report,      \* set_disconnected of the stop in progress
  ticket,      \* the view for which "resume" runs
  terminal,    \* the views whose terminal_stop_ is set
  faults       \* failures so far
controlVars == <<op, cancelReq, current, state, session>>
ctrlVars == <<pc, op, cancelReq, current, state, session, report, ticket, terminal, faults>>

Goes(t, step) == pc' = [pc EXCEPT ![t] = step]
Fault == faults < MaxFaults /\ faults' = faults + 1

(* requestStreamStop *)
RequestStreamStop == cancelReq' = TRUE /\ current' = {}

(* A seeded fault, a plausible mistake in the next operator; no action     *)
(* uses it.                                                                *)
TicketIgnored(t) == FALSE

(* The cancel callback given to resumeAfterForeground; a connect has none. *)
CallerCancels(t) == t = "resume" /\ ticket \in terminal

(* isStreamCancelled of the generation t captured, and stream_cancel.      *)
IsStreamCancelled(t) == cancelReq \/ t \notin current
StreamCancel(t) == IsStreamCancelled(t) \/ CallerCancels(t)
SessionCancelled == IsStreamCancelled("session")

ControlInit ==
  /\ pc = [t \in Threads |-> "idle"] /\ op = Nobody
  /\ cancelReq = FALSE /\ current = {} /\ state = "Idle" /\ session = "none"
  /\ report = FALSE /\ ticket = 0 /\ terminal = {} /\ faults = 0

-----------------------------------------------------------------------------
(* startStreamWithProfile.                                                 *)

(* The request goes out before the mutex is taken, whatever the ticket.    *)
StartBegins(t) ==
  /\ pc[t] = "begin" /\ RequestStreamStop /\ Goes(t, "lock")
  /\ UNCHANGED <<op, state, session, report, ticket, terminal, faults>>

StartLocks(t) ==
  /\ pc[t] = "lock" /\ op = Nobody
  /\ \/ CallerCancels(t) /\ Goes(t, "failed") /\ UNCHANGED op
     \/ ~CallerCancels(t) /\ op' = t /\ Goes(t, "generation")
  /\ UNCHANGED <<cancelReq, current, state, session, report, ticket, terminal, faults>>

(* fetch_add on stream_generation_, and then, apart, the flag.             *)
TakesGeneration(t) ==
  /\ pc[t] = "generation" /\ current' = {t} /\ Goes(t, "clear")
  /\ UNCHANGED <<op, cancelReq, state, session, report, ticket, terminal, faults>>

ClearsCancel(t) ==
  /\ pc[t] = "clear"
  /\ \/ /\ CallerCancels(t)
        /\ RequestStreamStop /\ op' = Nobody /\ Goes(t, "failed")
     \/ /\ ~CallerCancels(t)
        /\ cancelReq' = FALSE /\ Goes(t, "replace") /\ UNCHANGED <<op, current>>
  /\ UNCHANGED <<state, session, report, ticket, terminal, faults>>

(* cleanupStreamResources(false): the old session is stopped and joined.   *)
ReplacesSession(t) ==
  /\ pc[t] = "replace" /\ session' = "none" /\ Goes(t, "authenticate")
  /\ UNCHANGED <<op, cancelReq, current, state, report, ticket, terminal, faults>>

(* Tokens, the xCloud transfer token, the API client.  A cancelled refresh *)
(* leaves state_ as it was.                                                *)
Authenticates(t) ==
  /\ pc[t] = "authenticate"
  /\ \/ /\ StreamCancel(t)
        /\ op' = Nobody /\ Goes(t, "failed") /\ UNCHANGED <<state, faults>>
     \/ /\ ~IsStreamCancelled(t) /\ Fault
        /\ state' = "Error" /\ op' = Nobody /\ Goes(t, "failed")
     \/ /\ ~IsStreamCancelled(t)
        /\ state' = "Connecting" /\ Goes(t, "session") /\ UNCHANGED <<op, faults>>
  /\ UNCHANGED <<cancelReq, current, session, report, ticket, terminal>>

(* XboxStreamSession::start up to the launch of its threads.               *)
SessionStarts(t) ==
  /\ pc[t] = "session"
  /\ \/ /\ StreamCancel(t)
        /\ state' = "Disconnected" /\ op' = Nobody /\ Goes(t, "failed")
        /\ UNCHANGED <<current, session, faults>>
     \/ /\ ~StreamCancel(t) /\ Fault
        /\ state' = "Error" /\ op' = Nobody /\ Goes(t, "failed")
        /\ UNCHANGED <<current, session>>
     \/ /\ ~StreamCancel(t)
        /\ session' = "live" /\ current' = current \cup {"session"}
        /\ Goes(t, "await") /\ UNCHANGED <<op, state, faults>>
  /\ UNCHANGED <<cancelReq, report, ticket, terminal>>

(* The wait for the control handshake: the loop sets the flag, or the wait *)
(* ends with a cancel, a dead loop or the deadline, and the session stops. *)
AwaitEnds(t) ==
  /\ pc[t] = "await"
  /\ \/ session = "live" /\ Goes(t, "streaming") /\ UNCHANGED <<op, state, session, faults>>
     \/ /\ \/ StreamCancel(t) /\ state' = "Disconnected" /\ UNCHANGED faults
           \/ ~StreamCancel(t) /\ session = "dead" /\ state' = "Error" /\ UNCHANGED faults
           \/ ~StreamCancel(t) /\ Fault /\ state' = "Error"
        /\ session' = "none" /\ op' = Nobody /\ Goes(t, "failed")
  /\ UNCHANGED <<cancelReq, current, report, ticket, terminal>>

(* on_streaming: nothing is looked at again after the wait.                *)
OnStreaming(t) ==
  /\ pc[t] = "streaming" /\ state' = "Streaming"
  /\ op' = Nobody /\ Goes(t, "ok")
  /\ UNCHANGED <<cancelReq, current, session, report, ticket, terminal, faults>>

StartStreamWithProfile(t) ==
  \/ StartBegins(t) \/ StartLocks(t) \/ TakesGeneration(t) \/ ClearsCancel(t)
  \/ ReplacesSession(t) \/ Authenticates(t) \/ SessionStarts(t) \/ AwaitEnds(t)
  \/ OnStreaming(t)

-----------------------------------------------------------------------------
(* resumeAfterForeground: a healthy session is kept, another is rebuilt.   *)
ResumeChecks ==
  /\ pc["resume"] \in {"resume", "rebuild"}
  /\ Goes("resume", IF CallerCancels("resume") THEN "failed"
                    ELSE IF pc["resume"] = "resume" THEN "resumeLock" ELSE "begin")
  /\ UNCHANGED <<controlVars, report, ticket, terminal, faults>>

ResumeLooks ==
  /\ pc["resume"] = "resumeLock" /\ op = Nobody
  /\ \/ CallerCancels("resume") /\ Goes("resume", "failed")
     \/ ~CallerCancels("resume") /\ state = "Streaming" /\ session = "live"
          /\ Goes("resume", "ok")
     \/ ~CallerCancels("resume") /\ Goes("resume", "rebuild")
  /\ UNCHANGED <<controlVars, report, ticket, terminal, faults>>

(* stopStream *)
StopBegins(t) ==
  /\ pc[t] = "stop" /\ RequestStreamStop /\ Goes(t, "stopLock")
  /\ UNCHANGED <<op, state, session, report, ticket, terminal, faults>>
StopLocks(t) ==
  /\ pc[t] = "stopLock" /\ op = Nobody /\ op' = t /\ Goes(t, "stopClean")
  /\ UNCHANGED <<cancelReq, current, state, session, report, ticket, terminal, faults>>

(* cleanupStreamResources(set_disconnected)                                *)
StopCleans(t) ==
  /\ pc[t] = "stopClean" /\ session' = "none"
  /\ state' = IF report THEN "Disconnected" ELSE state
  /\ op' = Nobody /\ Goes(t, "stopped")
  /\ UNCHANGED <<cancelReq, current, report, ticket, terminal, faults>>

StopStream(t) == StopBegins(t) \/ StopLocks(t) \/ StopCleans(t)

(* The session's loop: it reports an error, or a cancel ends it silently.  *)
SessionFails ==
  /\ session = "live" /\ Fault /\ session' = "dead" /\ state' = "Error"
  /\ UNCHANGED <<pc, op, cancelReq, current, report, ticket, terminal>>
SessionStopsItself ==
  /\ session = "live" /\ SessionCancelled /\ session' = "dead"
  /\ UNCHANGED <<pc, op, cancelReq, current, state, report, ticket, terminal, faults>>

(* A thread that has something to do in the controller.                    *)
Runs(t) == StartStreamWithProfile(t) \/ StopStream(t)
Resumes == ResumeChecks \/ ResumeLooks

-----------------------------------------------------------------------------
StartSteps == {"idle", "begin", "lock", "generation", "clear", "replace",
               "authenticate", "session", "await", "streaming", "ok", "failed"}
StopSteps == {"idle", "stop", "stopLock", "stopClean", "stopped"}
Steps == [connect |-> StartSteps \cup StopSteps \cup {"doneOk", "doneFailed"},
          resume |-> StartSteps \cup {"resume", "resumeLock", "rebuild"},
          stop |-> StopSteps, ui |-> StopSteps]
(* Between the lock and the return of an operation.                        *)
Locked == {"generation", "clear", "replace", "authenticate", "session", "await",
           "streaming", "stopClean"}
(* Which thread runs what, and who holds the mutex.                        *)
ControlTypeOK ==
  /\ DOMAIN pc = Threads
  /\ \A t \in Threads : pc[t] \in Steps[t] /\ (pc[t] \in Locked <=> op = t)
  /\ op \in Threads \cup {Nobody}
  /\ cancelReq \in BOOLEAN /\ report \in BOOLEAN
  /\ current \subseteq Threads \cup {"session"}
  /\ state \in {"Idle", "Connecting", "Streaming", "Disconnected", "Error"}
  /\ session \in {"none", "live", "dead"}
  /\ ticket \in Nat /\ terminal \subseteq Nat /\ faults \in 0..MaxFaults
=============================================================================
