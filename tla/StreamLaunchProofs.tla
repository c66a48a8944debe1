------------------------- MODULE StreamLaunchProofs -------------------------
(***************************************************************************)
(* Proofs about StreamLaunch, for every number of launches, focus losses   *)
(* and failures: no stream runs behind the menu, and a connection that was *)
(* cancelled is torn down by one owner, once.  And about NetworkWorkers,   *)
(* on whose threads the launches run: the shutdown outlives them all.      *)
(***************************************************************************)
EXTENDS StreamLaunch, NetworkWorkers, FiniteSetTheorems, TLAPS

(* Where a thread can be.                                                  *)
AllSteps == StartSteps \cup StopSteps \cup {"doneOk", "doneFailed", "resume", "resumeLock",
                                            "rebuild"}

(* Which thread runs what, and who holds the mutex.                        *)
ThreadInv ==
  /\ pc \in [Threads -> AllSteps]
  /\ pc["connect"] \in StartSteps \cup StopSteps \cup {"doneOk", "doneFailed"}
  /\ pc["resume"] \in StartSteps \cup {"resume", "resumeLock", "rebuild"}
  /\ pc["stop"] \in StopSteps /\ pc["ui"] \in StopSteps
  /\ \A t \in Threads : pc[t] \in Locked <=> op = t
  /\ op \in Threads \cup {Nobody}

(* Values that no argument needs.                                          *)
ControlInv ==
  /\ cancelReq \in BOOLEAN /\ report \in BOOLEAN
  /\ current \subseteq Threads \cup {"session"}
  /\ state \in {"Idle", "Connecting", "Streaming", "Disconnected", "Error"}
  /\ session \in {"none", "live", "dead"}
BoundInv ==
  /\ launch \in 0..MaxLaunches /\ ticket \in 0..launch /\ terminal \subseteq 0..launch
(* What the bounds of the model count, the position of the page and its    *)
(* flags, and the one teardown.                                            *)
CountInv ==
  /\ faults \in 0..MaxFaults /\ switches \in 0..MaxSwitches /\ focused \in BOOLEAN
PageType ==
  /\ screen \in {"menu", "loading", "view"}
  /\ load \in [DOMAIN FreshLoad -> BOOLEAN] /\ view \in [DOMAIN FreshView -> BOOLEAN]
OnceInv == teardowns \in {0, 1}

(* The closures posted: none of a launch to come, and one start at most.   *)
Closures == [what : {"start", "ok", "failed", "cancelled", "exit", "stopped", "resumed",
                     "notResumed"}, launch : 0..MaxLaunches]
QueueInv ==
  /\ posted \in Seq(Closures)
  /\ \A i \in 1..Len(posted) : posted[i].launch <= launch
  /\ \A i, j \in 1..Len(posted) :
       posted[i] = Closure("start") /\ posted[j] = Closure("start") => i = j
Posted(what) == \E i \in 1..Len(posted) : posted[i] = Closure(what)
StartPosted == Posted("start")
(* A closure of this launch that waits, by its kind.                       *)
OkPosted == Posted("ok")
FailedPosted == Posted("failed")
CancelledPosted == Posted("cancelled")
StoppedPosted == Posted("stopped")

(* A thread inside stopStream, or inside startStreamWithProfile.           *)
StopRunning == StopSteps \ {"idle"}
Starting == StartSteps \ {"idle"}

(* The connection worker belongs to the page, unless the page was cleaned  *)
(* up and left while it returns.                                           *)
WorkerInv ==
  /\ pc["connect"] # "idle" =>
       \/ screen = "loading"
       \/ /\ screen = "menu" /\ pc["connect"] \in {"doneOk", "doneFailed"}
          /\ load.cancel /\ load.claimed
  /\ pc["connect"] \in Starting => load.started /\ ~load.done
  /\ pc["connect"] \in {"doneOk", "doneFailed"} => load.done
  /\ pc["connect"] \in StopRunning => load.claimed /\ load.done

(* The loading page, with a single teardown.                               *)
LoadInv ==
  screen = "loading" =>
    /\ ~load.finished /\ pc["ui"] = "idle" /\ ~StoppedPosted
    /\ load.failure => ~load.cancel /\ pc["connect"] = "idle"
    /\ load.cancel => load.started
    /\ load.done => load.started \/ load.failure
    /\ OkPosted \/ FailedPosted => load.done /\ pc["connect"] = "idle"
    /\ ~load.done => ~CancelledPosted
    /\ StartPosted => /\ ~load.started /\ ~load.done /\ ~load.failure
                      /\ pc["connect"] = "idle"
    /\ load.claimed => load.cancel /\ load.done
    /\ load.claimed <=> teardowns = 1
    /\ pc["stop"] # "idle" => load.claimed /\ pc["connect"] \notin StopRunning
    /\ CancelledPosted =>
         load.claimed /\ pc["stop"] = "idle" /\ pc["connect"] \notin StopRunning

(* The view, with a single stop, and the menu.                             *)
ViewInv ==
  /\ screen = "view" =>
       /\ view.stopStarted => launch \in terminal
       /\ pc["stop"] # "idle" \/ pc["ui"] # "idle" \/ StoppedPosted => view.stopStarted
       /\ StoppedPosted => pc["stop"] = "idle"
       /\ pc["ui"] # "idle" => pc["stop"] = "idle"
  /\ screen = "menu" => pc["stop"] = "idle" /\ pc["ui"] = "idle"

(* A resume works for the view, or finds that it must not.                 *)
ResumeInv ==
  pc["resume"] # "idle" => ticket \in terminal \/ (screen = "view" /\ ticket = launch)

(* A launch that has no session: not yet, or it failed, or it was stopped. *)
BeforeSession == {"begin", "lock", "generation", "clear", "replace", "authenticate",
                  "session", "failed", "doneFailed"}
SessionOver ==
  \/ screen = "menu"
  \/ /\ screen = "loading"
     /\ \/ load.failure \/ ~load.started \/ FailedPosted \/ CancelledPosted
        \/ pc["connect"] \in BeforeSession \cup {"stopped"} \/ pc["stop"] = "stopped"
  \/ /\ screen = "view"
     /\ StoppedPosted \/ pc["stop"] = "stopped" \/ pc["ui"] = "stopped"
SessionInv == SessionOver => session # "live"

(* The inductive invariant.                                                *)
IInv ==
  /\ ThreadInv /\ ControlInv /\ BoundInv /\ CountInv /\ PageType /\ OnceInv /\ QueueInv
  /\ WorkerInv /\ LoadInv /\ ViewInv /\ ResumeInv /\ SessionInv

USE DEF ctrlVars, controlVars, uiVars, Goes, Fault, Threads, Nobody, StartSteps, StopSteps,
        AllSteps, RequestStreamStop

(* The steps of the workers, of the UI thread's closures and of the user.  *)
OperationEnds == Resumes \/ SessionFails \/ SessionStopsItself
WorkerActs == \/ ConnectReturns \/ ConnectHandsOver \/ ResumePosts
              \/ StopPosts("connect") \/ StopPosts("stop")
ResultIsShown == ConnectionResult /\ ~load.cancel
ClosureActs == \/ Dropped \/ StartConnection \/ ResultIsShown \/ CleanupPops
               \/ ResumeResult \/ Exit \/ StopReturns
Cleanups == RequestCancel \/ RepeatCancel \/ (ConnectionResult /\ load.cancel)
LeavesEarly == AcknowledgeFailure \/ CancelBeforeStart
ViewActs == \/ FocusLost \/ FocusGained \/ UserExits \/ OpenChild \/ CloseChild
            \/ Detects \/ UpdateThreadFails \/ InlineStopReturns

(* What a new page and a new view start from.                              *)
LEMMA FreshTypes ==
  /\ FreshLoad \in [DOMAIN FreshLoad -> BOOLEAN]
  /\ FreshView \in [DOMAIN FreshView -> BOOLEAN]
<1>1. FreshLoad \in [DOMAIN FreshLoad -> BOOLEAN]
  <2>1. DOMAIN FreshLoad = {"cancel", "started", "done", "claimed", "finished", "failure"}
    BY DEF FreshLoad
  <2>2. FreshLoad \in [cancel : BOOLEAN, started : BOOLEAN, done : BOOLEAN,
                       claimed : BOOLEAN, finished : BOOLEAN, failure : BOOLEAN]
    BY DEF FreshLoad
  <2>3. [cancel : BOOLEAN, started : BOOLEAN, done : BOOLEAN, claimed : BOOLEAN,
         finished : BOOLEAN, failure : BOOLEAN]
          = [{"cancel", "started", "done", "claimed", "finished", "failure"} -> BOOLEAN]
    OBVIOUS
  <2> QED BY <2>1, <2>2, <2>3, Zenon
<1>2. FreshView \in [DOMAIN FreshView -> BOOLEAN]
  <2>1. DOMAIN FreshView = {"running", "stopStarted", "deferred", "child", "backgrounded",
                            "recovering"}
    BY DEF FreshView
  <2>2. FreshView \in [running : BOOLEAN, stopStarted : BOOLEAN, deferred : BOOLEAN,
                       child : BOOLEAN, backgrounded : BOOLEAN, recovering : BOOLEAN]
    BY DEF FreshView
  <2>3. [running : BOOLEAN, stopStarted : BOOLEAN, deferred : BOOLEAN, child : BOOLEAN,
         backgrounded : BOOLEAN, recovering : BOOLEAN]
          = [{"running", "stopStarted", "deferred", "child", "backgrounded", "recovering"}
               -> BOOLEAN]
    OBVIOUS
  <2> QED BY <2>1, <2>2, <2>3, Zenon
<1> QED BY <1>1, <1>2

(***************************************************************************)
(* The queue of the UI thread.  What is posted is seen by the other parts  *)
(* of the invariant only through these flags.                              *)
(***************************************************************************)
FlagsSame == /\ (StartPosted' <=> StartPosted)
             /\ (OkPosted' <=> OkPosted) /\ (FailedPosted' <=> FailedPosted)
             /\ (CancelledPosted' <=> CancelledPosted) /\ (StoppedPosted' <=> StoppedPosted)
FlagsFall == /\ (StartPosted' => StartPosted)
             /\ (OkPosted' => OkPosted) /\ (FailedPosted' => FailedPosted)
             /\ (CancelledPosted' => CancelledPosted) /\ (StoppedPosted' => StoppedPosted)

(* Nothing is posted and nothing is run.                                   *)
LEMMA QueueSame ==
  QueueInv /\ posted' = posted /\ launch' = launch => QueueInv' /\ FlagsSame
BY DEF QueueInv, FlagsSame, Posted, StartPosted, OkPosted, FailedPosted, CancelledPosted,
       StoppedPosted, Closure

(* A closure of another kind than a start is posted.                       *)
LEMMA QueueGrows ==
  ASSUME QueueInv, launch' = launch, launch \in 0..MaxLaunches,
         NEW w \in {"ok", "failed", "cancelled", "exit", "stopped", "resumed", "notResumed"},
         NEW l \in 0..launch,
         posted' = Append(posted, [what |-> w, launch |-> l])
  PROVE  /\ QueueInv' /\ (StartPosted' <=> StartPosted)
         /\ (OkPosted' <=> OkPosted \/ (w = "ok" /\ l = launch))
         /\ (FailedPosted' <=> FailedPosted \/ (w = "failed" /\ l = launch))
         /\ (CancelledPosted' <=> CancelledPosted \/ (w = "cancelled" /\ l = launch))
         /\ (StoppedPosted' <=> StoppedPosted \/ (w = "stopped" /\ l = launch))
<1> DEFINE c == [what |-> w, launch |-> l]
<1>1. c \in Closures /\ c.what = w /\ c.launch = l
  BY LaunchAssumption DEF Closures
<1>2. c \in Closures /\ c # Closure("start") /\ c.launch <= launch
  BY <1>1 DEF Closure
<1>3. \A v \in {"start", "ok", "failed", "cancelled", "stopped"} :
        c = Closure(v) <=> w = v /\ l = launch
  BY DEF Closure
<1> HIDE DEF c
<1>4. /\ posted' \in Seq(Closures) /\ Len(posted') = Len(posted) + 1
      /\ posted'[Len(posted) + 1] = c
      /\ \A i \in 1..Len(posted) : posted'[i] = posted[i]
  BY <1>2 DEF QueueInv, c
<1>5. \A v : Closure(v)' = Closure(v)
  BY DEF Closure
<1>6. Len(posted) \in Nat
  BY DEF QueueInv
<1>7. QueueInv'
  <2>1. \A i \in 1..Len(posted') : posted'[i].launch <= launch'
    BY <1>2, <1>4, <1>6 DEF QueueInv
  <2>2. \A i, j \in 1..Len(posted') :
          posted'[i] = Closure("start")' /\ posted'[j] = Closure("start")' => i = j
    BY <1>2, <1>4, <1>5, <1>6 DEF QueueInv
  <2> QED BY <1>4, <2>1, <2>2 DEF QueueInv
<1>8. ASSUME NEW v
      PROVE  (\E i \in 1..Len(posted') : posted'[i] = Closure(v)')
               <=> (\E i \in 1..Len(posted) : posted[i] = Closure(v)) \/ c = Closure(v)
  <2>1. \A i : i \in 1..Len(posted') <=> i \in 1..Len(posted) \/ i = Len(posted) + 1
    BY <1>4, <1>6
  <2> QED BY <2>1, <1>4, <1>5
<1> QED
  BY <1>2, <1>3, <1>7, <1>8
     DEF Posted, StartPosted, OkPosted, FailedPosted, CancelledPosted, StoppedPosted

(* The oldest closure is taken; the start of a page is there once.         *)
LEMMA QueueShrinks ==
  ASSUME QueueInv, launch' = launch, posted # <<>>, posted' = Tail(posted)
  PROVE  /\ QueueInv' /\ FlagsFall
         /\ Head(posted).what = "start" /\ Head(posted).launch = launch
              => StartPosted /\ ~StartPosted'
         /\ Head(posted).what = "ok" /\ Head(posted).launch = launch => OkPosted
         /\ Head(posted).what = "failed" /\ Head(posted).launch = launch => FailedPosted
         /\ Head(posted).what = "cancelled" /\ Head(posted).launch = launch
              => CancelledPosted
         /\ Head(posted).what = "stopped" /\ Head(posted).launch = launch => StoppedPosted
<1>1. /\ posted \in Seq(Closures) /\ Len(posted) \in Nat /\ Len(posted) >= 1
      /\ Head(posted) = posted[1] /\ posted[1] \in Closures
  BY DEF QueueInv
<1>2. /\ posted' \in Seq(Closures) /\ Len(posted') = Len(posted) - 1
      /\ \A i \in 1..Len(posted') : posted'[i] = posted[i + 1]
  BY <1>1
<1>3. \A v : Closure(v)' = Closure(v)
  BY DEF Closure
<1>4. QueueInv'
  <2>1. \A i \in 1..Len(posted') : i + 1 \in 1..Len(posted)
    BY <1>1, <1>2
  <2>2. \A i \in 1..Len(posted') : posted'[i].launch <= launch'
    BY <1>2, <2>1 DEF QueueInv
  <2>3. \A i, j \in 1..Len(posted') :
          posted'[i] = Closure("start")' /\ posted'[j] = Closure("start")' => i = j
    <3>1. \A i, j \in 1..Len(posted') :
            posted[i + 1] = Closure("start") /\ posted[j + 1] = Closure("start")
              => i + 1 = j + 1
      BY <2>1 DEF QueueInv
    <3> QED BY <1>1, <1>2, <1>3, <3>1
  <2> QED BY <1>2, <2>2, <2>3 DEF QueueInv
<1>5. ASSUME NEW v
      PROVE  (\E i \in 1..Len(posted') : posted'[i] = Closure(v)')
               => \E i \in 1..Len(posted) : posted[i] = Closure(v)
  BY <1>1, <1>2, <1>3
<1>6. ASSUME NEW v, Head(posted).what = v, Head(posted).launch = launch
      PROVE  posted[1] = Closure(v)
  BY <1>1, <1>6 DEF Closures, Closure
<1>7. ASSUME posted[1] = Closure("start")
      PROVE  ~\E i \in 1..Len(posted') : posted'[i] = Closure("start")'
  <2>1. \A i \in 1..Len(posted') :
          i + 1 \in 1..Len(posted) /\ 1 \in 1..Len(posted) /\ i + 1 # 1
    BY <1>1, <1>2
  <2> QED BY <1>2, <1>3, <1>7, <2>1 DEF QueueInv
<1>8. 1 \in 1..Len(posted)
  BY <1>1
<1> QED
  BY <1>4, <1>5, <1>6, <1>7, <1>8
     DEF Posted, StartPosted, OkPosted, FailedPosted, CancelledPosted, StoppedPosted, FlagsFall

(* A new page: what is left in the queue is of older launches.             *)
LEMMA QueueStarts ==
  ASSUME QueueInv, launch \in 0..MaxLaunches, launch < MaxLaunches, launch' = launch + 1,
         posted' = Append(posted, [what |-> "start", launch |-> launch'])
  PROVE  QueueInv' /\ ~OkPosted' /\ ~FailedPosted' /\ ~CancelledPosted' /\ ~StoppedPosted'
<1> DEFINE c == [what |-> "start", launch |-> launch + 1]
<1>1. launch \in Nat /\ launch + 1 \in 0..MaxLaunches
  BY LaunchAssumption
<1>2. c \in Closures /\ c.launch = launch + 1 /\ c.what = "start"
  BY <1>1 DEF Closures
<1>3. \A v : Closure(v)' = [what |-> v, launch |-> launch + 1]
  BY DEF Closure
<1>4. Closure("start")' = c /\ \A v : c = Closure(v)' => v = "start"
  BY <1>3
<1>5. \A v : Closure(v)'.launch = launch + 1
  BY <1>3
<1> HIDE DEF c
<1>6. /\ posted' \in Seq(Closures) /\ Len(posted) \in Nat
      /\ Len(posted') = Len(posted) + 1 /\ posted'[Len(posted) + 1] = c
      /\ \A i \in 1..Len(posted) : posted'[i] = posted[i]
  BY <1>2 DEF QueueInv, c
<1>7. \A i \in 1..Len(posted) : \A v : posted[i] # Closure(v)'
  <2>1. \A i \in 1..Len(posted) : posted[i].launch <= launch
    BY DEF QueueInv
  <2>2. ~(launch + 1 <= launch)
    BY <1>1
  <2> QED BY <1>5, <2>1, <2>2
<1>8. \A i : i \in 1..Len(posted') <=> i \in 1..Len(posted) \/ i = Len(posted) + 1
  BY <1>6
<1>9. \A i \in 1..Len(posted') : posted'[i].launch <= launch'
  <2>1. \A i \in 1..Len(posted) : posted[i] \in Closures /\ posted[i].launch <= launch
    BY <1>6 DEF QueueInv
  <2>2. \A i \in 1..Len(posted) : posted[i].launch \in Nat
    BY <2>1 DEF Closures
  <2>3. \A i \in 1..Len(posted) : posted[i].launch <= launch + 1
    BY <1>1, <2>1, <2>2
  <2>4. launch + 1 <= launch + 1
    BY <1>1
  <2> QED BY <1>2, <1>6, <1>8, <2>3, <2>4
<1>10. QueueInv'
  BY <1>4, <1>6, <1>7, <1>8, <1>9 DEF QueueInv
<1> QED
  BY <1>4, <1>6, <1>7, <1>8, <1>10 DEF Posted, OkPosted, FailedPosted, CancelledPosted,
         StoppedPosted

(***************************************************************************)
(* The clean-up of a cancelled page.                                       *)
(***************************************************************************)

(* It is not due, or it cannot be started, or the stop worker begins it.   *)
SchedulingStep ==
  /\ screen = "loading" /\ pc["ui"] = "idle"
  /\ load.cancel \/ (~load.failure /\ load.started)
  /\ load' \in [DOMAIN FreshLoad -> BOOLEAN] /\ load'.cancel
  /\ load'.started = load.started /\ load'.done = load.done
  /\ load'.finished = load.finished /\ load'.failure = load.failure
  /\ faults' \in 0..MaxFaults
  /\ cancelReq' \in BOOLEAN /\ current' \subseteq current
  /\ \/ UNCHANGED <<pc, report, teardowns>> /\ load'.claimed = load.claimed
     \/ /\ load.done /\ ~load.claimed /\ load'.claimed
        /\ pc' = [pc EXCEPT !["stop"] = "stop"] /\ report' = FALSE
        /\ teardowns' = teardowns + 1
  /\ UNCHANGED <<op, state, session, ticket, terminal, screen, launch, view, focused,
                 switches>>

(* Whoever schedules it: a cancel, another, or the worker's result.        *)
LEMMA CleanupIsScheduled ==
  ASSUME PageType, CountInv, ControlInv, Cleanups
  PROVE  SchedulingStep
<1>1. PICK l \in [DOMAIN FreshLoad -> BOOLEAN] :
        /\ l.cancel /\ l.started = load.started /\ l.done = load.done
        /\ l.finished = load.finished /\ l.failure = load.failure
        /\ l.claimed = load.claimed /\ ScheduleCancelCleanup(l)
  <2>1. CASE RequestCancel
    <3>1. ScheduleCancelCleanup([load EXCEPT !.cancel = TRUE])
      BY <2>1 DEF RequestCancel
    <3> QED BY <3>1 DEF PageType, FreshLoad
  <2>2. CASE RepeatCancel
    BY <2>2 DEF RepeatCancel, PageType
  <2>3. CASE ConnectionResult /\ load.cancel
    BY <2>3 DEF ConnectionResult, PageType
  <2> QED BY <2>1, <2>2, <2>3 DEF Cleanups
<1>2. faults' \in 0..MaxFaults
  BY <1>1, FaultsAssumption DEF ScheduleCancelCleanup, CountInv, CleansUp
<1>3. load' = l \/ load' = [l EXCEPT !.claimed = TRUE] \/ load' = [l EXCEPT !.claimed = FALSE]
  BY <1>1 DEF ScheduleCancelCleanup, ReleasesClaim
<1>4. /\ load' \in [DOMAIN FreshLoad -> BOOLEAN] /\ load'.cancel
      /\ load'.started = load.started /\ load'.done = load.done
      /\ load'.finished = load.finished /\ load'.failure = load.failure
  BY <1>1, <1>3 DEF FreshLoad
<1>5. \/ UNCHANGED <<pc, report, teardowns>> /\ load'.claimed = load.claimed
      \/ /\ load.done /\ ~load.claimed /\ load'.claimed
         /\ pc' = [pc EXCEPT !["stop"] = "stop"] /\ report' = FALSE
         /\ teardowns' = teardowns + 1
  BY <1>1 DEF ScheduleCancelCleanup, CleansUp, TryClaims, ReleasesClaim, FreshLoad, PageType
<1>6. /\ screen = "loading" /\ pc["ui"] = "idle"
      /\ load.cancel \/ (~load.failure /\ load.started)
      /\ cancelReq' \in BOOLEAN /\ current' \subseteq current
      /\ UNCHANGED <<op, state, session, ticket, terminal, screen, launch, view, focused,
                     switches>>
  BY DEF Cleanups, RequestCancel, RepeatCancel, ConnectionResult, Loading, UiFree, Runnable,
         Alive, ControlInv
<1> QED BY <1>2, <1>4, <1>5, <1>6 DEF SchedulingStep

(* startStreamWithProfile, of the connection worker or of a resume.        *)
LEMMA StartStep ==
  ASSUME IInv, NEW t \in Threads, UNCHANGED uiVars
  PROVE  StartStreamWithProfile(t) => IInv'
<1> USE DEF IInv, StartStreamWithProfile, StartBegins, StartLocks, TakesGeneration,
           ClearsCancel, ReplacesSession, Authenticates, SessionStarts, AwaitEnds,
           OnStreaming, CallerCancels, IsStreamCancelled, StreamCancel
<1>1. QueueInv' /\ FlagsSame
  BY QueueSame
<1>2. StartStreamWithProfile(t) => ThreadInv'
  BY <1>1 DEF ThreadInv, PageType, Locked
<1>3. StartStreamWithProfile(t) => ControlInv'
  BY <1>1 DEF ControlInv
<1>4. StartStreamWithProfile(t) => BoundInv'
  BY LaunchAssumption, <1>1 DEF BoundInv
<1>5. StartStreamWithProfile(t) => CountInv'
  BY FaultsAssumption, LaunchAssumption, <1>1 DEF CountInv
<1>6. StartStreamWithProfile(t) => PageType'
  BY <1>1 DEF PageType
<1>7. StartStreamWithProfile(t) => OnceInv'
  BY <1>1 DEF OnceInv
<1>8. StartStreamWithProfile(t) => WorkerInv'
  BY <1>1 DEF WorkerInv, ThreadInv, StopRunning, Starting
<1>9. StartStreamWithProfile(t) => LoadInv'
  BY <1>1 DEF LoadInv, OnceInv, WorkerInv, ViewInv, ThreadInv, FlagsSame, StopRunning
<1>10. StartStreamWithProfile(t) => ViewInv'
  BY <1>1 DEF ViewInv, LoadInv, WorkerInv, ThreadInv, FlagsSame
<1>11. StartStreamWithProfile(t) => ResumeInv'
  BY <1>1 DEF ResumeInv, ThreadInv
<1>12. StartStreamWithProfile(t) => SessionInv'
  BY <1>1 DEF SessionInv, SessionOver, BeforeSession, ControlInv, LoadInv, ViewInv,
         WorkerInv, ResumeInv, ThreadInv, FlagsSame, Starting
<1> QED
  BY <1>1, <1>2, <1>3, <1>4, <1>5, <1>6, <1>7, <1>8, <1>9, <1>10, <1>11, <1>12

(* stopStream, of whichever thread.                                        *)
LEMMA StopStep ==
  ASSUME IInv, NEW t \in Threads, UNCHANGED uiVars
  PROVE  StopStream(t) => IInv'
<1> USE DEF IInv, StopStream, StopBegins, StopLocks, StopCleans
<1>1. QueueInv' /\ FlagsSame
  BY QueueSame
<1>2. StopStream(t) => ThreadInv'
  BY <1>1 DEF ThreadInv, PageType, Locked
<1>3. StopStream(t) => ControlInv'
  BY <1>1 DEF ControlInv
<1>4. StopStream(t) => BoundInv'
  BY LaunchAssumption, <1>1 DEF BoundInv
<1>5. StopStream(t) => CountInv'
  BY FaultsAssumption, LaunchAssumption, <1>1 DEF CountInv
<1>6. StopStream(t) => PageType'
  BY <1>1 DEF PageType
<1>7. StopStream(t) => OnceInv'
  BY <1>1 DEF OnceInv
<1>8. StopStream(t) => WorkerInv'
  BY <1>1 DEF WorkerInv, ThreadInv, StopRunning, Starting
<1>9. StopStream(t) => LoadInv'
  BY <1>1 DEF LoadInv, OnceInv, WorkerInv, ViewInv, ThreadInv, FlagsSame, StopRunning
<1>10. StopStream(t) => ViewInv'
  BY <1>1 DEF ViewInv, LoadInv, WorkerInv, ThreadInv, FlagsSame
<1>11. StopStream(t) => ResumeInv'
  BY <1>1 DEF ResumeInv, ThreadInv
<1>12. StopStream(t) => SessionInv'
  BY <1>1 DEF SessionInv, SessionOver, BeforeSession, ControlInv, LoadInv, ViewInv,
         WorkerInv, ThreadInv, FlagsSame
<1> QED
  BY <1>1, <1>2, <1>3, <1>4, <1>5, <1>6, <1>7, <1>8, <1>9, <1>10, <1>11, <1>12

(* resumeAfterForeground around its start, and the end of the session.     *)
LEMMA OperationStep ==
  ASSUME IInv, UNCHANGED uiVars
  PROVE  OperationEnds => IInv'
<1> USE DEF IInv, OperationEnds, Resumes, ResumeChecks, ResumeLooks, SessionFails,
           SessionStopsItself, CallerCancels, SessionCancelled, IsStreamCancelled
<1>1. QueueInv' /\ FlagsSame
  BY QueueSame
<1>2. OperationEnds => ThreadInv'
  BY <1>1 DEF ThreadInv, PageType, Locked
<1>3. OperationEnds => ControlInv'
  BY <1>1 DEF ControlInv
<1>4. OperationEnds => BoundInv'
  BY LaunchAssumption, <1>1 DEF BoundInv
<1>5. OperationEnds => CountInv'
  BY FaultsAssumption, LaunchAssumption, <1>1 DEF CountInv
<1>6. OperationEnds => PageType'
  BY <1>1 DEF PageType
<1>7. OperationEnds => OnceInv'
  BY <1>1 DEF OnceInv
<1>8. OperationEnds => WorkerInv'
  BY <1>1 DEF WorkerInv, ThreadInv
<1>9. OperationEnds => LoadInv'
  BY <1>1 DEF LoadInv, OnceInv, WorkerInv, ThreadInv, FlagsSame
<1>10. OperationEnds => ViewInv'
  BY <1>1 DEF ViewInv, LoadInv, WorkerInv, ThreadInv, FlagsSame
<1>11. OperationEnds => ResumeInv'
  BY <1>1 DEF ResumeInv
<1>12. OperationEnds => SessionInv'
  BY <1>1 DEF SessionInv, SessionOver, BeforeSession, ControlInv, LoadInv, ViewInv,
         WorkerInv, ThreadInv, FlagsSame
<1> QED
  BY <1>1, <1>2, <1>3, <1>4, <1>5, <1>6, <1>7, <1>8, <1>9, <1>10, <1>11, <1>12

(* A worker returns and posts its result, or starts the clean-up.          *)
LEMMA WorkerStep ==
  ASSUME IInv
  PROVE  WorkerActs => IInv'
<1> USE DEF IInv, WorkerActs, ConnectReturns, ConnectHandsOver, ResumePosts,
           StopPosts, Post, Closure, CleansUp, TryClaims
<1>1. ConnectReturns => QueueInv' /\ FlagsSame
  BY QueueSame
<1>2. ConnectHandsOver =>
       /\ QueueInv' /\ (StartPosted' <=> StartPosted) /\ (CancelledPosted' <=> CancelledPosted)
       /\ (StoppedPosted' <=> StoppedPosted)
       /\ OkPosted' => OkPosted \/ (~load.cancel /\ pc["connect"] = "doneOk")
       /\ FailedPosted' => FailedPosted \/ (~load.cancel /\ pc["connect"] = "doneFailed")
  <2> SUFFICES ASSUME ConnectHandsOver
               PROVE  /\ QueueInv' /\ (StartPosted' <=> StartPosted)
                      /\ (CancelledPosted' <=> CancelledPosted)
                      /\ (StoppedPosted' <=> StoppedPosted)
                      /\ OkPosted' => \/ OkPosted
                                      \/ ~load.cancel /\ pc["connect"] = "doneOk"
                      /\ FailedPosted' => \/ FailedPosted
                                          \/ ~load.cancel /\ pc["connect"] = "doneFailed"
    OBVIOUS
  <2>1. CASE posted' = posted
    BY <2>1, QueueSame DEF FlagsSame
  <2>2. CASE posted' # posted
    <3>1. ~load.cancel
      BY <2>2
    <3>2. PICK w \in {"ok", "failed"} :
            /\ posted' = Append(posted, [what |-> w, launch |-> launch])
            /\ pc["connect"] = (IF w = "ok" THEN "doneOk" ELSE "doneFailed")
      BY <2>2
    <3>3. launch \in 0..launch
      BY LaunchAssumption DEF BoundInv
    <3> QED BY <3>1, <3>2, <3>3, QueueGrows DEF BoundInv
  <2> QED BY <2>1, <2>2
<1>3. ResumePosts => QueueInv' /\ FlagsSame
  <2>1. ASSUME ResumePosts
        PROVE  \E w \in {"resumed", "notResumed"} :
                 posted' = Append(posted, [what |-> w, launch |-> ticket])
    BY <2>1
  <2> QED BY <2>1, QueueGrows DEF BoundInv, FlagsSame
<1>4. ASSUME NEW t \in Threads, StopPosts(t)
      PROVE  /\ QueueInv' /\ (StartPosted' <=> StartPosted)
             /\ (OkPosted' <=> OkPosted) /\ (FailedPosted' <=> FailedPosted)
             /\ CancelledPosted' => CancelledPosted \/ screen = "loading"
             /\ StoppedPosted' => StoppedPosted \/ screen # "loading"
  <2>1. PICK w \in {"cancelled", "stopped"} :
          /\ posted' = Append(posted, [what |-> w, launch |-> launch])
          /\ w = "cancelled" <=> screen = "loading"
    BY <1>4
  <2>2. launch \in 0..launch
    BY LaunchAssumption DEF BoundInv
  <2> QED BY <1>4, <2>1, <2>2, QueueGrows DEF BoundInv
<1>5. WorkerActs => ThreadInv'
  BY <1>1, <1>2, <1>3, <1>4 DEF ThreadInv, PageType, Locked
<1>6. WorkerActs => ControlInv'
  BY <1>1, <1>2, <1>3, <1>4 DEF ControlInv
<1>7. WorkerActs => BoundInv'
  BY LaunchAssumption, <1>1, <1>2, <1>3, <1>4 DEF BoundInv
<1>8. WorkerActs => CountInv'
  BY FaultsAssumption, LaunchAssumption, <1>1, <1>2, <1>3, <1>4 DEF CountInv
<1>9. WorkerActs => PageType'
  BY <1>1, <1>2, <1>3, <1>4 DEF PageType
<1>10. WorkerActs => OnceInv'
  BY <1>1, <1>2, <1>3, <1>4 DEF OnceInv, LoadInv, WorkerInv
<1>11. WorkerActs => WorkerInv'
  BY <1>1, <1>2, <1>3, <1>4 DEF WorkerInv, ThreadInv, PageType, FreshLoad,
         StopRunning, Starting
<1>12. WorkerActs => LoadInv'
  <2>1. ConnectReturns => LoadInv'
    BY <1>1, <1>2, <1>3, <1>4 DEF LoadInv, OnceInv, WorkerInv, ViewInv, FlagsSame,
           Starting
  <2>2. ConnectHandsOver => LoadInv'
    BY <1>1, <1>2, <1>3, <1>4 DEF LoadInv, OnceInv, WorkerInv, ViewInv, ThreadInv,
           PageType, FreshLoad, StopRunning
  <2>3. ResumePosts => LoadInv'
    BY <1>1, <1>2, <1>3, <1>4 DEF LoadInv, OnceInv, WorkerInv, FlagsSame
  <2>4. StopPosts("connect") \/ StopPosts("stop") => LoadInv'
    BY <1>1, <1>2, <1>3, <1>4 DEF LoadInv, OnceInv, WorkerInv, ViewInv, ThreadInv,
           StopRunning
  <2> HIDE DEF ConnectReturns, ConnectHandsOver, ResumePosts, StopPosts
  <2> QED BY <2>1, <2>2, <2>3, <2>4 DEF WorkerActs
<1>13. WorkerActs => ViewInv'
  BY <1>1, <1>2, <1>3, <1>4 DEF ViewInv, LoadInv, WorkerInv, ThreadInv, FlagsSame
<1>14. WorkerActs => ResumeInv'
  BY <1>1, <1>2, <1>3, <1>4 DEF ResumeInv, ThreadInv
<1>15. WorkerActs => SessionInv'
  BY <1>1, <1>2, <1>3, <1>4 DEF SessionInv, SessionOver, BeforeSession, ControlInv,
         LoadInv, ViewInv, WorkerInv, ThreadInv, PageType, FreshLoad, FlagsSame
<1> QED
  BY <1>1, <1>2, <1>3, <1>4, <1>5, <1>6, <1>7, <1>8, <1>9, <1>10, <1>11,
     <1>12, <1>13, <1>14, <1>15

(* A closure runs on the UI thread.                                        *)
LEMMA ClosureStep ==
  ASSUME IInv
  PROVE  ClosureActs => IInv'
<1> USE DEF IInv, ClosureActs, ConnectionResult, Dropped, StartConnection,
           ResultIsShown, CleanupPops, ResumeResult, Exit, StopReturns, Runnable,
           Alive, UiFree, LeavesPage, StopAndReturn, StopsInline, PopsView
<1>1. ClosureActs =>
       /\ QueueInv' /\ FlagsFall
       /\ Head(posted).what = "start" /\ Head(posted).launch = launch
            => StartPosted /\ ~StartPosted'
       /\ Head(posted).what = "ok" /\ Head(posted).launch = launch => OkPosted
       /\ Head(posted).what = "failed" /\ Head(posted).launch = launch => FailedPosted
       /\ Head(posted).what = "cancelled" /\ Head(posted).launch = launch
            => CancelledPosted
       /\ Head(posted).what = "stopped" /\ Head(posted).launch = launch => StoppedPosted
  <2>1. ClosureActs => posted # <<>> /\ posted' = Tail(posted) /\ launch' = launch
    OBVIOUS
  <2> QED BY <2>1, QueueShrinks
<1>2. ClosureActs => ThreadInv'
  <2>1. Dropped \/ ResultIsShown \/ CleanupPops \/ StopReturns => ThreadInv'
    BY <1>1 DEF ThreadInv
  <2>2. StartConnection => ThreadInv'
    BY <1>1 DEF ThreadInv, PageType, LoadInv, Locked
  <2>3. ResumeResult \/ Exit => ThreadInv'
    BY <1>1 DEF ThreadInv, PageType, ViewInv, Locked
  <2> HIDE DEF Dropped, StartConnection, ResultIsShown, CleanupPops, ResumeResult,
         Exit, StopReturns
  <2> QED BY <2>1, <2>2, <2>3 DEF ClosureActs
<1>3. ClosureActs => ControlInv'
  BY <1>1 DEF ControlInv
<1>4. ClosureActs => BoundInv'
  BY LaunchAssumption, <1>1 DEF BoundInv
<1>5. ClosureActs => CountInv'
  BY FaultsAssumption, LaunchAssumption, <1>1 DEF CountInv
<1>6. ClosureActs => PageType'
  <2>1. Dropped \/ StartConnection \/ CleanupPops \/ ResumeResult \/ Exit
        \/ StopReturns => PageType'
    BY <1>1 DEF PageType
  <2>2. ResultIsShown => PageType'
    <3>1. ResultIsShown => load' \in [DOMAIN FreshLoad -> BOOLEAN]
      BY DEF PageType, FreshLoad
    <3>2. ResultIsShown => screen' \in {"loading", "view"}
      OBVIOUS
    <3>3. ResultIsShown => view' = view \/ view' = FreshView
      OBVIOUS
    <3> HIDE DEF ResultIsShown
    <3> QED BY <3>1, <3>2, <3>3, FreshTypes DEF PageType
  <2> HIDE DEF Dropped, StartConnection, ResultIsShown, CleanupPops, ResumeResult,
         Exit, StopReturns
  <2> QED BY <2>1, <2>2 DEF ClosureActs
<1>7. ClosureActs => OnceInv'
  BY <1>1 DEF OnceInv
<1>8. ClosureActs => WorkerInv'
  <2>1. Dropped \/ StopReturns => WorkerInv'
    BY <1>1 DEF WorkerInv
  <2>2. StartConnection => WorkerInv'
    BY <1>1 DEF WorkerInv, ThreadInv, LoadInv, PageType, FreshLoad, StopRunning
  <2>3. ResultIsShown => WorkerInv'
    BY <1>1 DEF WorkerInv, LoadInv
  <2>4. CleanupPops => WorkerInv'
    BY <1>1 DEF WorkerInv, ThreadInv, LoadInv, StopRunning, Starting
  <2>5. ResumeResult \/ Exit => WorkerInv'
    BY <1>1 DEF WorkerInv, ThreadInv
  <2> HIDE DEF Dropped, StartConnection, ResultIsShown, CleanupPops, ResumeResult,
         Exit, StopReturns
  <2> QED BY <2>1, <2>2, <2>3, <2>4, <2>5 DEF ClosureActs
<1>9. ClosureActs => LoadInv'
  <2>1. Dropped => LoadInv'
    BY <1>1 DEF LoadInv, OnceInv, WorkerInv, FlagsFall
  <2>2. StartConnection => LoadInv'
    BY <1>1 DEF LoadInv, OnceInv, WorkerInv, ThreadInv, PageType, FreshLoad, FlagsFall
  <2>3. ResultIsShown => LoadInv'
    BY <1>1 DEF LoadInv, OnceInv, WorkerInv, PageType, FreshLoad, FlagsFall
  <2>4. CleanupPops \/ ResumeResult \/ Exit \/ StopReturns => LoadInv'
    BY <1>1 DEF LoadInv, OnceInv, WorkerInv
  <2> HIDE DEF Dropped, StartConnection, ResultIsShown, CleanupPops, ResumeResult,
         Exit, StopReturns
  <2> QED BY <2>1, <2>2, <2>3, <2>4 DEF ClosureActs
<1>10. ClosureActs => ViewInv'
  <2>1. Dropped => ViewInv'
    BY <1>1 DEF ViewInv, LoadInv, WorkerInv, FlagsFall
  <2>2. StartConnection \/ CleanupPops \/ StopReturns => ViewInv'
    BY <1>1 DEF ViewInv, LoadInv, WorkerInv
  <2>3. ResultIsShown => ViewInv'
    BY <1>1 DEF ViewInv, LoadInv, WorkerInv, FreshView, FlagsFall
  <2>4. ResumeResult => ViewInv'
    <3>1. ASSUME ResumeResult, launch \in terminal PROVE ViewInv'
      BY <3>1, <1>1 DEF ViewInv, LoadInv, WorkerInv, ThreadInv, PageType, BoundInv,
             FlagsFall, StopRunning
    <3>2. ASSUME ResumeResult, launch \notin terminal, Head(posted).what = "resumed"
          PROVE  ViewInv'
      BY <3>2, <1>1 DEF ViewInv, LoadInv, WorkerInv, ThreadInv, PageType, BoundInv,
             FlagsFall, StopRunning, FreshView
    <3>3. ASSUME ResumeResult, launch \notin terminal, Head(posted).what # "resumed"
          PROVE  ViewInv'
      BY <3>3, <1>1 DEF ViewInv, LoadInv, WorkerInv, ThreadInv, PageType, BoundInv,
             FlagsFall, StopRunning, FreshView
    <3> QED BY <3>1, <3>2, <3>3
  <2>5. Exit => ViewInv'
    BY <1>1 DEF ViewInv, LoadInv, WorkerInv, ThreadInv, PageType, FreshView, FlagsFall
  <2> HIDE DEF Dropped, StartConnection, ResultIsShown, CleanupPops, ResumeResult,
         Exit, StopReturns
  <2> QED BY <2>1, <2>2, <2>3, <2>4, <2>5 DEF ClosureActs
<1>11. ClosureActs => ResumeInv'
  BY <1>1 DEF ResumeInv, ThreadInv
<1>12. ClosureActs => SessionInv'
  <2>1. Dropped \/ ResultIsShown => SessionInv'
    BY <1>1 DEF SessionInv, SessionOver, BeforeSession, ControlInv, LoadInv, ViewInv,
           WorkerInv, FlagsFall
  <2>2. StartConnection \/ CleanupPops \/ StopReturns => SessionInv'
    BY <1>1 DEF SessionInv, SessionOver, BeforeSession, ControlInv, LoadInv, ViewInv,
           WorkerInv
  <2>3. ResumeResult \/ Exit => SessionInv'
    BY <1>1 DEF SessionInv, SessionOver, BeforeSession, ControlInv, LoadInv, ViewInv,
           WorkerInv, ThreadInv, FlagsFall
  <2> HIDE DEF Dropped, StartConnection, ResultIsShown, CleanupPops, ResumeResult,
         Exit, StopReturns
  <2> QED BY <2>1, <2>2, <2>3 DEF ClosureActs
<1> QED
  BY <1>1, <1>2, <1>3, <1>4, <1>5, <1>6, <1>7, <1>8, <1>9, <1>10, <1>11, <1>12

(* The user starts a stream.                                               *)
LEMMA StartConsoleStep ==
  ASSUME IInv
  PROVE  StartConsoleStream => IInv'
<1> USE DEF IInv, StartConsoleStream, UiFree, MenuRefuses, FreshLoad
<1>1. StartConsoleStream => QueueInv' /\ ~OkPosted' /\ ~FailedPosted'
                             /\ ~CancelledPosted' /\ ~StoppedPosted'
  BY QueueStarts DEF BoundInv
<1>2. StartConsoleStream => ThreadInv'
  BY <1>1 DEF ThreadInv
<1>3. StartConsoleStream => ControlInv'
  BY <1>1 DEF ControlInv
<1>4. StartConsoleStream => BoundInv'
  BY LaunchAssumption, <1>1 DEF BoundInv
<1>5. StartConsoleStream => CountInv'
  BY FaultsAssumption, LaunchAssumption, <1>1 DEF CountInv
<1>6. StartConsoleStream => PageType'
  <2>1. StartConsoleStream => load' = FreshLoad /\ view' = view /\ screen' = "loading"
    OBVIOUS
  <2> HIDE DEF StartConsoleStream, FreshLoad
  <2> QED BY <2>1, FreshTypes DEF PageType
<1>7. StartConsoleStream => OnceInv'
  BY <1>1 DEF OnceInv
<1>8. StartConsoleStream => WorkerInv'
  BY <1>1 DEF WorkerInv, StopRunning, Starting
<1>9. StartConsoleStream => LoadInv'
  BY <1>1 DEF LoadInv, OnceInv, WorkerInv, ViewInv
<1>10. StartConsoleStream => ViewInv'
  BY <1>1 DEF ViewInv, LoadInv, WorkerInv
<1>11. StartConsoleStream => ResumeInv'
  BY <1>1 DEF ResumeInv
<1>12. StartConsoleStream => SessionInv'
  BY <1>1 DEF SessionInv, SessionOver, BeforeSession, ControlInv, LoadInv, ViewInv,
         WorkerInv
<1> QED
  BY <1>1, <1>2, <1>3, <1>4, <1>5, <1>6, <1>7, <1>8, <1>9, <1>10, <1>11, <1>12

(* The user cancels, or leaves the page after a failure.                   *)
LEMMA LeavingStep ==
  ASSUME IInv
  PROVE  LeavesEarly => IInv'
<1> USE DEF IInv, LeavesEarly, AcknowledgeFailure, CancelBeforeStart, Loading, UiFree,
           LeavesPage
<1>1. LeavesEarly => QueueInv' /\ FlagsSame
  BY QueueSame
<1>2. LeavesEarly => ThreadInv'
  BY <1>1 DEF ThreadInv
<1>3. LeavesEarly => ControlInv'
  BY <1>1 DEF ControlInv
<1>4. LeavesEarly => BoundInv'
  BY LaunchAssumption, <1>1 DEF BoundInv
<1>5. LeavesEarly => CountInv'
  BY FaultsAssumption, LaunchAssumption, <1>1 DEF CountInv
<1>6. LeavesEarly => PageType'
  BY <1>1 DEF PageType
<1>7. LeavesEarly => OnceInv'
  BY <1>1 DEF OnceInv
<1>8. LeavesEarly => WorkerInv'
  <2>1. AcknowledgeFailure => WorkerInv'
    BY <1>1 DEF WorkerInv, LoadInv
  <2>2. CancelBeforeStart => WorkerInv'
    BY <1>1 DEF WorkerInv, ThreadInv, LoadInv, StopRunning, Starting
  <2> HIDE DEF AcknowledgeFailure, CancelBeforeStart
  <2> QED BY <2>1, <2>2 DEF LeavesEarly
<1>9. LeavesEarly => LoadInv'
  BY <1>1 DEF LoadInv, OnceInv, WorkerInv
<1>10. LeavesEarly => ViewInv'
  BY <1>1 DEF ViewInv, LoadInv, WorkerInv
<1>11. LeavesEarly => ResumeInv'
  BY <1>1 DEF ResumeInv
<1>12. LeavesEarly => SessionInv'
  BY <1>1 DEF SessionInv, SessionOver, BeforeSession, ControlInv, LoadInv, ViewInv,
         WorkerInv
<1> QED
  BY <1>1, <1>2, <1>3, <1>4, <1>5, <1>6, <1>7, <1>8, <1>9, <1>10, <1>11, <1>12

(* A clean-up is scheduled.                                                *)
LEMMA CleanupStep ==
  ASSUME IInv
  PROVE  Cleanups => IInv'
<1> USE DEF IInv, SchedulingStep
<1>1. Cleanups => SchedulingStep
  <2> HIDE DEF SchedulingStep
  <2> QED BY CleanupIsScheduled
<1>2. Cleanups => QueueInv' /\ FlagsFall
  <2>1. Cleanups => /\ launch' = launch
                    /\ posted' = posted \/ (posted # <<>> /\ posted' = Tail(posted))
    BY DEF Cleanups, RequestCancel, RepeatCancel, ConnectionResult, Runnable
  <2> QED BY <2>1, QueueSame, QueueShrinks DEF FlagsSame, FlagsFall
<1>3. Cleanups => ThreadInv'
  BY <1>1, <1>2 DEF ThreadInv, PageType, LoadInv, Locked
<1>4. Cleanups => ControlInv'
  BY <1>1, <1>2 DEF ControlInv
<1>5. Cleanups => BoundInv'
  BY LaunchAssumption, <1>1, <1>2 DEF BoundInv
<1>6. Cleanups => CountInv'
  BY FaultsAssumption, LaunchAssumption, <1>1, <1>2 DEF CountInv
<1>7. Cleanups => PageType'
  BY <1>1, <1>2 DEF PageType
<1>8. Cleanups => OnceInv'
  BY <1>1, <1>2 DEF OnceInv, LoadInv
<1>9. Cleanups => WorkerInv'
  BY <1>1, <1>2 DEF WorkerInv, ThreadInv
<1>10. Cleanups => LoadInv'
  BY <1>1, <1>2 DEF LoadInv, OnceInv, WorkerInv, ThreadInv, FlagsFall
<1>11. Cleanups => ViewInv'
  BY <1>1, <1>2 DEF ViewInv, LoadInv, WorkerInv
<1>12. Cleanups => ResumeInv'
  BY <1>1, <1>2 DEF ResumeInv, ThreadInv
<1>13. Cleanups => SessionInv'
  BY <1>1, <1>2 DEF SessionInv, SessionOver, BeforeSession, ControlInv, LoadInv,
         ViewInv, WorkerInv, ThreadInv, FlagsFall
<1> QED
  BY <1>1, <1>2, <1>3, <1>4, <1>5, <1>6, <1>7, <1>8, <1>9, <1>10, <1>11,
     <1>12, <1>13

(* The view: focus, child pages, its update thread and the exits.          *)
LEMMA ViewStep ==
  ASSUME IInv
  PROVE  ViewActs => IInv'
<1> USE DEF IInv, ViewActs, FocusLost, FocusGained, UserExits, OpenChild, CloseChild,
           Detects, UpdateThreadFails, InlineStopReturns, Viewing, UiFree,
           FocusIgnored, StopAndReturn, StopsInline, PopsView, ThreadEnds, Post,
           Closure
<1>1. ViewActs => QueueInv' /\ FlagsSame
  <2>1. ASSUME ViewActs
        PROVE  /\ launch' = launch
               /\ \/ posted' = posted
                  \/ posted' = Append(posted, [what |-> "exit", launch |-> launch])
    BY <2>1
  <2>2. launch \in 0..launch
    BY LaunchAssumption DEF BoundInv
  <2> QED BY <2>1, <2>2, QueueSame, QueueGrows DEF BoundInv, FlagsSame
<1>2. ViewActs => ThreadInv'
  BY <1>1 DEF ThreadInv, PageType, ViewInv, Locked
<1>3. ViewActs => ControlInv'
  BY <1>1 DEF ControlInv
<1>4. ViewActs => BoundInv'
  BY LaunchAssumption, <1>1 DEF BoundInv
<1>5. ViewActs => CountInv'
  <2>1. FocusLost => CountInv'
    <3>1. FocusLost => switches' \in 0..MaxSwitches
      BY LaunchAssumption DEF CountInv
    <3>2. FocusLost => faults' \in 0..MaxFaults
      BY DEF CountInv
    <3>3. FocusLost => focused' \in BOOLEAN
      OBVIOUS
    <3> HIDE DEF FocusLost
    <3> QED BY <3>1, <3>2, <3>3 DEF CountInv
  <2>2. FocusGained => CountInv'
    BY FaultsAssumption, LaunchAssumption, <1>1 DEF CountInv
  <2>3. UserExits => CountInv'
    BY FaultsAssumption, LaunchAssumption, <1>1 DEF CountInv
  <2>4. OpenChild => CountInv'
    BY FaultsAssumption, LaunchAssumption, <1>1 DEF CountInv
  <2>5. CloseChild => CountInv'
    BY FaultsAssumption, LaunchAssumption, <1>1 DEF CountInv
  <2>6. Detects => CountInv'
    BY FaultsAssumption, LaunchAssumption, <1>1 DEF CountInv
  <2>7. UpdateThreadFails => CountInv'
    BY FaultsAssumption, LaunchAssumption, <1>1 DEF CountInv
  <2>8. InlineStopReturns => CountInv'
    BY FaultsAssumption, LaunchAssumption, <1>1 DEF CountInv
  <2> HIDE DEF FocusLost, FocusGained, UserExits, OpenChild, CloseChild, Detects,
         UpdateThreadFails, InlineStopReturns
  <2> QED BY <2>1, <2>2, <2>3, <2>4, <2>5, <2>6, <2>7, <2>8 DEF ViewActs
<1>6. ViewActs => PageType'
  BY <1>1 DEF PageType
<1>7. ViewActs => OnceInv'
  BY <1>1 DEF OnceInv
<1>8. ViewActs => WorkerInv'
  BY <1>1 DEF WorkerInv, ThreadInv, LoadInv
<1>9. ViewActs => LoadInv'
  BY <1>1 DEF LoadInv, OnceInv, WorkerInv, FlagsSame
<1>10. ViewActs => ViewInv'
  BY <1>1 DEF ViewInv, LoadInv, WorkerInv, ThreadInv, PageType, FreshView, FlagsSame
<1>11. ViewActs => ResumeInv'
  BY <1>1 DEF ResumeInv, ThreadInv
<1>12. ViewActs => SessionInv'
  BY <1>1 DEF SessionInv, SessionOver, BeforeSession, ControlInv, LoadInv, ViewInv,
         WorkerInv, ThreadInv, PageType, FlagsSame
<1> QED
  BY <1>1, <1>2, <1>3, <1>4, <1>5, <1>6, <1>7, <1>8, <1>9, <1>10, <1>11, <1>12

(* It holds at first.                                                      *)
LEMMA InitInv == Init => IInv
<1> SUFFICES ASSUME Init PROVE IInv
  OBVIOUS
<1> USE DEF Init, ControlInit
<1>1. ThreadInv
  BY DEF ThreadInv, Locked
<1>2. ControlInv
  BY DEF ControlInv
<1>3. BoundInv /\ CountInv
  BY FaultsAssumption, LaunchAssumption DEF BoundInv, CountInv
<1>4. PageType /\ OnceInv
  BY FreshTypes DEF PageType, OnceInv
<1>5. QueueInv
  BY DEF QueueInv
<1>6. WorkerInv /\ LoadInv /\ ViewInv /\ ResumeInv /\ SessionInv
  BY DEF WorkerInv, LoadInv, ViewInv, ResumeInv, SessionInv, StopRunning, Starting
<1> QED BY <1>1, <1>2, <1>3, <1>4, <1>5, <1>6 DEF IInv

(* Every step keeps it.                                                    *)
LEMMA NextInv == IInv /\ [Next]_vars => IInv'
<1> SUFFICES ASSUME IInv, [Next]_vars PROVE IInv'
  OBVIOUS
<1>1. CASE UNCHANGED vars
  <2>1. QueueInv' /\ FlagsSame
    BY <1>1, QueueSame DEF vars, IInv
  <2>2. ThreadInv' /\ ControlInv' /\ BoundInv' /\ CountInv' /\ PageType'
      /\ OnceInv'
    BY <1>1 DEF vars, IInv, ThreadInv, ControlInv, BoundInv, CountInv, PageType, OnceInv
  <2>3. WorkerInv' /\ LoadInv' /\ ViewInv' /\ ResumeInv' /\ SessionInv'
    BY <1>1, <2>1 DEF vars, IInv, FlagsSame, WorkerInv, LoadInv, ViewInv, ResumeInv,
                      SessionInv, SessionOver
  <2> QED BY <2>1, <2>2, <2>3 DEF IInv
<1>2. ASSUME NEW t \in Threads, Controls(t) PROVE IInv'
  BY <1>2, StartStep, StopStep DEF Controls, Runs
<1>3. CASE OperationEnds /\ UNCHANGED uiVars
  BY <1>3, OperationStep
<1>4. CASE WorkerActs
  BY <1>4, WorkerStep
<1>5. CASE ClosureActs \/ Cleanups
  BY <1>5, ClosureStep, CleanupStep
<1>6. CASE StartConsoleStream \/ LeavesEarly
  BY <1>6, StartConsoleStep, LeavingStep
<1>7. CASE ViewActs
  BY <1>7, ViewStep
<1>8. \/ \E t \in Threads : Controls(t)
      \/ OperationEnds /\ UNCHANGED uiVars
      \/ WorkerActs \/ ClosureActs \/ Cleanups \/ StartConsoleStream \/ LeavesEarly
      \/ ViewActs
      \/ UNCHANGED vars
  <2>1. Connects \/ Recovers \/ Stops \/ UiStops \/ SessionEnds =>
          \/ \E t \in Threads : Controls(t)
          \/ OperationEnds /\ UNCHANGED uiVars
          \/ WorkerActs \/ ViewActs
    BY DEF Connects, Recovers, Stops, UiStops, SessionEnds, OperationEnds, WorkerActs,
           ViewActs
  <2>2. UserInput \/ Detects \/ UpdateThreadFails =>
          StartConsoleStream \/ LeavesEarly \/ Cleanups \/ ViewActs
    BY DEF UserInput, LeavesEarly, Cleanups, ViewActs
  <2>3. RunsClosure => ClosureActs \/ Cleanups
    BY DEF RunsClosure, ClosureActs, Cleanups, ResultIsShown
  <2> QED BY <2>1, <2>2, <2>3 DEF Next
<1> QED BY <1>1, <1>2, <1>3, <1>4, <1>5, <1>6, <1>7, <1>8

(* The inductive invariant holds in every behaviour of the menu, the       *)
(* loading page, the view and the workers they start.                      *)
THEOREM Invariance == Spec => []IInv
<1> QED BY InitInv, NextInv, PTL DEF Spec

(***************************************************************************)
(* What follows from the invariant.                                        *)
(***************************************************************************)

(* No stream runs behind the menu, whatever was cancelled, stopped or      *)
(* resumed on the way back to it, and whichever worker came late           *)
(* (StreamController::startStreamWithProfile, stopStream,                  *)
(* StreamLoadingActivity::requestCancel, StreamView::stopAndReturn).       *)
THEOREM MenuIsQuiet == Spec => []NoStreamBehindMenu
<1>1. IInv => NoStreamBehindMenu
  BY DEF IInv, SessionInv, SessionOver, NoStreamBehindMenu
<1> QED BY <1>1, Invariance, PTL

(* A cancelled connection is torn down by one owner, after the start has   *)
(* returned, whoever of the worker and the cancels comes first             *)
(* (ConnectionCancelState::tryClaimCleanup).                               *)
THEOREM OneTeardown == Spec => []TeardownSafety
<1>1. IInv => ControlTypeOK
  <2>1. ASSUME IInv, NEW t \in Threads PROVE pc[t] \in Steps[t]
    BY <2>1 DEF IInv, ThreadInv, Steps
  <2>2. ASSUME IInv PROVE ticket \in Nat /\ terminal \subseteq Nat
    BY <2>2, LaunchAssumption DEF IInv, BoundInv
  <2>3. ASSUME IInv PROVE DOMAIN pc = Threads
    BY <2>3 DEF IInv, ThreadInv
  <2> QED BY <2>1, <2>2, <2>3
          DEF IInv, ThreadInv, ControlInv, BoundInv, CountInv, ControlTypeOK
<1>2. IInv => TypeOK
  <2>1. IInv => teardowns \in Nat
    BY DEF IInv, OnceInv
  <2>2. IInv => posted \in Seq(Closures)
    BY DEF IInv, QueueInv
  <2> QED BY <1>1, <2>1, <2>2 DEF IInv, BoundInv, CountInv, PageType, Closures, TypeOK
<1>3. IInv => SingleTeardown
  BY DEF IInv, PageType, OnceInv, LoadInv, SingleTeardown
<1> QED BY <1>2, <1>3, Invariance, PTL DEF TeardownSafety

(***************************************************************************)
(* The workers, for any finite set of tasks.                               *)
(***************************************************************************)
WorkersInv ==
  /\ WorkersTypeOK
  /\ ActiveCountsWorkers
  /\ main = "done" => active = 0
  /\ main # "up" => shuttingDown

HoldingPhases == {"reserved", "running", "returned", "destroyed"}

(* Holding is finite, and of size 0 only when empty.                       *)
LEMMA HoldingIsFinite == IsFiniteSet(Holding) /\ (Cardinality(Holding) = 0 <=> Holding = {})
<1>1. IsFiniteSet(Holding)
  BY TasksAssumption, FS_Subset DEF Holding
<1> QED BY <1>1, FS_EmptySet

(* A task that takes a place.                                              *)
LEMMA Takes ==
  ASSUME WorkersTypeOK, ActiveCountsWorkers, NEW t \in Tasks, NEW p \in HoldingPhases,
         phase[t] \notin HoldingPhases, Moves(t, p), active' = active + 1
  PROVE  ActiveCountsWorkers'
<1>1. Holding' = Holding \cup {t} /\ t \notin Holding
  BY DEF Holding, HoldingPhases, Moves, WorkersTypeOK
<1>2. Cardinality(Holding') = Cardinality(Holding) + 1
  BY <1>1, HoldingIsFinite, FS_AddElement
<1> QED BY <1>2 DEF ActiveCountsWorkers

(* A task that gives its place back: there was one to give.                *)
LEMMA GivesBack ==
  ASSUME WorkersTypeOK, ActiveCountsWorkers, NEW t \in Tasks, NEW p \in Phases \ HoldingPhases,
         phase[t] \in HoldingPhases, Moves(t, p),
         active' = IF active > 0 THEN active - 1 ELSE active
  PROVE  ActiveCountsWorkers'
<1>1. Holding' = Holding \ {t} /\ t \in Holding
  BY DEF Holding, HoldingPhases, Moves, WorkersTypeOK
<1>2. Cardinality(Holding') = Cardinality(Holding) - 1
  BY <1>1, HoldingIsFinite, FS_RemoveElement
<1>3. Cardinality(Holding) # 0
  BY <1>1, HoldingIsFinite
<1>4. Cardinality(Holding) \in Nat
  BY HoldingIsFinite, FS_CardinalityType
<1> QED BY <1>2, <1>3, <1>4 DEF ActiveCountsWorkers

(* A task that keeps what it has.                                          *)
LEMMA Keeps ==
  ASSUME WorkersTypeOK, ActiveCountsWorkers, NEW t \in Tasks, NEW p,
         phase[t] \in HoldingPhases <=> p \in HoldingPhases,
         Moves(t, p), UNCHANGED active
  PROVE  ActiveCountsWorkers'
<1>1. Holding' = Holding
  BY DEF Holding, HoldingPhases, Moves, WorkersTypeOK
<1> QED BY <1>1 DEF ActiveCountsWorkers

-----------------------------------------------------------------------------
LEMMA WorkersTypingStep == WorkersInv /\ [WorkersNext]_workerVars => WorkersTypeOK'
<1> SUFFICES ASSUME WorkersInv, [WorkersNext]_workerVars PROVE WorkersTypeOK'
  OBVIOUS
<1> USE DEF WorkersInv
<1>1. ASSUME NEW t \in Tasks, Allocate(t) \/ Proceeds(t)
      PROVE  WorkersTypeOK'
  <2>1. PICK p \in Phases : Moves(t, p)
    BY <1>1 DEF Proceeds, Allocate, Reserve, CreateFails, DeleteTask, Enter,
                TaskReturns, TaskDestroyed, Complete, Phases
  <2>2. phase' \in [Tasks -> Phases]
    BY <2>1 DEF Moves, WorkersTypeOK
  <2>3. active' \in {active, active + 1, active - 1} /\ active' \in Nat
    BY <1>1 DEF Proceeds, Allocate, Reserve, CreateFails, DeleteTask, Enter,
                TaskReturns, TaskDestroyed, Complete, ReleaseWorker, WorkersTypeOK
  <2>4. shuttingDown' = shuttingDown /\ main' \in {main, "woken"}
    BY <1>1 DEF Proceeds, Allocate, Reserve, CreateFails, DeleteTask, Enter,
                TaskReturns, TaskDestroyed, Complete, ReleaseWorker, NotifyIdle
  <2> QED BY <2>2, <2>3, <2>4 DEF WorkersTypeOK
<1>2. CASE Shutdown \/ Wakes \/ UNCHANGED workerVars
  BY <1>2 DEF Shutdown, Wakes, workerVars, WorkersTypeOK
<1> QED BY <1>1, <1>2 DEF WorkersNext

LEMMA WorkersCountStep == WorkersInv /\ [WorkersNext]_workerVars => ActiveCountsWorkers'
<1> SUFFICES ASSUME WorkersInv, [WorkersNext]_workerVars PROVE ActiveCountsWorkers'
  OBVIOUS
<1> USE DEF WorkersInv
<1>1. ASSUME NEW t \in Tasks, Allocate(t) \/ Proceeds(t)
      PROVE  ActiveCountsWorkers'
  <2>1. CASE Allocate(t) \/ DeleteTask(t)
    <3>1. PICK p \in {"allocated", "refused"} : Moves(t, p)
      BY <2>1 DEF Allocate, DeleteTask
    <3> QED BY <2>1, <3>1, Keeps DEF Allocate, DeleteTask, HoldingPhases
  <2>2. CASE Reserve(t)
    <3>1. CASE active' = active + 1 /\ Moves(t, "reserved")
      BY <2>2, <3>1, Takes DEF Reserve, HoldingPhases
    <3>2. CASE UNCHANGED active /\ Moves(t, "refused")
      BY <2>2, <3>2, Keeps DEF Reserve, HoldingPhases
    <3> QED BY <2>2, <3>1, <3>2 DEF Reserve
  <2>3. CASE CreateFails(t)
    BY <2>3, GivesBack DEF CreateFails, ReleaseWorker, HoldingPhases, Phases
  <2>4. CASE Complete(t)
    BY <2>4, GivesBack DEF Complete, ReleaseWorker, HoldingPhases, Phases
  <2>5. CASE Enter(t) \/ TaskReturns(t) \/ TaskDestroyed(t)
    <3>1. PICK p \in {"running", "returned", "destroyed"} : Moves(t, p)
      BY <2>5 DEF Enter, TaskReturns, TaskDestroyed
    <3> QED BY <2>5, <3>1, Keeps DEF Enter, TaskReturns, TaskDestroyed, HoldingPhases
  <2> QED BY <1>1, <2>1, <2>2, <2>3, <2>4, <2>5 DEF Proceeds
<1>2. CASE Shutdown \/ Wakes \/ UNCHANGED workerVars
  BY <1>2 DEF Shutdown, Wakes, workerVars, ActiveCountsWorkers, Holding
<1> QED BY <1>1, <1>2 DEF WorkersNext

LEMMA WorkersMainStep ==
  WorkersInv /\ [WorkersNext]_workerVars =>
    /\ (main = "done" => active = 0)'
    /\ (main # "up" => shuttingDown)'
BY DEF WorkersInv, WorkersTypeOK, WorkersNext, Proceeds, Allocate, Reserve, Admits, CreateFails,
       DeleteTask, Enter, TaskReturns, TaskDestroyed, Complete, Shutdown, Wakes,
       ReleaseWorker, NotifyIdle, workerVars

LEMMA WorkersInvariance == WorkersSpec => []WorkersInv
<1>1. WorkersInit => WorkersInv
  <2>1. WorkersInit => Holding = {}
    BY DEF WorkersInit, Holding
  <2>2. WorkersInit => ActiveCountsWorkers
    BY <2>1, HoldingIsFinite DEF WorkersInit, ActiveCountsWorkers
  <2>3. WorkersInit => WorkersTypeOK
    <3>1. "none" \in Phases /\ 0 \in Nat /\ FALSE \in BOOLEAN
      BY DEF Phases
    <3>2. WorkersInit => phase \in [Tasks -> Phases]
      BY <3>1 DEF WorkersInit
    <3>3. WorkersInit =>
            /\ shuttingDown \in BOOLEAN /\ active \in Nat
            /\ main \in {"up", "waiting", "woken", "done"}
      BY <3>1 DEF WorkersInit
    <3> QED BY <3>2, <3>3 DEF WorkersTypeOK
  <2> QED BY <2>2, <2>3 DEF WorkersInit, WorkersInv
<1>2. WorkersInv /\ [WorkersNext]_workerVars => WorkersInv'
  BY WorkersTypingStep, WorkersCountStep, WorkersMainStep DEF WorkersInv
<1> QED BY <1>1, <1>2, PTL DEF WorkersSpec

-----------------------------------------------------------------------------
(* The counter is the number of places held, on every path of every start. *)
THEOREM Counting == WorkersSpec => []ActiveCountsWorkers
<1>1. WorkersInv => ActiveCountsWorkers
  BY DEF WorkersInv
<1> QED BY <1>1, WorkersInvariance, PTL

(* After shutdownNetworkWorkers no place is held (no worker thread runs a  *)
(* task or owns what it captured) and none will be given.                  *)
THEOREM ShutdownIsFinal == WorkersSpec => []NobodyOutlivesShutdown
<1>1. WorkersInv => NobodyOutlivesShutdown
  BY HoldingIsFinite DEF WorkersInv, NobodyOutlivesShutdown, ActiveCountsWorkers, Admits
<1> QED BY <1>1, WorkersInvariance, PTL
=============================================================================
