--------------------------- MODULE NetworkWorkers ---------------------------
(***************************************************************************)
(* platform/network_worker.cpp: detached threads for network tasks, counted*)
(* so that the application's shutdown can wait for them.                   *)
(*                                                                         *)
(* Any thread may call startNetworkWorker, at any time; each element of    *)
(* Tasks stands for one call.  The thread of main calls                    *)
(* shutdownNetworkWorkers once.  Each access to the state under its mutex  *)
(* is one step.                                                            *)
(***************************************************************************)
EXTENDS Naturals, FiniteSets

CONSTANT Tasks
ASSUME TasksAssumption == IsFiniteSet(Tasks)

VARIABLES
  shuttingDown,  \* shutting_down
  active,        \* active
  phase,         \* how far the call for each task has got
  main           \* shutdownNetworkWorkers: "up", "waiting", "woken", "done"
workerVars == <<shuttingDown, active, phase, main>>

Moves(t, p) == phase' = [phase EXCEPT ![t] = p]

WorkersInit ==
  /\ shuttingDown = FALSE /\ active = 0
  /\ phase = [t \in Tasks |-> "none"]
  /\ main = "up"

(* Seeded faults: plausible mistakes in operators defined below; no action *)
(* uses them.                                                              *)
AdmitsAlways == TRUE
LeaksReservation(t) ==
  phase[t] = "reserved" /\ Moves(t, "failed") /\ UNCHANGED <<shuttingDown, active, main>>
WakesNobody(n) == main' = main

(* startNetworkWorker: the task moves to the heap, if there is room.       *)
Allocate(t) ==
  /\ phase[t] = "none"
  /\ Moves(t, "allocated") \/ Moves(t, "refused")
  /\ UNCHANGED <<shuttingDown, active, main>>

(* reserveWorker *)
Admits == ~shuttingDown

Reserve(t) ==
  /\ phase[t] = "allocated"
  /\ \/ Admits /\ active' = active + 1 /\ Moves(t, "reserved")
     \/ ~Admits /\ UNCHANGED active /\ Moves(t, "refused")
  /\ UNCHANGED <<shuttingDown, main>>

(* idle.notify_all, when nothing is active any more.                       *)
NotifyIdle(n) == main' = IF n = 0 /\ main = "waiting" THEN "woken" ELSE main

(* releaseWorker *)
ReleaseWorker ==
  /\ active' = IF active > 0 THEN active - 1 ELSE active
  /\ NotifyIdle(active')
  /\ UNCHANGED shuttingDown

(* No thread: the reservation goes back before the task is deleted.        *)
CreateFails(t) ==
  /\ phase[t] = "reserved" /\ ReleaseWorker /\ Moves(t, "failed")
DeleteTask(t) ==
  /\ phase[t] = "failed" /\ Moves(t, "refused")
  /\ UNCHANGED <<shuttingDown, active, main>>

(* runNetworkWorker on the new thread: the task runs, returns or throws,   *)
(* is destroyed with what it captured, and only then releases its place.   *)
Enter(t) ==
  /\ phase[t] = "reserved" /\ Moves(t, "running")
  /\ UNCHANGED <<shuttingDown, active, main>>
TaskReturns(t) ==
  /\ phase[t] = "running" /\ Moves(t, "returned")
  /\ UNCHANGED <<shuttingDown, active, main>>
TaskDestroyed(t) ==
  /\ phase[t] = "returned" /\ Moves(t, "destroyed")
  /\ UNCHANGED <<shuttingDown, active, main>>

(* WorkerCompletion is declared before the task, so it is destroyed last.  *)
Complete(t) ==
  /\ phase[t] = "destroyed" /\ ReleaseWorker /\ Moves(t, "finished")

(* shutdownNetworkWorkers: the flag, then a wait for active to be 0.       *)
Shutdown ==
  /\ main = "up"
  /\ shuttingDown' = TRUE
  /\ main' = IF active = 0 THEN "done" ELSE "waiting"
  /\ UNCHANGED <<active, phase>>
Wakes ==
  /\ main = "woken"
  /\ main' = IF active = 0 THEN "done" ELSE "waiting"
  /\ UNCHANGED <<shuttingDown, active, phase>>

Proceeds(t) ==
  \/ Reserve(t) \/ CreateFails(t) \/ DeleteTask(t) \/ Enter(t)
  \/ TaskReturns(t) \/ TaskDestroyed(t) \/ Complete(t)
WorkersNext ==
  \/ \E t \in Tasks : Allocate(t) \/ Proceeds(t)
  \/ Shutdown \/ Wakes
WorkersSpec == WorkersInit /\ [][WorkersNext]_workerVars

(* Threads are scheduled, and every task ends: the ones that poll look at  *)
(* networkWorkersShuttingDown, the others wait on bounded requests.        *)
WorkersLiveSpec ==
  WorkersSpec /\ (\A t \in Tasks : WF_workerVars(Proceeds(t))) /\ WF_workerVars(Wakes)

-----------------------------------------------------------------------------
Phases == {"none", "allocated", "reserved", "running", "returned",
           "destroyed", "finished", "failed", "refused"}
WorkersTypeOK ==
  /\ shuttingDown \in BOOLEAN
  /\ active \in Nat
  /\ phase \in [Tasks -> Phases]
  /\ main \in {"up", "waiting", "woken", "done"}

(* A place is held from the reservation to the end of WorkerCompletion.    *)
Holding == {t \in Tasks :
              phase[t] \in {"reserved", "running", "returned", "destroyed"}}

(* active is the number of places held: it neither leaks nor is given back *)
(* twice on any of the failure paths.                                      *)
ActiveCountsWorkers == active = Cardinality(Holding)

(* Once shutdownNetworkWorkers has returned and main destroys the UI and   *)
(* the platform, no worker thread runs a task or still owns what the task  *)
(* captured, and no task will be let in.  Says nothing of a caller: one    *)
(* whose thread could not be made gives its place back before it destroys  *)
(* the task, and one that was refused destroys its own.                    *)
NobodyOutlivesShutdown ==
  main = "done" => Holding = {} /\ ~Admits

(* The shutdown comes to an end.                                           *)
ShutdownReturns == (main = "waiting") ~> (main = "done")
=============================================================================
