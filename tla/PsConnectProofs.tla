-------------------------- MODULE PsConnectProofs --------------------------
(***************************************************************************)
(* Proofs about PsConnect, for every number of failures and resumes: who   *)
(* holds a hole-punch session and who finishes it, whom a cancel reaches,  *)
(* and that whoever leaves leaves nothing behind.                          *)
(***************************************************************************)
EXTENDS PsConnect, FiniteSetTheorems, TLAPS

LockedSteps == StartLocked \cup StopLocked
AllSteps == StopSteps \cup StartSteps \cup {"auth", "done", "resume", "reopened", "cleared"}

(* Which thread runs what, and who holds the mutex.                        *)
ThreadInv ==
  /\ pc \in [Threads -> AllSteps]
  /\ then \in [Threads -> {"none", "fail", "reset", "cleanup", "exit"}]
  /\ pc["connect"] \in StopSteps \cup StartSteps \cup {"auth", "done"}
  /\ pc["resume"] \in StopSteps \cup StartSteps \cup {"resume", "reopened", "cleared"}
  /\ pc["stop"] \in StopSteps
  /\ then["connect"] \in {"none", "fail", "cleanup"}
  /\ then["resume"] \in {"none", "fail", "reset"}
  /\ then["stop"] \in {"none", "cleanup", "exit"}
  /\ \A t \in Threads : op = t <=> pc[t] \in LockedSteps
  /\ op \in Threads \cup {Nobody}

(* Values that no argument needs.                                          *)
SwitchInv == /\ remote \in BOOLEAN /\ report \in BOOLEAN
             /\ cancelReq \in BOOLEAN /\ terminal \in BOOLEAN
LinkInv == /\ shutdown \in BOOLEAN /\ connector \in BOOLEAN
           /\ transport \in BOOLEAN /\ rcancel \in BOOLEAN
WorkInv == /\ noticed \in BOOLEAN /\ input \in BOOLEAN
           /\ monitor \in BOOLEAN /\ recovering \in BOOLEAN
DataInv ==
  /\ state \in {"Idle", "Connecting", "Streaming", "Disconnected", "Error"}
  /\ sess \in {"none", "made", "init", "started"} /\ chiaki \in {"off", "run", "quit"}
  /\ media \in {"none", "made", "ready", "shown", "shut"}
  /\ faults \in 0..MaxFaults /\ posted \subseteq {"open", "pop", "resumed", "notResumed"}

(* Where the page is, and what the UI thread does.                         *)
PageType ==
  /\ screen \in {"page", "view", "gone"} /\ page \in [DOMAIN FreshPage -> BOOLEAN]
  /\ ui \in {"free", "cancel", "cancelled", "exit", "exited", "leave", "left"}

(* A thread is in one of the steps of S, or in a start under the mutex.    *)
SomeAt(S) == \E t \in Threads : pc[t] \in S
Starting == SomeAt(StartLocked)

(* The connector runs for the one thread that waits in it.                 *)
Attempting == {"publish", "create", "start", "punch", "unpublish", "finish", "ready"}
ConnType ==
  conn \in [at : ConnSteps, try : 0..kRemoteMaxAttempts, handle : Nat,
            err : {"none", "reject", "retry", "final", "cancel"}, refreshed : BOOLEAN]
ConnInv ==
  /\ conn.at \in {"refresh", "backoff"} => conn.try < kRemoteMaxAttempts
  /\ conn.at # "off" <=> SomeAt({"remote"})
  /\ SomeAt({"made", "remote"}) => connector
  /\ SomeAt({"connector", "made", "remote"}) => remote

(* Where each hole-punch session is: handed on in the step that gives it   *)
(* up, and the ledger: finished once, exactly when nobody holds it.        *)
PlaceInv ==
  /\ conn.handle # None <=> conn.at \in Attempting
  /\ published # None =>
       \/ conn.at \in Attempting \ {"finish"} /\ published = conn.handle
       \/ conn.at = "handover" /\ published = resultH
  /\ sessH # None => SomeAt({"sessTake"})
  /\ chiakiH # None => sess \in {"init", "started"}
  /\ SomeAt({"sessInit", "sessTake"}) => sess = "made"
  /\ resultH # None =>
       /\ remote
       /\ \/ conn.at \in {"handover", "ok"}
          \/ SomeAt({"parts", "sessInit"})
          \/ cancelReq /\ (page.cancel \/ terminal) /\ ~Starting

LedgerInv ==
  /\ created \in Handles \cup {None} /\ {conn.handle, resultH, sessH, chiakiH} \subseteq 0..created
  /\ finis \in [Handles -> Nat]
  /\ conn.handle # None => conn.handle \notin {resultH, sessH, chiakiH}
  /\ resultH # None => resultH \notin {sessH, chiakiH}
  /\ sessH # None => sessH # chiakiH
  /\ \A h \in Handles : finis[h] = IF h <= created /\ h \notin Held THEN 1 ELSE 0

(* The connection worker is past the start it was made for.                *)
EarlySteps == {"auth", "begin", "connector", "made", "remote", "parts", "sessInit",
               "sessTake", "sessStart", "sessUp", "media"}
Launched == page.workerStarted /\ pc["connect"] \notin EarlySteps

(* How many sessions the starts to come may still create.                  *)
ConnectCredit ==
  IF ~page.started \/ pc["connect"] \in {"auth", "begin", "connector", "made"}
  THEN kRemoteMaxAttempts ELSE 0
ResumeComing ==
  \/ pc["resume"] \in {"resume", "reopened", "cleared", "begin", "connector", "made"}
  \/ pc["resume"] \in (StopSteps \ {"idle"}) /\ then["resume"] # "fail"
ResumeCredit ==
  kRemoteMaxAttempts * (MaxResumes - resumes)
    + IF ResumeComing THEN kRemoteMaxAttempts ELSE 0
AttemptCredit ==
  IF conn.at = "enter" THEN kRemoteMaxAttempts
  ELSE IF conn.at = "init" THEN kRemoteMaxAttempts + 1 - conn.try
  ELSE IF conn.at \in {"off", "ok", "failed", "ready", "handover"} THEN 0
  ELSE kRemoteMaxAttempts - conn.try
CreditInv ==
  /\ resumes \in 0..MaxResumes
  /\ created + ConnectCredit + ResumeCredit + AttemptCredit
       <= kRemoteMaxAttempts * (MaxResumes + 1)

(* The page is left by a cancel or for the view, never both; what follows  *)
(* from the one excludes the other.                                        *)
PageInv ==
  /\ ~page.started => pc["connect"] = "idle" /\ ~page.workerStarted
  /\ ~page.workerStarted => pc["connect"] = "idle"
  /\ page.done => pc["connect"] \notin EarlySteps /\ page.started
  /\ page.cancel => page.finished /\ ~terminal /\ screen # "view" /\ pc["resume"] = "idle"
  /\ (page.finished /\ screen = "page") => page.cancel
  /\ ui \in {"cancel", "cancelled"} => page.cancel
  /\ ui \in {"exit", "exited", "leave", "left"} => terminal
  /\ ("pop" \in posted \/ screen = "gone") => terminal \/ page.cancel
  /\ (page.cancel /\ ~page.workerStarted) => ui # "free" \/ screen = "gone"
  /\ (media \in {"ready", "shown"} \/ "open" \in posted \/ screen = "view" \/ terminal
        \/ pc["resume"] # "idle") => Launched
  /\ (pc["resume"] # "idle" \/ terminal \/ screen = "view") => page.finished
  /\ pc["connect"] = "done" => page.done

(* The stop worker is used once: for a clean-up, or for an exit.           *)
CleanInv ==
  /\ \/ cleanups = 0
     \/ /\ cleanups = 1 /\ page.claimed /\ page.done /\ page.cancel
        /\ page.workerStarted
  /\ pc["stop"] # "idle" => then["stop"] \in {"cleanup", "exit"}
  /\ ui \in {"exit", "exited"} => pc["stop"] = "idle"
  /\ pc["stop"] # "idle" => \/ then["stop"] = "exit" /\ terminal
                            \/ then["stop"] = "cleanup" /\ cleanups = 1
  /\ then["connect"] = "cleanup" => cleanups = 1
  /\ pc["connect"] \in StopSteps \ {"idle"} => then["connect"] # "none"

(* A start that runs and has been cancelled was cancelled by the user.     *)
CancelInv ==
  /\ Starting /\ cancelReq => page.cancel \/ terminal
  /\ CancelReachesConnector
  /\ (ui \in {"exited", "left"} \/ (then["stop"] = "exit" /\ pc["stop"] # "idle")) => cancelReq

(* Everything is down.                                                     *)
Down ==
  /\ ~Starting
  /\ sess = "none" /\ chiaki = "off" /\ media \in {"none", "shut"} /\ ~connector
  /\ resultH = None
TakingDown == {"stopJoin", "stopLock", "stopSession", "stopRemote", "stopMedia"}
DownInv ==
  /\ then["connect"] = "fail" /\ pc["resume"] # "idle" => overlapped
  /\ \A t \in Threads :
       /\ pc[t] \in {"stopRemote", "stopMedia"} => sess = "none" /\ chiaki = "off"
       /\ pc[t] = "stopMedia" => ~connector /\ resultH = None
  /\ sess = "none" => chiaki = "off"
  /\ ~page.workerStarted => Down
  /\ shutdown => Launched
  /\ (shutdown \/ pc["resume"] \in {"reopened", "cleared"}) =>
       Down \/ overlapped \/ SomeAt(TakingDown)
  /\ (shutdown /\ pc["resume"] \in {"reopened", "cleared", "begin"} /\ ~overlapped) =>
       terminal /\ cancelReq
  /\ \A t \in Threads : pc[t] \in TakingDown \cup {"stopped"} =>
       shutdown \/ overlapped
  /\ ("pop" \in posted \/ (screen = "gone" /\ page.workerStarted)) =>
       shutdown \/ overlapped

(* Whether a stop met a resume, kept as a flag.                            *)
HistoryInv == overlapped \in BOOLEAN

(* The inductive invariant.                                                *)
IInv ==
  /\ ThreadInv /\ SwitchInv /\ LinkInv /\ WorkInv /\ DataInv /\ PageType /\ HistoryInv
  /\ ConnType /\ ConnInv /\ PlaceInv /\ LedgerInv /\ CreditInv
  /\ PageInv /\ CleanInv /\ CancelInv /\ DownInv

USE DEF connVars, ctrlVars, psVars, pageVars, streamVars, workerVars, flagVars, fixedVars,
        SomeAt, Starting, LockedSteps, AllSteps, StopSteps, StartSteps, StartLocked,
        StopLocked, Threads, Nobody, Goes, Fails, Releases, At, TryClaims, OnPage, OnView,
        Fault

(* The actions of the UI thread and of the workers of the page.            *)
PageActs == \/ PictureArrives \/ StartWorker \/ Authorises \/ CancelPressed
            \/ CancelReaches \/ OpenStream
CleanUpActs == WorkerDone \/ WorkerFinalizes \/ CancelSchedules \/ RepeatCancel

(* A cancel that schedules the clean-up: no clean-up is due, or it cannot  *)
(* be started, or the stop worker begins it.                               *)
SchedulingStep ==
  /\ page.cancel /\ ui' = "free"
  /\ UNCHANGED <<conn, published, created, finis, resultH, op, flagVars, state, connector,
                 streamVars, workerVars, fixedVars, posted, recovering, resumes>>
  /\ page' \in [DOMAIN FreshPage -> BOOLEAN]
  /\ page'.started = page.started /\ page'.workerStarted = page.workerStarted
  /\ page'.cancel = page.cancel /\ page'.done = page.done
  /\ page'.finished = page.finished
  /\ \/ ui = "cancelled" /\ rcancel' = (rcancel \/ connector)
     \/ ui = "free" /\ rcancel' = rcancel
  /\ IF page.workerStarted THEN screen' = screen ELSE screen' = "gone"
  /\ \/ UNCHANGED <<pc, then, cleanups>> /\ (page.claimed => page'.claimed)
     \/ /\ page.workerStarted /\ page.done /\ ~page.claimed /\ page'.claimed
        /\ pc' = [pc EXCEPT !["stop"] = "stop"] /\ cleanups' = cleanups + 1
        /\ then' = [then EXCEPT !["stop"] = "cleanup"]

ViewActs == \/ ComesBack \/ ResumeReturns \/ ResumeResult \/ UserExits
            \/ ExitReaches \/ ExitStops

(***************************************************************************)
(* The hole-punch sessions.                                                *)
(***************************************************************************)

(* Whatever the code does, a session is created, handed on, finished, or   *)
(* left with whom it is.                                                   *)
Creates == /\ conn.handle = None /\ conn'.handle = created + 1 /\ created' = created + 1
           /\ UNCHANGED <<finis, resultH, sessH, chiakiH>>
GivesResult == /\ conn.handle # None /\ resultH = None /\ resultH' = conn.handle
               /\ conn'.handle = None /\ UNCHANGED <<created, finis, sessH, chiakiH>>
GivesSession == /\ resultH # None /\ sessH = None /\ sessH' = resultH /\ resultH' = None
                /\ conn'.handle = conn.handle /\ UNCHANGED <<created, finis, chiakiH>>
GivesChiaki == /\ sessH # None /\ chiakiH = None /\ chiakiH' = sessH /\ sessH' = None
               /\ conn'.handle = conn.handle /\ UNCHANGED <<created, finis, resultH>>
EndsAttempt == /\ conn.handle # None /\ Finishes(conn.handle) /\ conn'.handle = None
               /\ UNCHANGED <<created, resultH, sessH, chiakiH>>
EndsResult == /\ resultH # None /\ Finishes(resultH) /\ resultH' = None
              /\ conn'.handle = conn.handle /\ UNCHANGED <<created, sessH, chiakiH>>
EndsSession == /\ sessH # None /\ Finishes(sessH) /\ sessH' = None
               /\ conn'.handle = conn.handle /\ UNCHANGED <<created, resultH, chiakiH>>
EndsChiaki == /\ chiakiH # None /\ Finishes(chiakiH) /\ chiakiH' = None
              /\ conn'.handle = conn.handle /\ UNCHANGED <<created, resultH, sessH>>
Keeps == conn'.handle = conn.handle /\ UNCHANGED <<created, finis, resultH, sessH, chiakiH>>
HandStep == \/ Creates \/ GivesResult \/ GivesSession \/ GivesChiaki
            \/ EndsAttempt \/ EndsResult \/ EndsSession \/ EndsChiaki \/ Keeps

(* Sessions are numbers, and None is not one.                              *)
LEMMA HandlesInterval ==
  /\ Handles = 1..(3 * (MaxResumes + 1))
  /\ \A h \in Handles : h \in Nat /\ h # None
BY BoundsAssumption DEF Handles, kRemoteMaxAttempts, None

(* A start that is about to run connect has no result left over.           *)
LEMMA NothingPending ==
  ASSUME IInv, conn.at \notin {"off", "handover", "ok"}
  PROVE  resultH = None
BY DEF IInv, PlaceInv, ConnInv, ThreadInv

(* The attempts that the bounds allow are enough for the next session.     *)
LEMMA RoomToCreate ==
  ASSUME IInv, InitSession PROVE created + 1 \in Handles
<1>1. ConnectCredit >= 0 /\ ConnectCredit \in Nat
  BY DEF ConnectCredit, kRemoteMaxAttempts
<1>2. ResumeCredit >= 0 /\ ResumeCredit \in Int
  BY BoundsAssumption DEF ResumeCredit, kRemoteMaxAttempts, IInv, CreditInv
<1>3. AttemptCredit >= 1 /\ AttemptCredit \in Int
  BY DEF AttemptCredit, kRemoteMaxAttempts, IInv, ConnType, InitSession
<1> QED
  BY <1>1, <1>2, <1>3, BoundsAssumption
  DEF Handles, IInv, CreditInv, LedgerInv, kRemoteMaxAttempts


LEMMA FinishedOnce ==
  ASSUME LedgerInv, NEW h \in Held, Finishes(h), created' = created, Held' = Held \ {h}
  PROVE  /\ finis' \in [Handles -> Nat]
         /\ \A g \in Handles : finis'[g] = IF g <= created' /\ g \notin Held' THEN 1 ELSE 0
<1>1. h \in Handles /\ h <= created
  BY HandlesInterval, BoundsAssumption DEF LedgerInv, Held, None
<1>2. finis[h] = 0
  BY <1>1 DEF LedgerInv
<1>3. ASSUME NEW g \in Handles
      PROVE  finis'[g] = IF g <= created' /\ g \notin Held' THEN 1 ELSE 0
  <2>1. CASE g = h
    BY <1>1, <1>2, <2>1 DEF LedgerInv, Finishes
  <2>2. CASE g # h
    <3>1. finis'[g] = finis[g]
      BY <1>1, <2>2 DEF LedgerInv, Finishes
    <3> QED BY <2>2, <3>1 DEF LedgerInv
  <2> QED BY <2>1, <2>2
<1>4. finis' \in [Handles -> Nat]
  BY <1>1, <1>2 DEF LedgerInv, Finishes
<1> QED BY <1>3, <1>4

LEMMA LedgerStep ==
  ASSUME LedgerInv, HandStep, created' = created \/ created + 1 \in Handles
  PROVE  LedgerInv'
<1> USE HandlesInterval
<1>0. created \in Nat
  BY DEF LedgerInv, None
<1>1. CASE Creates
  BY <1>1 DEF Creates, LedgerInv, Held, None
<1>2. CASE GivesResult
  BY <1>2 DEF GivesResult, LedgerInv, Held, None
<1>3. CASE GivesSession
  BY <1>3 DEF GivesSession, LedgerInv, Held, None
<1>4. CASE GivesChiaki
  BY <1>4 DEF GivesChiaki, LedgerInv, Held, None
<1>5. CASE EndsAttempt
  <2>1. conn.handle \in Held /\ Held' = Held \ {conn.handle} /\ created' = created
    BY <1>5 DEF EndsAttempt, LedgerInv, Held
  <2>2. Finishes(conn.handle)
    BY <1>5 DEF EndsAttempt
  <2> QED BY <1>5, <2>1, <2>2, FinishedOnce, <1>0 DEF None, EndsAttempt, LedgerInv
<1>6. CASE EndsResult
  <2>1. resultH \in Held /\ Held' = Held \ {resultH} /\ created' = created
    BY <1>6 DEF EndsResult, LedgerInv, Held
  <2> QED BY <1>6, <2>1, FinishedOnce, <1>0 DEF None, EndsResult, LedgerInv
<1>7. CASE EndsSession
  <2>1. sessH \in Held /\ Held' = Held \ {sessH} /\ created' = created
    BY <1>7 DEF EndsSession, LedgerInv, Held
  <2> QED BY <1>7, <2>1, FinishedOnce, <1>0 DEF None, EndsSession, LedgerInv
<1>8. CASE EndsChiaki
  <2>1. chiakiH \in Held /\ Held' = Held \ {chiakiH} /\ created' = created
    BY <1>8 DEF EndsChiaki, LedgerInv, Held
  <2> QED BY <1>8, <2>1, FinishedOnce, <1>0 DEF None, EndsChiaki, LedgerInv
<1>9. CASE Keeps
  BY <1>9 DEF Keeps, LedgerInv, Held
<1> QED BY <1>1, <1>2, <1>3, <1>4, <1>5, <1>6, <1>7, <1>8, <1>9 DEF HandStep

(* The history variable is a Boolean.                                      *)
LEMMA HistoryStep ==
  ASSUME IInv, overlapped' = (overlapped \/ StopMeetsResume')
  PROVE  HistoryInv'
BY DEF IInv, HistoryInv, StopMeetsResume

(* Credits are numbers.                                                    *)
LEMMA CreditTypes ==
  ASSUME IInv, ConnType', resumes' \in 0..MaxResumes
  PROVE  /\ ConnectCredit \in Int /\ ConnectCredit' \in Int
         /\ ResumeCredit \in Int /\ ResumeCredit' \in Int
         /\ AttemptCredit \in Int /\ AttemptCredit' \in Int
         /\ created \in Int /\ kRemoteMaxAttempts * (MaxResumes + 1) \in Int
         /\ created + ConnectCredit + ResumeCredit + AttemptCredit
              <= kRemoteMaxAttempts * (MaxResumes + 1)
<1>1. ConnectCredit \in Int /\ ConnectCredit' \in Int
  BY DEF ConnectCredit, kRemoteMaxAttempts
<1>2. ResumeCredit \in Int /\ ResumeCredit' \in Int
  BY BoundsAssumption DEF ResumeCredit, kRemoteMaxAttempts, IInv, CreditInv
<1>3. AttemptCredit \in Int /\ AttemptCredit' \in Int
  BY DEF AttemptCredit, kRemoteMaxAttempts, IInv, ConnType
<1>4. created \in Int /\ kRemoteMaxAttempts * (MaxResumes + 1) \in Int
  BY HandlesInterval, BoundsAssumption DEF IInv, LedgerInv, None, kRemoteMaxAttempts
<1> QED BY <1>1, <1>2, <1>3, <1>4 DEF IInv, CreditInv

(* A step that creates no session, and lets the starts to come create no   *)
(* more.                                                                   *)
LEMMA CreditStep ==
  ASSUME IInv, ConnType', resumes' \in 0..MaxResumes, created' = created,
         ConnectCredit' <= ConnectCredit, ResumeCredit' <= ResumeCredit,
         AttemptCredit' <= AttemptCredit
  PROVE  CreditInv' /\ created' = created
<1>1. PICK a \in Int, b \in Int, c \in Int :
        a = ConnectCredit' /\ b = ResumeCredit' /\ c = AttemptCredit'
  BY CreditTypes
<1>2. a <= ConnectCredit /\ b <= ResumeCredit /\ c <= AttemptCredit
  BY <1>1, Zenon
<1>3. created + a + b + c <= kRemoteMaxAttempts * (MaxResumes + 1)
  BY <1>2, CreditTypes
<1> QED BY <1>1, <1>3, Zenon DEF CreditInv

(* A start that enters connect spends its credit there.                    *)
LEMMA CreditMoves ==
  ASSUME IInv, ConnType', resumes' \in 0..MaxResumes, created' = created,
         ConnectCredit' + ResumeCredit' + AttemptCredit'
           <= ConnectCredit + ResumeCredit + AttemptCredit
  PROVE  CreditInv' /\ created' = created
<1>1. PICK a \in Int, b \in Int, c \in Int :
        a = ConnectCredit' /\ b = ResumeCredit' /\ c = AttemptCredit'
  BY CreditTypes
<1>2. a + b + c <= ConnectCredit + ResumeCredit + AttemptCredit
  BY <1>1, Zenon
<1>3. created + a + b + c <= kRemoteMaxAttempts * (MaxResumes + 1)
  BY <1>2, CreditTypes
<1> QED BY <1>1, <1>3, Zenon DEF CreditInv

(* connect spends one of its attempts on each session it creates.          *)
LEMMA CreditSpent ==
  ASSUME IInv, ConnType', resumes' = resumes, ConnectCredit' = ConnectCredit,
         ResumeCredit' = ResumeCredit, created' \in Int,
         created' + AttemptCredit' <= created + AttemptCredit
  PROVE  CreditInv'
<1>0. resumes' \in 0..MaxResumes
  BY DEF IInv, CreditInv
<1>1. PICK a \in Int, n \in Int : a = AttemptCredit' /\ n = created'
  BY <1>0, CreditTypes
<1>2. n + a <= created + AttemptCredit
  BY <1>1, Zenon
<1>3. n + ConnectCredit + ResumeCredit + a <= kRemoteMaxAttempts * (MaxResumes + 1)
  BY <1>0, <1>2, CreditTypes
<1> QED BY <1>0, <1>1, <1>3, Zenon DEF CreditInv

(***************************************************************************)
(* connect, on its own.                                                    *)
(***************************************************************************)

(* connect keeps its types: no attempt after the third.                    *)
LEMMA ConnTyping ==
  ASSUME ConnType, ConnInv, created \in Nat, Connects
  PROVE  ConnType'
<1>1. 1 \in 0..kRemoteMaxAttempts /\ created + 1 \in Nat /\ None \in Nat
  BY DEF kRemoteMaxAttempts, None
<1>2. conn.at \in {"refresh", "backoff"} => conn.try + 1 \in 0..kRemoteMaxAttempts
  BY DEF ConnInv, ConnType, kRemoteMaxAttempts
<1>3. CASE ConnectEnters \/ InitSession \/ RefreshToken \/ Backoff
  BY <1>1, <1>2, <1>3
     DEF ConnType, ConnSteps, ConnectEnters, InitSession, RefreshToken, Backoff, NextAttempt
<1>4. CASE Publish \/ CreateSession \/ StartConsole \/ PunchControl \/ Unpublish \/ Handover
  BY <1>4 DEF ConnType, ConnSteps, Publish, CreateSession, StartConsole, PunchControl,
              Unpublish, Handover, CallReturns, FailsWith
<1>5. CASE FinishAttempt \/ Ready
  BY <1>1, <1>5 DEF ConnType, ConnSteps, FinishAttempt, Ready
<1> QED BY <1>3, <1>4, <1>5 DEF Connects

(* It is not entered or left here, and an attempt follows only an early    *)
(* one.                                                                    *)
LEMMA ConnMoves ==
  ASSUME ConnType, ConnInv, Connects
  PROVE  /\ conn.at # "off" /\ conn'.at # "off"
         /\ conn'.at \in {"refresh", "backoff"} => conn'.try < kRemoteMaxAttempts
<1> USE DEF ConnType, Connects, ConnectEnters, InitSession, Publish, CreateSession,
            StartConsole, PunchControl, Unpublish, FinishAttempt, RefreshToken, Backoff,
            Ready, Handover, CallReturns, FailsWith, NextAttempt
<1>1. conn.at # "off" /\ conn'.at # "off"
  OBVIOUS
<1>2. conn'.at \in {"refresh", "backoff"} => conn'.try < kRemoteMaxAttempts
  BY DEF ConnInv, ShouldRetry, ShouldRefresh, AttemptRemains
<1> QED BY <1>1, <1>2

(* An attempt has a session.                                               *)
LEMMA ConnHandle ==
  ASSUME ConnType, PlaceInv, created \in Nat, Connects
  PROVE  conn'.handle # None <=> conn'.at \in Attempting
<1> USE DEF Attempting, None
<1>0. created + 1 # None /\ created + 1 \in Nat
  OBVIOUS
<1>1. ConnectEnters => (conn'.handle # None <=> conn'.at \in Attempting)
  BY DEF ConnType, PlaceInv, ConnectEnters
<1>2. InitSession => (conn'.handle # None <=> conn'.at \in Attempting)
  BY <1>0 DEF ConnType, PlaceInv, InitSession
<1>3. Publish => (conn'.handle # None <=> conn'.at \in Attempting)
  BY DEF ConnType, PlaceInv, Publish, FailsWith
<1>4. CreateSession => (conn'.handle # None <=> conn'.at \in Attempting)
  BY DEF ConnType, PlaceInv, CreateSession, CallReturns, FailsWith
<1>5. StartConsole => (conn'.handle # None <=> conn'.at \in Attempting)
  BY DEF ConnType, PlaceInv, StartConsole, CallReturns, FailsWith
<1>6. PunchControl => (conn'.handle # None <=> conn'.at \in Attempting)
  BY DEF ConnType, PlaceInv, PunchControl, CallReturns, FailsWith
<1>7. Unpublish => (conn'.handle # None <=> conn'.at \in Attempting)
  BY DEF ConnType, PlaceInv, Unpublish, Withdraws
<1>8. FinishAttempt => (conn'.handle # None <=> conn'.at \in Attempting)
  BY DEF ConnType, PlaceInv, FinishAttempt, ShouldRefresh, ShouldRetry
<1>9. RefreshToken => (conn'.handle # None <=> conn'.at \in Attempting)
  BY DEF ConnType, PlaceInv, RefreshToken, NextAttempt
<1>10. Backoff => (conn'.handle # None <=> conn'.at \in Attempting)
  BY DEF ConnType, PlaceInv, Backoff, NextAttempt
<1>11. Ready => (conn'.handle # None <=> conn'.at \in Attempting)
  BY DEF ConnType, PlaceInv, Ready
<1>12. Handover => (conn'.handle # None <=> conn'.at \in Attempting)
  BY DEF ConnType, PlaceInv, Handover
<1> QED
  BY <1>1, <1>2, <1>3, <1>4, <1>5, <1>6, <1>7, <1>8, <1>9, <1>10, <1>11, <1>12
  DEF Connects

(* What is published is the session of the attempt, or its result.         *)
LEMMA ConnPublished ==
  ASSUME ConnType, PlaceInv, created \in Nat, Connects
  PROVE  published' # None =>
           \/ conn'.at \in Attempting \ {"finish"} /\ published' = conn'.handle
           \/ conn'.at = "handover" /\ published' = resultH'
<1> DEFINE Goal == published' # None =>
           \/ conn'.at \in Attempting \ {"finish"} /\ published' = conn'.handle
           \/ conn'.at = "handover" /\ published' = resultH'
<1> USE DEF Attempting, None
<1>1. ConnectEnters => Goal
  BY DEF ConnType, PlaceInv, ConnectEnters
<1>2. InitSession => Goal
  BY DEF ConnType, PlaceInv, InitSession
<1>3. Publish => Goal
  BY DEF ConnType, PlaceInv, Publish, FailsWith
<1>4. CreateSession => Goal
  BY DEF ConnType, PlaceInv, CreateSession, CallReturns, FailsWith
<1>5. StartConsole => Goal
  BY DEF ConnType, PlaceInv, StartConsole, CallReturns, FailsWith
<1>6. PunchControl => Goal
  BY DEF ConnType, PlaceInv, PunchControl, CallReturns, FailsWith
<1>7. Unpublish => Goal
  BY DEF ConnType, PlaceInv, Unpublish, Withdraws
<1>8. FinishAttempt => Goal
  BY DEF ConnType, PlaceInv, FinishAttempt, ShouldRefresh, ShouldRetry
<1>9. RefreshToken => Goal
  BY DEF ConnType, PlaceInv, RefreshToken, NextAttempt
<1>10. Backoff => Goal
  BY DEF ConnType, PlaceInv, Backoff, NextAttempt
<1>11. Ready => Goal
  BY DEF ConnType, PlaceInv, Ready
<1>12. Handover => Goal
  BY DEF ConnType, PlaceInv, Handover
<1> QED
  BY <1>1, <1>2, <1>3, <1>4, <1>5, <1>6, <1>7, <1>8, <1>9, <1>10, <1>11, <1>12
  DEF Connects

(* A result that is set was handed over, or is that of before.             *)
LEMMA ConnResult ==
  ASSUME ConnType, Connects
  PROVE  resultH' # None => \/ conn'.at \in {"handover", "ok"}
                            \/ resultH' = resultH /\ conn.at \notin {"handover", "ok"}
<1> DEFINE Goal == resultH' # None => \/ conn'.at \in {"handover", "ok"}
                                      \/ resultH' = resultH /\ conn.at \notin {"handover", "ok"}
<1>1. ConnectEnters => Goal
  BY DEF ConnType, ConnectEnters
<1>2. InitSession => Goal
  BY DEF ConnType, InitSession
<1>3. Publish => Goal
  BY DEF ConnType, Publish, FailsWith
<1>4. CreateSession => Goal
  BY DEF ConnType, CreateSession, CallReturns, FailsWith
<1>5. StartConsole => Goal
  BY DEF ConnType, StartConsole, CallReturns, FailsWith
<1>6. PunchControl => Goal
  BY DEF ConnType, PunchControl, CallReturns, FailsWith
<1>7. Unpublish => Goal
  BY DEF ConnType, Unpublish, Withdraws
<1>8. FinishAttempt => Goal
  BY DEF ConnType, FinishAttempt, ShouldRefresh, ShouldRetry
<1>9. RefreshToken => Goal
  BY DEF ConnType, RefreshToken, NextAttempt
<1>10. Backoff => Goal
  BY DEF ConnType, Backoff, NextAttempt
<1>11. Ready => Goal
  BY DEF ConnType, Ready
<1>12. Handover => conn'.at = "ok"
  BY DEF ConnType, Handover
<1> QED
  BY <1>1, <1>2, <1>3, <1>4, <1>5, <1>6, <1>7, <1>8, <1>9, <1>10, <1>11, <1>12
  DEF Connects

(* The attempts of a connect are counted.                                  *)
LEMMA AttemptsAreCounted ==
  ASSUME IInv, Connects
  PROVE created' + AttemptCredit' <= created + AttemptCredit
<1>1. created \in Nat /\ conn.try \in 0..3 /\ conn.at \in ConnSteps
  BY HandlesInterval DEF IInv, LedgerInv, ConnType, None, kRemoteMaxAttempts
<1>2. CASE ConnectEnters
  <2>1. /\ conn.at = "enter" /\ created' = created
        /\ (conn'.at = "failed" \/ (conn'.at = "init" /\ conn'.try = 1))
    BY <1>2 DEF IInv, ConnType, ConnectEnters
  <2>2. AttemptCredit = 3 /\ (AttemptCredit' = 0 \/ AttemptCredit' = 3)
    BY <2>1 DEF AttemptCredit, kRemoteMaxAttempts
  <2> QED BY <1>1, <2>1, <2>2
<1>3. CASE InitSession
  <2>1. /\ conn.at = "init"
        /\ \/ conn'.at = "failed" /\ created' = created
           \/ conn'.at = "publish" /\ conn'.try = conn.try /\ created' = created + 1
    BY <1>3 DEF IInv, ConnType, InitSession
  <2> QED BY <1>1, <2>1 DEF AttemptCredit, kRemoteMaxAttempts
<1>4. CASE RefreshToken \/ Backoff
  <2>1. /\ conn.at \in {"refresh", "backoff"} /\ created' = created
        /\ (conn'.at = "failed" \/ (conn'.at = "init" /\ conn'.try = conn.try + 1))
    BY <1>4 DEF IInv, ConnType, RefreshToken, Backoff, NextAttempt
  <2> QED BY <1>1, <2>1 DEF AttemptCredit, kRemoteMaxAttempts
<1>5. CASE \/ Publish \/ CreateSession \/ StartConsole \/ PunchControl \/ Unpublish
           \/ FinishAttempt \/ Ready \/ Handover
  <2>1. /\ conn'.try = conn.try /\ created' = created
        /\ conn.at \in {"publish", "create", "start", "punch", "unpublish", "finish",
                        "ready", "handover"}
        /\ conn'.at \notin {"enter", "init", "off"}
        /\ conn.at \in {"ready", "handover"} => conn'.at \in {"handover", "ok"}
    BY <1>5 DEF IInv, ConnType, Publish, CreateSession, StartConsole, PunchControl, Unpublish,
                FinishAttempt, Ready, Handover, CallReturns, FailsWith
  <2> QED BY <1>1, <2>1 DEF AttemptCredit, kRemoteMaxAttempts
<1> QED BY <1>2, <1>3, <1>4, <1>5 DEF Connects

(* What connect does with the session it has.                              *)
LEMMA ConnHands ==
  ASSUME IInv, Connects, UNCHANGED psVars
  PROVE  HandStep
<1> USE DEF IInv, ConnType, PlaceInv, psVars
<1>1. CASE ConnectEnters
  BY <1>1, NothingPending DEF ConnectEnters, HandStep, Keeps, Attempting
<1>2. CASE InitSession
  BY <1>2 DEF InitSession, HandStep, Keeps, Creates, Attempting
<1>3. CASE FinishAttempt
  BY <1>3 DEF FinishAttempt, FinishesAttempt, HandStep, EndsAttempt, Attempting
<1>4. CASE Ready
  BY <1>4, NothingPending DEF Ready, HandStep, GivesResult, Attempting, ConnInv
<1>5. CASE \/ Publish \/ CreateSession \/ StartConsole \/ PunchControl \/ Unpublish
           \/ RefreshToken \/ Backoff \/ Handover
  BY <1>5 DEF Publish, CreateSession, StartConsole, PunchControl, Unpublish, RefreshToken,
              Backoff, Handover, CallReturns, FailsWith, NextAttempt, HandStep, Keeps
<1> QED BY <1>1, <1>2, <1>3, <1>4, <1>5 DEF Connects

(***************************************************************************)
(* Every action keeps the invariant.                                       *)
(***************************************************************************)

(* Both ways of scheduling the clean-up are such a step.                   *)
LEMMA Scheduling ==
  ASSUME IInv
  PROVE  CancelSchedules \/ RepeatCancel => SchedulingStep
<1> USE DEF IInv, PageType, FreshPage, SchedulingStep, CleansUp, SchedulesCleanup, Claims,
            GivesClaimBack
<1>1. CancelSchedules /\ ~page.workerStarted => SchedulingStep
  BY DEF CancelSchedules, CancelsConnector, PageInv
<1>2. CancelSchedules /\ page.workerStarted => SchedulingStep
  BY DEF CancelSchedules, CancelsConnector, PageInv
<1>3. RepeatCancel => SchedulingStep
  BY DEF RepeatCancel, PageInv
<1> QED BY <1>1, <1>2, <1>3

(* startStream of the connection worker or of a resume.                    *)
LEMMA StartStreamStep ==
  ASSUME IInv, NEW t \in Threads, UNCHANGED pageVars,
         overlapped' = (overlapped \/ StopMeetsResume')
  PROVE  StartStream(t) => IInv' /\ HandStep
<1> USE DEF IInv, StartStream, StartLocks, MakesConnector, ChecksConnector,
           RemoteFailed, RemoteReady, MakesParts, StartRemote, SessionInits,
           SessionStarts, SessionUp, MediaInits, StartsInput, StartsMonitor,
           ReleasesResult, SessionFinishes, SessionStops, SessionFini, StateAfterStop,
           ResultMoves, CancelledAtCreation, Finishes
<1>1. StartStream(t) => ThreadInv'
  BY DEF ThreadInv, CleanInv
<1>2. StartStream(t) => SwitchInv'
  BY DEF SwitchInv
<1>3. StartStream(t) => LinkInv'
  BY DEF LinkInv
<1>4. StartStream(t) => WorkInv'
  BY DEF WorkInv
<1>5. StartStream(t) => DataInv'
  BY BoundsAssumption DEF DataInv
<1>6. StartStream(t) => PageType'
  BY DEF PageType
<1>7. StartStream(t) => ConnType'
  BY DEF ConnType, ConnSteps
<1>8. StartStream(t) => ConnInv'
  BY DEF ConnInv, ConnType, ThreadInv
<1>9. StartStream(t) => PlaceInv'
  <2>1. StartLocks(t) => PlaceInv'
    BY DEF PlaceInv, ThreadInv, PageInv, CleanInv, CancelInv, ConnInv, SwitchInv,
           ConnType, PageType, FreshPage, Launched
  <2>2. MakesConnector(t) => PlaceInv'
    BY DEF PlaceInv, ThreadInv, PageInv, CleanInv, CancelInv, ConnInv, SwitchInv,
           ConnType, PageType, FreshPage, Launched
  <2>3. ChecksConnector(t) => PlaceInv'
    BY DEF PlaceInv, ThreadInv, PageInv, CleanInv, CancelInv, ConnInv, SwitchInv,
           ConnType, PageType, FreshPage, Launched, Attempting
  <2>4. RemoteFailed(t) => PlaceInv'
    BY DEF PlaceInv, ThreadInv, PageInv, CleanInv, CancelInv, ConnInv, SwitchInv,
           ConnType, PageType, FreshPage, Launched, Attempting
  <2>5. RemoteReady(t) => PlaceInv'
    BY DEF PlaceInv, ThreadInv, PageInv, CleanInv, CancelInv, ConnInv, SwitchInv,
           ConnType, PageType, FreshPage, Launched, Attempting
  <2>6. MakesParts(t) => PlaceInv'
    BY DEF PlaceInv, ThreadInv, PageInv, CleanInv, CancelInv, ConnInv, SwitchInv,
           ConnType, PageType, FreshPage, Launched
  <2>7. StartRemote(t) => PlaceInv'
    BY DEF PlaceInv, ThreadInv, PageInv, CleanInv, CancelInv, ConnInv, SwitchInv,
           ConnType, PageType, FreshPage, Launched
  <2>8. SessionInits(t) => PlaceInv'
    BY DEF PlaceInv, ThreadInv, PageInv, CleanInv, CancelInv, ConnInv, SwitchInv,
           ConnType, PageType, FreshPage, Launched
  <2>9. SessionStarts(t) => PlaceInv'
    BY DEF PlaceInv, ThreadInv, PageInv, CleanInv, CancelInv, ConnInv, SwitchInv,
           ConnType, PageType, FreshPage, Launched
  <2>10. SessionUp(t) => PlaceInv'
    BY DEF PlaceInv, ThreadInv, PageInv, CleanInv, CancelInv, ConnInv, SwitchInv,
           ConnType, PageType, FreshPage, Launched
  <2>11. MediaInits(t) => PlaceInv'
    BY DEF PlaceInv, ThreadInv, PageInv, CleanInv, CancelInv, ConnInv, SwitchInv,
           ConnType, PageType, FreshPage, Launched
  <2>12. StartsInput(t) => PlaceInv'
    BY DEF PlaceInv, ThreadInv, PageInv, CleanInv, CancelInv, ConnInv, SwitchInv,
           ConnType, PageType, FreshPage, Launched
  <2>13. StartsMonitor(t) => PlaceInv'
    BY DEF PlaceInv, ThreadInv, PageInv, CleanInv, CancelInv, ConnInv, SwitchInv,
           ConnType, PageType, FreshPage, Launched
  <2> QED BY <2>1, <2>2, <2>3, <2>4, <2>5, <2>6, <2>7, <2>8, <2>9, <2>10, <2>11, <2>12, <2>13
<1>10. StartStream(t) => HandStep
  <2>1. StartLocks(t) => HandStep
    BY DEF ConnType, ConnInv, PlaceInv, ThreadInv, Attempting, HandStep, Keeps,
           GivesSession, GivesChiaki, EndsResult
  <2>2. MakesConnector(t) => HandStep
    BY DEF ConnType, ConnInv, PlaceInv, ThreadInv, Attempting, HandStep, Keeps,
           GivesSession, GivesChiaki, EndsResult
  <2>3. ChecksConnector(t) => HandStep
    BY DEF ConnType, ConnInv, PlaceInv, ThreadInv, Attempting, HandStep, Keeps,
           GivesSession, GivesChiaki, EndsResult
  <2>4. RemoteFailed(t) => HandStep
    BY DEF ConnType, ConnInv, PlaceInv, ThreadInv, Attempting, HandStep, Keeps,
           GivesSession, GivesChiaki, EndsResult
  <2>5. RemoteReady(t) => HandStep
    BY DEF ConnType, ConnInv, PlaceInv, ThreadInv, Attempting, HandStep, Keeps,
           GivesSession, GivesChiaki, EndsResult
  <2>6. MakesParts(t) => HandStep
    BY DEF ConnType, ConnInv, PlaceInv, ThreadInv, Attempting, HandStep, Keeps,
           GivesSession, GivesChiaki, EndsResult, EndsChiaki
  <2>7. StartRemote(t) => HandStep
    BY DEF ConnType, ConnInv, PlaceInv, ThreadInv, Attempting, HandStep, Keeps,
           GivesSession, GivesChiaki, EndsResult
  <2>8. SessionInits(t) => HandStep
    BY DEF ConnType, ConnInv, PlaceInv, ThreadInv, Attempting, HandStep, Keeps,
           GivesSession, GivesChiaki, EndsResult, EndsSession
  <2>9. SessionStarts(t) => HandStep
    BY DEF ConnType, ConnInv, PlaceInv, ThreadInv, Attempting, HandStep, Keeps,
           GivesSession, GivesChiaki, EndsResult, EndsChiaki
  <2>10. SessionUp(t) => HandStep
    BY DEF ConnType, ConnInv, PlaceInv, ThreadInv, Attempting, HandStep, Keeps,
           GivesSession, GivesChiaki, EndsResult, EndsChiaki
  <2>11. MediaInits(t) => HandStep
    BY DEF ConnType, ConnInv, PlaceInv, ThreadInv, Attempting, HandStep, Keeps,
           GivesSession, GivesChiaki, EndsResult, EndsChiaki
  <2>12. StartsInput(t) => HandStep
    BY DEF ConnType, ConnInv, PlaceInv, ThreadInv, Attempting, HandStep, Keeps,
           GivesSession, GivesChiaki, EndsResult
  <2>13. StartsMonitor(t) => HandStep
    BY DEF ConnType, ConnInv, PlaceInv, ThreadInv, Attempting, HandStep, Keeps,
           GivesSession, GivesChiaki, EndsResult
  <2> QED BY <2>1, <2>2, <2>3, <2>4, <2>5, <2>6, <2>7, <2>8, <2>9, <2>10, <2>11, <2>12, <2>13
<1>11. StartStream(t) => CreditInv' /\ created' = created
  <2>1. StartStream(t) => ConnectCredit' <= ConnectCredit /\ ResumeCredit' <= ResumeCredit
    BY BoundsAssumption DEF ConnType, ConnInv, ThreadInv, CreditInv, PageInv,
           CleanInv, PageType, FreshPage, ConnectCredit, ResumeCredit, ResumeComing,
           kRemoteMaxAttempts
  <2>2. ChecksConnector(t) => ConnectCredit' + ResumeCredit' + AttemptCredit'
                                <= ConnectCredit + ResumeCredit + AttemptCredit
    BY BoundsAssumption DEF ConnType, ConnInv, ThreadInv, CreditInv, PageInv,
           CleanInv, PageType, FreshPage, ConnectCredit, ResumeCredit, ResumeComing,
           kRemoteMaxAttempts, AttemptCredit
  <2>3. StartStream(t) /\ ~ChecksConnector(t) => AttemptCredit' <= AttemptCredit
    BY BoundsAssumption DEF ConnType, ConnInv, kRemoteMaxAttempts, AttemptCredit
  <2>4. StartStream(t) => resumes' \in 0..MaxResumes /\ created' = created
    BY DEF CreditInv
  <2> HIDE DEF ChecksConnector, StartStream
  <2> QED BY <1>7, <2>1, <2>2, <2>3, <2>4, CreditStep, CreditMoves
<1>12. StartStream(t) => PageInv'
  BY DEF PageInv, PageType, ThreadInv, CleanInv, FreshPage, Launched, EarlySteps
<1>13. StartStream(t) => CleanInv'
  BY DEF CleanInv, ThreadInv, PageInv, PageType, SwitchInv, FreshPage, Launched
<1>14. StartStream(t) => CancelInv'
  BY DEF CancelInv, CancelReachesConnector, ThreadInv, ConnInv, PageInv, CleanInv,
         SwitchInv, FreshPage, Launched
<1>15. StartStream(t) => DownInv'
  BY DEF DownInv, ThreadInv, PageInv, PageType, CleanInv, CancelInv, PlaceInv,
         SwitchInv, LinkInv, Down, TakingDown, StopMeetsResume, FreshPage, Launched,
         EarlySteps
<1>16. StartStream(t) => LedgerInv'
  BY <1>10, <1>11, LedgerStep
<1> QED
  BY <1>1, <1>2, <1>3, <1>4, <1>5, <1>6, <1>7, <1>8, <1>9, <1>10, <1>11,
     <1>12, <1>13, <1>14, <1>15, <1>16, HistoryStep

(* connect, called by the start that waits for it.                         *)
LEMMA ConnectStep ==
  ASSUME IInv, NEW t \in Threads, UNCHANGED pageVars,
         overlapped' = (overlapped \/ StopMeetsResume')
  PROVE  ConnectRuns(t) => IInv' /\ HandStep
<1> USE DEF IInv, ConnectRuns, Connects, ConnectEnters, InitSession, Publish,
           CreateSession, StartConsole, PunchControl, Unpublish, FinishAttempt,
           RefreshToken, Backoff, Ready, Handover, CallReturns, FailsWith, Finishes,
           Withdraws, FinishesAttempt, NextAttempt, ShouldRefresh, ShouldRetry,
           AttemptRemains
<1>1. ConnectRuns(t) => ThreadInv'
  BY DEF ThreadInv, CleanInv
<1>2. ConnectRuns(t) => SwitchInv'
  BY DEF SwitchInv
<1>3. ConnectRuns(t) => LinkInv'
  BY DEF LinkInv
<1>4. ConnectRuns(t) => WorkInv'
  BY DEF WorkInv
<1>5. ConnectRuns(t) => DataInv'
  BY BoundsAssumption DEF DataInv
<1>6. ConnectRuns(t) => PageType'
  BY DEF PageType
<1>7. ConnectRuns(t) => ConnType'
  BY ConnTyping, HandlesInterval DEF LedgerInv, None
<1>8. ConnectRuns(t) => ConnInv'
  BY ConnMoves DEF ConnInv, psVars
<1>9. ConnectRuns(t) => PlaceInv'
  <2>1. ConnectRuns(t) => conn'.handle # None <=> conn'.at \in Attempting
    BY ConnHandle, HandlesInterval DEF LedgerInv, None
  <2>2. ConnectRuns(t) =>
          (published' # None =>
             \/ conn'.at \in Attempting \ {"finish"} /\ published' = conn'.handle
             \/ conn'.at = "handover" /\ published' = resultH')
    BY ConnPublished, HandlesInterval DEF LedgerInv, None
  <2> QED BY <2>1, <2>2, ConnResult, ConnMoves DEF PlaceInv, ConnInv, psVars
<1>10. ConnectRuns(t) => HandStep
  BY ConnHands
<1>11. ConnectRuns(t) => CreditInv'
  <2>1. ConnectRuns(t) => /\ resumes' = resumes /\ ConnectCredit' = ConnectCredit
                         /\ ResumeCredit' = ResumeCredit
    BY DEF psVars, ConnectCredit, ResumeCredit, ResumeComing
  <2>2. ConnectRuns(t) => created' \in Int
    BY HandlesInterval DEF LedgerInv, None
  <2> QED BY <1>7, <2>1, <2>2, AttemptsAreCounted, CreditSpent DEF ConnectRuns
<1>12. ConnectRuns(t) => PageInv'
  BY DEF PageInv, PageType, ThreadInv, CleanInv, FreshPage, Launched
<1>13. ConnectRuns(t) => CleanInv'
  BY DEF CleanInv, ThreadInv, PageInv, PageType, SwitchInv, FreshPage, Launched
<1>14. ConnectRuns(t) => CancelInv'
  BY DEF CancelInv, CancelReachesConnector, ThreadInv, ConnInv, PageInv, CleanInv,
         SwitchInv, FreshPage, Launched
<1>15. ConnectRuns(t) => DownInv'
  BY DEF DownInv, ThreadInv, PageInv, PageType, CleanInv, CancelInv, PlaceInv,
         SwitchInv, LinkInv, Down, TakingDown, StopMeetsResume, FreshPage, Launched
<1>16. ConnectRuns(t) => LedgerInv'
  <2>1. ConnectRuns(t) => (created' = created \/ created + 1 \in Handles)
    BY RoomToCreate
  <2> QED BY <1>10, <2>1, LedgerStep
<1> QED
  BY <1>1, <1>2, <1>3, <1>4, <1>5, <1>6, <1>7, <1>8, <1>9, <1>10, <1>11,
     <1>12, <1>13, <1>14, <1>15, <1>16, HistoryStep

(* stopStream of any thread.                                               *)
LEMMA StopStreamStep ==
  ASSUME IInv, NEW t \in Threads, UNCHANGED pageVars,
         overlapped' = (overlapped \/ StopMeetsResume')
  PROVE  StopStream(t) => IInv' /\ HandStep
<1> USE DEF IInv, StopStream, StopClaims, StopJoins, StopLocks, StopsSession,
           StopsRemote, StopsMedia, StopFails, StopReleases, SessionStops,
           SessionFinishes, ReleasesResult, StateAfterStop, Finishes
<1>1. StopStream(t) => ThreadInv'
  BY DEF ThreadInv, CleanInv
<1>2. StopStream(t) => SwitchInv'
  BY DEF SwitchInv
<1>3. StopStream(t) => LinkInv'
  BY DEF LinkInv
<1>4. StopStream(t) => WorkInv'
  BY DEF WorkInv
<1>5. StopStream(t) => DataInv'
  BY BoundsAssumption DEF DataInv
<1>6. StopStream(t) => PageType'
  BY DEF PageType
<1>7. StopStream(t) => ConnType'
  BY DEF ConnType
<1>8. StopStream(t) => ConnInv'
  BY DEF ConnInv, ConnType, ThreadInv
<1>9. StopStream(t) => PlaceInv'
  BY DEF PlaceInv, ThreadInv, PageInv, CleanInv, CancelInv, ConnInv, SwitchInv,
         ConnType, PageType, FreshPage, Launched
<1>10. StopStream(t) => HandStep
  BY DEF ConnType, ConnInv, PlaceInv, ThreadInv, Attempting, HandStep, Keeps,
         GivesSession, GivesChiaki, EndsResult, EndsChiaki
<1>11. StopStream(t) => CreditInv' /\ created' = created
  <2>1. StopStream(t) => ConnectCredit' <= ConnectCredit
    BY BoundsAssumption DEF ConnType, ConnInv, ThreadInv, CreditInv, PageInv,
           CleanInv, PageType, FreshPage, ConnectCredit, ResumeCredit, ResumeComing,
           kRemoteMaxAttempts
  <2>2. StopStream(t) => ResumeCredit' <= ResumeCredit
    BY BoundsAssumption DEF ConnType, ConnInv, ThreadInv, CreditInv, PageInv,
           CleanInv, PageType, FreshPage, ConnectCredit, ResumeCredit, ResumeComing,
           kRemoteMaxAttempts
  <2>3. StopStream(t) => AttemptCredit' <= AttemptCredit
    BY BoundsAssumption DEF ConnType, ConnInv, ThreadInv, CreditInv, PageInv,
           CleanInv, PageType, FreshPage, ConnectCredit, ResumeCredit, ResumeComing,
           kRemoteMaxAttempts, AttemptCredit
  <2>4. StopStream(t) => resumes' \in 0..MaxResumes /\ created' = created
    BY BoundsAssumption DEF CreditInv
  <2> QED BY <1>7, <2>1, <2>2, <2>3, <2>4, CreditStep
<1>12. StopStream(t) => PageInv'
  BY DEF PageInv, PageType, ThreadInv, CleanInv, FreshPage, Launched, EarlySteps
<1>13. StopStream(t) => CleanInv'
  BY DEF CleanInv, ThreadInv, PageInv, PageType, SwitchInv, FreshPage, Launched
<1>14. StopStream(t) => CancelInv'
  BY DEF CancelInv, CancelReachesConnector, ThreadInv, ConnInv, PageInv, CleanInv,
         SwitchInv, FreshPage, Launched
<1>15. StopStream(t) => DownInv'
  BY DEF DownInv, ThreadInv, PageInv, PageType, CleanInv, CancelInv, PlaceInv,
         SwitchInv, LinkInv, Down, TakingDown, StopMeetsResume, FreshPage, Launched,
         EarlySteps
<1>16. StopStream(t) => LedgerInv'
  BY <1>10, <1>11, LedgerStep
<1> QED
  BY <1>1, <1>2, <1>3, <1>4, <1>5, <1>6, <1>7, <1>8, <1>9, <1>10, <1>11,
     <1>12, <1>13, <1>14, <1>15, <1>16, HistoryStep

(* resumeAfterForeground, between the stop and the start.                  *)
LEMMA ResumesStep ==
  ASSUME IInv, UNCHANGED pageVars,
         overlapped' = (overlapped \/ StopMeetsResume')
  PROVE  Resumes => IInv' /\ HandStep
<1> USE DEF IInv, Resumes, ResumeLooks, ResumeReopens, ResumeClears, ResumeStarts,
           CallerCancels
<1>1. Resumes => ThreadInv'
  BY DEF ThreadInv, CleanInv
<1>2. Resumes => SwitchInv'
  BY DEF SwitchInv
<1>3. Resumes => LinkInv'
  BY DEF LinkInv
<1>4. Resumes => WorkInv'
  BY DEF WorkInv
<1>5. Resumes => DataInv'
  BY BoundsAssumption DEF DataInv
<1>6. Resumes => PageType'
  BY DEF PageType
<1>7. Resumes => ConnType'
  BY DEF ConnType
<1>8. Resumes => ConnInv'
  BY DEF ConnInv, ConnType, ThreadInv
<1>9. Resumes => PlaceInv'
  BY DEF PlaceInv, ThreadInv, PageInv, CleanInv, CancelInv, ConnInv, SwitchInv,
         ConnType, PageType, FreshPage, Launched
<1>10. Resumes => HandStep
  BY DEF ConnType, ConnInv, PlaceInv, ThreadInv, Attempting, HandStep, Keeps,
         GivesSession, GivesChiaki, EndsResult
<1>11. Resumes => CreditInv' /\ created' = created
  <2>1. Resumes => ConnectCredit' <= ConnectCredit
    BY BoundsAssumption DEF ConnType, ConnInv, ThreadInv, CreditInv, PageInv,
           CleanInv, PageType, FreshPage, ConnectCredit, ResumeCredit, ResumeComing,
           kRemoteMaxAttempts
  <2>2. Resumes => ResumeCredit' <= ResumeCredit
    BY BoundsAssumption DEF ConnType, ConnInv, ThreadInv, CreditInv, PageInv,
           CleanInv, PageType, FreshPage, ConnectCredit, ResumeCredit, ResumeComing,
           kRemoteMaxAttempts
  <2>3. Resumes => AttemptCredit' <= AttemptCredit
    BY BoundsAssumption DEF ConnType, ConnInv, ThreadInv, CreditInv, PageInv,
           CleanInv, PageType, FreshPage, ConnectCredit, ResumeCredit, ResumeComing,
           kRemoteMaxAttempts, AttemptCredit
  <2>4. Resumes => resumes' \in 0..MaxResumes /\ created' = created
    BY BoundsAssumption DEF CreditInv
  <2> QED BY <1>7, <2>1, <2>2, <2>3, <2>4, CreditStep
<1>12. Resumes => PageInv'
  BY DEF PageInv, PageType, ThreadInv, CleanInv, FreshPage, Launched
<1>13. Resumes => CleanInv'
  BY DEF CleanInv, ThreadInv, PageInv, PageType, SwitchInv, FreshPage, Launched
<1>14. Resumes => CancelInv'
  BY DEF CancelInv, CancelReachesConnector, ThreadInv, ConnInv, PageInv, CleanInv,
         SwitchInv, FreshPage, Launched, EarlySteps
<1>15. Resumes => DownInv'
  BY DEF DownInv, ThreadInv, PageInv, PageType, CleanInv, CancelInv, PlaceInv,
         SwitchInv, LinkInv, Down, TakingDown, StopMeetsResume, FreshPage, Launched
<1>16. Resumes => LedgerInv'
  BY <1>10, <1>11, LedgerStep
<1> QED
  BY <1>1, <1>2, <1>3, <1>4, <1>5, <1>6, <1>7, <1>8, <1>9, <1>10, <1>11,
     <1>12, <1>13, <1>14, <1>15, <1>16, HistoryStep

(* The callbacks of chiaki's thread and of the video monitor.              *)
LEMMA CallsBackStep ==
  ASSUME IInv, UNCHANGED pageVars,
         overlapped' = (overlapped \/ StopMeetsResume')
  PROVE  CallsBack => IInv' /\ HandStep
<1> USE DEF IInv, CallsBack, Connected, ChiakiQuits, MonitorNotices,
           MonitorSeesPicture
<1>1. CallsBack => ThreadInv'
  BY DEF ThreadInv, CleanInv
<1>2. CallsBack => SwitchInv'
  BY DEF SwitchInv
<1>3. CallsBack => LinkInv'
  BY DEF LinkInv
<1>4. CallsBack => WorkInv'
  BY DEF WorkInv
<1>5. CallsBack => DataInv'
  BY BoundsAssumption DEF DataInv
<1>6. CallsBack => PageType'
  BY DEF PageType
<1>7. CallsBack => ConnType'
  BY DEF ConnType
<1>8. CallsBack => ConnInv'
  BY DEF ConnInv, ConnType, ThreadInv
<1>9. CallsBack => PlaceInv'
  BY DEF PlaceInv, ThreadInv, PageInv, CleanInv, CancelInv, ConnInv, SwitchInv,
         ConnType, PageType, FreshPage, Launched
<1>10. CallsBack => HandStep
  BY DEF ConnType, ConnInv, PlaceInv, ThreadInv, Attempting, HandStep, Keeps,
         GivesSession, GivesChiaki, EndsResult
<1>11. CallsBack => CreditInv' /\ created' = created
  <2>1. CallsBack => ConnectCredit' <= ConnectCredit
    BY BoundsAssumption DEF ConnType, ConnInv, ThreadInv, CreditInv, PageInv,
           CleanInv, PageType, FreshPage, ConnectCredit, ResumeCredit, ResumeComing,
           kRemoteMaxAttempts
  <2>2. CallsBack => ResumeCredit' <= ResumeCredit
    BY BoundsAssumption DEF ConnType, ConnInv, ThreadInv, CreditInv, PageInv,
           CleanInv, PageType, FreshPage, ConnectCredit, ResumeCredit, ResumeComing,
           kRemoteMaxAttempts
  <2>3. CallsBack => AttemptCredit' <= AttemptCredit
    BY BoundsAssumption DEF ConnType, ConnInv, ThreadInv, CreditInv, PageInv,
           CleanInv, PageType, FreshPage, ConnectCredit, ResumeCredit, ResumeComing,
           kRemoteMaxAttempts, AttemptCredit
  <2>4. CallsBack => resumes' \in 0..MaxResumes /\ created' = created
    BY BoundsAssumption DEF CreditInv
  <2> QED BY <1>7, <2>1, <2>2, <2>3, <2>4, CreditStep
<1>12. CallsBack => PageInv'
  BY DEF PageInv, PageType, ThreadInv, CleanInv, FreshPage, Launched
<1>13. CallsBack => CleanInv'
  BY DEF CleanInv, ThreadInv, PageInv, PageType, SwitchInv, FreshPage, Launched
<1>14. CallsBack => CancelInv'
  BY DEF CancelInv, CancelReachesConnector, ThreadInv, ConnInv, PageInv, CleanInv,
         SwitchInv, FreshPage, Launched
<1>15. CallsBack => DownInv'
  BY DEF DownInv, ThreadInv, PageInv, PageType, CleanInv, CancelInv, PlaceInv,
         SwitchInv, LinkInv, Down, TakingDown, StopMeetsResume, FreshPage, Launched
<1>16. CallsBack => LedgerInv'
  BY <1>10, <1>11, LedgerStep
<1> QED
  BY <1>1, <1>2, <1>3, <1>4, <1>5, <1>6, <1>7, <1>8, <1>9, <1>10, <1>11,
     <1>12, <1>13, <1>14, <1>15, <1>16, HistoryStep

(* The page up to the first picture.                                       *)
LEMMA PageStep ==
  ASSUME IInv,
         overlapped' = (overlapped \/ StopMeetsResume')
  PROVE  PageActs => IInv' /\ HandStep
<1> USE DEF IInv, PageActs, PictureArrives, VideoReady, StartWorker, Authorises,
           CancelPressed, CancelReaches, OpenStream
<1>1. PageActs => ThreadInv'
  BY DEF ThreadInv, CleanInv, PageInv
<1>2. PageActs => SwitchInv'
  BY DEF SwitchInv
<1>3. PageActs => LinkInv'
  BY DEF LinkInv
<1>4. PageActs => WorkInv'
  BY DEF WorkInv
<1>5. PageActs => DataInv'
  BY BoundsAssumption DEF DataInv
<1>6. PageActs => PageType'
  BY DEF PageType
<1>7. PageActs => ConnType'
  BY DEF ConnType
<1>8. PageActs => ConnInv'
  BY DEF ConnInv, ConnType, ThreadInv, PageInv
<1>9. PageActs => PlaceInv'
  BY DEF PlaceInv, ThreadInv, PageInv, CleanInv, CancelInv, ConnInv, SwitchInv,
         ConnType, PageType, FreshPage, Launched
<1>10. PageActs => HandStep
  BY DEF ConnType, ConnInv, PlaceInv, ThreadInv, Attempting, HandStep, Keeps,
         GivesSession, GivesChiaki, EndsResult
<1>11. PageActs => CreditInv' /\ created' = created
  <2>1. PageActs => ConnectCredit' <= ConnectCredit
    <3>1. PictureArrives => ConnectCredit' <= ConnectCredit
      BY DEF PageInv, PageType, FreshPage, ThreadInv, ConnectCredit,
             kRemoteMaxAttempts
    <3>2. StartWorker => ConnectCredit' <= ConnectCredit
      BY DEF PageInv, PageType, FreshPage, ThreadInv, ConnectCredit,
             kRemoteMaxAttempts
    <3>3. Authorises => ConnectCredit' <= ConnectCredit
      BY DEF PageInv, PageType, FreshPage, ThreadInv, ConnectCredit,
             kRemoteMaxAttempts
    <3>4. CancelPressed => ConnectCredit' <= ConnectCredit
      BY DEF PageInv, PageType, FreshPage, ThreadInv, ConnectCredit,
             kRemoteMaxAttempts
    <3>5. CancelReaches => ConnectCredit' <= ConnectCredit
      BY DEF PageInv, PageType, FreshPage, ThreadInv, ConnectCredit,
             kRemoteMaxAttempts
    <3>6. OpenStream => ConnectCredit' <= ConnectCredit
      BY DEF PageInv, PageType, FreshPage, ThreadInv, ConnectCredit,
             kRemoteMaxAttempts
    <3> QED BY <3>1, <3>2, <3>3, <3>4, <3>5, <3>6
  <2>2. PageActs => ResumeCredit' <= ResumeCredit
    BY BoundsAssumption DEF ConnType, ConnInv, ThreadInv, CreditInv, PageInv,
           CleanInv, PageType, FreshPage, ConnectCredit, ResumeCredit, ResumeComing,
           kRemoteMaxAttempts
  <2>3. PageActs => AttemptCredit' <= AttemptCredit
    BY BoundsAssumption DEF ConnType, ConnInv, ThreadInv, CreditInv, PageInv,
           CleanInv, PageType, FreshPage, ConnectCredit, ResumeCredit, ResumeComing,
           kRemoteMaxAttempts, AttemptCredit
  <2>4. PageActs => resumes' \in 0..MaxResumes /\ created' = created
    BY BoundsAssumption DEF CreditInv
  <2> QED BY <1>7, <2>1, <2>2, <2>3, <2>4, CreditStep
<1>12. PageActs => PageInv'
  <2>1. PictureArrives => PageInv'
    BY DEF PageInv, PageType, ThreadInv, CleanInv, FreshPage, Launched
  <2>2. StartWorker => PageInv'
    <3>1. StartWorker => /\ page'.started /\ page'.cancel = page.cancel
                         /\ page'.finished = page.finished
      BY DEF PageType, FreshPage
    <3>2. StartWorker /\ page'.done => /\ page'.workerStarted = page.workerStarted
                                         /\ pc' = pc
      BY DEF PageInv, PageType, FreshPage
    <3>3. StartWorker /\ ~page'.done => page'.workerStarted
      BY DEF PageInv, PageType, FreshPage
    <3>4. StartWorker => ~Launched /\ pc["connect"] = "idle" /\ page.cancel = FALSE
                            /\ page.workerStarted = FALSE
      BY DEF PageInv, Launched, PageType, FreshPage
    <3> QED BY <3>1, <3>2, <3>3, <3>4
            DEF PageInv, PageType, ThreadInv, FreshPage, Launched, EarlySteps
  <2>3. Authorises => PageInv'
    BY DEF PageInv, PageType, ThreadInv, CleanInv, FreshPage, Launched, EarlySteps
  <2>4. CancelPressed => PageInv'
    BY DEF PageInv, PageType, ThreadInv, CleanInv, FreshPage, Launched
  <2>5. CancelReaches => PageInv'
    BY DEF PageInv, PageType, ThreadInv, CleanInv, FreshPage, Launched
  <2>6. OpenStream => PageInv'
    BY DEF PageInv, PageType, ThreadInv, CleanInv, FreshPage, Launched
  <2> QED BY <2>1, <2>2, <2>3, <2>4, <2>5, <2>6
<1>13. PageActs => CleanInv'
  BY DEF CleanInv, ThreadInv, PageInv, PageType, SwitchInv, FreshPage, Launched
<1>14. PageActs => CancelInv'
  BY DEF CancelInv, CancelReachesConnector, ThreadInv, ConnInv, PageInv, CleanInv,
         SwitchInv, FreshPage, Launched
<1>15. PageActs => DownInv'
  <2>1. PictureArrives => DownInv'
    BY DEF DownInv, ThreadInv, PageInv, PageType, CleanInv, CancelInv, PlaceInv,
           SwitchInv, LinkInv, Down, TakingDown, StopMeetsResume, FreshPage, Launched
  <2>2. StartWorker => DownInv'
    BY DEF DownInv, ThreadInv, PageInv, PageType, CleanInv, CancelInv, PlaceInv,
           SwitchInv, LinkInv, Down, TakingDown, StopMeetsResume, FreshPage, Launched
  <2>3. Authorises => DownInv'
    BY DEF DownInv, ThreadInv, PageInv, PageType, CleanInv, CancelInv, PlaceInv,
           SwitchInv, LinkInv, Down, TakingDown, StopMeetsResume, FreshPage, Launched,
           EarlySteps
  <2>4. CancelPressed => DownInv'
    BY DEF DownInv, ThreadInv, PageInv, PageType, CleanInv, CancelInv, PlaceInv,
           SwitchInv, LinkInv, Down, TakingDown, StopMeetsResume, FreshPage, Launched
  <2>5. CancelReaches => DownInv'
    BY DEF DownInv, ThreadInv, PageInv, PageType, CleanInv, CancelInv, PlaceInv,
           SwitchInv, LinkInv, Down, TakingDown, StopMeetsResume, FreshPage, Launched
  <2>6. OpenStream => DownInv'
    BY DEF DownInv, ThreadInv, PageInv, PageType, CleanInv, CancelInv, PlaceInv,
           SwitchInv, LinkInv, Down, TakingDown, StopMeetsResume, FreshPage, Launched
  <2> QED BY <2>1, <2>2, <2>3, <2>4, <2>5, <2>6
<1>16. PageActs => LedgerInv'
  BY <1>10, <1>11, LedgerStep
<1> QED
  BY <1>1, <1>2, <1>3, <1>4, <1>5, <1>6, <1>7, <1>8, <1>9, <1>10, <1>11,
     <1>12, <1>13, <1>14, <1>15, <1>16, HistoryStep

(* The clean-up of a cancelled connection.                                 *)
LEMMA CleanUpStep ==
  ASSUME IInv,
         overlapped' = (overlapped \/ StopMeetsResume')
  PROVE  CleanUpActs => IInv' /\ HandStep
<1> USE DEF IInv, CleanUpActs, WorkerDone, WorkerFinalizes, CleansUp,
           SchedulesCleanup, CancelSchedules, RepeatCancel, Claims, GivesClaimBack,
           CancelsConnector
<1>1. CleanUpActs => ThreadInv'
  BY DEF ThreadInv, CleanInv, PageInv
<1>2. CleanUpActs => SwitchInv'
  BY DEF SwitchInv
<1>3. CleanUpActs => LinkInv'
  BY DEF LinkInv
<1>4. CleanUpActs => WorkInv'
  BY DEF WorkInv
<1>5. CleanUpActs => DataInv'
  BY BoundsAssumption DEF DataInv
<1>6. CleanUpActs => PageType'
  BY DEF PageType
<1>7. CleanUpActs => ConnType'
  BY DEF ConnType
<1>8. CleanUpActs => ConnInv'
  BY DEF ConnInv, ConnType, ThreadInv
<1>9. CleanUpActs => PlaceInv'
  <2>1. WorkerDone => PlaceInv'
    BY DEF PlaceInv, ThreadInv, PageInv, CleanInv, CancelInv, ConnInv, SwitchInv,
           ConnType, PageType, FreshPage, Launched, EarlySteps, Attempting
  <2>2. WorkerFinalizes => PlaceInv'
    BY DEF PlaceInv, ThreadInv, PageInv, CleanInv, CancelInv, ConnInv, SwitchInv,
           ConnType, PageType, FreshPage, Launched, EarlySteps, Attempting
  <2>3. SchedulingStep => PlaceInv'
    BY DEF PlaceInv, ThreadInv, PageInv, CleanInv, CancelInv, ConnInv, SwitchInv,
           ConnType, PageType, FreshPage, Launched, EarlySteps, Attempting,
           SchedulingStep
  <2> QED BY <2>1, <2>2, <2>3, Scheduling
<1>10. CleanUpActs => HandStep
  BY DEF ConnType, ConnInv, PlaceInv, ThreadInv, Attempting, HandStep, Keeps,
         GivesSession, GivesChiaki, EndsResult
<1>11. CleanUpActs => CreditInv' /\ created' = created
  <2>1. CleanUpActs => ConnectCredit' <= ConnectCredit
    <3>1. WorkerDone => ConnectCredit' <= ConnectCredit
      BY DEF PageInv, PageType, FreshPage, ThreadInv, ConnectCredit,
             kRemoteMaxAttempts
    <3>2. WorkerFinalizes => ConnectCredit' <= ConnectCredit
      BY DEF PageInv, PageType, FreshPage, ThreadInv, ConnectCredit,
             kRemoteMaxAttempts
    <3>3. SchedulingStep => ConnectCredit' <= ConnectCredit
      BY DEF PageInv, PageType, FreshPage, ThreadInv, ConnectCredit,
             kRemoteMaxAttempts, SchedulingStep
    <3> QED BY <3>1, <3>2, <3>3, Scheduling
  <2>2. CleanUpActs => ResumeCredit' <= ResumeCredit
    BY BoundsAssumption DEF ConnType, ConnInv, ThreadInv, CreditInv, PageInv,
           CleanInv, PageType, FreshPage, ConnectCredit, ResumeCredit, ResumeComing,
           kRemoteMaxAttempts
  <2>3. CleanUpActs => AttemptCredit' <= AttemptCredit
    BY BoundsAssumption DEF ConnType, ConnInv, ThreadInv, CreditInv, PageInv,
           CleanInv, PageType, FreshPage, ConnectCredit, ResumeCredit, ResumeComing,
           kRemoteMaxAttempts, AttemptCredit
  <2>4. CleanUpActs => resumes' \in 0..MaxResumes /\ created' = created
    BY BoundsAssumption DEF CreditInv
  <2> QED BY <1>7, <2>1, <2>2, <2>3, <2>4, CreditStep
<1>12. CleanUpActs => PageInv'
  <2>1. WorkerDone => PageInv'
    BY DEF PageInv, PageType, ThreadInv, CleanInv, FreshPage, Launched, EarlySteps,
           Attempting
  <2>2. WorkerFinalizes => PageInv'
    BY DEF PageInv, PageType, ThreadInv, CleanInv, FreshPage, Launched, EarlySteps,
           Attempting
  <2>3. SchedulingStep => PageInv'
    BY DEF PageInv, PageType, ThreadInv, CleanInv, FreshPage, Launched, EarlySteps,
           Attempting, SchedulingStep
  <2> QED BY <2>1, <2>2, <2>3, Scheduling
<1>13. CleanUpActs => CleanInv'
  BY DEF CleanInv, ThreadInv, PageInv, PageType, SwitchInv, FreshPage, Launched
<1>14. CleanUpActs => CancelInv'
  <2>1. WorkerDone => CancelInv'
    BY DEF CancelInv, CancelReachesConnector, ThreadInv, ConnInv, PageInv, CleanInv,
           SwitchInv, FreshPage, Launched, EarlySteps, Attempting
  <2>2. WorkerFinalizes => CancelInv'
    BY DEF CancelInv, CancelReachesConnector, ThreadInv, ConnInv, PageInv, CleanInv,
           SwitchInv, FreshPage, Launched, EarlySteps, Attempting
  <2>3. SchedulingStep => CancelInv'
    BY DEF CancelInv, CancelReachesConnector, ThreadInv, ConnInv, PageInv, CleanInv,
           SwitchInv, FreshPage, Launched, EarlySteps, Attempting, SchedulingStep
  <2> QED BY <2>1, <2>2, <2>3, Scheduling
<1>15. CleanUpActs => DownInv'
  <2>1. WorkerDone => DownInv'
    BY DEF DownInv, ThreadInv, PageInv, PageType, CleanInv, CancelInv, PlaceInv,
           SwitchInv, LinkInv, Down, TakingDown, StopMeetsResume, FreshPage, Launched,
           EarlySteps, Attempting
  <2>2. WorkerFinalizes => DownInv'
    BY DEF DownInv, ThreadInv, PageInv, PageType, CleanInv, CancelInv, PlaceInv,
           SwitchInv, LinkInv, Down, TakingDown, StopMeetsResume, FreshPage, Launched,
           EarlySteps, Attempting
  <2>3. SchedulingStep => DownInv'
    BY DEF DownInv, ThreadInv, PageInv, PageType, CleanInv, CancelInv, PlaceInv,
           SwitchInv, LinkInv, Down, TakingDown, StopMeetsResume, FreshPage, Launched,
           EarlySteps, Attempting, SchedulingStep
  <2> QED BY <2>1, <2>2, <2>3, Scheduling
<1>16. CleanUpActs => LedgerInv'
  BY <1>10, <1>11, LedgerStep
<1> QED
  BY <1>1, <1>2, <1>3, <1>4, <1>5, <1>6, <1>7, <1>8, <1>9, <1>10, <1>11,
     <1>12, <1>13, <1>14, <1>15, <1>16, HistoryStep

(* The end of a teardown.                                                  *)
LEMMA TeardownStep ==
  ASSUME IInv, NEW t \in Threads,
         overlapped' = (overlapped \/ StopMeetsResume')
  PROVE  TeardownEnds(t) => IInv' /\ HandStep
<1> USE DEF IInv, TeardownEnds
<1>1. TeardownEnds(t) => ThreadInv'
  BY DEF ThreadInv, CleanInv
<1>2. TeardownEnds(t) => SwitchInv'
  BY DEF SwitchInv
<1>3. TeardownEnds(t) => LinkInv'
  BY DEF LinkInv
<1>4. TeardownEnds(t) => WorkInv'
  BY DEF WorkInv
<1>5. TeardownEnds(t) => DataInv'
  BY BoundsAssumption DEF DataInv
<1>6. TeardownEnds(t) => PageType'
  BY DEF PageType
<1>7. TeardownEnds(t) => ConnType'
  BY DEF ConnType
<1>8. TeardownEnds(t) => ConnInv'
  BY DEF ConnInv, ConnType, ThreadInv
<1>9. TeardownEnds(t) => PlaceInv'
  BY DEF PlaceInv, ThreadInv, PageInv, CleanInv, CancelInv, ConnInv, SwitchInv,
         ConnType, PageType, FreshPage, Launched
<1>10. TeardownEnds(t) => HandStep
  BY DEF ConnType, ConnInv, PlaceInv, ThreadInv, Attempting, HandStep, Keeps,
         GivesSession, GivesChiaki, EndsResult
<1>11. TeardownEnds(t) => CreditInv' /\ created' = created
  <2>1. TeardownEnds(t) => ConnectCredit' <= ConnectCredit
    BY BoundsAssumption DEF ConnType, ConnInv, ThreadInv, CreditInv, PageInv,
           CleanInv, PageType, FreshPage, ConnectCredit, ResumeCredit, ResumeComing,
           kRemoteMaxAttempts
  <2>2. TeardownEnds(t) => ResumeCredit' <= ResumeCredit
    BY BoundsAssumption DEF ConnType, ConnInv, ThreadInv, CreditInv, PageInv,
           CleanInv, PageType, FreshPage, ConnectCredit, ResumeCredit, ResumeComing,
           kRemoteMaxAttempts
  <2>3. TeardownEnds(t) => AttemptCredit' <= AttemptCredit
    BY BoundsAssumption DEF ConnType, ConnInv, ThreadInv, CreditInv, PageInv,
           CleanInv, PageType, FreshPage, ConnectCredit, ResumeCredit, ResumeComing,
           kRemoteMaxAttempts, AttemptCredit
  <2>4. TeardownEnds(t) => resumes' \in 0..MaxResumes /\ created' = created
    BY BoundsAssumption DEF CreditInv
  <2> QED BY <1>7, <2>1, <2>2, <2>3, <2>4, CreditStep
<1>12. TeardownEnds(t) => PageInv'
  BY DEF PageInv, PageType, ThreadInv, CleanInv, FreshPage, Launched, EarlySteps
<1>13. TeardownEnds(t) => CleanInv'
  BY DEF CleanInv, ThreadInv, PageInv, PageType, SwitchInv, FreshPage, Launched
<1>14. TeardownEnds(t) => CancelInv'
  BY DEF CancelInv, CancelReachesConnector, ThreadInv, ConnInv, PageInv, CleanInv,
         SwitchInv, FreshPage, Launched
<1>15. TeardownEnds(t) => DownInv'
  BY DEF DownInv, ThreadInv, PageInv, PageType, CleanInv, CancelInv, PlaceInv,
         SwitchInv, LinkInv, Down, TakingDown, StopMeetsResume, FreshPage, Launched,
         EarlySteps
<1>16. TeardownEnds(t) => LedgerInv'
  BY <1>10, <1>11, LedgerStep
<1> QED
  BY <1>1, <1>2, <1>3, <1>4, <1>5, <1>6, <1>7, <1>8, <1>9, <1>10, <1>11,
     <1>12, <1>13, <1>14, <1>15, <1>16, HistoryStep

(* The activity is popped.                                                 *)
LEMMA PopsStep ==
  ASSUME IInv,
         overlapped' = (overlapped \/ StopMeetsResume')
  PROVE  Pops => IInv' /\ HandStep
<1> USE DEF IInv, Pops
<1>1. Pops => ThreadInv'
  BY DEF ThreadInv, CleanInv
<1>2. Pops => SwitchInv'
  BY DEF SwitchInv
<1>3. Pops => LinkInv'
  BY DEF LinkInv
<1>4. Pops => WorkInv'
  BY DEF WorkInv
<1>5. Pops => DataInv'
  BY BoundsAssumption DEF DataInv
<1>6. Pops => PageType'
  BY DEF PageType
<1>7. Pops => ConnType'
  BY DEF ConnType
<1>8. Pops => ConnInv'
  BY DEF ConnInv, ConnType, ThreadInv
<1>9. Pops => PlaceInv'
  BY DEF PlaceInv, ThreadInv, PageInv, CleanInv, CancelInv, ConnInv, SwitchInv,
         ConnType, PageType, FreshPage, Launched
<1>10. Pops => HandStep
  BY DEF ConnType, ConnInv, PlaceInv, ThreadInv, Attempting, HandStep, Keeps,
         GivesSession, GivesChiaki, EndsResult
<1>11. Pops => CreditInv' /\ created' = created
  <2>1. Pops => ConnectCredit' <= ConnectCredit
    BY BoundsAssumption DEF ConnType, ConnInv, ThreadInv, CreditInv, PageInv,
           CleanInv, PageType, FreshPage, ConnectCredit, ResumeCredit, ResumeComing,
           kRemoteMaxAttempts
  <2>2. Pops => ResumeCredit' <= ResumeCredit
    BY BoundsAssumption DEF ConnType, ConnInv, ThreadInv, CreditInv, PageInv,
           CleanInv, PageType, FreshPage, ConnectCredit, ResumeCredit, ResumeComing,
           kRemoteMaxAttempts
  <2>3. Pops => AttemptCredit' <= AttemptCredit
    BY BoundsAssumption DEF ConnType, ConnInv, ThreadInv, CreditInv, PageInv,
           CleanInv, PageType, FreshPage, ConnectCredit, ResumeCredit, ResumeComing,
           kRemoteMaxAttempts, AttemptCredit
  <2>4. Pops => resumes' \in 0..MaxResumes /\ created' = created
    BY BoundsAssumption DEF CreditInv
  <2> QED BY <1>7, <2>1, <2>2, <2>3, <2>4, CreditStep
<1>12. Pops => PageInv'
  BY DEF PageInv, PageType, ThreadInv, CleanInv, FreshPage, Launched
<1>13. Pops => CleanInv'
  BY DEF CleanInv, ThreadInv, PageInv, PageType, SwitchInv, FreshPage, Launched
<1>14. Pops => CancelInv'
  BY DEF CancelInv, CancelReachesConnector, ThreadInv, ConnInv, PageInv, CleanInv,
         SwitchInv, FreshPage, Launched
<1>15. Pops => DownInv'
  BY DEF DownInv, ThreadInv, PageInv, PageType, CleanInv, CancelInv, PlaceInv,
         SwitchInv, LinkInv, Down, TakingDown, StopMeetsResume, FreshPage, Launched
<1>16. Pops => LedgerInv'
  BY <1>10, <1>11, LedgerStep
<1> QED
  BY <1>1, <1>2, <1>3, <1>4, <1>5, <1>6, <1>7, <1>8, <1>9, <1>10, <1>11,
     <1>12, <1>13, <1>14, <1>15, <1>16, HistoryStep

(* The view.                                                               *)
LEMMA ViewStep ==
  ASSUME IInv,
         overlapped' = (overlapped \/ StopMeetsResume')
  PROVE  ViewActs => IInv' /\ HandStep
<1> USE DEF IInv, ViewActs, ComesBack, ResumeReturns, ResumeResult, UserExits,
           ExitReaches, ExitStops, StopAndReturn, CancelsConnector
<1>1. ViewActs => ThreadInv'
  BY DEF ThreadInv, CleanInv
<1>2. ViewActs => SwitchInv'
  BY DEF SwitchInv
<1>3. ViewActs => LinkInv'
  BY DEF LinkInv
<1>4. ViewActs => WorkInv'
  BY DEF WorkInv
<1>5. ViewActs => DataInv'
  <2>1. ComesBack => DataInv'
    BY BoundsAssumption DEF DataInv
  <2>2. ResumeReturns => DataInv'
    BY BoundsAssumption DEF DataInv
  <2>3. ResumeResult => DataInv'
    BY BoundsAssumption DEF DataInv
  <2>4. UserExits => DataInv'
    BY BoundsAssumption DEF DataInv
  <2>5. ExitReaches => DataInv'
    BY BoundsAssumption DEF DataInv
  <2>6. ExitStops => DataInv'
    BY BoundsAssumption DEF DataInv
  <2> QED BY <2>1, <2>2, <2>3, <2>4, <2>5, <2>6
<1>6. ViewActs => PageType'
  BY DEF PageType
<1>7. ViewActs => ConnType'
  BY DEF ConnType
<1>8. ViewActs => ConnInv'
  BY DEF ConnInv, ConnType, ThreadInv
<1>9. ViewActs => PlaceInv'
  BY DEF PlaceInv, ThreadInv, PageInv, CleanInv, CancelInv, ConnInv, SwitchInv,
         ConnType, PageType, FreshPage, Launched
<1>10. ViewActs => HandStep
  BY DEF ConnType, ConnInv, PlaceInv, ThreadInv, Attempting, HandStep, Keeps,
         GivesSession, GivesChiaki, EndsResult
<1>11. ViewActs => CreditInv' /\ created' = created
  <2>1. ViewActs => ConnectCredit' <= ConnectCredit
    BY BoundsAssumption DEF ConnType, ConnInv, ThreadInv, CreditInv, PageInv,
           CleanInv, PageType, FreshPage, ConnectCredit, ResumeCredit, ResumeComing,
           kRemoteMaxAttempts
  <2>2. ViewActs => ResumeCredit' <= ResumeCredit
    BY BoundsAssumption DEF ConnType, ConnInv, ThreadInv, CreditInv, PageInv,
           CleanInv, PageType, FreshPage, ConnectCredit, ResumeCredit, ResumeComing,
           kRemoteMaxAttempts
  <2>3. ViewActs => AttemptCredit' <= AttemptCredit
    BY BoundsAssumption DEF ConnType, ConnInv, ThreadInv, CreditInv, PageInv,
           CleanInv, PageType, FreshPage, ConnectCredit, ResumeCredit, ResumeComing,
           kRemoteMaxAttempts, AttemptCredit
  <2>4. ViewActs => resumes' \in 0..MaxResumes /\ created' = created
    BY BoundsAssumption DEF CreditInv
  <2> QED BY <1>7, <2>1, <2>2, <2>3, <2>4, CreditStep
<1>12. ViewActs => PageInv'
  BY DEF PageInv, PageType, ThreadInv, CleanInv, FreshPage, Launched
<1>13. ViewActs => CleanInv'
  BY DEF CleanInv, ThreadInv, PageInv, PageType, SwitchInv, FreshPage, Launched
<1>14. ViewActs => CancelInv'
  BY DEF CancelInv, CancelReachesConnector, ThreadInv, ConnInv, PageInv, CleanInv,
         SwitchInv, FreshPage, Launched
<1>15. ViewActs => DownInv'
  BY DEF DownInv, ThreadInv, PageInv, PageType, CleanInv, CancelInv, PlaceInv,
         SwitchInv, LinkInv, Down, TakingDown, StopMeetsResume, FreshPage, Launched
<1>16. ViewActs => LedgerInv'
  BY <1>10, <1>11, LedgerStep
<1> QED
  BY <1>1, <1>2, <1>3, <1>4, <1>5, <1>6, <1>7, <1>8, <1>9, <1>10, <1>11,
     <1>12, <1>13, <1>14, <1>15, <1>16, HistoryStep

(* The invariant holds at first.                                           *)
LEMMA InitInv == Init => IInv
<1> SUFFICES ASSUME Init PROVE IInv
  OBVIOUS
<1> USE DEF Init, ControlInit, ConnInit, FreshPage
<1>1. ThreadInv /\ SwitchInv /\ LinkInv /\ WorkInv
  BY DEF ThreadInv, SwitchInv, LinkInv, WorkInv
<1>2. DataInv
  BY BoundsAssumption DEF DataInv
<1>2a. PageType /\ HistoryInv
  <2> DEFINE PageRecord == [started : BOOLEAN, workerStarted : BOOLEAN, cancel : BOOLEAN,
                            done : BOOLEAN, claimed : BOOLEAN, finished : BOOLEAN]
  <2>1. page \in PageRecord
    OBVIOUS
  <2>2. PageRecord = [{"started", "workerStarted", "cancel", "done", "claimed", "finished"}
                        -> BOOLEAN]
    OBVIOUS
  <2>3. DOMAIN FreshPage = {"started", "workerStarted", "cancel", "done", "claimed",
                            "finished"}
    OBVIOUS
  <2> HIDE DEF PageRecord
  <2>4. page \in [DOMAIN FreshPage -> BOOLEAN]
    BY <2>1, <2>2, <2>3, Zenon
  <2> QED BY <2>4 DEF PageType, HistoryInv
<1>3. 0 \in 0..kRemoteMaxAttempts /\ 0 \in Nat /\ None = 0
  BY DEF kRemoteMaxAttempts, None
<1>4. ConnType
  BY <1>3 DEF ConnType, ConnSteps
<1>5. ConnInv /\ PlaceInv
  BY DEF ConnInv, PlaceInv, Attempting
<1>6. LedgerInv
  BY HandlesInterval DEF LedgerInv, Held, None
<1>7. CreditInv
  <2>1. ConnectCredit = 3 /\ AttemptCredit = 0 /\ ~ResumeComing
    BY DEF ConnectCredit, AttemptCredit, ResumeComing, kRemoteMaxAttempts
  <2>2. ResumeCredit = 3 * MaxResumes
    BY <2>1, BoundsAssumption DEF ResumeCredit, kRemoteMaxAttempts
  <2> QED BY <2>1, <2>2, BoundsAssumption DEF CreditInv, kRemoteMaxAttempts
<1>8. PageInv /\ CleanInv
  BY DEF PageInv, CleanInv, Launched
<1>9. CancelInv
  BY DEF CancelInv, CancelReachesConnector
<1>10. DownInv
  BY DEF DownInv, Down, TakingDown
<1> QED BY <1>1, <1>2, <1>2a, <1>4, <1>5, <1>6, <1>7, <1>8, <1>9, <1>10 DEF IInv

(* A step that changes nothing.                                            *)
LEMMA Stutter == IInv /\ UNCHANGED vars => IInv' /\ HandStep
<1> SUFFICES ASSUME IInv, UNCHANGED vars PROVE IInv' /\ HandStep
  OBVIOUS
<1> USE DEF IInv, vars, codeVars
<1>1. ThreadInv' /\ SwitchInv' /\ LinkInv' /\ WorkInv'
  BY DEF ThreadInv, SwitchInv, LinkInv, WorkInv
<1>2. DataInv' /\ PageType' /\ HistoryInv'
  BY DEF DataInv, PageType, HistoryInv
<1>3. ConnType' /\ ConnInv'
  BY DEF ConnType, ConnInv
<1>4. PlaceInv' /\ HandStep
  BY DEF PlaceInv, HandStep, Keeps
<1>5. LedgerInv'
  BY DEF LedgerInv, Held
<1>6. CreditInv'
  BY DEF CreditInv, ConnectCredit, ResumeCredit, ResumeComing, AttemptCredit
<1>7. PageInv' /\ CleanInv'
  BY DEF PageInv, CleanInv, Launched
<1>8. CancelInv'
  BY DEF CancelInv, CancelReachesConnector
<1>9. DownInv'
  BY DEF DownInv, Down, Launched
<1> QED BY <1>1, <1>2, <1>3, <1>4, <1>5, <1>6, <1>7, <1>8, <1>9

(* Every step keeps the invariant, and does one thing at most with the     *)
(* hole-punch sessions.                                                    *)
LEMMA NextInv == IInv /\ [Next]_vars => IInv' /\ HandStep
<1> SUFFICES ASSUME IInv, [Next]_vars PROVE IInv' /\ HandStep
  OBVIOUS
<1>1. CASE UNCHANGED vars
  BY <1>1, Stutter
<1>2. CASE Next
  <2>1. overlapped' = (overlapped \/ StopMeetsResume')
    BY <1>2 DEF Next
  <2>2. ASSUME NEW t \in Threads, Controls(t) PROVE IInv' /\ HandStep
    BY <2>1, <2>2, StartStreamStep, ConnectStep, StopStreamStep DEF Controls, Runs
  <2>3. CASE ConnectWorker
    BY <2>1, <2>2, <2>3, PageStep, CleanUpStep, TeardownStep
    DEF ConnectWorker, PageActs, CleanUpActs
  <2>4. CASE ResumeWorker
    BY <2>1, <2>2, <2>4, ResumesStep, ViewStep DEF ResumeWorker, ViewActs
  <2>5. CASE StopWorker
    BY <2>1, <2>2, <2>5, TeardownStep DEF StopWorker
  <2>6. CASE UiFinishes \/ UiClosures \/ User \/ PictureArrives
    BY <2>1, <2>6, PageStep, CleanUpStep, PopsStep, ViewStep
    DEF UiFinishes, UiClosures, User, PageActs, CleanUpActs, ViewActs
  <2>7. CASE CallsBack /\ UNCHANGED pageVars
    BY <2>1, <2>7, CallsBackStep
  <2> QED BY <1>2, <2>3, <2>4, <2>5, <2>6, <2>7 DEF Next
<1> QED BY <1>1, <1>2

(* The inductive invariant holds in every behaviour of the connection, its *)
(* page, the view and the threads that call back.                          *)
THEOREM Invariance == Spec => []IInv
<1> QED BY InitInv, NextInv, PTL DEF Spec

(***************************************************************************)
(* What follows from the invariant.                                        *)
(***************************************************************************)

(* Types, whose handles are those that the bounds allow.                   *)
LEMMA TypesHold == IInv => TypeOK
<1> SUFFICES ASSUME IInv PROVE TypeOK
  OBVIOUS
<1> USE DEF IInv
<1>1. Cardinality(Handles) = 3 * (MaxResumes + 1)
  BY HandlesInterval, BoundsAssumption, FS_Interval
<1>2. created \in 0..Cardinality(Handles)
  BY <1>1, HandlesInterval, BoundsAssumption DEF LedgerInv, None
<1>3. {conn.handle, resultH, sessH, chiakiH} \subseteq Handles \cup {None}
  BY HandlesInterval, BoundsAssumption DEF LedgerInv, None
<1>4. conn \in [at : ConnSteps, try : 0..kRemoteMaxAttempts, handle : Handles \cup {None},
                err : {"none", "reject", "retry", "final", "cancel"}, refreshed : BOOLEAN]
  BY <1>3 DEF ConnType
<1>5. published \in {None, conn.handle, resultH}
  BY DEF PlaceInv
<1>6. ConnTypeOK
  BY <1>2, <1>3, <1>4, <1>5
  DEF ConnTypeOK, LinkInv, DataInv, LedgerInv, PlaceInv, Attempting
<1>7. \A t \in Threads : pc[t] \in Steps[t]
  BY DEF ThreadInv, Steps
<1>8. /\ DOMAIN pc = Threads /\ then \in [Threads -> {"none", "cleanup", "exit", "reset", "fail"}]
      /\ \A t \in Threads : op = t <=> pc[t] \in StartLocked \cup StopLocked
      /\ op \in Threads \cup {Nobody}
  BY DEF ThreadInv
<1>9. conn.at # "off" => \E t \in Threads : pc[t] = "remote"
  BY DEF ConnInv
<1>10. {remote, cancelReq, terminal, shutdown, connector, transport, noticed, input, monitor,
        report} \subseteq BOOLEAN
  BY DEF SwitchInv, LinkInv, WorkInv
<1>11. ControlTypeOK
  BY <1>3, <1>6, <1>7, <1>8, <1>9, <1>10 DEF ControlTypeOK, DataInv
<1>12. {recovering, overlapped} \subseteq BOOLEAN
  BY DEF WorkInv, HistoryInv
<1>13. resumes \in 0..MaxResumes /\ cleanups \in Nat
  BY DEF CreditInv, CleanInv
<1> QED BY <1>11, <1>12, <1>13 DEF TypeOK, PageType, DataInv

(* Who is held is not finished, who is not held was finished once.         *)
LEMMA LedgerIsLive == IInv => HandlesAreLive
<1> SUFFICES ASSUME IInv PROVE HandlesAreLive
  OBVIOUS
<1>1. \A h \in Held : h \in Handles /\ h <= created
  BY HandlesInterval, BoundsAssumption DEF IInv, LedgerInv, Held, None
<1>2. \A h \in Held : finis[h] = 0
  BY <1>1 DEF IInv, LedgerInv
<1>3. published # None => published \in Held
  BY DEF IInv, PlaceInv, Held
<1>4. \A h \in 1..created : h \in Handles /\ h <= created
  BY HandlesInterval, BoundsAssumption DEF IInv, LedgerInv, None
<1>5. \A h \in 1..created : h \in Held \/ finis[h] = 1
  BY <1>4 DEF IInv, LedgerInv
<1> QED BY <1>2, <1>3, <1>5 DEF HandlesAreLive

(* Of the clean-ups of a cancelled connection one runs, and once.          *)
LEMMA CleanedUpOnce == IInv => SingleCleanup
BY DEF IInv, CleanInv, SingleCleanup

(* A cancel finds the connection it is about, whatever connect or the      *)
(* start around it has done meanwhile, and ends it once; no hole-punch     *)
(* session is used after it was finished, finished twice, or forgotten     *)
(* (PsRemoteConnector::connect, PsStreamController::startStream).          *)
THEOREM ConnectIsSafe == Spec => []ConnectSafety
<1>1. IInv => ConnectSafety
  BY TypesHold, LedgerIsLive, CleanedUpOnce DEF ConnectSafety, IInv, CancelInv
<1> QED BY <1>1, Invariance, PTL

(* Once the user has left and the workers have returned, the session, the  *)
(* protocol thread, the pipeline, the connector and the hole-punch sessions*)
(* are down (stopStream, schedulePsConnectCleanup,                         *)
(* StreamView::stopAndReturn), in every history in which no start that     *)
(* takes itself down met a resume.                                         *)
THEOREM NothingIsLeft == Spec => []NothingLeftBehind
<1>1. IInv => NothingLeftBehind
  <2> SUFFICES ASSUME IInv, screen = "gone", ui = "free", ~overlapped,
                      \A t \in Threads : pc[t] = "idle"
               PROVE  /\ sess = "none" /\ chiaki = "off" /\ media \in {"none", "shut"}
                      /\ ~connector /\ \A h \in 1..created : finis[h] = 1
    BY DEF NothingLeftBehind
  <2>1. Down
    BY DEF IInv, DownInv, TakingDown
  <2>2. conn.handle = None
    BY DEF IInv, ConnInv, PlaceInv, Attempting
  <2>3. resultH = None /\ sessH = None /\ chiakiH = None
    BY <2>1 DEF IInv, PlaceInv, Down
  <2>4. \A h \in 1..created : finis[h] = 1
    BY <2>2, <2>3, LedgerIsLive DEF HandlesAreLive, Held
  <2> QED BY <2>1, <2>4 DEF Down
<1> QED BY <1>1, Invariance, PTL

(***************************************************************************)
(* The hole-punch sessions change hands as HoleOwnership says.             *)
(***************************************************************************)
(* Who holds each session, the state of HoleOwnership.                     *)
HolderMap == [h \in Handles |-> HolderOf(h)]

(* One session changes hands, and the others stay where they are.          *)
LEMMA OneMoves ==
  ASSUME NEW h \in Handles, NEW to, HolderOf(h)' = to,
         \A g \in Handles \ {h} : HolderOf(g)' = HolderOf(g)
  PROVE  HolderMap' = [HolderMap EXCEPT ![h] = to]
BY DEF HolderMap

(* Who is held has one holder, the one that holds it.                      *)
HoldersHold ==
  /\ conn.handle # None => HolderOf(conn.handle) = "connector" /\ conn.handle \in Handles
  /\ resultH # None => HolderOf(resultH) = "result" /\ resultH \in Handles
  /\ sessH # None => HolderOf(sessH) = "session" /\ sessH \in Handles
  /\ chiakiH # None => HolderOf(chiakiH) = "chiaki" /\ chiakiH \in Handles
  /\ \A h \in Handles : h <= created /\ h \notin Held => HolderOf(h) = "finished"
  /\ \A h \in Handles : h > created => HolderOf(h) = "none"

LEMMA HeldByOne == LedgerInv => HoldersHold
<1> SUFFICES ASSUME LedgerInv PROVE HoldersHold
  OBVIOUS
<1>1. {conn.handle, resultH, sessH, chiakiH} \ {None} \subseteq Handles
  BY HandlesInterval, BoundsAssumption DEF LedgerInv, None
<1>2. \A h \in Held : h \in Handles /\ ~(h > created) /\ ~(finis[h] > 0)
  BY HandlesInterval, BoundsAssumption DEF LedgerInv, Held, None
<1>3. \A h \in Handles : h <= created => ~(h > created)
  BY HandlesInterval, BoundsAssumption DEF LedgerInv, None
<1>4. \A h \in Handles : h <= created /\ h \notin Held => finis[h] > 0
  BY DEF LedgerInv
<1>5. conn.handle # None => HolderOf(conn.handle) = "connector"
  BY <1>2 DEF Held, HolderOf
<1>6. resultH # None => HolderOf(resultH) = "result"
  BY <1>2 DEF Held, HolderOf, LedgerInv
<1>7. sessH # None => HolderOf(sessH) = "session"
  BY <1>2 DEF Held, HolderOf, LedgerInv
<1>8. chiakiH # None => HolderOf(chiakiH) = "chiaki"
  BY <1>2 DEF Held, HolderOf, LedgerInv
<1>9. \A h \in Handles : h <= created /\ h \notin Held => HolderOf(h) = "finished"
  BY <1>3, <1>4 DEF HolderOf
<1>10. \A h \in Handles : h > created => HolderOf(h) = "none"
  BY DEF HolderOf
<1> QED BY <1>1, <1>5, <1>6, <1>7, <1>8, <1>9, <1>10 DEF HoldersHold

(* Each thing the code does to a session is a step of HoleOwnership, or    *)
(* none.                                                                   *)
LEMMA HandStepIsOwnershipStep ==
  ASSUME LedgerInv, LedgerInv', HandStep, created' = created \/ created + 1 \in Handles
  PROVE  Ownership!Next \/ HolderMap' = HolderMap
<1>a. HoldersHold /\ HoldersHold'
  <2>1. LedgerInv' => HoldersHold'
    BY HeldByOne, PTL
  <2> QED BY <2>1, HeldByOne
<1>0. created \in Nat
  BY HandlesInterval, BoundsAssumption DEF LedgerInv, None
<1>b. ASSUME NEW h \in Handles, NEW i \in 1..3, HolderMap[h] = Ownership!Owners[i],
             HolderMap' = [HolderMap EXCEPT ![h] = Ownership!Owners[i + 1]]
      PROVE  Ownership!Next
  BY <1>b DEF HolderMap, Ownership!Next, Ownership!Pass
<1>1. CASE Creates
  <2>1. PICK h \in Handles : h = created + 1 /\ h # None
    BY <1>0, <1>1, HandlesInterval DEF Creates
  <2>2. HolderOf(h) = "none" /\ HolderOf(h)' = "connector"
    BY <1>0, <1>a, <1>1, <2>1 DEF Creates, HoldersHold
  <2>3. \A g \in Handles \ {h} : HolderOf(g)' = HolderOf(g)
    BY <1>0, <1>1, <2>1, HandlesInterval DEF Creates, HolderOf
  <2> QED BY <2>2, <2>3, OneMoves DEF HolderMap, Ownership!Next, Ownership!Create
<1>2. CASE GivesResult
  <2>1. PICK h \in Handles : h = conn.handle /\ h # None
    BY <1>a, <1>2 DEF GivesResult, HoldersHold
  <2>2. HolderOf(h) = "connector" /\ HolderOf(h)' = "result"
    BY <1>a, <1>2, <2>1 DEF GivesResult, HoldersHold
  <2>3. \A g \in Handles \ {h} : HolderOf(g)' = HolderOf(g)
    BY <1>2, <2>1, HandlesInterval DEF GivesResult, HolderOf
  <2>4. HolderMap' = [HolderMap EXCEPT ![h] = "result"] /\ HolderMap[h] = "connector"
    BY <2>2, <2>3, OneMoves DEF HolderMap
  <2>5. Ownership!Owners[1] = "connector" /\ Ownership!Owners[1 + 1] = "result"
    BY DEF Ownership!Owners
  <2>6. /\ HolderMap[h] = Ownership!Owners[1]
        /\ HolderMap' = [HolderMap EXCEPT ![h] = Ownership!Owners[1 + 1]]
    BY <2>4, <2>5
  <2>7. 1 \in 1..3
    OBVIOUS
  <2> QED BY <1>b, <2>6, <2>7
<1>3. CASE GivesSession
  <2>1. PICK h \in Handles : h = resultH /\ h # None
    BY <1>a, <1>3 DEF GivesSession, HoldersHold
  <2>2. HolderOf(h) = "result" /\ HolderOf(h)' = "session"
    BY <1>a, <1>3, <2>1 DEF GivesSession, HoldersHold
  <2>3. \A g \in Handles \ {h} : HolderOf(g)' = HolderOf(g)
    BY <1>3, <2>1, HandlesInterval DEF GivesSession, HolderOf
  <2>4. HolderMap' = [HolderMap EXCEPT ![h] = "session"] /\ HolderMap[h] = "result"
    BY <2>2, <2>3, OneMoves DEF HolderMap
  <2>5. Ownership!Owners[2] = "result" /\ Ownership!Owners[2 + 1] = "session"
    BY DEF Ownership!Owners
  <2>6. /\ HolderMap[h] = Ownership!Owners[2]
        /\ HolderMap' = [HolderMap EXCEPT ![h] = Ownership!Owners[2 + 1]]
    BY <2>4, <2>5
  <2>7. 2 \in 1..3
    OBVIOUS
  <2> QED BY <1>b, <2>6, <2>7
<1>4. CASE GivesChiaki
  <2>1. PICK h \in Handles : h = sessH /\ h # None
    BY <1>a, <1>4 DEF GivesChiaki, HoldersHold
  <2>2. HolderOf(h) = "session" /\ HolderOf(h)' = "chiaki"
    BY <1>a, <1>4, <2>1 DEF GivesChiaki, HoldersHold
  <2>3. \A g \in Handles \ {h} : HolderOf(g)' = HolderOf(g)
    BY <1>4, <2>1, HandlesInterval DEF GivesChiaki, HolderOf
  <2>4. HolderMap' = [HolderMap EXCEPT ![h] = "chiaki"] /\ HolderMap[h] = "session"
    BY <2>2, <2>3, OneMoves DEF HolderMap
  <2>5. Ownership!Owners[3] = "session" /\ Ownership!Owners[3 + 1] = "chiaki"
    BY DEF Ownership!Owners
  <2>6. /\ HolderMap[h] = Ownership!Owners[3]
        /\ HolderMap' = [HolderMap EXCEPT ![h] = Ownership!Owners[3 + 1]]
    BY <2>4, <2>5
  <2>7. 3 \in 1..3
    OBVIOUS
  <2> QED BY <1>b, <2>6, <2>7
<1>5. ASSUME NEW h \in Held, Finishes(h), created' = created, Held' = Held \ {h},
             \A g \in Handles \ {h} : HolderOf(g)' = HolderOf(g)
      PROVE  Ownership!Next
  <2>1. h \in Handles /\ h <= created
    <3>1. h \in 0..created /\ h # None
      BY <1>5 DEF LedgerInv, Held
    <3>2. PICK n \in Int : Handles = 1..n
      BY HandlesInterval, BoundsAssumption
    <3> QED BY <3>1, <3>2 DEF LedgerInv, None
  <2>2. HolderOf(h) \in Ownership!Living
    BY <1>a DEF HoldersHold, Held, Ownership!Living
  <2>3. HolderOf(h)' = "finished"
    BY <1>5, <2>1, <1>a DEF HoldersHold
  <2> QED BY <1>5, <2>1, <2>2, <2>3, OneMoves DEF HolderMap, Ownership!Next, Ownership!Finish
<1>6. CASE EndsAttempt
  <2>1. conn.handle \in Held /\ Held' = Held \ {conn.handle}
    BY <1>6 DEF EndsAttempt, LedgerInv, Held
  <2>2. \A g \in Handles \ {conn.handle} : HolderOf(g)' = HolderOf(g)
    BY <1>6, HandlesInterval DEF EndsAttempt, Finishes, HolderOf, LedgerInv
  <2> QED BY <1>5, <1>6, <2>1, <2>2 DEF EndsAttempt
<1>7. CASE EndsResult
  <2>1. resultH \in Held /\ Held' = Held \ {resultH}
    BY <1>7 DEF EndsResult, LedgerInv, Held
  <2>2. \A g \in Handles \ {resultH} : HolderOf(g)' = HolderOf(g)
    BY <1>7, HandlesInterval DEF EndsResult, Finishes, HolderOf, LedgerInv
  <2> QED BY <1>5, <1>7, <2>1, <2>2 DEF EndsResult
<1>8. CASE EndsSession
  <2>1. sessH \in Held /\ Held' = Held \ {sessH}
    BY <1>8 DEF EndsSession, LedgerInv, Held
  <2>2. \A g \in Handles \ {sessH} : HolderOf(g)' = HolderOf(g)
    BY <1>8, HandlesInterval DEF EndsSession, Finishes, HolderOf, LedgerInv
  <2> QED BY <1>5, <1>8, <2>1, <2>2 DEF EndsSession
<1>9. CASE EndsChiaki
  <2>1. chiakiH \in Held /\ Held' = Held \ {chiakiH}
    BY <1>9 DEF EndsChiaki, LedgerInv, Held
  <2>2. \A g \in Handles \ {chiakiH} : HolderOf(g)' = HolderOf(g)
    BY <1>9, HandlesInterval DEF EndsChiaki, Finishes, HolderOf, LedgerInv
  <2> QED BY <1>5, <1>9, <2>1, <2>2 DEF EndsChiaki
<1>10. CASE Keeps
  BY <1>10 DEF Keeps, HolderMap, HolderOf
<1> QED
  BY <1>1, <1>2, <1>3, <1>4, <1>6, <1>7, <1>8, <1>9, <1>10 DEF HandStep

(* The connector, the controller, the session and chiaki together are an   *)
(* implementation of HoleOwnership: a hole-punch session goes down the     *)
(* chain of its owners only, one of them at a time, and is finished once.  *)
THEOREM SessionsAreOwned == Spec => HolePunchSessionsAreOwned
<1>1. Init => Ownership!Init
  <2> SUFFICES ASSUME Init PROVE HolderMap = [h \in Handles |-> "none"]
    BY DEF Ownership!Init, HolderMap
  <2>1. \A h \in Handles : h > created
    BY HandlesInterval DEF Init, ControlInit, ConnInit
  <2> QED BY <2>1 DEF HolderMap, HolderOf
<1>2. IInv /\ [Next]_vars => [Ownership!Next]_HolderMap
  <2> SUFFICES ASSUME IInv, [Next]_vars PROVE Ownership!Next \/ HolderMap' = HolderMap
    OBVIOUS
  <2>1. LedgerInv /\ LedgerInv' /\ HandStep
    BY NextInv DEF IInv
  <2>2. created' = created \/ created + 1 \in Handles
    BY <2>1, HandlesInterval, BoundsAssumption DEF HandStep, Creates, GivesResult,
       GivesSession, GivesChiaki, EndsAttempt, EndsResult, EndsSession, EndsChiaki, Keeps,
       LedgerInv, None
  <2> QED BY <2>1, <2>2, HandStepIsOwnershipStep
<1>3. [Ownership!Next]_HolderMap => [Ownership!Next]_[h \in Handles |-> HolderOf(h)]
  BY DEF HolderMap
<1> QED BY <1>1, <1>2, <1>3, Invariance, PTL DEF Spec, HolePunchSessionsAreOwned, Ownership!Spec
=============================================================================
