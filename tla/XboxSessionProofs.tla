------------------------- MODULE XboxSessionProofs -------------------------
(***************************************************************************)
(* Proofs about XboxSession, for every value of its constants: what becomes*)
(* of the sessions the server grants, who is left at the cleanup, and which*)
(* association media and input belong to.                                  *)
(***************************************************************************)
EXTENDS XboxSession, FiniteSetTheorems, TLAPS

(* The owner is in start, before it makes a thread.                        *)
Starting == {"stale", "retry", "create", "register", "negotiate",
             "attemptFailed", "media", "launch"}
OwnerPcs == Starting \cup {"await", "idle", "join", "cleanup"}

IdsOK ==
  /\ granted \in 0..MaxSessions
  /\ sid \in 0..granted /\ oid \in 0..granted
  /\ deletes \in [Sessions -> Nat]

(* The ledger: a granted session is deleted, once, exactly when neither    *)
(* session_id_ nor the owner's local session names it, or the stream thread*)
(* is about to clear session_id_.                                          *)
Kept == IF spc = "rcDrop" THEN {oid} ELSE {sid, oid}
Ledger ==
  \A id \in Sessions :
    deletes[id] = IF id <= granted /\ id \notin Kept THEN 1 ELSE 0

(* Whose session is whose while the owner starts, runs and stops.          *)
OwnerInv ==
  /\ opc \in OwnerPcs
  /\ opc \in Starting => spc = "none" /\ kpc = "none"
  /\ opc \in {"stale", "retry", "create"} => sid = 0 /\ oid = 0
  /\ opc = "register" => sid = 0
  /\ opc \in {"negotiate", "attemptFailed", "media", "launch"} => oid = sid
  /\ opc \in {"await", "idle", "join"} => oid = 0
  /\ opc = "await" => spc # "none"
  /\ (opc = "idle" /\ spc = "none") => sid = 0 /\ kpc = "none"
  /\ opc = "cleanup" => oid \in {0, sid} /\ Gone(spc) /\ Gone(kpc)

(* session_id_ is the stream thread's as long as that thread is there; it  *)
(* has none while it asks for a new one.                                   *)
StreamInv ==
  /\ ssid = IF spc = "none" THEN 0 ELSE sid
  /\ spc = "rcCreate" => sid = 0

SessionInv == IdsOK /\ Ledger /\ OwnerInv /\ StreamInv

-----------------------------------------------------------------------------
(* It holds before the first start.                                        *)
LEMMA InitEstablishes == Init => SessionInv
BY LimitsAssumption
   DEF Init, SessionInv, IdsOK, Ledger, Kept, OwnerInv, StreamInv, OwnerPcs, Sessions

(* Nothing the invariant speaks of changes, but perhaps the program        *)
(* counters.                                                               *)
LEMMA LedgerKept ==
  ASSUME SessionInv, UNCHANGED <<serverVars, oid>>,
         spc = "rcDrop" <=> spc' = "rcDrop"
  PROVE  IdsOK' /\ Ledger'
BY DEF SessionInv, IdsOK, Ledger, Kept, serverVars

(* The steps of start, but for the two that deal with the server.          *)
LEMMA OwnerStep ==
  ASSUME SessionInv,
         \/ StartCall \/ CleanupStaleSessions \/ RetrySleep \/ Negotiate
         \/ MediaInit \/ AwaitReady \/ AwaitFails \/ StopCall \/ Join
         \/ RequestStreamStop
  PROVE  SessionInv'
<1>1. UNCHANGED <<serverVars, oid, spc, ssid>>
  BY DEF StartCall, CleanupStaleSessions, RetrySleep, Negotiate, MediaInit,
         AwaitReady, AwaitFails, StopCall, Join, RequestStreamStop, OwnerOnly,
         StopQuiet, streamVars, ownerVars
<1>2. kpc' = kpc \/ (AwaitFails \/ StopCall)
  BY DEF StartCall, CleanupStaleSessions, RetrySleep, Negotiate, MediaInit,
         AwaitReady, Join, RequestStreamStop, OwnerOnly, controlVars
<1>3. StreamInv'
  BY <1>1 DEF SessionInv, StreamInv, serverVars
<1>4. OwnerInv'
  BY <1>1, <1>2
     DEF SessionInv, OwnerInv, OwnerPcs, Starting, Gone, StartCall,
         CleanupStaleSessions, RetrySleep, Negotiate, MediaInit, AwaitReady,
         AwaitFails, StopCall, Join, RequestStreamStop, StopFlags, Abandon,
         OwnerGoes, WorkersJoined, ownerVars, serverVars
<1> QED BY <1>1, <1>3, <1>4, LedgerKept DEF SessionInv

(* A session just granted is new to the ledger; if it is deleted at once   *)
(* its entry is closed.                                                    *)
LEMMA GrantedAndDropped ==
  ASSUME SessionInv, NEW id \in 0..MaxSessions, Grants(id),
         DeleteSessionAsync(id), UNCHANGED <<sid, oid>>,
         spc # "rcDrop", spc' # "rcDrop"
  PROVE  IdsOK' /\ Ledger'
<1>1. granted' \in 0..MaxSessions /\ sid' \in 0..granted' /\ oid' \in 0..granted'
  BY LimitsAssumption DEF SessionInv, IdsOK, Grants
<1>2. deletes' \in [Sessions -> Nat]
  BY LimitsAssumption DEF SessionInv, IdsOK, DeleteSessionAsync, Sessions
<1>3. Ledger'
  <2>1. CASE id = 0
    BY <2>1 DEF SessionInv, Ledger, Kept, Grants, DeleteSessionAsync, IdsOK
  <2>2. CASE id # 0
    <3>1. id = granted + 1 /\ granted' = id /\ id # sid /\ id # oid /\ id \in Sessions
      BY <2>2, LimitsAssumption DEF SessionInv, IdsOK, Grants, Sessions
    <3>2. deletes[id] = 0
      BY <3>1 DEF SessionInv, IdsOK, Ledger, Kept
    <3>3. ASSUME NEW i \in Sessions
          PROVE  deletes'[i] = IF i <= granted' /\ i \notin Kept' THEN 1 ELSE 0
      <4>1. CASE i = id
        BY <2>2, <3>1, <3>2, <4>1 DEF SessionInv, IdsOK, Kept, DeleteSessionAsync
      <4>2. CASE i # id
        <5>1. i <= granted' <=> i <= granted
          BY <3>1, <4>2, LimitsAssumption DEF SessionInv, IdsOK, Sessions
        <5>2. deletes'[i] = deletes[i]
          BY <2>2, <4>2 DEF SessionInv, IdsOK, DeleteSessionAsync
        <5> QED BY <5>1, <5>2 DEF SessionInv, Ledger, Kept
      <4> QED BY <4>1, <4>2
    <3> QED BY <3>3 DEF Ledger, Kept
  <2> QED BY <2>1, <2>2
<1> QED BY <1>1, <1>2, <1>3 DEF IdsOK

(* A session just granted that somebody keeps.                             *)
LEMMA GrantedAndKept ==
  ASSUME SessionInv, NEW id \in 1..MaxSessions, Grants(id), UNCHANGED deletes,
         sid = 0, oid = 0, spc # "rcDrop", spc' # "rcDrop",
         \/ sid' = id /\ oid' = 0
         \/ sid' = 0 /\ oid' = id
  PROVE  IdsOK' /\ Ledger'
<1>1. id = granted + 1 /\ granted' = id
  BY LimitsAssumption DEF Grants
<1>2. IdsOK'
  BY <1>1, LimitsAssumption DEF SessionInv, IdsOK
<1>3. ASSUME NEW i \in Sessions
      PROVE  deletes'[i] = IF i <= granted' /\ i \notin Kept' THEN 1 ELSE 0
  BY <1>1, LimitsAssumption DEF SessionInv, IdsOK, Ledger, Kept, Sessions
<1> QED BY <1>2, <1>3 DEF Ledger, Kept

(* The session in use is deleted and nobody names it any more.             *)
LEMMA Dropped ==
  ASSUME SessionInv, DeleteSessionAsync(sid), oid \in {0, sid},
         sid' = 0, oid' = 0, UNCHANGED granted,
         spc # "rcDrop", spc' # "rcDrop"
  PROVE  IdsOK' /\ Ledger'
<1>1. IdsOK'
  BY LimitsAssumption DEF SessionInv, IdsOK, DeleteSessionAsync, Sessions
<1>2. ASSUME NEW i \in Sessions
      PROVE  deletes'[i] = IF i <= granted' /\ i \notin Kept' THEN 1 ELSE 0
  <2>1. i # 0
    BY LimitsAssumption DEF Sessions
  <2>2. CASE i = sid
    <3>1. deletes[i] = 0 /\ i <= granted
      BY <2>2 DEF SessionInv, Ledger, Kept, IdsOK
    <3> QED BY <2>1, <2>2, <3>1 DEF SessionInv, IdsOK, Kept, DeleteSessionAsync
  <2>3. CASE i # sid
    <3>1. deletes'[i] = deletes[i]
      BY <2>3 DEF SessionInv, IdsOK, DeleteSessionAsync
    <3> QED BY <2>1, <2>3, <3>1 DEF SessionInv, Ledger, Kept
  <2> QED BY <2>2, <2>3
<1> QED BY <1>1, <1>2 DEF Ledger, Kept

(* The steps of start and stop that move sessions.                         *)
LEMMA OwnerSessionStep ==
  ASSUME SessionInv,
         CreateAndWait \/ Register \/ AttemptFailed \/ Launch \/ CleanupResources
  PROVE  SessionInv'
<1>1. CASE CreateAndWait
  <2>1. opc = "create" /\ sid = 0 /\ oid = 0 /\ spc = "none" /\ kpc = "none"
    BY <1>1 DEF CreateAndWait, SessionInv, OwnerInv, Starting
  <2>2. UNCHANGED <<sid, spc, ssid, kpc>>
    BY <1>1 DEF CreateAndWait, OwnerOnly, streamVars, controlVars
  <2>3. PICK id \in 0..MaxSessions :
          /\ Grants(id)
          /\ \/ id # 0 /\ oid' = id /\ opc' = "register" /\ UNCHANGED deletes
             \/ /\ opc' \in {"cleanup", "retry"}
                /\ DeleteSessionAsync(id) /\ UNCHANGED oid
    BY <1>1 DEF CreateAndWait, Abandon, OwnerGoes
  <2>4. IdsOK' /\ Ledger'
    <3>1. CASE oid' = id /\ id # 0 /\ UNCHANGED deletes
      BY <2>1, <2>2, <2>3, <3>1, GrantedAndKept, LimitsAssumption
    <3>2. CASE DeleteSessionAsync(id) /\ UNCHANGED oid
      BY <2>1, <2>2, <2>3, <3>2, GrantedAndDropped
    <3> QED BY <2>3, <3>1, <3>2
  <2>5. OwnerInv'
    BY <2>1, <2>2, <2>3 DEF OwnerInv, OwnerPcs, Starting, Gone
  <2>6. StreamInv'
    BY <2>1, <2>2 DEF SessionInv, StreamInv
  <2> QED BY <2>4, <2>5, <2>6 DEF SessionInv
<1>2. CASE Register
  <2>1. /\ UNCHANGED <<granted, deletes, oid, spc, ssid, kpc>>
        /\ sid = 0 /\ sid' = oid /\ spc = "none" /\ kpc = "none"
        /\ opc' \in {"cleanup", "negotiate", "attemptFailed"}
    BY <1>2 DEF Register, OwnerOnly, streamVars, controlVars, SessionInv,
                OwnerInv, Starting, Abandon, OwnerGoes
  <2>2. IdsOK' /\ Ledger'
    <3>1. IdsOK'
      BY <2>1 DEF SessionInv, IdsOK
    <3>2. \A id \in Sessions : id # 0
      BY LimitsAssumption DEF Sessions
    <3> QED BY <2>1, <3>1, <3>2 DEF SessionInv, Ledger, Kept
  <2>3. OwnerInv' /\ StreamInv'
    BY <2>1 DEF SessionInv, OwnerInv, OwnerPcs, Starting, Gone, StreamInv
  <2> QED BY <2>2, <2>3 DEF SessionInv
<1>3. CASE AttemptFailed
  <2>1. /\ UNCHANGED <<granted, spc, ssid, kpc>> /\ oid = sid
        /\ spc = "none" /\ kpc = "none"
    BY <1>3 DEF AttemptFailed, OwnerOnly, streamVars, controlVars, SessionInv,
                OwnerInv, Starting
  <2>2. CASE UNCHANGED <<sid, deletes, oid>> /\ opc' = "cleanup"
    <3>1. IdsOK' /\ Ledger'
      BY <2>1, <2>2, LedgerKept DEF serverVars
    <3>2. OwnerInv' /\ StreamInv'
      BY <2>1, <2>2 DEF SessionInv, OwnerInv, OwnerPcs, Starting, Gone, StreamInv
    <3> QED BY <3>1, <3>2 DEF SessionInv
  <2>3. CASE /\ sid' = 0 /\ oid' = 0 /\ DeleteSessionAsync(oid)
             /\ opc' \in {"cleanup", "retry"}
    <3>1. IdsOK' /\ Ledger'
      BY <2>1, <2>3, Dropped
    <3>2. OwnerInv' /\ StreamInv'
      BY <2>1, <2>3 DEF SessionInv, OwnerInv, OwnerPcs, Starting, Gone, StreamInv
    <3> QED BY <3>1, <3>2 DEF SessionInv
  <2> QED BY <1>3, <2>2, <2>3 DEF AttemptFailed, Abandon, OwnerGoes
<1>4. CASE Launch
  <2>1. /\ UNCHANGED serverVars /\ oid' = 0 /\ oid = sid
        /\ spc = "none" /\ kpc = "none" /\ ssid = 0
    BY <1>4 DEF Launch, SessionInv, OwnerInv, StreamInv, Starting
  <2>2. \/ spc' = "top" /\ ssid' = sid /\ opc' \in {"await", "join"}
        \/ UNCHANGED <<spc, ssid, kpc>> /\ opc' = "join"
    BY <1>4, <2>1 DEF Launch, FreshLoop, StopFlags, OwnerGoes, streamVars
  <2>3. IdsOK' /\ Ledger'
    <3>1. \A id \in Sessions : id # 0
      BY LimitsAssumption DEF Sessions
    <3>2. spc # "rcDrop" /\ spc' # "rcDrop"
      BY <2>1, <2>2
    <3> QED BY <2>1, <3>1, <3>2 DEF SessionInv, IdsOK, Ledger, Kept, serverVars
  <2>4. OwnerInv'
    BY <2>1, <2>2 DEF OwnerInv, OwnerPcs, Starting, serverVars
  <2>5. StreamInv'
    BY <2>1, <2>2 DEF StreamInv, serverVars
  <2> QED BY <2>3, <2>4, <2>5 DEF SessionInv
<1>5. CASE CleanupResources
  <2>1. IdsOK' /\ Ledger'
    BY <1>5, Dropped DEF CleanupResources, SessionInv, OwnerInv, Gone
  <2>2. OwnerInv' /\ StreamInv'
    BY <1>5 DEF CleanupResources, OwnerInv, StreamInv, OwnerPcs, Starting, OwnerGoes
  <2> QED BY <2>1, <2>2 DEF SessionInv
<1> QED BY <1>1, <1>2, <1>3, <1>4, <1>5

(* While the stream thread is there, the owner holds no session of its own *)
(* and cannot be cleaning up, unless the thread has left its loop.         *)
LEMMA StreamRuns ==
  ASSUME SessionInv, ~Gone(spc)
  PROVE  oid = 0 /\ opc \in {"await", "idle", "join"} /\ ssid = sid
BY DEF SessionInv, OwnerInv, OwnerPcs, Starting, StreamInv, Gone

(* A step of another thread that leaves what the owner names.              *)
LEMMA OwnerUndisturbed ==
  ASSUME SessionInv, ~Gone(spc), spc' # "none", UNCHANGED ownerVars
  PROVE  OwnerInv'
BY StreamRuns DEF SessionInv, OwnerInv, OwnerPcs, Starting, ownerVars

(* The steps of the loop that leave the session alone.                     *)
LEMMA LoopStep ==
  ASSUME SessionInv,
         \/ StreamTop \/ Pump \/ ControlHandshake \/ Watchdog \/ Tail
         \/ LoopThrows \/ LoopEnds
  PROVE  SessionInv'
<1>1. /\ UNCHANGED <<serverVars, ownerVars, ssid>> /\ ~Gone(spc)
      /\ spc' \in {"pump", "end", "tail", "watch", "control", "top", "exited"}
  BY DEF StreamTop, Pump, ControlHandshake, Watchdog, Tail, LoopThrows, LoopEnds,
         StreamOnly, StreamGoes, Gone
<1>2. IdsOK' /\ Ledger'
  <2>1. spc # "rcDrop"
    BY DEF StreamTop, Pump, ControlHandshake, Watchdog, Tail, LoopThrows, LoopEnds
  <2> QED BY <1>1, <2>1, LedgerKept DEF ownerVars
<1>3. OwnerInv'
  BY <1>1, OwnerUndisturbed
<1>4. StreamInv'
  BY <1>1, StreamRuns DEF StreamInv, serverVars
<1> QED BY <1>2, <1>3, <1>4 DEF SessionInv

(* The steps of a reconnect.                                               *)
LEMMA ReconnectStep ==
  ASSUME SessionInv,
         ReconnectBegins \/ RcCreate \/ RcTransport \/ RcNegotiate \/ RcDrop
  PROVE  SessionInv'
<1>1. /\ UNCHANGED ownerVars /\ ~Gone(spc)
      /\ spc' \in {"rcCreate", "rcTransport", "rcNegotiate", "rcDrop", "top"}
  BY DEF ReconnectBegins, RcCreate, RcTransport, RcNegotiate, RcDrop,
         ReconnectQuiet, StreamOnly, StreamGoes, ReconnectFails,
         ReconnectSucceeds, NewSessionFails, Gone
<1>2. oid = 0 /\ oid' = 0 /\ ssid = sid
  BY <1>1, StreamRuns DEF ownerVars
<1>3. OwnerInv'
  BY <1>1, OwnerUndisturbed
<1>4. \A id \in Sessions : id # 0
  BY LimitsAssumption DEF Sessions
<1>5. CASE ReconnectBegins
  <2>1. IdsOK' /\ Ledger'
    BY <1>2, <1>5, Dropped DEF ReconnectBegins, DropSession, StreamGoes
  <2>2. StreamInv'
    BY <1>5 DEF ReconnectBegins, DropSession, StreamGoes, StreamInv
  <2> QED BY <1>3, <2>1, <2>2 DEF SessionInv
<1>6. CASE RcCreate
  <2>1. sid = 0 /\ spc = "rcCreate"
    BY <1>6 DEF RcCreate, SessionInv, StreamInv
  <2>2. PICK id \in 0..MaxSessions :
          /\ Grants(id)
          /\ \/ /\ id # 0 /\ ssid' = id /\ sid' = id
                /\ UNCHANGED deletes /\ spc' = "rcTransport"
             \/ /\ DeleteSessionAsync(id) /\ UNCHANGED <<ssid, sid>>
                /\ spc' = "top"
    BY <1>6 DEF RcCreate, StreamGoes, ReconnectFails
  <2>3. CASE /\ id # 0 /\ ssid' = id /\ sid' = id /\ UNCHANGED deletes
             /\ spc' = "rcTransport"
    <3>1. IdsOK' /\ Ledger'
      BY <1>2, <2>1, <2>2, <2>3, GrantedAndKept, LimitsAssumption
    <3>2. StreamInv'
      BY <2>3 DEF StreamInv
    <3> QED BY <1>3, <3>1, <3>2 DEF SessionInv
  <2>4. CASE DeleteSessionAsync(id) /\ UNCHANGED <<ssid, sid>> /\ spc' = "top"
    <3>1. IdsOK' /\ Ledger'
      BY <1>2, <2>1, <2>2, <2>4, GrantedAndDropped
    <3>2. StreamInv'
      BY <1>2, <2>4 DEF StreamInv
    <3> QED BY <1>3, <3>1, <3>2 DEF SessionInv
  <2> QED BY <2>2, <2>3, <2>4
<1>7. CASE RcTransport \/ RcNegotiate
  <2>1. /\ UNCHANGED <<sid, ssid, granted>> /\ spc \in {"rcTransport", "rcNegotiate"}
        /\ \/ UNCHANGED deletes /\ spc' \in {"rcNegotiate", "top"}
           \/ DeleteSessionAsync(sid) /\ spc' = "rcDrop"
    BY <1>2, <1>7 DEF RcTransport, RcNegotiate, NewSessionFails,
                      ReconnectSucceeds, StreamGoes
  <2>2. StreamInv'
    BY <1>2, <2>1 DEF StreamInv
  <2>3. CASE UNCHANGED deletes /\ spc' \in {"rcNegotiate", "top"}
    <3>1. IdsOK' /\ Ledger'
      BY <1>2, <2>1, <2>3, LedgerKept DEF serverVars
    <3> QED BY <1>3, <2>2, <3>1 DEF SessionInv
  <2>4. CASE DeleteSessionAsync(sid) /\ spc' = "rcDrop"
    <3>1. IdsOK'
      BY <1>2, <2>1, <2>4, LimitsAssumption
         DEF SessionInv, IdsOK, DeleteSessionAsync, Sessions
    <3>2. ASSUME NEW i \in Sessions
          PROVE  deletes'[i] = IF i <= granted' /\ i \notin Kept' THEN 1 ELSE 0
      <4>1. Kept = {sid, 0} /\ Kept' = {0} /\ granted' = granted /\ i # 0
        BY <1>2, <1>4, <2>1, <2>4 DEF Kept
      <4>2. CASE i = sid
        <5>1. deletes[i] = 0 /\ i <= granted
          BY <4>1, <4>2 DEF SessionInv, Ledger, IdsOK
        <5>2. deletes'[i] = 1
          BY <2>4, <4>1, <4>2, <5>1 DEF SessionInv, IdsOK, DeleteSessionAsync
        <5> QED BY <4>1, <5>1, <5>2
      <4>3. CASE i # sid
        <5>1. deletes'[i] = deletes[i]
          BY <2>4, <4>3 DEF SessionInv, IdsOK, DeleteSessionAsync
        <5> QED BY <4>1, <4>3, <5>1 DEF SessionInv, Ledger
      <4> QED BY <4>2, <4>3
    <3> QED BY <1>3, <2>2, <3>1, <3>2 DEF SessionInv, Ledger
  <2> QED BY <2>1, <2>3, <2>4
<1>8. CASE RcDrop
  <2>1. /\ UNCHANGED <<granted, deletes>> /\ sid' = 0 /\ ssid' = 0
        /\ spc = "rcDrop" /\ spc' = "top"
    BY <1>8 DEF RcDrop, ReconnectFails, StreamGoes
  <2>2. IdsOK'
    BY <1>2, <2>1 DEF SessionInv, IdsOK
  <2>3. Kept = {0} /\ Kept' = {0}
    BY <1>2, <2>1 DEF Kept
  <2>4. Ledger'
    BY <2>1, <2>3 DEF SessionInv, Ledger
  <2>5. StreamInv'
    BY <2>1 DEF StreamInv
  <2> QED BY <1>3, <2>2, <2>4, <2>5 DEF SessionInv
<1> QED BY <1>5, <1>6, <1>7, <1>8

(* The control thread touches no session; it leaves its loop only once.    *)
LEMMA ControlStepKeeps ==
  ASSUME SessionInv, ControlNext \/ BackoffElapses \/ UNCHANGED vars
  PROVE  SessionInv'
<1>1. UNCHANGED <<serverVars, opc, oid, spc, ssid>>
  BY DEF ControlNext, ControlRuns, ControlChecks, ControlBlocks, DeadlinePasses,
         KeepAliveReads, KeepAliveSent, TokenRefreshed, KeepAliveResent,
         PeriodicRefresh, ControlStep, ControlOnly, BackoffElapses, vars,
         ownerVars, streamVars
<1>2. kpc' = kpc \/ ~Gone(kpc)
  BY DEF ControlNext, ControlRuns, ControlChecks, ControlBlocks, DeadlinePasses,
         KeepAliveReads, KeepAliveSent, TokenRefreshed, KeepAliveResent,
         PeriodicRefresh, BackoffElapses, vars, controlVars, Gone
<1>3. IdsOK' /\ Ledger'
  BY <1>1, LedgerKept
<1>4. OwnerInv'
  BY <1>1, <1>2 DEF SessionInv, OwnerInv, serverVars, Gone
<1>5. StreamInv'
  BY <1>1 DEF SessionInv, StreamInv, serverVars
<1> QED BY <1>3, <1>4, <1>5 DEF SessionInv

-----------------------------------------------------------------------------
(* SessionInv is inductive.                                                *)
THEOREM SessionInvariance == Spec => []SessionInv
<1>1. SessionInv /\ [Next]_vars => SessionInv'
  BY OwnerStep, OwnerSessionStep, LoopStep, ReconnectStep, ControlStepKeeps
     DEF Next, OwnerNext, StreamNext
<1> QED BY <1>1, InitEstablishes, PTL DEF Spec

(* Whatever a start, its reconnects and its stop go through, every session *)
(* granted has been deleted exactly once when the object is at rest.       *)
THEOREM SessionsAreReturned == Spec => []EverySessionDeletedOnce
<1>1. SessionInv => EverySessionDeletedOnce
  <2> SUFFICES ASSUME SessionInv PROVE EverySessionDeletedOnce
    OBVIOUS
  <2>1. \A id \in Sessions : deletes[id] <= 1
    BY DEF SessionInv, Ledger, Kept
  <2>2. ASSUME opc = "idle", spc = "none", NEW id \in 1..granted
        PROVE  deletes[id] = 1
    BY <2>2, LimitsAssumption DEF SessionInv, Ledger, Kept, OwnerInv, IdsOK, Sessions
  <2> QED BY <2>1, <2>2 DEF EverySessionDeletedOnce
<1> QED BY <1>1, SessionInvariance, PTL

(* Neither session_id_, where the next keep-alive will go, nor the id that *)
(* the stream works with names a session that has been deleted.            *)
THEOREM UsedSessionsAreAlive == Spec => []SessionInUseIsAlive
<1>1. SessionInv => SessionInUseIsAlive
  BY LimitsAssumption
     DEF SessionInv, Ledger, Kept, IdsOK, StreamInv, SessionInUseIsAlive, Sessions
<1> QED BY <1>1, SessionInvariance, PTL

(* cleanupResources runs with both threads out of their loops.             *)
THEOREM CleanupComesLast == Spec => []CleanupAfterWorkers
<1>1. SessionInv => CleanupAfterWorkers
  BY DEF SessionInv, OwnerInv, CleanupAfterWorkers
<1> QED BY <1>1, SessionInvariance, PTL

-----------------------------------------------------------------------------
(* Types.                                                                  *)
FlagType ==
  /\ stopRequested \in BOOLEAN /\ streaming \in BOOLEAN
  /\ ready \in BOOLEAN /\ inputReady \in BOOLEAN
LoopType ==
  /\ sconn \in BOOLEAN /\ controlled \in BOOLEAN
  /\ prepared \in BOOLEAN /\ rested \in BOOLEAN
GateType == cancel \in BOOLEAN /\ mediaOn \in BOOLEAN /\ mediaUp \in BOOLEAN
PeerType ==
  /\ conn \in {"none", "up", "ready"}
  /\ assoc \in Nat /\ acked \in Nat

(* Where the stream thread and the control thread can be.                  *)
Reconnecting == {"rcCreate", "rcTransport", "rcNegotiate", "rcDrop"}
StreamPcs == Reconnecting \cup {"none", "top", "pump", "control", "watch", "tail",
                                "end", "exited"}
ControlPcs == {"none", "check", "armed", "waiting", "due", "send", "refresh",
               "resend", "token", "exited"}
ThreadType == spc \in StreamPcs /\ kpc \in ControlPcs /\ kid \in 0..MaxSessions

(* The counters stay in their bounds: who is about to count one more has   *)
(* seen that there is room.                                                *)
AttemptInv ==
  /\ attempt \in 0..MaxAttempts
  /\ opc = "retry" => attempt < MaxAttempts
RetriesInv ==
  /\ retries \in 0..MaxReconnects
  /\ spc \in Reconnecting => retries < MaxReconnects
BudgetInv == starts \in 0..MaxStarts /\ faults \in 0..MaxFaults

(* The pipeline has heard nothing before a stream runs, and of no          *)
(* association but the current one since; nothing is let through before    *)
(* this association's handshake.                                           *)
SourceInv ==
  /\ mediaFrom \subseteq {assoc}
  /\ spc = "none" => mediaFrom = {}
GateInv ==
  /\ mediaOn => acked = assoc
  /\ inputReady => acked = assoc
  /\ opc \in Starting => ~mediaOn /\ ~inputReady

(* Once a fresh session has been asked for, the old one's input, media and *)
(* peer are gone until the reconnect is over; and who is about to shake    *)
(* hands has not asked.                                                    *)
PreparedInv ==
  /\ ~Gone(spc) /\ prepared =>
       /\ ~mediaOn /\ ~inputReady /\ mediaFrom = {}
       /\ spc # "rcNegotiate" => conn = "none"
  /\ spc \in Reconnecting => prepared
  /\ spc = "control" => ~prepared

(* The invariant of the associations, beside SessionInv.                   *)
AssocInv ==
  /\ FlagType /\ LoopType /\ GateType /\ PeerType /\ ThreadType
  /\ AttemptInv /\ RetriesInv /\ BudgetInv
  /\ SourceInv /\ GateInv /\ PreparedInv

(* The steps of the owner, of the stream loop and of a reconnect.          *)
OwnerActs ==
  \/ StartCall \/ CleanupStaleSessions \/ RetrySleep \/ CreateAndWait \/ Register
  \/ Negotiate \/ AttemptFailed \/ MediaInit \/ Launch \/ AwaitReady \/ AwaitFails
  \/ StopCall \/ Join \/ CleanupResources \/ RequestStreamStop
StreamActs ==
  \/ StreamTop \/ Pump \/ ControlHandshake \/ Watchdog \/ Tail \/ LoopThrows
  \/ LoopEnds \/ BackoffElapses
ReconnectActs ==
  ReconnectBegins \/ RcCreate \/ RcTransport \/ RcNegotiate \/ RcDrop

(* The owner: start and stop.                                              *)
LEMMA OwnerAssoc ==
  ASSUME SessionInv, AssocInv
  PROVE  OwnerActs => AssocInv'
<1> USE DEF SessionInv, AssocInv, flagVars, serverVars, ownerVars, loopVars,
           streamVars, controlVars, peerVars, mediaVars, OwnerActs, StartCall,
           CleanupStaleSessions, RetrySleep, CreateAndWait, Register, Negotiate,
           AttemptFailed, MediaInit, Launch, AwaitReady, AwaitFails, StopCall, Join,
           CleanupResources, RequestStreamStop, OwnerGoes, OwnerOnly, Abandon,
           StopFlags, FreshLoop, StopQuiet, Notified, MayRetry, Refused, WorkersJoined
<1>1. OwnerActs => FlagType'
  BY DEF FlagType
<1>2. OwnerActs => LoopType'
  BY DEF LoopType
<1>3. OwnerActs => GateType'
  BY DEF GateType
<1>4. OwnerActs => PeerType'
  BY DEF PeerType
<1>5. OwnerActs => ThreadType'
  <2>1. StartCall \/ CleanupStaleSessions \/ RetrySleep \/ CreateAndWait \/ Register
        \/ Negotiate \/ AttemptFailed \/ MediaInit \/ AwaitReady \/ Join
        \/ RequestStreamStop => ThreadType'
    BY LimitsAssumption DEF ThreadType
  <2>2. Launch \/ CleanupResources => ThreadType'
    BY LimitsAssumption DEF ThreadType, StreamPcs, ControlPcs
  <2>3. AwaitFails \/ StopCall => ThreadType'
    BY LimitsAssumption DEF ThreadType, ControlPcs
  <2> HIDE DEF StartCall, CleanupStaleSessions, RetrySleep, CreateAndWait, Register,
         Negotiate, AttemptFailed, MediaInit, Launch, AwaitReady, AwaitFails,
         StopCall, Join, CleanupResources, RequestStreamStop
  <2> QED BY <2>1, <2>2, <2>3 DEF OwnerActs
<1>6. OwnerActs => AttemptInv'
  BY AttemptsAssumption DEF AttemptInv
<1>7. OwnerActs => RetriesInv'
  <2>1. StartCall \/ CleanupStaleSessions \/ RetrySleep \/ CreateAndWait \/ Register
        \/ Negotiate \/ AttemptFailed \/ MediaInit \/ AwaitReady \/ AwaitFails
        \/ StopCall \/ Join \/ RequestStreamStop => RetriesInv'
    BY LimitsAssumption DEF RetriesInv
  <2>2. Launch \/ CleanupResources => RetriesInv'
    BY LimitsAssumption DEF RetriesInv, Reconnecting
  <2> HIDE DEF StartCall, CleanupStaleSessions, RetrySleep, CreateAndWait, Register,
         Negotiate, AttemptFailed, MediaInit, Launch, AwaitReady, AwaitFails,
         StopCall, Join, CleanupResources, RequestStreamStop
  <2> QED BY <2>1, <2>2 DEF OwnerActs
<1>8. OwnerActs => BudgetInv'
  <2>1. StartCall \/ CleanupStaleSessions \/ RetrySleep \/ AttemptFailed
        \/ AwaitReady \/ AwaitFails \/ StopCall \/ Join \/ CleanupResources
        \/ RequestStreamStop => BudgetInv'
    BY LimitsAssumption DEF BudgetInv
  <2>2. CreateAndWait \/ Register \/ Negotiate \/ MediaInit \/ Launch => BudgetInv'
    BY LimitsAssumption DEF BudgetInv, Fault
  <2> HIDE DEF StartCall, CleanupStaleSessions, RetrySleep, CreateAndWait, Register,
         Negotiate, AttemptFailed, MediaInit, Launch, AwaitReady, AwaitFails,
         StopCall, Join, CleanupResources, RequestStreamStop
  <2> QED BY <2>1, <2>2 DEF OwnerActs
<1>9. OwnerActs => SourceInv'
  <2>1. StartCall \/ CleanupStaleSessions \/ RetrySleep \/ CreateAndWait
        \/ Negotiate \/ AttemptFailed \/ MediaInit \/ Launch \/ AwaitReady
        \/ AwaitFails \/ StopCall \/ Join \/ CleanupResources \/ RequestStreamStop
        => SourceInv'
    BY DEF SourceInv
  <2>2. Register => SourceInv'
    BY DEF SourceInv, OwnerInv, Starting
  <2> HIDE DEF StartCall, CleanupStaleSessions, RetrySleep, CreateAndWait, Register,
         Negotiate, AttemptFailed, MediaInit, Launch, AwaitReady, AwaitFails,
         StopCall, Join, CleanupResources, RequestStreamStop
  <2> QED BY <2>1, <2>2 DEF OwnerActs
<1>10. OwnerActs => GateInv'
  <2>1. StartCall \/ RequestStreamStop => GateInv'
    BY DEF GateInv
  <2>2. CleanupStaleSessions \/ RetrySleep \/ CreateAndWait \/ Register \/ Negotiate
        \/ AttemptFailed \/ MediaInit \/ Launch \/ AwaitReady \/ AwaitFails
        \/ StopCall \/ Join \/ CleanupResources => GateInv'
    BY DEF GateInv, Starting
  <2> HIDE DEF StartCall, CleanupStaleSessions, RetrySleep, CreateAndWait, Register,
         Negotiate, AttemptFailed, MediaInit, Launch, AwaitReady, AwaitFails,
         StopCall, Join, CleanupResources, RequestStreamStop
  <2> QED BY <2>1, <2>2 DEF OwnerActs
<1>11. OwnerActs => PreparedInv'
  <2>1. StartCall \/ CleanupStaleSessions \/ RetrySleep \/ CreateAndWait
        \/ AttemptFailed \/ MediaInit \/ AwaitReady \/ AwaitFails \/ StopCall
        \/ Join \/ RequestStreamStop => PreparedInv'
    BY DEF PreparedInv
  <2>2. Register \/ Negotiate => PreparedInv'
    BY DEF PreparedInv, OwnerInv, Starting, Gone
  <2>3. Launch => PreparedInv'
    BY DEF PreparedInv, Reconnecting
  <2>4. CleanupResources => PreparedInv'
    BY DEF PreparedInv, Reconnecting, Gone
  <2> HIDE DEF StartCall, CleanupStaleSessions, RetrySleep, CreateAndWait, Register,
         Negotiate, AttemptFailed, MediaInit, Launch, AwaitReady, AwaitFails,
         StopCall, Join, CleanupResources, RequestStreamStop
  <2> QED BY <2>1, <2>2, <2>3, <2>4 DEF OwnerActs
<1> QED
  BY <1>1, <1>2, <1>3, <1>4, <1>5, <1>6, <1>7, <1>8, <1>9, <1>10, <1>11

(* The stream loop.                                                        *)
LEMMA StreamAssoc ==
  ASSUME SessionInv, AssocInv
  PROVE  StreamActs => AssocInv'
<1> USE DEF SessionInv, AssocInv, flagVars, serverVars, ownerVars, loopVars,
           streamVars, controlVars, peerVars, mediaVars, StreamActs, StreamTop, Pump,
           ControlHandshake, Watchdog, Tail, LoopThrows, LoopEnds, BackoffElapses,
           StreamGoes, StreamOnly, RequestFreshReconnect, PrepareFresh,
           ConnectionChanges, FrameArrives, ChannelFails, Notified
<1>1. StreamActs => FlagType'
  BY DEF FlagType
<1>2. StreamActs => LoopType'
  BY DEF LoopType
<1>3. StreamActs => GateType'
  BY DEF GateType
<1>4. StreamActs => PeerType'
  BY DEF PeerType
<1>5. StreamActs => ThreadType'
  <2>1. StreamTop \/ Pump \/ ControlHandshake \/ Watchdog \/ Tail \/ LoopThrows
        => ThreadType'
    BY LimitsAssumption DEF ThreadType, StreamPcs
  <2>2. LoopEnds => ThreadType'
    BY LimitsAssumption DEF ThreadType, StreamPcs, ControlPcs
  <2>3. BackoffElapses => ThreadType'
    BY LimitsAssumption DEF ThreadType
  <2> HIDE DEF StreamTop, Pump, ControlHandshake, Watchdog, Tail, LoopThrows,
         LoopEnds, BackoffElapses
  <2> QED BY <2>1, <2>2, <2>3 DEF StreamActs
<1>6. StreamActs => AttemptInv'
  BY AttemptsAssumption DEF AttemptInv
<1>7. StreamActs => RetriesInv'
  <2>1. StreamTop \/ Pump \/ ControlHandshake \/ Watchdog \/ Tail \/ LoopThrows
        \/ LoopEnds => RetriesInv'
    BY LimitsAssumption DEF RetriesInv, Reconnecting
  <2>2. BackoffElapses => RetriesInv'
    BY LimitsAssumption DEF RetriesInv
  <2> HIDE DEF StreamTop, Pump, ControlHandshake, Watchdog, Tail, LoopThrows,
         LoopEnds, BackoffElapses
  <2> QED BY <2>1, <2>2 DEF StreamActs
<1>8. StreamActs => BudgetInv'
  <2>1. StreamTop \/ Pump \/ Tail \/ LoopEnds \/ BackoffElapses => BudgetInv'
    BY LimitsAssumption DEF BudgetInv
  <2>2. ControlHandshake \/ Watchdog \/ LoopThrows => BudgetInv'
    BY LimitsAssumption DEF BudgetInv, Fault
  <2> HIDE DEF StreamTop, Pump, ControlHandshake, Watchdog, Tail, LoopThrows,
         LoopEnds, BackoffElapses
  <2> QED BY <2>1, <2>2 DEF StreamActs
<1>9. StreamActs => SourceInv'
  BY DEF SourceInv
<1>10. StreamActs => GateInv'
  <2>1. StreamTop \/ Watchdog \/ Tail \/ LoopThrows \/ LoopEnds \/ BackoffElapses
        => GateInv'
    BY DEF GateInv
  <2>2. Pump => GateInv'
    <3>1. Pump => /\ spc = "pump" /\ spc' \in {"tail", "watch", "control"}
                  /\ spc' # "tail" => sconn' /\ conn' = "ready"
                  /\ UNCHANGED <<opc, assoc, acked>>
      OBVIOUS
    <3>2. Pump => (mediaOn' => mediaOn) /\ (inputReady' => inputReady)
      OBVIOUS
    <3> HIDE DEF Pump
    <3> QED BY <3>1, <3>2 DEF GateInv
  <2>3. ControlHandshake => GateInv'
    BY DEF GateInv, OwnerInv
  <2> HIDE DEF StreamTop, Pump, ControlHandshake, Watchdog, Tail, LoopThrows,
         LoopEnds, BackoffElapses
  <2> QED BY <2>1, <2>2, <2>3 DEF StreamActs
<1>11. StreamActs => PreparedInv'
  <2>1. StreamTop \/ Watchdog \/ Tail \/ LoopThrows \/ LoopEnds => PreparedInv'
    BY DEF PreparedInv, Reconnecting, Gone
  <2>2. Pump => PreparedInv'
    <3>1. Pump => /\ spc = "pump" /\ spc' \in {"tail", "watch", "control"}
                  /\ spc' # "tail" => sconn' /\ conn' = "ready"
                  /\ UNCHANGED <<opc, assoc, acked>>
      OBVIOUS
    <3>2. Pump => (mediaOn' => mediaOn) /\ (inputReady' => inputReady)
      OBVIOUS
    <3>3. Pump /\ prepared => UNCHANGED <<prepared, conn, mediaFrom>>
      <4>1. Pump /\ prepared => conn = "none" /\ conn # "ready"
        BY DEF PreparedInv, Gone
      <4>2. ASSUME Pump, prepared
            PROVE  ConnectionChanges /\ conn' = conn
        BY <4>1, <4>2
      <4> HIDE DEF Pump
      <4> QED BY <4>2
    <3>4. Pump /\ ~prepared /\ prepared' =>
            /\ ~mediaOn' /\ ~inputReady' /\ mediaFrom' = {} /\ conn' = "none"
      OBVIOUS
    <3> HIDE DEF Pump
    <3> QED BY <3>1, <3>2, <3>3, <3>4 DEF PreparedInv, Reconnecting, Gone
  <2>3. ControlHandshake => PreparedInv'
    BY DEF PreparedInv, Reconnecting
  <2>4. BackoffElapses => PreparedInv'
    BY DEF PreparedInv
  <2> HIDE DEF StreamTop, Pump, ControlHandshake, Watchdog, Tail, LoopThrows,
         LoopEnds, BackoffElapses
  <2> QED BY <2>1, <2>2, <2>3, <2>4 DEF StreamActs
<1> QED
  BY <1>1, <1>2, <1>3, <1>4, <1>5, <1>6, <1>7, <1>8, <1>9, <1>10, <1>11

(* A reconnect.                                                            *)
LEMMA ReconnectAssoc ==
  ASSUME SessionInv, AssocInv
  PROVE  ReconnectActs => AssocInv'
<1> USE DEF SessionInv, AssocInv, flagVars, serverVars, ownerVars, loopVars,
           streamVars, controlVars, peerVars, mediaVars, ReconnectActs,
           ReconnectBegins, RcCreate, RcTransport, RcNegotiate, RcDrop, Refused,
           StreamGoes, StreamOnly, RequestFreshReconnect, PrepareFresh,
           ReconnectQuiet, ReconnectFails, ReconnectSucceeds, DropSession,
           NewSessionFails, Exhausted
<1>1. ReconnectActs => FlagType'
  BY DEF FlagType
<1>2. ReconnectActs => LoopType'
  BY DEF LoopType
<1>3. ReconnectActs => GateType'
  BY DEF GateType
<1>4. ReconnectActs => PeerType'
  BY DEF PeerType
<1>5. ReconnectActs => ThreadType'
  <2>1. ReconnectBegins \/ RcCreate \/ RcTransport \/ RcNegotiate => ThreadType'
    BY LimitsAssumption DEF ThreadType, StreamPcs, Reconnecting
  <2>2. RcDrop => ThreadType'
    BY LimitsAssumption DEF ThreadType, StreamPcs
  <2> HIDE DEF ReconnectBegins, RcCreate, RcTransport, RcNegotiate, RcDrop
  <2> QED BY <2>1, <2>2 DEF ReconnectActs
<1>6. ReconnectActs => AttemptInv'
  BY AttemptsAssumption DEF AttemptInv
<1>7. ReconnectActs => RetriesInv'
  <2>1. ReconnectBegins => RetriesInv'
    BY LimitsAssumption DEF RetriesInv
  <2>2. RcCreate \/ RcTransport \/ RcNegotiate \/ RcDrop => RetriesInv'
    BY LimitsAssumption DEF RetriesInv, Reconnecting
  <2> HIDE DEF ReconnectBegins, RcCreate, RcTransport, RcNegotiate, RcDrop
  <2> QED BY <2>1, <2>2 DEF ReconnectActs
<1>8. ReconnectActs => BudgetInv'
  <2>1. ReconnectBegins \/ RcDrop => BudgetInv'
    BY LimitsAssumption DEF BudgetInv
  <2>2. RcCreate \/ RcTransport \/ RcNegotiate => BudgetInv'
    BY LimitsAssumption DEF BudgetInv, Fault
  <2> HIDE DEF ReconnectBegins, RcCreate, RcTransport, RcNegotiate, RcDrop
  <2> QED BY <2>1, <2>2 DEF ReconnectActs
<1>9. ReconnectActs => SourceInv'
  <2>1. ReconnectBegins \/ RcCreate \/ RcNegotiate \/ RcDrop => SourceInv'
    BY DEF SourceInv
  <2>2. RcTransport => SourceInv'
    BY DEF SourceInv, PreparedInv, Reconnecting, Gone
  <2> HIDE DEF ReconnectBegins, RcCreate, RcTransport, RcNegotiate, RcDrop
  <2> QED BY <2>1, <2>2 DEF ReconnectActs
<1>10. ReconnectActs => GateInv'
  <2>1. ReconnectBegins \/ RcCreate \/ RcNegotiate \/ RcDrop => GateInv'
    BY DEF GateInv
  <2>2. RcTransport => GateInv'
    BY DEF GateInv, PreparedInv, Reconnecting, Gone
  <2> HIDE DEF ReconnectBegins, RcCreate, RcTransport, RcNegotiate, RcDrop
  <2> QED BY <2>1, <2>2 DEF ReconnectActs
<1>11. ReconnectActs => PreparedInv'
  <2>1. ReconnectBegins => PreparedInv'
    BY DEF PreparedInv, Gone
  <2>2. RcCreate => PreparedInv'
    <3>1. RcCreate => /\ spc = "rcCreate" /\ spc' \in {"rcTransport", "top"}
                      /\ UNCHANGED <<prepared, conn, mediaOn, inputReady, mediaFrom>>
      OBVIOUS
    <3> HIDE DEF RcCreate
    <3> QED BY <3>1 DEF PreparedInv, Reconnecting, Gone
  <2>3. RcTransport \/ RcDrop => PreparedInv'
    BY DEF PreparedInv, Reconnecting, Gone
  <2>4. RcNegotiate => PreparedInv'
    <3>1. RcNegotiate =>
            /\ spc = "rcNegotiate" /\ UNCHANGED <<mediaOn, inputReady, mediaFrom>>
            /\ \/ spc' = "top" /\ ~prepared'
               \/ spc' = "rcDrop" /\ conn' = "none" /\ UNCHANGED prepared
      OBVIOUS
    <3> HIDE DEF RcNegotiate
    <3> QED BY <3>1 DEF PreparedInv, Reconnecting, Gone
  <2> HIDE DEF ReconnectBegins, RcCreate, RcTransport, RcNegotiate, RcDrop
  <2> QED BY <2>1, <2>2, <2>3, <2>4 DEF ReconnectActs
<1> QED
  BY <1>1, <1>2, <1>3, <1>4, <1>5, <1>6, <1>7, <1>8, <1>9, <1>10, <1>11

(* The control thread.                                                     *)
LEMMA ControlAssoc ==
  ASSUME SessionInv, AssocInv
  PROVE  ControlNext => AssocInv'
<1> USE DEF SessionInv, AssocInv, flagVars, serverVars, ownerVars, loopVars,
           streamVars, controlVars, peerVars, mediaVars, ControlNext, ControlChecks,
           ControlBlocks, DeadlinePasses, KeepAliveReads, KeepAliveSent,
           TokenRefreshed, KeepAliveResent, PeriodicRefresh, ControlNext, ControlRuns,
           ControlGoes, ControlOnly, ControlStep
<1>1. ControlNext => FlagType'
  BY DEF FlagType
<1>2. ControlNext => LoopType'
  BY DEF LoopType
<1>3. ControlNext => GateType'
  BY DEF GateType
<1>4. ControlNext => PeerType'
  BY DEF PeerType
<1>5. ControlNext => ThreadType'
  <2>1. ControlChecks \/ ControlBlocks \/ DeadlinePasses \/ KeepAliveSent
        \/ TokenRefreshed \/ KeepAliveResent \/ PeriodicRefresh => ThreadType'
    BY LimitsAssumption DEF ThreadType, ControlPcs
  <2>2. KeepAliveReads => ThreadType'
    BY LimitsAssumption DEF ThreadType, ControlPcs, IdsOK
  <2> HIDE DEF ControlChecks, ControlBlocks, DeadlinePasses, KeepAliveReads,
         KeepAliveSent, TokenRefreshed, KeepAliveResent, PeriodicRefresh
  <2> QED BY <2>1, <2>2 DEF ControlNext, ControlRuns
<1>6. ControlNext => AttemptInv'
  BY AttemptsAssumption DEF AttemptInv
<1>7. ControlNext => RetriesInv'
  BY LimitsAssumption DEF RetriesInv
<1>8. ControlNext => BudgetInv'
  BY LimitsAssumption DEF BudgetInv, Fault
<1>9. ControlNext => SourceInv'
  BY DEF SourceInv
<1>10. ControlNext => GateInv'
  BY DEF GateInv
<1>11. ControlNext => PreparedInv'
  BY DEF PreparedInv
<1> QED
  BY <1>1, <1>2, <1>3, <1>4, <1>5, <1>6, <1>7, <1>8, <1>9, <1>10, <1>11

(* AssocInv is inductive, given SessionInv.                                *)
LEMMA AssocStep == SessionInv /\ AssocInv /\ [Next]_vars => AssocInv'
<1> SUFFICES ASSUME SessionInv, AssocInv, [Next]_vars PROVE AssocInv'
  OBVIOUS
<1>1. CASE UNCHANGED vars
  BY <1>1 DEF vars, flagVars, serverVars, ownerVars, loopVars, streamVars, controlVars,
              peerVars, mediaVars, AssocInv, FlagType, LoopType, GateType, PeerType,
              ThreadType, AttemptInv, RetriesInv, BudgetInv, SourceInv, GateInv,
              PreparedInv, Gone
<1>2. CASE OwnerActs
  BY <1>2, OwnerAssoc
<1>3. CASE StreamActs
  BY <1>3, StreamAssoc
<1>4. CASE ReconnectActs
  BY <1>4, ReconnectAssoc
<1>5. CASE ControlNext
  BY <1>5, ControlAssoc
<1>6. Next => OwnerActs \/ StreamActs \/ ReconnectActs \/ ControlNext
  BY DEF Next, OwnerNext, StreamNext, OwnerActs, StreamActs, ReconnectActs
<1> QED BY <1>1, <1>2, <1>3, <1>4, <1>5, <1>6

(* AssocInv holds before the first start.                                  *)
LEMMA InitAssoc == Init => AssocInv
<1> SUFFICES ASSUME Init PROVE AssocInv
  OBVIOUS
<1>1. FlagType /\ LoopType
  BY DEF Init, FlagType, LoopType
<1>2. GateType /\ PeerType
  BY DEF Init, GateType, PeerType
<1>3. ThreadType
  BY LimitsAssumption DEF Init, ThreadType, StreamPcs, ControlPcs
<1>4. AttemptInv /\ RetriesInv /\ BudgetInv
  BY AttemptsAssumption, LimitsAssumption
     DEF Init, AttemptInv, RetriesInv, BudgetInv, Reconnecting
<1>5. SourceInv /\ GateInv /\ PreparedInv
  BY DEF Init, SourceInv, GateInv, PreparedInv, Reconnecting, Gone
<1> QED BY <1>1, <1>2, <1>3, <1>4, <1>5 DEF AssocInv

(* Media and input pass only after the handshake of the association that   *)
(* carries them, and the pipeline hears one source at a time, through every *)
(* reconnect, failed start and stop.                                       *)
THEOREM AssociationsAreSafe == Spec => []AssociationSafety
<1>1. SessionInv /\ AssocInv => AssociationSafety
  <2> SUFFICES ASSUME SessionInv, AssocInv PROVE AssociationSafety
    OBVIOUS
  <2>1. MediaNeedsHandshake
    BY DEF AssocInv, GateInv, MediaNeedsHandshake
  <2>2. OneAssociationPerSource
    <3>1. mediaFrom = {} \/ mediaFrom = {assoc}
      BY DEF AssocInv, SourceInv
    <3>2. Cardinality({}) = 0 /\ Cardinality({assoc}) = 1
      BY FS_EmptySet, FS_Singleton
    <3> QED BY <3>1, <3>2 DEF OneAssociationPerSource
  <2>3. TypeOK
    <3>1. {cancel, stopRequested, streaming, ready, inputReady} \subseteq BOOLEAN
      BY DEF AssocInv, FlagType, GateType
    <3>2. {sconn, controlled, prepared, rested, mediaOn, mediaUp} \subseteq BOOLEAN
      BY DEF AssocInv, LoopType, GateType
    <3>3. {sid, oid, ssid, kid, granted} \subseteq 0..MaxSessions
      BY LimitsAssumption DEF AssocInv, ThreadType, SessionInv, IdsOK, StreamInv
    <3>4. /\ deletes \in [Sessions -> Nat] /\ opc \in OwnerPcs
          /\ spc \in StreamPcs /\ kpc \in ControlPcs
      BY DEF AssocInv, ThreadType, SessionInv, IdsOK, OwnerInv
    <3>5. /\ attempt \in 0..MaxAttempts /\ retries \in 0..MaxReconnects
          /\ starts \in 0..MaxStarts /\ faults \in 0..MaxFaults
      BY DEF AssocInv, AttemptInv, RetriesInv, BudgetInv
    <3>6. conn \in {"none", "up", "ready"} /\ {assoc, acked} \subseteq Nat
      BY DEF AssocInv, PeerType
    <3>7. mediaFrom \subseteq Nat
      BY DEF AssocInv, SourceInv, PeerType
    <3> QED BY <3>1, <3>2, <3>3, <3>4, <3>5, <3>6, <3>7
            DEF TypeOK, OwnerPcs, Starting, StreamPcs, Reconnecting, ControlPcs
  <2> QED BY <2>1, <2>2, <2>3 DEF AssociationSafety
<1> QED BY <1>1, InitAssoc, AssocStep, InitEstablishes, SessionInvariance, PTL DEF Spec
=============================================================================
