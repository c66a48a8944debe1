-------------------------- MODULE MediaVideoProofs --------------------------
(***************************************************************************)
(* Proofs about MediaVideo, for every value of its constants.              *)
(***************************************************************************)
EXTENDS MediaVideo, TLAPS

WithWorker == life \in {"up", "joining"}

(* The worker holds a packet of a recovery epoch that is not in the future.*)
HoldsPacket == wpc \in {"reset", "ack", "check", "decode", "decoded"}

(* f[i] is the number of bytes in the first i packets of q.                *)
IsTally(f, q, bytes) ==
  /\ f \in [0..Len(q) -> Nat]
  /\ f[0] = 0
  /\ f[Len(q)] = bytes
  /\ \A i \in 1..Len(q) : f[i] = f[i-1] + q[i].size
  /\ \A i, j \in 0..Len(q) : i <= j => f[i] <= f[j]

(* queuedBytes is the number of bytes in the queue.                        *)
BytesInv == \E f : IsTally(f, queue, queuedBytes)

(* Owner and worker.                                                       *)
OwnerInv ==
  /\ wpc # "exited" => WithWorker
  /\ WithWorker => workerGen = generation
  /\ life \in {"down", "joined"} => ~waiting
  /\ life = "starting" => decEpoch = 0

(* The queue of a live worker is of its generation and epoch.              *)
QueueInv ==
  WithWorker => \A i \in 1..Len(queue) : /\ queue[i].gen = workerGen
                                         /\ queue[i].epoch = epoch

(* A reset that is not pending has been done for the current epoch, and the*)
(* packet the worker holds knows which reset came before it.               *)
ResetInv ==
  /\ resetPending => waiting
  /\ WithWorker /\ ~resetPending => decEpoch = epoch
  /\ HoldsPacket => wpkt.epoch <= epoch
  /\ wpc \in {"reset", "ack"} => wEpoch = wpkt.epoch
  /\ wpc \in {"reset", "ack"} => resetPending
  /\ wpc = "ack" => decEpoch = wEpoch
  /\ wpc \in {"check", "decode", "decoded"} /\ ContainsIdr(wpkt)
       => /\ decEpoch = wpkt.epoch
          /\ wpkt.epoch = epoch => ~resetPending
  /\ wpc = "decode" /\ ContainsVcl(wpkt) => decEpoch = wpkt.epoch
  /\ wpc = "decoded" => ContainsIdr(wpkt)

ChainInv == OwnerInv /\ QueueInv /\ ResetInv /\ RecoveryIsAsked

Inv == TypeOK /\ BytesInv /\ ChainInv

-----------------------------------------------------------------------------
LEMMA TallyOfEmpty == \E f : IsTally(f, <<>>, 0)
<1> DEFINE f == [i \in 0..0 |-> 0]
<1>1. IsTally(f, <<>>, 0)
  BY DEF IsTally
<1> QED BY <1>1

LEMMA TallyOfOne ==
  ASSUME NEW p \in Packet
  PROVE  \E f : IsTally(f, <<p>>, p.size)
<1> DEFINE f == [i \in 0..1 |-> IF i = 0 THEN 0 ELSE p.size]
<1>1. IsTally(f, <<p>>, p.size)
  BY DEF IsTally, Packet
<1> QED BY <1>1

LEMMA TallyOfAppend ==
  ASSUME NEW q \in Seq(Packet), NEW p \in Packet, NEW b,
         \E f : IsTally(f, q, b)
  PROVE  \E f : IsTally(f, Append(q, p), b + p.size)
<1> PICK f : IsTally(f, q, b) OBVIOUS
<1> DEFINE n == Len(q)
           g == [i \in 0..n+1 |-> IF i = n + 1 THEN b + p.size ELSE f[i]]
<1>0. n \in Nat /\ Len(Append(q, p)) = n + 1 /\ b \in Nat /\ p.size \in Nat
  BY DEF IsTally, Packet
<1>1. g \in [0..n+1 -> Nat] /\ g[0] = 0 /\ g[n+1] = b + p.size
  BY <1>0 DEF IsTally
<1>2. \A i \in 1..n+1 : g[i] = g[i-1] + Append(q, p)[i].size
  <2> TAKE i \in 1..n+1
  <2>1. CASE i = n + 1
    BY <2>1, <1>0 DEF IsTally
  <2>2. CASE i # n + 1
    BY <2>2, <1>0 DEF IsTally
  <2> QED BY <2>1, <2>2
<1>3. \A i, j \in 0..n+1 : i <= j => g[i] <= g[j]
  <2> TAKE i, j \in 0..n+1
  <2>1. CASE j = n + 1 /\ i # n + 1
    <3>1. f[i] <= f[n] /\ f[i] \in Nat
      BY <2>1, <1>0 DEF IsTally
    <3> QED BY <2>1, <3>1, <1>0 DEF IsTally
  <2>2. CASE j = n + 1 /\ i = n + 1
    BY <2>2, <1>0
  <2>3. CASE j # n + 1
    BY <2>3, <1>0 DEF IsTally
  <2> QED BY <2>1, <2>2, <2>3
<1>4. IsTally(g, Append(q, p), b + p.size)
  BY <1>0, <1>1, <1>2, <1>3 DEF IsTally
<1> QED BY <1>4

LEMMA TallyOfTail ==
  ASSUME NEW q \in Seq(Packet), q # <<>>, NEW b,
         \E f : IsTally(f, q, b)
  PROVE  \E f : IsTally(f, Tail(q), b - Head(q).size)
<1> PICK f : IsTally(f, q, b) OBVIOUS
<1> DEFINE n == Len(Tail(q))
           g == [i \in 0..n |-> f[i+1] - f[1]]
<1>1. Len(q) = n + 1 /\ n \in Nat
  OBVIOUS
<1>2. Head(q) = q[1] /\ \A i \in 1..n : Tail(q)[i] = q[i+1]
  OBVIOUS
<1>3. \A k \in 1..Len(q) : q[k] \in Packet
  OBVIOUS
<1>4. \A k \in 1..Len(q) : q[k].size \in Nat
  BY <1>3 DEF Packet
<1>5. /\ f[0] = 0 /\ f[n+1] = b
      /\ \A k \in 0..n+1 : f[k] \in Nat
      /\ \A k \in 1..n+1 : f[k] = f[k-1] + q[k].size
      /\ \A i, j \in 0..n+1 : i <= j => f[i] <= f[j]
  BY <1>1 DEF IsTally
<1> HIDE DEF n
<1>6. f[1] = q[1].size /\ f[1] \in Nat
  <2>1. f[1] = f[1-1] + q[1].size
    BY <1>1, <1>5
  <2> QED BY <2>1, <1>1, <1>4, <1>5
<1>7. \A i \in 0..n : g[i] = f[i+1] - f[1] /\ f[i+1] \in Nat /\ f[1] <= f[i+1]
  BY <1>1, <1>5
<1>8. g \in [0..n -> Nat] /\ g[0] = 0 /\ g[n] = b - Head(q).size
  BY <1>1, <1>2, <1>5, <1>6, <1>7
<1>9. \A i \in 1..n : g[i] = g[i-1] + Tail(q)[i].size
  <2> TAKE i \in 1..n
  <2>1. f[i+1] = f[i+1-1] + q[i+1].size /\ i+1-1 = i
    BY <1>1, <1>5
  <2>2. g[i] = f[i+1] - f[1] /\ g[i-1] = f[i-1+1] - f[1] /\ i-1+1 = i
    BY <1>1
  <2>3. q[i+1].size \in Nat /\ f[i] \in Nat /\ Tail(q)[i] = q[i+1]
    BY <1>1, <1>2, <1>4, <1>5
  <2>4. i \in Nat /\ f[i+1] \in Nat /\ f[1] \in Nat
    BY <1>1, <1>5, <1>6
  <2>5. g[i] = f[i+1] - f[1] /\ g[i-1] = f[i] - f[1] /\ f[i+1] = f[i] + q[i+1].size
    BY <2>1, <2>2
  <2>6. Tail(q)[i].size = q[i+1].size
    BY <2>3
  <2>7. \A a, c, s \in Nat : (a + s) - c = (a - c) + s
    OBVIOUS
  <2>8. (f[i] + q[i+1].size) - f[1] = (f[i] - f[1]) + q[i+1].size
    BY <2>3, <2>4, <2>7
  <2> HIDE DEF g
  <2> QED BY <2>5, <2>6, <2>8
<1>10. \A i, j \in 0..n : i <= j => g[i] <= g[j]
  BY <1>1, <1>5, <1>6
<1>11. IsTally(g, Tail(q), b - Head(q).size)
  BY <1>8, <1>9, <1>10 DEF IsTally, n
<1> QED BY <1>11

-----------------------------------------------------------------------------
(* Types.                                                                  *)

LEMMA NoPacketIsPacket == NoPacket \in Packet
  BY DEF NoPacket, Packet, AllKinds

(* A group of variables that does not change keeps its type.               *)
LEMMA FrameTypes ==
  /\ LifeType /\ UNCHANGED lifeVars => LifeType'
  /\ QueueType /\ UNCHANGED queueVars => QueueType'
  /\ ChainType /\ UNCHANGED chainVars => ChainType'
  /\ RendererType /\ UNCHANGED rendererVars => RendererType'
  /\ WorkerType /\ UNCHANGED workerVars => WorkerType'
  /\ IngressType /\ UNCHANGED ingressVars => IngressType'
  /\ MonitorType /\ UNCHANGED monitorVars => MonitorType'
  /\ HostType /\ UNCHANGED hostVars => HostType'
  /\ DecoderType /\ UNCHANGED decoderVars => DecoderType'
  /\ BytesInv /\ UNCHANGED queueVars => BytesInv'
<1>1. LifeType /\ UNCHANGED lifeVars => LifeType'
  BY DEF LifeType, lifeVars
<1>2. QueueType /\ UNCHANGED queueVars => QueueType'
  BY DEF QueueType, queueVars
<1>3. ChainType /\ UNCHANGED chainVars => ChainType'
  BY DEF ChainType, chainVars
<1>4. RendererType /\ UNCHANGED rendererVars => RendererType'
  BY DEF RendererType, rendererVars
<1>5. WorkerType /\ UNCHANGED workerVars => WorkerType'
  BY DEF WorkerType, workerVars
<1>6. IngressType /\ UNCHANGED ingressVars => IngressType'
  BY DEF IngressType, ingressVars
<1>7. MonitorType /\ UNCHANGED monitorVars => MonitorType'
  BY DEF MonitorType, monitorVars
<1>8. HostType /\ UNCHANGED hostVars => HostType'
  BY DEF HostType, hostVars
<1>9. DecoderType /\ UNCHANGED decoderVars => DecoderType'
  BY DEF DecoderType, decoderVars
<1>10. BytesInv /\ UNCHANGED queueVars => BytesInv'
  BY DEF BytesInv, queueVars
<1> QED BY <1>1, <1>2, <1>3, <1>4, <1>5, <1>6, <1>7, <1>8, <1>9, <1>10

LEMMA BytesAreNat == BytesInv /\ queue \in Seq(Packet) => queuedBytes \in Nat
  BY DEF BytesInv, IsTally

(* What a recovery leaves is well typed, and its bytes are counted.        *)
LEMMA RecoveryTypes ==
  ASSUME TypeOK, BytesInv, NEW force \in BOOLEAN, NEW kept,
         kept = <<>> \/ \E p \in Packet : kept = <<p>>,
         BeginHardVideoRecoveryLocked(force, kept)
  PROVE  QueueType' /\ ChainType' /\ request' \in BOOLEAN /\ RendererType'
         /\ BytesInv'
<1> USE DEF BeginHardVideoRecoveryLocked
<1>1. CASE RecoveryStarts(force)
  <2>1. kept \in Seq(Packet) /\ \E f : IsTally(f, kept, KeptBytes(kept))
    <3>1. CASE kept = <<>>
      BY <3>1, TallyOfEmpty DEF KeptBytes
    <3>2. ASSUME NEW p \in Packet, kept = <<p>>
          PROVE  kept \in Seq(Packet) /\ \E f : IsTally(f, kept, KeptBytes(kept))
      <4>1. KeptBytes(kept) = p.size /\ kept \in Seq(Packet)
        BY <3>2 DEF KeptBytes
      <4> QED BY <3>2, <4>1, TallyOfOne
    <3> QED BY <3>1, <3>2
  <2>2. queue' = kept /\ queuedBytes' = KeptBytes(kept)
    BY <1>1
  <2>3. BytesInv'
    BY <2>1, <2>2 DEF BytesInv
  <2>4. QueueType'
    BY <2>1, <2>2, <2>3, BytesAreNat DEF BytesInv, IsTally, QueueType
  <2>5. ChainType' /\ request' \in BOOLEAN
    BY <1>1 DEF TypeOK, ChainType
  <2>6. rInProgress' = rInProgress /\ ~rPending' /\ ~rWakeup'
    BY <1>1
  <2>7. RendererType'
    BY <1>1, <2>6 DEF TypeOK, RendererType
  <2> QED BY <2>3, <2>4, <2>5, <2>7
<1>2. CASE ~RecoveryStarts(force)
  <2>1. UNCHANGED queueVars /\ UNCHANGED chainVars /\ request' \in BOOLEAN
    BY <1>2
  <2>2. UNCHANGED rPending /\ UNCHANGED rWakeup /\ UNCHANGED rInProgress
    BY <1>2
  <2>3. RendererType'
    BY <2>2 DEF TypeOK, RendererType
  <2> QED BY <2>1, <2>3, FrameTypes DEF TypeOK
<1> QED BY <1>1, <1>2

(* The same of a step that may start a recovery and queues nothing.        *)
RecoveryOrNot ==
  \/ BeginHardVideoRecoveryLocked(TRUE, <<>>)
  \/ BeginHardVideoRecoveryLocked(FALSE, <<>>)
  \/ /\ request' = TRUE \/ UNCHANGED request
     /\ UNCHANGED queueVars /\ UNCHANGED chainVars /\ UNCHANGED rendererVars

LEMMA RecoveryOrNotTypes ==
  ASSUME TypeOK, BytesInv, RecoveryOrNot
  PROVE  QueueType' /\ ChainType' /\ request' \in BOOLEAN /\ RendererType'
         /\ BytesInv'
<1>1. CASE BeginHardVideoRecoveryLocked(TRUE, <<>>)
  BY <1>1, RecoveryTypes
<1>2. CASE BeginHardVideoRecoveryLocked(FALSE, <<>>)
  BY <1>2, RecoveryTypes
<1>3. CASE /\ request' = TRUE \/ UNCHANGED request
           /\ UNCHANGED queueVars /\ UNCHANGED chainVars
           /\ UNCHANGED rendererVars
  BY <1>3, FrameTypes DEF TypeOK, FlagType
<1> QED BY <1>1, <1>2, <1>3 DEF RecoveryOrNot

LEMMA TypeStep ==
  ASSUME TypeOK, BytesInv, [Next]_vars
  PROVE  TypeOK' /\ BytesInv'
<1> USE NoPacketIsPacket, FrameTypes DEF TypeOK, FlagType
<1>1. ASSUME WorkerExit
      PROVE  TypeOK' /\ BytesInv'
  BY <1>1 DEF WorkerExit, WorkerType
<1>2. ASSUME WorkerTakeRenderer
      PROVE  TypeOK' /\ BytesInv'
  BY <1>2 DEF WorkerTakeRenderer, WorkerType, RendererType
<1>3. ASSUME WorkerRendererBegin
      PROVE  TypeOK' /\ BytesInv'
  <2>1. WorkerType' /\ RendererType'
    BY <1>3 DEF WorkerRendererBegin, WorkerType, RendererType
  <2> QED BY <1>3, <2>1 DEF WorkerRendererBegin
<1>4. ASSUME NEW ok \in BOOLEAN, WorkerRendererEnd(ok)
      PROVE  TypeOK' /\ BytesInv'
  <2>1. WorkerType' /\ RendererType'
    BY <1>4 DEF WorkerRendererEnd, WorkerType, RendererType
  <2>2. faults' \in Nat
    BY <1>4 DEF WorkerRendererEnd, Fault
  <2> QED BY <1>4, <2>1, <2>2 DEF WorkerRendererEnd
<1>5. ASSUME NEW ok \in BOOLEAN, WorkerReset(ok)
      PROVE  TypeOK' /\ BytesInv'
  <2>1. WorkerType'
    BY <1>5 DEF WorkerReset, WorkerType
  <2>2. DecoderType'
    <3>1. CASE ok
      <4>1. decReady' = FALSE /\ decRef' = 0 /\ decEpoch' = wEpoch
        BY <1>5, <3>1 DEF WorkerReset
      <4>2. decSets' \in {0, decSets} /\ decSrc' \in {0, decSrc}
        BY <1>5, <3>1 DEF WorkerReset
      <4>3. decSets' \in Nat /\ decSrc' \in Nat
        BY <4>2 DEF DecoderType
      <4>4. decEpoch' \in Nat /\ decReady' \in BOOLEAN /\ decRef' \in Nat
        BY <4>1 DEF WorkerType
      <4> QED BY <4>3, <4>4 DEF DecoderType
    <3>2. CASE ~ok
      <4>1. UNCHANGED <<decSets, decSrc, decEpoch>>
        BY <1>5, <3>2 DEF WorkerReset
      <4>2. decReady' \in {decReady, FALSE} /\ decRef' \in {decRef, 0}
        BY <1>5, <3>2 DEF WorkerReset
      <4>3. decReady' \in BOOLEAN
        BY <4>2 DEF DecoderType
      <4>4. decRef' \in Nat
        BY <4>2 DEF DecoderType
      <4> QED BY <4>1, <4>3, <4>4 DEF DecoderType
    <3> QED BY <3>1, <3>2
  <2>3. faults' \in Nat
    BY <1>5 DEF WorkerReset, Fault
  <2>4. request' \in BOOLEAN
    BY <1>5 DEF WorkerReset
  <2> QED BY <1>5, <2>1, <2>2, <2>3, <2>4 DEF WorkerReset
<1>6. ASSUME WorkerAck
      PROVE  TypeOK' /\ BytesInv'
  BY <1>6 DEF WorkerAck, WorkerType, ChainType
<1>7. ASSUME WorkerCheck
      PROVE  TypeOK' /\ BytesInv'
  BY <1>7 DEF WorkerCheck, WorkerType
<1>8. ASSUME NEW ok \in BOOLEAN, WorkerDecode(ok)
      PROVE  TypeOK' /\ BytesInv'
  <2>1. WorkerType'
    BY <1>8 DEF WorkerDecode, WorkerType
  <2>2. wpkt.src \in Nat /\ wpkt.seq \in Nat
    BY DEF WorkerType, Packet
  <2>3. DecoderType'
    BY <1>8, <2>2 DEF WorkerDecode, SetsAfter, DecoderType
  <2>4. faults' \in Nat
    BY <1>8 DEF WorkerDecode, Fault
  <2> QED BY <1>8, <2>1, <2>3, <2>4 DEF WorkerDecode
<1>9. ASSUME WorkerDecoded
      PROVE  TypeOK' /\ BytesInv'
  BY <1>9 DEF WorkerDecoded, WorkerType, ChainType
<1>10. ASSUME NewSourceBegin
      PROVE  TypeOK' /\ BytesInv'
  BY <1>10 DEF NewSourceBegin, IngressType, RendererType
<1>11. ASSUME LatePresentSuccess
      PROVE  TypeOK' /\ BytesInv'
  BY <1>11 DEF LatePresentSuccess, RendererType
<1>12. ASSUME RendererRecoveryClaim
      PROVE  TypeOK' /\ BytesInv'
  BY <1>12 DEF RendererRecoveryClaim, Fault, RendererType
<1>13. ASSUME RendererRecoveryWake
      PROVE  TypeOK' /\ BytesInv'
  BY <1>13 DEF RendererRecoveryWake, RendererType
<1>14. ASSUME MonitorAsk
      PROVE  TypeOK' /\ BytesInv'
  BY <1>14 DEF MonitorAsk, MonitorType
<1>15. ASSUME ClearVideoRecoveryRequest
      PROVE  TypeOK' /\ BytesInv'
  BY <1>15 DEF ClearVideoRecoveryRequest, RequestAfterClear,
                                    MonitorType, ChainType
<1>16. ASSUME Initialize
      PROVE  TypeOK' /\ BytesInv'
  <2>1. LifeType'
    BY <1>16 DEF Initialize, LifeType
  <2>3. DecoderType'
    BY <1>16 DEF Initialize, DecoderType
  <2>2. RendererType'
    BY <1>16 DEF Initialize, RendererType
  <2> QED BY <1>16, <2>1, <2>2, <2>3 DEF Initialize
<1>17. ASSUME ShutdownStop
      PROVE  TypeOK' /\ BytesInv'
  BY <1>17 DEF ShutdownStop, LifeType
<1>18. ASSUME ShutdownDestroy
      PROVE  TypeOK' /\ BytesInv'
  <2>1. LifeType'
    BY <1>18 DEF ShutdownDestroy, LifeType
  <2>3. ChainType'
    BY <1>18 DEF ShutdownDestroy, ChainType
  <2>2. RendererType'
    BY <1>18 DEF ShutdownDestroy, RendererType
  <2> QED BY <1>18, <2>1, <2>2, <2>3 DEF ShutdownDestroy
<1>19. ASSUME WorkerAgeOut
      PROVE  TypeOK' /\ BytesInv'
  <2>1. RecoveryOrNot
    BY <1>19 DEF WorkerAgeOut, RecoveryOrNot
  <2> QED BY <1>19, <2>1, RecoveryOrNotTypes DEF WorkerAgeOut, Fault
<1>20. ASSUME WorkerAgeAfterPop
      PROVE  TypeOK' /\ BytesInv'
  <2>1. RecoveryOrNot
    BY <1>20 DEF WorkerAgeAfterPop, RecoveryOrNot
  <2>2. WorkerType'
    BY <1>20 DEF WorkerAgeAfterPop, WorkerType
  <2> QED BY <1>20, <2>1, <2>2, RecoveryOrNotTypes DEF WorkerAgeAfterPop, Fault
<1>21. ASSUME WorkerDecodeFailed
      PROVE  TypeOK' /\ BytesInv'
  <2>1. RecoveryOrNot
    BY <1>21 DEF WorkerDecodeFailed, RecoveryOrNot
  <2>2. WorkerType'
    BY <1>21 DEF WorkerDecodeFailed, WorkerType
  <2> QED BY <1>21, <2>1, <2>2, RecoveryOrNotTypes DEF WorkerDecodeFailed
<1>22. ASSUME PresentFault
      PROVE  TypeOK' /\ BytesInv'
  <2>1. RecoveryOrNot
    BY <1>22 DEF PresentFault, RecoveryOrNot
  <2> QED BY <1>22, <2>1, RecoveryOrNotTypes DEF PresentFault, Fault
<1>23. ASSUME NewSourceEnd
      PROVE  TypeOK' /\ BytesInv'
  <2>1. RecoveryOrNot
    BY <1>23 DEF NewSourceEnd, RecoveryOrNot
  <2>2. IngressType'
    BY <1>23 DEF NewSourceEnd, IngressType
  <2>3. setsSent' = FALSE /\ src' = src + 1 /\ seq' = seq /\ lost' = lost
    BY <1>23 DEF NewSourceEnd
  <2>5. src' \in Nat /\ seq' \in Nat
    BY <2>3 DEF HostType
  <2>4. HostType'
    BY <2>3, <2>5 DEF HostType
  <2> QED BY <1>23, <2>1, <2>2, <2>4, RecoveryOrNotTypes DEF NewSourceEnd
<1>24. ASSUME NEW reset \in BOOLEAN, RequestVideoRecovery(reset)
      PROVE  TypeOK' /\ BytesInv'
  <2>1. RecoveryOrNot
    BY <1>24 DEF RequestVideoRecovery, RecoveryOrNot
  <2> QED BY <1>24, <2>1, RecoveryOrNotTypes DEF RequestVideoRecovery, Fault
<1>25. ASSUME WorkerPop
      PROVE  TypeOK' /\ BytesInv'
  <2>1. Tail(queue) \in Seq(Packet) /\ Head(queue) \in Packet
    BY <1>25 DEF WorkerPop, QueueType
  <2>2. BytesInv'
    BY <1>25, TallyOfTail DEF WorkerPop, BytesInv, QueueType
  <2>3. QueueType'
    BY <1>25, <2>1, <2>2 DEF WorkerPop, QueueType, BytesInv, IsTally
  <2> QED BY <1>25, <2>1, <2>2, <2>3 DEF WorkerPop, WorkerType, ChainType
<1>26. ASSUME InitializeFails \/ StartWorkers \/ ShutdownJoin
      PROVE  TypeOK' /\ BytesInv'
  <2>1. ClearedByStopWorkers
    BY <1>26 DEF InitializeFails, StartWorkers, ShutdownJoin
  <2>2. BytesInv' /\ QueueType'
    BY <2>1, TallyOfEmpty DEF ClearedByStopWorkers, BytesInv, QueueType
  <2>3. ChainType' /\ newSourcePending' \in BOOLEAN
    BY <2>1 DEF ClearedByStopWorkers, ChainType
  <2>4. RendererType'
    BY <2>1 DEF ClearedByStopWorkers, RendererType
  <2>5. LifeType'
    BY <1>26 DEF InitializeFails, StartWorkers, ShutdownJoin, LifeType
  <2>6. CASE StartWorkers
    <3>1. WorkerType' /\ request' \in BOOLEAN
      BY <2>6 DEF StartWorkers, WorkerType
    <3> QED BY <2>2, <2>3, <2>4, <2>5, <2>6, <3>1 DEF StartWorkers
  <2>7. CASE InitializeFails
    BY <2>2, <2>3, <2>4, <2>5, <2>7 DEF InitializeFails
  <2>8. CASE ShutdownJoin
    BY <2>2, <2>3, <2>4, <2>5, <2>8 DEF ShutdownJoin
  <2> QED BY <1>26, <2>6, <2>7, <2>8
<1>27. ASSUME NEW kind \in Kinds, NEW size \in Sizes, Arrive(kind, size)
      PROVE  TypeOK' /\ BytesInv'
  <2> DEFINE p == NewFrame(kind, size)
  <2>1. p \in Packet
    BY KindsAssumption, SizesAssumption DEF NewFrame, Packet, LifeType, HostType
  <2>2. UNCHANGED <<lifeVars, newSourcePending, workerVars, upc, decoderVars>>
        /\ faults' \in {faults, faults + 1}
    BY <1>27 DEF Arrive, Fault
  <2>11. faults' \in Nat
    BY <2>2
  <2>9. HostType'
    <3>1. seq' \in {seq, seq + 1} /\ src' = src
      BY <1>27 DEF Arrive, HostSends
    <3>2. setsSent' \in {setsSent, TRUE, FALSE}
      BY <1>27 DEF Arrive, HostSends
    <3>3. setsSent' \in BOOLEAN
      BY <3>2 DEF HostType
    <3>4. lost' \in {lost, lost \cup {p.seq}} /\ p.seq \in Nat
      BY <1>27, <2>1 DEF Arrive, Gone, Packet
    <3> HIDE DEF p
    <3> QED BY <3>1, <3>3, <3>4 DEF HostType
  <2>10. MonitorType'
    BY <1>27 DEF Arrive, HostSends, MonitorType
  <2>3. CASE BeginHardVideoRecoveryLocked(TRUE, <<>>) /\ UNCHANGED ingressVars
    BY <2>2, <2>11, <2>3, <2>9, <2>10, RecoveryOrNotTypes DEF RecoveryOrNot
  <2>4. CASE /\ UNCHANGED <<queueVars, chainVars, request, rendererVars>>
             /\ UNCHANGED ingressVars \/ (ipc' = "copied" /\ ipkt' = p)
    <3>1. IngressType'
      BY <2>1, <2>4 DEF IngressType, ingressVars
    <3> QED BY <2>2, <2>11, <2>4, <2>9, <2>10, <3>1
  <2> QED BY <1>27, <2>3, <2>4 DEF Arrive
<1>28. ASSUME NEW aged \in BOOLEAN, CommitPacket(aged)
      PROVE  TypeOK' /\ BytesInv'
  <2> DEFINE p == [ipkt EXCEPT !.epoch = epoch]
             r == [ipkt EXCEPT !.epoch = epoch + 1]
  <2>1. p \in Packet /\ r \in Packet /\ p.size = ipkt.size
    BY DEF Packet, IngressType, ChainType
  <2>2. /\ UNCHANGED <<lifeVars, newSourcePending, workerVars, upc, monitorVars,
                       hostVars, decoderVars>>
        /\ IngressType' /\ faults' \in Nat
    BY <1>28 DEF CommitPacket, Fault, IngressType
  <2>3. CASE UNCHANGED <<queueVars, chainVars, request, rendererVars>>
    BY <2>2, <2>3
  <2>4. CASE /\ queue' = Append(queue, p) /\ queuedBytes' = queuedBytes + ipkt.size
             /\ UNCHANGED <<chainVars, request, rendererVars>>
    <3>1. queue' \in Seq(Packet)
      BY <2>1, <2>4 DEF QueueType
    <3>2. BytesInv'
      BY <2>1, <2>4, TallyOfAppend DEF BytesInv, QueueType
    <3>3. QueueType'
      BY <3>1, <3>2 DEF QueueType, BytesInv, IsTally
    <3> QED BY <2>2, <2>4, <3>2, <3>3
  <2>5. CASE \/ BeginHardVideoRecoveryLocked(TRUE, <<r>>)
             \/ BeginHardVideoRecoveryLocked(TRUE, <<>>)
    <3>1. PICK kept : /\ kept = <<>> \/ \E q \in Packet : kept = <<q>>
                      /\ BeginHardVideoRecoveryLocked(TRUE, kept)
      BY <2>1, <2>5
    <3> QED BY <2>2, <3>1, RecoveryTypes
  <2> QED BY <1>28, <2>3, <2>4, <2>5 DEF CommitPacket
<1>29. CASE UNCHANGED vars
  BY <1>29 DEF vars
<1> QED
  BY <1>1, <1>2, <1>3, <1>4, <1>5, <1>6, <1>7, <1>8, <1>9, <1>10, <1>11, <1>12,
     <1>13, <1>14, <1>15, <1>16, <1>17, <1>18, <1>19, <1>20, <1>21, <1>22,
     <1>23, <1>24, <1>25, <1>26, <1>27, <1>28, <1>29
     DEF Next, Ingress, Worker, Present, Watchdog, Monitor, Owner

-----------------------------------------------------------------------------
(* The recovery protocol.                                                  *)

(* What most steps do to the chain: start a recovery that leaves "kept"    *)
(* queued, or leave the chain alone.                                       *)
ChainStep(kept) ==
  \/ /\ Running /\ queue' = kept /\ epoch' = epoch + 1
     /\ resetPending' = TRUE /\ waiting' = TRUE /\ request' = TRUE
  \/ /\ UNCHANGED <<queue, epoch, resetPending, waiting>>
     /\ request' = TRUE \/ UNCHANGED request

LEMMA RecoveryIsChainStep ==
  /\ \A force \in BOOLEAN : \A kept :
       BeginHardVideoRecoveryLocked(force, kept) => ChainStep(kept)
  /\ RecoveryOrNot => ChainStep(<<>>)
<1>1. ASSUME NEW force \in BOOLEAN, NEW kept,
             BeginHardVideoRecoveryLocked(force, kept)
      PROVE  ChainStep(kept)
  BY <1>1 DEF BeginHardVideoRecoveryLocked, RecoveryStarts, ChainStep,
              queueVars, chainVars
<1>2. ASSUME RecoveryOrNot
      PROVE  ChainStep(<<>>)
  BY <1>1, <1>2 DEF RecoveryOrNot, ChainStep, queueVars, chainVars
<1> QED BY <1>1, <1>2

(* The worker does not move, or moves to where it holds no packet.         *)
WorkerLetsGo ==
  \/ UNCHANGED <<wpc, wpkt, wEpoch>>
  \/ wpc # "exited" /\ ~HoldsPacket'

LEMMA ChainStepKeepsInv ==
  ASSUME Inv, NEW kept, ChainStep(kept), WorkerLetsGo,
         UNCHANGED <<life, generation, workerGen, decEpoch>>,
         \A i \in 1..Len(kept) : /\ kept[i].gen = generation
                                 /\ kept[i].epoch = epoch + 1
  PROVE  ChainInv'
<1>0. TypeOK /\ ChainInv
  BY DEF Inv
<1>1. OwnerInv'
  BY <1>0 DEF ChainInv, OwnerInv, ChainStep, WorkerLetsGo, HoldsPacket,
              WithWorker, Running
<1>2. QueueInv'
  BY <1>0 DEF ChainInv, QueueInv, OwnerInv, ChainStep, WithWorker
<1>3. RecoveryIsAsked'
  BY <1>0 DEF ChainInv, RecoveryIsAsked, ChainStep, Running
<1>4. ResetInv'
  <2>1. epoch \in Nat /\ wpkt.epoch \in Nat
    BY <1>0 DEF TypeOK, ChainType, WorkerType, Packet
  <2>2. CASE ~HoldsPacket'
    BY <1>0, <2>2 DEF ChainInv, ResetInv, ChainStep, HoldsPacket, WithWorker
  <2>3. CASE UNCHANGED <<wpc, wpkt, wEpoch>> /\ epoch' = epoch
    BY <1>0, <2>1, <2>3 DEF ChainInv, ResetInv, ChainStep, HoldsPacket,
                            WithWorker, ContainsIdr, ContainsVcl
  <2>4. CASE /\ UNCHANGED <<wpc, wpkt, wEpoch>> /\ epoch' = epoch + 1
             /\ resetPending' = TRUE /\ waiting' = TRUE
    BY <1>0, <2>1, <2>4 DEF ChainInv, ResetInv, HoldsPacket, ContainsIdr,
                            ContainsVcl
  <2> QED BY <2>2, <2>3, <2>4 DEF ChainStep, WorkerLetsGo
<1> QED BY <1>1, <1>2, <1>3, <1>4 DEF ChainInv

(* Steps that touch the chain at most by a recovery that queues nothing.   *)
QuietStep ==
  /\ ChainStep(<<>>)
  /\ WorkerLetsGo
  /\ UNCHANGED <<life, generation, workerGen, decEpoch>>

LEMMA QuietKeepsInv == Inv /\ QuietStep => ChainInv'
  BY ChainStepKeepsInv DEF QuietStep

LEMMA QuietSteps ==
  ASSUME \/ WorkerExit \/ WorkerAgeOut \/ WorkerTakeRenderer
         \/ WorkerRendererBegin \/ \E ok \in BOOLEAN : WorkerRendererEnd(ok)
         \/ WorkerReset(FALSE) \/ WorkerAgeAfterPop \/ WorkerDecodeFailed
         \/ Present \/ Watchdog \/ MonitorAsk \/ NewSourceBegin \/ NewSourceEnd
         \/ \E kind \in Kinds, size \in Sizes : Arrive(kind, size)
  PROVE  QuietStep
<1> USE DEF QuietStep, WorkerLetsGo, HoldsPacket, lifeVars, workerVars,
            decoderVars
<1>1. ASSUME WorkerExit
      PROVE  QuietStep
  BY <1>1 DEF WorkerExit, ChainStep, queueVars, chainVars
<1>2. ASSUME WorkerAgeOut
      PROVE  QuietStep
  <2>1. RecoveryOrNot
    BY <1>2 DEF WorkerAgeOut, RecoveryOrNot
  <2> QED BY <1>2, <2>1, RecoveryIsChainStep DEF WorkerAgeOut
<1>3. ASSUME WorkerTakeRenderer
      PROVE  QuietStep
  BY <1>3 DEF WorkerTakeRenderer, ChainStep, queueVars, chainVars
<1>4. ASSUME WorkerRendererBegin
      PROVE  QuietStep
  BY <1>4 DEF WorkerRendererBegin, ChainStep, queueVars, chainVars
<1>5. ASSUME NEW ok \in BOOLEAN, WorkerRendererEnd(ok)
      PROVE  QuietStep
  BY <1>5 DEF WorkerRendererEnd, ChainStep, queueVars, chainVars
<1>6. ASSUME WorkerReset(FALSE)
      PROVE  QuietStep
  BY <1>6 DEF WorkerReset, ChainStep, queueVars, chainVars
<1>7. ASSUME WorkerAgeAfterPop
      PROVE  QuietStep
  <2>1. RecoveryOrNot
    BY <1>7 DEF WorkerAgeAfterPop, RecoveryOrNot
  <2> QED BY <1>7, <2>1, RecoveryIsChainStep DEF WorkerAgeAfterPop
<1>8. ASSUME WorkerDecodeFailed
      PROVE  QuietStep
  <2>1. RecoveryOrNot
    BY <1>8 DEF WorkerDecodeFailed, RecoveryOrNot
  <2> QED BY <1>8, <2>1, RecoveryIsChainStep DEF WorkerDecodeFailed
<1>9. ASSUME PresentFault
      PROVE  QuietStep
  <2>1. RecoveryOrNot
    BY <1>9 DEF PresentFault, RecoveryOrNot
  <2> QED BY <1>9, <2>1, RecoveryIsChainStep DEF PresentFault
<1>10. ASSUME LatePresentSuccess
      PROVE  QuietStep
  BY <1>10 DEF LatePresentSuccess, ChainStep, queueVars, chainVars
<1>11. ASSUME RendererRecoveryClaim
      PROVE  QuietStep
  BY <1>11 DEF RendererRecoveryClaim, ChainStep, queueVars, chainVars
<1>12. ASSUME RendererRecoveryWake
      PROVE  QuietStep
  BY <1>12 DEF RendererRecoveryWake, ChainStep, queueVars, chainVars
<1>13. ASSUME NEW reset \in BOOLEAN, RequestVideoRecovery(reset)
      PROVE  QuietStep
  <2>1. RecoveryOrNot
    BY <1>13 DEF RequestVideoRecovery, RecoveryOrNot
  <2> QED BY <1>13, <2>1, RecoveryIsChainStep DEF RequestVideoRecovery
<1>14. ASSUME MonitorAsk
      PROVE  QuietStep
  BY <1>14 DEF MonitorAsk, ChainStep, queueVars, chainVars
<1>15. ASSUME NewSourceBegin
      PROVE  QuietStep
  BY <1>15 DEF NewSourceBegin, ChainStep, queueVars, chainVars
<1>16. ASSUME NewSourceEnd
      PROVE  QuietStep
  <2>1. RecoveryOrNot
    BY <1>16 DEF NewSourceEnd, RecoveryOrNot
  <2> QED BY <1>16, <2>1, RecoveryIsChainStep DEF NewSourceEnd
<1>17. ASSUME NEW kind \in Kinds, NEW size \in Sizes, Arrive(kind, size)
      PROVE  QuietStep
  <2>1. RecoveryOrNot
    BY <1>17 DEF Arrive, RecoveryOrNot
  <2> QED BY <1>17, <2>1, RecoveryIsChainStep DEF Arrive
<1> QED
  BY <1>1, <1>2, <1>3, <1>4, <1>5, <1>6, <1>7, <1>8, <1>9, <1>10, <1>11, <1>12, <1>13,
     <1>14, <1>15, <1>16, <1>17
     DEF Present, Watchdog

LEMMA CommitKeepsInv ==
  ASSUME Inv, NEW aged \in BOOLEAN, CommitPacket(aged)
  PROVE  ChainInv'
<1> DEFINE p == [ipkt EXCEPT !.epoch = epoch]
           r == [ipkt EXCEPT !.epoch = epoch + 1]
<1>0. ipkt \in Packet /\ queue \in Seq(Packet) /\ p \in Packet
      /\ p.epoch = epoch /\ r.epoch = epoch + 1 /\ r.gen = ipkt.gen
      /\ p.gen = ipkt.gen
  BY DEF Inv, TypeOK, IngressType, QueueType, ChainType, Packet
<1>1. WorkerLetsGo /\ UNCHANGED <<life, generation, workerGen, decEpoch>>
  BY DEF CommitPacket, WorkerLetsGo, lifeVars, workerVars, decoderVars
<1>2. CASE UNCHANGED <<queueVars, chainVars, request>>
  <2>1. ChainStep(<<>>)
    BY <1>2 DEF ChainStep, queueVars, chainVars
  <2> QED BY <1>1, <2>1, QuietKeepsInv DEF QuietStep
<1>3. CASE BeginHardVideoRecoveryLocked(TRUE, <<>>)
  BY <1>1, <1>3, RecoveryIsChainStep, QuietKeepsInv DEF QuietStep
<1>4. CASE BeginHardVideoRecoveryLocked(TRUE, <<r>>) /\ ~CopyIsStale(ipkt)
  <2>1. ChainStep(<<r>>)
    BY <1>4, RecoveryIsChainStep
  <2>2. \A i \in 1..Len(<<r>>) : /\ <<r>>[i].gen = generation
                                 /\ <<r>>[i].epoch = epoch + 1
    <3>1. r.gen = generation /\ r.epoch = epoch + 1
      BY <1>0, <1>4 DEF CopyIsStale
    <3> HIDE DEF r
    <3>2. \A i \in 1..Len(<<r>>) : <<r>>[i] = r
      OBVIOUS
    <3> QED BY <3>1, <3>2
  <2> QED BY <1>1, <2>1, <2>2, ChainStepKeepsInv
<1>5. CASE /\ queue' = Append(queue, p) /\ ~CopyIsStale(ipkt)
           /\ UNCHANGED <<chainVars, request>>
  <2>1. \A i \in 1..Len(queue') :
           \/ i \in 1..Len(queue) /\ queue'[i] = queue[i]
           \/ queue'[i] = p
    BY <1>0, <1>5
  <2>2. UNCHANGED <<wpc, wpkt, wEpoch, life, generation, workerGen, decEpoch,
                    epoch, resetPending, waiting, request>>
    BY <1>5 DEF CommitPacket, lifeVars, workerVars, decoderVars, chainVars
  <2>3. QueueInv'
    BY <1>0, <1>5, <2>1, <2>2 DEF Inv, ChainInv, QueueInv, OwnerInv,
                                  WithWorker, CopyIsStale
  <2>4. OwnerInv' /\ RecoveryIsAsked'
    BY <2>2 DEF Inv, ChainInv, OwnerInv, WithWorker, RecoveryIsAsked, Running
  <2>5. ResetInv'
    BY <2>2 DEF Inv, ChainInv, ResetInv, HoldsPacket, WithWorker, ContainsIdr,
                ContainsVcl
  <2> QED BY <2>3, <2>4, <2>5 DEF ChainInv
<1>6. \/ UNCHANGED <<queueVars, chainVars, request>>
      \/ BeginHardVideoRecoveryLocked(TRUE, <<>>)
      \/ BeginHardVideoRecoveryLocked(TRUE, <<r>>) /\ ~CopyIsStale(ipkt)
      \/ /\ queue' = Append(queue, p) /\ ~CopyIsStale(ipkt)
         /\ UNCHANGED <<chainVars, request>>
  BY DEF CommitPacket
<1> QED BY <1>2, <1>3, <1>4, <1>5, <1>6

LEMMA WorkerKeepsInv ==
  ASSUME Inv,
         \/ WorkerPop \/ WorkerReset(TRUE) \/ WorkerAck \/ WorkerCheck
         \/ (\E ok \in BOOLEAN : WorkerDecode(ok)) \/ WorkerDecoded
  PROVE  ChainInv'
<1>0. TypeOK /\ OwnerInv /\ QueueInv /\ ResetInv /\ RecoveryIsAsked
  BY DEF Inv, ChainInv
<1>1. epoch \in Nat /\ wpkt.epoch \in Nat /\ queue \in Seq(Packet)
  BY <1>0 DEF TypeOK, ChainType, QueueType, WorkerType, Packet
<1> USE DEF lifeVars, queueVars, chainVars, workerVars, decoderVars
<1>2. CASE WorkerPop
  <2>1. WithWorker /\ Len(queue) > 0
    BY <1>0, <1>1, <1>2 DEF WorkerPop, OwnerInv
  <2>2. Head(queue) = queue[1] /\ Head(queue).epoch = epoch
    BY <1>0, <1>1, <2>1 DEF QueueInv
  <2>3. \A i \in 1..Len(queue') : i+1 \in 1..Len(queue) /\ queue'[i] = queue[i+1]
    BY <1>1, <1>2 DEF WorkerPop
  <2>4. UNCHANGED <<life, generation, workerGen, epoch, resetPending, waiting,
                    request, decEpoch>>
    BY <1>2 DEF WorkerPop
  <2>5. OwnerInv' /\ RecoveryIsAsked'
    BY <1>0, <2>1, <2>4 DEF OwnerInv, WithWorker, RecoveryIsAsked, Running
  <2>6. QueueInv'
    BY <1>0, <2>3, <2>4 DEF QueueInv, WithWorker
  <2>7. /\ wpc' \in {"reset", "check"} /\ wpkt' = Head(queue) /\ wEpoch' = epoch
        /\ wpc' = "reset" <=> resetPending /\ ContainsIdr(Head(queue))
    BY <1>2 DEF WorkerPop
  <2>8. ResetInv'
    BY <1>0, <1>1, <2>1, <2>2, <2>4, <2>7
       DEF ResetInv, HoldsPacket, WithWorker, ContainsIdr
  <2> QED BY <2>5, <2>6, <2>8 DEF ChainInv
<1>3. CASE WorkerReset(TRUE)
  <2>1. /\ wpc = "reset" /\ wpc' = "ack" /\ decEpoch' = wEpoch
        /\ UNCHANGED <<life, generation, workerGen, queue, epoch, resetPending,
                       waiting, request, wpkt, wEpoch>>
    BY <1>3 DEF WorkerReset
  <2>2. OwnerInv' /\ QueueInv' /\ RecoveryIsAsked'
    BY <1>0, <2>1 DEF OwnerInv, QueueInv, WithWorker, RecoveryIsAsked, Running
  <2>3. ResetInv'
    BY <1>0, <2>1 DEF ResetInv, HoldsPacket, ContainsIdr
  <2> QED BY <2>2, <2>3 DEF ChainInv
<1>4. CASE WorkerAck
  <2>1. /\ wpc = "ack" /\ wpc' = "check"
        /\ IF epoch = wEpoch THEN resetPending' = FALSE
           ELSE UNCHANGED resetPending
        /\ UNCHANGED <<life, generation, workerGen, queue, epoch, waiting,
                       request, wpkt, wEpoch, decEpoch>>
    BY <1>4 DEF WorkerAck, ResetCounts
  <2>2. OwnerInv' /\ QueueInv' /\ RecoveryIsAsked'
    BY <1>0, <2>1 DEF OwnerInv, QueueInv, WithWorker, RecoveryIsAsked, Running
  <2>3. ResetInv'
    BY <1>0, <2>1 DEF ResetInv, HoldsPacket, WithWorker, ContainsIdr
  <2> QED BY <2>2, <2>3 DEF ChainInv
<1>5. CASE WorkerCheck
  <2>1. /\ wpc = "check"
        /\ \/ wpc' = "wait"
           \/ /\ wpc' = "decode" /\ wpkt' = wpkt /\ wpkt.epoch = epoch
              /\ ~waiting \/ ~ContainsVcl(wpkt) \/ ContainsIdr(wpkt)
        /\ UNCHANGED <<life, generation, workerGen, queue, epoch, resetPending,
                       waiting, request, wEpoch, decEpoch>>
    BY <1>5 DEF WorkerCheck, PacketIsCurrent, MayDecodeWhileRecovering
  <2>2. OwnerInv' /\ QueueInv' /\ RecoveryIsAsked'
    BY <1>0, <2>1 DEF OwnerInv, QueueInv, WithWorker, RecoveryIsAsked, Running
  <2>3. ResetInv'
    BY <1>0, <2>1 DEF ResetInv, OwnerInv, HoldsPacket, WithWorker, ContainsIdr,
                      ContainsVcl
  <2> QED BY <2>2, <2>3 DEF ChainInv
<1>6. ASSUME NEW ok \in BOOLEAN, WorkerDecode(ok)
      PROVE  ChainInv'
  <2>1. /\ wpc = "decode"
        /\ \/ wpc' \in {"wait", "failed"}
           \/ wpc' = "decoded" /\ wpkt' = wpkt /\ ContainsIdr(wpkt)
        /\ UNCHANGED <<life, generation, workerGen, queue, epoch, resetPending,
                       waiting, request, wEpoch, decEpoch>>
    BY <1>6 DEF WorkerDecode
  <2>2. OwnerInv' /\ QueueInv' /\ RecoveryIsAsked'
    BY <1>0, <2>1 DEF OwnerInv, QueueInv, WithWorker, RecoveryIsAsked, Running
  <2>3. ResetInv'
    BY <1>0, <2>1 DEF ResetInv, HoldsPacket, WithWorker, ContainsIdr
  <2> QED BY <2>2, <2>3 DEF ChainInv
<1>7. CASE WorkerDecoded
  <2>1. /\ wpc = "decoded" /\ wpc' = "wait"
        /\ IF wpkt.epoch = epoch THEN waiting' = FALSE /\ request' = FALSE
           ELSE UNCHANGED <<waiting, request>>
        /\ UNCHANGED <<life, generation, workerGen, queue, epoch, resetPending,
                       wEpoch, decEpoch>>
    BY <1>7 DEF WorkerDecoded, EndsRecovery
  <2>2. OwnerInv' /\ QueueInv' /\ RecoveryIsAsked'
    BY <1>0, <2>1 DEF OwnerInv, QueueInv, WithWorker, RecoveryIsAsked, Running
  <2>3. ResetInv'
    BY <1>0, <2>1 DEF ResetInv, HoldsPacket, WithWorker
  <2> QED BY <2>2, <2>3 DEF ChainInv
<1> QED BY <1>2, <1>3, <1>4, <1>5, <1>6, <1>7

LEMMA OwnerKeepsInv ==
  ASSUME Inv, Owner \/ ClearVideoRecoveryRequest \/ UNCHANGED vars
  PROVE  ChainInv'
<1>0. TypeOK /\ OwnerInv /\ QueueInv /\ ResetInv /\ RecoveryIsAsked
  BY DEF Inv, ChainInv
<1> USE <1>0 DEF lifeVars, queueVars, chainVars, workerVars, decoderVars,
                 ChainInv, OwnerInv, QueueInv, RecoveryIsAsked, WithWorker,
                 Running, ClearedByStopWorkers, ResetInv, HoldsPacket
<1>1. CASE Initialize
  BY <1>1 DEF Initialize
<1>2. CASE InitializeFails
  BY <1>2 DEF InitializeFails
<1>3. CASE StartWorkers
  BY <1>3 DEF StartWorkers
<1>4. CASE ShutdownStop
  BY <1>4 DEF ShutdownStop, ContainsIdr, ContainsVcl
<1>5. CASE ShutdownJoin
  BY <1>5 DEF ShutdownJoin, WorkerJoined
<1>6. CASE ShutdownDestroy
  BY <1>6 DEF ShutdownDestroy
<1>7. CASE ClearVideoRecoveryRequest
  BY <1>7 DEF ClearVideoRecoveryRequest, RequestAfterClear, ContainsIdr,
              ContainsVcl
<1>8. CASE UNCHANGED vars
  BY <1>8 DEF vars, ContainsIdr, ContainsVcl
<1> QED BY <1>1, <1>2, <1>3, <1>4, <1>5, <1>6, <1>7, <1>8 DEF Owner

LEMMA InitInv == Init => Inv
<1> SUFFICES ASSUME Init PROVE Inv
  OBVIOUS
<1>1. TypeOK
  <2>1. LifeType /\ QueueType
    BY DEF Init, LifeType, QueueType
  <2>6. ChainType
    BY DEF Init, ChainType
  <2>2. FlagType /\ RendererType
    BY DEF Init, FlagType, RendererType
  <2>3. WorkerType /\ IngressType
    BY NoPacketIsPacket DEF Init, WorkerType, IngressType
  <2>4. MonitorType /\ HostType
    BY DEF Init, MonitorType, HostType
  <2>5. DecoderType
    BY DEF Init, DecoderType
  <2> QED BY <2>1, <2>2, <2>3, <2>4, <2>5, <2>6 DEF Init, TypeOK
<1>2. BytesInv
  BY TallyOfEmpty DEF Init, BytesInv
<1>3. OwnerInv /\ QueueInv /\ ResetInv /\ RecoveryIsAsked
  BY DEF Init, OwnerInv, QueueInv, ResetInv, RecoveryIsAsked, WithWorker,
         HoldsPacket, Running
<1> QED BY <1>1, <1>2, <1>3 DEF Inv, ChainInv

LEMMA InvStep == Inv /\ [Next]_vars => Inv'
<1> SUFFICES ASSUME Inv, [Next]_vars PROVE Inv'
  OBVIOUS
<1>1. TypeOK' /\ BytesInv'
  BY TypeStep DEF Inv
<1>2. CASE UNCHANGED vars
  BY <1>1, <1>2, OwnerKeepsInv DEF Inv
<1>3. CASE Ingress
  BY <1>1, <1>3, QuietSteps, QuietKeepsInv, CommitKeepsInv DEF Ingress, Inv
<1>4. CASE Worker
  <2>1. CASE \E ok \in BOOLEAN : WorkerReset(ok)
    BY <1>1, <2>1, QuietSteps, QuietKeepsInv, WorkerKeepsInv DEF Inv
  <2>2. CASE ~ \E ok \in BOOLEAN : WorkerReset(ok)
    BY <1>1, <1>4, <2>2, QuietSteps, QuietKeepsInv, WorkerKeepsInv
       DEF Worker, Inv
  <2> QED BY <2>1, <2>2
<1>5. CASE Present \/ Watchdog
  BY <1>1, <1>5, QuietSteps, QuietKeepsInv DEF Inv
<1>6. CASE Monitor
  BY <1>1, <1>6, QuietSteps, QuietKeepsInv, OwnerKeepsInv DEF Monitor, Inv
<1>7. CASE Owner
  BY <1>1, <1>7, OwnerKeepsInv DEF Inv
<1> QED BY <1>2, <1>3, <1>4, <1>5, <1>6, <1>7 DEF Next

LEMMA Invariance == Spec => []Inv
  BY InitInv, InvStep, PTL DEF Spec

(* Every variable keeps its type, and queuedBytes, which the code          *)
(* decrements without a check, never falls below zero.                     *)
THEOREM Typing == Spec => []TypeOK
<1>1. Inv => TypeOK
  BY DEF Inv
<1> QED BY <1>1, Invariance, PTL

(* No packet of an older generation or recovery epoch waits in the queue of*)
(* a running worker.                                                       *)
THEOREM QueueCurrency == Spec => []QueueIsCurrent
<1>1. Inv => QueueIsCurrent
  BY DEF Inv, ChainInv, QueueInv, QueueIsCurrent, WithWorker
<1> QED BY <1>1, Invariance, PTL

(* A frame reaches the codec only after the reset of its own epoch.        *)
THEOREM ResetOrder == Spec => []ResetPrecedesDecode
<1>1. Inv => ResetPrecedesDecode
  BY DEF Inv, ChainInv, ResetInv, ResetPrecedesDecode, ReachesCodec
<1> QED BY <1>1, Invariance, PTL

(* A pipeline that waits for an IDR has its request up.                    *)
THEOREM RecoveryAsked == Spec => []RecoveryIsAsked
<1>1. Inv => RecoveryIsAsked
  BY DEF Inv, ChainInv
<1> QED BY <1>1, Invariance, PTL

(* The worker is gone before the components are.                           *)
THEOREM WorkerOutlived == Spec => []WorkerNeedsComponents
<1>1. Inv => WorkerNeedsComponents
  BY DEF Inv, ChainInv, OwnerInv, WorkerNeedsComponents, WithWorker
<1> QED BY <1>1, Invariance, PTL

-----------------------------------------------------------------------------
(* The limits of the queue.                                                *)

BoundInv ==
  /\ QueueIsBounded
  /\ ipc = "copied" => ipkt.size <= MaxBytes

(* Steps that leave the queue alone or empty it, and copy no packet.       *)
QueueNotFed ==
  /\ (queue' = <<>> /\ queuedBytes' = 0) \/ UNCHANGED <<queue, queuedBytes>>
  /\ UNCHANGED <<ipc, ipkt>> \/ ipc' # "copied"

LEMMA RecoveryFeedsNothing ==
  RecoveryOrNot => (queue' = <<>> /\ queuedBytes' = 0)
                   \/ UNCHANGED <<queue, queuedBytes>>
  BY DEF RecoveryOrNot, BeginHardVideoRecoveryLocked, KeptBytes, queueVars

LEMMA QueueNotFedKeepsBounds ==
  BoundInv /\ QueueNotFed => BoundInv'
<1>1. MaxPackets \in Nat /\ MaxBytes \in Nat /\ Len(<<>>) = 0
  BY LimitAssumption
<1> QED BY <1>1 DEF BoundInv, QueueNotFed, QueueIsBounded

LEMMA BoundStep ==
  ASSUME TypeOK, BytesInv, BoundInv, [Next]_vars
  PROVE  BoundInv'
<1>0. /\ MaxPackets \in Nat \ {0} /\ MaxBytes \in Nat \ {0}
      /\ queue \in Seq(Packet) /\ queuedBytes \in Nat /\ ipkt.size \in Nat
      /\ Len(queue) <= MaxPackets /\ queuedBytes <= MaxBytes
  BY LimitAssumption
     DEF TypeOK, QueueType, IngressType, Packet, BoundInv, QueueIsBounded
<1>1. CASE /\ RecoveryOrNot
           /\ UNCHANGED ingressVars \/ ipc' = "idle"
  BY <1>1, RecoveryFeedsNothing, QueueNotFedKeepsBounds
     DEF QueueNotFed, ingressVars
<1>2. CASE UNCHANGED <<queueVars, ingressVars>>
  BY <1>2, QueueNotFedKeepsBounds DEF QueueNotFed, queueVars, ingressVars
<1>3. CASE ClearedByStopWorkers /\ UNCHANGED ingressVars
  BY <1>3, QueueNotFedKeepsBounds
     DEF QueueNotFed, ClearedByStopWorkers, ingressVars
<1>4. ASSUME NEW kind \in Kinds, NEW size \in Sizes, Arrive(kind, size)
      PROVE  BoundInv'
  <2>1. CASE UNCHANGED <<queueVars, chainVars, request, rendererVars, ingressVars>>
    BY <2>1, <1>2
  <2>2. CASE BeginHardVideoRecoveryLocked(TRUE, <<>>) /\ UNCHANGED ingressVars
    BY <2>2, <1>1 DEF RecoveryOrNot
  <2>3. CASE /\ ipc' = "copied" /\ ipkt' = NewFrame(kind, size)
             /\ size <= MaxBytes
             /\ UNCHANGED queueVars
    BY <1>0, <2>3 DEF BoundInv, QueueIsBounded, NewFrame, queueVars
  <2>4. \/ UNCHANGED <<queueVars, chainVars, request, rendererVars, ingressVars>>
        \/ BeginHardVideoRecoveryLocked(TRUE, <<>>) /\ UNCHANGED ingressVars
        \/ /\ ipc' = "copied" /\ ipkt' = NewFrame(kind, size)
           /\ size <= MaxBytes
           /\ UNCHANGED queueVars
    <3>1. size \in Nat /\ NewFrame(kind, size).size = size
      BY SizesAssumption DEF NewFrame
    <3>2. \/ Admission(0, 0, FALSE, NewFrame(kind, size)) = "RejectOversize"
          \/ size <= MaxBytes
      BY <1>0, <3>1 DEF Admission
    <3>3. size > MaxBytes \/ size <= MaxBytes
      BY <1>0, <3>1
    <3> HIDE DEF Admission
    <3> QED BY <1>4, <3>2, <3>3 DEF Arrive
  <2> QED BY <2>1, <2>2, <2>3, <2>4
<1>5. ASSUME NEW aged \in BOOLEAN, CommitPacket(aged)
      PROVE  BoundInv'
  <2> DEFINE p == [ipkt EXCEPT !.epoch = epoch]
             r == [ipkt EXCEPT !.epoch = epoch + 1]
  <2>1. ipc = "copied" /\ ipc' = "idle" /\ ipkt.size <= MaxBytes
    BY <1>5 DEF CommitPacket, BoundInv
  <2>2. queue = <<>> => queuedBytes = 0
    BY DEF BytesInv, IsTally
  <2>3. r.size = ipkt.size
    BY DEF TypeOK, IngressType, Packet
  <2>4. CASE UNCHANGED <<queueVars, chainVars, request, rendererVars>>
    BY <2>1, <2>4, QueueNotFedKeepsBounds DEF QueueNotFed, queueVars
  <2>5. CASE BeginHardVideoRecoveryLocked(TRUE, <<>>)
    BY <2>1, <2>5, <1>1 DEF RecoveryOrNot
  <2>6. CASE BeginHardVideoRecoveryLocked(TRUE, <<r>>)
    <3>1. \/ Len(queue') = 1 /\ queuedBytes' = ipkt.size
          \/ UNCHANGED <<queue, queuedBytes>>
      <4> HIDE DEF r
      <4>1. <<r>> # <<>> /\ <<r>>[1] = r /\ Len(<<r>>) = 1
        OBVIOUS
      <4>2. KeptBytes(<<r>>) = ipkt.size
        BY <2>3, <4>1 DEF KeptBytes
      <4> QED BY <2>6, <4>1, <4>2 DEF BeginHardVideoRecoveryLocked, queueVars
    <3>2. CASE Len(queue') = 1 /\ queuedBytes' = ipkt.size
      BY <1>0, <2>1, <3>2 DEF BoundInv, QueueIsBounded
    <3>3. CASE UNCHANGED <<queue, queuedBytes>>
      BY <1>0, <2>1, <3>3 DEF BoundInv, QueueIsBounded
    <3> QED BY <3>1, <3>2, <3>3
  <2>7. CASE /\ queue' = Append(queue, p)
             /\ queuedBytes' = queuedBytes + ipkt.size
             /\ \/ Len(queue) = 0
                \/ Len(queue) < MaxPackets /\ ipkt.size <= MaxBytes - queuedBytes
    <3>1. Len(queue') = Len(queue) + 1
      BY <1>0, <2>7
    <3>2. CASE Len(queue) = 0
      BY <1>0, <2>1, <2>2, <2>7, <3>1, <3>2 DEF BoundInv, QueueIsBounded
    <3>3. CASE Len(queue) < MaxPackets /\ ipkt.size <= MaxBytes - queuedBytes
      BY <1>0, <2>1, <2>7, <3>1, <3>3 DEF BoundInv, QueueIsBounded
    <3> QED BY <2>7, <3>2, <3>3
  <2>8. \/ UNCHANGED <<queueVars, chainVars, request, rendererVars>>
        \/ BeginHardVideoRecoveryLocked(TRUE, <<>>)
        \/ BeginHardVideoRecoveryLocked(TRUE, <<r>>)
        \/ /\ queue' = Append(queue, p)
           /\ queuedBytes' = queuedBytes + ipkt.size
           /\ \/ Len(queue) = 0
              \/ Len(queue) < MaxPackets /\ ipkt.size <= MaxBytes - queuedBytes
    <3>1. \/ Admission(Len(queue), queuedBytes, aged, ipkt) # "Accept"
          \/ Len(queue) = 0
          \/ Len(queue) < MaxPackets /\ ipkt.size <= MaxBytes - queuedBytes
      BY <1>0 DEF Admission
    <3>2. \/ RealtimeCapacityExceeded(ipkt)
          \/ Len(queue) = 0
          \/ Len(queue) < MaxPackets /\ ipkt.size <= MaxBytes - queuedBytes
      BY <1>0 DEF RealtimeCapacityExceeded
    <3> QED BY <1>5, <3>1, <3>2 DEF CommitPacket
  <2> QED BY <2>4, <2>5, <2>6, <2>7, <2>8
<1>6. CASE WorkerPop
  <2>1. /\ Len(queue') <= Len(queue) /\ queuedBytes' = queuedBytes - Head(queue).size
        /\ Head(queue) \in Packet /\ UNCHANGED ingressVars
    BY <1>0, <1>6 DEF WorkerPop
  <2>2. Head(queue).size \in Nat
    BY <2>1 DEF Packet
  <2>3. Len(queue') \in Nat
    BY <1>0, <1>6 DEF WorkerPop
  <2> QED BY <1>0, <2>1, <2>2, <2>3 DEF BoundInv, QueueIsBounded, ingressVars
<1>7. CASE NewSourceBegin
  BY <1>7, QueueNotFedKeepsBounds DEF NewSourceBegin, QueueNotFed, queueVars
<1>8. CASE NewSourceEnd
  BY <1>8, <1>1 DEF NewSourceEnd, RecoveryOrNot
<1>9. CASE WorkerAgeOut \/ WorkerAgeAfterPop \/ WorkerDecodeFailed
  BY <1>9, <1>1 DEF WorkerAgeOut, WorkerAgeAfterPop, WorkerDecodeFailed,
                    RecoveryOrNot
<1>10. CASE \/ WorkerExit \/ WorkerTakeRenderer \/ WorkerRendererBegin
            \/ (\E ok \in BOOLEAN : WorkerRendererEnd(ok))
            \/ (\E ok \in BOOLEAN : WorkerReset(ok)) \/ WorkerAck
  BY <1>10, <1>2 DEF WorkerExit, WorkerTakeRenderer, WorkerRendererBegin,
                     WorkerRendererEnd, WorkerReset, WorkerAck
<1>11. CASE \/ WorkerCheck \/ (\E ok \in BOOLEAN : WorkerDecode(ok))
            \/ WorkerDecoded \/ LatePresentSuccess \/ RendererRecoveryClaim
            \/ RendererRecoveryWake \/ Monitor
  BY <1>11, <1>2 DEF WorkerCheck, WorkerDecode, WorkerDecoded,
                     LatePresentSuccess, RendererRecoveryClaim,
                     RendererRecoveryWake, Monitor, MonitorAsk,
                     ClearVideoRecoveryRequest
<1>12. CASE PresentFault \/ \E reset \in BOOLEAN : RequestVideoRecovery(reset)
  BY <1>12, <1>1 DEF PresentFault, RequestVideoRecovery, RecoveryOrNot
<1>13. CASE Initialize \/ ShutdownStop \/ ShutdownDestroy
  BY <1>13, <1>2 DEF Initialize, ShutdownStop, ShutdownDestroy
<1>14. CASE InitializeFails \/ StartWorkers \/ ShutdownJoin
  BY <1>14, <1>3 DEF InitializeFails, StartWorkers, ShutdownJoin
<1>15. CASE UNCHANGED vars
  BY <1>15, <1>2 DEF vars
<1> QED
  BY <1>4, <1>5, <1>6, <1>7, <1>8, <1>9, <1>10, <1>11, <1>12, <1>13, <1>14,
     <1>15 DEF Next, Ingress, Worker, Present, Watchdog, Owner

(* The queue never holds more packets or bytes than its limits allow.      *)
THEOREM Boundedness == Spec => []QueueIsBounded
<1>1. Init => BoundInv
  BY LimitAssumption DEF Init, BoundInv, QueueIsBounded
<1>2. Inv /\ BoundInv /\ [Next]_vars => BoundInv'
  BY BoundStep DEF Inv
<1>3. BoundInv => QueueIsBounded
  BY DEF BoundInv
<1> QED BY <1>1, <1>2, <1>3, Invariance, PTL DEF Spec

(* The byte counter never falls below zero and the queue keeps its limits. *)
THEOREM QueueIsSafe == Spec => []QueueSafety
<1>1. TypeOK /\ QueueIsBounded => QueueSafety
  BY DEF QueueSafety
<1> QED BY <1>1, Typing, Boundedness, PTL

-----------------------------------------------------------------------------
(* Every frame after m and up to n is among those in gone.                 *)
Missing(m, n, gone) == m <= n /\ m + 1 .. n \subseteq gone

(* p comes after the frame n, and nothing but what is gone lies in between:*)
(* parameter sets have the number of the frame before them.                *)
Follows(p, n, gone) ==
  Missing(n, IF ContainsVcl(p) THEN p.seq - 1 ELSE p.seq, gone)

(* A copy of the running pipeline, and one that outlived a restart.        *)
FreshCopy == ipc = "copied" /\ ipkt.gen = generation
StaleCopy == ipc = "copied" /\ ipkt.gen # generation

(* What is queued and copied after the frame n is all the host has sent    *)
(* since, but for what is gone.                                            *)
SentSince(n) ==
  IF FreshCopy THEN Follows(ipkt, n, lost) /\ ipkt.seq = seq
  ELSE Missing(n, seq, lost)
LineFrom(n) ==
  IF queue # <<>> THEN Follows(queue[1], n, lost) ELSE SentSince(n)

(* The queue is a line, but for what is gone, that ends with what the host *)
(* has sent last or with the frame in flight.                              *)
LineInv ==
  life = "up" =>
    /\ \A i \in 1..Len(queue) - 1 : Follows(queue[i+1], queue[i].seq, lost)
    /\ queue # <<>> => SentSince(queue[Len(queue)].seq)
    /\ FreshCopy => ipkt.seq = seq

(* A copy is of this generation or of one that has been shut down; the     *)
(* worker that has started since has nothing yet.                          *)
CopyInv ==
  /\ ipc = "copied" => ipkt.gen <= generation
  /\ ipc = "copied" /\ life \in {"down", "starting"} => ipkt.gen < generation
  /\ life = "starting" => ~decReady
  /\ life = "up" /\ StaleCopy =>
       queue = <<>> /\ ~decReady /\ wpc \in {"wait", "renderer", "handoff"}

(* What the worker holds goes before what waits, unless a recovery has     *)
(* begun since.                                                            *)
HeldInv ==
  life = "up" /\ HoldsPacket =>
    /\ wpkt.gen = workerGen
    /\ wpkt.epoch # epoch => waiting
    /\ wpkt.epoch = epoch => LineFrom(wpkt.seq)
    /\ wpc = "decoded" /\ decReady => decRef = wpkt.seq

(* Without a recovery, what comes next goes after what has been decoded.   *)
DecodedInv ==
  life = "up" /\ ~waiting /\ decReady =>
    /\ wpc \in {"check", "decode"} => Follows(wpkt, decRef, lost)
    /\ wpc \in {"wait", "renderer", "handoff"} => LineFrom(decRef)

(* The inductive invariant of the frame numbers: the host numbers frames   *)
(* one by one, so a hole is a gap that is not in lost in the line from what has been decoded   *)
(* over what the worker holds, the queue and the copy to the last one sent.*)
NumberInv == LineInv /\ CopyInv /\ HeldInv /\ DecodedInv /\ NoHoleInChain

(* The realtime queue.                                                     *)
Realtime == ~Bounded

(* The acts of each thread; the choices of time and outcome are arguments. *)
IngressActs(aged) ==
  CommitPacket(aged) \/ NewSourceBegin \/ NewSourceEnd
WorkerActs(ok) ==
  \/ WorkerExit \/ WorkerAgeOut \/ WorkerTakeRenderer \/ WorkerRendererBegin
  \/ WorkerRendererEnd(ok) \/ WorkerPop \/ WorkerReset(ok) \/ WorkerAck
  \/ WorkerAgeAfterPop \/ WorkerCheck \/ WorkerDecode(ok) \/ WorkerDecoded
  \/ WorkerDecodeFailed
RequestActs(reset) ==
  \/ PresentFault \/ LatePresentSuccess \/ RendererRecoveryClaim
  \/ RendererRecoveryWake \/ RequestVideoRecovery(reset) \/ MonitorAsk
  \/ ClearVideoRecoveryRequest

(* How gaps begin, grow and join.                                          *)
LEMMA NothingMissing == ASSUME NEW n \in Nat, NEW g PROVE Missing(n, n, g)
<1>1. n + 1 .. n = {}
  OBVIOUS
<1> QED BY <1>1 DEF Missing

LEMMA OneMoreMissing ==
  ASSUME NEW m \in Nat, NEW n \in Nat, NEW g, Missing(m, n, g)
  PROVE  Missing(m, n + 1, g \cup {n + 1})
<1>1. m + 1 .. n + 1 \subseteq (m + 1 .. n) \cup {n + 1}
  OBVIOUS
<1> QED BY <1>1 DEF Missing

LEMMA MissingJoins ==
  ASSUME NEW l \in Nat, NEW m \in Nat, NEW n \in Nat, NEW g,
         Missing(l, m, g), Missing(m, n, g)
  PROVE  Missing(l, n, g)
<1>1. l + 1 .. n \subseteq (l + 1 .. m) \cup (m + 1 .. n)
  OBVIOUS
<1> QED BY <1>1 DEF Missing

LEMMA MoreMissing ==
  ASSUME NEW g, NEW h, g \subseteq h
  PROVE  /\ \A m, n : Missing(m, n, g) => Missing(m, n, h)
         /\ \A q, n : Follows(q, n, g) => Follows(q, n, h)
BY DEF Missing, Follows

(* What follows a frame follows all those before it up to a gap.           *)
LEMMA FollowsAcross ==
  ASSUME NEW l \in Nat, NEW m \in Nat, NEW q, q.seq \in Nat, NEW g,
         Missing(l, m, g), Follows(q, m, g)
  PROVE  Follows(q, l, g)
<1>1. CASE ContainsVcl(q)
  <2>1. m <= q.seq - 1 /\ q.seq - 1 \in Nat
    BY <1>1 DEF Follows, Missing
  <2> QED BY <1>1, <2>1, MissingJoins DEF Follows
<1>2. CASE ~ContainsVcl(q)
  BY <1>2, MissingJoins DEF Follows
<1> QED BY <1>1, <1>2

(* In a running pipeline a frame that arrives is the last of the line, or  *)
(* is gone.                                                                *)
LEMMA ArrivalStep ==
  ASSUME Inv, LineInv, CopyInv, Realtime, life = "up",
         NEW kind \in Kinds, NEW size \in Sizes, Arrive(kind, size)
  PROVE  /\ UNCHANGED <<life, generation, workerGen, queue, epoch, waiting, wpc, wpkt,
                        decReady, decRef>>
         /\ lost \subseteq lost'
         /\ LineInv' /\ \A n \in Nat : LineFrom(n) => LineFrom(n)'
<1> DEFINE p == NewFrame(kind, size)
<1>1. /\ ipc = "idle" /\ seq' = p.seq
      /\ UNCHANGED <<life, generation, workerGen, queue, epoch, waiting, wpc, wpkt,
                     decReady, decRef>>
      /\ \/ ipc' = "copied" /\ ipkt' = p /\ lost' = lost
         \/ UNCHANGED <<ipc, ipkt>> /\ lost' = Gone(p)
  BY DEF Arrive, HostSends, Realtime, Running, NewFrame, lifeVars, queueVars,
         chainVars, workerVars, decoderVars, ingressVars
<1>2. /\ p.gen = generation
      /\ p.seq = (IF ContainsVcl(p) THEN seq + 1 ELSE seq)
      /\ lost \subseteq lost' /\ seq \in Nat
  BY <1>1 DEF NewFrame, ContainsVcl, Gone, Inv, TypeOK, HostType
<1> HIDE DEF p
<1>3. ~FreshCopy
  BY <1>1 DEF FreshCopy
<1>4. \A n \in Nat : SentSince(n) => SentSince(n)'
  <2> SUFFICES ASSUME NEW n \in Nat, SentSince(n) PROVE SentSince(n)'
    OBVIOUS
  <2>1. Missing(n, seq, lost)
    BY <1>3 DEF SentSince
  <2>2. CASE ipc' = "copied" /\ ipkt' = p /\ lost' = lost
    <3>1. FreshCopy'
      BY <1>1, <1>2, <2>2 DEF FreshCopy
    <3>2. Follows(p, n, lost)
      BY <1>2, <2>1 DEF Follows
    <3> QED BY <1>1, <2>2, <3>1, <3>2 DEF SentSince
  <2>3. CASE UNCHANGED <<ipc, ipkt>> /\ lost' = Gone(p)
    <3>1. ~FreshCopy'
      BY <1>1, <2>3 DEF FreshCopy
    <3>2. Missing(n, seq', lost')
      <4>1. CASE ContainsVcl(p)
        BY <1>1, <1>2, <2>1, <2>3, <4>1, OneMoreMissing DEF Gone
      <4>2. CASE ~ContainsVcl(p)
        BY <1>1, <1>2, <2>1, <2>3, <4>2 DEF Gone
      <4> QED BY <4>1, <4>2
    <3> QED BY <3>1, <3>2 DEF SentSince
  <2> QED BY <1>1, <2>2, <2>3
<1>5. \A q, n : Follows(q, n, lost) => Follows(q, n, lost')
  BY <1>2, MoreMissing
<1>6. \A n \in Nat : LineFrom(n) => LineFrom(n)'
  BY <1>1, <1>4, <1>5 DEF LineFrom
<1>7. queue # <<>> => queue[Len(queue)].seq \in Nat
  <2>1. \A q \in Packet : q.seq \in Nat
    BY DEF Packet
  <2>2. queue # <<>> => queue[Len(queue)] \in Packet
    BY DEF Inv, TypeOK, QueueType
  <2> QED BY <2>1, <2>2
<1>8. LineInv'
  <2>1. \A i \in 1..Len(queue) - 1 : Follows(queue[i+1], queue[i].seq, lost')
    BY <1>5 DEF LineInv
  <2>2. queue # <<>> => SentSince(queue[Len(queue)].seq)
    BY DEF LineInv
  <2>3. FreshCopy' => ipkt'.seq = seq'
    BY <1>1, <1>3 DEF FreshCopy
  <2> QED BY <1>1, <1>4, <1>7, <2>1, <2>2, <2>3 DEF LineInv
<1> QED BY <1>1, <1>2, <1>6, <1>8

(* What comes after a frame comes after all those before it up to a gap.   *)
LEMMA LineAcross ==
  ASSUME Inv, NEW l \in Nat, NEW m \in Nat, Missing(l, m, lost), LineFrom(m)
  PROVE  LineFrom(l)
<1>1. /\ queue # <<>> => queue[1].seq \in Nat
      /\ ipkt.seq \in Nat /\ seq \in Nat
  <2>1. \A q \in Packet : q.seq \in Nat
    BY DEF Packet
  <2>2. queue # <<>> => queue[1] \in Packet
    BY DEF Inv, TypeOK, QueueType
  <2>3. ipkt \in Packet /\ seq \in Nat
    BY DEF Inv, TypeOK, IngressType, HostType
  <2> QED BY <2>1, <2>2, <2>3
<1>2. SentSince(m) => SentSince(l)
  BY <1>1, FollowsAcross, MissingJoins DEF SentSince
<1> QED BY <1>1, <1>2, FollowsAcross DEF LineFrom

(* The copy is queued as the last of the line, or a recovery begins, or it *)
(* has outlived its pipeline.                                              *)
LEMMA CommitStep ==
  ASSUME Inv, LineInv, CopyInv, Realtime, life = "up",
         NEW aged \in BOOLEAN, CommitPacket(aged)
  PROVE  /\ UNCHANGED <<life, generation, workerGen, wpc, wpkt, decReady, decRef, lost>>
         /\ LineInv' /\ ipc' = "idle"
         /\ \/ waiting' /\ epoch' = epoch + 1
            \/ /\ UNCHANGED <<waiting, epoch>>
               /\ (FreshCopy => \A n \in Nat : LineFrom(n) => LineFrom(n)')
<1> DEFINE p == [ipkt EXCEPT !.epoch = epoch]
           r == [ipkt EXCEPT !.epoch = epoch + 1]
<1>1. /\ ipc = "copied" /\ ipc' = "idle"
      /\ UNCHANGED <<life, generation, workerGen, wpc, wpkt, decReady, decRef, seq,
                     lost>>
      /\ seq \in Nat
  BY DEF Inv, TypeOK, HostType, CommitPacket, lifeVars, workerVars, decoderVars, hostVars
<1>2. \/ ipkt.gen # generation /\ UNCHANGED <<queue, epoch, waiting>>
      \/ /\ ipkt.gen = generation /\ queue' = Append(queue, p)
         /\ UNCHANGED <<epoch, waiting>>
      \/ /\ ipkt.gen = generation /\ queue' \in {<<>>, <<r>>}
         /\ epoch' = epoch + 1 /\ waiting'
  BY DEF CommitPacket, CopyIsStale, Realtime, Running, WorkerStop, RecoveryStarts,
         BeginHardVideoRecoveryLocked, queueVars, chainVars
<1>3. /\ p \in Packet /\ p.seq = ipkt.seq /\ p.kind = ipkt.kind
      /\ r \in Packet /\ r.seq = ipkt.seq
  BY DEF Inv, TypeOK, IngressType, ChainType, Packet
<1>4. queue \in Seq(Packet) /\ \A i \in 1..Len(queue) : queue[i].seq \in Nat
  <2>1. \A q \in Packet : q.seq \in Nat
    BY DEF Packet
  <2>2. queue \in Seq(Packet) /\ \A i \in 1..Len(queue) : queue[i] \in Packet
    BY DEF Inv, TypeOK, QueueType
  <2> QED BY <2>1, <2>2
<1>5. ~FreshCopy' /\ (FreshCopy <=> ipkt.gen = generation)
  BY <1>1 DEF FreshCopy
<1> HIDE DEF p, r
<1>6. CASE ipkt.gen # generation /\ UNCHANGED <<queue, epoch, waiting>>
  BY <1>1, <1>5, <1>6 DEF LineInv, CopyInv, StaleCopy
<1>7. CASE /\ ipkt.gen = generation /\ queue' = Append(queue, p)
           /\ UNCHANGED <<epoch, waiting>>
  <2>1. /\ Len(queue') = Len(queue) + 1 /\ queue'[Len(queue) + 1] = p
        /\ \A i \in 1..Len(queue) : queue'[i] = queue[i]
        /\ queue' # <<>>
    BY <1>3, <1>4, <1>7
  <2>2. \A n \in Nat : SentSince(n) => Follows(p, n, lost) /\ p.seq = seq
    BY <1>3, <1>5, <1>7 DEF SentSince, Follows, ContainsVcl
  <2>3. \A n \in Nat : LineFrom(n) => Follows(queue'[1], n, lost)
    BY <1>4, <2>1, <2>2 DEF LineFrom
  <2>4. \A n \in Nat : LineFrom(n) => LineFrom(n)'
    BY <1>1, <2>1, <2>3 DEF LineFrom
  <2>5. \A i \in 1..Len(queue') - 1 : Follows(queue'[i+1], queue'[i].seq, lost)
    <3> TAKE i \in 1..Len(queue') - 1
    <3>1. CASE i = Len(queue)
      <4>1. queue # <<>> /\ queue'[i+1] = p /\ queue'[i] = queue[Len(queue)]
        BY <1>4, <2>1, <3>1
      <4>2. SentSince(queue[Len(queue)].seq) /\ queue[Len(queue)].seq \in Nat
        BY <1>4, <4>1 DEF LineInv
      <4> QED BY <2>2, <4>1, <4>2
    <3>2. CASE i # Len(queue)
      <4>1. i \in 1..Len(queue) - 1 /\ i \in 1..Len(queue) /\ i + 1 \in 1..Len(queue)
        BY <1>4, <2>1, <3>2
      <4> QED BY <2>1, <4>1 DEF LineInv
    <3> QED BY <3>1, <3>2
  <2>6. queue'[Len(queue')].seq = seq'
    BY <1>1, <1>3, <1>5, <1>7, <2>1 DEF LineInv
  <2>7. LineInv'
    BY <1>1, <1>5, <2>5, <2>6, NothingMissing DEF LineInv, SentSince
  <2> QED BY <1>1, <1>7, <2>4, <2>7
<1>8. CASE /\ ipkt.gen = generation /\ queue' \in {<<>>, <<r>>}
           /\ epoch' = epoch + 1 /\ waiting'
  <2>1. Len(<<>>) = 0 /\ Len(<<r>>) = 1
    OBVIOUS
  <2>2. queue' # <<>> => queue'[Len(queue')].seq = seq'
    BY <1>1, <1>3, <1>5, <1>8 DEF LineInv
  <2>3. \A i \in 1..Len(queue') - 1 : FALSE
    <3>1. Len(queue') \in 0..1
      BY <1>8, <2>1
    <3>2. \A n \in 0..1 : 1..n-1 = {}
      OBVIOUS
    <3> QED BY <3>1, <3>2
  <2>4. LineInv'
    BY <1>1, <1>5, <2>2, <2>3, NothingMissing DEF LineInv, SentSince
  <2> QED BY <1>1, <1>8, <2>4
<1> QED BY <1>2, <1>6, <1>7, <1>8

(* The worker takes the first of the line.                                 *)
LEMMA PopStep ==
  ASSUME Inv, LineInv, life = "up", WorkerPop
  PROVE  /\ LineInv' /\ wpkt'.gen = workerGen /\ wpkt'.epoch = epoch
         /\ LineFrom(wpkt.seq)'
         /\ \A n \in Nat : LineFrom(n) => Follows(wpkt', n, lost)
         /\ wpc = "wait" /\ wpc' \in {"reset", "check"}
         /\ wpc' = "reset" => waiting
         /\ UNCHANGED <<life, generation, workerGen, epoch, waiting, decReady, decRef, lost>>
<1>1. /\ wpkt' = Head(queue) /\ queue' = Tail(queue) /\ queue # <<>>
      /\ UNCHANGED <<life, generation, workerGen, epoch, waiting, decReady, decRef, seq,
                     lost, ipc, ipkt>>
      /\ wpc = "wait" /\ wpc' \in {"reset", "check"} /\ (wpc' = "reset" => resetPending)
  BY DEF WorkerPop, lifeVars, chainVars, ingressVars, hostVars, decoderVars
<1>2. queue \in Seq(Packet)
  BY DEF Inv, TypeOK, QueueType
<1>3. /\ wpkt' = queue[1] /\ Len(queue) \in Nat /\ Len(queue) >= 1
      /\ Len(queue') = Len(queue) - 1
      /\ \A i \in 1..Len(queue') : queue'[i] = queue[i+1]
      /\ (queue' # <<>> <=> Len(queue) > 1)
  <2> DEFINE q == queue
             tl == Tail(q)
  <2>1. q \in Seq(Packet) /\ q # <<>>
    BY <1>1, <1>2
  <2> HIDE DEF q
  <2>2. /\ Head(q) = q[1] /\ Len(q) \in Nat /\ Len(q) >= 1
    BY <2>1
  <2>3. tl \in Seq(Packet) /\ Len(tl) = Len(q) - 1
    BY <2>1
  <2>4. \A i \in 1..Len(tl) : tl[i] = q[i+1]
    BY <2>1
  <2>5. tl # <<>> <=> Len(q) > 1
    <3> HIDE DEF tl
    <3>1. tl # <<>> <=> Len(tl) > 0
      BY <2>3
    <3> QED BY <2>2, <2>3, <3>1
  <2> QED BY <1>1, <2>2, <2>3, <2>4, <2>5 DEF q
<1>4. wpkt'.gen = workerGen /\ wpkt'.epoch = epoch
  <2>1. 1 \in 1..Len(queue)
    BY <1>3
  <2> QED BY <1>3, <2>1 DEF Inv, ChainInv, QueueInv, WithWorker
<1>5. SentSince(queue[Len(queue)].seq) /\ (FreshCopy => ipkt.seq = seq)
  BY <1>1 DEF LineInv
<1>6. \A i \in 1..Len(queue) - 1 : Follows(queue[i+1], queue[i].seq, lost)
  BY DEF LineInv
<1>7. \A i \in 1..Len(queue') - 1 : Follows(queue'[i+1], queue'[i].seq, lost)
  <2> TAKE i \in 1..Len(queue') - 1
  <2>1. /\ i \in 1..Len(queue') /\ i + 1 \in 1..Len(queue') /\ i + 1 \in 1..Len(queue) - 1
    BY <1>3
  <2> QED BY <1>3, <1>6, <2>1
<1>8. queue' # <<>> => queue'[Len(queue')] = queue[Len(queue)]
  BY <1>3
<1>9. LineInv'
  BY <1>1, <1>5, <1>7, <1>8 DEF LineInv, SentSince, FreshCopy
<1>10. LineFrom(wpkt.seq)'
  <2>1. CASE Len(queue) > 1
    <3>1. queue' # <<>> /\ 1 \in 1..Len(queue) - 1 /\ queue'[1] = queue[2]
      BY <1>3, <2>1
    <3>2. Follows(queue[2], queue[1].seq, lost)
      BY <1>6, <3>1
    <3> QED BY <1>1, <1>3, <3>1, <3>2 DEF LineFrom
  <2>2. CASE ~(Len(queue) > 1)
    <3>1. queue' = <<>> /\ Len(queue) = 1
      BY <1>3, <2>2
    <3> QED BY <1>1, <1>3, <1>5, <3>1 DEF LineFrom, SentSince, FreshCopy
  <2> QED BY <2>1, <2>2
<1>11. \A n \in Nat : LineFrom(n) => Follows(wpkt', n, lost)
  BY <1>1, <1>3 DEF LineFrom
<1>12. resetPending => waiting
  BY DEF Inv, ChainInv, ResetInv
<1> QED BY <1>1, <1>4, <1>9, <1>10, <1>11, <1>12

(* A frame is sent and copied.                                             *)
LEMMA ArriveNumbers ==
  ASSUME Inv, NumberInv, Realtime, NEW kind \in Kinds, NEW size \in Sizes
  PROVE  Arrive(kind, size) => NumberInv'
<1> USE DEF Inv, NumberInv, Realtime, lifeVars, queueVars, chainVars, rendererVars,
           workerVars, ingressVars, monitorVars, hostVars, decoderVars, Arrive,
           BeginHardVideoRecoveryLocked, RecoveryStarts, Running, WorkerStop, Fault,
           HostSends, NewFrame, Gone
<1>1. Arrive(kind, size) => LineInv'
  <2>1. CASE life = "up"
    BY <2>1, ArrivalStep
  <2>2. CASE life # "up"
    BY <2>2 DEF LineInv
  <2> QED BY <2>1, <2>2
<1>2. Arrive(kind, size) => CopyInv'
  BY DEF CopyInv, StaleCopy, TypeOK, LifeType
<1>3. Arrive(kind, size) => HeldInv'
  <2>1. CASE life = "up"
    <3>1. wpkt.seq \in Nat /\ decRef \in Nat
      BY DEF TypeOK, WorkerType, DecoderType, Packet
    <3> HIDE DEF Arrive
    <3> QED BY <2>1, <3>1, ArrivalStep DEF HeldInv, HoldsPacket
  <2>2. CASE life # "up"
    BY <2>2 DEF HeldInv
  <2> QED BY <2>1, <2>2
<1>4. Arrive(kind, size) => DecodedInv'
  <2>1. CASE life = "up"
    <3>1. wpkt.seq \in Nat /\ decRef \in Nat
      BY DEF TypeOK, WorkerType, DecoderType, Packet
    <3>2. lost \subseteq lost' => (Follows(wpkt, decRef, lost) => Follows(wpkt, decRef, lost'))
      BY MoreMissing
    <3> HIDE DEF Arrive
    <3> QED BY <2>1, <3>1, <3>2, ArrivalStep DEF DecodedInv
  <2>2. CASE life # "up"
    BY <2>2 DEF DecodedInv
  <2> QED BY <2>1, <2>2
<1>5. Arrive(kind, size) => NoHoleInChain'
  BY DEF NoHoleInChain
<1> QED
  BY <1>1, <1>2, <1>3, <1>4, <1>5

(* The copy is queued, or the source changes.                              *)
LEMMA CommitNumbers ==
  ASSUME Inv, NumberInv, Realtime, NEW aged \in BOOLEAN
  PROVE  IngressActs(aged) => NumberInv'
<1> USE DEF Inv, NumberInv, Realtime, lifeVars, queueVars, chainVars, rendererVars,
           workerVars, ingressVars, monitorVars, hostVars, decoderVars, CommitPacket,
           NewSourceBegin, NewSourceEnd, BeginHardVideoRecoveryLocked, RecoveryStarts,
           Running, WorkerStop, Fault, IngressActs, Admission,
           RealtimeCapacityExceeded, CopyIsStale
<1>1. IngressActs(aged) => LineInv'
  <2>1. CommitPacket(aged) => LineInv'
    <3>1. CASE life = "up"
      BY <3>1, CommitStep
    <3>2. CASE life # "up"
      BY <3>2 DEF LineInv
    <3> QED BY <3>1, <3>2
  <2>2. NewSourceBegin => LineInv'
    BY DEF LineInv, FreshCopy, SentSince
  <2>3. NewSourceEnd => LineInv'
    BY DEF LineInv, FreshCopy
  <2> HIDE DEF CommitPacket, NewSourceBegin, NewSourceEnd
  <2> QED BY <2>1, <2>2, <2>3
<1>2. IngressActs(aged) => CopyInv'
  BY DEF CopyInv, StaleCopy
<1>3. IngressActs(aged) => HeldInv'
  <2>1. CommitPacket(aged) => HeldInv'
    <3>1. CASE life = "up"
      <4>1. wpkt.seq \in Nat /\ decRef \in Nat
        BY DEF TypeOK, WorkerType, DecoderType, Packet
      <4>2. HoldsPacket => wpkt.epoch # epoch + 1
        BY DEF ChainInv, ResetInv, TypeOK, ChainType
      <4>3. CommitPacket(aged) => FreshCopy \/ StaleCopy
        BY DEF FreshCopy, StaleCopy
      <4> HIDE DEF CommitPacket
      <4> QED BY <3>1, <4>1, <4>2, <4>3, CommitStep DEF HeldInv, CopyInv, HoldsPacket
    <3>2. CASE life # "up"
      BY <3>2 DEF HeldInv
    <3> QED BY <3>1, <3>2
  <2>2. NewSourceBegin => HeldInv'
    BY DEF HeldInv, HoldsPacket, FreshCopy, SentSince, LineFrom
  <2>3. NewSourceEnd => HeldInv'
    BY DEF HeldInv, HoldsPacket, ChainInv, ResetInv, TypeOK, ChainType
  <2> HIDE DEF CommitPacket, NewSourceBegin, NewSourceEnd
  <2> QED BY <2>1, <2>2, <2>3
<1>4. IngressActs(aged) => DecodedInv'
  <2>1. CommitPacket(aged) => DecodedInv'
    <3>1. CASE life = "up"
      <4>1. wpkt.seq \in Nat /\ decRef \in Nat
        BY DEF TypeOK, WorkerType, DecoderType, Packet
      <4>3. CommitPacket(aged) => FreshCopy \/ StaleCopy
        BY DEF FreshCopy, StaleCopy
      <4> HIDE DEF CommitPacket
      <4> QED BY <3>1, <4>1, <4>3, CommitStep DEF DecodedInv, CopyInv
    <3>2. CASE life # "up"
      BY <3>2 DEF DecodedInv
    <3> QED BY <3>1, <3>2
  <2>2. NewSourceBegin => DecodedInv'
    BY DEF DecodedInv, FreshCopy, SentSince, LineFrom
  <2>3. NewSourceEnd => DecodedInv'
    BY DEF DecodedInv
  <2> HIDE DEF CommitPacket, NewSourceBegin, NewSourceEnd
  <2> QED BY <2>1, <2>2, <2>3
<1>5. IngressActs(aged) => NoHoleInChain'
  BY DEF NoHoleInChain
<1> QED
  BY <1>1, <1>2, <1>3, <1>4, <1>5

(* The worker takes, resets, checks and decodes.                           *)
LEMMA WorkerNumbers ==
  ASSUME Inv, NumberInv, Realtime, NEW ok \in BOOLEAN
  PROVE  WorkerActs(ok) => NumberInv'
<1> USE DEF Inv, NumberInv, Realtime, lifeVars, queueVars, chainVars, rendererVars,
           workerVars, ingressVars, monitorVars, hostVars, decoderVars, WorkerExit,
           WorkerAgeOut, WorkerTakeRenderer, WorkerRendererBegin, WorkerRendererEnd,
           WorkerPop, WorkerReset, WorkerAck, WorkerAgeAfterPop, WorkerCheck,
           WorkerDecode, WorkerDecoded, WorkerDecodeFailed,
           BeginHardVideoRecoveryLocked, RecoveryStarts, Running, WorkerStop, Fault,
           WorkerActs, ResetCounts, EndsRecovery, SetsAfter, GateOpens, ReachesCodec,
           PacketIsCurrent, MayDecodeWhileRecovering
<1>1. WorkerActs(ok) => LineInv'
  <2>1. WorkerExit \/ WorkerAgeOut \/ WorkerAgeAfterPop => LineInv'
    BY DEF LineInv
  <2>2. WorkerTakeRenderer \/ WorkerRendererBegin \/ WorkerRendererEnd(ok)
        \/ WorkerReset(ok) \/ WorkerAck \/ WorkerCheck \/ WorkerDecode(ok)
        \/ WorkerDecoded => LineInv'
    BY DEF LineInv, FreshCopy, SentSince
  <2>3. WorkerPop => LineInv'
    <3>1. CASE life = "up"
      <4> HIDE DEF WorkerPop
      <4> QED BY <3>1, PopStep
    <3>2. CASE life # "up"
      BY <3>2 DEF LineInv
    <3> QED BY <3>1, <3>2
  <2>4. WorkerDecodeFailed => LineInv'
    BY DEF LineInv, FreshCopy
  <2> HIDE DEF WorkerExit, WorkerAgeOut, WorkerTakeRenderer, WorkerRendererBegin,
         WorkerRendererEnd, WorkerPop, WorkerReset, WorkerAck, WorkerAgeAfterPop,
         WorkerCheck, WorkerDecode, WorkerDecoded, WorkerDecodeFailed
  <2> QED BY <2>1, <2>2, <2>3, <2>4
<1>2. WorkerActs(ok) => CopyInv'
  <2>1. WorkerExit => CopyInv'
    BY DEF CopyInv
  <2>2. WorkerAgeOut \/ WorkerAgeAfterPop => CopyInv'
    OBVIOUS
  <2>3. WorkerTakeRenderer \/ WorkerRendererBegin \/ WorkerRendererEnd(ok)
        \/ WorkerPop \/ WorkerReset(ok) \/ WorkerAck \/ WorkerCheck \/ WorkerDecoded
        \/ WorkerDecodeFailed => CopyInv'
    BY DEF CopyInv, StaleCopy
  <2>4. WorkerDecode(ok) => CopyInv'
    BY DEF CopyInv, StaleCopy, ChainInv, OwnerInv, WithWorker
  <2> HIDE DEF WorkerExit, WorkerAgeOut, WorkerTakeRenderer, WorkerRendererBegin,
         WorkerRendererEnd, WorkerPop, WorkerReset, WorkerAck, WorkerAgeAfterPop,
         WorkerCheck, WorkerDecode, WorkerDecoded, WorkerDecodeFailed
  <2> QED BY <2>1, <2>2, <2>3, <2>4
<1>3. WorkerActs(ok) => HeldInv'
  <2>1. WorkerExit \/ WorkerAgeOut \/ WorkerTakeRenderer \/ WorkerRendererBegin
        \/ WorkerRendererEnd(ok) \/ WorkerAgeAfterPop \/ WorkerDecoded
        \/ WorkerDecodeFailed => HeldInv'
    BY DEF HeldInv, HoldsPacket
  <2>2. WorkerPop => HeldInv'
    <3>1. CASE life = "up"
      <4> HIDE DEF WorkerPop
      <4> QED BY <3>1, PopStep DEF HeldInv
    <3>2. CASE life # "up"
      BY <3>2 DEF HeldInv
    <3> QED BY <3>1, <3>2
  <2>3. WorkerReset(ok) => HeldInv'
    <3>1. WorkerReset(ok) => /\ wpc = "reset"
                             /\ wpc' = "wait" \/ (wpc' = "ack" /\ wpkt' = wpkt)
                             /\ UNCHANGED <<life, generation, workerGen, queue, epoch,
                                            waiting, ipc, ipkt, seq, lost>>
      OBVIOUS
    <3> HIDE DEF WorkerReset
    <3> QED BY <3>1 DEF HeldInv, HoldsPacket, LineFrom, SentSince, FreshCopy
  <2>4. WorkerAck \/ WorkerCheck => HeldInv'
    BY DEF HeldInv, HoldsPacket, FreshCopy, SentSince, LineFrom
  <2>5. WorkerDecode(ok) => HeldInv'
    <3>1. WorkerDecode(ok) =>
            /\ wpc = "decode"
            /\ \/ wpc' = "wait" /\ ~ContainsIdr(wpkt)
               \/ wpc' = "failed"
               \/ wpc' = "decoded" /\ wpkt' = wpkt /\ ContainsIdr(wpkt)
            /\ wpc' # "failed" /\ ContainsVcl(wpkt) /\ decReady' => decRef' = wpkt.seq
            /\ ~ContainsVcl(wpkt) => (decReady' => decReady) /\ decRef' = decRef
            /\ UNCHANGED <<life, generation, workerGen, queue, epoch, waiting, ipc, ipkt,
                           seq, lost>>
      OBVIOUS
    <3>2. ContainsIdr(wpkt) => ContainsVcl(wpkt)
      BY DEF ContainsIdr, ContainsVcl
    <3> HIDE DEF WorkerDecode
    <3> QED BY <3>1, <3>2 DEF HeldInv, HoldsPacket, LineFrom, SentSince, FreshCopy
  <2> HIDE DEF WorkerExit, WorkerAgeOut, WorkerTakeRenderer, WorkerRendererBegin,
         WorkerRendererEnd, WorkerPop, WorkerReset, WorkerAck, WorkerAgeAfterPop,
         WorkerCheck, WorkerDecode, WorkerDecoded, WorkerDecodeFailed
  <2> QED BY <2>1, <2>2, <2>3, <2>4, <2>5
<1>4. WorkerActs(ok) => DecodedInv'
  <2>1. WorkerExit \/ WorkerAgeOut \/ WorkerReset(ok) \/ WorkerAck
        \/ WorkerAgeAfterPop \/ WorkerDecodeFailed => DecodedInv'
    BY DEF DecodedInv, HeldInv, ChainInv, ResetInv
  <2>2. WorkerTakeRenderer \/ WorkerRendererBegin \/ WorkerRendererEnd(ok)
        \/ WorkerDecoded => DecodedInv'
    BY DEF DecodedInv, HeldInv, HoldsPacket, FreshCopy, SentSince, LineFrom
  <2>3. WorkerPop => DecodedInv'
    <3>1. CASE life = "up"
      <4>1. decRef \in Nat
        BY DEF TypeOK, DecoderType
      <4> HIDE DEF WorkerPop
      <4> QED BY <3>1, <4>1, PopStep DEF DecodedInv
    <3>2. CASE life # "up"
      BY <3>2 DEF DecodedInv
    <3> QED BY <3>1, <3>2
  <2>4. WorkerCheck => DecodedInv'
    <3>1. WorkerCheck => /\ wpc = "check"
                         /\ \/ wpc' = "decode" /\ wpkt' = wpkt
                            \/ wpc' = "wait" /\ ~(PacketIsCurrent(wpkt) /\ ~waiting)
                         /\ UNCHANGED <<life, waiting, decReady, decRef, lost>>
      OBVIOUS
    <3>2. WorkerCheck /\ life = "up" /\ ~waiting => PacketIsCurrent(wpkt)
      BY DEF HeldInv, HoldsPacket, ChainInv, OwnerInv
    <3>3. WorkerCheck => ~(life' = "up" /\ ~waiting' /\ wpc' = "wait")
      BY <3>2
    <3> HIDE DEF WorkerCheck, PacketIsCurrent
    <3>4. WorkerCheck /\ life' = "up" /\ ~waiting' /\ decReady'
            => Follows(wpkt, decRef, lost)' /\ wpc' = "decode"
      BY <3>1, <3>3 DEF DecodedInv
    <3> QED BY <3>4 DEF DecodedInv
  <2>5. WorkerDecode(ok) => DecodedInv'
    <3>1. WorkerDecode(ok) =>
            /\ wpc = "decode"
            /\ \/ wpc' = "wait" /\ ~ContainsIdr(wpkt)
               \/ wpc' = "failed"
               \/ wpc' = "decoded" /\ wpkt' = wpkt /\ ContainsIdr(wpkt)
            /\ wpc' # "failed" /\ ContainsVcl(wpkt) /\ decReady' => decRef' = wpkt.seq
            /\ ~ContainsVcl(wpkt) => (decReady' => decReady) /\ decRef' = decRef
            /\ UNCHANGED <<life, generation, workerGen, queue, epoch, waiting, ipc, ipkt,
                           seq, lost>>
      OBVIOUS
    <3> HIDE DEF WorkerDecode
    <3>3. life = "up" /\ ~waiting /\ wpc = "decode" => LineFrom(wpkt.seq)
      BY DEF HeldInv, HoldsPacket
    <3>4. life = "up" /\ ~waiting /\ wpc = "decode" /\ decReady /\ ~ContainsVcl(wpkt)
            => Missing(decRef, wpkt.seq, lost)
      BY DEF DecodedInv, Follows
    <3>5. /\ wpkt.seq \in Nat /\ decRef \in Nat
          /\ Missing(wpkt.seq, wpkt.seq, lost)
      BY NothingMissing DEF TypeOK, WorkerType, DecoderType, Packet
    <3>6. WorkerDecode(ok) /\ life' = "up" /\ ~waiting' /\ decReady' /\ wpc' = "wait"
            => /\ LineFrom(wpkt.seq) /\ Missing(decRef', wpkt.seq, lost)
               /\ decRef' \in Nat
      BY <3>1, <3>3, <3>4, <3>5
    <3>7. WorkerDecode(ok) /\ life' = "up" /\ ~waiting' /\ decReady' /\ wpc' = "wait"
            => LineFrom(decRef')
      BY <3>5, <3>6, LineAcross
    <3>8. WorkerDecode(ok) /\ LineFrom(decRef') => LineFrom(decRef)'
      BY <3>1 DEF LineFrom, SentSince, FreshCopy
    <3> QED BY <3>1, <3>7, <3>8 DEF DecodedInv
  <2> HIDE DEF WorkerExit, WorkerAgeOut, WorkerTakeRenderer, WorkerRendererBegin,
         WorkerRendererEnd, WorkerPop, WorkerReset, WorkerAck, WorkerAgeAfterPop,
         WorkerCheck, WorkerDecode, WorkerDecoded, WorkerDecodeFailed
  <2> QED BY <2>1, <2>2, <2>3, <2>4, <2>5
<1>5. WorkerActs(ok) => NoHoleInChain'
  <2>1. WorkerExit \/ WorkerAgeOut \/ WorkerTakeRenderer \/ WorkerRendererBegin
        \/ WorkerRendererEnd(ok) \/ WorkerPop \/ WorkerReset(ok) \/ WorkerAck
        \/ WorkerAgeAfterPop \/ WorkerDecode(ok) \/ WorkerDecoded
        \/ WorkerDecodeFailed => NoHoleInChain'
    BY DEF NoHoleInChain
  <2>2. WorkerCheck => NoHoleInChain'
    <3>1. decRef \in Nat /\ wpkt.seq \in Nat
      BY DEF TypeOK, WorkerType, DecoderType, Packet
    <3>2. Follows(wpkt, decRef, lost) /\ wpkt.kind = "p" =>
            decRef < wpkt.seq /\ decRef + 1 .. wpkt.seq - 1 \subseteq lost
      BY <3>1 DEF Follows, Missing, ContainsVcl
    <3> QED
      BY <3>2 DEF NoHoleInChain, DecodedInv, ChainInv, OwnerInv, WithWorker,
                  ContainsIdr, ContainsVcl
  <2> HIDE DEF WorkerExit, WorkerAgeOut, WorkerTakeRenderer, WorkerRendererBegin,
         WorkerRendererEnd, WorkerPop, WorkerReset, WorkerAck, WorkerAgeAfterPop,
         WorkerCheck, WorkerDecode, WorkerDecoded, WorkerDecodeFailed
  <2> QED BY <2>1, <2>2
<1> QED
  BY <1>1, <1>2, <1>3, <1>4, <1>5

(* Recoveries and requests of the other threads.                           *)
LEMMA RequestNumbers ==
  ASSUME Inv, NumberInv, Realtime, NEW reset \in BOOLEAN
  PROVE  RequestActs(reset) => NumberInv'
<1> USE DEF Inv, NumberInv, Realtime, lifeVars, queueVars, chainVars, rendererVars,
           workerVars, ingressVars, monitorVars, hostVars, decoderVars, PresentFault,
           LatePresentSuccess, RendererRecoveryClaim, RendererRecoveryWake,
           RequestVideoRecovery, MonitorAsk, ClearVideoRecoveryRequest,
           BeginHardVideoRecoveryLocked, RecoveryStarts, Running, WorkerStop, Fault,
           RequestActs
<1>1. RequestActs(reset) => LineInv'
  <2>1. PresentFault => LineInv'
    BY DEF LineInv, FreshCopy
  <2>2. LatePresentSuccess \/ RendererRecoveryClaim \/ RendererRecoveryWake
        \/ MonitorAsk \/ ClearVideoRecoveryRequest => LineInv'
    BY DEF LineInv, FreshCopy, SentSince
  <2>3. RequestVideoRecovery(reset) => LineInv'
    <3>1. RequestVideoRecovery(reset) =>
            /\ \/ UNCHANGED <<queue, epoch, waiting>>
               \/ queue' = <<>> /\ waiting' /\ epoch' = epoch + 1
            /\ UNCHANGED <<life, generation, workerGen, wpc, wpkt, ipc, ipkt, seq, lost,
                           decReady, decRef>>
      OBVIOUS
    <3> HIDE DEF RequestVideoRecovery
    <3> QED BY <3>1 DEF LineInv, SentSince, FreshCopy
  <2> HIDE DEF PresentFault, LatePresentSuccess, RendererRecoveryClaim,
         RendererRecoveryWake, RequestVideoRecovery, MonitorAsk,
         ClearVideoRecoveryRequest
  <2> QED BY <2>1, <2>2, <2>3
<1>2. RequestActs(reset) => CopyInv'
  BY DEF CopyInv, StaleCopy
<1>3. RequestActs(reset) => HeldInv'
  <2>1. PresentFault => HeldInv'
    BY DEF HeldInv, HoldsPacket, ChainInv, ResetInv, TypeOK, ChainType
  <2>2. LatePresentSuccess => HeldInv'
    BY DEF HeldInv, HoldsPacket, FreshCopy, SentSince, LineFrom
  <2>3. RendererRecoveryClaim => HeldInv'
    BY DEF HeldInv, HoldsPacket, FreshCopy, SentSince, LineFrom
  <2>4. RendererRecoveryWake => HeldInv'
    BY DEF HeldInv, HoldsPacket, FreshCopy, SentSince, LineFrom
  <2>5. RequestVideoRecovery(reset) => HeldInv'
    <3>1. RequestVideoRecovery(reset) =>
            /\ \/ UNCHANGED <<queue, epoch, waiting>>
               \/ queue' = <<>> /\ waiting' /\ epoch' = epoch + 1
            /\ UNCHANGED <<life, generation, workerGen, wpc, wpkt, ipc, ipkt, seq, lost,
                           decReady, decRef>>
      OBVIOUS
    <3>2. HoldsPacket => wpkt.epoch # epoch + 1
      BY DEF ChainInv, ResetInv, TypeOK, ChainType
    <3> HIDE DEF RequestVideoRecovery
    <3> QED BY <3>1, <3>2 DEF HeldInv, HoldsPacket, LineFrom, SentSince, FreshCopy
  <2>6. MonitorAsk => HeldInv'
    BY DEF HeldInv, HoldsPacket, FreshCopy, SentSince, LineFrom
  <2>7. ClearVideoRecoveryRequest => HeldInv'
    BY DEF HeldInv, HoldsPacket, FreshCopy, SentSince, LineFrom
  <2> HIDE DEF PresentFault, LatePresentSuccess, RendererRecoveryClaim,
         RendererRecoveryWake, RequestVideoRecovery, MonitorAsk,
         ClearVideoRecoveryRequest
  <2> QED BY <2>1, <2>2, <2>3, <2>4, <2>5, <2>6, <2>7
<1>4. RequestActs(reset) => DecodedInv'
  <2>1. PresentFault => DecodedInv'
    BY DEF DecodedInv
  <2>2. LatePresentSuccess => DecodedInv'
    BY DEF DecodedInv, FreshCopy, SentSince, LineFrom
  <2>3. RendererRecoveryClaim => DecodedInv'
    BY DEF DecodedInv, FreshCopy, SentSince, LineFrom
  <2>4. RendererRecoveryWake => DecodedInv'
    BY DEF DecodedInv, FreshCopy, SentSince, LineFrom
  <2>5. RequestVideoRecovery(reset) => DecodedInv'
    BY DEF DecodedInv, FreshCopy, SentSince, LineFrom
  <2>6. MonitorAsk => DecodedInv'
    BY DEF DecodedInv, FreshCopy, SentSince, LineFrom
  <2>7. ClearVideoRecoveryRequest => DecodedInv'
    BY DEF DecodedInv, FreshCopy, SentSince, LineFrom
  <2> HIDE DEF PresentFault, LatePresentSuccess, RendererRecoveryClaim,
         RendererRecoveryWake, RequestVideoRecovery, MonitorAsk,
         ClearVideoRecoveryRequest
  <2> QED BY <2>1, <2>2, <2>3, <2>4, <2>5, <2>6, <2>7
<1>5. RequestActs(reset) => NoHoleInChain'
  BY DEF NoHoleInChain
<1> QED
  BY <1>1, <1>2, <1>3, <1>4, <1>5

(* initialize and shutdown.                                                *)
LEMMA OwnerNumbers ==
  ASSUME Inv, NumberInv, Realtime
  PROVE  Owner => NumberInv'
<1> USE DEF Inv, NumberInv, Realtime, lifeVars, queueVars, chainVars, rendererVars,
           workerVars, ingressVars, monitorVars, hostVars, decoderVars, Initialize,
           InitializeFails, StartWorkers, ShutdownStop, ShutdownJoin, ShutdownDestroy,
           BeginHardVideoRecoveryLocked, RecoveryStarts, Running, WorkerStop, Fault,
           Owner, ClearedByStopWorkers, WorkerJoined
<1>1. Owner => LineInv'
  <2>1. Initialize \/ InitializeFails \/ ShutdownStop \/ ShutdownJoin
        \/ ShutdownDestroy => LineInv'
    BY DEF LineInv
  <2>2. StartWorkers => LineInv'
    BY DEF LineInv, CopyInv, FreshCopy, TypeOK, LifeType
  <2> HIDE DEF Initialize, InitializeFails, StartWorkers, ShutdownStop, ShutdownJoin,
         ShutdownDestroy
  <2> QED BY <2>1, <2>2
<1>2. Owner => CopyInv'
  <2>1. Initialize \/ InitializeFails \/ ShutdownDestroy => CopyInv'
    BY DEF CopyInv, TypeOK, LifeType, IngressType, Packet
  <2>2. StartWorkers \/ ShutdownStop \/ ShutdownJoin => CopyInv'
    BY DEF CopyInv
  <2> HIDE DEF Initialize, InitializeFails, StartWorkers, ShutdownStop, ShutdownJoin,
         ShutdownDestroy
  <2> QED BY <2>1, <2>2
<1>3. Owner => HeldInv'
  BY DEF HeldInv, HoldsPacket
<1>4. Owner => DecodedInv'
  BY DEF DecodedInv, CopyInv
<1>5. Owner => NoHoleInChain'
  BY DEF NoHoleInChain
<1> QED
  BY <1>1, <1>2, <1>3, <1>4, <1>5

(* Every step keeps the line whole where no recovery has been asked for.   *)
LEMMA NumberStep ==
  ASSUME Realtime
  PROVE  Inv /\ NumberInv /\ [Next]_vars => NumberInv'
<1> SUFFICES ASSUME Inv, NumberInv, [Next]_vars PROVE NumberInv'
  OBVIOUS
<1>1. CASE Ingress
  <2>1. ASSUME NEW kind \in Kinds, NEW size \in Sizes, Arrive(kind, size)
        PROVE  NumberInv'
    BY <2>1, ArriveNumbers
  <2>2. ASSUME NEW aged \in BOOLEAN, CommitPacket(aged)
        PROVE  NumberInv'
    BY <2>2, CommitNumbers DEF IngressActs
  <2>3. CASE NewSourceBegin \/ NewSourceEnd
    <3>1. TRUE \in BOOLEAN
      OBVIOUS
    <3> QED BY <2>3, <3>1, CommitNumbers DEF IngressActs
  <2> QED BY <1>1, <2>1, <2>2, <2>3 DEF Ingress
<1>2. CASE Worker
  BY <1>2, WorkerNumbers, TRUE \in BOOLEAN DEF Worker, WorkerActs
<1>3. CASE Present \/ Watchdog \/ Monitor
  BY <1>3, RequestNumbers, TRUE \in BOOLEAN DEF Present, Watchdog, Monitor, RequestActs
<1>4. CASE Owner
  BY <1>4, OwnerNumbers
<1>5. CASE UNCHANGED vars
  BY <1>5 DEF vars, lifeVars, queueVars, chainVars, workerVars, ingressVars, hostVars,
              decoderVars, NumberInv, LineInv, CopyInv, HeldInv, DecodedInv, NoHoleInChain,
              HoldsPacket, LineFrom, SentSince, FreshCopy, StaleCopy, Follows, ContainsVcl
<1> QED BY <1>1, <1>2, <1>3, <1>4, <1>5 DEF Next

(* At the start nothing has been sent.                                     *)
LEMMA InitNumber == Init => NumberInv
  BY DEF Init, NumberInv, LineInv, CopyInv, HeldInv, DecodedInv, NoHoleInChain,
         HoldsPacket, FreshCopy, StaleCopy, NoPacket

(* The realtime queue never leaves a hole in the decoder's chain: between  *)
(* the decoder's last frame and a dependent frame that the worker is about *)
(* to decode there are only frames that were refused for their size or     *)
(* could not be copied, whatever was dropped, reset or restarted before.   *)
THEOREM NoHoles ==
  ASSUME Realtime
  PROVE  Spec => []NoHoleInChain
<1>1. NumberInv => NoHoleInChain
  BY DEF NumberInv
<1>2. Inv /\ NumberInv /\ [Next]_vars => NumberInv'
  BY NumberStep
<1> QED
  BY <1>1, <1>2, InitNumber, Invariance, PTL DEF Spec
=============================================================================
