----------------------------- MODULE MediaVideo -----------------------------
(***************************************************************************)
(* The video half of src/src/stream/media_pipeline.cpp: the bounded queue  *)
(* of encoded access units, the recovery epoch that discards a broken      *)
(* reference chain, the worker thread that resets the decoder before the   *)
(* recovery IDR, and the start, shutdown and source changes around them.   *)
(*                                                                         *)
(* Threads and their program counters:                                     *)
(*   ingress   the transport's video callback, and prepareForNewVideoSource*)
(*             (both run on the stream owner's thread): ipc                *)
(*   worker    videoWorkerLoop and processVideoPacket: wpc                 *)
(*   watchdog  requestRendererRecovery: upc                                *)
(*   monitor   the session loop that asks the host for an IDR: mpc         *)
(*   owner     initialize and shutdown: life                               *)
(*   UI        presentVideoFrame, one step                                 *)
(* An action is what a thread does between two synchronisation points: one *)
(* section under video_queue_mutex_, or one access to the decoder.         *)
(***************************************************************************)
EXTENDS Integers, Sequences

CONSTANTS
  Bounded,         \* BoundedLowLatency (PlayStation) or RealtimeQueued (Xbox)
  Kinds,           \* the kinds of access unit the host sends
  Sizes,           \* the sizes of access units, in units of memory
  MaxPackets,      \* video_queue_limits_.max_packets, kMaxVideoQueuePackets
  MaxBytes,        \* video_queue_limits_.max_bytes, kMaxVideoQueueBytes
  MaxFrames,       \* bound: unsolicited frames the host sends
  MaxFaults,       \* bound: faults (decode, GPU, age, loss, copy)
  MaxSources,      \* bound: encoded video sources of a behaviour
  MaxGenerations   \* bound: calls of initialize

(* "set" is parameter sets alone, "idr" a random-access unit that carries  *)
(* its parameter sets, "bare" one that does not, "p" a dependent unit.     *)
AllKinds == {"set", "idr", "bare", "p"}

ASSUME ModeAssumption  == Bounded \in BOOLEAN
ASSUME KindsAssumption == Kinds \subseteq AllKinds
ASSUME SizesAssumption == Sizes \subseteq Nat \ {0}
ASSUME LimitAssumption == /\ MaxPackets \in Nat \ {0}
                          /\ MaxBytes \in Nat \ {0}
ASSUME BoundAssumption == /\ MaxFrames \in Nat
                          /\ MaxFaults \in Nat
                          /\ MaxSources \in Nat
                          /\ MaxGenerations \in Nat

VARIABLES
  life,             \* where initialize and shutdown are
  generation,       \* generation_
  workerGen,        \* video_worker_generation_
  queue,            \* video_queue_
  queuedBytes,      \* queued_video_bytes_
  epoch,            \* video_recovery_epoch_
  resetPending,     \* video_decoder_reset_pending_
  waiting,          \* video_waiting_for_keyframe_
  request,          \* video_recovery_request_
  newSourcePending, \* video_new_source_pending_
  rPending,         \* video_renderer_recovery_pending_
  rWakeup,          \* video_renderer_recovery_wakeup_
  rInProgress,      \* video_renderer_recovery_in_progress_
  wpc, wpkt,        \* the worker, and the packet it holds
  wNewSource,       \* its local reset_new_source
  wEpoch,           \* its local reset_epoch
  ipc, ipkt,        \* the ingress thread, and the packet it copied
  upc,              \* the watchdog inside requestRendererRecovery
  mpc,              \* the monitor between its request and the clear
  asked,            \* the host owes an IDR
  seq,              \* frames the host has sent
  src,              \* the source the host's frames come from
  setsSent,         \* this source has sent its parameter sets
  lost,             \* history: frames that were refused for their size or
                    \* could not be copied, without a recovery
  decReady,         \* decoder_ready_
  decSets,          \* source of the parameter sets seen, 0 for none
  decSrc,           \* source the decoder's state stems from, 0 after a flush
  decRef,           \* number of the last frame decoded, 0 after a flush
  decEpoch,         \* recovery epoch the decoder was last reset for
  faults            \* faults so far

lifeVars     == <<life, generation, workerGen>>
queueVars    == <<queue, queuedBytes>>
chainVars    == <<epoch, resetPending, waiting>>
rendererVars == <<rPending, rWakeup, rInProgress>>
workerVars   == <<wpc, wpkt, wNewSource, wEpoch>>
ingressVars  == <<ipc, ipkt>>
monitorVars  == <<mpc, asked>>
hostVars     == <<seq, src, setsSent, lost>>
decoderVars  == <<decReady, decSets, decSrc, decRef, decEpoch>>
vars == <<lifeVars, queueVars, chainVars, request, newSourcePending,
          rendererVars, workerVars, ingressVars, upc, monitorVars, hostVars,
          decoderVars, faults>>

Packet == [kind : AllKinds, size : Nat, seq : Nat, src : Nat, gen : Nat,
           epoch : Nat]
NoPacket == [kind |-> "set", size |-> 0, seq |-> 0, src |-> 0, gen |-> 0,
             epoch |-> 0]

ContainsIdr(p) == p.kind \in {"idr", "bare"}
ContainsVcl(p) == p.kind # "set"

(* Seeded faults: plausible mistakes in the operators of the same name     *)
(* below; no action uses them.                                             *)
LifecycleHeldByJoin == ipc # "newSource" /\ life # "joining"
KeptBytesForgotten(kept) == 0
CopyNeverStale(p) == FALSE
AnyIdrEndsRecovery(p) == TRUE
RequestAlwaysCleared == FALSE
WorkerNotJoined == TRUE
AdmissionOffByOne(packets, bytes, aged, p) ==
  IF p.size > MaxBytes THEN "RejectOversize"
  ELSE IF waiting /\ ContainsVcl(p) /\ ~ContainsIdr(p) THEN "DropDependent"
  ELSE IF packets > 0 /\ aged THEN "RecoverAge"
  ELSE IF packets > MaxPackets \/ p.size > MaxBytes - bytes
       THEN "RecoverOverflow"
  ELSE "Accept"

(* running_ and video_worker_stop_ are functions of the owner's progress;  *)
(* lifecycle_mutex_ is held across two steps only by a source change.      *)
Running       == life \in {"starting", "up"}
WorkerStop    == life = "joining"
LifecycleFree == ipc # "newSource"

Init ==
  /\ life = "down" /\ generation = 0 /\ workerGen = 0
  /\ queue = <<>> /\ queuedBytes = 0
  /\ epoch = 0 /\ resetPending = FALSE /\ waiting = FALSE
  /\ request = FALSE /\ newSourcePending = FALSE
  /\ rPending = FALSE /\ rWakeup = FALSE /\ rInProgress = FALSE
  /\ wpc = "exited" /\ wpkt = NoPacket /\ wNewSource = FALSE /\ wEpoch = 0
  /\ ipc = "idle" /\ ipkt = NoPacket
  /\ upc = "idle" /\ mpc = "idle" /\ asked = FALSE
  /\ seq = 0 /\ src = 1 /\ setsSent = FALSE /\ lost = {}
  /\ decReady = FALSE /\ decSets = 0 /\ decSrc = 0 /\ decRef = 0
  /\ decEpoch = 0
  /\ faults = 0

Fault == faults < MaxFaults /\ faults' = faults + 1

-----------------------------------------------------------------------------
(* The recovery policy of bounded_video_queue_policy.h.                    *)

Admission(packets, bytes, aged, p) ==
  IF p.size > MaxBytes THEN "RejectOversize"
  ELSE IF waiting /\ ContainsVcl(p) /\ ~ContainsIdr(p) THEN "DropDependent"
  ELSE IF packets > 0 /\ aged THEN "RecoverAge"
  ELSE IF /\ packets > 0
          /\ packets >= MaxPackets \/ p.size > MaxBytes - bytes
       THEN "RecoverOverflow"
  ELSE "Accept"

RealtimeCapacityExceeded(p) ==
  /\ Len(queue) > 0
  /\ Len(queue) >= MaxPackets \/ p.size > MaxBytes - queuedBytes

(* Seeded fault: a pending request is taken for a recovery under way.      *)
RecoverySkippedIfAsked(force) == Running /\ ~WorkerStop /\ ~request

RecoveryStarts(force) == Running /\ ~WorkerStop /\ (force \/ ~waiting)

KeptBytes(kept) == IF kept = <<>> THEN 0 ELSE kept[1].size

(* Ask for an IDR and, unless a recovery is already under way and this one *)
(* is not forced, start a new epoch: all that is queued belongs to a broken*)
(* chain.  "kept" is what the caller queues under the same lock.           *)
BeginHardVideoRecoveryLocked(force, kept) ==
  /\ request' = TRUE
  /\ IF RecoveryStarts(force)
     THEN /\ queue' = kept
          /\ queuedBytes' = KeptBytes(kept)
          /\ epoch' = epoch + 1
          /\ resetPending' = TRUE
          /\ waiting' = TRUE
          /\ rPending' = FALSE
          /\ rWakeup' = FALSE
     ELSE UNCHANGED <<queueVars, chainVars, rPending, rWakeup>>
  /\ UNCHANGED rInProgress

-----------------------------------------------------------------------------
(* Ingress: enqueueVideoPacket.                                            *)

NewFrame(kind, size) ==
  [kind |-> kind, size |-> size,
   seq |-> IF kind = "set" THEN seq ELSE seq + 1,
   src |-> src, gen |-> generation, epoch |-> 0]

(* The host sends its parameter sets before the frames that need them; its *)
(* frames are bounded except for the IDR it was asked for.                 *)
HostSends(kind, size) ==
  /\ kind \in Kinds
  /\ kind = "bare" => setsSent
  /\ kind = "set" => ~setsSent
  /\ \/ seq < MaxFrames
     \/ asked /\ kind # "p" /\ size <= MaxBytes
  /\ seq' = IF kind = "set" THEN seq ELSE seq + 1
  /\ setsSent' = IF kind = "p" THEN setsSent ELSE kind = "set"
  /\ asked' = (asked /\ kind \notin {"idr", "bare"})
  /\ UNCHANGED <<src, mpc>>

(* Snapshot of the generation and the bounded mode's check before copying. *)
(* A unit above the realtime limit is refused and a copy that cannot be    *)
(* allocated is given up: the caller ignores the result, so that the frame *)
(* is gone and nothing is recovered.                                       *)
Gone(p) == IF ContainsVcl(p) THEN lost \cup {p.seq} ELSE lost

Arrive(kind, size) ==
  LET p == NewFrame(kind, size)
      precheck == IF Bounded THEN Admission(0, 0, FALSE, p) ELSE "Accept"
      refused == ~Bounded /\ size > MaxBytes
  IN
  /\ life \in {"up", "joining", "joined"} /\ ipc = "idle"
  /\ HostSends(kind, size)
  /\ IF ~Running \/ precheck = "DropDependent" \/ refused
     THEN /\ lost' = IF refused THEN Gone(p) ELSE lost
          /\ UNCHANGED <<queueVars, chainVars, request, rendererVars,
                         ingressVars, faults>>
     ELSE IF precheck = "RejectOversize"
     THEN /\ BeginHardVideoRecoveryLocked(TRUE, <<>>)
          /\ UNCHANGED <<ingressVars, lost, faults>>
     ELSE /\ \/ ipc' = "copied" /\ ipkt' = p /\ UNCHANGED <<lost, faults>>
             \/ lost' = Gone(p) /\ Fault /\ UNCHANGED ingressVars
          /\ UNCHANGED <<queueVars, chainVars, request, rendererVars>>
  /\ UNCHANGED <<lifeVars, newSourcePending, workerVars, upc, decoderVars>>

(* The pipeline was shut down, and maybe started again, during the copy.   *)
CopyIsStale(p) == p.gen # generation

(* The locked section that admits the copied packet or starts a recovery.  *)
CommitPacket(aged) ==
  LET p == ipkt
      admission == IF Bounded THEN Admission(Len(queue), queuedBytes, aged, p)
                   ELSE IF RealtimeCapacityExceeded(p) THEN "RecoverOverflow"
                   ELSE "Accept"
  IN
  /\ ipc = "copied"
  /\ ipc' = "idle" /\ ipkt' = NoPacket
  /\ IF aged THEN Bounded /\ queue # <<>> /\ Fault ELSE UNCHANGED faults
  /\ IF ~Running \/ WorkerStop \/ CopyIsStale(p)
          \/ admission = "DropDependent"
     THEN UNCHANGED <<queueVars, chainVars, request, rendererVars>>
     ELSE IF admission = "Accept"
     THEN /\ queue' = Append(queue, [p EXCEPT !.epoch = epoch])
          /\ queuedBytes' = queuedBytes + p.size
          /\ UNCHANGED <<chainVars, request, rendererVars>>
     ELSE BeginHardVideoRecoveryLocked(TRUE,
            IF ContainsIdr(p) /\ admission # "RejectOversize"
            THEN <<[p EXCEPT !.epoch = epoch + 1]>> ELSE <<>>)
  /\ UNCHANGED <<lifeVars, newSourcePending, workerVars, upc, monitorVars,
                 hostVars, decoderVars>>

(* prepareForNewVideoSource holds lifecycle_mutex_ throughout; the flag is *)
(* raised before beginHardVideoRecovery takes the queue lock.  The caller  *)
(* has quiesced the old transport: frames come from the new source next.   *)
NewSourceBegin ==
  /\ Running /\ life = "up" /\ ipc = "idle" /\ src < MaxSources
  /\ ipc' = "newSource"
  /\ rPending' = FALSE /\ rWakeup' = FALSE
  /\ newSourcePending' = TRUE
  /\ UNCHANGED <<lifeVars, queueVars, chainVars, request, rInProgress,
                 workerVars, ipkt, upc, monitorVars, hostVars, decoderVars,
                 faults>>

NewSourceEnd ==
  /\ ipc = "newSource"
  /\ ipc' = "idle"
  /\ IF Running THEN BeginHardVideoRecoveryLocked(TRUE, <<>>)
     ELSE UNCHANGED <<queueVars, chainVars, request, rendererVars>>
  /\ src' = src + 1 /\ setsSent' = FALSE
  /\ UNCHANGED <<lifeVars, newSourcePending, workerVars, ipkt, upc,
                 monitorVars, seq, lost, decoderVars, faults>>

-----------------------------------------------------------------------------
(* The worker: videoWorkerLoop.                                            *)

WorkerExit ==
  /\ wpc = "wait" /\ WorkerStop
  /\ wpc' = "exited"
  /\ UNCHANGED <<lifeVars, queueVars, chainVars, request, newSourcePending,
                 rendererVars, wpkt, wNewSource, wEpoch, ingressVars, upc,
                 monitorVars, hostVars, decoderVars, faults>>

(* The oldest packet has waited for max_age: drop it and all behind it.    *)
WorkerAgeOut ==
  /\ wpc = "wait" /\ ~WorkerStop
  /\ Bounded /\ queue # <<>> /\ Fault
  /\ BeginHardVideoRecoveryLocked(TRUE, <<>>)
  /\ UNCHANGED <<lifeVars, newSourcePending, workerVars, ingressVars, upc,
                 monitorVars, hostVars, decoderVars>>

WorkerTakeRenderer ==
  /\ wpc = "wait" /\ ~WorkerStop
  /\ rWakeup
  /\ rWakeup' = FALSE
  /\ wpc' = "renderer"
  /\ UNCHANGED <<lifeVars, queueVars, chainVars, request, newSourcePending,
                 rPending, rInProgress, wpkt, wNewSource, wEpoch, ingressVars,
                 upc, monitorVars, hostVars, decoderVars, faults>>

WorkerRendererBegin ==
  /\ wpc = "renderer"
  /\ wpc' = "handoff"
  /\ rInProgress' = TRUE
  /\ UNCHANGED <<lifeVars, queueVars, chainVars, request, newSourcePending,
                 rPending, rWakeup, wpkt, wNewSource, wEpoch, ingressVars,
                 upc, monitorVars, hostVars, decoderVars, faults>>

(* prepareDecoderReset retires the GPU's slices, or times out.             *)
WorkerRendererEnd(ok) ==
  /\ wpc = "handoff"
  /\ wpc' = "wait"
  /\ IF ok THEN rPending' = FALSE /\ UNCHANGED faults
     ELSE Fault /\ UNCHANGED rPending
  /\ rInProgress' = FALSE
  /\ UNCHANGED <<lifeVars, queueVars, chainVars, request, newSourcePending,
                 rWakeup, wpkt, wNewSource, wEpoch, ingressVars, upc,
                 monitorVars, hostVars, decoderVars>>

WorkerPop ==
  /\ wpc = "wait" /\ ~WorkerStop
  /\ ~rWakeup /\ queue # <<>>
  /\ wpkt' = Head(queue)
  /\ queue' = Tail(queue)
  /\ queuedBytes' = queuedBytes - Head(queue).size
  /\ wNewSource' = newSourcePending
  /\ wEpoch' = epoch
  /\ wpc' = IF resetPending /\ ContainsIdr(Head(queue)) THEN "reset" ELSE "check"
  /\ UNCHANGED <<lifeVars, chainVars, request, newSourcePending, rendererVars,
                 ingressVars, upc, monitorVars, hostVars, decoderVars, faults>>

(* resetVideoDecoderForKeyframe: the parameter sets survive a reset within *)
(* a source, a new source forgets them.  If the GPU handoff fails, or the  *)
(* parser cannot be reopened after the flush, the IDR is given up and      *)
(* another one asked for.                                                  *)
WorkerReset(ok) ==
  /\ wpc = "reset"
  /\ IF ok
     THEN /\ wpc' = "ack"
          /\ decReady' = FALSE
          /\ decRef' = 0
          /\ decEpoch' = wEpoch
          /\ decSets' = IF wNewSource THEN 0 ELSE decSets
          /\ decSrc' = IF wNewSource THEN 0 ELSE decSrc
          /\ UNCHANGED <<request, faults, wpkt>>
     ELSE /\ Fault
          /\ wpc' = "wait" /\ wpkt' = NoPacket
          /\ request' = TRUE
          /\ \/ UNCHANGED <<decReady, decRef>>
             \/ decReady' = FALSE /\ decRef' = 0
          /\ UNCHANGED <<decSets, decSrc, decEpoch>>
  /\ UNCHANGED <<lifeVars, queueVars, chainVars, newSourcePending,
                 rendererVars, wNewSource, wEpoch, ingressVars, upc,
                 monitorVars, hostVars>>

(* The reset counts only if no recovery has started since the pop.         *)
ResetCounts == epoch = wEpoch

WorkerAck ==
  /\ wpc = "ack"
  /\ wpc' = "check"
  /\ IF ResetCounts
     THEN /\ resetPending' = FALSE
          /\ newSourcePending' = (newSourcePending /\ ~wNewSource)
     ELSE UNCHANGED <<resetPending, newSourcePending>>
  /\ UNCHANGED <<lifeVars, queueVars, epoch, waiting, request, rendererVars,
                 wpkt, wNewSource, wEpoch, ingressVars, upc, monitorVars,
                 hostVars, decoderVars, faults>>

(* The packet aged while the decoder was reset.                            *)
WorkerAgeAfterPop ==
  /\ wpc = "check" /\ Bounded /\ Fault
  /\ wpc' = "wait" /\ wpkt' = NoPacket
  /\ IF Running THEN BeginHardVideoRecoveryLocked(TRUE, <<>>)
     ELSE UNCHANGED <<queueVars, chainVars, request, rendererVars>>
  /\ UNCHANGED <<lifeVars, newSourcePending, wNewSource, wEpoch, ingressVars,
                 upc, monitorVars, hostVars, decoderVars>>

(* processVideoPacket: stale packets and dependent units of a broken chain *)
(* are dropped, the rest goes to the decoder.                              *)
PacketIsCurrent(p) ==
  /\ Running
  /\ p.gen = workerGen
  /\ p.epoch = epoch
  /\ p.gen = generation

MayDecodeWhileRecovering(p) == ~waiting \/ ~ContainsVcl(p) \/ ContainsIdr(p)

WorkerCheck ==
  /\ wpc = "check"
  /\ IF PacketIsCurrent(wpkt) /\ MayDecodeWhileRecovering(wpkt)
     THEN wpc' = "decode" /\ UNCHANGED wpkt
     ELSE wpc' = "wait" /\ wpkt' = NoPacket
  /\ UNCHANGED <<lifeVars, queueVars, chainVars, request, newSourcePending,
                 rendererVars, wNewSource, wEpoch, ingressVars, upc,
                 monitorVars, hostVars, decoderVars, faults>>

(* XboxVideoDecoder::decode and PsVideoDecoder::decode: parameter sets are *)
(* kept for the next frame; the gate opens at a random-access unit once    *)
(* parameter sets have been seen, and until then frames are swallowed with *)
(* the result TRUE.                                                        *)
SetsAfter(p) == IF p.kind \in {"set", "idr"} THEN p.src ELSE decSets
GateOpens(p) == decReady \/ (ContainsIdr(p) /\ SetsAfter(p) # 0)
ReachesCodec(p) == ContainsVcl(p) /\ GateOpens(p)

WorkerDecode(ok) ==
  /\ wpc = "decode" /\ LifecycleFree
  /\ ~ok => ReachesCodec(wpkt)
  /\ decSets' = SetsAfter(wpkt)
  /\ IF ReachesCodec(wpkt)
     THEN /\ decReady' = TRUE
          /\ decSrc' = wpkt.src
          /\ decRef' = IF ok THEN wpkt.seq ELSE decRef
     ELSE UNCHANGED <<decReady, decSrc, decRef>>
  /\ IF ok
     THEN /\ IF ContainsIdr(wpkt)
             THEN wpc' = "decoded" /\ UNCHANGED wpkt
             ELSE wpc' = "wait" /\ wpkt' = NoPacket
          /\ UNCHANGED faults
     ELSE /\ Fault
          /\ wpc' = "failed" /\ UNCHANGED wpkt
  /\ UNCHANGED <<lifeVars, queueVars, chainVars, request, newSourcePending,
                 rendererVars, wNewSource, wEpoch, ingressVars, upc,
                 monitorVars, hostVars, decEpoch>>

(* A decoded IDR ends the recovery it belongs to.                          *)
EndsRecovery(p) == p.epoch = epoch

WorkerDecoded ==
  /\ wpc = "decoded"
  /\ wpc' = "wait" /\ wpkt' = NoPacket
  /\ IF EndsRecovery(wpkt)
     THEN waiting' = FALSE /\ request' = FALSE
     ELSE UNCHANGED <<waiting, request>>
  /\ UNCHANGED <<lifeVars, queueVars, epoch, resetPending, newSourcePending,
                 rendererVars, wNewSource, wEpoch, ingressVars, upc,
                 monitorVars, hostVars, decoderVars, faults>>

WorkerDecodeFailed ==
  /\ wpc = "failed"
  /\ wpc' = "wait" /\ wpkt' = NoPacket
  /\ IF Running THEN BeginHardVideoRecoveryLocked(TRUE, <<>>)
     ELSE UNCHANGED <<queueVars, chainVars, request, rendererVars>>
  /\ UNCHANGED <<lifeVars, newSourcePending, wNewSource, wEpoch, ingressVars,
                 upc, monitorVars, hostVars, decoderVars, faults>>

-----------------------------------------------------------------------------
(* The UI thread: presentVideoFrame, under a try-lock of lifecycle_mutex_. *)

PresentFault ==
  /\ Running /\ LifecycleFree /\ Fault
  /\ BeginHardVideoRecoveryLocked(TRUE, <<>>)
  /\ UNCHANGED <<lifeVars, newSourcePending, workerVars, ingressVars, upc,
                 monitorVars, hostVars, decoderVars>>

LatePresentSuccess ==
  /\ Running /\ LifecycleFree
  /\ ~rInProgress /\ rPending
  /\ rPending' = FALSE
  /\ UNCHANGED <<lifeVars, queueVars, chainVars, request, newSourcePending,
                 rWakeup, rInProgress, workerVars, ingressVars, upc,
                 monitorVars, hostVars, decoderVars, faults>>

(* requestRendererRecovery: a compare-exchange, then the queue lock.       *)
RendererRecoveryClaim ==
  /\ Running /\ upc = "idle" /\ ~rPending /\ Fault
  /\ rPending' = TRUE
  /\ upc' = "claimed"
  /\ UNCHANGED <<lifeVars, queueVars, chainVars, request, newSourcePending,
                 rWakeup, rInProgress, workerVars, ingressVars, monitorVars,
                 hostVars, decoderVars>>

RendererRecoveryWake ==
  /\ upc = "claimed"
  /\ upc' = "idle"
  /\ IF WorkerStop \/ ~Running
     THEN rPending' = FALSE /\ UNCHANGED rWakeup
     ELSE rWakeup' = TRUE /\ UNCHANGED rPending
  /\ UNCHANGED <<lifeVars, queueVars, chainVars, request, newSourcePending,
                 rInProgress, workerVars, ingressVars, monitorVars, hostVars,
                 decoderVars, faults>>

(* requestVideoRecovery: packet loss asks for an IDR, a decode stall also  *)
(* resets the decoder unless a recovery is under way.                      *)
RequestVideoRecovery(reset) ==
  /\ Running /\ Fault
  /\ IF reset THEN BeginHardVideoRecoveryLocked(FALSE, <<>>)
     ELSE request' = TRUE /\ UNCHANGED <<queueVars, chainVars, rendererVars>>
  /\ UNCHANGED <<lifeVars, newSourcePending, workerVars, ingressVars, upc,
                 monitorVars, hostVars, decoderVars>>

-----------------------------------------------------------------------------
(* The session loop: ask the host for an IDR, then clear the request.  Its *)
(* cadence is longer than an IDR stays in the pipeline.                    *)

IdrInPipeline ==
  \/ \E i \in 1..Len(queue) : ContainsIdr(queue[i])
  \/ ContainsIdr(wpkt) \/ ContainsIdr(ipkt)

MonitorAsk ==
  /\ mpc = "idle" /\ Running
  /\ request /\ ~asked /\ ~IdrInPipeline
  /\ asked' = TRUE
  /\ mpc' = "asked"
  /\ UNCHANGED <<lifeVars, queueVars, chainVars, request, newSourcePending,
                 rendererVars, workerVars, ingressVars, upc, hostVars,
                 decoderVars, faults>>

(* clearVideoRecoveryRequest.                                              *)
RequestAfterClear == request /\ waiting

ClearVideoRecoveryRequest ==
  /\ mpc = "asked"
  /\ mpc' = "idle"
  /\ request' = RequestAfterClear
  /\ UNCHANGED <<lifeVars, queueVars, chainVars, newSourcePending,
                 rendererVars, workerVars, ingressVars, upc, asked, hostVars,
                 decoderVars, faults>>

-----------------------------------------------------------------------------
(* The owner: initialize and shutdown.                                     *)

ClearedByStopWorkers ==
  /\ queue' = <<>> /\ queuedBytes' = 0
  /\ epoch' = 0 /\ resetPending' = FALSE /\ waiting' = FALSE
  /\ newSourcePending' = FALSE
  /\ rPending' = FALSE /\ rWakeup' = FALSE /\ rInProgress' = FALSE

(* Components and decoder are created and running_ is set ...              *)
Initialize ==
  /\ life = "down" /\ LifecycleFree /\ generation < MaxGenerations
  /\ life' = "starting"
  /\ generation' = generation + 1
  /\ request' = FALSE
  /\ rPending' = FALSE /\ rInProgress' = FALSE /\ newSourcePending' = FALSE
  /\ decReady' = FALSE /\ decSets' = 0 /\ decSrc' = 0 /\ decRef' = 0
  /\ decEpoch' = 0
  /\ UNCHANGED <<workerGen, queueVars, chainVars, rWakeup, workerVars,
                 ingressVars, upc, monitorVars, hostVars, faults>>

(* ... or one of them fails to start, and all is undone.                   *)
InitializeFails ==
  /\ life = "down" /\ LifecycleFree /\ generation < MaxGenerations
  /\ generation' = generation + 1
  /\ ClearedByStopWorkers /\ request' = FALSE
  /\ UNCHANGED <<life, workerGen, workerVars, ingressVars, upc, monitorVars,
                 hostVars, decoderVars, faults>>

StartWorkers ==
  /\ life = "starting"
  /\ life' = "up"
  /\ ClearedByStopWorkers /\ request' = FALSE
  /\ workerGen' = generation
  /\ wpc' = "wait" /\ wpkt' = NoPacket
  /\ UNCHANGED <<generation, wNewSource, wEpoch, ingressVars, upc, monitorVars,
                 hostVars, decoderVars, faults>>

ShutdownStop ==
  /\ life = "up"
  /\ life' = "joining"
  /\ UNCHANGED <<generation, workerGen, queueVars, chainVars, request,
                 newSourcePending, rendererVars, workerVars, ingressVars, upc,
                 monitorVars, hostVars, decoderVars, faults>>

WorkerJoined == wpc = "exited"

ShutdownJoin ==
  /\ life = "joining" /\ WorkerJoined
  /\ life' = "joined"
  /\ workerGen' = 0
  /\ ClearedByStopWorkers
  /\ UNCHANGED <<generation, request, workerVars, ingressVars, upc,
                 monitorVars, hostVars, decoderVars, faults>>

(* shutdownUnlocked destroys the components.                               *)
ShutdownDestroy ==
  /\ life = "joined" /\ LifecycleFree
  /\ life' = "down"
  /\ generation' = generation + 1
  /\ epoch' = 0 /\ resetPending' = FALSE /\ waiting' = FALSE
  /\ request' = FALSE /\ newSourcePending' = FALSE
  /\ rPending' = FALSE /\ rInProgress' = FALSE
  /\ UNCHANGED <<workerGen, queueVars, rWakeup, workerVars, ingressVars, upc,
                 monitorVars, hostVars, decoderVars, faults>>

-----------------------------------------------------------------------------
Ingress ==
  \/ \E kind \in Kinds, size \in Sizes : Arrive(kind, size)
  \/ \E aged \in BOOLEAN : CommitPacket(aged)
  \/ NewSourceBegin
  \/ NewSourceEnd

Worker ==
  \/ WorkerExit \/ WorkerAgeOut \/ WorkerTakeRenderer \/ WorkerRendererBegin
  \/ \E ok \in BOOLEAN : WorkerRendererEnd(ok)
  \/ WorkerPop
  \/ \E ok \in BOOLEAN : WorkerReset(ok)
  \/ WorkerAck \/ WorkerAgeAfterPop \/ WorkerCheck
  \/ \E ok \in BOOLEAN : WorkerDecode(ok)
  \/ WorkerDecoded \/ WorkerDecodeFailed

Present == PresentFault \/ LatePresentSuccess

Watchdog ==
  \/ RendererRecoveryClaim \/ RendererRecoveryWake
  \/ \E reset \in BOOLEAN : RequestVideoRecovery(reset)

Monitor == MonitorAsk \/ ClearVideoRecoveryRequest

Owner ==
  \/ Initialize \/ InitializeFails \/ StartWorkers
  \/ ShutdownStop \/ ShutdownJoin \/ ShutdownDestroy

Next == Ingress \/ Worker \/ Present \/ Watchdog \/ Monitor \/ Owner

Spec == Init /\ [][Next]_vars

(* The worker never waits for another thread but through the conditions    *)
(* its actions state; the monitor polls; the host answers an IDR request;  *)
(* initialize and shutdown run to their end once called.                   *)
FairSpec ==
  /\ Spec
  /\ WF_vars(Worker)
  /\ WF_vars(Monitor)
  /\ WF_vars(\E kind \in Kinds \ {"p"}, size \in Sizes :
               asked /\ size <= MaxBytes /\ Arrive(kind, size))
  /\ WF_vars(\E aged \in BOOLEAN : CommitPacket(aged))
  /\ WF_vars(NewSourceEnd)
  /\ WF_vars(RendererRecoveryWake)
  /\ WF_vars(StartWorkers) /\ WF_vars(ShutdownJoin) /\ WF_vars(ShutdownDestroy)

-----------------------------------------------------------------------------
LifeType ==
  /\ life \in {"down", "starting", "up", "joining", "joined"}
  /\ generation \in Nat /\ workerGen \in Nat
QueueType == queue \in Seq(Packet) /\ queuedBytes \in Nat
ChainType ==
  epoch \in Nat /\ resetPending \in BOOLEAN /\ waiting \in BOOLEAN
FlagType == request \in BOOLEAN /\ newSourcePending \in BOOLEAN
RendererType ==
  rPending \in BOOLEAN /\ rWakeup \in BOOLEAN /\ rInProgress \in BOOLEAN
WorkerType ==
  /\ wpc \in {"exited", "wait", "renderer", "handoff", "reset", "ack",
              "check", "decode", "decoded", "failed"}
  /\ wpkt \in Packet /\ wNewSource \in BOOLEAN /\ wEpoch \in Nat
IngressType == ipc \in {"idle", "copied", "newSource"} /\ ipkt \in Packet
MonitorType == mpc \in {"idle", "asked"} /\ asked \in BOOLEAN
HostType ==
  seq \in Nat /\ src \in Nat /\ setsSent \in BOOLEAN /\ lost \subseteq Nat
DecoderType ==
  /\ decReady \in BOOLEAN /\ decSets \in Nat /\ decSrc \in Nat
  /\ decRef \in Nat /\ decEpoch \in Nat

(* Every variable keeps its type; queuedBytes never wraps below zero.      *)
TypeOK ==
  /\ LifeType /\ QueueType /\ ChainType /\ FlagType /\ RendererType
  /\ WorkerType /\ IngressType /\ upc \in {"idle", "claimed"}
  /\ MonitorType /\ HostType /\ DecoderType /\ faults \in Nat

(* What waits in the queue of a running worker belongs to the worker's     *)
(* generation and to the current recovery epoch, whatever a copy outlived: *)
(* a recovery, a shutdown, a restart.                                      *)
QueueIsCurrent ==
  life = "up" => \A i \in 1..Len(queue) : /\ queue[i].gen = workerGen
                                          /\ queue[i].epoch = epoch

(* The queue stays within its limits.                                      *)
QueueIsBounded == Len(queue) <= MaxPackets /\ queuedBytes <= MaxBytes

(* The byte counter, from which the code subtracts what it pops without    *)
(* looking, never falls below zero, and the queue keeps both limits.       *)
QueueSafety == TypeOK /\ QueueIsBounded

(* A frame reaches the codec only if the decoder was reset for the very    *)
(* recovery epoch the frame was queued in.                                 *)
ResetPrecedesDecode ==
  wpc = "decode" /\ ReachesCodec(wpkt) => wpkt.epoch = decEpoch

(* As long as the pipeline waits for a recovery IDR, the session's request *)
(* for one is up: no clear, drop or failure leaves it waiting in silence.  *)
RecoveryIsAsked == Running /\ waiting => request

(* A dependent frame reaches the codec only after its predecessor, but for *)
(* frames that were refused for their size or could not be copied: no      *)
(* overflow, drop, reset, fault or restart leaves a hole in the decoder's  *)
(* chain.                                                                  *)
NoHoleInChain ==
  wpc = "decode" /\ wpkt.kind = "p" /\ decReady =>
    decRef < wpkt.seq /\ decRef + 1 .. wpkt.seq - 1 \subseteq lost

(* The worker runs only between initialize and the join in shutdown: it    *)
(* never touches destroyed components.                                     *)
WorkerNeedsComponents == wpc # "exited" => life \in {"up", "joining"}

(* A pipeline that waits for a recovery IDR gets to decode one.            *)
RecoveryEnds == (Running /\ waiting) ~> ~(Running /\ waiting)

(* A shutdown ends: the worker is always able to leave its loop.           *)
ShutdownEnds == (life = "joining") ~> (life = "down")
=============================================================================
