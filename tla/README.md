# LunarNX in TLA+

LunarNX is a remote-play client for the Nintendo Switch (and the desktop) that
streams from Xbox (WebRTC) and PlayStation (chiaki). It is a threaded program: a
user interface, network workers, a session thread, transport threads, a video
and an audio worker, and a renderer meet in a few objects guarded by mutexes,
atomics and generation counters. The specifications here model those objects at
the grain of their critical sections.

Paths below are relative to `src/src/`.

## 1. The system

| Part | State it keeps | Operations | Who calls it |
|---|---|---|---|
| Media pipeline, video (`stream/media_pipeline`) | packet queue, byte counter, recovery epoch and flags, worker | `enqueueVideoPacket`, `videoWorkerLoop`, `beginHardVideoRecovery`, `prepareForNewVideoSource`, `requestRendererRecovery`, `initialize`, `shutdown` | transport callback, video worker, session loop, UI |
| Media pipeline, audio | encoded and decoded queues, start gate, source epoch | `enqueueAudioPacket`, `audioWorkerLoop`, `openAudioStartupGateIfNeeded` | transport callback, audio worker, UI |
| Audio reorder (`stream/audio_packet_reorder`) | window of packets, next sequence | `push`, `reset` | audio callback |
| Video and audio devices (`stream/video_renderer`, `stream/audio_player`) | GPU slices and fences, PCM ring | submit, present, drain | workers, UI |
| Policies (`app/*_policy.h`, `stream/*_policy.h`) | counters and time stamps | pure decisions | session loop, pipeline |
| Xbox controller and session (`app/stream_controller`, `app/xbox_stream_session`) | operation generation, session thread, attempt number | start, stop, suspend, resume, reconnect | UI, session thread |
| Peer manager and transport (`webrtc/`, `app/web_rtc_transport`) | peer connection, event queue, jitter buffer | connect, pump, close | session thread, library callbacks |
| PlayStation controller and session (`ps/ps_stream_controller`, `ps/ps_stream_session`) | state, session handle, monitor thread | start, stop, suspend, resume | UI, chiaki callbacks |
| PlayStation remote connector (`ps/ps_remote_connector`) | hole-punch session, attempt, cancel flag | connect, cancel | controller |
| Sign-in (`auth/`, `ps/psn_auth_manager`) | tokens and their files | device code, refresh, store | UI, workers |
| Network worker (`platform/network_worker`) | active count, shutting-down flag | start, shutdown | everything that goes to the network |
| Loading activity (`ui/stream_loading_activity`, `ui/connection_cancel_state.h`) | cancel, worker and clean-up flags | connect, cancel, clean up | UI, workers |
| Input and rumble (`input/`) | accumulated input, rumble leases | poll, encode | UI, session loop |

`PROJECT.json` lists every component with the reason for what is left out.

What is hard in this program: packets copied outside a lock and queued after a
recovery, a restart or a source change; two recoveries that overlap; a flag that
one thread clears after another has raised it again; joins under a mutex; a
cancel that races the end of what it cancels; callbacks that arrive after their
owner is gone; work refused because the process is exiting. `PROJECT.json`
lists each under "hazards" at its line.


### Components and what makes each correct

- **Video half of the media pipeline.** A bounded queue of encoded access units
  between the transport's callback and a worker thread that decodes. Whatever
  breaks the reference chain (overflow, age, a failed decode, a GPU fault, a new
  encoded source) starts a *recovery*: the queue is emptied, the epoch advances,
  an IDR is requested, and the decoder is reset before the first IDR of the new
  epoch is decoded. Correct when no packet of an older epoch, source or
  generation is decoded, the limits hold, the decoder sees no hole, a pipeline
  that waits always asks, and every recovery and shutdown ends.
- **Xbox session.** Creates a session on the server, negotiates, starts a stream
  and a control thread, replaces the session after a loss, deletes it. Correct
  when every session granted is deleted exactly once, nothing is used after it
  was deleted, media and input wait for the handshake of their own association,
  and start, stop, cancel and loss all come to an end.
- **Xbox controller, loading page, stream view.** Operations are serialised by
  one mutex; cancels only set a flag and advance a generation, so that a cancel
  can reach an operation that holds the mutex. Correct when no stream outlives
  its page, a cancelled connection has exactly one teardown, and every page closes.
- **Network worker.** Detached threads, counted so that the exit can wait.
  Correct when the count is exact on every failure path, none starts once the exit has
  begun, and no worker thread runs when it is over.
- **PlayStation controller, session and remote connector.** The same life cycle
  over chiaki's callbacks, with hole punching and a retry policy. Correct when a
  callback never reaches an object that is being destroyed, a hole-punch session
  is finished once, and a cancel interrupts every wait.
- **Peer manager, transport.** Library callbacks, an owner thread and one outbound
  queue with priorities for control, input, feedback and recovery requests. Correct
  when teardown waits for callbacks in flight and nothing reliable is lost, doubled
  or overtaken in its class.
- **Video jitter buffer.** Orders RTP packets, asks for missing ones, assembles
  frames, gives frames up. Correct when frames leave in order and at most once, a
  frame after a hole never leaves unnoticed, a frozen picture has asked for its key
  frame, and the totals it reports add up.
- **Input accumulator.** The newest state of the pad and a journal of button edges,
  between an input thread and the owner loop. Correct when the console ends up with
  the state the player left.
- **Audio half, audio reorder, player, renderer.** Ordering within a window, a
  start gate, rings and GPU slices with fences. Correct when nothing is played or
  drawn twice or out of order and no slot is reused before its fence.
- **Sign-in and repositories.** Tokens and lists written through a temporary file
  and a rename. Correct when a crash leaves the old or the new file and a refresh
  is not repeated with a token already spent.
- **Policies.** Small machines over counters and times: the watchdog of the video,
  the pace of key-frame requests, the bitrate, the size of the buffer. Correct when a
  stronger remedy follows only where a weaker one has failed, none is repeated for ever,
  and each is taken back when the trouble is over.

## 2. The modules

| Module | Models | Extends or composes |
|---|---|---|
| `MediaVideo` | video half of `stream/media_pipeline.cpp`, the admission policy, the decoder's gates | – |
| `MediaVideoProofs` | its theorems | `MediaVideo` |
| `XboxSession` | `app/xbox_stream_session.cpp` with its owner, stream and control threads, the session client and the peer as it sees them | – |
| `XboxSessionProofs` | its theorems | `XboxSession` |
| `NetworkWorkers` | `platform/network_worker.cpp` | – |
| `StreamController` | the operations of `app/stream_controller.cpp` on a stream, over an abstract session | – |
| `PsRemoteConnector` | `ps/ps_remote_connector.cpp` with `ps/ps_remote_retry_policy.h` | – |
| `PsStreamController` | `ps/ps_stream_controller.cpp` and the life cycle of `ps/ps_stream_session.cpp`, over chiaki seen from outside | `PsRemoteConnector` |
| `PsConnect` | the connection page of `ui/ps_activity.cpp` and the stream view over a PlayStation controller | `PsStreamController`, `HoleOwnership` |
| `PsConnectProofs` | its theorems, the implementation of `HoleOwnership` among them | `PsConnect` |
| `HoleOwnership` | abstract: who holds a hole-punch session, and that each is finished once | – |
| `StreamLaunch` | the start from `ui/main_activity.cpp`, `ui/stream_loading_activity.cpp` with `ui/connection_cancel_state.h`, and the life cycle of `ui/stream_view.cpp` | `StreamController` |
| `StreamLaunchProofs` | the theorems of the launch and of the worker threads it runs on | `StreamLaunch`, `NetworkWorkers` |
| `VideoJitter`, `MCVideoJitter` | `webrtc/video_rtp_jitter_buffer.cpp`, under the network and the callback of the peer manager | `FrameDelivery` |
| `FrameDelivery` | abstract: what the decoder may be handed | – |
| `VideoJitterProofs` | its theorems, the implementation of `FrameDelivery` among them | `VideoJitter` |
| `InputAccumulator` | `input/xbox_input_accumulator.cpp`, as functions of its state | – |
| `OutboundQueue` | the outbound queue of `webrtc/peer_manager.cpp`, as functions of its state | – |
| `XboxControl` | the owner loop and the input thread of `app/xbox_stream_session.cpp`, the start-up protocol of `app/xbox_channel_manager.cpp` | `InputAccumulator`, `OutboundQueue` |
| `XboxControlProofs` | its theorems | `XboxControl` |
| `NetworkPath` | `webrtc/network_path_estimator.h`: baseline, quality, hysteresis | – |
| `AdaptiveBitrate` | `app/adaptive_bitrate_controller.h`, as functions of its state | – |
| `BitrateFeedback`, `MCBitrateFeedback` | windows of the path and feedbacks of the loop | `NetworkPath`, `AdaptiveBitrate` |
| `BitrateFeedbackProofs` | its theorems | `BitrateFeedback` |
| `VideoWatchdog` | `app/video_watchdog_policy.h`, `app/video_recovery_request_policy.h` | – |
| `VideoHealth` | the loop that polls the two policies, over a source, a pipeline and a renderer that fail and come back | `VideoWatchdog` |
| `XboxLatency`, `MCXboxLatency` | `app/xbox_latency_policy.h`, over windows of the path | `NetworkPath` |
| `XboxPolicyProofs` | theorems of both | `VideoHealth`, `XboxLatency` |

The `MC` modules hold the constants that a `.cfg` cannot write: the stream of packets and
the loads of a window.

Variables carry the name of the C++ member they stand for, beside it in a
comment where it is shortened; actions carry the name of the function, or of the
step of it they model. `PROJECT.json` maps every definition to its lines. An
action is what one thread does between two synchronisation points: a section
under a mutex, one access to an atomic that another thread may change, or one
call that waits.

### MediaVideo

Six threads: ingress (`ipc`), worker (`wpc`), watchdog (`upc`), monitor (`mpc`),
owner (`life`) and the UI. `Arrive` is the unlocked part of `enqueueVideoPacket`
and `CommitPacket` the locked one: between the two the packet is a copy that may
outlive a recovery, a shutdown and a restart. The worker's loop is cut into
`WorkerPop`, `WorkerReset`, `WorkerAck`, `WorkerCheck`, `WorkerDecode`,
`WorkerDecoded` and `WorkerDecodeFailed`, because it releases the mutex around
each access to the decoder. `BeginHardVideoRecoveryLocked` is the operator
shared by every action that starts a recovery. The decoder keeps three facts:
whether it waits for an IDR, whose parameter sets it has, and the last frame
it decoded. `lost` holds the frames that are given up without a recovery, of which
there are two kinds: those whose copy cannot be allocated (`stream/media_pipeline.cpp:621-631`; the
session ignores the result, `app/xbox_stream_session.cpp:895`) and, in the realtime
queue, those larger than it takes at all (532). It is history that no guard reads. A
bounded queue refuses a size above `kMaxVideoQueueBytes` in the same place as one above
its own byte limit; the sizes of the run tell the second one only.

Assumptions about what is outside: the transport delivers only after
`initialize` has returned; the host sends the parameter sets of a source before
a bare IDR of it; it numbers its frames; one watchdog claims the renderer
recovery at a time. The catch-up decision suppresses only output and the
`DirectLowLatency` mode is a build option: both are left out, and so is
`reset_wakeup`, which nothing sets.

### XboxSession

`opc` walks through `start` (attempts, media, thread launch, wait for the
handshake) and `stop` (join, cleanup); `spc` through `runLoop` and
`reconnectWithFreshSession`; `kpc` through `controlLoop`. `granted` and
`deletes` are the server's ledger: ids are numbered in the order in which they
are granted and each deletion is counted. `assoc` numbers the peer's
associations, `acked` remembers the one whose control handshake succeeded, and
`mediaFrom` the ones whose media the pipeline's current source has received.
A request to the server is one step with all of its outcomes; a reply lost on
the way grants no session the client could know of. The library may report
CONNECTED again after a loss. Exceptions are thrown only where the loop catches
them.

### NetworkWorkers

Each element of `Tasks` is one call of `startNetworkWorker`; `phase` says how far
it has got: on the heap, counted, running, returned, destroyed, released, with
every failure in between. `main` is the one call of `shutdownNetworkWorkers`.

### StreamController and StreamLaunch

A thread is named for the worker that runs it: `connect` from the loading page,
`resume` after the application regained the focus, `stop` for a teardown, `ui` for
a teardown that found no worker. `pc[t]` is its next step in
`startStreamWithProfile`, `resumeAfterForeground` or `stopStream`, and `op` the
holder of `stream_operation_mutex_`. Generations are compared for equality only,
so `current` is the set of holders whose captured value equals
`stream_generation_`: advancing it empties the set. Taking the new generation and
clearing the cancel flag are two steps, as they are in the code. The session is
that of `XboxSession` seen from outside: `none`, `live`, or `dead` when its loop
ended by itself.

`StreamLaunch` adds the UI thread. Closures posted with `brls::sync` wait in
`posted`, each with the launch it belongs to; one that finds its activity gone
returns. `load` is the loading page (`ConnectionCancelState`, `finished`,
`failure_pending_`), `view` the flags of the stream view. `terminal` stands for
`terminal_stop_` and for the invalidated lifecycle generation, which are always
set together. `teardowns` counts clean-ups and is not in the code. One worker of
each kind runs at a time: a page opened while the last page's worker is still on
its way out is not modelled. Left out: sign-out, lists, exceptions thrown by a
start, the exit of the application, the desktop paths.

### PsRemoteConnector, PsStreamController and PsConnect

`conn` is the state of `PsRemoteConnector::connect`: its step, attempt, session and
last error. A hole-punch session is the number of its creation; `finis` counts
how often each was finished and is not in the code. Every call into the library
is one step that succeeds, fails in a way the retry policy tells apart
(`reject`, `retry`, `final`), or has been cancelled. Published and owned are
different things, as in the code: a cancel reaches the session in `session_`.

`pc[t]` is the step of a thread in `startStream`, `stopStream` or
`resumeAfterForeground`, `op` the holder of `stream_operation_mutex_`. A session is
`made`, `init` or `started`; `sessH` and `chiakiH` say whether the session object
or chiaki holds its hole-punch session. chiaki is external: the code treats
`chiaki_session_init` as taking the hole-punch session over whether it succeeds
or not, and `chiaki_session_fini` as finishing it, and so does the model.

`PsConnect` adds the page (`PsConnectContext` and `finished_` are `page`), the view,
and the input the UI thread is in the middle of (`ui`): `requestCancel` sets the flag
of the controller and then reaches the connector, and a start may run between
the two. `terminal` stands for `terminal_stop_`, `stop_started_` and the
invalidated lifecycle generation, which an exit sets together. A teardown for
which no worker can be made runs on the UI thread; the model lets the thread `stop`
run it. `overlapped` remembers that a start which could not make its threads,
and so takes itself down, met a resume; it is not in the code.

Left out: the login PIN and sign-in pages (a dialog on top of the page is popped
in its place by a clean-up that ends meanwhile), the update thread of the view, which
is in `StreamLaunch`, and plans without a route. `StopJoins` takes setting a
thread's stop flag and looking at the thread as one step: `stopInputLoop` and
`startInputLoop` share `input_thread_` without a lock, and an interleaving inside
them may also leave the stop joining a thread whose flag was cleared again.

### VideoJitter and FrameDelivery

`buffer` is `VideoRtpJitterBuffer::Impl`: the frames in progress, the NACK ranges, the
receiver's window and totals, the recovery. Frames and ranges are sets: the code keeps the
first in the order of their timestamps and the second in the order of their numbers, so
that the order says nothing more. `receive` is one operator per stage of the code
(`NoteSequence`, `Place`, `Store`, `Drain`, the recoveries), and `Deliver` one call of
it: the network picks a packet, late, repeated or ahead of others. A pass over the ranges
(`Pass`) says at once which NACKs the budget of the window and the transport let out
(`Pids`: each NACK covers the numbers that follow the one it names) and where each range is left.
What the call hands out waits in `buffer.out`, in the order of the code's callbacks, and
`Callback` gives it to `PeerManager` one by one. Sequence numbers wrap at `SeqSpace`, and the
run begins two packets ahead of the wrap. `decoder` remembers what the decoder got; its
parts are the variables of `FrameDelivery`. Each callback carries what the decoder has after
it, and `buffer.decoder` is what it will have after all of them: history that the code does
not keep and no guard reads.

`forgotten` is there for what the code does not promise. `overflow` discards the frames but
not what `noteSequence` knows of their packets (line 1130): they count as received, no hole is
seen where they were, and a key frame older than they are, arriving late, answers the
request that the overflow made. A later picture is then shown although those it depends
on are gone, and nobody asks. `FrameDelivery` allows this up to the newest frame
discarded, and nowhere else; the run reaches it.

The assumptions on the sender say what an H.264 packetizer does (frames in order, no number
without a frame, the marker bit on a frame's last packet), those on the network that packets
stay within `Ahead` and `Behind` of the newest one, less than half of the number space, and that a
source does not begin just behind a wrap.

There are no timers: deadlines are seen by the next packet, as in the code. A
timestamp discontinuity takes the same path as a change of the SSRC and is modelled
by it; the byte limits are folded into `MaxPackets`; parsing is external, and a packet that
cannot be depacketized is one that is marked so.

### XboxControl, InputAccumulator and OutboundQueue

`Turn` is the player, `thread` the input thread (`Sample`, then `Publish`), `pc` the owner loop of `runLoop` between
two points at which another thread can act: peek at the journal, peek at the newest
state, queue, pump, commit, look at the health, feedback, key-frame request, and the stages of
`startProtocol`. The queue and the accumulator have one lock each, so that their
operations are functions of their state. `turn` counts the turns of one button
and stands for the state of the pad; `pad` is what the console has got, `wire` what was
sent on this association. `taken` counts the reliable commands the queue took; each carries
its number on the association, as the code's `command.id` does
(`webrtc/peer_manager.cpp:604`).

A sample published during the 500 ms between the removal and the addition of the pad is
assumed to be published before the addition (`AddGamepad`). A lost connection stays
lost until it is renegotiated; age limits are folded into attempt limits; the end of a
drain by its deadline may come from the second command on. Left out: the guide-button pulse,
cancellation (in `XboxSession`), rumble.

### BitrateFeedback, AdaptiveBitrate and NetworkPath

Two clocks of about one second meet: `NextSample` closes a window of the path, `NextFeedback` is
the loop's call of `observe`. A window may be read twice, or overwritten before it was read, and
`Reconnect` numbers the windows from 1 again, while the controller is not reset
(`renumbered`). A load is a class of the loss, queue and decode figures that the
conditions tell apart. Round-trip times are kept as their least value and its age; hard
recovery and an oversized stream are inputs of a feedback, because their edges are
detected by the loop (`app/xbox_stream_session.cpp:1222-1233`). Only none, one and more
reductions of an episode are told apart, as the code does. Smoothing and the hold of the
jitter figure are left out. Three variables are history for the properties: `probeCuts`
counts reductions for the round-trip time alone; `lowered` is the target that the first of
a series of reductions found, until it is back, and their number, made from the target
alone, to compare the controller's episode with; `evidence` counts the windows that speak for
a raise, each at its first reading (`unread`), whatever number it bears. `Used` is the
controller's `last_sequence_`: a window that was observed says nothing any more.

### VideoHealth and VideoWatchdog

An age is kept as the thresholds it has passed. `polled` says that the loop has looked since the
last event: it polls every 50 ms and the shortest threshold is a second, so that
nothing ages twice between two looks. `Iterate` is one iteration with its poll, in the order
of the code: suspension and new source, request for a key frame, look at the transport,
watchdog. `pace` merges the delays of 300, 500 and 1000 ms with the retry at start-up. A decoded frame
is taken by the renderer at once; a renderer that presents the old picture again counts
as showing one. `trial` remembers for the properties how far an attempt has got: `given`,
`ripe` when its cool-down has run out, and for the decoder `waived` when a cover of the picture ended
the cool-down before that. The count of
reconnects is that of `XboxSession` and is left out.

### XboxLatency

`fresh` says that a window was closed which the controller has not observed. `streak` counts the
clean windows closed in a row, each once when it is closed, and is not in the code: a change of the mode, a reason to
recover and the observation of a new window that is not clean start it over. After a fresh session a window may carry the number
of the last one observed (`renumbered`), and is then taken for it. The figures a mode stands
for in the buffers (`makeState`) are left out.

## 3. What the runs show

All counts of states are from the configurations as they stand. Deadlock is not
checked: every model stops when its bounds are used up or the user asks for
nothing more. The progress properties take its place.

| Run | Question | States |
|---|---|---|
| `video_realtime` | Xbox queueing, three frames with stand-alone parameter sets, two sources, two faults, a failed copy among them: the reset precedes the decode, no hole in the chain but for what was given up, no silent wait | 6.62 million |
| `video_bounded` | PlayStation queueing with sizes below, at and above the byte limit, restarts: limits, currency, life cycle, and under fairness recoveries and shutdowns end | 161 thousand |
| `xbox_session` | two starts, a reconnect, a fault, a cancel anywhere: the ledger of sessions, the handshake, the joins, and the four endings | 198 thousand |
| `network_workers` | four calls against the shutdown | 14 thousand |
| `stream_launch` | two launches, two focus losses, two failures anywhere | 108 thousand |
| `ps_connect` | local and remote plans, three attempts for each of two starts, two failures anywhere, a resume, a cancel or an exit anywhere | 269 thousand |
| `video_jitter` | eight packets of five pictures and two sources, lost, late or twice, across a wrap, with pictures that an overflow discards: `FrameDelivery` is implemented, requests and totals are right | 123 thousand |
| `xbox_control` | two turns of a button and two troubles against start-up, retries, a full queue and a fresh session: order, and the last state arrives | 317 thousand |
| `bitrate` | every sequence of windows, feedbacks and fresh sessions in both modes: an episode is open exactly while the target is not back, one answer for one trouble, a raise only on windows of its own; under fairness a path that has settled gets its bitrate back | 203 thousand |
| `video_health` | source, decoder and renderer that stop and come back, under a menu or not: a stronger means follows a weaker one that had its time, but for one on the decoder that a menu cuts short; nothing stays frozen | 164 thousand |
| `latency` | windows, observations, recoveries and fresh sessions: the buffer follows the path | 9 thousand |

One more run expects a violation; it is below.

A property that ends in `Safety` or `Liveness` is the conjunction of named parts that are
about one thing, the type invariant among them; each part is stated and
commented on its own in the module.

### Where the code departs from what the repository says

One run checks what the repository says and finds it violated; the finding in `PROJECT.json`
quotes the lines.

- `ps_connect_input` (`InputStopsFirst`). A stop joins the input thread and the video
  monitor before it takes the mutex under which a start makes them.

Seen while modelling, and checked by no run; the first four are exceptions that a property makes:

- *Frame that cannot be copied.* A frame for whose copy there is no memory is given up without a
  recovery, the caller ignores the result, and the next dependent frame is decoded on a
  reference that never came (`stream/media_pipeline.cpp:629`). `NoHoleInChain` allows the hole of such a
  frame and of one that is refused for its size, and no other.
- *Keep-alive for a replaced session.* The control thread copies `session_id_` once; its retry after a token
  refresh goes out for the copy, which a reconnect may have deleted meanwhile without
  `session_api_mutex_` (`app/xbox_stream_session.cpp:2186`; the comment at 2167-2169 says
  "Do not send keep-alive for the old session while it is being replaced").
  `SessionInUseIsAlive` is about `session_id_` and the stream's own copy.
- *Metadata first.* `startProtocol` queues the gamepad-added message before the metadata, whose
  priority is better: it is sent first (`webrtc/peer_manager.cpp:811`), against the order in the
  comment at `app/xbox_stream_session.cpp:1264-1265`. `ReliableInOrder` excepts the metadata.
- *Recovery cut short by the menu.* While a menu covers the picture the cool-down is cleared at every
  poll (`app/xbox_stream_session.cpp:1333-1342`): an attempt on the decoder is followed by a fresh
  session 50 ms later, before it can have failed, though `app/video_watchdog_policy.h:36-37` speaks
  of a second failed recovery. `DecoderGetsItsTime` says that nothing but a cover does so.
- *Hole after a bounded recovery.* While the recovery IDR waits in the bounded
  queue, dependent frames are still refused, because the flag falls only when the IDR has been
  decoded; what arrives afterwards refers to frames that never reached the decoder
  (`stream/bounded_video_queue_policy.h:32`). `NoHoleInChain` is checked in the realtime mode only.
- *Mixed sources.* `prepareForNewVideoSource` raises its flag before it takes the queue's mutex;
  an IDR of the old source popped in between uses the flag up (`stream/media_pipeline.cpp:419`).
- *Swallowed IDR.* Parameter sets that come ahead of the first IDR of a new source are cached and
  then cleared by the reset of that IDR; the IDR is swallowed and the recovery counts
  as done (`stream/video_decoder.cpp:1076`).
- *Lost wake-up.* The notifications of a shutdown are not under the mutex of the wait:
  `stop` may join a thread that sleeps until its keep-alive is due
  (`app/xbox_stream_session.cpp:493`).
- *Menu that refuses.* A cancel that loses the race with the start leaves the state `Streaming`
  behind, and the menu refuses every later start (`ui/stream_loading_activity.cpp:405`).
- *Press after release.* `runLoop` peeks at the journal and at the newest state under two
  locks: with a press and a release in between, the release goes out first and the press from
  the journal after it (`app/xbox_stream_session.cpp:1038`); the samples that follow repair it.
- *Loss filed elsewhere.* A gap is filed under the picture that exposed it: the loss of the
  last packet of a picture is dropped, uncounted, when the next one is complete
  (`webrtc/video_rtp_jitter_buffer.cpp:997`).
- *Headless key frame.* `assemble` starts at the first packet it has and the test for a hole is
  off for key frames: one whose leading slices were lost is handed on as whole (923).
- *First frame of a discontinuity.* `CompleteDiscontinuous` returns before it sets `marker_sequence`: the
  frame is emitted with the sequence 0 (960-968).
- *Forgotten pictures.* After an overflow a late key frame older than the pictures discarded
  answers the request for one, and what follows is shown as complete (1130; the note at
  `docs/webrtc-streaming-latency-audit-2026-07-26.md:113` counts reordered packets among what is handled).
- *Start behind a wrap.* A source whose first packet comes just after a wrap of the number, overtaking
  one from before it: that one is taken for a jump ahead (628-638), since nothing is
  subtracted below the first number. `NetworkAssumption` excludes such a start.
- *Trial without end.* While a reduction for the round-trip time alone is on trial, every
  second inflated window raises the bitrate, through the cool-down of a decoder that
  has just started over (`app/adaptive_bitrate_controller.h:119`); the test at
  `tests/adaptive_bitrate_controller_test.cpp:381` wants the cool-down to prevent it.
- A window closed before the end of a recovery may count as the first clean one
  (`app/xbox_latency_policy.h:76`); `RisesAreEarned` allows for it.
- Nothing limits the retries of a start-up protocol that the console never acknowledges
  (`app/xbox_stream_session.cpp:1307`).

Without a property either: when a PlayStation start cannot make its threads and takes
itself down while a focus return resumes the stream, the two reset each other's `shutdown_` and the final stop is
skipped (`ps/ps_stream_controller.cpp:648-652, 793`; `NothingLeftBehind` excludes that
history by name); `on_streaming` may be reported over a loop that has ended
(`app/xbox_stream_session.cpp:475`).

### Bounds

A bound appears only in guards, and every theorem holds for all of its values.

- `MaxFrames`, `MaxFaults`, `MaxSources`, `MaxGenerations` (MediaVideo). Three frames are an
  IDR, a frame that depends on it and the one that replaces it; two faults (a failed copy is one) are a
  recovery inside a recovery; two sources or three generations give a packet
  that outlives one and meets the next. The byte limit is 4 with sizes 1, 3 and 5, so
  that a packet fits, exactly fills, or can never fit.
- `MaxAttempts`, `MaxReconnects`, `MaxSessions`, `MaxFaults`, `MaxStarts` (XboxSession).
  Two attempts show that a failed one is cleaned up before the next (the code
  has four, with the same step between any two); two starts show what one leaves to
  the other; three sessions let both and a reconnect get one.
- `Tasks` (NetworkWorkers). Four calls: one running, one failing, one being
  refused and one between its count and its thread.
- `MaxLaunches`, `MaxSwitches`, `MaxFaults` (StreamLaunch). Two of each: what is posted
  by one launch runs in the other, and a recovery meets a second loss of focus.
- `MaxResumes`, `MaxFaults` (PsConnect). The three attempts are the code's own
  number. One resume gives a second connector, session and set of threads.
- `MCStream`, `SeqSpace`, `Opening`, `Ahead`, `Behind`, `MaxTwice`, `MaxTime` (VideoJitter). Eight packets hold
  a picture of two packets, padding, parameter sets, two key frames, and a second
  source; the wrap comes after the second. `Opening` says which packet may come first. The
  buffer's limits are the code's scaled down: two frames, two packets, one range, a gap of one and one
  request, so that each of them is reached. Packets three ahead and two behind open
  holes of every size that matters: none, one that is asked for and one that is too long.
- `MaxTurns`, `MaxTrouble`, `MaxReconnects`, `JournalCap`, `QueueCap` and the attempt limits (XboxControl). Two
  turns are a press and its release; two troubles are a failure inside the repair of
  another. A queue of three (64 in the code) is filled by the protocol and one request.
- `Rtts`, `MCLoads`, `BaselineWindow`, `BadWindows`, `GoodWindows`, `CloudHardRecoveryCooldown` (BitrateFeedback). Three round-trip
  times lie below, between and above the thresholds. A baseline of four windows
  (30 in the code) is longer than a trial and than the evidence for a rise, and a
  settled path outlasts it. A cool-down
  of two (15) holds through more than one window. `XboxLatency` has two inflations.
- `VideoHealth` has no constants and no bounds.

Sets of frames and tasks have no symmetry declared: the frames are numbers and the
liveness properties of the other runs would not allow it.

### Fairness

- MediaVideo: the worker, the monitor, the caller that destroys the pipeline and
  a packet already copied go on, since each is a running thread and none waits
  for more than a mutex. The host answers a request for an IDR; nothing else of
  the network is fair.
- XboxSession: weak fairness of owner, stream and control threads and of the
  backoff's clock. Strong fairness only of the two steps of a reconnect that need
  `session_api_mutex_`, which the control thread leaves for a keep-alive interval
  after each use. No request has to succeed.
- NetworkWorkers: every task ends. Pollers look at `networkWorkersShuttingDown`, the
  others make requests with a time limit.
- StreamLaunch and PsConnect: the workers run, the UI thread finishes an input and
  runs posted closures, and a user whose cancel could not be cleaned up presses
  B again, which is what the page offers. The user is never obliged to cancel, exit,
  or come back. In PsConnect every call into chiaki returns, with a failure
  or without.
- XboxControl: the input thread samples and publishes, the owner loop goes on. Strong fairness of
  three things that the loop gets again and again: the console acknowledges, a
  protocol that cannot succeed fails, and a reconnect succeeds. Without them `ReleaseArrives`
  would ask for a console.
- BitrateFeedback, XboxLatency: windows go on being closed and the loop goes on looking at them.
- VideoHealth: the loop polls and its clock goes on. Nothing is fair of the source, the
  decoder, the renderer and the user.
- VideoJitter has no fairness: nothing in it happens but with the next packet.

## 4. What is proved

Nothing is assumed beyond the named assumptions on the constants:
limits, windows, cool-downs and sizes are positive numbers, round-trip times are natural
numbers, `Kinds` is a subset of the frame kinds, `Tasks` is finite, and for `VideoJitter` what a packet is,
what the sender does and how far packets may stray (`StreamAssumption`, `SenderAssumption`,
`NetworkAssumption`). One theorem has a hypothesis besides: `NoHoles` is about the realtime queue.

- `MediaVideoProofs`. The invariant is the type, that `queuedBytes` is the sum of the
  sizes in the queue (a tally along the queue, because the code subtracts what it
  pops without looking), and `ChainInv`: what each thread that has left the mutex
  may still assume (`OwnerInv`), what waits in the queue (`QueueInv`), when a reset is
  pending (`ResetInv`) and when an IDR is asked for. None is inductive alone: that no
  stale packet is queued depends on the owner's step, and that the reset precedes the
  decode depends on the epoch the worker carries between its critical
  sections. Theorems: `QueueCurrency`, `ResetOrder`, `RecoveryAsked`,
  `WorkerOutlived`, and, with a separate invariant over the limits, `QueueIsSafe`.
  `NoHoles` needs one more invariant: frames are numbered as they arrive, what is queued continues
  what was decoded without a gap but for what is in `lost` (`NumberInv`, `LineInv`), and where it does not,
  the next dependent frame meets a closed gate. Sizes and limits are free in it.
- `XboxSessionProofs`. The invariant is the ledger (every granted id is deleted, or
  is the one in `session_id_` or in a local copy that the holder's step says will be
  deleted), what the owner's step says of the two threads, and what the stream's
  step says of the session. Theorems: `SessionsAreReturned`, `UsedSessionsAreAlive`,
  `CleanupComesLast`. `AssociationsAreSafe` adds what the peer's state says about the
  step of the thread that drives it, so that a handshake never belongs to an association
  that is gone.
- `XboxControlProofs`. Six parts: the types, with every body queued as a reliable
  command one the protocol says (metadata only from the input thread); where the owner
  loop may be at each stage (`PlaceInv`); that the wire and then the queue hold the numbers
  1 to `taken`, each once and in order but for the metadata, unless the channel failed
  (`LineInv`); what has been said at each stage (`SaidInv`); that input is queued only once
  the whole start-up is on the wire (`StartedInv`); and the accumulator's own
  (`SampleInv`). The lemmas are about the queue: the selection takes the first command of its
  priority, so that only metadata can pass another reliable command, and what is done to the
  input entries leaves the line as it is. Theorems: `StartupIsSafe`, `ReliablesAreInOrder`.
- `StreamLaunchProofs`. The connection worker belongs to the page it was started from
  (`WorkerInv`), a closure of the present launch is posted only by the thread that has ended
  (`LoadInv`, `ViewInv`), a resume either works for the view or carries a ticket of a launch that
  is over (`ResumeInv`), and what says that a launch has no session (`SessionInv`: not yet, it failed,
  or it was stopped) says that none is live. A teardown is claimed under the page's lock, so
  that `claimed` is the count of teardowns. For the worker threads the count is the cardinality
  of the set of tasks in a phase that holds a place; every step moves one task in or out of
  it together with the count. Theorems: `MenuIsQuiet`, `OneTeardown`, `Counting`, `ShutdownIsFinal`.
- `PsConnectProofs`. `ThreadInv` is the mutex and where each thread may be, `PlaceInv` says which of
  the four places a hole-punch session can be in at each step, `LedgerInv` that it was finished
  once exactly when no place holds it, `CreditInv` that sessions created and attempts still
  to come stay within the bound, `PageInv` and `CleanInv` that the page is left by a cancel or for the view and
  taken down once, `DownInv` what a stop has taken down at each of its steps. Theorems:
  `ConnectIsSafe`, `NothingIsLeft`, and `SessionsAreOwned`: every step moves at most one
  session between places, which is a step of `HoleOwnership` or leaves its state alone.
- `BitrateFeedbackProofs`. The invariant is that the controller is sound (`Sound`: the target
  between its floor and the configured bitrate, the counters within their windows, and
  below the episode's ceiling once it was reduced), that a fresh window has a baseline, that the one reduction
  for the round-trip time alone is latched (`ProbeInv`), that the episode is the one the history holds
  (`LoweredInv`), and that what the controller has counted is covered by windows read once (`EvidenceInv`). Each
  operator of the controller is shown to take a sound one to a sound one and to move the
  target by no more than its name says. A feedback goes down first and then at most up once;
  the operators are composed by what a way down (`Down`), a way up (`Up`) and both (`Carried`) do to
  the target an episode goes back to, so that one feedback that does both still leaves the
  episode open exactly when the target is not back. Theorems: `EpisodesAreSafe`, `ReductionsAreSafe`,
  `RaisesHaveEvidence`.
- `XboxPolicyProofs`. For the watchdog (`HealthInv`): what is counted is on trial, a trial whose
  cool-down is over is ripe or, of the decoder, waived, right after a poll nothing is counted against a video that is
  well, and what was prepared for a fresh session is gone before the stream runs again. The
  third is needed because a picture that ages between two polls forgets the trial of the renderer.
  For the latency (`LatencyInv`): the clean windows counted, and the clean one not yet observed, are no
  more than those of the row (`streak`), plus one in which a recovery ended. Theorems: `RemediesHaveTheirTime`, `RisesAreSafe`.
- `VideoJitterProofs`, in two layers. `Sound` says what holds whatever is sent and however
  it arrives: the bounds; that the pending ranges are apart from each other, so that what is
  lost and what the ranges cover together never exceeds what was found missing; that a
  request is under way whenever pictures are held back; that no range outlives its frame; and that
  the queue of callbacks ends where `buffer.decoder` says. `AlwaysSound` is its invariance, and
  `NothingIsAskedInVain` follows. `Good` is about the packets: one offset maps each number received
  to the packet that bears it (`Lined`), which takes the arithmetic of the wrap and the
  limits of the network; every packet that came and can still be wanted is in its
  frame (`Stored`); while no request is under way the buffer knows exactly where the next
  frame starts (`Follows`); and every callback in the queue is a step of `FrameDelivery`
  (`Steps`). A picture handed on as complete with no request under way is then the next of the
  stream with all its packets (`NextIsWhole`), which is the reason for the second layer:
  nothing the buffer stores says so. Each member function is shown to keep both, `drain` by induction over
  its rounds. Theorems: `AccountsAddUp` (the totals of congestion control and the receiver report, with the bounds)
  and `DeliveryIsKept`, the implementation of `FrameDelivery`.

Only model-checked: every liveness property, because the proof system has neither
`ENABLED` nor fairness over these actions within its reach. Every safety property of
every passing run is proved. Out of the prover's reach are the induction theorems of its
library, which take an operator; induction up to a bound is proved from the well-foundedness of
the naturals instead (`NatLeast`, `Interval` in `VideoJitterProofs`), for sets.

## 5. What is not modelled, and the plan

Not modelled: rendering and decoding inside the libraries, the formats of
SDP, RTP, JSON and NAL units, layout and texts, the desktop probes and developer
tools. Known and left open: CONNECTED reported again by the library after a loss
(`app/xbox_stream_session.cpp:1133`), a handshake retried without limit (1263), the lost
answer to a creation of a session (`app/xbox_session_client.cpp:58`), the monitor that reads
`video_decoder_` without a lock (`stream/media_pipeline.cpp:541`), the task destroyed
after its place was released (`platform/network_worker.cpp:143`), and a notice of the
PlayStation video monitor that overwrites `Error` or `Disconnected` with `Connecting`
(`ps/ps_stream_controller.cpp:581`), and a login PIN handed to a session that was
finished (`ps/ps_stream_session.cpp:312`).

In the order of their weight:

1. `PeerManager` with the transport: callbacks against teardown, the owner's queue of events.
2. Audio: `AudioReorder`, the audio half of the pipeline with its start gate and source
   epoch, the player's ring.
3. `VideoRenderer`: slices, fences and the frame on hold at startup.
4. Sign-in: token refresh against its file, for Xbox and PSN; the repositories.
5. Rumble leases, touchpad contacts, the local latency policy.
6. An abstract `DecodeChain` refined by `MediaVideo`.
