----------------------------- MODULE XboxControl -----------------------------
(****************************************************************************)
(* Controller input on an Xbox stream, from the gamepad to the wire, and    *)
(* the start-up protocol that has to come before it.  Two threads:          *)
(*   - the input thread of XboxStreamSession reads the pad every 8 ms and   *)
(*     publishes what it saw in the InputAccumulator;                       *)
(*   - the owner loop takes it from there into the OutboundQueue, pumps the *)
(*     peer connection, runs XboxChannelManager's start-up protocol on a    *)
(*     new association and replaces an association that failed.             *)
(* An association is one SCTP association with the console: `wire` is what  *)
(* has been sent on it, the reliable bodies and the first input packet, and *)
(* `pad` is the sample the console was given last.                          *)
(****************************************************************************)
EXTENDS InputAccumulator, OutboundQueue, FiniteSets

CONSTANTS
    MaxTurns,       \* bound: how often the player turns the button
    MaxTrouble,     \* bound: failed sends, lost connections, timeouts, drains cut
                    \* short, with the feedback, NACKs and key-frame requests
    MaxReconnects   \* fresh sessions tried before the stream gives up: 5

ASSUME BoundAssumption == {MaxTurns, MaxTrouble, MaxReconnects} \subseteq Nat

VARIABLES
    turn,        \* what the player does: the button has been turned so often
    thread,      \* the input thread: [busy, sample, ready]
    acc,         \* input_accumulator_
    ready,       \* input_delivery_ready_
    pc,          \* where the owner loop is
    stage,       \* how far the start-up protocol is; control_started = "started"
    snap,        \* the snapshot the owner loop holds: [type, sample]
    q,           \* the outbound queue and the health of the data channels
    drain,       \* drainOutboundCommands: [sctp, begun, late]
    connected,   \* connected_ of the peer manager
    ack,         \* handshake_ready_
    prepared,    \* reconnect_prepared
    reconnects,  \* reconnect_count
    wire, pad,   \* what the association has carried
    taken,       \* how many reliable commands the queue has taken for it
    since,       \* the newest sample when the association was started
    trouble

input == <<turn, thread>>
peer == <<q, connected, wire, pad, taken>>
session == <<stage, ack, prepared, reconnects, since>>
vars == <<input, acc, ready, pc, snap, drain, peer, session, trouble>>

Stages == {"idle", "handshake", "auth", "final", "started"}
Starting == {"handshake", "auth", "final"}
Startup == {"auth", "removed", "added", "startup", "metadata"}
NoSnapshot == [type |-> "InputLatest", sample |-> 0]
Fresh == [sctp |-> TRUE, begun |-> FALSE, late |-> FALSE]

(* PeerManager::isConnected *)
IsConnected == connected /\ ~q.failed
Goto(place) == pc' = place

-----------------------------------------------------------------------------
(* What the owner queues.  The body of a reliable command is what it says    *)
(* and, for the properties, its number on the association.  A caller sends   *)
(* one command after the other and gives up when one is refused.             *)
Body(say, nr) == [say |-> say, nr |-> nr]

Sending == [q |-> q, taken |-> taken, ok |-> connected]
Send(s, type, say) ==
    IF s.ok /\ Accepts(s.q, type)
    THEN [s EXCEPT !.q = EnqueueData(@, type, Body(say, s.taken + 1)),
                   !.taken = @ + 1]
    ELSE [s EXCEPT !.ok = FALSE]
Queued(s) == q' = s.q /\ taken' = s.taken

(* requestVideoKeyframe: a PLI, then the advisory control message           *)
KeyframeRequest ==
    Queued(Send([Sending EXCEPT !.q = IF connected THEN EnqueueRtcp(q, "Pli") ELSE q],
                "Control", "keyframe"))

(* PeerManager::disconnect, as prepareFreshSessionReconnect uses it, with   *)
(* prepareInputForReconnect before it and XboxChannelManager::reset after   *)
PrepareFresh ==
    /\ ready' = FALSE
    /\ acc' = PrepareForReconnect(acc)
    /\ q' = EmptyQueue
    /\ connected' = FALSE
    /\ ack' = FALSE

-----------------------------------------------------------------------------
(* The input thread: one round of sampleInput, 8 ms after the last one      *)
Turn == /\ turn < MaxTurns /\ pc # "over"
        /\ turn' = turn + 1
        /\ UNCHANGED <<thread, acc, ready, pc, snap, drain, peer, session, trouble>>

Sample == /\ ~thread.busy /\ pc # "over"
          /\ thread' = [busy |-> TRUE, sample |-> turn, ready |-> ready]
          /\ UNCHANGED <<turn, acc, ready, pc, snap, drain, peer, session, trouble>>

Publish == /\ thread.busy
           /\ acc' = Published(acc, thread.sample, thread.ready)
           /\ thread' = [thread EXCEPT !.busy = FALSE, !.ready = FALSE]
           /\ UNCHANGED <<turn, ready, pc, snap, drain, peer, session, trouble>>

-----------------------------------------------------------------------------
(* The owner loop, runLoop: first the input                                 *)
PeekTransition ==
    /\ pc = "top"
    /\ IF stage = "started" /\ IsConnected
       THEN \E k \in 0..Len(acc.journal) :
              /\ acc' = Expire(acc, k)
              /\ IF HasTransition(acc')
                 THEN /\ snap' = [type |-> "InputTransition",
                                  sample |-> Head(acc'.journal)]
                      /\ Goto("queue")
                 ELSE Goto("latest") /\ UNCHANGED snap
       ELSE Goto("realtime") /\ UNCHANGED <<acc, snap>>
    /\ UNCHANGED <<input, ready, drain, peer, session, trouble>>

PeekNewest ==
    /\ pc = "latest"
    /\ IF HasLatest(acc)
       THEN /\ acc' = PeekLatest(acc)
            /\ snap' = [type |-> "InputLatest", sample |-> acc.latest]
            /\ Goto("queue")
       ELSE Goto("realtime") /\ UNCHANGED <<acc, snap>>
    /\ UNCHANGED <<input, ready, drain, peer, session, trouble>>

(* sendInputTransitionPacket or sendInputPacket *)
QueueInput ==
    /\ pc = "queue"
    /\ IF connected /\ Accepts(q, snap.type)
       THEN q' = EnqueueData(q, snap.type, snap.sample) /\ Goto("commit") /\ UNCHANGED snap
       ELSE Goto("realtime") /\ snap' = NoSnapshot /\ UNCHANGED q
    /\ UNCHANGED <<input, acc, ready, drain, connected, wire, pad, taken,
                   session, trouble>>

Commit ==
    /\ pc = "commit"
    /\ acc' = IF snap.type = "InputTransition"
              THEN CommitTransition(acc, snap.sample) ELSE CommitLatest(acc)
    /\ Goto("realtime")
    /\ snap' = NoSnapshot
    /\ UNCHANGED <<input, ready, drain, peer, session, trouble>>

-----------------------------------------------------------------------------
(* sendOutboundCommand and completeOutboundCommand for the i-th command     *)
Results == IF ~connected THEN {"transient", "fatal"}
           ELSE IF trouble < MaxTrouble THEN {"ok", "transient", "fatal"} ELSE {"ok"}

Sent(i, result) ==
    LET c == q.commands[i]
        first == \A k \in DOMAIN wire : wire[k].say # "input"
    IN /\ q' = Complete(q, i, result)
       /\ wire' = IF result = "ok" /\ c.type \in Reliable THEN Append(wire, c.body)
                  ELSE IF result = "ok" /\ c.type \in Realtime /\ first
                  THEN Append(wire, Body("input", 0)) ELSE wire
       /\ pad' = IF result = "ok" /\ c.type \in Realtime THEN c.body ELSE pad
       /\ trouble' = IF connected /\ result # "ok" THEN trouble + 1 ELSE trouble
       /\ UNCHANGED <<connected, taken>>

(* A command past its time to live is dropped unsent                        *)
Expired(i) ==
    /\ q.commands[i].type \in {"InputTransition", "Nack"}
    /\ q' = Complete(q, i, "ok")
    /\ UNCHANGED <<connected, wire, pad, taken, trouble>>

(* processEvents: one input command before the peer's loop ...              *)
PumpInput ==
    /\ pc = "realtime"
    /\ IF Selectable(q, Realtime) = {} THEN UNCHANGED <<peer, trouble>>
       ELSE LET i == Selected(q, Realtime)
            IN Expired(i) \/ \E result \in Results : Sent(i, result)
    /\ Goto("events")
    /\ UNCHANGED <<input, acc, ready, snap, drain, session>>

(* ... then what the network has for us ...                                 *)
Looped == Goto("drain") /\ UNCHANGED drain

LoopQuiet ==
    /\ pc = "events"
    /\ Looped
    /\ UNCHANGED <<input, acc, ready, snap, peer, session, trouble>>

LoopDrop ==
    /\ pc = "events" /\ connected /\ trouble < MaxTrouble
    /\ connected' = FALSE
    /\ trouble' = trouble + 1
    /\ Looped
    /\ UNCHANGED <<input, acc, ready, snap, q, wire, pad, taken, session>>

(* handleMessageChannelData: the console answers the handshake              *)
LoopAck ==
    /\ pc = "events" /\ connected /\ ~ack
    /\ \E i \in DOMAIN wire : wire[i].say = "handshake"
    /\ ack' = TRUE
    /\ Looped
    /\ UNCHANGED <<input, acc, ready, snap, peer, stage, prepared, reconnects, since,
                   trouble>>

(* onVideoTrack asks for a lost packet; the media is on once started        *)
LoopNack ==
    /\ pc = "events" /\ connected /\ stage = "started" /\ trouble < MaxTrouble
    /\ q' = EnqueueRtcp(q, "Nack")
    /\ trouble' = trouble + 1
    /\ Looped
    /\ UNCHANGED <<input, acc, ready, snap, connected, wire, pad, taken, session>>

(* ... then drainOutboundCommands.  A reliable command that is kept closes  *)
(* SCTP for this drain, a kept RTCP command ends it, and from the second    *)
(* command on the deadline may.                                             *)
Open == IF drain.sctp THEN DOMAIN Priority ELSE DOMAIN Priority \ Sctp

DrainOne ==
    /\ pc = "drain" /\ Selectable(q, Open) # {}
    /\ LET i == Selected(q, Open)
           rtcp == q.commands[i].type \notin Sctp
       IN \/ /\ Expired(i)
             /\ drain' = [drain EXCEPT !.begun = TRUE, !.late = FALSE]
             /\ UNCHANGED pc
          \/ \E result \in Results :
               LET kept == KeepForRetry(q.commands[i], result)
               IN /\ Sent(i, result)
                  /\ IF kept /\ rtcp
                     THEN Goto("pumped") /\ drain' = Fresh
                     ELSE /\ drain' = [sctp |-> drain.sctp /\ ~kept, begun |-> TRUE,
                                       late |-> drain.begun /\ ~kept]
                          /\ UNCHANGED pc
    /\ UNCHANGED <<input, acc, ready, snap, session>>

DrainDone ==
    /\ pc = "drain"
    /\ \/ Selectable(q, Open) = {} /\ UNCHANGED trouble
       \/ /\ Selectable(q, Open) # {} /\ drain.late
          /\ trouble < MaxTrouble /\ trouble' = trouble + 1
    /\ Goto("pumped")
    /\ drain' = Fresh
    /\ UNCHANGED <<input, acc, ready, snap, peer, session>>

-----------------------------------------------------------------------------
(* XboxChannelManager::startProtocol                                        *)
Begin ==
    /\ pc = "start"
    /\ LET sent == Send(Sending, "Message", "handshake")
       IN /\ Queued(sent)
          /\ stage' = IF sent.ok THEN "handshake" ELSE "idle"
          /\ Goto(CASE ~sent.ok -> "watch" [] sent.ok /\ ack -> "acked"
                [] OTHER -> "realtime")
    /\ UNCHANGED <<input, acc, ready, snap, drain, connected, wire, pad, ack, prepared,
                   reconnects, since, trouble>>

(* Seeded fault: a flush is over when nothing is pending, sent or not *)
NothingPending == ~HasPendingReliable(q)

(* waitForHandshake and flushReliableData after a pump: is it done?         *)
Flushed == ~HasPendingReliable(q) /\ ~q.event
Done == IF stage = "handshake" THEN ack /\ ~q.event ELSE Flushed

(* The failure event is consumed here: the run loop will not see it         *)
Fail ==
    /\ stage' = "idle"
    /\ q' = [q EXCEPT !.event = FALSE]
    /\ Goto("watch")
    /\ UNCHANGED <<connected, taken, since>>

(* 5 s without an answer, or 1.5 s with a reliable command that cannot be   *)
(* sent: a command that was tried is still there                            *)
MayTimeOut ==
    \/ stage = "handshake"
    \/ \E i \in Selectable(q, Reliable) : ~connected \/ q.commands[i].attempts > 0

ProtocolFails ==
    /\ pc = "pumped" /\ stage \in Starting
    /\ \/ q.event /\ UNCHANGED trouble
       \/ /\ ~q.event /\ MayTimeOut
          /\ IF connected THEN trouble < MaxTrouble /\ trouble' = trouble + 1
             ELSE UNCHANGED trouble
    /\ Fail
    /\ UNCHANGED <<input, acc, ready, snap, drain, wire, pad, ack, prepared, reconnects>>

ProtocolWaits ==
    /\ pc = "pumped" /\ stage \in Starting /\ ~q.event /\ ~Done
    /\ Goto("realtime")
    /\ UNCHANGED <<input, acc, ready, snap, drain, peer, session, trouble>>

ProtocolGoesOn ==
    /\ pc = "pumped" /\ stage \in Starting /\ Done
    /\ Goto(CASE stage = "handshake" -> "acked"
              [] stage = "auth" -> "delay"
              [] stage = "final" -> "enable")
    /\ UNCHANGED <<input, acc, ready, snap, drain, peer, session, trouble>>

QueuedOrFailed(s, next) ==
    /\ Queued(s)
    /\ stage' = IF s.ok THEN next ELSE "idle"
    /\ Goto(IF s.ok THEN "realtime" ELSE "watch")

Authorize ==
    /\ pc = "acked"
    /\ QueuedOrFailed(Send(Send(Sending, "Control", "auth"), "Control", "removed"), "auth")
    /\ UNCHANGED <<input, acc, ready, snap, drain, connected, wire, pad, ack, prepared,
                   reconnects, since, trouble>>

(* After the 500 ms of kGamepadAddDelay.  A sample the input thread took    *)
(* for the association before this one has long been published.             *)
AddGamepad ==
    /\ pc = "delay" /\ ~(thread.busy /\ thread.ready)
    /\ QueuedOrFailed(
         Send(Send(Send(Sending, "Control", "added"), "Message", "startup"),
              "InputReliable", "metadata"), "final")
    /\ UNCHANGED <<input, acc, ready, snap, drain, connected, wire, pad, ack, prepared,
                   reconnects, since, trouble>>

(* runLoop when startProtocol returned true *)
EnableMedia ==
    /\ pc = "enable"
    /\ acc' = PrepareForReconnect(acc)
    /\ since' = acc.latest
    /\ KeyframeRequest
    /\ Goto("ready")
    /\ UNCHANGED <<input, ready, snap, drain, connected, wire, pad, stage, ack, prepared,
                   reconnects, trouble>>

DeliverInput ==
    /\ pc = "ready"
    /\ stage' = "started"
    /\ ready' = TRUE
    /\ Goto("watch")
    /\ UNCHANGED <<input, acc, snap, drain, peer, ack, prepared, reconnects, since, trouble>>

-----------------------------------------------------------------------------
(* The rest of runLoop's pass.  First the health of the channels: a failure *)
(* event asks for a fresh session, and input stops when the channel is gone *)
CheckHealth ==
    /\ pc = "pumped" /\ stage \notin Starting
    /\ LET fresh == q.event /\ ~prepared
           lost == fresh \/ ~IsConnected
       IN /\ IF fresh THEN PrepareFresh
             ELSE /\ q' = [q EXCEPT !.event = FALSE]
                  /\ ready' = (ready /\ ~lost)
                  /\ acc' = IF ready /\ lost THEN PrepareForReconnect(acc) ELSE acc
                  /\ UNCHANGED <<connected, ack>>
          /\ prepared' = (prepared \/ fresh)
          /\ Goto(CASE lost -> "lost"
                    [] ~lost /\ stage = "idle" -> "start"
                    [] OTHER -> "watch")
    /\ UNCHANGED <<input, snap, drain, wire, pad, taken, stage, reconnects, since, trouble>>

(* The pass that was connected when it looked ends here: receiver feedback, *)
(* a key-frame request, the video watchdog, or none of them                 *)
Quiet ==
    /\ pc = "watch"
    /\ reconnects' = 0
    /\ Goto("top")
    /\ UNCHANGED <<input, acc, ready, snap, drain, peer, stage, ack, prepared, since, trouble>>

Feedback ==
    /\ pc = "watch" /\ stage = "started" /\ connected /\ trouble < MaxTrouble
    /\ q' = EnqueueRtcp(q, "ReceiverFeedback")
    /\ trouble' = trouble + 1
    /\ UNCHANGED <<input, acc, ready, pc, snap, drain, connected, wire, pad, taken,
                   session>>

RequestKeyframe ==
    /\ pc = "watch" /\ stage = "started" /\ trouble < MaxTrouble
    /\ KeyframeRequest
    /\ trouble' = trouble + 1
    /\ UNCHANGED <<input, acc, ready, pc, snap, drain, connected, wire, pad, session>>

Watchdog ==
    /\ pc = "watch" /\ stage = "started" /\ ~prepared /\ trouble < MaxTrouble
    /\ PrepareFresh
    /\ prepared' = TRUE
    /\ trouble' = trouble + 1
    /\ UNCHANGED <<input, pc, snap, drain, wire, pad, taken, stage, reconnects, since>>

(* The back-off of the next try has not passed                              *)
BackOff ==
    /\ pc = "lost" /\ reconnects < MaxReconnects
    /\ Goto("top")
    /\ UNCHANGED <<input, acc, ready, snap, drain, peer, session, trouble>>

StageAfter(ok) == IF ok THEN "idle" ELSE stage

(* reconnectWithFreshSession: up to here only this loop used the old peer   *)
Reconnect ==
    /\ pc = "lost" /\ reconnects < MaxReconnects
    /\ \E ok \in BOOLEAN :
         /\ connected' = ok
         /\ reconnects' = IF ok THEN 0 ELSE reconnects + 1
         /\ prepared' = ~ok
         /\ wire' = IF ok THEN <<>> ELSE wire
         /\ pad' = IF ok THEN 0 ELSE pad
         /\ taken' = IF ok THEN 0 ELSE taken
         /\ stage' = StageAfter(ok)
    /\ q' = EmptyQueue
    /\ ack' = FALSE
    /\ ready' = FALSE
    /\ acc' = IF prepared THEN acc ELSE PrepareForReconnect(acc)
    /\ Goto("top")
    /\ UNCHANGED <<input, snap, drain, since, trouble>>

GiveUp ==
    /\ pc = "lost" /\ reconnects >= MaxReconnects
    /\ Goto("over")
    /\ UNCHANGED <<input, acc, ready, snap, drain, peer, session, trouble>>

-----------------------------------------------------------------------------
Init ==
    /\ turn = 0 /\ thread = [busy |-> FALSE, sample |-> 0, ready |-> FALSE]
    /\ acc = EmptyAccumulator /\ ready = FALSE
    /\ pc = "top" /\ stage = "idle" /\ drain = Fresh
    /\ snap = NoSnapshot
    /\ q = EmptyQueue /\ connected = TRUE
    /\ ack = FALSE /\ prepared = FALSE /\ reconnects = 0
    /\ wire = <<>> /\ pad = 0 /\ taken = 0 /\ since = 0
    /\ trouble = 0

Owner ==
    \/ PeekTransition \/ PeekNewest \/ QueueInput \/ Commit
    \/ PumpInput \/ LoopQuiet \/ LoopDrop \/ LoopAck \/ LoopNack
    \/ DrainOne \/ DrainDone
    \/ Begin \/ ProtocolFails \/ ProtocolWaits \/ ProtocolGoesOn
    \/ Authorize \/ AddGamepad \/ EnableMedia \/ DeliverInput
    \/ CheckHealth \/ Quiet \/ Feedback \/ RequestKeyframe \/ Watchdog
    \/ BackOff \/ Reconnect \/ GiveUp

Next == Turn \/ Sample \/ Publish \/ Owner

(* The threads run; a console that got the handshake answers some time; the *)
(* protocol's deadlines and the back-off pass                               *)
Fairness ==
    /\ WF_vars(Sample) /\ WF_vars(Publish) /\ WF_vars(Owner)
    /\ SF_vars(LoopAck) /\ SF_vars(ProtocolFails) /\ SF_vars(Reconnect)

Spec == Init /\ [][Next]_vars /\ Fairness

-----------------------------------------------------------------------------
(* The numbered commands, on the wire and then still waiting                *)
Waiting == [i \in DOMAIN q.commands |->
              IF q.commands[i].type \in Reliable THEN q.commands[i].body
              ELSE Body("input", 0)]
Numbered(line) == {i \in DOMAIN line : line[i].nr > 0}

(* TypeOK: the journal and the outbound queue keep their limits             *)
(* (kMaxPendingTransitions, kMaxOutboundCommands), whatever is thrown out   *)
(* for what, and everything else has its type.                              *)
TypeOK ==
    /\ turn \in 0..MaxTurns
    /\ thread \in [busy : BOOLEAN, sample : 0..MaxTurns, ready : BOOLEAN]
    /\ acc \in [latest : 0..MaxTurns, sampled : BOOLEAN, dirty : BOOLEAN,
                held : BOOLEAN, journal : Seq(1..MaxTurns)]
    /\ Len(acc.journal) <= JournalCap
    /\ Len(q.commands) <= QueueCap
    /\ \A i \in DOMAIN q.commands :
         /\ q.commands[i].type \in DOMAIN Priority
         /\ q.commands[i].attempts < MaxAttempts + MaxPliAttempts
    /\ q.failed \in BOOLEAN /\ q.event \in BOOLEAN /\ q.streak \in 0..MaxStreak
    /\ stage \in Stages /\ ready \in BOOLEAN /\ ack \in BOOLEAN
    /\ connected \in BOOLEAN /\ prepared \in BOOLEAN
    /\ reconnects \in 0..MaxReconnects /\ pad \in 0..MaxTurns /\ since \in 0..MaxTurns
    /\ trouble \in 0..MaxTrouble

(* InputNeedsStartup: no controller packet goes out on an association       *)
(* before the whole start-up protocol has: authorization, gamepad removed   *)
(* and added, the capabilities and the metadata (runLoop's control_started, *)
(* across failed start-ups and fresh sessions).                             *)
InputNeedsStartup ==
    \A i \in DOMAIN wire :
        wire[i].say = "input" => Startup \subseteq {wire[j].say : j \in 1..i - 1}

(* ReliableInOrder: as long as the channel has not failed, the reliable     *)
(* commands the queue took are on the wire or still in the queue, each of   *)
(* them once, and the control and message commands in the order they were   *)
(* given: none is lost to a retry, to a timeout of the protocol or to a     *)
(* command of a higher priority, and none is doubled.                       *)
InOrder(line) ==
    \A i, j \in Numbered(line) :
        i < j => \/ line[i].nr < line[j].nr
                 \/ /\ "metadata" \in {line[i].say, line[j].say}
                    /\ line[i].nr # line[j].nr
AllThere(line) == {line[i].nr : i \in Numbered(line)} = 1..taken
ReliableInOrder ==
    q.failed \/ ~connected \/ (InOrder(wire \o Waiting) /\ AllThere(wire \o Waiting))

(* EdgesAreOfThisAssociation: once input runs on an association, the        *)
(* journal of button edges holds none sampled before it was started         *)
(* (prepareForReconnect).                                                   *)
EdgesAreOfThisAssociation ==
    stage = "started" =>
        \A i \in DOMAIN acc.journal : acc.journal[i] > since

(* FlushedBeforeDelay: the delay before the gamepad is added starts when    *)
(* the console has been told that it was removed: this attempt's            *)
(* authorization and removal are the last controls sent, and nothing        *)
(* reliable waits (startProtocol flushes before it sleeps).                 *)
FlushedBeforeDelay ==
    pc = "delay" =>
        /\ ~HasPendingReliable(q)
        /\ \E i, j \in DOMAIN wire :
             /\ i < j /\ wire[i].say = "auth" /\ wire[j].say = "removed"
             /\ \A k \in DOMAIN wire :
                  k > i /\ wire[k].say \in {"auth", "removed", "added"} => k = j

(* The order that a start-up, tried again or not, owes to the console.      *)
StartupSafety ==
    TypeOK /\ InputNeedsStartup /\ EdgesAreOfThisAssociation /\ FlushedBeforeDelay

(* ReleaseArrives: whatever is lost on the way (a packet that is sent once  *)
(* and dropped, an edge that grows old, a channel that fails, a session     *)
(* that is replaced), the console ends up with the button as the player     *)
(* left it, or the stream has given up.                                     *)
ReleaseArrives == <>[](pc = "over" \/ (stage = "started" /\ pad = turn))
=============================================================================
