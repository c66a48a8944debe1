---------------------------- MODULE OutboundQueue ----------------------------
(****************************************************************************)
(* PeerManager's outbound side: one bounded queue for everything the client *)
(* sends on a peer connection, drained by priority from processEvents, and  *)
(* the health of the data channels as the results of the sends show it.     *)
(* The queue is a record, an operator stands for one member function; the   *)
(* owner loop is the only thread that calls them.                           *)
(*                                                                          *)
(* A send returns "ok", "transient" (recoverable: the channel is still      *)
(* connected) or "fatal".  The age limits (250 ms) are reached together     *)
(* with the attempt limits: the model has the attempts only.                *)
(****************************************************************************)
EXTENDS Naturals, Sequences, SequencesExt

CONSTANTS
    QueueCap,       \* kMaxOutboundCommands
    MaxAttempts,    \* kMaxReliableSendAttempts
    MaxPliAttempts, \* kMaxPliSendAttempts
    MaxStreak       \* kMaxConsecutiveSctpSendFailures

ASSUME QueueAssumption ==
    /\ QueueCap \in Nat /\ MaxStreak \in Nat
    /\ MaxAttempts \in Nat \ {0} /\ MaxPliAttempts \in Nat \ {0}

Reliable == {"InputReliable", "Control", "Message"}
Realtime == {"InputTransition", "InputLatest"}
Sctp == Reliable \cup Realtime
Priority == [Pli |-> 0, Nack |-> 1, ReceiverFeedback |-> 2,
             InputTransition |-> 3, InputLatest |-> 4, InputReliable |-> 5,
             Control |-> 6, Message |-> 6]

Command(type, body) == [type |-> type, body |-> body, attempts |-> 0]

EmptyQueue == [commands |-> <<>>, failed |-> FALSE, event |-> FALSE, streak |-> 0]

(* Where a command of these types stands first in the queue, 0 if none does *)
FirstOf(q, types) ==
    SelectInSeq(q.commands, LAMBDA c : c.type \in types)
Full(q) == Len(q.commands) >= QueueCap
HasPendingReliable(q) == FirstOf(q, Reliable) # 0

(* enqueueData; a channel that failed takes nothing more                    *)
Accepts(q, type) ==
    ~q.failed /\ (~Full(q) \/ (type = "InputLatest" /\ FirstOf(q, {type}) # 0))
EnqueueData(q, type, body) ==
    LET old == IF type = "InputLatest" THEN FirstOf(q, {type}) ELSE 0
    IN IF ~Accepts(q, type) THEN q
       ELSE IF old # 0
       THEN [q EXCEPT !.commands[old] = Command(type, body)]
       ELSE [q EXCEPT !.commands = Append(@, Command(type, body))]

(* enqueueSimple and enqueueNack: what they may throw out of a full queue   *)
Expendable(type) ==
    CASE type = "Pli" -> {"InputLatest", "ReceiverFeedback", "Nack"}
      [] type = "Nack" -> {"InputLatest", "ReceiverFeedback"}
      [] type = "ReceiverFeedback" -> {}

(* Seeded fault: a full queue gives up its newest command, whatever it is *)
NewestGoes(q, type) == [q EXCEPT !.commands = Front(@)]

MakeRoom(q, type) ==
    LET victim == FirstOf(q, Expendable(type))
    IN IF victim = 0 THEN q ELSE [q EXCEPT !.commands = RemoveAt(@, victim)]

EnqueueRtcp(q, type) ==
    LET queued == FirstOf(q, {type})
        room == IF Full(q) THEN MakeRoom(q, type) ELSE q
        behind == FirstOf(room, Sctp \cup {"ReceiverFeedback"})
        at == CASE type = "Pli" -> 1
                [] type = "Nack" /\ behind # 0 -> behind
                [] OTHER -> Len(room.commands) + 1
    IN IF queued # 0
       THEN IF type = "ReceiverFeedback"
            THEN [q EXCEPT !.commands[queued] = Command(type, "rtcp")] ELSE q
       ELSE IF Full(room) THEN q
       ELSE [room EXCEPT !.commands = InsertAt(@, at, Command(type, "rtcp"))]

(* selectOutboundCommand: the first of those with the best priority         *)
Selectable(q, types) ==
    {i \in DOMAIN q.commands : q.commands[i].type \in types}
Selected(q, types) ==
    CHOOSE i \in Selectable(q, types) : \A j \in Selectable(q, types) :
        LET p == Priority[q.commands[i].type]
            o == Priority[q.commands[j].type]
        IN p < o \/ (p = o /\ i <= j)

KeepForRetry(c, result) ==
    CASE c.type \in Reliable -> result = "transient" /\ c.attempts + 1 < MaxAttempts
      [] c.type = "Nack" -> result # "ok" /\ c.attempts = 0
      [] c.type = "Pli" -> result # "ok" /\ c.attempts + 1 < MaxPliAttempts
      [] OTHER -> FALSE

MarkFailed(q) ==
    IF q.failed THEN q ELSE [q EXCEPT !.failed = TRUE, !.event = TRUE]

(* observeSctpSendResult *)
Observe(q, result) ==
    LET counted == [q EXCEPT !.streak = IF @ < MaxStreak THEN @ + 1 ELSE @]
    IN CASE result = "ok" -> [q EXCEPT !.streak = 0]
         [] result = "fatal" -> MarkFailed(q)
         [] result = "transient" ->
              IF counted.streak >= MaxStreak THEN MarkFailed(counted) ELSE counted

(* completeOutboundCommand; a reliable command that runs out of attempts    *)
(* takes the channel with it                                                *)
Complete(q, i, result) ==
    LET c == q.commands[i]
        kept == KeepForRetry(c, result)
        done == IF kept THEN [q EXCEPT !.commands[i].attempts = @ + 1]
                ELSE [q EXCEPT !.commands = RemoveAt(@, i)]
        seen == IF c.type \in Sctp THEN Observe(done, result) ELSE done
    IN IF c.type \in Reliable /\ result = "transient" /\ ~kept
       THEN MarkFailed(seen) ELSE seen
=============================================================================
