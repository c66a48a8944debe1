----------------------------- MODULE VideoJitter -----------------------------
(****************************************************************************)
(* VideoRtpJitterBuffer: RTP packets come in lost, reordered or twice; the  *)
(* buffer puts them back into frames, asks for what is missing (NACK),      *)
(* hands complete access units to the decoder in order, and asks for a key  *)
(* frame when the reference chain is damaged.  Everything happens inside    *)
(* receive(): there is no timer, a deadline is seen by the next packet.     *)
(*                                                                          *)
(* The object is one record, `buffer`; an operator that takes and returns   *)
(* such a record stands for one member function.  The callbacks a call      *)
(* makes are queued in buffer.out and taken, in order, before the next      *)
(* call: receive() runs them on the spot and none of them calls back in.    *)
(* The frames in progress are a set, in the order of their timestamps, and  *)
(* the ranges asked for again another, in the order of their numbers.       *)
(****************************************************************************)
EXTENDS Integers, Sequences, FiniteSets

CONSTANTS
    Stream,       \* the sender's packets in sending order, see Packet below
    First,        \* the sequence number of the first of them
    SeqSpace,       \* size of the sequence number space (2^16)
    Opening,      \* which positions of the stream may arrive first
    Ahead,        \* bound: how far a packet may overtake the newest one,
    Behind,       \*   how far it may lag behind it,
    MaxTwice,     \*   how many packets the network may deliver twice,
    MaxTime,      \*   and how long the run may last
    Window,       \* kSequenceWindow
    MaxFrames,    \* kMaxBufferedFrames
    MaxPackets,   \* kMaxBufferedPackets (and bytes)
    MaxNackGap, MaxRanges, MaxRounds, NackBudget, NackSpan,
    NackWindow, RetryAfter, Rtt,          \* time, in ticks
    Hold, MissingHold, RecoveryHold, MaxFrameHold, NotifyGap, SoftWindow,
    MaxHeadBlocked, HeadBlockedHold

ASSUME SizeAssumption ==
    /\ {MaxFrames, MaxPackets, MaxRanges, NackBudget, NackSpan, Window, SeqSpace, MaxTime}
         \subseteq Nat \ {0}
    /\ {MaxNackGap, MaxRounds, Ahead, Behind, MaxTwice} \subseteq Nat
    /\ First \in 0..(SeqSpace - 1)

VARIABLES
    now,      \* the clock receive() is called with
    copies,   \* how often the network has delivered each packet
    buffer,   \* VideoRtpJitterBuffer::Impl
    decoder   \* history: what the decoder got, see FrameDelivery

vars == <<now, copies, buffer, decoder>>

(* A packet: its frame's number (the timestamp), what the payload holds     *)
(* ("key": a slice of an IDR, "params": SPS or PPS, "delta", "padding":     *)
(* nothing), whether it starts a NAL unit, whether it has the marker bit,   *)
(* whether the depacketizer rejects it, and the SSRC it was sent from.      *)
Positions == DOMAIN Stream
FrameOf(n) == {i \in Positions : Stream[i].ts = n /\ Stream[i].kind # "padding"}

ASSUME StreamAssumption ==
    Stream \in Seq([ts : Nat \ {0}, kind : {"key", "params", "delta", "padding"},
                    head : BOOLEAN, marker : BOOLEAN, bad : BOOLEAN, ssrc : Nat])

(* A frame's packets follow those of the frame before it, none has no       *)
(* payload at all, and the marker bit is on the last packet of a frame.     *)
ASSUME SenderAssumption ==
    /\ \A i, j \in Positions : i <= j => Stream[i].ts <= Stream[j].ts
    /\ \A i \in Positions : \A n \in 1..Stream[i].ts : FrameOf(n) # {}
    /\ \A i \in Positions : \A j, k \in FrameOf(Stream[i].ts) : Stream[j].marker => k <= j

(* Where a source can begin: at the start, or near a packet of another one  *)
Beginnings ==
    {i \in Positions :
       \/ i \in Opening
       \/ \E h \in Positions : /\ Stream[h].ssrc # Stream[i].ssrc
                               /\ i >= h - Behind /\ i <= h + Ahead + Behind}

(* Packets stay near each other, and a source does not begin so close to a  *)
(* wrap of the number that an earlier packet of it is still to come from    *)
(* before the wrap: the code would take that one for a jump ahead.          *)
ASSUME NetworkAssumption ==
    /\ Ahead + Behind < SeqSpace \div 2
    /\ \A i \in Beginnings : (First + i - 1) % SeqSpace >= Behind

None == -1

(* History: the last frame shown, the reference chain, whether a key frame  *)
(* was asked for since the last one, the newest frame an overflow discarded *)
NoPicture == [shown |-> 0, chain |-> "none", asked |-> FALSE, forgotten |-> 0]

EmptyBuffer ==
    [frames |-> {}, received |-> {}, have |-> FALSE, highest |-> 0,
     base |-> 0, unique |-> 0, waiting |-> TRUE, lastTs |-> 0,
     lastSeq |-> None, notified |-> FALSE, notifiedAt |-> 0,
     resetNotified |-> FALSE, soft |-> FALSE, softAt |-> 0, softCount |-> 0,
     windowAt |-> None, windowSent |-> 0, ranges |-> {}, ssrc |-> None,
     detected |-> 0, recovered |-> 0, unrecovered |-> 0, out |-> <<>>,
     decoder |-> NoPicture]

(* resetForSource keeps the totals that congestion control reads            *)
ForSource(s, ssrc) ==
    [EmptyBuffer EXCEPT !.ssrc = ssrc, !.out = s.out, !.decoder = s.decoder,
        !.detected = s.detected, !.recovered = s.recovered,
        !.unrecovered = s.unrecovered]

(* A callback, with what the decoder has once it and those before are done  *)
Emit(s, kind, ts, then) ==
    [s EXCEPT !.out = Append(@, [kind |-> kind, ts |-> ts, then |-> then]),
              !.decoder = then]

-----------------------------------------------------------------------------
(* Sequence numbers *)

Extend(s, seq) ==
    LET low  == s.highest % SeqSpace
        near == s.highest - low + seq
        half == SeqSpace \div 2
    IN IF seq < low /\ low - seq > half THEN near + SeqSpace
       ELSE IF seq > low /\ seq - low > half /\ near >= SeqSpace
            THEN near - SeqSpace ELSE near

WasReceived(s, x) ==
    s.have /\ x <= s.highest /\ s.highest - x < Window /\ x \in s.received

RangeReceived(s, from, to) ==
    \/ to < from
    \/ to - from < Window /\ \A x \in from..to : WasReceived(s, x)

Missing(s, r) == {x \in r.begin..(r.end - 1) : ~WasReceived(s, x)}

-----------------------------------------------------------------------------
(* Negative acknowledgements: pending ranges of missing packets.  A range   *)
(* carries the timestamp of the packet that exposed the gap.                *)

NackHold(r) == IF r.candidate THEN RecoveryHold ELSE MissingHold

RangesOf(s, ts) == {r \in s.ranges : r.ts = ts}

DropRanges(s, gone) == [s EXCEPT !.ranges = @ \ gone]

(* Range by range: a packet that two of them missed would count twice       *)
CountUnrecovered(s, gone) ==
    [s EXCEPT !.unrecovered =
        @ + Cardinality(UNION {{r} \X Missing(s, r) : r \in gone})]

Answered(s) == {r \in s.ranges : Missing(s, r) = {}}
Expired(s, t) == {r \in s.ranges : t - r.seen >= NackHold(r)}

(* Seeded fault: an expired range is written off at every look *)
ExpiredKept(s, t) == DropRanges(CountUnrecovered(s, Expired(s, t)), Answered(s))

CompactNacks(s, t) ==
    DropRanges(CountUnrecovered(s, Expired(s, t)), Expired(s, t) \cup Answered(s))

AbandonNacks(s, ts) ==
    DropRanges(CountUnrecovered(s, RangesOf(s, ts)), RangesOf(s, ts))

ClearNacks(s) == DropRanges(CountUnrecovered(s, s.ranges), s.ranges)

RetryCanMeetDeadline(r, t) ==
    r.rounds = 0 \/ (t - r.seen < NackHold(r) /\ Rtt <= NackHold(r) - (t - r.seen))

(* The packet numbers that name the NACKs a range needs from its cursor on: *)
(* each one covers the NackSpan numbers that start with it                  *)
Pids(s, r) ==
    LET named[x \in r.begin..(r.end - 1)] ==
            /\ x \in Missing(s, r) /\ x >= r.cursor
            /\ \A y \in r.begin..(x - 1) : named[y] => y + NackSpan <= x
    IN {x \in r.begin..(r.end - 1) : named[x]}

(* One pass over the ranges, in order of their numbers: those that were not *)
(* asked for yet, then those that were.  The budget of the window may end   *)
(* it, and a NACK that the transport refuses (~link) does.                  *)
HasTurn(r, t, retry) ==
    /\ r.rounds < MaxRounds
    /\ (r.rounds > 0) = retry
    /\ r.candidate => r.authorized
    /\ t >= r.next

Asks(s, t, retry) ==
    UNION {Pids(s, r) : r \in {q \in s.ranges :
             HasTurn(q, t, retry) /\ RetryCanMeetDeadline(q, t)}}

LastOf(S) == CHOOSE x \in S : \A y \in S : y <= x

Pass(s, t, retry, link) ==
    LET left == NackBudget - s.windowSent
        asks == Asks(s, t, retry)
        AsksBefore(x) == Cardinality({y \in asks : y < x})
        tried == {x \in asks : AsksBefore(x) < left}
        sent == IF link THEN tried ELSE {}
        Open(x) == left > 0 /\ IF link THEN AsksBefore(x) < left ELSE AsksBefore(x) = 0
        mine(r) == sent \cap Pids(s, r)
        cursor(r) == IF mine(r) = {} THEN r.cursor
                     ELSE IF LastOf(mine(r)) + NackSpan < r.end
                     THEN LastOf(mine(r)) + NackSpan ELSE r.end
        After(r) ==
            IF ~HasTurn(r, t, retry) \/ ~Open(r.begin) THEN r
            ELSE IF ~RetryCanMeetDeadline(r, t) THEN [r EXCEPT !.rounds = MaxRounds]
            ELSE IF cursor(r) >= r.end \/ Open(r.end)
            THEN [r EXCEPT !.rounds = @ + 1, !.cursor = r.begin, !.next = t + RetryAfter]
            ELSE [r EXCEPT !.cursor = cursor(r)]
    IN [s EXCEPT !.ranges = {After(r) : r \in @},
                 !.windowSent = @ + Cardinality(sent)]

Refused(s, t, retry, link) ==
    ~link /\ s.windowSent < NackBudget /\ Asks(s, t, retry) # {}

(* drainPendingNacks *)
DrainNacks(s, t, link) ==
    LET c == CompactNacks(s, t)
        w == IF c.windowAt = None \/ t - c.windowAt >= NackWindow
             THEN [c EXCEPT !.windowAt = t, !.windowSent = 0] ELSE c
        first == Pass(w, t, FALSE, link)
        again == Pass(first, t, TRUE, link)
    IN IF c.ranges = {} THEN c
       ELSE IF Refused(w, t, FALSE, link) THEN first
       ELSE IF Refused(first, t, TRUE, link) THEN again
       ELSE CompactNacks(again, t)

SendNacks(s, begin, end, ts, t, key, link) ==
    LET gap == [s EXCEPT !.unrecovered = @ + (end - begin)]
        c   == CompactNacks(s, t)
    IN IF end - begin > MaxNackGap THEN gap
       ELSE IF Cardinality(c.ranges) >= MaxRanges
            THEN [c EXCEPT !.unrecovered = @ + (end - begin)]
       ELSE DrainNacks(
              [c EXCEPT !.ranges = @ \cup
                 {[begin |-> begin, cursor |-> begin, end |-> end, ts |-> ts,
                   seen |-> t, next |-> t, rounds |-> 0,
                   candidate |-> c.waiting,
                   authorized |-> ~c.waiting \/ key]}], t, link)

(* noteSequence for a number that was not seen before *)
NoteNewer(s, x, p, t, link) ==
    LET seen == [s EXCEPT !.highest = x, !.unique = @ + 1,
                   !.received = {y \in @ : x - y < Window} \cup {x}]
    IN IF x = s.highest + 1 THEN seen
       ELSE SendNacks([seen EXCEPT !.detected = @ + (x - s.highest - 1)],
                      s.highest + 1, x, p.ts, t, p.kind = "key", link)

NoteOlder(s, x) ==
    LET counted == x >= s.base
    IN [s EXCEPT !.received = @ \cup {x},
                 !.unique = IF counted THEN @ + 1 ELSE @,
                 !.recovered = IF counted THEN @ + 1 ELSE @]

IsDuplicate(s, x) ==
    s.have /\ x <= s.highest /\ (s.highest - x >= Window \/ x \in s.received)

NoteSequence(s, x, p, t, link) ==
    IF ~s.have
    THEN [s EXCEPT !.have = TRUE, !.highest = x, !.base = x, !.unique = 1,
                   !.received = {x}]
    ELSE IF IsDuplicate(s, x) THEN s
    ELSE IF x > s.highest THEN NoteNewer(s, x, p, t, link)
    ELSE NoteOlder(s, x)

-----------------------------------------------------------------------------
(* Recovery requests *)

NotifyRecovery(s, t, force) ==
    IF ~force /\ s.notified /\ t - s.notifiedAt < NotifyGap THEN s
    ELSE Emit([s EXCEPT !.notified = TRUE, !.notifiedAt = t], "ask", 0,
              [s.decoder EXCEPT !.asked = TRUE])

HasKey(frame) == \E k \in frame.packets : Stream[k.pos].kind = "key"
HasRecoveryPoint(frame) ==
    \E k \in frame.packets : Stream[k.pos].kind \in {"key", "params"}
KeyBuffered(s, ts) ==
    \E f \in s.frames : f.ts = ts /\ HasKey(f)

(* Seeded fault: only a recovery that resets the decoder asks at once *)
RecoveryWaits(s, t, ts, reset) ==
    LET w == [s EXCEPT !.waiting = TRUE, !.soft = FALSE, !.softCount = 0,
                       !.ranges = {r \in @ : r.ts > ts}]
    IN IF reset THEN NotifyRecovery(w, t, TRUE) ELSE w

EnterRecovery(s, t, ts, reset) ==
    LET tentative == {[r EXCEPT !.candidate = TRUE,
                                !.authorized = KeyBuffered(s, r.ts)] :
                          r \in {q \in s.ranges : q.ts > ts}}
        w == [s EXCEPT !.waiting = TRUE, !.ranges = tentative,
                       !.soft = FALSE, !.softCount = 0]
    IN IF reset /\ ~s.resetNotified
       THEN NotifyRecovery([w EXCEPT !.resetNotified = TRUE], t, TRUE)
       ELSE NotifyRecovery(w, t, ~s.waiting)

RequestSoftRecovery(s, t) ==
    NotifyRecovery([s EXCEPT !.soft = TRUE], t, ~s.soft)

(* softLossRequiresHardRecovery: two losses within the window *)
NoteSoftLoss(s, t) ==
    [s EXCEPT !.softAt = t,
       !.softCount = IF s.softAt > 0 /\ t - s.softAt <= SoftWindow
                     THEN @ + 1 ELSE 1]

AuthorizeNacks(s, ts, t, link) ==
    DrainNacks([s EXCEPT !.ranges = {[r EXCEPT !.authorized = @ \/ r.candidate] :
                    r \in {q \in s.ranges : ~q.candidate \/ q.ts = ts}}], t, link)

-----------------------------------------------------------------------------
(* Assembly *)

Media(frame) == {k \in frame.packets : Stream[k.pos].kind # "padding"}
FirstMedia(frame) ==
    CHOOSE k \in Media(frame) : \A m \in Media(frame) : k.seq <= m.seq
Markers(frame) == {k \in Media(frame) : Stream[k.pos].marker}
Marker(frame) == CHOOSE k \in Markers(frame) : \A m \in Markers(frame) : m.seq <= k.seq
Body(frame) ==
    {k \in Media(frame) : k.seq <= Marker(frame).seq}

(* Seeded fault: a picture is never seen to follow a hole *)
HoleUnseen(s, frame) == FALSE

(* The hole test that decides between Complete and CompleteDiscontinuous    *)
FollowsHole(s, frame) ==
    /\ ~s.waiting
    /\ s.lastSeq # None
    /\ FirstMedia(frame).seq > s.lastSeq + 1
    /\ ~RangeReceived(s, s.lastSeq + 1, FirstMedia(frame).seq - 1)
    /\ ~HasKey([packets |-> Body(frame)])

Assemble(s, frame) ==
    IF Markers(frame) = {} \/ ~Stream[FirstMedia(frame).pos].head
    THEN "incomplete"
    ELSE IF FirstMedia(frame).seq > Marker(frame).seq THEN "invalid"
    ELSE IF ~RangeReceived(s, FirstMedia(frame).seq, Marker(frame).seq)
    THEN "incomplete"
    ELSE IF \E k \in Body(frame) : Stream[k.pos].bad THEN "invalid"
    ELSE IF FollowsHole(s, frame) THEN "discontinuous" ELSE "complete"

-----------------------------------------------------------------------------
(* drain(): the front frame is handed on, given up, or keeps its place      *)

Front(s) == CHOOSE f \in s.frames : \A g \in s.frames : f.ts <= g.ts

PopFrame(s) == [s EXCEPT !.frames = @ \ {Front(s)}]

WholeFrame(frame) == FrameOf(frame.ts) \subseteq {k.pos : k \in Body(frame)}

(* assemble() returns CompleteDiscontinuous before it has set the marker's  *)
(* sequence number, so behind a hole 0 is remembered and every picture up   *)
(* to the next key frame counts as following one.                           *)
HandOn(s, t, hole) ==
    LET f    == Front(s)
        key  == HasKey([packets |-> Body(f)])
        done == PopFrame(DropRanges(
                  [s EXCEPT !.lastTs = f.ts,
                            !.lastSeq = IF hole THEN 0 ELSE Marker(f).seq],
                  RangesOf(s, f.ts)))
        live == [done EXCEPT !.waiting = FALSE]
        told == IF key
                THEN [live EXCEPT !.soft = FALSE, !.softCount = 0,
                                  !.notified = FALSE, !.resetNotified = FALSE]
                ELSE IF hole THEN RequestSoftRecovery(live, t)
                ELSE IF live.soft THEN NotifyRecovery(live, t, FALSE)
                ELSE [live EXCEPT !.notified = FALSE]
        whole == f.ts = told.decoder.shown + 1 /\ WholeFrame(f)
    IN IF s.waiting /\ ~key THEN NotifyRecovery(done, t, FALSE)
       ELSE Emit(told, "show", f.ts,
              [told.decoder EXCEPT
                 !.shown = f.ts,
                 !.chain = IF key THEN "whole" ELSE IF whole THEN @ ELSE "broken",
                 !.asked = @ /\ ~key])

FrameHold(s, f) ==
    IF s.waiting /\ HasRecoveryPoint(f) THEN RecoveryHold
    ELSE IF RangesOf(s, f.ts) # {} THEN MissingHold
    ELSE Hold

IdleTimeout(s, f, t) == t - f.progress >= FrameHold(s, f)
BacklogTimeout(s, f, t) ==
    /\ Cardinality(s.frames) > MaxHeadBlocked
    /\ t - f.progress >= HeadBlockedHold \/ IdleTimeout(s, f, t)
HardTimeout(f, t) == t - f.seen >= MaxFrameHold

GiveUp(s, t, invalid) ==
    LET f    == Front(s)
        gone == Emit(PopFrame([AbandonNacks(s, f.ts) EXCEPT !.lastTs = f.ts,
                        !.lastSeq = LastOf({k.seq : k \in f.packets})]),
                     "lost", f.ts, s.decoder)
        hard == invalid \/ HardTimeout(f, t) \/ s.waiting \/ HasKey(f)
        noted == IF ~hard /\ IdleTimeout(s, f, t) THEN NoteSoftLoss(gone, t)
                 ELSE gone
        again == ~hard /\ IdleTimeout(s, f, t) /\ noted.softCount >= 2
    IN IF hard \/ again THEN EnterRecovery(noted, t, f.ts, invalid)
       ELSE RequestSoftRecovery(noted, t)

DrainFront(s, t) ==
    LET f == Front(s)
        result == Assemble(s, f)
    IN IF result \in {"complete", "discontinuous"}
       THEN HandOn(s, t, result = "discontinuous")
       ELSE IF \/ result = "invalid"
               \/ IdleTimeout(s, f, t)
               \/ BacklogTimeout(s, f, t)
               \/ HardTimeout(f, t)
       THEN GiveUp(s, t, result = "invalid")
       ELSE s

(* As many rounds as there are frames: one that takes none out is the last  *)
Drain(s, t) ==
    LET round[n \in 0..Cardinality(s.frames)] ==
            IF n = 0 THEN s
            ELSE IF round[n - 1].frames = {} THEN round[n - 1]
            ELSE DrainFront(round[n - 1], t)
    IN round[Cardinality(s.frames)]

(* The frames are discarded, but not what noteSequence knows of their       *)
(* packets: they count as received.  `ts` is the frame that found no room.  *)
Overflow(s, ts, t) ==
    LET newest == LastOf({f.ts : f \in s.frames} \cup {ts, s.decoder.forgotten})
        gone == Emit(ClearNacks([s EXCEPT !.frames = {}]), "forgot", newest,
                     [s.decoder EXCEPT !.forgotten = newest])
    IN EnterRecovery(gone, t, 0, TRUE)

-----------------------------------------------------------------------------
(* receive() *)

BufferedPackets(s) == Cardinality(UNION {f.packets : f \in s.frames})

Place(s, ts, t) ==    \* createFrame
    [s EXCEPT !.frames = @ \cup {[ts |-> ts, seen |-> t, progress |-> t, packets |-> {}]}]

Store(s, i, x, t, link) ==
    LET p == Stream[i]
        f == CHOOSE g \in s.frames : g.ts = p.ts
        stored == [s EXCEPT !.frames = (@ \ {f}) \cup
            {[f EXCEPT !.packets = @ \cup {[seq |-> x, pos |-> i]},
                       !.progress = IF p.kind = "padding" THEN @ ELSE t]}]
    IN Drain(IF s.waiting /\ p.kind = "key"
             THEN AuthorizeNacks(stored, p.ts, t, link) ELSE stored, t)

Insert(s, i, x, t, link) ==
    LET p == Stream[i]
        known == \E f \in s.frames : f.ts = p.ts
        placed == IF known THEN s ELSE Place(s, p.ts, t)
    IN IF ~known /\ (p.kind = "padding" \/ (s.lastTs # 0 /\ p.ts <= s.lastTs))
       THEN Drain(s, t)
       ELSE IF ~known /\ Cardinality(s.frames) >= MaxFrames THEN Overflow(s, p.ts, t)
       ELSE IF BufferedPackets(s) >= MaxPackets THEN Overflow(placed, p.ts, t)
       ELSE Store(placed, i, x, t, link)

(* A new SSRC resets the buffer before its first packet is looked at        *)
ChangeSource(s, t, ssrc) ==
    IF s.ssrc = None THEN [s EXCEPT !.ssrc = ssrc]
    ELSE IF s.ssrc = ssrc THEN s
    ELSE NotifyRecovery(Emit(ForSource(s, ssrc), "restart", 0, NoPicture), t, TRUE)

Receive(s, i, t, link) ==
    LET p  == Stream[i]
        c  == ChangeSource(s, t, p.ssrc)
        sq == (First + i - 1) % SeqSpace
        x  == IF c.have THEN Extend(c, sq) ELSE sq
        n  == DrainNacks(NoteSequence(c, x, p, t, link), t, link)
    IN IF IsDuplicate(c, x) THEN n ELSE Insert(n, i, x, t, link)

-----------------------------------------------------------------------------
(* The network and the clock *)

Newest == LET seen == {i \in Positions : copies[i] > 0}
          IN IF seen = {} THEN 0 ELSE CHOOSE i \in seen : \A j \in seen : j <= i

Twice == {i \in Positions : copies[i] = 2}

Deliverable(i) ==
    /\ copies[i] = 0 \/ (copies[i] = 1 /\ Cardinality(Twice) < MaxTwice)
    /\ IF Newest = 0 THEN i \in Opening
       ELSE i <= Newest + Ahead /\ i >= Newest - Behind

Init ==
    /\ now = 1
    /\ copies = [i \in Positions |-> 0]
    /\ buffer = EmptyBuffer
    /\ decoder = NoPicture

Deliver(i, link) ==
    /\ buffer.out = <<>>
    /\ Deliverable(i)
    /\ copies' = [copies EXCEPT ![i] = @ + 1]
    /\ buffer' = Receive(buffer, i, now, link)
    /\ UNCHANGED <<now, decoder>>

(* The owner takes the callbacks of a call in the order they were made      *)
Callback ==
    /\ buffer.out # <<>>
    /\ decoder' = Head(buffer.out).then
    /\ buffer' = [buffer EXCEPT !.out = Tail(@)]
    /\ UNCHANGED <<now, copies>>

Elapse ==
    /\ buffer.out = <<>>
    /\ now < MaxTime
    /\ now' = now + 1
    /\ UNCHANGED <<copies, buffer, decoder>>

(* reset(): the connection is set up again and its stream starts afresh *)
Reset ==
    /\ buffer.out = <<>>
    /\ buffer.have
    /\ buffer' = EmptyBuffer
    /\ copies' = [i \in Positions |-> 0]
    /\ decoder' = NoPicture
    /\ UNCHANGED now

Next ==
    \/ \E i \in Positions, link \in BOOLEAN : Deliver(i, link)
    \/ Callback
    \/ Elapse
    \/ Reset

Spec == Init /\ [][Next]_vars

-----------------------------------------------------------------------------
(* Properties *)

(* Type correctness: the buffer's bounds (32 frames, 2048 packets, 32       *)
(* ranges) hold in every state between two calls of receive().              *)
TypeOK ==
    /\ now \in 1..MaxTime
    /\ copies \in [Positions -> 0..2]
    /\ Cardinality(buffer.frames) <= MaxFrames
    /\ BufferedPackets(buffer) <= MaxPackets
    /\ Cardinality(buffer.ranges) <= MaxRanges
    /\ buffer.windowSent \in 0..NackBudget

(* The decoder gets frames in order, at most once, starting with a key      *)
(* frame, and never follows a hole without a key frame having been asked    *)
(* for (drain, FollowsHole, requestSoftRecovery, enterRecovery).            *)
Delivery == INSTANCE FrameDelivery WITH
    Frame <- {Stream[i].ts : i \in Positions},
    shown <- decoder.shown, chain <- decoder.chain,
    asked <- decoder.asked, forgotten <- decoder.forgotten
DeliversFrames == Delivery!Spec

(* While the buffer holds every picture back for a key frame, the request   *)
(* for it is on its way: a stream that froze itself asked to be thawed.     *)
FreezeIsAsked ==
    buffer.out = <<>> /\ buffer.waiting /\ buffer.lastTs # 0 => decoder.asked

(* A frame that leaves, handed on or given up, takes the requests for its   *)
(* packets along: no retransmission is asked for that nobody waits for.     *)
(* (A packet of a frame already gone can still open a range of its own.)    *)
GoneFramesAreNotAsked ==
    \A n \in DOMAIN buffer.out, r \in buffer.ranges :
        buffer.out[n].kind \in {"show", "lost"} => r.ts # buffer.out[n].ts

(* What is asked of the sender: the key frame a frozen picture needs, and   *)
(* no packet that nobody waits for.                                         *)
RequestSafety == FreezeIsAsked /\ GoneFramesAreNotAsked

(* Congestion control never sees more packets lost for good, or still       *)
(* awaited, than were ever found missing: a packet is written off once,     *)
(* whichever of expiry, abandonment, overflow and a full list gets to it.   *)
LossIsCountedOnce ==
    buffer.unrecovered + Cardinality(UNION {Missing(buffer, r) : r \in buffer.ranges})
        <= buffer.detected

(* The receiver report never hides a loss: reordering, copies, late packets *)
(* and window shifts do not let it count more packets than have come.       *)
ReportCountsOnce ==
    buffer.unique <= Cardinality({i \in Positions : copies[i] > 0})

(* The totals that congestion control and the console steer by add up, and  *)
(* the buffer keeps its bounds.                                             *)
AccountingSafety == TypeOK /\ LossIsCountedOnce /\ ReportCountsOnce
=============================================================================
