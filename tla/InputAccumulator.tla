--------------------------- MODULE InputAccumulator ---------------------------
(****************************************************************************)
(* XboxInputAccumulator: what the input thread has sampled and the owner    *)
(* loop has not sent yet.  The newest state is kept in one place and        *)
(* overwritten; a change of a button is also kept in a short journal, so    *)
(* that a tap between two packets is not lost.  Every operator is one       *)
(* critical section of the accumulator's mutex.                             *)
(*                                                                          *)
(* A sample is the number of times the player has turned the one button     *)
(* modelled, so a larger sample is a later one and an odd one is a press.   *)
(* The generation counter is only compared with the one of the snapshot     *)
(* the owner loop has peeked: `held` is whether they are still the same.    *)
(****************************************************************************)
EXTENDS Naturals, Sequences

CONSTANT JournalCap    \* kMaxPendingTransitions

ASSUME JournalAssumption == JournalCap \in Nat \ {0}

Down(sample) == sample % 2 = 1

EmptyAccumulator ==
    [latest |-> 0, sampled |-> FALSE, dirty |-> FALSE, held |-> FALSE,
     journal |-> <<>>]

(* Seeded fault: only a change is worth sending, the packet before it came   *)
(* through                                                                   *)
OnChange(a, sample, ready) ==
    LET edge == ready /\ a.sampled /\ Down(a.latest) # Down(sample)
        kept == IF edge /\ Len(a.journal) >= JournalCap
                THEN Tail(a.journal) ELSE a.journal
    IN [a EXCEPT !.latest = sample, !.sampled = TRUE,
                 !.dirty = @ \/ edge, !.held = @ /\ ~edge,
                 !.journal = IF edge THEN Append(kept, sample) ELSE kept]

(* publishAt *)
Published(a, sample, ready) ==
    LET edge == ready /\ a.sampled /\ Down(a.latest) # Down(sample)
        kept == IF edge /\ Len(a.journal) >= JournalCap
                THEN Tail(a.journal) ELSE a.journal
    IN [a EXCEPT !.latest = sample, !.sampled = TRUE,
                 !.dirty = @ \/ ready, !.held = @ /\ ~ready,
                 !.journal = IF edge THEN Append(kept, sample) ELSE kept]

(* peekTransition: the entries older than 50 ms, the first k, are dropped   *)
Expire(a, k) == [a EXCEPT !.journal = SubSeq(@, k + 1, Len(@))]
HasTransition(a) == a.journal # <<>>

(* peekLatest *)
HasLatest(a) == a.sampled /\ a.dirty
PeekLatest(a) == [a EXCEPT !.held = TRUE]

CommitLatest(a) ==
    IF a.held THEN [a EXCEPT !.dirty = FALSE, !.held = FALSE] ELSE a

CommitTransition(a, sample) ==
    IF HasTransition(a) /\ Head(a.journal) = sample
    THEN [a EXCEPT !.journal = Tail(@)] ELSE a

PrepareForReconnect(a) ==
    [a EXCEPT !.journal = <<>>, !.dirty = a.sampled, !.held = @ /\ ~a.sampled]
=============================================================================
