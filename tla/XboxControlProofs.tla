------------------------- MODULE XboxControlProofs -------------------------
(***************************************************************************)
(* Proofs about XboxControl, for every value of its constants.             *)
(***************************************************************************)
EXTENDS XboxControl, SequenceTheorems, WellFoundedInduction, TLAPS

(* Every set of numbers has a least one.                                   *)
LEMMA LeastNumber ==
  ASSUME NEW S \in SUBSET Nat, S # {}
  PROVE  \E m \in S : \A n \in S : m <= n
<1>1. PICK m \in S : \A n \in S : ~(<<n, m>> \in OpToRel(<, Nat))
  BY NatLessThanWellFounded, WFMin
<1>2. \A n \in S : ~(<<n, m>> \in OpToRel(<, Nat)) => m <= n
  BY DEF OpToRel
<1> QED BY <1>1, <1>2

(* FirstOf finds a command of the types, or there is none.                 *)
LEMMA FirstOfFinds ==
  ASSUME NEW s, NEW types, NEW S, s.commands \in Seq(S)
  PROVE  IF \E i \in 1..Len(s.commands) : s.commands[i].type \in types
         THEN /\ FirstOf(s, types) \in 1..Len(s.commands)
              /\ s.commands[FirstOf(s, types)].type \in types
         ELSE FirstOf(s, types) = 0
<1> DEFINE I == {i \in 1..Len(s.commands) : s.commands[i].type \in types}
<1>1. FirstOf(s, types) = IF I # {} THEN Min(I) ELSE 0
  BY DEF FirstOf, SelectInSeq
<1>2. I # {} => Min(I) \in I
  <2>1. I \in SUBSET Nat
    OBVIOUS
  <2> QED BY <2>1, LeastNumber DEF Min
<1> QED BY <1>1, <1>2

(* What is before the place stays, what is behind it moves up.             *)
LEMMA RemoveAtFacts ==
  ASSUME NEW S, NEW s \in Seq(S), NEW i \in 1..Len(s)
  PROVE  /\ RemoveAt(s, i) \in Seq(S)
         /\ Len(RemoveAt(s, i)) = Len(s) - 1
         /\ \A k \in 1..Len(s) - 1 :
              RemoveAt(s, i)[k] = IF k < i THEN s[k] ELSE s[k + 1]
<1> DEFINE a == SubSeq(s, 1, i - 1)
           b == SubSeq(s, i + 1, Len(s))
<1>0. Len(s) \in Nat /\ i \in Int
  OBVIOUS
<1>1. a \in Seq(S) /\ Len(a) = i - 1 /\ \A k \in 1..i - 1 : a[k] = s[k]
  OBVIOUS
<1>2. b \in Seq(S) /\ Len(b) = Len(s) - i /\ \A k \in 1..Len(s) - i : b[k] = s[i + k]
  OBVIOUS
<1>3. RemoveAt(s, i) = a \o b
  BY DEF RemoveAt
<1> HIDE DEF a, b
<1>4. a \o b \in Seq(S) /\ Len(a \o b) = Len(s) - 1
  <2>1. a \o b \in Seq(S) /\ Len(a \o b) = Len(a) + Len(b)
    BY <1>1, <1>2, ConcatProperties
  <2> QED BY <2>1, <1>0, <1>1, <1>2
<1>5. ASSUME NEW k \in 1..Len(s) - 1
      PROVE  (a \o b)[k] = IF k < i THEN s[k] ELSE s[k + 1]
  <2>1. (a \o b)[k] = IF k <= Len(a) THEN a[k] ELSE b[k - Len(a)]
    BY <1>0, <1>1, <1>2, ConcatProperties
  <2>2. CASE k < i
    BY <2>1, <2>2, <1>1
  <2>3. CASE ~(k < i)
    <3>1. k - Len(a) \in 1..Len(s) - i /\ i + (k - Len(a)) = k + 1
      BY <2>3, <1>0, <1>1
    <3> QED BY <2>1, <2>3, <3>1, <1>1, <1>2
  <2> QED BY <2>2, <2>3
<1> QED BY <1>3, <1>4, <1>5

(* What is before the place stays, what is behind it makes room.           *)
LEMMA InsertAtFacts ==
  ASSUME NEW S, NEW s \in Seq(S), NEW i \in 1..Len(s) + 1, NEW e \in S
  PROVE  /\ InsertAt(s, i, e) \in Seq(S)
         /\ Len(InsertAt(s, i, e)) = Len(s) + 1
         /\ \A k \in 1..Len(s) + 1 :
              InsertAt(s, i, e)[k] =
                IF k < i THEN s[k] ELSE IF k = i THEN e ELSE s[k - 1]
<1> DEFINE a == SubSeq(s, 1, i - 1)
           b == SubSeq(s, i, Len(s))
           c == a \o <<e>>
<1>0. Len(s) \in Nat /\ i \in Int
  OBVIOUS
<1>1. a \in Seq(S) /\ Len(a) = i - 1 /\ \A k \in 1..i - 1 : a[k] = s[k]
  OBVIOUS
<1>2. /\ b \in Seq(S) /\ Len(b) = Len(s) - i + 1
      /\ \A k \in 1..Len(s) - i + 1 : b[k] = s[i + k - 1]
  OBVIOUS
<1>3. InsertAt(s, i, e) = c \o b
  BY DEF InsertAt
<1> HIDE DEF a, b
<1>4. /\ c \in Seq(S) /\ Len(c) = i
      /\ \A k \in 1..i : c[k] = IF k < i THEN s[k] ELSE e
  BY <1>1
<1> HIDE DEF c
<1>5. c \o b \in Seq(S) /\ Len(c \o b) = Len(s) + 1
  <2>1. c \o b \in Seq(S) /\ Len(c \o b) = Len(c) + Len(b)
    BY <1>2, <1>4, ConcatProperties
  <2> QED BY <2>1, <1>0, <1>2, <1>4
<1>6. ASSUME NEW k \in 1..Len(s) + 1
      PROVE  (c \o b)[k] = IF k < i THEN s[k] ELSE IF k = i THEN e ELSE s[k - 1]
  <2>1. (c \o b)[k] = IF k <= Len(c) THEN c[k] ELSE b[k - Len(c)]
    BY <1>0, <1>2, <1>4, ConcatProperties
  <2>2. CASE k <= i
    BY <2>1, <2>2, <1>4
  <2>3. CASE ~(k <= i)
    <3>1. k - Len(c) \in 1..Len(s) - i + 1 /\ i + (k - Len(c)) - 1 = k - 1
      BY <2>3, <1>0, <1>4
    <3> QED BY <2>1, <2>3, <3>1, <1>2, <1>4
  <2> QED BY <2>2, <2>3
<1> QED BY <1>3, <1>5, <1>6

-----------------------------------------------------------------------------
(* What a reliable command may say; "input" stands for the first packet of *)
(* the controller.                                                         *)
Says == {"handshake", "auth", "removed", "added", "startup", "metadata",
         "keyframe"}
Spoken == [say : Says, nr : Nat \ {0}]
Tries == 0..(MaxAttempts + MaxPliAttempts - 1)

ReliableCommand ==
  {c \in [type : Reliable, body : Spoken, attempts : Tries] :
     c.type = "InputReliable" => c.body.say = "metadata"}
InputCommand == [type : Realtime, body : 0..MaxTurns, attempts : Tries]
RtcpCommand ==
  [type : {"Pli", "Nack", "ReceiverFeedback"}, body : {"rtcp"}, attempts : Tries]
Commands == ReliableCommand \cup InputCommand \cup RtcpCommand

Wire == Seq(Spoken \cup {Body("input", 0)})

(* a has to be on the wire before b, unless one of them is the metadata.   *)
Before(a, b) ==
  \/ a.nr < b.nr
  \/ "metadata" \in {a.say, b.say} /\ a.nr # b.nr

(* The reliable commands among those that wait, and what has been said on  *)
(* the wire or waits to be.                                                *)
Places(s) == {i \in DOMAIN s : s[i].type \in Reliable}
Bodies(w, s) ==
  {w[i] : i \in Numbered(w)} \cup {s[i].body : i \in Places(s)}

(* The n reliable commands taken are on the wire w or in the queue s, once *)
(* and in their order.                                                     *)
WireInOrder(w) ==
  \A i, j \in Numbered(w) : i < j => Before(w[i], w[j])
QueueInOrder(s) ==
  \A i, j \in Places(s) : i < j => Before(s[i].body, s[j].body)
WireBeforeQueue(w, s) ==
  \A i \in Numbered(w), j \in Places(s) : Before(w[i], s[j].body)
InLine(w, s, n) ==
  /\ WireInOrder(w) /\ QueueInOrder(s) /\ WireBeforeQueue(w, s)
  /\ {b.nr : b \in Bodies(w, s)} = 1..n

(* t holds the same reliable commands as s in the same order.              *)
Matches(s, t, f) ==
  /\ f \in [Places(t) -> Places(s)]
  /\ \A i \in Places(t) : t[i].body = s[f[i]].body
  /\ \A i, j \in Places(t) : i < j => f[i] < f[j]
  /\ \A i \in Places(s) : \E j \in Places(t) : f[j] = i

SameLine(s, t) ==
  \A w, n : /\ Bodies(w, t) = Bodies(w, s)
            /\ InLine(w, s, n) => InLine(w, t, n)

LEMMA MatchingIsSameLine ==
  ASSUME NEW s, NEW t, NEW f, Matches(s, t, f)
  PROVE  SameLine(s, t)
<1> SUFFICES ASSUME NEW w, NEW n
             PROVE  /\ Bodies(w, t) = Bodies(w, s)
                    /\ InLine(w, s, n) => InLine(w, t, n)
  BY DEF SameLine
<1>1. {t[i].body : i \in Places(t)} = {s[i].body : i \in Places(s)}
  BY DEF Matches
<1>2. Bodies(w, t) = Bodies(w, s)
  BY <1>1 DEF Bodies
<1>3. QueueInOrder(s) => QueueInOrder(t)
  BY DEF Matches, QueueInOrder
<1>4. WireBeforeQueue(w, s) => WireBeforeQueue(w, t)
  BY DEF Matches, WireBeforeQueue
<1> QED BY <1>2, <1>3, <1>4 DEF InLine

(* A command that is not reliable is replaced, or one is tried again.      *)
LEMMA ReplaceIsSameLine ==
  ASSUME NEW s \in Seq(Commands), NEW p \in 1..Len(s), NEW e \in Commands,
         e.type \in Reliable <=> s[p].type \in Reliable,
         e.type \in Reliable => e.body = s[p].body
  PROVE  SameLine(s, [s EXCEPT ![p] = e])
<1> DEFINE t == [s EXCEPT ![p] = e]
           f == [i \in Places(t) |-> i]
<1>1. /\ DOMAIN s = 1..Len(s) /\ DOMAIN t = 1..Len(s)
      /\ \A i \in 1..Len(s) : t[i] = IF i = p THEN e ELSE s[i]
  OBVIOUS
<1>2. Places(t) = Places(s)
  BY <1>1 DEF Places
<1>3. Places(s) \subseteq 1..Len(s)
  BY <1>1 DEF Places
<1> HIDE DEF t
<1>4. Matches(s, t, f)
  BY <1>1, <1>2, <1>3 DEF Matches, Places
<1> QED BY <1>4, MatchingIsSameLine DEF t

(* One that is not reliable is put in anywhere.                            *)
LEMMA InsertIsSameLine ==
  ASSUME NEW s \in Seq(Commands), NEW p \in 1..Len(s) + 1, NEW e \in Commands,
         e.type \notin Reliable
  PROVE  SameLine(s, InsertAt(s, p, e))
<1> DEFINE t == InsertAt(s, p, e)
           f == [i \in Places(t) |-> IF i < p THEN i ELSE i - 1]
<1>1. /\ t \in Seq(Commands) /\ Len(t) = Len(s) + 1
      /\ \A k \in 1..Len(s) + 1 :
           t[k] = IF k < p THEN s[k] ELSE IF k = p THEN e ELSE s[k - 1]
  BY InsertAtFacts
<1>2. DOMAIN s = 1..Len(s) /\ DOMAIN t = 1..Len(s) + 1 /\ Len(s) \in Nat
  BY <1>1
<1> HIDE DEF t
<1>3. ASSUME NEW i \in Places(t)
      PROVE  /\ i \in 1..Len(s) + 1 /\ i # p /\ f[i] \in Places(s)
             /\ t[i] = s[f[i]]
  BY <1>1, <1>2 DEF Places
<1>4. ASSUME NEW i \in Places(s)
      PROVE  \E j \in Places(t) : f[j] = i
  <2>1. i \in 1..Len(s) /\ s[i].type \in Reliable
    BY <1>2 DEF Places
  <2>2. CASE i < p
    <3>1. i \in Places(t) /\ f[i] = i
      BY <1>1, <1>2, <2>1, <2>2 DEF Places
    <3> QED BY <3>1
  <2>3. CASE ~(i < p)
    <3>1. t[i + 1] = s[i]
      BY <1>1, <1>2, <2>1, <2>3
    <3>2. i + 1 \in Places(t) /\ f[i + 1] = i
      BY <3>1, <1>2, <2>1, <2>3 DEF Places
    <3> QED BY <3>2
  <2> QED BY <2>2, <2>3
<1>5. \A i, j \in Places(t) : i < j => f[i] < f[j]
  BY <1>2, <1>3
<1>6. Matches(s, t, f)
  BY <1>3, <1>4, <1>5 DEF Matches
<1> QED BY <1>6, MatchingIsSameLine DEF t

(* One that is not reliable is thrown out.                                 *)
LEMMA RemoveIsSameLine ==
  ASSUME NEW s \in Seq(Commands), NEW p \in 1..Len(s),
         s[p].type \notin Reliable
  PROVE  SameLine(s, RemoveAt(s, p))
<1> DEFINE t == RemoveAt(s, p)
           f == [i \in Places(t) |-> IF i < p THEN i ELSE i + 1]
<1>1. /\ t \in Seq(Commands) /\ Len(t) = Len(s) - 1
      /\ \A k \in 1..Len(s) - 1 : t[k] = IF k < p THEN s[k] ELSE s[k + 1]
  BY RemoveAtFacts
<1>2. DOMAIN s = 1..Len(s) /\ DOMAIN t = 1..Len(s) - 1 /\ Len(s) \in Nat
  BY <1>1
<1> HIDE DEF t
<1>3. ASSUME NEW i \in Places(t)
      PROVE  /\ i \in 1..Len(s) - 1 /\ f[i] \in Places(s)
             /\ t[i] = s[f[i]]
  BY <1>1, <1>2 DEF Places
<1>4. ASSUME NEW i \in Places(s)
      PROVE  \E j \in Places(t) : f[j] = i
  <2>1. i \in 1..Len(s) /\ s[i].type \in Reliable /\ i # p
    BY <1>2 DEF Places
  <2>2. CASE i < p
    <3>1. i \in Places(t) /\ f[i] = i
      BY <1>1, <1>2, <2>1, <2>2 DEF Places
    <3> QED BY <3>1
  <2>3. CASE ~(i < p)
    <3>1. i - 1 \in 1..Len(s) - 1 /\ ~(i - 1 < p) /\ (i - 1) + 1 = i
      BY <1>2, <2>1, <2>3
    <3>2. t[i - 1] = s[i]
      BY <1>1, <3>1
    <3>3. i - 1 \in Places(t) /\ f[i - 1] = i
      BY <3>1, <3>2, <1>2, <2>1 DEF Places
    <3> QED BY <3>3
  <2> QED BY <2>2, <2>3
<1>5. \A i, j \in Places(t) : i < j => f[i] < f[j]
  BY <1>2, <1>3
<1>6. Matches(s, t, f)
  BY <1>3, <1>4, <1>5 DEF Matches
<1> QED BY <1>6, MatchingIsSameLine DEF t
(* One that is not reliable goes to the end.                               *)
LEMMA AppendIsSameLine ==
  ASSUME NEW s \in Seq(Commands), NEW e \in Commands, e.type \notin Reliable
  PROVE  SameLine(s, Append(s, e))
<1> DEFINE t == Append(s, e)
           f == [i \in Places(t) |-> i]
<1>1. /\ DOMAIN s = 1..Len(s) /\ DOMAIN t = 1..Len(s) + 1 /\ Len(s) \in Nat
      /\ \A k \in 1..Len(s) + 1 : t[k] = IF k <= Len(s) THEN s[k] ELSE e
  OBVIOUS
<1> HIDE DEF t
<1>2. Places(t) = Places(s)
  BY <1>1 DEF Places
<1>3. \A i \in Places(s) : i \in 1..Len(s)
  BY <1>1 DEF Places
<1>4. Matches(s, t, f)
  BY <1>1, <1>2, <1>3 DEF Matches
<1> QED BY <1>4, MatchingIsSameLine DEF t

(* The next reliable command goes to the end of the line.                  *)
LEMMA AppendToLine ==
  ASSUME NEW w \in Wire, NEW s \in Seq(Commands), NEW n \in Nat,
         NEW e \in ReliableCommand, e.body.nr = n + 1
  PROVE  /\ InLine(w, s, n) => InLine(w, Append(s, e), n + 1)
         /\ Bodies(w, Append(s, e)) = Bodies(w, s) \cup {e.body}
<1> DEFINE t == Append(s, e)
<1>1. /\ DOMAIN s = 1..Len(s) /\ DOMAIN t = 1..Len(s) + 1 /\ Len(s) \in Nat
      /\ \A k \in 1..Len(s) + 1 : t[k] = IF k <= Len(s) THEN s[k] ELSE e
  BY DEF Commands
<1> HIDE DEF t
<1>2. e.type \in Reliable
  BY DEF ReliableCommand
<1>3. /\ Places(t) = Places(s) \cup {Len(s) + 1}
      /\ \A i \in Places(s) : i \in 1..Len(s) /\ t[i] = s[i]
      /\ t[Len(s) + 1] = e
  BY <1>1, <1>2 DEF Places
<1>4. Bodies(w, t) = Bodies(w, s) \cup {e.body}
  <2>1. {t[i].body : i \in Places(t)} = {s[i].body : i \in Places(s)} \cup {e.body}
    BY <1>3
  <2> QED BY <2>1 DEF Bodies
<1>5. ASSUME InLine(w, s, n)
      PROVE  InLine(w, t, n + 1)
  <2>1. \A b \in Bodies(w, s) : b.nr \in 1..n
    BY <1>5 DEF InLine
  <2>2. \A b \in Bodies(w, s) : Before(b, e.body)
    BY <2>1 DEF Before
  <2>3. QueueInOrder(t)
    <3>1. \A i \in Places(s) : Before(s[i].body, e.body)
      BY <2>2 DEF Bodies
    <3> QED BY <3>1, <1>3, <1>1, <1>5 DEF QueueInOrder, InLine
  <2>4. WireBeforeQueue(w, t)
    <3>1. \A i \in Numbered(w) : Before(w[i], e.body)
      BY <2>2 DEF Bodies
    <3> QED BY <3>1, <1>3, <1>5 DEF WireBeforeQueue, InLine
  <2>5. {b.nr : b \in Bodies(w, t)} = 1..n + 1
    <3>1. {b.nr : b \in Bodies(w, t)} = {b.nr : b \in Bodies(w, s)} \cup {n + 1}
      BY <1>4
    <3>2. {b.nr : b \in Bodies(w, s)} = 1..n
      BY <1>5 DEF InLine
    <3>3. (1..n) \cup {n + 1} = 1..n + 1
      OBVIOUS
    <3> QED BY <3>1, <3>2, <3>3
  <2> QED BY <2>3, <2>4, <2>5, <1>5 DEF InLine
<1> QED BY <1>4, <1>5 DEF t

(* The first packet of the controller has no place in the line.            *)
LEMMA InputBesideLine ==
  ASSUME NEW w \in Wire, NEW s, NEW n
  PROVE  /\ InLine(w, s, n) => InLine(Append(w, Body("input", 0)), s, n)
         /\ Bodies(Append(w, Body("input", 0)), s) = Bodies(w, s)
<1> DEFINE v == Append(w, Body("input", 0))
<1>1. /\ DOMAIN w = 1..Len(w) /\ DOMAIN v = 1..Len(w) + 1 /\ Len(w) \in Nat
      /\ \A k \in 1..Len(w) + 1 : v[k] = IF k <= Len(w) THEN w[k] ELSE Body("input", 0)
  BY DEF Wire
<1> HIDE DEF v
<1>2. Body("input", 0).nr = 0
  BY DEF Body
<1>3. Numbered(v) = Numbered(w) /\ \A i \in Numbered(w) : v[i] = w[i]
  BY <1>1, <1>2 DEF Numbered
<1>4. Bodies(v, s) = Bodies(w, s)
  BY <1>3 DEF Bodies
<1>5. InLine(w, s, n) => InLine(v, s, n)
  BY <1>3, <1>4 DEF InLine, WireInOrder, WireBeforeQueue
<1> QED BY <1>4, <1>5 DEF v

(* A reliable command that is sent goes from the queue to the wire; only   *)
(* the metadata may pass others.                                           *)
LEMMA SendInLine ==
  ASSUME NEW w \in Wire, NEW s \in Seq(Commands), NEW n, NEW p \in Places(s),
         \A i \in Places(s) : i < p => s[p].body.say = "metadata"
  PROVE  /\ InLine(w, s, n) => InLine(Append(w, s[p].body), RemoveAt(s, p), n)
         /\ Bodies(Append(w, s[p].body), RemoveAt(s, p)) = Bodies(w, s)
<1> DEFINE v == Append(w, s[p].body)
           t == RemoveAt(s, p)
           g == [i \in Places(t) |-> IF i < p THEN i ELSE i + 1]
<1>0. p \in 1..Len(s) /\ s[p].body \in Spoken /\ \A i \in Places(s) : s[i].body \in Spoken
  BY DEF Places, Commands, ReliableCommand, InputCommand, RtcpCommand, Reliable, Realtime
<1>1. /\ DOMAIN w = 1..Len(w) /\ DOMAIN v = 1..Len(w) + 1 /\ Len(w) \in Nat
      /\ \A k \in 1..Len(w) + 1 : v[k] = IF k <= Len(w) THEN w[k] ELSE s[p].body
  BY <1>0 DEF Wire
<1>2. /\ DOMAIN s = 1..Len(s) /\ DOMAIN t = 1..Len(s) - 1 /\ Len(s) \in Nat
      /\ \A k \in 1..Len(s) - 1 : t[k] = IF k < p THEN s[k] ELSE s[k + 1]
  BY <1>0, RemoveAtFacts
<1> HIDE DEF v, t
<1>3. /\ Numbered(v) = Numbered(w) \cup {Len(w) + 1}
      /\ \A i \in Numbered(w) : i \in 1..Len(w) /\ v[i] = w[i]
      /\ v[Len(w) + 1] = s[p].body
  BY <1>0, <1>1 DEF Numbered, Spoken
<1>4. ASSUME NEW i \in Places(t)
      PROVE  /\ i \in 1..Len(s) - 1 /\ g[i] \in Places(s) \ {p}
             /\ t[i] = s[g[i]]
  BY <1>0, <1>2 DEF Places
<1>5. ASSUME NEW i \in Places(s) \ {p}
      PROVE  \E j \in Places(t) : g[j] = i
  <2>1. i \in 1..Len(s) /\ s[i].type \in Reliable /\ i # p
    BY <1>2 DEF Places
  <2>2. CASE i < p
    <3>1. i \in Places(t) /\ g[i] = i
      BY <1>0, <1>2, <2>1, <2>2 DEF Places
    <3> QED BY <3>1
  <2>3. CASE ~(i < p)
    <3>1. i - 1 \in 1..Len(s) - 1 /\ ~(i - 1 < p) /\ (i - 1) + 1 = i
      BY <1>0, <1>2, <2>1, <2>3
    <3>2. t[i - 1] = s[i]
      BY <1>2, <3>1
    <3>3. i - 1 \in Places(t) /\ g[i - 1] = i
      BY <3>1, <3>2, <1>2, <2>1 DEF Places
    <3> QED BY <3>3
  <2> QED BY <2>2, <2>3
<1>6. \A i, j \in Places(t) : i < j => g[i] < g[j]
  BY <1>0, <1>2, <1>4
<1> HIDE DEF g
<1>7. Bodies(v, t) = Bodies(w, s)
  <2>1. {v[i] : i \in Numbered(v)} = {w[i] : i \in Numbered(w)} \cup {s[p].body}
    BY <1>3
  <2>2. {t[i].body : i \in Places(t)} = {s[i].body : i \in Places(s) \ {p}}
    BY <1>4, <1>5
  <2>3. {s[i].body : i \in Places(s)} = {s[i].body : i \in Places(s) \ {p}} \cup {s[p].body}
    OBVIOUS
  <2> QED BY <2>1, <2>2, <2>3 DEF Bodies
<1>8. ASSUME InLine(w, s, n)
      PROVE  InLine(v, t, n)
  <2>1. WireInOrder(v)
    BY <1>1, <1>3, <1>8 DEF InLine, WireInOrder, WireBeforeQueue
  <2>2. QueueInOrder(t)
    BY <1>4, <1>6, <1>8 DEF InLine, QueueInOrder
  <2>3. WireBeforeQueue(v, t)
    <3>1. ASSUME NEW j \in Places(s) \ {p}
          PROVE  Before(s[p].body, s[j].body)
      <4>1. CASE j > p
        BY <4>1, <1>8 DEF InLine, QueueInOrder
      <4>2. CASE j < p
        <5>1. s[p].body.say = "metadata" /\ Before(s[j].body, s[p].body)
          BY <4>2, <1>8 DEF InLine, QueueInOrder
        <5>2. s[p].body.nr \in Nat /\ s[j].body.nr \in Nat
          BY <1>0 DEF Spoken
        <5> QED BY <5>1, <5>2 DEF Before
      <4> QED BY <4>1, <4>2, <1>0, <1>2 DEF Places
    <3>2. ASSUME NEW i \in Numbered(w), NEW j \in Places(t)
          PROVE  Before(w[i], t[j].body)
      BY <1>4, <1>8 DEF InLine, WireBeforeQueue
    <3> QED BY <1>3, <1>4, <3>1, <3>2 DEF WireBeforeQueue
  <2> QED BY <2>1, <2>2, <2>3, <1>7, <1>8 DEF InLine
<1> QED BY <1>7, <1>8 DEF v, t

-----------------------------------------------------------------------------
(* The queue with its limits.                                              *)
QueueType(x) ==
  /\ x \in [commands : Seq(Commands), failed : BOOLEAN, event : BOOLEAN,
            streak : 0..MaxStreak]
  /\ Len(x.commands) <= QueueCap

HasInput(s) == \E i \in DOMAIN s : s[i].type \in Realtime

(* y is x but for commands that are not reliable, and not more input.      *)
SameReliables(x, y) ==
  /\ QueueType(y) /\ y.failed = x.failed /\ y.event = x.event
  /\ SameLine(x.commands, y.commands)
  /\ HasInput(y.commands) => HasInput(x.commands)

RtcpTypes == {"Pli", "Nack", "ReceiverFeedback"}

LEMMA TypesOfCommands ==
  /\ DOMAIN Priority = Reliable \cup Realtime \cup RtcpTypes
  /\ \A c \in Commands : c.type \in DOMAIN Priority
  /\ \A c \in Commands : c.type \in Reliable => c \in ReliableCommand
  /\ \A c \in Commands : c.type \in Realtime => c \in InputCommand
  /\ \A c \in Commands : c.type \in RtcpTypes => c \in RtcpCommand
  /\ \A t \in RtcpTypes : Command(t, "rtcp") \in RtcpCommand
  /\ Reliable \cap Realtime = {} /\ Reliable \cap RtcpTypes = {}
  /\ Realtime \cap RtcpTypes = {}
<1>1. /\ DOMAIN Priority = Reliable \cup Realtime \cup RtcpTypes
      /\ Reliable \cap Realtime = {} /\ Reliable \cap RtcpTypes = {}
      /\ Realtime \cap RtcpTypes = {}
  BY DEF Priority, Reliable, Realtime, RtcpTypes
<1>2. 0 \in Tries
  BY QueueAssumption DEF Tries
<1>3. \A t \in RtcpTypes : Command(t, "rtcp") \in RtcpCommand
  BY <1>2 DEF Command, RtcpCommand, RtcpTypes
<1>4. \A c \in Commands :
        \/ c \in ReliableCommand /\ c.type \in Reliable
        \/ c \in InputCommand /\ c.type \in Realtime
        \/ c \in RtcpCommand /\ c.type \in RtcpTypes
  BY DEF Commands, ReliableCommand, InputCommand, RtcpCommand, RtcpTypes
<1> QED BY <1>1, <1>3, <1>4

LEMMA SameLineOrSame ==
  /\ \A s : SameLine(s, s)
  /\ \A s, t, u : SameLine(s, t) /\ SameLine(t, u) => SameLine(s, u)
  BY DEF SameLine

(* A new sample takes the place of the one that waits, or goes to the end. *)
LEMMA EnqueueInput ==
  ASSUME NEW x, QueueType(x), NEW type \in Realtime, NEW b \in 0..MaxTurns,
         Accepts(x, type)
  PROVE  LET y == EnqueueData(x, type, b)
         IN  /\ QueueType(y) /\ y.failed = x.failed /\ y.event = x.event
             /\ SameLine(x.commands, y.commands)
<1> DEFINE c == Command(type, b)
           old == IF type = "InputLatest" THEN FirstOf(x, {type}) ELSE 0
<1>1. /\ c \in Commands /\ c.type = type /\ c.type \notin Reliable
      /\ x.commands \in Seq(Commands)
  BY QueueAssumption, TypesOfCommands
     DEF Command, Commands, InputCommand, Tries, QueueType
<1>2. CASE old # 0
  <2>1. old \in 1..Len(x.commands) /\ x.commands[old].type = type
    BY <1>1, <1>2, FirstOfFinds
  <2>2. EnqueueData(x, type, b) = [x EXCEPT !.commands = [@ EXCEPT ![old] = c]]
    BY <1>2 DEF EnqueueData
  <2> HIDE DEF c, old
  <2>3. SameLine(x.commands, [x.commands EXCEPT ![old] = c])
    BY <1>1, <2>1, ReplaceIsSameLine
  <2>4. /\ [x.commands EXCEPT ![old] = c] \in Seq(Commands)
        /\ Len([x.commands EXCEPT ![old] = c]) = Len(x.commands)
    BY <1>1, <2>1
  <2> QED BY <2>2, <2>3, <2>4 DEF QueueType
<1>3. CASE old = 0
  <2>1. EnqueueData(x, type, b) = [x EXCEPT !.commands = Append(@, c)]
    BY <1>3 DEF EnqueueData
  <2>2. ~Full(x)
    BY <1>3 DEF Accepts
  <2> HIDE DEF c, old
  <2>3. /\ SameLine(x.commands, Append(x.commands, c))
        /\ Append(x.commands, c) \in Seq(Commands)
        /\ Len(Append(x.commands, c)) = Len(x.commands) + 1
    BY <1>1, AppendIsSameLine
  <2>4. Len(x.commands) + 1 <= QueueCap
    BY <2>2, <1>1, QueueAssumption DEF Full
  <2> QED BY <2>1, <2>3, <2>4 DEF QueueType
<1> QED BY <1>2, <1>3

(* A reliable command goes to the end.                                     *)
LEMMA EnqueueReliable ==
  ASSUME NEW x, QueueType(x), NEW type \in Reliable, NEW b \in Spoken,
         type = "InputReliable" => b.say = "metadata", Accepts(x, type)
  PROVE  LET y == EnqueueData(x, type, b)
         IN  /\ QueueType(y) /\ y.failed = x.failed /\ y.event = x.event
             /\ Command(type, b) \in ReliableCommand
             /\ y.commands = Append(x.commands, Command(type, b))
             /\ HasInput(y.commands) => HasInput(x.commands)
<1> DEFINE c == Command(type, b)
<1>1. /\ c \in ReliableCommand /\ c \in Commands /\ c.type = type
      /\ x.commands \in Seq(Commands) /\ type # "InputLatest" /\ type \notin Realtime
  BY QueueAssumption, TypesOfCommands
     DEF Command, Commands, ReliableCommand, Tries, QueueType, Realtime
<1>2. ~Full(x)
  BY <1>1 DEF Accepts
<1>3. EnqueueData(x, type, b) = [x EXCEPT !.commands = Append(@, c)]
  BY <1>1 DEF EnqueueData
<1> HIDE DEF c
<1>4. /\ Append(x.commands, c) \in Seq(Commands)
      /\ Len(Append(x.commands, c)) = Len(x.commands) + 1
  BY <1>1
<1>5. Len(x.commands) + 1 <= QueueCap
  BY <1>1, <1>2, QueueAssumption DEF Full
<1>6. HasInput(Append(x.commands, c)) => HasInput(x.commands)
  BY <1>1 DEF HasInput
<1>7. QueueType([x EXCEPT !.commands = Append(@, c)])
  BY <1>4, <1>5 DEF QueueType
<1>8. /\ [x EXCEPT !.commands = Append(@, c)].commands = Append(x.commands, c)
      /\ [x EXCEPT !.commands = Append(@, c)].failed = x.failed
      /\ [x EXCEPT !.commands = Append(@, c)].event = x.event
  BY DEF QueueType
<1>9. c = Command(type, b)
  BY DEF c
<1> QED BY <1>1, <1>3, <1>6, <1>7, <1>8, <1>9

(* What makes room is not reliable.                                        *)
LEMMA MakeRoomKeepsReliables ==
  ASSUME NEW x, QueueType(x), NEW type \in RtcpTypes
  PROVE  SameReliables(x, MakeRoom(x, type))
<1> DEFINE victim == FirstOf(x, Expendable(type))
<1>1. x.commands \in Seq(Commands)
  BY DEF QueueType
<1>2. Expendable(type) \cap Reliable = {}
  BY DEF Expendable, RtcpTypes, Reliable
<1>3. CASE victim = 0
  <2>1. MakeRoom(x, type) = x
    BY <1>3 DEF MakeRoom
  <2> QED BY <2>1, SameLineOrSame DEF SameReliables
<1>4. CASE victim # 0
  <2>1. /\ victim \in 1..Len(x.commands)
        /\ x.commands[victim].type \notin Reliable
    BY <1>1, <1>2, <1>4, FirstOfFinds
  <2>2. MakeRoom(x, type) = [x EXCEPT !.commands = RemoveAt(@, victim)]
    BY <1>4 DEF MakeRoom
  <2> HIDE DEF victim
  <2> DEFINE t == RemoveAt(x.commands, victim)
  <2>3. /\ t \in Seq(Commands) /\ Len(t) = Len(x.commands) - 1
        /\ \A k \in 1..Len(x.commands) - 1 :
             t[k] = IF k < victim THEN x.commands[k] ELSE x.commands[k + 1]
    BY <1>1, <2>1, RemoveAtFacts
  <2>4. SameLine(x.commands, t)
    BY <1>1, <2>1, RemoveIsSameLine
  <2> HIDE DEF t
  <2>5. HasInput(t) => HasInput(x.commands)
    BY <1>1, <2>1, <2>3 DEF HasInput
  <2>6. MakeRoom(x, type) = [x EXCEPT !.commands = t]
    BY <2>2 DEF t
  <2>7. QueueType([x EXCEPT !.commands = t])
    BY <2>3, <1>1, QueueAssumption DEF QueueType
  <2>8. /\ [x EXCEPT !.commands = t].commands = t
        /\ [x EXCEPT !.commands = t].failed = x.failed
        /\ [x EXCEPT !.commands = t].event = x.event
    BY DEF QueueType
  <2> QED BY <2>4, <2>5, <2>6, <2>7, <2>8 DEF SameReliables
<1> QED BY <1>3, <1>4

(* A recovery request, a NACK or feedback touches nothing reliable.        *)
LEMMA RtcpKeepsReliables ==
  ASSUME NEW x, QueueType(x), NEW type \in RtcpTypes
  PROVE  SameReliables(x, EnqueueRtcp(x, type))
<1> DEFINE c == Command(type, "rtcp")
           queued == FirstOf(x, {type})
           room == IF Full(x) THEN MakeRoom(x, type) ELSE x
           behind == FirstOf(room, Sctp \cup {"ReceiverFeedback"})
           at == CASE type = "Pli" -> 1
                   [] type = "Nack" /\ behind # 0 -> behind
                   [] OTHER -> Len(room.commands) + 1
<1>1. /\ c \in Commands /\ c.type = type /\ c.type \notin Reliable
      /\ c.type \notin Realtime /\ x.commands \in Seq(Commands)
  BY TypesOfCommands DEF Command, Commands, QueueType
<1>2. SameReliables(x, room)
  BY MakeRoomKeepsReliables, SameLineOrSame DEF SameReliables
<1>3. SameReliables(x, x)
  BY SameLineOrSame DEF SameReliables
<1>4. CASE queued # 0
  <2>1. /\ queued \in 1..Len(x.commands) /\ x.commands[queued].type = type
    BY <1>1, <1>4, FirstOfFinds
  <2>2. \/ EnqueueRtcp(x, type) = [x EXCEPT !.commands = [@ EXCEPT ![queued] = c]]
        \/ EnqueueRtcp(x, type) = x
    BY <1>4 DEF EnqueueRtcp
  <2> HIDE DEF c, queued
  <2> DEFINE t == [x.commands EXCEPT ![queued] = c]
  <2>3. SameLine(x.commands, t)
    BY <1>1, <2>1, ReplaceIsSameLine
  <2>4. /\ t \in Seq(Commands) /\ Len(t) = Len(x.commands)
        /\ \A k \in 1..Len(x.commands) : t[k] = IF k = queued THEN c ELSE x.commands[k]
    BY <1>1, <2>1
  <2> HIDE DEF t
  <2>5. HasInput(t) => HasInput(x.commands)
    BY <1>1, <2>4 DEF HasInput
  <2>6. QueueType([x EXCEPT !.commands = t])
    BY <2>4 DEF QueueType
  <2>7. /\ [x EXCEPT !.commands = t].commands = t
        /\ [x EXCEPT !.commands = t].failed = x.failed
        /\ [x EXCEPT !.commands = t].event = x.event
    BY DEF QueueType
  <2>8. [x EXCEPT !.commands = t] = [x EXCEPT !.commands = [@ EXCEPT ![queued] = c]]
    BY DEF t
  <2> QED BY <1>3, <2>2, <2>3, <2>5, <2>6, <2>7, <2>8 DEF SameReliables
<1>5. CASE queued = 0 /\ Full(room)
  <2>1. EnqueueRtcp(x, type) = x
    BY <1>5 DEF EnqueueRtcp
  <2> QED BY <2>1, <1>3
<1>6. CASE queued = 0 /\ ~Full(room)
  <2>1. EnqueueRtcp(x, type) = [room EXCEPT !.commands = InsertAt(@, at, c)]
    BY <1>6 DEF EnqueueRtcp
  <2>2. QueueType(room) /\ room.commands \in Seq(Commands)
    BY <1>2 DEF SameReliables, QueueType
  <2>3. behind = 0 \/ behind \in 1..Len(room.commands)
    BY <2>2, FirstOfFinds
  <2>4. at \in 1..Len(room.commands) + 1
    <3>1. Len(room.commands) \in Nat
      BY <2>2
    <3> HIDE DEF room, behind
    <3>2. at = 1 \/ (behind # 0 /\ at = behind) \/ at = Len(room.commands) + 1
      OBVIOUS
    <3> HIDE DEF at
    <3> QED BY <2>3, <3>1, <3>2
  <2> HIDE DEF room, at, c, queued, behind
  <2>5. PICK r \in Seq(Commands) : r = room.commands
    BY <2>2
  <2>6. at \in 1..Len(r) + 1 /\ c \in Commands /\ Len(r) \in Nat
    BY <1>1, <2>4, <2>5
  <2> DEFINE t == InsertAt(r, at, c)
  <2>7. /\ t \in Seq(Commands) /\ Len(t) = Len(r) + 1
        /\ \A k \in 1..Len(r) + 1 :
             t[k] = IF k < at THEN r[k] ELSE IF k = at THEN c ELSE r[k - 1]
    BY <2>6, InsertAtFacts
  <2>8. SameLine(r, t)
    BY <1>1, <2>6, InsertIsSameLine
  <2> HIDE DEF t
  <2>9. HasInput(t) => HasInput(r)
    <3>1. ASSUME NEW k \in 1..Len(r) + 1, t[k].type \in Realtime
          PROVE  \E j \in 1..Len(r) : r[j].type \in Realtime
      <4>1. CASE k < at
        BY <3>1, <4>1, <2>6, <2>7
      <4>2. CASE k > at
        <5>1. k - 1 \in 1..Len(r) /\ t[k] = r[k - 1]
          BY <4>2, <2>6, <2>7
        <5> QED BY <3>1, <5>1
      <4>3. k # at
        BY <3>1, <1>1, <2>7
      <4> QED BY <4>1, <4>2, <4>3, <2>6
    <3> QED BY <3>1, <2>7 DEF HasInput
  <2>10. Len(r) + 1 <= QueueCap
    BY <1>6, <2>5, <2>6, QueueAssumption DEF Full
  <2>11. QueueType([room EXCEPT !.commands = t])
    BY <2>2, <2>7, <2>10 DEF QueueType
  <2>12. /\ [room EXCEPT !.commands = t].commands = t
         /\ [room EXCEPT !.commands = t].failed = room.failed
         /\ [room EXCEPT !.commands = t].event = room.event
    BY <2>2 DEF QueueType
  <2>13. EnqueueRtcp(x, type) = [room EXCEPT !.commands = t]
    BY <2>1, <2>5 DEF t
  <2> QED BY <1>2, <2>5, <2>8, <2>9, <2>11, <2>12, <2>13, SameLineOrSame DEF SameReliables
<1> QED BY <1>4, <1>5, <1>6

-----------------------------------------------------------------------------
(* What is selected is of these types, and nothing of a better priority,   *)
(* or of the same priority and earlier, is there.                          *)
LEMMA SelectedIsFirst ==
  ASSUME NEW x, QueueType(x), NEW types, Selectable(x, types) # {}
  PROVE  LET i == Selected(x, types)
         IN  /\ i \in 1..Len(x.commands) /\ x.commands[i].type \in types
             /\ \A j \in Selectable(x, types) :
                  LET p == Priority[x.commands[i].type]
                      o == Priority[x.commands[j].type]
                  IN  p < o \/ (p = o /\ i <= j)
<1> DEFINE S == Selectable(x, types)
           P(i) == Priority[x.commands[i].type]
<1>1. x.commands \in Seq(Commands)
  BY DEF QueueType
<1>2. S \subseteq 1..Len(x.commands) /\ \A i \in S : x.commands[i].type \in types
  BY <1>1 DEF Selectable
<1>3. \A i \in 1..Len(x.commands) : P(i) \in Nat
  <2>1. \A t \in DOMAIN Priority : Priority[t] \in Nat
    BY DEF Priority
  <2> QED BY <1>1, <2>1, TypesOfCommands
<1> HIDE DEF S, P
<1>4. \E i \in S : \A j \in S : P(i) < P(j) \/ (P(i) = P(j) /\ i <= j)
  <2> DEFINE Best == {P(i) : i \in S}
  <2>1. Best \in SUBSET Nat /\ Best # {}
    BY <1>2, <1>3 DEF S
  <2>2. PICK p \in Best : \A o \in Best : p <= o
    BY <2>1, LeastNumber
  <2> DEFINE Those == {i \in S : P(i) = p}
  <2>3. Those \in SUBSET Nat /\ Those # {}
    BY <2>2, <1>2
  <2>4. PICK i \in Those : \A j \in Those : i <= j
    BY <2>3, LeastNumber
  <2>5. ASSUME NEW j \in S
        PROVE  P(i) < P(j) \/ (P(i) = P(j) /\ i <= j)
    <3>1. P(i) = p /\ P(i) \in Nat /\ P(j) \in Nat /\ p <= P(j)
      BY <1>2, <1>3, <2>2, <2>4
    <3> QED BY <3>1, <2>4
  <2> QED BY <2>4, <2>5
<1>5. Selected(x, types) = CHOOSE i \in S :
        \A j \in S : P(i) < P(j) \/ (P(i) = P(j) /\ i <= j)
  BY DEF Selected, S, P
<1>6. /\ Selected(x, types) \in S
      /\ \A j \in S : P(Selected(x, types)) < P(j)
                      \/ (P(Selected(x, types)) = P(j) /\ Selected(x, types) <= j)
  BY <1>4, <1>5
<1> QED BY <1>2, <1>6 DEF S, P

(* y is x, or x with the channel failed, but for the streak of failures.   *)
HealthStep(x, y) ==
  /\ QueueType(y) /\ y.commands = x.commands
  /\ x.failed => y.failed
  /\ y.failed => x.failed \/ y.event
  /\ x.event => y.event

LEMMA MarkingIsHealthStep ==
  ASSUME NEW x, QueueType(x)
  PROVE  HealthStep(x, MarkFailed(x)) /\ MarkFailed(x).failed
<1>1. CASE x.failed
  BY <1>1 DEF MarkFailed, HealthStep
<1>2. CASE ~x.failed
  <2>1. MarkFailed(x) = [x EXCEPT !.failed = TRUE, !.event = TRUE]
    BY <1>2 DEF MarkFailed
  <2> QED BY <2>1 DEF HealthStep, QueueType
<1> QED BY <1>1, <1>2

LEMMA ObservingIsHealthStep ==
  ASSUME NEW x, QueueType(x), NEW result \in {"ok", "transient", "fatal"}
  PROVE  HealthStep(x, Observe(x, result)) /\ (result = "fatal" => Observe(x, result).failed)
<1> DEFINE counted == [x EXCEPT !.streak = IF @ < MaxStreak THEN @ + 1 ELSE @]
<1>1. x.streak \in 0..MaxStreak /\ MaxStreak \in Nat
  BY QueueAssumption DEF QueueType
<1>2. HealthStep(x, [x EXCEPT !.streak = 0])
  BY <1>1 DEF HealthStep, QueueType
<1>3. HealthStep(x, counted) /\ QueueType(counted)
  <2>1. PICK n \in 0..MaxStreak : n = IF x.streak < MaxStreak THEN x.streak + 1 ELSE x.streak
    BY <1>1
  <2>2. counted = [x EXCEPT !.streak = n]
    BY <2>1
  <2> HIDE DEF counted
  <2> QED BY <2>2 DEF HealthStep, QueueType
<1>4. \A y, z : HealthStep(x, y) /\ HealthStep(y, z) => HealthStep(x, z)
  BY DEF HealthStep
<1> HIDE DEF counted
<1>5. HealthStep(x, MarkFailed(counted))
  BY <1>3, <1>4, MarkingIsHealthStep
<1>6. \/ result = "ok" /\ Observe(x, result) = [x EXCEPT !.streak = 0]
      \/ result = "fatal" /\ Observe(x, result) = MarkFailed(x)
      \/ result = "transient" /\ Observe(x, result) \in {MarkFailed(counted), counted}
  BY DEF Observe, counted
<1> QED BY <1>2, <1>3, <1>5, <1>6, MarkingIsHealthStep

(* What the result of a send does to the queue: a reliable command leaves  *)
(* it when it was sent, waits for another try, or takes the channel along. *)
CompleteStep(x, y, i, result) ==
  /\ QueueType(y)
  /\ x.failed => y.failed
  /\ y.failed => x.failed \/ y.event
  /\ x.event => y.event
  /\ HasInput(y.commands) => HasInput(x.commands)
  /\ IF x.commands[i].type \in Reliable /\ result = "ok"
     THEN y.commands = RemoveAt(x.commands, i)
     ELSE y.failed \/ SameLine(x.commands, y.commands)

LEMMA CompletingIsCompleteStep ==
  ASSUME NEW x, QueueType(x), NEW i \in 1..Len(x.commands),
         NEW result \in {"ok", "transient", "fatal"}
  PROVE  CompleteStep(x, Complete(x, i, result), i, result)
<1> DEFINE c == x.commands[i]
           kept == KeepForRetry(c, result)
           done == IF kept THEN [x EXCEPT !.commands[i].attempts = @ + 1]
                   ELSE [x EXCEPT !.commands = RemoveAt(@, i)]
           seen == IF c.type \in Sctp THEN Observe(done, result) ELSE done
<1>1. x.commands \in Seq(Commands) /\ Len(x.commands) \in Nat /\ c \in Commands
  BY DEF QueueType
<1>2. /\ QueueType(done) /\ done.failed = x.failed /\ done.event = x.event
      /\ HasInput(done.commands) => HasInput(x.commands)
      /\ ~kept => done.commands = RemoveAt(x.commands, i)
      /\ kept \/ c.type \notin Reliable => SameLine(x.commands, done.commands)
  <2>1. CASE kept
    <3> DEFINE e == [c EXCEPT !.attempts = @ + 1]
               t == [x.commands EXCEPT ![i] = e]
    <3>1. c.attempts \in Tries /\ c.attempts + 1 \in Tries
      <4>1. c.attempts \in Tries
        BY <1>1 DEF Commands, ReliableCommand, InputCommand, RtcpCommand
      <4>2. \/ c.attempts + 1 < MaxAttempts
            \/ c.attempts = 0
            \/ c.attempts + 1 < MaxPliAttempts
        BY <2>1 DEF KeepForRetry
      <4> QED BY <4>1, <4>2, QueueAssumption DEF Tries
    <3>2. e \in Commands /\ e.type = c.type /\ e.body = c.body
      <4>1. PICK n \in Tries : n = c.attempts + 1
        BY <3>1
      <4>2. e = [c EXCEPT !.attempts = n]
        BY <4>1
      <4> HIDE DEF e
      <4> QED BY <4>2, <1>1 DEF Commands, ReliableCommand, InputCommand, RtcpCommand
    <3>3. done = [x EXCEPT !.commands = t]
      BY <2>1
    <3> HIDE DEF e, c, done
    <3>4. /\ t \in Seq(Commands) /\ Len(t) = Len(x.commands)
          /\ \A k \in 1..Len(x.commands) : t[k] = IF k = i THEN e ELSE x.commands[k]
      BY <1>1, <3>2
    <3>5. SameLine(x.commands, t)
      BY <1>1, <3>2, ReplaceIsSameLine DEF c
    <3> HIDE DEF t
    <3>6. HasInput(t) => HasInput(x.commands)
      BY <1>1, <3>2, <3>4 DEF HasInput, c
    <3>7. QueueType([x EXCEPT !.commands = t])
      BY <3>4 DEF QueueType
    <3>8. /\ [x EXCEPT !.commands = t].commands = t
          /\ [x EXCEPT !.commands = t].failed = x.failed
          /\ [x EXCEPT !.commands = t].event = x.event
      BY DEF QueueType
    <3> QED BY <2>1, <3>3, <3>5, <3>6, <3>7, <3>8
  <2>2. CASE ~kept
    <3> DEFINE t == RemoveAt(x.commands, i)
    <3>1. done = [x EXCEPT !.commands = t]
      BY <2>2
    <3> HIDE DEF done, c
    <3>2. /\ t \in Seq(Commands) /\ Len(t) = Len(x.commands) - 1
          /\ \A k \in 1..Len(x.commands) - 1 :
               t[k] = IF k < i THEN x.commands[k] ELSE x.commands[k + 1]
      BY <1>1, RemoveAtFacts
    <3>3. c.type \notin Reliable => SameLine(x.commands, t)
      BY <1>1, RemoveIsSameLine DEF c
    <3>4. t = RemoveAt(x.commands, i)
      OBVIOUS
    <3> HIDE DEF t
    <3>5. HasInput(t) => HasInput(x.commands)
      BY <1>1, <3>2 DEF HasInput
    <3>6. QueueType([x EXCEPT !.commands = t])
      BY <1>1, <3>2, QueueAssumption DEF QueueType
    <3>7. /\ [x EXCEPT !.commands = t].commands = t
          /\ [x EXCEPT !.commands = t].failed = x.failed
          /\ [x EXCEPT !.commands = t].event = x.event
      BY DEF QueueType
    <3> QED BY <2>2, <3>1, <3>3, <3>4, <3>5, <3>6, <3>7
  <2> QED BY <2>1, <2>2
<1>3. Complete(x, i, result) =
        IF c.type \in Reliable /\ result = "transient" /\ ~kept
        THEN MarkFailed(seen) ELSE seen
  BY DEF Complete
<1> HIDE DEF done
<1>4. /\ HealthStep(done, seen)
      /\ c.type \in Reliable /\ result = "fatal" => seen.failed
  BY <1>2, ObservingIsHealthStep DEF HealthStep, Sctp
<1>5. HealthStep(done, Complete(x, i, result))
      /\ (c.type \in Reliable /\ result # "ok" /\ ~kept => Complete(x, i, result).failed)
  <2>1. QueueType(seen)
    BY <1>4 DEF HealthStep
  <2> HIDE DEF seen, kept, c
  <2>2. HealthStep(seen, MarkFailed(seen)) /\ MarkFailed(seen).failed
    BY <2>1, MarkingIsHealthStep
  <2>3. HealthStep(done, MarkFailed(seen))
    BY <2>2, <1>4 DEF HealthStep
  <2> QED BY <1>3, <1>4, <2>2, <2>3
<1>6. c.type \in Reliable /\ result = "ok" => ~kept
  BY DEF KeepForRetry
<1> HIDE DEF kept, seen
<1> QED BY <1>2, <1>5, <1>6 DEF CompleteStep, HealthStep

-----------------------------------------------------------------------------
(* The accumulator with its limit.                                         *)
Accumulator ==
  [latest : 0..MaxTurns, sampled : BOOLEAN, dirty : BOOLEAN,
   held : BOOLEAN, journal : Seq(1..MaxTurns)]
AccType(a) == a \in Accumulator /\ Len(a.journal) <= JournalCap

(* The types, with what the properties do not mention.                     *)
TypeInv ==
  /\ turn \in 0..MaxTurns
  /\ thread \in [busy : BOOLEAN, sample : 0..MaxTurns, ready : BOOLEAN]
  /\ AccType(acc) /\ QueueType(q)
  /\ stage \in Stages /\ ready \in BOOLEAN /\ ack \in BOOLEAN
  /\ connected \in BOOLEAN /\ prepared \in BOOLEAN
  /\ reconnects \in 0..MaxReconnects /\ pad \in 0..MaxTurns
  /\ since \in 0..MaxTurns /\ trouble \in 0..MaxTrouble
  /\ snap \in [type : Realtime, sample : 0..MaxTurns]
  /\ wire \in Wire /\ taken \in Nat

(* The samples come in order, and an edge of this association after it     *)
(* was started.                                                            *)
SampleInv ==
  /\ acc.latest <= thread.sample /\ thread.sample <= turn
  /\ stage = "started" \/ pc = "ready" =>
       /\ since <= acc.latest
       /\ \A i \in DOMAIN acc.journal : acc.journal[i] > since

(* Where the owner loop is when the protocol is this far.                  *)
PlaceInv ==
  /\ stage \in Starting =>
       pc \in {"realtime", "events", "drain", "pumped", "acked", "delay",
               "enable", "ready"}
  /\ pc = "acked" => stage = "handshake"
  /\ pc = "delay" => stage = "auth"
  /\ pc \in {"enable", "ready"} => stage = "final"
  /\ pc = "start" => stage = "idle" /\ connected /\ ~q.failed
  /\ pc \in {"latest", "queue", "commit"} => stage = "started"

(* Nothing reliable is lost but with the channel, and the protocol learns  *)
(* of that.                                                                *)
LineInv ==
  /\ \/ q.failed
     \/ InLine(wire, q.commands, taken)
     \/ ~connected /\ stage \notin Starting
  /\ stage \in Starting /\ q.failed => q.event

(* What the protocol has queued so far.                                    *)
SaidInv ==
  ~q.failed =>
    /\ stage = "auth" =>
         /\ Body("auth", taken - 1) \in Bodies(wire, q.commands)
         /\ Body("removed", taken) \in Bodies(wire, q.commands)
    /\ stage = "final" => Startup \subseteq {b.say : b \in Bodies(wire, q.commands)}

(* Input is queued for an association that has seen the whole protocol.    *)
StartedInv ==
  /\ stage = "started" \/ pc \in {"enable", "ready"} =>
       Startup \subseteq {wire[i].say : i \in Numbered(wire)}
  /\ HasInput(q.commands) => stage = "started"

ControlInv ==
  PlaceInv /\ LineInv /\ SaidInv /\ StartedInv /\ InputNeedsStartup /\ FlushedBeforeDelay
Inv == TypeInv /\ SampleInv /\ ControlInv

-----------------------------------------------------------------------------
(* What pumping the connection, or queueing RTCP, does to queue and wire.  *)
WireStep ==
  \/ wire' = wire
  \/ \E b \in Spoken : wire' = Append(wire, b)
  \/ wire' = Append(wire, Body("input", 0)) /\ HasInput(q.commands)

NetStep ==
  /\ QueueType(q') /\ wire' \in Wire /\ pad' \in 0..MaxTurns
  /\ trouble' \in 0..MaxTrouble /\ taken' = taken
  /\ q.failed => q'.failed
  /\ q'.failed => q.failed \/ q'.event
  /\ stage \in Starting => (q.event => q'.event)
  /\ \/ q'.failed
     \/ /\ Bodies(wire', q'.commands) = Bodies(wire, q.commands)
        /\ InLine(wire, q.commands, taken) => InLine(wire', q'.commands, taken)
  /\ HasInput(q'.commands) => HasInput(q.commands)
  /\ WireStep

LEMMA QuietNetStep ==
  ASSUME TypeInv, SameReliables(q, q'), UNCHANGED <<wire, pad, taken>>,
         trouble' \in 0..MaxTrouble
  PROVE  NetStep
<1>1. \A w, n : /\ Bodies(w, q'.commands) = Bodies(w, q.commands)
                /\ InLine(w, q.commands, n) => InLine(w, q'.commands, n)
  BY DEF SameReliables, SameLine
<1> QED BY <1>1 DEF NetStep, SameReliables, TypeInv, WireStep

(* The types that are drained: with one reliable type all of them.         *)
Drained(types) ==
  types \subseteq DOMAIN Priority /\ (types \cap Reliable = {} \/ Reliable \subseteq types)

LEMMA SentIsNetStep ==
  ASSUME TypeInv, NEW types, Drained(types), Selectable(q, types) # {},
         NEW result \in Results, Sent(Selected(q, types), result)
  PROVE  NetStep /\ connected' = connected
<1> DEFINE i == Selected(q, types)
           c == q.commands[i]
<1>1. /\ i \in 1..Len(q.commands) /\ c.type \in types
      /\ \A j \in Selectable(q, types) :
           Priority[c.type] < Priority[q.commands[j].type]
           \/ (Priority[c.type] = Priority[q.commands[j].type] /\ i <= j)
  BY SelectedIsFirst DEF TypeInv
<1>2. /\ result \in {"ok", "transient", "fatal"}
      /\ connected /\ result # "ok" => trouble < MaxTrouble
      /\ result = "ok" => connected
  BY DEF Results
<1>3. QueueType(q) /\ q.commands \in Seq(Commands) /\ wire \in Wire /\ c \in Commands
  BY <1>1 DEF TypeInv, QueueType
<1>4. /\ q' = Complete(q, i, result)
      /\ wire' = IF result = "ok" /\ c.type \in Reliable THEN Append(wire, c.body)
                 ELSE IF result = "ok" /\ c.type \in Realtime
                         /\ \A k \in DOMAIN wire : wire[k].say # "input"
                 THEN Append(wire, Body("input", 0)) ELSE wire
      /\ pad' = IF result = "ok" /\ c.type \in Realtime THEN c.body ELSE pad
      /\ trouble' = IF connected /\ result # "ok" THEN trouble + 1 ELSE trouble
      /\ UNCHANGED <<connected, taken>>
  BY DEF Sent
<1> HIDE DEF i
<1>5. CompleteStep(q, q', i, result)
  BY <1>1, <1>2, <1>3, <1>4, CompletingIsCompleteStep
<1>6. trouble' \in 0..MaxTrouble
  BY <1>2, <1>4, BoundAssumption DEF TypeInv
<1>7. pad' \in 0..MaxTurns
  BY <1>3, <1>4, TypesOfCommands DEF TypeInv, InputCommand
<1>8. CASE c.type \in Reliable /\ result = "ok"
  <2>1. i \in Places(q.commands) /\ wire' = Append(wire, c.body) /\ c.body \in Spoken
    BY <1>1, <1>3, <1>4, <1>8, TypesOfCommands DEF Places, ReliableCommand
  <2>2. \A j \in Places(q.commands) : j < i => c.body.say = "metadata"
    <3> SUFFICES ASSUME NEW j \in Places(q.commands), j < i
                 PROVE  c.body.say = "metadata"
      OBVIOUS
    <3>1. j \in Selectable(q, types) /\ j \in 1..Len(q.commands)
          /\ q.commands[j].type \in Reliable
      BY <1>1, <1>3, <1>8 DEF Places, Selectable, Drained
    <3>2. Priority[c.type] < Priority[q.commands[j].type]
      BY <3>1, <1>1, <1>3
    <3>3. c.type = "InputReliable"
      BY <3>1, <3>2, <1>8 DEF Reliable, Priority
    <3> QED BY <3>3, <1>3, TypesOfCommands DEF ReliableCommand, Reliable
  <2>3. q'.commands = RemoveAt(q.commands, i)
    BY <1>5, <1>8 DEF CompleteStep
  <2>4. /\ InLine(wire, q.commands, taken) => InLine(wire', q'.commands, taken)
        /\ Bodies(wire', q'.commands) = Bodies(wire, q.commands)
    BY <1>3, <2>1, <2>2, <2>3, SendInLine
  <2>5. wire' \in Wire
    BY <1>3, <2>1 DEF Wire
  <2> QED BY <1>4, <1>5, <1>6, <1>7, <2>1, <2>4, <2>5 DEF NetStep, CompleteStep, WireStep
<1>9. CASE ~(c.type \in Reliable /\ result = "ok")
  <2>1. q'.failed \/ SameLine(q.commands, q'.commands)
    BY <1>5, <1>9 DEF CompleteStep
  <2>2. CASE wire' = wire
    BY <1>3, <1>4, <1>5, <1>6, <1>7, <2>1, <2>2 DEF NetStep, CompleteStep, WireStep, SameLine
  <2>3. CASE wire' # wire
    <3>1. wire' = Append(wire, Body("input", 0)) /\ c.type \in Realtime
      BY <1>4, <1>9, <2>3
    <3>2. HasInput(q.commands)
      BY <3>1, <1>1, <1>3 DEF HasInput
    <3>3. \A s, n : /\ Bodies(wire', s) = Bodies(wire, s)
                    /\ InLine(wire, s, n) => InLine(wire', s, n)
      BY <3>1, <1>3, InputBesideLine
    <3>4. wire' \in Wire
      BY <1>3, <3>1 DEF Wire
    <3>5. \/ q'.failed
          \/ /\ Bodies(wire', q'.commands) = Bodies(wire, q.commands)
             /\ InLine(wire, q.commands, taken) => InLine(wire', q'.commands, taken)
      BY <2>1, <3>3 DEF SameLine
    <3> QED BY <1>4, <1>5, <1>6, <1>7, <3>1, <3>2, <3>4, <3>5
            DEF NetStep, CompleteStep, WireStep
  <2> QED BY <2>2, <2>3
<1> QED BY <1>4, <1>8, <1>9

LEMMA ExpiredIsNetStep ==
  ASSUME TypeInv, NEW i \in 1..Len(q.commands), Expired(i)
  PROVE  NetStep /\ connected' = connected
<1>1. QueueType(q) /\ q.commands \in Seq(Commands) /\ q.commands[i].type \notin Reliable
  BY DEF TypeInv, QueueType, Expired, Reliable
<1>2. CompleteStep(q, q', i, "ok")
  BY <1>1, CompletingIsCompleteStep DEF Expired
<1>3. q'.failed \/ SameLine(q.commands, q'.commands)
  BY <1>1, <1>2 DEF CompleteStep
<1>4. UNCHANGED <<connected, wire, pad, taken, trouble>>
  BY DEF Expired
<1> QED BY <1>2, <1>3, <1>4 DEF NetStep, CompleteStep, WireStep, SameLine, TypeInv

(* The owner's pass goes on, or a thread of its own does: the protocol is  *)
(* where it was.                                                           *)
PumpStep ==
  /\ NetStep /\ stage' = stage /\ (connected' => connected)
  /\ pc' \notin {"start", "acked", "delay", "enable", "ready"}
  /\ pc' \in {"latest", "queue", "commit"} => stage = "started"
  /\ stage \in Starting => pc' \in {"realtime", "events", "drain", "pumped"}

LEMMA WireKeepsStartup ==
  ASSUME wire \in Wire, WireStep
  PROVE  /\ {wire[i].say : i \in Numbered(wire)} \subseteq
              {wire'[i].say : i \in Numbered(wire')}
         /\ InputNeedsStartup
            /\ (HasInput(q.commands) =>
                  Startup \subseteq {wire[i].say : i \in Numbered(wire)})
            => InputNeedsStartup'
<1>1. CASE wire' = wire
  BY <1>1 DEF InputNeedsStartup, Numbered
<1>2. ASSUME NEW b \in Spoken \cup {Body("input", 0)}, wire' = Append(wire, b)
      PROVE  /\ DOMAIN wire = 1..Len(wire) /\ DOMAIN wire' = 1..Len(wire) + 1
             /\ Len(wire) \in Nat
             /\ \A k \in 1..Len(wire) : wire'[k] = wire[k]
             /\ wire'[Len(wire) + 1] = b
  BY <1>2 DEF Wire
<1>3. ASSUME NEW b \in Spoken \cup {Body("input", 0)}, wire' = Append(wire, b)
      PROVE  {wire[i].say : i \in Numbered(wire)} \subseteq
               {wire'[i].say : i \in Numbered(wire')}
  BY <1>2, <1>3 DEF Numbered
<1>4. ASSUME NEW b \in Spoken, wire' = Append(wire, b), InputNeedsStartup
      PROVE  InputNeedsStartup'
  <2>1. b.say # "input"
    BY DEF Spoken, Says
  <2> SUFFICES ASSUME NEW k \in DOMAIN wire', wire'[k].say = "input"
               PROVE  Startup \subseteq {wire'[j].say : j \in 1..k - 1}
    BY DEF InputNeedsStartup
  <2>2. k \in 1..Len(wire) /\ wire[k].say = "input"
    BY <1>2, <1>4, <2>1
  <2>3. {wire[j].say : j \in 1..k - 1} \subseteq {wire'[j].say : j \in 1..k - 1}
    BY <1>2, <1>4, <2>2
  <2> QED BY <1>2, <1>4, <2>2, <2>3 DEF InputNeedsStartup
<1>5. ASSUME wire' = Append(wire, Body("input", 0)), InputNeedsStartup,
             Startup \subseteq {wire[i].say : i \in Numbered(wire)}
      PROVE  InputNeedsStartup'
  <2> SUFFICES ASSUME NEW k \in DOMAIN wire', wire'[k].say = "input"
               PROVE  Startup \subseteq {wire'[j].say : j \in 1..k - 1}
    BY DEF InputNeedsStartup
  <2>1. k \in 1..Len(wire) + 1 /\ DOMAIN wire = 1..Len(wire) /\ Len(wire) \in Nat
    BY <1>2, <1>5
  <2>2. {wire[j].say : j \in 1..k - 1} \subseteq {wire'[j].say : j \in 1..k - 1}
    BY <1>2, <1>5, <2>1
  <2>3. CASE k \in 1..Len(wire)
    <3>1. wire[k].say = "input"
      BY <1>2, <1>5, <2>3
    <3> QED BY <3>1, <2>1, <2>2, <2>3, <1>5 DEF InputNeedsStartup
  <2>4. CASE k = Len(wire) + 1
    <3>1. Numbered(wire) \subseteq 1..k - 1
      BY <2>1, <2>4 DEF Numbered
    <3> QED BY <3>1, <2>2, <1>5
  <2> QED BY <2>1, <2>3, <2>4
<1> QED BY <1>1, <1>3, <1>4, <1>5 DEF WireStep

LEMMA PumpKeepsInv ==
  ASSUME TypeInv, ControlInv, PumpStep
  PROVE  ControlInv'
<1>1. /\ {wire[i].say : i \in Numbered(wire)} \subseteq
           {wire'[i].say : i \in Numbered(wire')}
      /\ InputNeedsStartup'
  BY WireKeepsStartup DEF TypeInv, ControlInv, StartedInv, PumpStep, NetStep
<1>2. PlaceInv'
  BY DEF PumpStep, PlaceInv, Starting
<1>3. LineInv'
  BY DEF PumpStep, NetStep, ControlInv, LineInv
<1>4. SaidInv'
  BY DEF PumpStep, NetStep, ControlInv, SaidInv
<1>5. StartedInv'
  BY <1>1 DEF PumpStep, NetStep, ControlInv, StartedInv
<1>6. FlushedBeforeDelay'
  BY DEF PumpStep, FlushedBeforeDelay
<1> QED BY <1>1, <1>2, <1>3, <1>4, <1>5, <1>6 DEF ControlInv

-----------------------------------------------------------------------------
(* A queue to which the owner is sending.                                  *)
SendingType(s) ==
  /\ s = [q |-> s.q, taken |-> s.taken, ok |-> s.ok]
  /\ QueueType(s.q) /\ s.taken \in Nat

(* A command that is not refused is the next in the line.                  *)
LEMMA SendStep ==
  ASSUME NEW s, SendingType(s), NEW w \in Wire, NEW type \in Reliable,
         NEW say \in Says, type = "InputReliable" => say = "metadata"
  PROVE  LET t == Send(s, type, say)
         IN  /\ SendingType(t) /\ t.q.failed = s.q.failed /\ t.q.event = s.q.event
             /\ HasInput(t.q.commands) => HasInput(s.q.commands)
             /\ Bodies(w, s.q.commands) \subseteq Bodies(w, t.q.commands)
             /\ t.ok => /\ s.ok /\ ~s.q.failed /\ t.taken = s.taken + 1
                        /\ Body(say, s.taken + 1) \in Bodies(w, t.q.commands)
             /\ InLine(w, s.q.commands, s.taken) => InLine(w, t.q.commands, t.taken)
<1>1. CASE s.ok /\ Accepts(s.q, type)
  <2> DEFINE n == s.taken + 1
             b == Body(say, n)
             y == EnqueueData(s.q, type, b)
             c == Command(type, b)
  <2>1. n \in Nat \ {0} /\ b \in Spoken /\ b.say = say /\ b.nr = n
    BY DEF SendingType, Body, Spoken
  <2>2. Send(s, type, say) = [q |-> y, taken |-> n, ok |-> s.ok]
    BY <1>1 DEF Send, SendingType
  <2> HIDE DEF n, b, y
  <2>3. /\ QueueType(y) /\ y.failed = s.q.failed /\ y.event = s.q.event
        /\ c \in ReliableCommand
        /\ y.commands = Append(s.q.commands, c)
        /\ HasInput(y.commands) => HasInput(s.q.commands)
    BY <1>1, <2>1, EnqueueReliable DEF SendingType, y
  <2>4. s.q.commands \in Seq(Commands) /\ c.body = b
    BY DEF SendingType, QueueType, Command
  <2>5. /\ InLine(w, s.q.commands, s.taken) => InLine(w, y.commands, n)
        /\ Bodies(w, y.commands) = Bodies(w, s.q.commands) \cup {b}
    <3>1. c.body.nr = s.taken + 1 /\ s.taken \in Nat
      BY <2>1, <2>4 DEF n, SendingType
    <3> HIDE DEF c
    <3> QED BY <2>3, <2>4, <3>1, AppendToLine DEF n
  <2>6. ~s.q.failed
    BY <1>1 DEF Accepts
  <2> HIDE DEF c
  <2>7. Body(say, s.taken + 1) = b /\ s.taken + 1 = n
    BY DEF b, n
  <2> DEFINE t == Send(s, type, say)
  <2>8. t = [q |-> t.q, taken |-> t.taken, ok |-> t.ok] /\ t.q = y /\ t.taken = n /\ t.ok = s.ok
    BY <2>2
  <2> HIDE DEF t
  <2>9. SendingType(t)
    BY <2>1, <2>3, <2>8 DEF SendingType
  <2>10. Body(say, s.taken + 1) \in Bodies(w, t.q.commands)
         /\ Bodies(w, s.q.commands) \subseteq Bodies(w, t.q.commands)
    BY <2>5, <2>7, <2>8
  <2> QED BY <1>1, <2>3, <2>5, <2>6, <2>7, <2>8, <2>9, <2>10 DEF t
<1>2. CASE ~(s.ok /\ Accepts(s.q, type))
  <2>1. Send(s, type, say) = [q |-> s.q, taken |-> s.taken, ok |-> FALSE]
    BY <1>2 DEF Send, SendingType
  <2> QED BY <2>1 DEF SendingType
<1> QED BY <1>1, <1>2

-----------------------------------------------------------------------------
(* What the owner does with the accumulator: edges go, none comes.         *)
NoNewEdge(a, b) ==
  /\ AccType(b) /\ b.latest = a.latest
  /\ \A i \in DOMAIN b.journal : \E j \in DOMAIN a.journal : b.journal[i] = a.journal[j]

LEMMA OwnerAddsNoEdge ==
  ASSUME NEW a, AccType(a)
  PROVE  /\ \A k \in 0..Len(a.journal) : NoNewEdge(a, Expire(a, k))
         /\ NoNewEdge(a, a) /\ NoNewEdge(a, PeekLatest(a))
         /\ NoNewEdge(a, CommitLatest(a))
         /\ \A b : NoNewEdge(a, CommitTransition(a, b))
         /\ NoNewEdge(a, PrepareForReconnect(a))
         /\ PrepareForReconnect(a).journal = <<>>
<1>s. PICK S : S = 1..MaxTurns
  OBVIOUS
<1>0. PICK e \in Seq(S) : e = a.journal
  BY <1>s DEF AccType, Accumulator
<1>1. /\ e = a.journal /\ Len(e) \in Nat /\ DOMAIN e = 1..Len(e)
      /\ Len(e) <= JournalCap /\ a.sampled \in BOOLEAN
  BY <1>0 DEF AccType, Accumulator
<1>2. ASSUME NEW k \in 0..Len(a.journal)
      PROVE  NoNewEdge(a, Expire(a, k))
  <2> DEFINE t == SubSeq(e, k + 1, Len(e))
  <2>1. /\ t \in Seq(S) /\ Len(t) = Len(e) - k
        /\ \A i \in 1..Len(e) - k : t[i] = e[k + i]
    BY <1>1
  <2>2. Expire(a, k) = [a EXCEPT !.journal = t]
    BY <1>1 DEF Expire
  <2> HIDE DEF t
  <2>3. AccType([a EXCEPT !.journal = t])
    BY <1>1, <2>1, <1>s, JournalAssumption DEF AccType, Accumulator
  <2>4. \A i \in DOMAIN t : k + i \in DOMAIN e /\ t[i] = e[k + i]
    BY <1>1, <2>1
  <2> QED BY <2>2, <2>3, <2>4, <1>1 DEF NoNewEdge, AccType, Accumulator
<1>3. NoNewEdge(a, a) /\ NoNewEdge(a, PeekLatest(a)) /\ NoNewEdge(a, CommitLatest(a))
  BY <1>1 DEF NoNewEdge, AccType, Accumulator, PeekLatest, CommitLatest
<1>4. ASSUME NEW b
      PROVE  NoNewEdge(a, CommitTransition(a, b))
  <2>1. CASE HasTransition(a) /\ Head(a.journal) = b
    <3> DEFINE t == Tail(e)
    <3>1. e # <<>>
      BY <1>1, <2>1 DEF HasTransition
    <3>2. /\ t \in Seq(S) /\ Len(t) = Len(e) - 1
          /\ \A i \in 1..Len(e) - 1 : t[i] = e[i + 1]
      BY <1>1, <3>1
    <3>3. CommitTransition(a, b) = [a EXCEPT !.journal = t]
      BY <1>1, <2>1 DEF CommitTransition
    <3> HIDE DEF t
    <3>4. AccType([a EXCEPT !.journal = t])
      BY <1>1, <3>2, <1>s, JournalAssumption DEF AccType, Accumulator
    <3>5. \A i \in DOMAIN t : i + 1 \in DOMAIN e /\ t[i] = e[i + 1]
      BY <1>1, <3>2
    <3> QED BY <3>3, <3>4, <3>5, <1>1 DEF NoNewEdge, AccType, Accumulator
  <2>2. CASE ~(HasTransition(a) /\ Head(a.journal) = b)
    BY <2>2, <1>3 DEF CommitTransition
  <2> QED BY <2>1, <2>2
<1>5. NoNewEdge(a, PrepareForReconnect(a)) /\ PrepareForReconnect(a).journal = <<>>
  <2>1. PICK d \in BOOLEAN, h \in BOOLEAN :
          d = a.sampled /\ h = (a.held /\ ~a.sampled)
    BY <1>1
  <2>2. PICK t \in Seq(S) : t = <<>>
    BY EmptySeq
  <2>3. Len(t) = 0 /\ DOMAIN t = {}
    BY <2>2
  <2>4. PrepareForReconnect(a) =
          [a EXCEPT !.journal = t, !.dirty = d, !.held = h]
    BY <2>1, <2>2 DEF PrepareForReconnect
  <2>5. AccType([a EXCEPT !.journal = t, !.dirty = d, !.held = h])
    <3>1. Len(t) <= JournalCap
      BY <2>3, JournalAssumption
    <3>2. [a EXCEPT !.journal = t, !.dirty = d, !.held = h] \in Accumulator
      BY <1>s DEF AccType, Accumulator
    <3> QED BY <3>1, <3>2 DEF AccType, Accumulator
  <2>6. /\ PrepareForReconnect(a).journal = t
        /\ PrepareForReconnect(a).latest = a.latest
    BY <2>4 DEF AccType, Accumulator
  <2> QED BY <2>2, <2>3, <2>4, <2>5, <2>6 DEF NoNewEdge
<1> QED BY <1>2, <1>3, <1>4, <1>5

(* A published sample is the newest; an edge is newer than the one before. *)
LEMMA PublishedIsNewer ==
  ASSUME NEW a, AccType(a), NEW sample \in 0..MaxTurns, NEW r \in BOOLEAN,
         a.latest <= sample
  PROVE  LET b == Published(a, sample, r)
         IN  /\ AccType(b) /\ b.latest = sample
             /\ \A i \in DOMAIN b.journal :
                  \/ \E j \in DOMAIN a.journal : b.journal[i] = a.journal[j]
                  \/ b.journal[i] > a.latest
<1> DEFINE edge == r /\ a.sampled /\ Down(a.latest) # Down(sample)
           kept == IF edge /\ Len(a.journal) >= JournalCap
                   THEN Tail(a.journal) ELSE a.journal
           t == IF edge THEN Append(kept, sample) ELSE kept
<1>s. PICK S : S = 1..MaxTurns
  OBVIOUS
<1>0. PICK e \in Seq(S) : e = a.journal
  BY <1>s DEF AccType, Accumulator
<1>1. /\ e = a.journal /\ Len(e) \in Nat /\ DOMAIN e = 1..Len(e)
      /\ Len(e) <= JournalCap /\ a.sampled \in BOOLEAN
      /\ a.latest \in 0..MaxTurns
  BY <1>0 DEF AccType, Accumulator
<1>2. edge => sample > a.latest /\ sample \in 1..MaxTurns
  BY <1>1 DEF Down
<1>3. /\ kept \in Seq(S) /\ Len(kept) <= JournalCap
      /\ edge => Len(kept) < JournalCap
      /\ \A i \in 1..Len(kept) : \E j \in DOMAIN e : kept[i] = e[j]
  <2>1. CASE edge /\ Len(e) >= JournalCap
    <3>1. e # <<>>
      BY <1>1, <2>1, JournalAssumption
    <3>2. /\ Tail(e) \in Seq(S)
          /\ Len(Tail(e)) = Len(e) - 1
          /\ \A i \in 1..Len(e) - 1 :
               i + 1 \in DOMAIN e /\ Tail(e)[i] = e[i + 1]
      BY <1>1, <3>1
    <3>3. kept = Tail(e)
      BY <1>1, <2>1
    <3> HIDE DEF kept, edge
    <3> QED BY <1>1, <3>2, <3>3, JournalAssumption
  <2>2. CASE ~(edge /\ Len(e) >= JournalCap)
    <3>1. kept = e
      BY <1>1, <2>2
    <3>2. edge => Len(e) < JournalCap
      BY <2>2, <1>1, JournalAssumption
    <3> HIDE DEF kept, edge
    <3> QED BY <1>1, <3>1, <3>2
  <2> QED BY <2>1, <2>2
<1>4. Published(a, sample, r) =
        [a EXCEPT !.latest = sample, !.sampled = TRUE, !.dirty = a.dirty \/ r,
                  !.held = a.held /\ ~r, !.journal = t]
  BY DEF Published
<1> HIDE DEF edge, kept
<1>5. /\ t \in Seq(S) /\ Len(t) <= JournalCap
      /\ \A i \in DOMAIN t : \/ \E j \in DOMAIN e : t[i] = e[j]
                             \/ t[i] > a.latest
  <2>1. CASE edge
    <3>1. /\ t \in Seq(S) /\ Len(t) = Len(kept) + 1
          /\ \A i \in 1..Len(kept) + 1 : t[i] = IF i <= Len(kept) THEN kept[i] ELSE sample
      BY <2>1, <1>2, <1>3, <1>s
    <3>2. Len(kept) \in Nat
      BY <1>3
    <3> HIDE DEF t
    <3> QED BY <2>1, <1>2, <1>3, <3>1, <3>2, JournalAssumption
  <2>2. CASE ~edge
    BY <2>2, <1>3
  <2> QED BY <2>1, <2>2
<1> HIDE DEF t
<1>6. PICK d \in BOOLEAN, h \in BOOLEAN : d = (a.dirty \/ r) /\ h = (a.held /\ ~r)
  OBVIOUS
<1>7. Published(a, sample, r) =
        [a EXCEPT !.latest = sample, !.sampled = TRUE, !.dirty = d, !.held = h,
                  !.journal = t]
  BY <1>4, <1>6
<1> QED BY <1>1, <1>s, <1>5, <1>7 DEF AccType, Accumulator

-----------------------------------------------------------------------------
(* The input thread.                                                       *)
LEMMA InputKeepsInv ==
  ASSUME Inv, Turn \/ Sample \/ Publish
  PROVE  Inv'
<1>1. UNCHANGED <<pc, q, connected, wire, pad, taken, stage, ack, prepared,
                  reconnects, since, ready, snap, trouble>>
  BY DEF Turn, Sample, Publish, peer, session
<1>2. ControlInv'
  BY <1>1 DEF Inv, ControlInv, PlaceInv, LineInv, SaidInv, StartedInv, InputNeedsStartup,
              FlushedBeforeDelay
<1>3. CASE Turn
  <2>1. UNCHANGED <<thread, acc>> /\ turn' = turn + 1 /\ turn < MaxTurns
    BY <1>3 DEF Turn
  <2>2. TypeInv'
    BY <1>1, <2>1, BoundAssumption DEF Inv, TypeInv
  <2>3. SampleInv'
    BY <1>1, <2>1, BoundAssumption DEF Inv, TypeInv, SampleInv
  <2> QED BY <1>2, <2>2, <2>3 DEF Inv
<1>4. CASE Sample
  <2>1. /\ UNCHANGED <<turn, acc>>
        /\ thread' = [busy |-> TRUE, sample |-> turn, ready |-> ready]
    BY <1>4 DEF Sample
  <2>2. TypeInv'
    BY <1>1, <2>1 DEF Inv, TypeInv
  <2>3. acc.latest \in 0..MaxTurns
    BY DEF Inv, TypeInv, AccType, Accumulator
  <2>4. SampleInv'
    BY <1>1, <2>1, <2>3, BoundAssumption DEF Inv, TypeInv, SampleInv
  <2> QED BY <1>2, <2>2, <2>4 DEF Inv
<1>5. CASE Publish
  <2> DEFINE b == Published(acc, thread.sample, thread.ready)
  <2>1. /\ turn' = turn /\ acc' = b
        /\ thread' = [thread EXCEPT !.busy = FALSE, !.ready = FALSE]
    BY <1>5 DEF Publish
  <2>2. /\ AccType(acc) /\ thread.sample \in 0..MaxTurns /\ thread.ready \in BOOLEAN
        /\ acc.latest <= thread.sample
    BY DEF Inv, TypeInv, SampleInv
  <2>3. /\ AccType(b) /\ b.latest = thread.sample
        /\ \A i \in DOMAIN b.journal :
             \/ \E j \in DOMAIN acc.journal : b.journal[i] = acc.journal[j]
             \/ b.journal[i] > acc.latest
    BY <2>2, PublishedIsNewer
  <2> HIDE DEF b
  <2>4. thread' \in [busy : BOOLEAN, sample : 0..MaxTurns, ready : BOOLEAN]
        /\ thread'.sample = thread.sample
    BY <2>1 DEF Inv, TypeInv
  <2>5. TypeInv'
    BY <1>1, <2>1, <2>3, <2>4 DEF Inv, TypeInv
  <2>6. SampleInv'
    <3>1. ASSUME stage = "started" \/ pc = "ready"
          PROVE  since <= b.latest /\ \A i \in DOMAIN b.journal : b.journal[i] > since
      <4>1. /\ since <= acc.latest /\ \A j \in DOMAIN acc.journal : acc.journal[j] > since
            /\ since \in Int /\ acc.latest \in Int /\ thread.sample \in Int
        BY <3>1 DEF Inv, SampleInv, TypeInv, AccType, Accumulator
      <4>2. \A i \in DOMAIN b.journal : b.journal[i] \in Int
        BY <2>3, BoundAssumption DEF AccType, Accumulator
      <4> QED BY <4>1, <4>2, <2>2, <2>3
    <3>2. acc'.latest <= thread'.sample /\ thread'.sample <= turn'
      BY <2>1, <2>2, <2>3, <2>4, BoundAssumption DEF Inv, SampleInv
    <3> QED BY <1>1, <2>1, <3>1, <3>2 DEF SampleInv
  <2> QED BY <1>2, <2>5, <2>6 DEF Inv
<1> QED BY <1>3, <1>4, <1>5

(* The owner, who adds no edge and starts no association here.             *)
LEMMA OwnerKeepsSamples ==
  ASSUME SampleInv, NoNewEdge(acc, acc'), UNCHANGED <<turn, thread, since>>,
         stage' = "started" \/ pc' = "ready" => stage = "started" \/ pc = "ready"
  PROVE  SampleInv'
  BY DEF SampleInv, NoNewEdge

(* What is left to the type invariant when queue and wire are settled.     *)
Rest ==
  /\ AccType(acc')
  /\ stage' \in Stages /\ ready' \in BOOLEAN /\ ack' \in BOOLEAN
  /\ connected' \in BOOLEAN /\ prepared' \in BOOLEAN
  /\ reconnects' \in 0..MaxReconnects /\ since' \in 0..MaxTurns
  /\ snap' \in [type : Realtime, sample : 0..MaxTurns]

LEMMA PumpStepKeepsInv ==
  ASSUME Inv, PumpStep, Rest, NoNewEdge(acc, acc'), UNCHANGED <<turn, thread, since>>
  PROVE  Inv'
<1>1. ControlInv'
  BY PumpKeepsInv DEF Inv
<1>2. SampleInv'
  BY OwnerKeepsSamples DEF Inv, PumpStep
<1>3. TypeInv'
  BY DEF Inv, TypeInv, Rest, PumpStep, NetStep
<1> QED BY <1>1, <1>2, <1>3 DEF Inv

(* Nothing changes on the connection.                                      *)
LEMMA StillNetStep ==
  ASSUME Inv, UNCHANGED <<q, wire, pad, taken>>, trouble' \in 0..MaxTrouble
  PROVE  NetStep
<1>1. SameReliables(q, q')
  BY SameLineOrSame DEF Inv, TypeInv, SameReliables
<1> QED BY <1>1, QuietNetStep DEF Inv

LEMMA RestIsTyped ==
  ASSUME Inv
  PROVE  /\ UNCHANGED <<acc, stage, ready, ack, connected, prepared, reconnects,
                        since, snap>> => Rest
         /\ NoNewEdge(acc, acc) /\ AccType(acc) /\ QueueType(q)
         /\ trouble \in 0..MaxTrouble
  BY OwnerAddsNoEdge DEF Inv, TypeInv, Rest

-----------------------------------------------------------------------------
(* The owner takes input from the accumulator to the queue.                *)
LEMMA PeekTransitionKeepsInv ==
  ASSUME Inv, PeekTransition
  PROVE  Inv'
<1>1. /\ pc = "top"
      /\ UNCHANGED <<turn, thread, ready, q, connected, wire, pad, taken, stage, ack,
                     prepared, reconnects, since, trouble>>
      /\ \/ /\ stage = "started"
            /\ \E k \in 0..Len(acc.journal) :
                 /\ acc' = Expire(acc, k)
                 /\ \/ /\ acc'.journal # <<>> /\ pc' = "queue"
                       /\ snap' = [type |-> "InputTransition", sample |-> Head(acc'.journal)]
                    \/ pc' = "latest" /\ snap' = snap
         \/ pc' = "realtime" /\ UNCHANGED <<acc, snap>>
  BY DEF PeekTransition, Goto, HasTransition, input, peer, session
<1>2. NoNewEdge(acc, acc') /\ AccType(acc')
  <2>1. CASE acc' = acc
    BY <2>1, RestIsTyped
  <2>2. ASSUME NEW k \in 0..Len(acc.journal), acc' = Expire(acc, k)
        PROVE  NoNewEdge(acc, acc')
    BY <2>2, RestIsTyped, OwnerAddsNoEdge
  <2>3. NoNewEdge(acc, acc')
    BY <1>1, <2>1, <2>2
  <2> QED BY <2>3 DEF NoNewEdge
<1>3. ASSUME acc'.journal # <<>>
      PROVE  Head(acc'.journal) \in 0..MaxTurns
  <2>1. PICK S : S = 1..MaxTurns
    OBVIOUS
  <2>2. PICK e \in Seq(S) : e = acc'.journal
    BY <1>2, <2>1 DEF AccType, Accumulator
  <2>3. Head(e) \in S
    BY <1>3, <2>2
  <2> QED BY <2>1, <2>2, <2>3
<1>4. snap' \in [type : Realtime, sample : 0..MaxTurns]
  BY <1>1, <1>3 DEF Inv, TypeInv, Realtime
<1>5. Rest
  BY <1>1, <1>2, <1>4 DEF Inv, TypeInv, Rest
<1>6. NetStep
  BY <1>1, RestIsTyped, StillNetStep
<1>7. stage \notin Starting
  BY <1>1 DEF Inv, ControlInv, PlaceInv
<1>8. PumpStep
  BY <1>1, <1>6, <1>7 DEF PumpStep
<1> QED BY <1>1, <1>2, <1>5, <1>8, PumpStepKeepsInv

LEMMA PeekNewestKeepsInv ==
  ASSUME Inv, PeekNewest
  PROVE  Inv'
<1>1. /\ pc = "latest" /\ pc' \in {"queue", "realtime"}
      /\ UNCHANGED <<turn, thread, ready, q, connected, wire, pad, taken, stage, ack,
                     prepared, reconnects, since, trouble>>
      /\ \/ acc' = PeekLatest(acc) /\ snap' = [type |-> "InputLatest", sample |-> acc.latest]
         \/ UNCHANGED <<acc, snap>>
  BY DEF PeekNewest, Goto, input, peer, session
<1>2. NoNewEdge(acc, acc') /\ AccType(acc')
  BY <1>1, RestIsTyped, OwnerAddsNoEdge DEF NoNewEdge
<1>3. snap' \in [type : Realtime, sample : 0..MaxTurns]
  BY <1>1 DEF Inv, TypeInv, Realtime, AccType, Accumulator
<1>4. Rest
  BY <1>1, <1>2, <1>3 DEF Inv, TypeInv, Rest
<1>5. NetStep
  BY <1>1, RestIsTyped, StillNetStep
<1>6. stage = "started"
  BY <1>1 DEF Inv, ControlInv, PlaceInv
<1>7. PumpStep
  BY <1>1, <1>5, <1>6 DEF PumpStep, Starting
<1> QED BY <1>1, <1>2, <1>4, <1>7, PumpStepKeepsInv

LEMMA CommitKeepsInv ==
  ASSUME Inv, Commit
  PROVE  Inv'
<1>1. /\ pc = "commit" /\ pc' = "realtime" /\ snap' = NoSnapshot
      /\ UNCHANGED <<turn, thread, ready, q, connected, wire, pad, taken, stage, ack,
                     prepared, reconnects, since, trouble>>
      /\ acc' \in {CommitTransition(acc, snap.sample), CommitLatest(acc)}
  BY DEF Commit, Goto, input, peer, session
<1>2. NoNewEdge(acc, acc') /\ AccType(acc')
  BY <1>1, RestIsTyped, OwnerAddsNoEdge DEF NoNewEdge
<1>3. snap' \in [type : Realtime, sample : 0..MaxTurns]
  BY <1>1, BoundAssumption DEF NoSnapshot, Realtime
<1>4. Rest
  BY <1>1, <1>2, <1>3 DEF Inv, TypeInv, Rest
<1>5. NetStep
  BY <1>1, RestIsTyped, StillNetStep
<1>6. PumpStep
  BY <1>1, <1>5 DEF PumpStep
<1> QED BY <1>1, <1>2, <1>4, <1>6, PumpStepKeepsInv

LEMMA QueueInputKeepsInv ==
  ASSUME Inv, QueueInput
  PROVE  Inv'
<1>1. /\ pc = "queue" /\ pc' \in {"commit", "realtime"}
      /\ UNCHANGED <<turn, thread, acc, ready, drain, connected, wire, pad, taken, stage,
                     ack, prepared, reconnects, since, trouble>>
      /\ snap' = snap \/ snap' = NoSnapshot
      /\ \/ Accepts(q, snap.type) /\ q' = EnqueueData(q, snap.type, snap.sample)
         \/ q' = q
  BY DEF QueueInput, Goto, input, session
<1>2. stage = "started"
  BY <1>1 DEF Inv, ControlInv, PlaceInv
<1>3. snap \in [type : Realtime, sample : 0..MaxTurns] /\ QueueType(q)
  BY DEF Inv, TypeInv
<1>4. /\ QueueType(q') /\ q'.failed = q.failed /\ q'.event = q.event
      /\ SameLine(q.commands, q'.commands)
  <2>1. CASE q' = q
    BY <1>3, <2>1, SameLineOrSame
  <2>2. CASE Accepts(q, snap.type) /\ q' = EnqueueData(q, snap.type, snap.sample)
    BY <1>3, <2>2, EnqueueInput
  <2> QED BY <1>1, <2>1, <2>2
<1>5. ControlInv'
  BY <1>1, <1>2, <1>4 DEF Inv, ControlInv, PlaceInv, LineInv, SaidInv, StartedInv,
     InputNeedsStartup, FlushedBeforeDelay, SameLine, Starting
<1>6. snap' \in [type : Realtime, sample : 0..MaxTurns]
  BY <1>1, <1>3, BoundAssumption DEF NoSnapshot, Realtime
<1>7. TypeInv'
  BY <1>1, <1>4, <1>6 DEF Inv, TypeInv
<1>8. SampleInv'
  BY <1>1, <1>2, RestIsTyped, OwnerKeepsSamples DEF Inv
<1> QED BY <1>5, <1>7, <1>8 DEF Inv

-----------------------------------------------------------------------------
(* What pumps the connection, waits for it or has nothing to do.           *)
LEMMA PassKeepsInv ==
  ASSUME Inv, NetStep, connected' => connected, connected' \in BOOLEAN,
         ack' \in BOOLEAN, reconnects' \in 0..MaxReconnects,
         UNCHANGED <<turn, thread, acc, ready, snap, stage, prepared, since>>,
         pc' \in {"realtime", "events", "drain", "pumped", "watch", "top", "lost", "over"},
         stage \in Starting => pc' \in {"realtime", "events", "drain", "pumped"}
  PROVE  Inv'
<1>1. PumpStep
  BY DEF PumpStep
<1>2. Rest /\ NoNewEdge(acc, acc')
  BY RestIsTyped DEF Inv, TypeInv, Rest
<1> QED BY <1>1, <1>2, PumpStepKeepsInv

LEMMA PumpInputKeepsInv ==
  ASSUME Inv, PumpInput
  PROVE  Inv'
<1>1. /\ pc' = "events"
      /\ UNCHANGED <<turn, thread, acc, ready, snap, stage, ack, prepared, reconnects, since>>
      /\ \/ UNCHANGED <<q, connected, wire, pad, taken, trouble>>
         \/ /\ Selectable(q, Realtime) # {}
            /\ \/ Expired(Selected(q, Realtime))
               \/ \E result \in Results : Sent(Selected(q, Realtime), result)
  BY DEF PumpInput, Goto, input, peer, session
<1>2. Drained(Realtime)
  BY TypesOfCommands DEF Drained
<1>3. TypeInv /\ QueueType(q)
  BY DEF Inv, TypeInv
<1>4. NetStep /\ connected' = connected
  <2>1. CASE UNCHANGED <<q, connected, wire, pad, taken, trouble>>
    BY <2>1, RestIsTyped, StillNetStep
  <2>2. CASE Selectable(q, Realtime) # {} /\ Expired(Selected(q, Realtime))
    <3>1. Selected(q, Realtime) \in 1..Len(q.commands)
      BY <1>3, <2>2, SelectedIsFirst
    <3> QED BY <1>3, <2>2, <3>1, ExpiredIsNetStep
  <2>3. CASE /\ Selectable(q, Realtime) # {}
             /\ \E result \in Results : Sent(Selected(q, Realtime), result)
    BY <1>2, <1>3, <2>3, SentIsNetStep
  <2> QED BY <1>1, <2>1, <2>2, <2>3
<1>5. connected' \in BOOLEAN /\ ack' \in BOOLEAN /\ reconnects' \in 0..MaxReconnects
  BY <1>1, <1>4 DEF Inv, TypeInv
<1> QED BY <1>1, <1>4, <1>5, PassKeepsInv

LEMMA LoopKeepsInv ==
  ASSUME Inv, LoopQuiet \/ LoopDrop \/ LoopAck \/ LoopNack
  PROVE  Inv'
<1>1. /\ pc' = "drain"
      /\ UNCHANGED <<turn, thread, acc, ready, snap, stage, prepared, reconnects, since,
                     wire, pad, taken>>
      /\ ack' \in {ack, TRUE} /\ connected' \in {connected, FALSE}
  BY DEF LoopQuiet, LoopDrop, LoopAck, LoopNack, Looped, Goto, input, peer, session
<1>2. TypeInv /\ QueueType(q)
  BY DEF Inv, TypeInv
<1>3. trouble' \in 0..MaxTrouble
  <2>1. trouble' = trouble \/ (trouble < MaxTrouble /\ trouble' = trouble + 1)
    BY DEF LoopQuiet, LoopDrop, LoopAck, LoopNack
  <2> QED BY <2>1, <1>2, BoundAssumption DEF TypeInv
<1>4. NetStep
  <2>1. CASE q' = q
    BY <1>1, <1>3, <2>1, StillNetStep
  <2>2. CASE q' = EnqueueRtcp(q, "Nack")
    <3>1. SameReliables(q, q')
      BY <1>2, <2>2, RtcpKeepsReliables DEF RtcpTypes
    <3> QED BY <1>1, <1>2, <1>3, <3>1, QuietNetStep
  <2> QED BY <2>1, <2>2 DEF LoopQuiet, LoopDrop, LoopAck, LoopNack, peer
<1>5. /\ connected' \in BOOLEAN /\ ack' \in BOOLEAN /\ reconnects' \in 0..MaxReconnects
      /\ connected' => connected
  <2>1. connected \in BOOLEAN /\ ack \in BOOLEAN /\ reconnects' \in 0..MaxReconnects
    BY <1>1, <1>2 DEF TypeInv
  <2>2. connected' \in BOOLEAN /\ (connected' => connected)
    <3>1. CASE connected' = connected
      BY <2>1, <3>1
    <3>2. CASE connected' = FALSE
      BY <3>2
    <3> QED BY <1>1, <3>1, <3>2
  <2>3. ack' \in BOOLEAN
    BY <1>1, <2>1
  <2> QED BY <2>1, <2>2, <2>3
<1> QED BY <1>1, <1>4, <1>5, PassKeepsInv

LEMMA DrainOneKeepsInv ==
  ASSUME Inv, DrainOne
  PROVE  Inv'
<1>1. /\ pc' \in {"drain", "pumped"} /\ Selectable(q, Open) # {}
      /\ UNCHANGED <<turn, thread, acc, ready, snap, stage, ack, prepared, reconnects, since>>
      /\ \/ Expired(Selected(q, Open))
         \/ \E result \in Results : Sent(Selected(q, Open), result)
  BY DEF DrainOne, Goto, input, session
<1>2. Drained(Open)
  BY TypesOfCommands DEF Drained, Open, Sctp
<1>3. TypeInv /\ QueueType(q)
  BY DEF Inv, TypeInv
<1>4. NetStep /\ connected' = connected
  <2>1. CASE Expired(Selected(q, Open))
    <3>1. Selected(q, Open) \in 1..Len(q.commands)
      BY <1>1, <1>3, SelectedIsFirst
    <3> QED BY <1>3, <2>1, <3>1, ExpiredIsNetStep
  <2>2. CASE \E result \in Results : Sent(Selected(q, Open), result)
    BY <1>1, <1>2, <1>3, <2>2, SentIsNetStep
  <2> QED BY <1>1, <2>1, <2>2
<1>5. connected' \in BOOLEAN /\ ack' \in BOOLEAN /\ reconnects' \in 0..MaxReconnects
  BY <1>1, <1>3, <1>4 DEF TypeInv
<1> QED BY <1>1, <1>4, <1>5, PassKeepsInv

LEMMA DrainDoneKeepsInv ==
  ASSUME Inv, DrainDone
  PROVE  Inv'
<1>1. /\ pc' = "pumped"
      /\ UNCHANGED <<turn, thread, acc, ready, snap, stage, ack, prepared, reconnects, since,
                     q, connected, wire, pad, taken>>
      /\ trouble' = trouble \/ (trouble < MaxTrouble /\ trouble' = trouble + 1)
  BY DEF DrainDone, Goto, input, peer, session
<1>2. trouble' \in 0..MaxTrouble
  BY <1>1, BoundAssumption DEF Inv, TypeInv
<1>3. NetStep
  BY <1>1, <1>2, StillNetStep
<1>4. connected' \in BOOLEAN /\ ack' \in BOOLEAN /\ reconnects' \in 0..MaxReconnects
  BY <1>1 DEF Inv, TypeInv
<1> QED BY <1>1, <1>3, <1>4, PassKeepsInv

(* The protocol goes on waiting; or the pass ends, and then no protocol    *)
(* runs.                                                                   *)
LEMMA WaitingKeepsInv ==
  ASSUME Inv, ProtocolWaits \/ Quiet \/ Feedback \/ BackOff \/ GiveUp
  PROVE  Inv'
<1>1. /\ UNCHANGED <<turn, thread, acc, ready, snap, stage, ack, prepared, since,
                     connected, wire, pad, taken>>
      /\ reconnects' \in {reconnects, 0}
      /\ pc' \in {"realtime", "top", "watch", "over"}
      /\ pc' = "realtime" \/ pc \in {"watch", "lost"}
      /\ trouble' = trouble \/ (trouble < MaxTrouble /\ trouble' = trouble + 1)
      /\ q' = q \/ q' = EnqueueRtcp(q, "ReceiverFeedback")
  BY DEF ProtocolWaits, Quiet, Feedback, BackOff, GiveUp, Goto, input, peer, session
<1>2. TypeInv /\ QueueType(q)
  BY DEF Inv, TypeInv
<1>3. trouble' \in 0..MaxTrouble
  BY <1>1, <1>2, BoundAssumption DEF TypeInv
<1>4. NetStep
  <2>1. CASE q' = q
    BY <1>1, <1>3, <2>1, StillNetStep
  <2>2. CASE q' = EnqueueRtcp(q, "ReceiverFeedback")
    <3>1. SameReliables(q, q')
      BY <1>2, <2>2, RtcpKeepsReliables DEF RtcpTypes
    <3> QED BY <1>1, <1>2, <1>3, <3>1, QuietNetStep
  <2> QED BY <1>1, <2>1, <2>2
<1>5. connected' \in BOOLEAN /\ ack' \in BOOLEAN /\ reconnects' \in 0..MaxReconnects
  BY <1>1, <1>2, BoundAssumption DEF TypeInv
<1>6. stage \in Starting => pc' = "realtime"
  BY <1>1 DEF Inv, ControlInv, PlaceInv
<1> QED BY <1>1, <1>4, <1>5, <1>6, PassKeepsInv

-----------------------------------------------------------------------------
(* The start-up protocol: it gives up, or goes on when all is sent.        *)
LEMMA ProtocolFailsKeepsInv ==
  ASSUME Inv, ProtocolFails
  PROVE  Inv'
<1>1. /\ stage \in Starting /\ stage' = "idle" /\ pc' = "watch"
      /\ q' = [q EXCEPT !.event = FALSE]
      /\ UNCHANGED <<turn, thread, acc, ready, snap, connected, wire, pad, taken, ack,
                     prepared, reconnects, since>>
      /\ trouble' = trouble \/ (trouble < MaxTrouble /\ trouble' = trouble + 1)
  BY DEF ProtocolFails, Fail, Goto, input
<1>2. TypeInv /\ QueueType(q)
  BY DEF Inv, TypeInv
<1>3. QueueType(q') /\ q'.commands = q.commands /\ q'.failed = q.failed
  BY <1>1, <1>2 DEF QueueType
<1>4. trouble' \in 0..MaxTrouble
  BY <1>1, <1>2, BoundAssumption DEF TypeInv
<1>5. TypeInv'
  BY <1>1, <1>2, <1>3, <1>4 DEF TypeInv, Stages
<1>6. SampleInv'
  BY <1>1 DEF Inv, SampleInv
<1>7. PlaceInv' /\ LineInv' /\ SaidInv'
  BY <1>1, <1>3 DEF Inv, ControlInv, PlaceInv, LineInv, SaidInv, Starting
<1>8. StartedInv'
  BY <1>1, <1>3 DEF Inv, ControlInv, StartedInv, Starting
<1>9. InputNeedsStartup' /\ FlushedBeforeDelay'
  BY <1>1 DEF Inv, ControlInv, InputNeedsStartup, FlushedBeforeDelay
<1> QED BY <1>5, <1>6, <1>7, <1>8, <1>9 DEF Inv, ControlInv

(* Nothing reliable waits: what has been said is on the wire.              *)
LEMMA NothingWaits ==
  ASSUME QueueType(q), ~HasPendingReliable(q)
  PROVE  /\ Places(q.commands) = {}
         /\ Bodies(wire, q.commands) = {wire[i] : i \in Numbered(wire)}
<1>1. Places(q.commands) = {}
  <2>1. q.commands \in Seq(Commands)
    BY DEF QueueType
  <2>2. (\E i \in 1..Len(q.commands) : q.commands[i].type \in Reliable) =>
          FirstOf(q, Reliable) \in 1..Len(q.commands)
    BY <2>1, FirstOfFinds
  <2>3. 0 \notin 1..Len(q.commands) /\ FirstOf(q, Reliable) = 0
    BY DEF HasPendingReliable
  <2> QED BY <2>1, <2>2, <2>3 DEF Places
<1> QED BY <1>1 DEF Bodies

(* The two commands of the authorization are the last on the wire.         *)
LEMMA LastOnTheWire ==
  ASSUME wire \in Wire, taken \in Nat, NEW s, InLine(wire, s, taken),
         Body("auth", taken - 1) \in {wire[i] : i \in Numbered(wire)},
         Body("removed", taken) \in {wire[i] : i \in Numbered(wire)}
  PROVE  \E i, j \in DOMAIN wire :
           /\ i < j /\ wire[i].say = "auth" /\ wire[j].say = "removed"
           /\ \A k \in DOMAIN wire :
                k > i /\ wire[k].say \in {"auth", "removed", "added"} => k = j
<1>1. PICK i \in Numbered(wire) : wire[i] = Body("auth", taken - 1)
  OBVIOUS
<1>2. PICK j \in Numbered(wire) : wire[j] = Body("removed", taken)
  OBVIOUS
<1>3. /\ wire[i].say = "auth" /\ wire[i].nr = taken - 1
      /\ wire[j].say = "removed" /\ wire[j].nr = taken
  BY <1>1, <1>2 DEF Body
<1>4. /\ DOMAIN wire = 1..Len(wire) /\ Len(wire) \in Nat
      /\ Numbered(wire) \subseteq 1..Len(wire)
      /\ \A k \in 1..Len(wire) : wire[k] \in Spoken \cup {Body("input", 0)}
  BY DEF Wire, Numbered
<1>5. \A a, b \in Numbered(wire) :
        a < b /\ wire[a].say # "metadata" /\ wire[b].say # "metadata" =>
          wire[a].nr < wire[b].nr
  BY DEF InLine, WireInOrder, Before
<1>6. i < j
  <2>1. i # j
    BY <1>3
  <2>2. ~(j < i)
    BY <1>3, <1>5
  <2> QED BY <2>1, <2>2, <1>4
<1>7. ASSUME NEW k \in DOMAIN wire, k > i, wire[k].say \in {"auth", "removed", "added"}
      PROVE  k = j
  <2>1. wire[k] \in Spoken /\ wire[k].nr \in Nat
    BY <1>4, <1>7 DEF Spoken, Body
  <2>2. k \in Numbered(wire)
    BY <2>1 DEF Numbered, Spoken
  <2>3. wire[k].nr \in 1..taken
    <3>1. wire[k] \in Bodies(wire, s)
      BY <2>2 DEF Bodies
    <3> QED BY <3>1 DEF InLine
  <2>4. wire[k].nr = taken
    BY <1>3, <1>5, <1>7, <2>1, <2>2, <2>3
  <2>5. ~(k < j) /\ ~(j < k)
    BY <1>3, <1>5, <1>7, <2>2, <2>4
  <2> QED BY <2>5, <1>4, <2>2
<1> QED BY <1>3, <1>4, <1>6, <1>7

LEMMA ProtocolGoesOnKeepsInv ==
  ASSUME Inv, ProtocolGoesOn
  PROVE  Inv'
<1>1. /\ stage \in Starting /\ Done
      /\ \/ stage = "handshake" /\ pc' = "acked"
         \/ stage = "auth" /\ pc' = "delay"
         \/ stage = "final" /\ pc' = "enable"
      /\ UNCHANGED <<turn, thread, acc, ready, snap, q, connected, wire, pad, taken,
                     stage, ack, prepared, reconnects, since, trouble>>
  BY DEF ProtocolGoesOn, Goto, Starting, input, peer, session
<1>2. TypeInv /\ QueueType(q) /\ wire \in Wire /\ taken \in Nat
  BY DEF Inv, TypeInv
<1>3. TypeInv'
  BY <1>1, <1>2 DEF TypeInv
<1>4. SampleInv'
  BY <1>1 DEF Inv, SampleInv, Starting
<1>5. PlaceInv' /\ LineInv' /\ SaidInv' /\ InputNeedsStartup'
  BY <1>1 DEF Inv, ControlInv, PlaceInv, LineInv, SaidInv, InputNeedsStartup, Starting
<1>6. ASSUME stage \in {"auth", "final"}
      PROVE  /\ ~HasPendingReliable(q) /\ ~q.failed /\ InLine(wire, q.commands, taken)
             /\ Bodies(wire, q.commands) = {wire[i] : i \in Numbered(wire)}
  <2>1. ~HasPendingReliable(q) /\ ~q.event
    BY <1>1, <1>6 DEF Done, Flushed
  <2>2. ~q.failed /\ InLine(wire, q.commands, taken)
    BY <1>1, <2>1 DEF Inv, ControlInv, LineInv
  <2> QED BY <1>2, <2>1, <2>2, NothingWaits
<1>7. StartedInv'
  <2>1. stage = "final" => Startup \subseteq {wire[i].say : i \in Numbered(wire)}
    BY <1>6 DEF Inv, ControlInv, SaidInv
  <2> QED BY <1>1, <2>1 DEF Inv, ControlInv, StartedInv, Starting
<1>8. FlushedBeforeDelay'
  <2>1. CASE stage = "auth"
    <3>1. /\ Body("auth", taken - 1) \in {wire[i] : i \in Numbered(wire)}
          /\ Body("removed", taken) \in {wire[i] : i \in Numbered(wire)}
      BY <1>6, <2>1 DEF Inv, ControlInv, SaidInv
    <3>3. \E i, j \in DOMAIN wire :
             /\ i < j /\ wire[i].say = "auth" /\ wire[j].say = "removed"
             /\ \A k \in DOMAIN wire :
                  k > i /\ wire[k].say \in {"auth", "removed", "added"} => k = j
      BY <1>2, <1>6, <2>1, <3>1, LastOnTheWire
    <3>4. ~HasPendingReliable(q')
      BY <1>1, <1>6, <2>1
    <3> QED BY <1>1, <3>3, <3>4 DEF FlushedBeforeDelay
  <2>2. CASE stage # "auth"
    BY <1>1, <2>2 DEF FlushedBeforeDelay
  <2> QED BY <2>1, <2>2
<1> QED BY <1>3, <1>4, <1>5, <1>7, <1>8 DEF Inv, ControlInv

-----------------------------------------------------------------------------
(* What the owner has when it has sent one command after the other.        *)
Sends(s) ==
  /\ SendingType(s) /\ s.q.failed = q.failed /\ s.q.event = q.event
  /\ s.ok => connected
  /\ HasInput(s.q.commands) => HasInput(q.commands)
  /\ Bodies(wire, q.commands) \subseteq Bodies(wire, s.q.commands)
  /\ InLine(wire, q.commands, taken) => InLine(wire, s.q.commands, s.taken)

LEMMA FirstOfAll ==
  ASSUME TypeInv
  PROVE  Sends(Sending) /\ Sending.taken = taken
<1>1. Sending = [q |-> q, taken |-> taken, ok |-> connected]
  BY DEF Sending
<1> QED BY <1>1 DEF Sends, SendingType, TypeInv

LEMMA OneMore ==
  ASSUME TypeInv, NEW s, Sends(s), NEW type \in Reliable, NEW say \in Says,
         type = "InputReliable" => say = "metadata"
  PROVE  LET t == Send(s, type, say)
         IN  /\ Sends(t)
             /\ Bodies(wire, s.q.commands) \subseteq Bodies(wire, t.q.commands)
             /\ t.ok => /\ s.ok /\ ~q.failed /\ t.taken = s.taken + 1
                        /\ Body(say, t.taken) \in Bodies(wire, t.q.commands)
<1> DEFINE t == Send(s, type, say)
<1>1. /\ SendingType(t) /\ t.q.failed = s.q.failed /\ t.q.event = s.q.event
      /\ HasInput(t.q.commands) => HasInput(s.q.commands)
      /\ Bodies(wire, s.q.commands) \subseteq Bodies(wire, t.q.commands)
      /\ t.ok => /\ s.ok /\ ~s.q.failed /\ t.taken = s.taken + 1
                 /\ Body(say, s.taken + 1) \in Bodies(wire, t.q.commands)
      /\ InLine(wire, s.q.commands, s.taken) => InLine(wire, t.q.commands, t.taken)
  BY SendStep DEF TypeInv, Sends
<1> HIDE DEF t
<1>2. Sends(t)
  BY <1>1 DEF Sends
<1> QED BY <1>1, <1>2 DEF Sends, t

(* The commands of a step of the protocol are queued, or it has failed.    *)
LEMMA QueueingKeepsInv ==
  ASSUME Inv, NEW s, Sends(s), Queued(s), stage \in {"idle", "handshake", "auth"},
         NEW next \in Starting, stage' = IF s.ok THEN next ELSE "idle",
         s.ok => ~q.failed,
         pc' \in {"watch", "realtime", "acked"}, pc' = "watch" => ~s.ok,
         pc' = "acked" => stage' = "handshake", SaidInv',
         UNCHANGED <<turn, thread, acc, ready, snap, connected, wire, pad, ack,
                     prepared, reconnects, since, trouble>>
  PROVE  Inv'
<1>1. q' = s.q /\ taken' = s.taken
  BY DEF Queued
<1>2. QueueType(q') /\ taken' \in Nat /\ q'.failed = q.failed /\ q'.event = q.event
  BY <1>1 DEF Sends, SendingType
<1>3. stage' \in Stages
  BY DEF Starting, Stages
<1>4. TypeInv'
  BY <1>2, <1>3 DEF Inv, TypeInv
<1>5. SampleInv'
  BY DEF Inv, SampleInv, Starting
<1>6. PlaceInv'
  BY DEF PlaceInv, Starting
<1>7. LineInv'
  <2>1. CASE q.failed
    BY <1>2, <2>1 DEF Inv, ControlInv, LineInv, Starting
  <2>2. CASE InLine(wire, q.commands, taken)
    <3>1. InLine(wire', q'.commands, taken')
      BY <1>1, <2>2 DEF Sends
    <3>2. stage' \in Starting /\ q'.failed => q'.event
      BY <1>2 DEF Starting
    <3> QED BY <3>1, <3>2 DEF LineInv
  <2>3. CASE ~connected
    <3>1. stage' = "idle"
      BY <2>3 DEF Sends
    <3> QED BY <2>3, <3>1 DEF LineInv, Starting
  <2> QED BY <2>1, <2>2, <2>3 DEF Inv, ControlInv, LineInv
<1>8. StartedInv'
  <2>1. ~HasInput(q'.commands)
    BY <1>1 DEF Inv, ControlInv, StartedInv, Sends
  <2> QED BY <2>1 DEF StartedInv, Starting
<1>9. InputNeedsStartup' /\ FlushedBeforeDelay'
  BY DEF Inv, ControlInv, InputNeedsStartup, FlushedBeforeDelay
<1> QED BY <1>4, <1>5, <1>6, <1>7, <1>8, <1>9 DEF Inv, ControlInv

LEMMA BeginKeepsInv ==
  ASSUME Inv, Begin
  PROVE  Inv'
<1> DEFINE s == Send(Sending, "Message", "handshake")
<1>1. /\ pc = "start" /\ Queued(s)
      /\ stage' = IF s.ok THEN "handshake" ELSE "idle"
      /\ pc' = CASE ~s.ok -> "watch" [] s.ok /\ ack -> "acked" [] OTHER -> "realtime"
      /\ UNCHANGED <<turn, thread, acc, ready, snap, connected, wire, pad, ack,
                     prepared, reconnects, since, trouble>>
  BY DEF Begin, Goto, input
<1>2. TypeInv /\ "Message" \in Reliable /\ "handshake" \in Says
  BY DEF Inv, Reliable, Says
<1>3. Sends(s) /\ (s.ok => ~q.failed)
  BY <1>2, FirstOfAll, OneMore
<1> HIDE DEF s
<1>4. stage = "idle"
  BY <1>1 DEF Inv, ControlInv, PlaceInv
<1>5. SaidInv'
  BY <1>1 DEF SaidInv
<1>6. /\ pc' \in {"watch", "realtime", "acked"} /\ (pc' = "watch" => ~s.ok)
      /\ pc' = "acked" => stage' = "handshake"
  BY <1>1
<1>7. "handshake" \in Starting
  BY DEF Starting
<1> QED BY <1>1, <1>3, <1>4, <1>5, <1>6, <1>7, QueueingKeepsInv

LEMMA AuthorizeKeepsInv ==
  ASSUME Inv, Authorize
  PROVE  Inv'
<1> DEFINE r == Send(Sending, "Control", "auth")
           s == Send(r, "Control", "removed")
<1>1. /\ pc = "acked" /\ QueuedOrFailed(s, "auth")
      /\ UNCHANGED <<turn, thread, acc, ready, snap, connected, wire, pad, ack,
                     prepared, reconnects, since, trouble>>
  BY DEF Authorize, input
<1>2. TypeInv /\ "Control" \in Reliable /\ "auth" \in Says /\ "removed" \in Says
  BY DEF Inv, Reliable, Says
<1>3. /\ Sends(r)
      /\ r.ok => /\ r.taken = taken + 1
                 /\ Body("auth", r.taken) \in Bodies(wire, r.q.commands)
  BY <1>2, FirstOfAll, OneMore
<1> HIDE DEF r
<1>4. /\ Sends(s) /\ Bodies(wire, r.q.commands) \subseteq Bodies(wire, s.q.commands)
      /\ s.ok => /\ r.ok /\ ~q.failed /\ s.taken = r.taken + 1
                 /\ Body("removed", s.taken) \in Bodies(wire, s.q.commands)
  BY <1>2, <1>3, OneMore
<1> HIDE DEF s
<1>5. stage = "handshake"
  BY <1>1 DEF Inv, ControlInv, PlaceInv
<1>6. /\ Queued(s) /\ stage' = IF s.ok THEN "auth" ELSE "idle"
      /\ pc' = IF s.ok THEN "realtime" ELSE "watch"
  BY <1>1 DEF QueuedOrFailed, Goto
<1>7. SaidInv'
  <2>1. CASE s.ok
    <3>1. r.taken \in Nat /\ s.taken - 1 = r.taken
      BY <1>3, <1>4, <2>1 DEF Sends, SendingType
    <3>2. /\ Body("auth", s.taken - 1) \in Bodies(wire, s.q.commands)
          /\ Body("removed", s.taken) \in Bodies(wire, s.q.commands)
      BY <1>3, <1>4, <2>1, <3>1
    <3> QED BY <1>1, <1>6, <2>1, <3>2 DEF SaidInv, Queued
  <2>2. CASE ~s.ok
    BY <1>6, <2>2 DEF SaidInv
  <2> QED BY <2>1, <2>2
<1>8. /\ "auth" \in Starting /\ (s.ok => ~q.failed)
      /\ pc' \in {"watch", "realtime", "acked"} /\ (pc' = "watch" => ~s.ok) /\ pc' # "acked"
  BY <1>4, <1>5, <1>6, <1>7 DEF Starting
<1> QED BY <1>1, <1>4, <1>5, <1>6, <1>7, <1>8, QueueingKeepsInv

LEMMA AddGamepadKeepsInv ==
  ASSUME Inv, AddGamepad
  PROVE  Inv'
<1> DEFINE a == Send(Sending, "Control", "added")
           b == Send(a, "Message", "startup")
           s == Send(b, "InputReliable", "metadata")
           Said(t) == {e.say : e \in Bodies(wire, t.q.commands)}
<1>1. /\ pc = "delay" /\ QueuedOrFailed(s, "final")
      /\ UNCHANGED <<turn, thread, acc, ready, snap, connected, wire, pad, ack,
                     prepared, reconnects, since, trouble>>
  BY DEF AddGamepad, input
<1>2. /\ TypeInv /\ "Control" \in Reliable /\ "Message" \in Reliable
      /\ "InputReliable" \in Reliable
      /\ "added" \in Says /\ "startup" \in Says /\ "metadata" \in Says
  BY DEF Inv, Reliable, Says
<1>3. Sends(a) /\ (a.ok => Body("added", a.taken) \in Bodies(wire, a.q.commands))
  BY <1>2, FirstOfAll, OneMore
<1> HIDE DEF a
<1>4. /\ Sends(b) /\ Bodies(wire, a.q.commands) \subseteq Bodies(wire, b.q.commands)
      /\ b.ok => a.ok /\ Body("startup", b.taken) \in Bodies(wire, b.q.commands)
  BY <1>2, <1>3, OneMore
<1> HIDE DEF b
<1>5. /\ Sends(s) /\ Bodies(wire, b.q.commands) \subseteq Bodies(wire, s.q.commands)
      /\ s.ok => b.ok /\ ~q.failed /\ Body("metadata", s.taken) \in Bodies(wire, s.q.commands)
  BY <1>2, <1>4, OneMore
<1> HIDE DEF s
<1>6. stage = "auth"
  BY <1>1 DEF Inv, ControlInv, PlaceInv
<1>7. /\ Queued(s) /\ stage' = IF s.ok THEN "final" ELSE "idle"
      /\ pc' = IF s.ok THEN "realtime" ELSE "watch"
  BY <1>1 DEF QueuedOrFailed, Goto
<1>8. SaidInv'
  <2>1. CASE s.ok
    <3>1. /\ Body("auth", taken - 1) \in Bodies(wire, s.q.commands)
          /\ Body("removed", taken) \in Bodies(wire, s.q.commands)
      BY <1>5, <1>6, <2>1 DEF Sends, Inv, ControlInv, SaidInv
    <3>2. /\ Body("added", a.taken) \in Bodies(wire, s.q.commands)
          /\ Body("startup", b.taken) \in Bodies(wire, s.q.commands)
          /\ Body("metadata", s.taken) \in Bodies(wire, s.q.commands)
      BY <1>3, <1>4, <1>5, <2>1
    <3>3. \A say, n : Body(say, n).say = say
      BY DEF Body
    <3>4. Startup \subseteq Said(s)
      BY <3>1, <3>2, <3>3 DEF Startup
    <3> QED BY <1>1, <1>7, <2>1, <3>4 DEF SaidInv, Queued
  <2>2. CASE ~s.ok
    BY <1>7, <2>2 DEF SaidInv
  <2> QED BY <2>1, <2>2
<1>9. /\ "final" \in Starting /\ (s.ok => ~q.failed)
      /\ pc' \in {"watch", "realtime", "acked"} /\ (pc' = "watch" => ~s.ok) /\ pc' # "acked"
  BY <1>4, <1>5, <1>6, <1>7 DEF Starting
<1> QED BY <1>1, <1>5, <1>6, <1>7, <1>8, <1>9, QueueingKeepsInv

-----------------------------------------------------------------------------
(* A key-frame request adds to the line and changes nothing else.          *)
LEMMA KeyframeRequestSends ==
  ASSUME TypeInv, KeyframeRequest
  PROVE  \E s : Sends(s) /\ Queued(s)
<1> DEFINE x == IF connected THEN EnqueueRtcp(q, "Pli") ELSE q
           r == [Sending EXCEPT !.q = x]
           s == Send(r, "Control", "keyframe")
<1>1. SameReliables(q, x)
  BY RtcpKeepsReliables, SameLineOrSame DEF TypeInv, RtcpTypes, SameReliables
<1>2. x.failed = q.failed /\ x.event = q.event /\ QueueType(x)
      /\ (HasInput(x.commands) => HasInput(q.commands))
      /\ Bodies(wire, x.commands) = Bodies(wire, q.commands)
      /\ (InLine(wire, q.commands, taken) => InLine(wire, x.commands, taken))
  BY <1>1 DEF SameReliables, SameLine
<1> HIDE DEF x
<1>3. r = [q |-> x, taken |-> taken, ok |-> connected]
  BY DEF Sending
<1>4. Sends(r)
  BY <1>2, <1>3 DEF Sends, SendingType, TypeInv
<1> HIDE DEF r
<1>5. "Control" \in Reliable /\ "keyframe" \in Says
  BY DEF Reliable, Says
<1>6. Sends(s)
  BY <1>4, <1>5, OneMore
<1>7. Queued(s)
  BY DEF KeyframeRequest, r, x
<1> QED BY <1>6, <1>7

LEMMA EnableMediaKeepsInv ==
  ASSUME Inv, EnableMedia
  PROVE  Inv'
<1>1. /\ pc = "enable" /\ pc' = "ready"
      /\ acc' = PrepareForReconnect(acc) /\ since' = acc.latest
      /\ UNCHANGED <<turn, thread, ready, snap, connected, wire, pad, stage, ack,
                     prepared, reconnects, trouble>>
      /\ KeyframeRequest
  BY DEF EnableMedia, Goto, input
<1>2. TypeInv /\ stage = "final"
  BY <1>1 DEF Inv, ControlInv, PlaceInv
<1>3. PICK s : Sends(s) /\ Queued(s)
  BY <1>1, <1>2, KeyframeRequestSends
<1>4. /\ q' = s.q /\ taken' = s.taken /\ QueueType(q') /\ taken' \in Nat
      /\ q'.failed = q.failed /\ q'.event = q.event
      /\ HasInput(q'.commands) => HasInput(q.commands)
      /\ Bodies(wire, q.commands) \subseteq Bodies(wire, q'.commands)
      /\ InLine(wire, q.commands, taken) => InLine(wire, q'.commands, taken')
  BY <1>3 DEF Queued, Sends, SendingType
<1>5. NoNewEdge(acc, acc') /\ acc'.journal = <<>>
  BY <1>1, <1>2, OwnerAddsNoEdge DEF TypeInv
<1>6. AccType(acc') /\ acc'.latest = acc.latest /\ acc.latest \in 0..MaxTurns
  BY <1>2, <1>5 DEF NoNewEdge, TypeInv, AccType, Accumulator
<1>7. TypeInv'
  BY <1>1, <1>2, <1>4, <1>6 DEF TypeInv
<1>8. SampleInv'
  BY <1>1, <1>5, <1>6, BoundAssumption DEF Inv, SampleInv
<1>9. PlaceInv' /\ LineInv'
  BY <1>1, <1>2, <1>4 DEF Inv, ControlInv, PlaceInv, LineInv, Starting
<1>10. SaidInv'
  <2>1. ~q.failed => Startup \subseteq {b.say : b \in Bodies(wire, q'.commands)}
    BY <1>2, <1>4 DEF Inv, ControlInv, SaidInv
  <2> QED BY <1>1, <1>2, <1>4, <2>1 DEF SaidInv
<1>11. StartedInv'
  BY <1>1, <1>2, <1>4 DEF Inv, ControlInv, StartedInv
<1>12. InputNeedsStartup' /\ FlushedBeforeDelay'
  BY <1>1 DEF Inv, ControlInv, InputNeedsStartup, FlushedBeforeDelay
<1> QED BY <1>7, <1>8, <1>9, <1>10, <1>11, <1>12 DEF Inv, ControlInv

LEMMA RequestKeyframeKeepsInv ==
  ASSUME Inv, RequestKeyframe
  PROVE  Inv'
<1>1. /\ pc = "watch" /\ stage = "started" /\ trouble < MaxTrouble
      /\ trouble' = trouble + 1
      /\ UNCHANGED <<turn, thread, acc, ready, pc, snap, connected, wire, pad, stage, ack,
                     prepared, reconnects, since>>
      /\ KeyframeRequest
  BY DEF RequestKeyframe, input, session
<1>2. TypeInv
  BY DEF Inv
<1>3. PICK s : Sends(s) /\ Queued(s)
  BY <1>1, <1>2, KeyframeRequestSends
<1>4. /\ q' = s.q /\ taken' = s.taken /\ QueueType(q') /\ taken' \in Nat
      /\ q'.failed = q.failed /\ q'.event = q.event
      /\ HasInput(q'.commands) => HasInput(q.commands)
      /\ InLine(wire, q.commands, taken) => InLine(wire, q'.commands, taken')
  BY <1>3 DEF Queued, Sends, SendingType
<1>5. trouble' \in 0..MaxTrouble
  BY <1>1, <1>2, BoundAssumption DEF TypeInv
<1>6. TypeInv'
  BY <1>1, <1>2, <1>4, <1>5 DEF TypeInv
<1>7. SampleInv'
  BY <1>1 DEF Inv, SampleInv
<1>8. PlaceInv' /\ LineInv' /\ SaidInv'
  BY <1>1, <1>4 DEF Inv, ControlInv, PlaceInv, LineInv, SaidInv, Starting
<1>9. StartedInv' /\ InputNeedsStartup' /\ FlushedBeforeDelay'
  BY <1>1, <1>4 DEF Inv, ControlInv, StartedInv, InputNeedsStartup, FlushedBeforeDelay
<1> QED BY <1>6, <1>7, <1>8, <1>9 DEF Inv, ControlInv

LEMMA DeliverInputKeepsInv ==
  ASSUME Inv, DeliverInput
  PROVE  Inv'
<1>1. /\ pc = "ready" /\ pc' = "watch" /\ stage' = "started" /\ ready' = TRUE
      /\ UNCHANGED <<turn, thread, acc, snap, q, connected, wire, pad, taken, ack,
                     prepared, reconnects, since, trouble>>
  BY DEF DeliverInput, Goto, input, peer
<1>2. stage = "final"
  BY <1>1 DEF Inv, ControlInv, PlaceInv
<1>3. TypeInv'
  BY <1>1 DEF Inv, TypeInv, Stages
<1>4. SampleInv'
  BY <1>1 DEF Inv, SampleInv
<1>5. PlaceInv' /\ LineInv' /\ SaidInv'
  BY <1>1, <1>2 DEF Inv, ControlInv, PlaceInv, LineInv, SaidInv, Starting
<1>6. StartedInv' /\ InputNeedsStartup' /\ FlushedBeforeDelay'
  BY <1>1 DEF Inv, ControlInv, StartedInv, InputNeedsStartup, FlushedBeforeDelay
<1> QED BY <1>3, <1>4, <1>5, <1>6 DEF Inv, ControlInv

-----------------------------------------------------------------------------
(* A channel that failed, a fresh session.                                 *)
LEMMA QueueIsEmpty ==
  /\ QueueType(EmptyQueue) /\ ~EmptyQueue.failed /\ ~EmptyQueue.event
  /\ EmptyQueue.commands = <<>> /\ ~HasInput(EmptyQueue.commands)
<1>1. PICK e \in Seq(Commands) : e = <<>>
  BY EmptySeq
<1>2. Len(e) = 0 /\ DOMAIN e = {}
  BY <1>1
<1>3. EmptyQueue = [commands |-> e, failed |-> FALSE, event |-> FALSE, streak |-> 0]
  BY <1>1 DEF EmptyQueue
<1>4. QueueType(EmptyQueue)
  BY <1>2, <1>3, QueueAssumption DEF QueueType
<1>5. ~HasInput(e)
  BY <1>2 DEF HasInput
<1> QED BY <1>1, <1>3, <1>4, <1>5

(* The association that is replaced: its queue is gone and it is closed.   *)
LEMMA FreshKeepsInv ==
  ASSUME Inv, PrepareFresh, stage \notin Starting, pc' \in {"watch", "lost"},
         prepared' = TRUE, trouble' \in 0..MaxTrouble,
         UNCHANGED <<turn, thread, snap, wire, pad, taken, stage, reconnects, since>>
  PROVE  Inv'
<1>1. /\ ready' = FALSE /\ acc' = PrepareForReconnect(acc) /\ q' = EmptyQueue
      /\ connected' = FALSE /\ ack' = FALSE
  BY DEF PrepareFresh
<1>2. NoNewEdge(acc, acc') /\ AccType(acc')
  BY <1>1, OwnerAddsNoEdge DEF Inv, TypeInv, NoNewEdge
<1>3. TypeInv'
  BY <1>1, <1>2, QueueIsEmpty DEF Inv, TypeInv
<1>4. SampleInv'
  BY <1>2, OwnerKeepsSamples DEF Inv
<1>5. PlaceInv' /\ LineInv' /\ SaidInv'
  BY <1>1, QueueIsEmpty DEF Inv, ControlInv, PlaceInv, LineInv, SaidInv, Starting
<1>6. StartedInv' /\ InputNeedsStartup' /\ FlushedBeforeDelay'
  BY <1>1, QueueIsEmpty
     DEF Inv, ControlInv, StartedInv, InputNeedsStartup, FlushedBeforeDelay
<1> QED BY <1>3, <1>4, <1>5, <1>6 DEF Inv, ControlInv

LEMMA WatchdogKeepsInv ==
  ASSUME Inv, Watchdog
  PROVE  Inv'
<1>1. /\ pc = "watch" /\ stage = "started" /\ PrepareFresh /\ prepared' = TRUE
      /\ trouble < MaxTrouble /\ trouble' = trouble + 1
      /\ UNCHANGED <<turn, thread, pc, snap, wire, pad, taken, stage, reconnects, since>>
  BY DEF Watchdog, input
<1>2. trouble' \in 0..MaxTrouble
  BY <1>1, BoundAssumption DEF Inv, TypeInv
<1> QED BY <1>1, <1>2, FreshKeepsInv DEF Starting

LEMMA CheckHealthKeepsInv ==
  ASSUME Inv, CheckHealth
  PROVE  Inv'
<1> DEFINE fresh == q.event /\ ~prepared
           lost == fresh \/ ~IsConnected
<1>1. /\ stage \notin Starting
      /\ IF fresh THEN PrepareFresh
         ELSE /\ q' = [q EXCEPT !.event = FALSE]
              /\ ready' = (ready /\ ~lost)
              /\ acc' = IF ready /\ lost THEN PrepareForReconnect(acc) ELSE acc
              /\ UNCHANGED <<connected, ack>>
      /\ prepared' = (prepared \/ fresh)
      /\ pc' = CASE lost -> "lost"
                 [] ~lost /\ stage = "idle" -> "start"
                 [] OTHER -> "watch"
      /\ UNCHANGED <<turn, thread, snap, wire, pad, taken, stage, reconnects, since, trouble>>
  BY DEF CheckHealth, Goto, input
<1>2. TypeInv /\ QueueType(q) /\ trouble \in 0..MaxTrouble
  BY DEF Inv, TypeInv
<1>3. CASE fresh
  <2>1. PrepareFresh /\ prepared' = TRUE /\ pc' = "lost"
    BY <1>1, <1>3
  <2> QED BY <1>1, <1>2, <2>1, FreshKeepsInv
<1>4. CASE ~fresh
  <2>1. /\ q' = [q EXCEPT !.event = FALSE] /\ ready' = (ready /\ ~lost)
        /\ acc' \in {PrepareForReconnect(acc), acc}
        /\ UNCHANGED <<connected, ack>> /\ prepared' = (prepared \/ fresh)
    BY <1>1, <1>4
  <2>2. /\ pc' \in {"lost", "start", "watch"}
        /\ pc' = "start" => stage = "idle" /\ connected /\ ~q.failed
    BY <1>1, <1>4 DEF IsConnected
  <2>3. ready' \in BOOLEAN /\ prepared' \in BOOLEAN
    BY <2>1
  <2> HIDE DEF fresh, lost
  <2>4. QueueType(q') /\ q'.commands = q.commands /\ q'.failed = q.failed
    BY <1>2, <2>1 DEF QueueType
  <2>5. NoNewEdge(acc, acc') /\ AccType(acc')
    BY <1>2, <2>1, OwnerAddsNoEdge DEF TypeInv, NoNewEdge
  <2>6. TypeInv'
    BY <1>1, <1>2, <2>1, <2>3, <2>4, <2>5 DEF TypeInv
  <2>7. SampleInv'
    BY <1>1, <2>2, <2>5, OwnerKeepsSamples DEF Inv
  <2>8. PlaceInv'
    BY <1>1, <2>1, <2>2, <2>4 DEF PlaceInv
  <2>9. LineInv' /\ SaidInv'
    BY <1>1, <2>1, <2>4 DEF Inv, ControlInv, LineInv, SaidInv, Starting
  <2>10. StartedInv' /\ InputNeedsStartup' /\ FlushedBeforeDelay'
    BY <1>1, <2>2, <2>4
       DEF Inv, ControlInv, StartedInv, InputNeedsStartup, FlushedBeforeDelay
  <2> QED BY <2>6, <2>7, <2>8, <2>9, <2>10 DEF Inv, ControlInv
<1> QED BY <1>3, <1>4

LEMMA NothingInLine ==
  InLine(<<>>, <<>>, 0) /\ <<>> \in Wire
<1>1. DOMAIN <<>> = {} /\ 1..0 = {}
  OBVIOUS
<1>2. Numbered(<<>>) = {} /\ Places(<<>>) = {} /\ Bodies(<<>>, <<>>) = {}
  BY <1>1 DEF Numbered, Places, Bodies
<1>3. WireInOrder(<<>>) /\ QueueInOrder(<<>>) /\ WireBeforeQueue(<<>>, <<>>)
  BY <1>2 DEF WireInOrder, QueueInOrder, WireBeforeQueue
<1>4. <<>> \in Wire
  BY EmptySeq DEF Wire
<1> QED BY <1>1, <1>2, <1>3, <1>4 DEF InLine

LEMMA ReconnectKeepsInv ==
  ASSUME Inv, Reconnect
  PROVE  Inv'
<1>1. PICK ok \in BOOLEAN :
        /\ connected' = ok
        /\ reconnects' = IF ok THEN 0 ELSE reconnects + 1
        /\ prepared' = ~ok
        /\ wire' = IF ok THEN <<>> ELSE wire
        /\ pad' = IF ok THEN 0 ELSE pad
        /\ taken' = IF ok THEN 0 ELSE taken
        /\ stage' = IF ok THEN "idle" ELSE stage
  BY DEF Reconnect, StageAfter
<1>2. /\ pc = "lost" /\ pc' = "top" /\ reconnects < MaxReconnects
      /\ q' = EmptyQueue /\ ack' = FALSE /\ ready' = FALSE
      /\ acc' \in {acc, PrepareForReconnect(acc)}
      /\ UNCHANGED <<turn, thread, snap, since, trouble>>
  BY DEF Reconnect, Goto, input
<1>3. TypeInv /\ stage \notin Starting
  BY <1>2 DEF Inv, ControlInv, PlaceInv
<1>4. NoNewEdge(acc, acc') /\ AccType(acc')
  BY <1>2, <1>3, OwnerAddsNoEdge DEF TypeInv, NoNewEdge
<1>5. reconnects' \in 0..MaxReconnects /\ wire' \in Wire /\ pad' \in 0..MaxTurns
      /\ taken' \in Nat /\ stage' \in Stages
  BY <1>1, <1>2, <1>3, NothingInLine, BoundAssumption DEF TypeInv, Stages
<1>6. TypeInv'
  BY <1>1, <1>2, <1>3, <1>4, <1>5, QueueIsEmpty DEF TypeInv
<1>7. SampleInv'
  BY <1>1, <1>2, <1>4, OwnerKeepsSamples DEF Inv
<1>8. PlaceInv' /\ SaidInv'
  BY <1>1, <1>2, <1>3 DEF PlaceInv, SaidInv, Starting
<1>9. LineInv'
  <2>1. CASE ok
    BY <1>1, <1>2, <2>1, NothingInLine, QueueIsEmpty DEF LineInv, Starting
  <2>2. CASE ~ok
    BY <1>1, <1>2, <1>3, <2>2, QueueIsEmpty DEF LineInv
  <2> QED BY <2>1, <2>2
<1>10. StartedInv'
  BY <1>1, <1>2, QueueIsEmpty DEF Inv, ControlInv, StartedInv
<1>11. InputNeedsStartup'
  <2>1. CASE ok
    BY <1>1, <2>1 DEF InputNeedsStartup
  <2>2. CASE ~ok
    BY <1>1, <2>2 DEF Inv, ControlInv, InputNeedsStartup
  <2> QED BY <2>1, <2>2
<1>12. FlushedBeforeDelay'
  BY <1>2 DEF FlushedBeforeDelay
<1> QED BY <1>6, <1>7, <1>8, <1>9, <1>10, <1>11, <1>12 DEF Inv, ControlInv

-----------------------------------------------------------------------------
(* The invariant.                                                          *)
LEMMA InitInv == Init => Inv
<1> SUFFICES ASSUME Init
             PROVE  Inv
  OBVIOUS
<1> USE DEF Init
<1>1. AccType(acc)
  <2>1. PICK e \in Seq(1..MaxTurns) : e = <<>>
    BY EmptySeq
  <2>2. Len(e) = 0 /\ 0 \in 0..MaxTurns
    BY <2>1, BoundAssumption
  <2>3. acc = [latest |-> 0, sampled |-> FALSE, dirty |-> FALSE, held |-> FALSE,
               journal |-> e]
    BY <2>1 DEF EmptyAccumulator
  <2> QED BY <2>2, <2>3, JournalAssumption DEF AccType, Accumulator
<1>2. snap \in [type : Realtime, sample : 0..MaxTurns]
  BY BoundAssumption DEF NoSnapshot, Realtime
<1>3. thread \in [busy : BOOLEAN, sample : 0..MaxTurns, ready : BOOLEAN]
  BY BoundAssumption
<1>4. TypeInv
  <2>1. QueueType(q) /\ wire \in Wire /\ taken \in Nat
    BY QueueIsEmpty, NothingInLine
  <2>2. /\ turn \in 0..MaxTurns /\ reconnects \in 0..MaxReconnects /\ pad \in 0..MaxTurns
        /\ since \in 0..MaxTurns /\ trouble \in 0..MaxTrouble
    BY BoundAssumption
  <2>3. stage \in Stages /\ ready \in BOOLEAN /\ ack \in BOOLEAN
    BY DEF Stages
  <2>4. connected \in BOOLEAN /\ prepared \in BOOLEAN
    OBVIOUS
  <2> QED BY <1>1, <1>2, <1>3, <2>1, <2>2, <2>3, <2>4 DEF TypeInv
<1>5. SampleInv
  BY BoundAssumption DEF SampleInv, EmptyAccumulator
<1>6. PlaceInv /\ SaidInv
  BY DEF PlaceInv, SaidInv, Starting
<1>7. LineInv
  BY QueueIsEmpty, NothingInLine DEF LineInv, Starting
<1>8. StartedInv
  BY QueueIsEmpty DEF StartedInv
<1>9. InputNeedsStartup /\ FlushedBeforeDelay
  BY DEF InputNeedsStartup, FlushedBeforeDelay
<1> QED BY <1>4, <1>5, <1>6, <1>7, <1>8, <1>9 DEF Inv, ControlInv

LEMMA InvStep == Inv /\ [Next]_vars => Inv'
<1> SUFFICES ASSUME Inv, [Next]_vars
             PROVE  Inv'
  OBVIOUS
<1>1. CASE Turn \/ Sample \/ Publish
  BY <1>1, InputKeepsInv
<1>2. CASE PeekTransition \/ PeekNewest \/ QueueInput \/ Commit
  BY <1>2, PeekTransitionKeepsInv, PeekNewestKeepsInv, QueueInputKeepsInv, CommitKeepsInv
<1>3. CASE PumpInput \/ DrainOne \/ DrainDone
  BY <1>3, PumpInputKeepsInv, DrainOneKeepsInv, DrainDoneKeepsInv
<1>4. CASE LoopQuiet \/ LoopDrop \/ LoopAck \/ LoopNack
  BY <1>4, LoopKeepsInv
<1>5. CASE ProtocolWaits \/ Quiet \/ Feedback \/ BackOff \/ GiveUp
  BY <1>5, WaitingKeepsInv
<1>6. CASE Begin \/ ProtocolFails \/ ProtocolGoesOn \/ Authorize \/ AddGamepad
  BY <1>6, BeginKeepsInv, ProtocolFailsKeepsInv, ProtocolGoesOnKeepsInv,
     AuthorizeKeepsInv, AddGamepadKeepsInv
<1>7. CASE EnableMedia \/ DeliverInput \/ RequestKeyframe
  BY <1>7, EnableMediaKeepsInv, DeliverInputKeepsInv, RequestKeyframeKeepsInv
<1>8. CASE CheckHealth \/ Watchdog \/ Reconnect
  BY <1>8, CheckHealthKeepsInv, WatchdogKeepsInv, ReconnectKeepsInv
<1>9. CASE UNCHANGED vars
  <2>1. UNCHANGED <<turn, thread, acc, ready, pc, snap, q, connected, wire, pad, taken,
                    stage, ack, prepared, reconnects, since, trouble>>
    BY <1>9 DEF vars, input, peer, session
  <2>2. TypeInv' /\ SampleInv'
    BY <2>1 DEF Inv, TypeInv, SampleInv
  <2>3. PlaceInv' /\ LineInv' /\ SaidInv'
    BY <2>1 DEF Inv, ControlInv, PlaceInv, LineInv, SaidInv
  <2>4. StartedInv' /\ InputNeedsStartup' /\ FlushedBeforeDelay'
    BY <2>1 DEF Inv, ControlInv, StartedInv, InputNeedsStartup, FlushedBeforeDelay
  <2> QED BY <2>2, <2>3, <2>4 DEF Inv, ControlInv
<1> QED BY <1>1, <1>2, <1>3, <1>4, <1>5, <1>6, <1>7, <1>8, <1>9 DEF Next, Owner

(* Whatever the two threads, the network and the console do, the invariant *)
(* holds.                                                                  *)
THEOREM Invariance == Spec => []Inv
<1>1. Init => Inv
  BY InitInv
<1>2. Inv /\ [Next]_vars => Inv'
  BY InvStep
<1> QED BY <1>1, <1>2, PTL DEF Spec

LEMMA InvTypesAll == Inv => TypeOK
<1> SUFFICES ASSUME Inv
             PROVE  TypeOK
  OBVIOUS
<1>1. TypeInv
  BY DEF Inv
<1>2. /\ acc \in [latest : 0..MaxTurns, sampled : BOOLEAN, dirty : BOOLEAN,
                  held : BOOLEAN, journal : Seq(1..MaxTurns)]
      /\ Len(acc.journal) <= JournalCap
  BY <1>1 DEF TypeInv, AccType, Accumulator
<1>3. Len(q.commands) <= QueueCap
  BY <1>1 DEF TypeInv, QueueType
<1>4. q.failed \in BOOLEAN
  BY <1>1 DEF TypeInv, QueueType
<1>5. q.event \in BOOLEAN
  BY <1>1 DEF TypeInv, QueueType
<1>6. q.streak \in 0..MaxStreak
  BY <1>1 DEF TypeInv, QueueType
<1>7. ASSUME NEW i \in DOMAIN q.commands
      PROVE  /\ q.commands[i].type \in DOMAIN Priority
             /\ q.commands[i].attempts < MaxAttempts + MaxPliAttempts
  <2>1. q.commands[i] \in Commands
    BY <1>1 DEF TypeInv, QueueType
  <2>2. q.commands[i].attempts \in Tries
    BY <2>1 DEF Commands, ReliableCommand, InputCommand, RtcpCommand
  <2>3. q.commands[i].attempts < MaxAttempts + MaxPliAttempts
    BY <2>2, QueueAssumption DEF Tries
  <2> QED BY <2>1, <2>3, TypesOfCommands
<1> QED BY <1>1, <1>2, <1>3, <1>4, <1>5, <1>6, <1>7 DEF TypeOK, TypeInv

(* The line of what was said and what waits is in order and complete.      *)
LEMMA LineIsInOrder ==
  ASSUME TypeInv, InLine(wire, q.commands, taken)
  PROVE  InOrder(wire \o Waiting) /\ AllThere(wire \o Waiting)
<1> DEFINE s == q.commands
           line == wire \o Waiting
           E == Spoken \cup {Body("input", 0)}
<1>1. /\ s \in Seq(Commands) /\ DOMAIN s = 1..Len(s) /\ Len(s) \in Nat
      /\ wire \in Seq(E) /\ DOMAIN wire = 1..Len(wire) /\ Len(wire) \in Nat
  BY DEF TypeInv, QueueType, Wire
<1>2. \A i \in 1..Len(s) :
        Waiting[i] = IF s[i].type \in Reliable THEN s[i].body ELSE Body("input", 0)
  BY <1>1 DEF Waiting
<1>3. \A i \in 1..Len(s) : s[i].type \in Reliable => s[i].body \in Spoken
  BY <1>1, TypesOfCommands DEF ReliableCommand
<1>4. Waiting \in Seq(E) /\ Len(Waiting) = Len(s)
  <2>1. \A i \in 1..Len(s) : Waiting[i] \in E
    BY <1>2, <1>3
  <2>2. Waiting = [i \in 1..Len(s) |-> Waiting[i]]
    BY <1>1 DEF Waiting
  <2>3. PICK v : v = Waiting
    OBVIOUS
  <2>4. v \in [1..Len(s) -> E]
    BY <2>1, <2>2, <2>3
  <2> QED BY <2>3, <2>4, <1>1
<1>5. /\ DOMAIN line = 1..Len(wire) + Len(s)
      /\ \A i \in 1..Len(wire) : line[i] = wire[i]
      /\ \A i \in 1..Len(s) : line[Len(wire) + i] = Waiting[i]
  <2>1. PICK v \in Seq(E) : v = Waiting
    BY <1>4
  <2> HIDE DEF E
  <2>2. /\ wire \o v \in Seq(E) /\ Len(wire \o v) = Len(wire) + Len(v)
        /\ \A i \in 1..Len(wire) + Len(v) :
             (wire \o v)[i] = IF i <= Len(wire) THEN wire[i] ELSE v[i - Len(wire)]
    BY <1>1, ConcatProperties
  <2>3. wire \o v = line /\ Len(v) = Len(s)
    BY <2>1, <1>4
  <2> HIDE DEF line
  <2>4. line \in Seq(E) /\ Len(line) = Len(wire) + Len(s)
    BY <2>2, <2>3
  <2>5. DOMAIN line = 1..Len(wire) + Len(s)
    BY <2>4
  <2>6. ASSUME NEW i \in 1..Len(wire)
        PROVE  line[i] = wire[i]
    <3>1. i \in 1..Len(wire) + Len(v) /\ i <= Len(wire)
      BY <1>1, <2>1
    <3> QED BY <2>2, <2>3, <3>1
  <2>7. ASSUME NEW i \in 1..Len(s)
        PROVE  line[Len(wire) + i] = Waiting[i]
    <3>1. /\ Len(wire) + i \in 1..Len(wire) + Len(v) /\ ~(Len(wire) + i <= Len(wire))
          /\ (Len(wire) + i) - Len(wire) = i
      BY <1>1, <2>3
    <3> QED BY <2>1, <2>2, <2>3, <3>1
  <2> QED BY <2>5, <2>6, <2>7
<1> HIDE DEF line, E, s
<1>6. ASSUME NEW i \in Numbered(line)
      PROVE  \/ i \in Numbered(wire) /\ line[i] = wire[i] /\ i <= Len(wire)
             \/ \E k \in Places(s) : i = Len(wire) + k /\ line[i] = s[k].body
  <2>1. i \in 1..Len(wire) + Len(s) /\ line[i].nr > 0
    BY <1>5 DEF Numbered
  <2>2. CASE i <= Len(wire)
    BY <1>1, <1>5, <2>1, <2>2 DEF Numbered
  <2>3. CASE ~(i <= Len(wire))
    <3>1. i - Len(wire) \in 1..Len(s) /\ i = Len(wire) + (i - Len(wire))
      BY <1>1, <2>1, <2>3
    <3>2. line[i] = Waiting[i - Len(wire)]
      BY <1>5, <3>1
    <3>3. s[i - Len(wire)].type \in Reliable
      BY <1>2, <2>1, <3>1, <3>2 DEF Body
    <3>4. i - Len(wire) \in Places(s)
      BY <1>1, <3>1, <3>3 DEF Places
    <3> QED BY <1>2, <3>1, <3>2, <3>3, <3>4
  <2> QED BY <2>2, <2>3
<1>7. \A i \in Numbered(wire) : i \in Numbered(line) /\ line[i] = wire[i]
  BY <1>1, <1>5 DEF Numbered
<1>8. ASSUME NEW k \in Places(s)
      PROVE  Len(wire) + k \in Numbered(line) /\ line[Len(wire) + k] = s[k].body
  <2>1. k \in 1..Len(s) /\ s[k].type \in Reliable
    BY <1>1 DEF Places
  <2>2. line[Len(wire) + k] = s[k].body /\ s[k].body \in Spoken
    BY <1>2, <1>3, <1>5, <2>1
  <2> QED BY <1>1, <1>5, <2>1, <2>2 DEF Numbered, Spoken
<1>9. {line[i] : i \in Numbered(line)} = Bodies(wire, s)
  BY <1>6, <1>7, <1>8 DEF Bodies
<1>10. AllThere(line)
  BY <1>9 DEF AllThere, InLine, s
<1>11. ASSUME NEW i \in Numbered(line), NEW j \in Numbered(line), i < j
       PROVE  Before(line[i], line[j])
  <2>0. \A k \in Places(s) : k \in 1..Len(s)
    BY <1>1 DEF Places
  <2>1. CASE j <= Len(wire)
    <3>1. /\ i \in Numbered(wire) /\ line[i] = wire[i]
          /\ j \in Numbered(wire) /\ line[j] = wire[j]
      BY <1>1, <1>5, <1>11, <2>1 DEF Numbered
    <3> QED BY <1>11, <3>1 DEF InLine, WireInOrder
  <2>2. CASE ~(j <= Len(wire))
    <3>1. PICK l \in Places(s) : j = Len(wire) + l /\ line[j] = s[l].body
      BY <1>6, <2>2
    <3>2. CASE i \in Numbered(wire) /\ line[i] = wire[i]
      BY <3>1, <3>2 DEF InLine, WireBeforeQueue, s
    <3>3. ASSUME NEW k \in Places(s), i = Len(wire) + k, line[i] = s[k].body
          PROVE  Before(line[i], line[j])
      <4>1. k < l
        BY <1>1, <1>11, <2>0, <3>1, <3>3
      <4> QED BY <3>1, <3>3, <4>1 DEF InLine, QueueInOrder, s
    <3> QED BY <1>6, <3>2, <3>3
  <2> QED BY <2>1, <2>2
<1>12. InOrder(line)
  BY <1>11 DEF InOrder, Before
<1> QED BY <1>10, <1>12 DEF line
-----------------------------------------------------------------------------
(* StartupIsSafe: the journal and the queue keep their limits; no packet of *)
(* the controller goes out before the start-up protocol has; the journal   *)
(* has no edge of an earlier association; and the delay before the gamepad *)
(* is added starts when its removal was the last thing said.               *)
THEOREM StartupIsSafe == Spec => []StartupSafety
<1>1. Inv => StartupSafety
  BY InvTypesAll
     DEF Inv, SampleInv, ControlInv, StartupSafety, EdgesAreOfThisAssociation
<1> QED BY <1>1, Invariance, PTL

(* ReliablesAreInOrder: as long as the channel has not failed, the reliable *)
(* commands taken for the association are on the wire or wait, each once,  *)
(* and in the order they were given but for the metadata.                  *)
THEOREM ReliablesAreInOrder == Spec => []ReliableInOrder
<1>1. Inv => ReliableInOrder
  BY LineIsInOrder DEF Inv, ControlInv, LineInv, ReliableInOrder
<1> QED BY <1>1, Invariance, PTL
=============================================================================
