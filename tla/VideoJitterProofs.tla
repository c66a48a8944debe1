-------------------------- MODULE VideoJitterProofs --------------------------
(***************************************************************************)
(* Proofs about VideoJitter, for every stream, every number space, every   *)
(* bound and every hold: the buffer keeps its bounds and its accounts, a   *)
(* frozen stream asks for its key frame, and what the decoder gets is what *)
(* FrameDelivery promises.                                                 *)
(*                                                                         *)
(* The first layer (Sound) says nothing of what the packets hold and needs *)
(* no assumption on sender or network.  The second one (Good) relates the  *)
(* numbers received to the packets that came, and uses SenderAssumption    *)
(* and NetworkAssumption.                                                  *)
(***************************************************************************)
EXTENDS VideoJitter, FiniteSetTheorems, WellFoundedInduction, SequenceTheorems, TLAPS

-----------------------------------------------------------------------------
(***************************************************************************)
(* Natural numbers, and the rounds of drain().  A set of numbers has a     *)
(* least member (the order of the naturals is well-founded), which gives   *)
(* induction up to a bound; the recursive function by which Drain takes    *)
(* frames out exists and is what its rounds say.                           *)
(***************************************************************************)

(* A set of naturals that is not empty has a least member.                 *)
LEMMA NatLeast ==
  ASSUME NEW T \in SUBSET Nat, T # {}
  PROVE  \E x \in T : \A y \in T : x <= y
<1>1. IsWellFoundedOn(OpToRel(<, Nat), Nat)
  BY NatLessThanWellFounded
<1>2. PICK x \in T : \A y \in T : ~(<<y, x>> \in OpToRel(<, Nat))
  BY <1>1, WFMin, Zenon
<1>3. \A y \in T : y < x => <<y, x>> \in OpToRel(<, Nat)
  BY DEF OpToRel
<1>4. \A y \in T : ~(y < x)
  BY <1>2, <1>3, Zenon
<1> QED
  BY <1>4

(* Induction up to a bound.                                                *)
LEMMA Interval ==
  ASSUME NEW N \in Nat, NEW T, 0 \in T, \A n \in 0..(N - 1) : n \in T => n + 1 \in T
  PROVE  \A n \in 0..N : n \in T
<1>1. SUFFICES ASSUME NEW m \in 0..N, m \notin T PROVE FALSE
  OBVIOUS
<1> DEFINE U == {n \in 0..N : n \notin T}
<1>0. U \in SUBSET Nat /\ U # {}
  BY <1>1
<1>2. PICK n \in U : \A k \in U : n <= k
  <2> HIDE DEF U
  <2> QED
    BY <1>0, NatLeast
<1>3. n # 0 /\ n - 1 \in 0..(N - 1) /\ n - 1 \notin U
  BY <1>2
<1>4. n - 1 \in T
  BY <1>3
<1>5. (n - 1) + 1 \in T
  BY <1>3, <1>4
<1>6. (n - 1) + 1 = n /\ n \notin T
  BY <1>2
<1> QED
  BY <1>5, <1>6

(* The n-th round of drain(), after those in g.                            *)
Round(g, s, t, n) ==
  IF n = 0 THEN s ELSE IF g[n - 1].frames = {} THEN g[n - 1] ELSE DrainFront(g[n - 1], t)

IsDrain(g, s, t, N) == g = [n \in 0..N |-> Round(g, s, t, n)]

(* The function that Drain takes its last round from exists.               *)
LEMMA DrainExists ==
  ASSUME NEW s, NEW t, NEW N \in Nat
  PROVE  \E g : IsDrain(g, s, t, N)
<1> DEFINE T == {n \in 0..N : \E g : IsDrain(g, s, t, n)}
<1>1. 0 \in T
  <2> DEFINE g == [n \in 0..0 |-> s]
  <2>1. IsDrain(g, s, t, 0)
    BY DEF IsDrain, Round
  <2> QED
    BY <2>1
<1>2. ASSUME NEW n \in 0..(N - 1), n \in T PROVE n + 1 \in T
  <2>1. PICK g : IsDrain(g, s, t, n)
    BY <1>2
  <2> DEFINE last == IF g[n].frames = {} THEN g[n] ELSE DrainFront(g[n], t)
             h == [k \in 0..(n + 1) |-> IF k <= n THEN g[k] ELSE last]
  <2> HIDE DEF last
  <2>2. \A k \in 0..n : g[k] = Round(g, s, t, k)
    BY <2>1 DEF IsDrain
  <2>3. ASSUME NEW k \in 0..n PROVE Round(h, s, t, k) = Round(g, s, t, k)
    <3>1. CASE k = 0
      BY <3>1 DEF Round
    <3>2. CASE k # 0
      <4>1. h[k - 1] = g[k - 1]
        BY <3>2
      <4> HIDE DEF h
      <4> QED
        BY <3>2, <4>1 DEF Round
    <3> QED
      BY <3>1, <3>2
  <2>4. Round(h, s, t, n + 1) = last
    BY DEF Round, last
  <2>5. h = [k \in 0..(n + 1) |-> Round(h, s, t, k)]
    BY <2>2, <2>3, <2>4
  <2>6. IsDrain(h, s, t, n + 1)
    BY <2>5 DEF IsDrain
  <2> QED
    BY <2>6, n + 1 \in 0..N
<1>3. \A n \in 0..(N - 1) : n \in T => n + 1 \in T
  BY <1>2
<1> HIDE DEF T
<1>4. \A n \in 0..N : n \in T
  BY <1>1, <1>3, Interval
<1> QED
  BY <1>4 DEF T

(* Drain is the last of its rounds.                                        *)
LEMMA DrainRounds ==
  ASSUME NEW s, NEW t, Cardinality(s.frames) \in Nat
  PROVE  \E g : /\ IsDrain(g, s, t, Cardinality(s.frames))
                /\ Drain(s, t) = g[Cardinality(s.frames)]
<1> DEFINE N == Cardinality(s.frames)
           G == CHOOSE g : IsDrain(g, s, t, N)
<1>1. IsDrain(G, s, t, N)
  BY DrainExists
<1>2. Drain(s, t) = G[N]
  BY DEF Drain, IsDrain, Round
<1> QED
  BY <1>1, <1>2

-----------------------------------------------------------------------------
(***************************************************************************)
(* The ranges that wait for a retransmission are apart from each other and *)
(* below the newest number.  What they cover is no less than what is still *)
(* missing in them, so that loss written off together with what is covered *)
(* only falls: an expired, abandoned or cleared range counts no packet     *)
(* twice.                                                                  *)
(***************************************************************************)

(* The members of the object, and the ones a step may have changed.        *)
Fields == {"frames", "received", "have", "highest", "base", "unique", "waiting", "lastTs",
           "lastSeq", "notified", "notifiedAt", "resetNotified", "soft", "softAt", "softCount",
           "windowAt", "windowSent", "ranges", "ssrc", "detected", "recovered",
           "unrecovered", "out", "decoder"}
Same(s, u, changed) ==
  /\ DOMAIN s = Fields /\ DOMAIN u = Fields
  /\ \A k \in Fields \ changed : u[k] = s[k]

(* A pending range, and the numbers it covers.                             *)
RangeFields == {"begin", "cursor", "end", "ts", "seen", "next", "rounds", "candidate", "authorized"}
IsRange(r) == DOMAIN r = RangeFields /\ r.begin \in Nat /\ r.end \in Nat /\ r.begin < r.end
Span(r) == r.begin..(r.end - 1)
Covered(R) == UNION {Span(r) : r \in R}

(* Ranges are apart from each other, below the newest number h, and few.   *)
RangesOK(R, h) ==
  /\ \A r \in R : IsRange(r) /\ r.end <= h
  /\ \A r, q \in R : r # q => r.end <= q.begin \/ q.end <= r.begin
  /\ IsFiniteSet(R)
  /\ Cardinality(R) <= MaxRanges

(* The list of ranges, with the budget and the totals it goes by.          *)
RangesInv(s) ==
  /\ RangesOK(s.ranges, s.highest)
  /\ s.windowSent \in 0..NackBudget
  /\ s.unrecovered \in Nat
  /\ s.detected \in Nat

(* What is lost, and what can still be lost of what is awaited.            *)
Lost(s) == s.unrecovered + Cardinality(Covered(s.ranges))

(* What a step of the list of ranges changes, and what it keeps.           *)
NackFields == {"ranges", "unrecovered", "windowAt", "windowSent"}

NackStep(s, u) ==
  /\ Same(s, u, NackFields)
  /\ RangesInv(u)
  /\ Lost(u) <= Lost(s)
  /\ \A r \in u.ranges : \E q \in s.ranges : r.ts = q.ts

(* A finite set of naturals that is not empty has a greatest member.       *)
LEMMA FinMax ==
  ASSUME NEW S, S \subseteq Nat, S # {}, IsFiniteSet(S)
  PROVE  \E m \in S : \A y \in S : y <= m
<1> DEFINE n == Cardinality(S)
<1>1. n \in Nat /\ ExistsBijection(1..n, S)
  BY FS_CardinalityType
<1>2. PICK f \in Bijection(1..n, S) : TRUE
  BY <1>1 DEF ExistsBijection
<1> HIDE DEF n
<1>3. f \in [1..n -> S] /\ \A y \in S : \E i \in 1..n : f[i] = y
  BY <1>2 DEF Bijection, Surjection, Injection
<1> DEFINE T == {k \in 0..n : \E m \in Nat : \A i \in 1..k : f[i] <= m}
<1>4. 0 \in T
  BY <1>1
<1>5. ASSUME NEW k \in 0..(n - 1), k \in T PROVE k + 1 \in T
  <2>1. PICK m \in Nat : \A i \in 1..k : f[i] <= m
    BY <1>5
  <2>0. k + 1 \in 1..n
    BY <1>1
  <2>2. f[k + 1] \in Nat
    <3>1. f[k + 1] \in S
      BY <1>3, <2>0
    <3> QED
      BY <3>1
  <2> DEFINE M == IF m <= f[k + 1] THEN f[k + 1] ELSE m
  <2>3. M \in Nat /\ \A i \in 1..(k + 1) : f[i] <= M
    <3>1. M \in Nat /\ f[k + 1] <= M /\ m <= M
      BY <2>2
    <3>2. ASSUME NEW i \in 1..(k + 1) PROVE f[i] <= M
      <4>1. CASE i = k + 1
        BY <3>1, <4>1
      <4>2. CASE i \in 1..k
        <5>0. i \in 1..n
          BY <1>1, <4>2
        <5>2. f[i] \in S
          BY <1>3, <5>0
        <5>1. f[i] <= m /\ f[i] \in Nat
          BY <2>1, <4>2, <5>2
        <5> QED
          BY <3>1, <5>1
      <4> QED
        BY <4>1, <4>2
    <3> QED
      BY <3>1, <3>2
  <2> HIDE DEF M
  <2>4. k + 1 \in 0..n
    BY <1>1
  <2> QED
    BY <2>3, <2>4
<1>55. \A k \in 0..(n - 1) : k \in T => k + 1 \in T
  BY <1>5
<1>6. n \in T
  <2> HIDE DEF T
  <2> QED
    <3>1. n \in Nat /\ n \in 0..n
      BY <1>1
    <3>2. \A k \in 0..n : k \in T
      BY <1>4, <1>55, <3>1, Interval, Zenon
    <3> QED
      BY <3>1, <3>2
<1> DEFINE U == {m \in Nat : \A y \in S : y <= m}
<1>7. U # {} /\ U \subseteq Nat
  BY <1>3, <1>6
<1>8. PICK m \in U : \A k \in U : m <= k
  <2> HIDE DEF U
  <2> QED
    BY <1>7, NatLeast
<1>9. CASE m \in S
  BY <1>8, <1>9
<1>10. CASE m \notin S
  <2>1. PICK z \in S : TRUE
    OBVIOUS
  <2>2. \A y \in S : y <= m - 1
    BY <1>8, <1>10
  <2>3. m - 1 \in Nat
    BY <1>8, <2>1, <2>2
  <2>4. m - 1 \in U
    BY <2>2, <2>3
  <2>5. m <= m - 1
    <3> HIDE DEF U
    <3> QED
      BY <1>8, <2>4
  <2> QED
    BY <2>3, <2>5
<1> QED
  BY <1>9, <1>10

(* Finitely many numbers are covered.                                      *)
LEMMA CoveredFinite ==
  ASSUME NEW R, NEW h, RangesOK(R, h)
  PROVE  /\ IsFiniteSet(Covered(R))
         /\ Cardinality(Covered(R)) \in Nat
         /\ Covered(R) \subseteq Nat
<1>0. Covered(R) \subseteq Nat
  BY DEF Covered, Span, RangesOK, IsRange
<1>1. CASE R = {}
  <2>1. Covered(R) = {}
    BY <1>1 DEF Covered
  <2> QED
    BY <2>1, FS_EmptySet
<1>2. CASE R # {}
  <2> DEFINE T == {Span(r) : r \in R}
             f == [r \in R |-> Span(r)]
  <2>2. f \in Surjection(R, T)
    BY Zenon DEF Surjection
  <2>3. IsFiniteSet(T)
    <3> HIDE DEF f, T
    <3> QED
      BY <2>2, FS_Surjection DEF RangesOK
  <2>4. \A S \in T : IsFiniteSet(S)
    BY FS_Interval DEF Span, RangesOK, IsRange
  <2>5. IsFiniteSet(UNION T)
    <3> HIDE DEF T
    <3> QED
      BY <2>3, <2>4, FS_UNION
  <2>6. IsFiniteSet(Covered(R))
    BY <2>5 DEF Covered
  <2> QED
    BY <2>6, <1>0, FS_CardinalityType
<1> QED
  BY <1>0, <1>1, <1>2

(* Changing ranges without moving their ends, or dropping some, keeps them *)
(* apart and covers no more.                                               *)
LEMMA RangesRemap ==
  ASSUME NEW R, NEW h, RangesOK(R, h), NEW A \in SUBSET R, NEW f,
         \A r \in A : IsRange(f[r]) /\ f[r].begin = r.begin /\ f[r].end = r.end
  PROVE  /\ RangesOK({f[r] : r \in A}, h)
         /\ Cardinality(Covered({f[r] : r \in A})) <= Cardinality(Covered(R))
<1> DEFINE B == {f[r] : r \in A}
           g == [r \in A |-> f[r]]
<1>1. g \in Surjection(A, B)
  BY Zenon DEF Surjection
<1>2. IsFiniteSet(A) /\ Cardinality(A) <= Cardinality(R) /\ Cardinality(A) \in Nat /\ Cardinality(R) \in Nat
  BY FS_Subset, FS_CardinalityType DEF RangesOK
<1>3. IsFiniteSet(B) /\ Cardinality(B) <= Cardinality(A)
  <2> HIDE DEF g, B
  <2> QED
    BY <1>1, <1>2, FS_Surjection
<1>4. \A b \in B : IsRange(b) /\ b.end <= h
  BY DEF RangesOK
<1>5. \A b, c \in B : b # c => b.end <= c.begin \/ c.end <= b.begin
  <2> TAKE b, c \in B
  <2> PICK r \in A : b = f[r]
    OBVIOUS
  <2> PICK q \in A : c = f[q]
    OBVIOUS
  <2> QED
    BY DEF RangesOK
<1>6. Cardinality(B) \in Nat
  BY <1>3, FS_CardinalityType
<1>7. RangesOK(B, h)
  <2>1. Cardinality(R) <= MaxRanges
    BY DEF RangesOK
  <2>2. Cardinality(B) <= MaxRanges
    <3> HIDE DEF B
    <3> QED
      BY <1>2, <1>3, <1>6, <2>1, SizeAssumption
  <2> HIDE DEF B
  <2> QED
    BY <1>3, <1>4, <1>5, <2>2 DEF RangesOK
<1>8. Covered(B) \in SUBSET Covered(R)
  BY DEF Covered, Span
<1>9. Cardinality(Covered(B)) <= Cardinality(Covered(R))
  <2> HIDE DEF B
  <2> QED
    BY <1>8, CoveredFinite, FS_Subset
<1> QED
  BY <1>7, <1>9

(* Some of the ranges are apart as all of them were.                       *)
LEMMA RangesKept ==
  ASSUME NEW R, NEW h, RangesOK(R, h), NEW A \in SUBSET R
  PROVE  /\ RangesOK(A, h)
         /\ Cardinality(Covered(A)) <= Cardinality(Covered(R))
<1> DEFINE f == [r \in A |-> r]
<1>1. \A r \in A : IsRange(f[r]) /\ f[r].begin = r.begin /\ f[r].end = r.end
  BY DEF RangesOK
<1>2. {f[r] : r \in A} = A
  OBVIOUS
<1> HIDE DEF f
<1>3. /\ RangesOK({f[r] : r \in A}, h)
      /\ Cardinality(Covered({f[r] : r \in A})) <= Cardinality(Covered(R))
  BY <1>1, RangesRemap, Zenon
<1> QED
  BY <1>2, <1>3, Zenon

(* What is missing in ranges that go is no more than what they covered.    *)
LEMMA WriteOffCounts ==
  ASSUME NEW s, RangesInv(s), NEW E \in SUBSET s.ranges, NEW D \in SUBSET s.ranges, E \subseteq D,
         NEW P, P = UNION {{r} \X Missing(s, r) : r \in E}
  PROVE  /\ Cardinality(P) \in Nat
         /\ Cardinality(P) + Cardinality(Covered(s.ranges \ D)) <= Cardinality(Covered(s.ranges))
<1> DEFINE C == Covered(s.ranges)
           K == Covered(s.ranges \ D)
           f == [p \in P |-> p[2]]
<1>1. \A p \in P : /\ p[1] \in E /\ p[2] \in Span(p[1]) /\ p = <<p[1], p[2]>>
  BY DEF Missing, Span
<1>2. \A r, q \in s.ranges : \A x \in Span(r) : x \in Span(q) => r = q
  BY DEF RangesInv, RangesOK, IsRange, Span
<1>3. f \in Injection(P, C \ K)
  <2>1. \A p \in P : p[2] \in C \ K
    BY <1>1, <1>2 DEF Covered
  <2>2. \A p, q \in P : p[2] = q[2] => p = q
    <3> TAKE p, q \in P
    <3> HAVE p[2] = q[2]
    <3>1. p[1] = q[1]
      BY <1>1, <1>2
    <3> QED
      BY <1>1, <3>1
  <2> HIDE DEF C, K
  <2> QED
    BY <2>1, <2>2 DEF Injection, IsInjective
<1>4. IsFiniteSet(C) /\ Cardinality(C) \in Nat
  BY CoveredFinite DEF RangesInv
<1>5. K \in SUBSET C
  BY DEF Covered
<1>6. IsFiniteSet(C \ K) /\ Cardinality(C \ K) = Cardinality(C) - Cardinality(K)
  <2> HIDE DEF C, K
  <2>1. C \cap K = K
    BY <1>5
  <2> QED
    BY <1>4, <2>1, FS_Difference
<1>7. IsFiniteSet(K) /\ Cardinality(K) \in Nat
  <2> HIDE DEF C, K
  <2> QED
    BY <1>4, <1>5, FS_Subset, FS_CardinalityType
<1>8. IsFiniteSet(P) /\ Cardinality(P) <= Cardinality(C \ K) /\ Cardinality(P) \in Nat
  <2> HIDE DEF C, K, f
  <2> QED
    BY <1>3, <1>6, FS_Injection, FS_CardinalityType
<1>9. Cardinality(P) + Cardinality(K) <= Cardinality(C)
  <2> HIDE DEF C, K
  <2> QED
    BY <1>4, <1>6, <1>7, <1>8
<1> QED
  BY <1>8, <1>9

(* Writing off ranges that go raises neither loss nor what is awaited.     *)
LEMMA WriteOff ==
  ASSUME NEW s, DOMAIN s = Fields, RangesInv(s),
         NEW E \in SUBSET s.ranges, NEW D \in SUBSET s.ranges, E \subseteq D
  PROVE  /\ NackStep(s, DropRanges(CountUnrecovered(s, E), D))
         /\ DropRanges(CountUnrecovered(s, E), D).ranges = s.ranges \ D
<1> DEFINE n == Cardinality(UNION {{r} \X Missing(s, r) : r \in E})
           u == DropRanges(CountUnrecovered(s, E), D)
<1>1. n \in Nat /\ n + Cardinality(Covered(s.ranges \ D)) <= Cardinality(Covered(s.ranges))
  BY WriteOffCounts, Zenon
<1>2. u = [[s EXCEPT !.unrecovered = @ + n] EXCEPT !.ranges = @ \ D]
  BY DEF DropRanges, CountUnrecovered
<1> HIDE DEF n, u
<1>3. /\ Same(s, u, {"ranges", "unrecovered"})
      /\ u.ranges = s.ranges \ D
      /\ u.unrecovered = s.unrecovered + n
      /\ u.highest = s.highest /\ u.windowSent = s.windowSent /\ u.detected = s.detected
  BY <1>2 DEF Same, Fields
<1>4. RangesOK(u.ranges, u.highest)
  BY <1>3, RangesKept DEF RangesInv
<1>5. RangesInv(u)
  BY <1>1, <1>3, <1>4 DEF RangesInv
<1>6. Lost(u) <= Lost(s)
  <2>1. Cardinality(Covered(s.ranges)) \in Nat /\ Cardinality(Covered(u.ranges)) \in Nat
    BY <1>4, CoveredFinite DEF RangesInv
  <2> QED
    BY <1>1, <1>3, <2>1 DEF Lost, RangesInv
<1>7. Same(s, u, NackFields)
  BY <1>3 DEF Same, NackFields
<1> QED
  BY <1>3, <1>5, <1>6, <1>7 DEF NackStep, u

-----------------------------------------------------------------------------
(***************************************************************************)
(* The steps of the list of ranges: each leaves the rest of the buffer     *)
(* alone, keeps the ranges apart, files none under another picture and     *)
(* raises neither the loss nor what is awaited.                            *)
(***************************************************************************)

(* Nothing changed is a step of the list of ranges.                        *)
LEMMA NackStepRefl ==
  ASSUME NEW s, DOMAIN s = Fields, RangesInv(s)
  PROVE  NackStep(s, s)
<1>1. Cardinality(Covered(s.ranges)) \in Nat
  BY CoveredFinite DEF RangesInv
<1> QED
  BY <1>1 DEF NackStep, Same, Lost, RangesInv

(* Two steps of the list of ranges make one.                               *)
LEMMA NackStepTrans ==
  ASSUME NEW s, NEW u, NEW w, NackStep(s, u), NackStep(u, w), RangesInv(s)
  PROVE  NackStep(s, w)
<1>1. Lost(s) \in Nat /\ Lost(u) \in Nat /\ Lost(w) \in Nat
  BY CoveredFinite DEF RangesInv, NackStep, Lost
<1>2. Lost(w) <= Lost(s)
  BY <1>1 DEF NackStep
<1>3. Same(s, w, NackFields)
  BY DEF NackStep, Same
<1>4. \A r \in w.ranges : \E q \in s.ranges : r.ts = q.ts
  BY DEF NackStep
<1> QED
  BY <1>2, <1>3, <1>4 DEF NackStep

(* compactPendingNacks writes off what expired.                            *)
LEMMA CompactStep ==
  ASSUME NEW s, NEW t, DOMAIN s = Fields, RangesInv(s)
  PROVE  NackStep(s, CompactNacks(s, t)) /\ CompactNacks(s, t).ranges \subseteq s.ranges
<1>1. Expired(s, t) \in SUBSET s.ranges /\ Expired(s, t) \cup Answered(s) \in SUBSET s.ranges
  BY DEF Expired, Answered
<1> QED
  BY <1>1, WriteOff DEF CompactNacks

(* abandonPendingNacksForTimestamp leaves no range of the frame.           *)
LEMMA AbandonStep ==
  ASSUME NEW s, NEW ts, DOMAIN s = Fields, RangesInv(s)
  PROVE  /\ NackStep(s, AbandonNacks(s, ts))
         /\ AbandonNacks(s, ts).ranges = s.ranges \ RangesOf(s, ts)
<1>1. RangesOf(s, ts) \in SUBSET s.ranges
  BY DEF RangesOf
<1> QED
  BY <1>1, WriteOff DEF AbandonNacks

(* clearPendingNacks leaves no range.                                      *)
LEMMA ClearStep ==
  ASSUME NEW s, DOMAIN s = Fields, RangesInv(s)
  PROVE  NackStep(s, ClearNacks(s)) /\ ClearNacks(s).ranges = {}
<1>1. s.ranges \in SUBSET s.ranges
  OBVIOUS
<1> QED
  BY <1>1, WriteOff DEF ClearNacks

(* The numbers with fewer than `left` others below them are at most that   *)
(* many: the budget of a window is not exceeded.                           *)
LEMMA AtMost ==
  ASSUME NEW S, S \subseteq Nat, IsFiniteSet(S), NEW left \in Nat,
         NEW T, T = {x \in S : Cardinality({y \in S : y < x}) < left}
  PROVE  IsFiniteSet(T) /\ Cardinality(T) \in Nat /\ Cardinality(T) <= left
<1>1. IsFiniteSet(T) /\ Cardinality(T) \in Nat
  BY FS_Subset, FS_CardinalityType
<1>2. CASE T = {}
  <2>1. Cardinality(T) = 0
    BY <1>2, FS_EmptySet, Zenon
  <2> QED
    BY <1>1, <2>1
<1>3. CASE T # {}
  <2>1. PICK m \in T : \A y \in T : y <= m
    BY <1>1, <1>3, FinMax
  <2> DEFINE L == {y \in S : y < m}
  <2>2. IsFiniteSet(L) /\ Cardinality(L) < left /\ Cardinality(L) \in Nat
    BY <2>1, FS_Subset, FS_CardinalityType
  <2>3. T \in SUBSET (L \cup {m})
    <3>1. ASSUME NEW y \in T PROVE y \in L \cup {m}
      <4>1. y \in S /\ y \in Nat /\ m \in Nat /\ y <= m
        BY <2>1
      <4> QED
        BY <4>1
    <3> QED
      BY <3>1
  <2> HIDE DEF L
  <2>4. IsFiniteSet(L \cup {m}) /\ Cardinality(L \cup {m}) <= Cardinality(L) + 1 /\ Cardinality(L \cup {m}) \in Nat
    <3>1. IsFiniteSet(L \cup {m}) /\ Cardinality(L \cup {m}) = IF m \in L THEN Cardinality(L) ELSE Cardinality(L) + 1
      BY <2>2, FS_AddElement, Zenon
    <3> QED
      BY <2>2, <3>1
  <2>5. Cardinality(T) <= Cardinality(L \cup {m})
    BY <2>3, <2>4, FS_Subset
  <2> QED
    BY <1>1, <2>2, <2>4, <2>5
<1> QED
  BY <1>1, <1>2, <1>3

(* A pass over the ranges keeps them and the budget.                       *)
LEMMA PassStep ==
  ASSUME NEW s, NEW t, NEW retry \in BOOLEAN, NEW link \in BOOLEAN, DOMAIN s = Fields, RangesInv(s)
  PROVE  NackStep(s, Pass(s, t, retry, link))
<1> DEFINE left == NackBudget - s.windowSent
           asks == Asks(s, t, retry)
           AsksBefore(x) == Cardinality({y \in asks : y < x})
           tried == {x \in asks : AsksBefore(x) < left}
           sent == IF link THEN tried ELSE {}
           Open(x) == left > 0 /\ IF link THEN AsksBefore(x) < left ELSE AsksBefore(x) = 0
           mine(r) == sent \cap Pids(s, r)
           cursor(r) == IF mine(r) = {} THEN r.cursor
                     ELSE IF LastOf(mine(r)) + NackSpan < r.end
                     THEN LastOf(mine(r)) + NackSpan ELSE r.end
           After(r) ==
            IF ~HasTurn(r, t, retry) \/ ~Open(r.begin) THEN r
            ELSE IF ~RetryCanMeetDeadline(r, t) THEN [r EXCEPT !.rounds = MaxRounds]
            ELSE IF cursor(r) >= r.end \/ Open(r.end)
            THEN [r EXCEPT !.rounds = @ + 1, !.cursor = r.begin, !.next = t + RetryAfter]
            ELSE [r EXCEPT !.cursor = cursor(r)]
           f == [r \in s.ranges |-> After(r)]
           u == Pass(s, t, retry, link)
<1>1. u = [s EXCEPT !.ranges = {After(r) : r \in @}, !.windowSent = @ + Cardinality(sent)]
  BY DEF Pass
<1>2. ASSUME NEW r \in s.ranges
      PROVE /\ IsRange(After(r)) /\ After(r).begin = r.begin /\ After(r).end = r.end
            /\ After(r).ts = r.ts
  <2>0. DOMAIN r = RangeFields /\ IsRange(r)
    BY DEF RangesInv, RangesOK, IsRange
  <2> DEFINE a == HasTurn(r, t, retry)
             b == Open(r.begin)
             c == RetryCanMeetDeadline(r, t)
             d == cursor(r)
             e == Open(r.end)
  <2> HIDE DEF a, b, c, d, e
  <2>1. After(r) = IF ~a \/ ~b THEN r
            ELSE IF ~c THEN [r EXCEPT !.rounds = MaxRounds]
            ELSE IF d >= r.end \/ e
            THEN [r EXCEPT !.rounds = @ + 1, !.cursor = r.begin, !.next = t + RetryAfter]
            ELSE [r EXCEPT !.cursor = d]
    BY DEF a, b, c, d, e
  <2> HIDE DEF After
  <2> QED
    BY <2>0, <2>1 DEF IsRange, RangeFields
<1>3. {After(r) : r \in s.ranges} = {f[r] : r \in s.ranges}
  <2> HIDE DEF After
  <2> QED
    OBVIOUS
<1>4. asks \subseteq Covered(s.ranges)
  <2> USE DEF Asks, Covered, Span
  <2> QED
    BY DEF Pids
<1>5. IsFiniteSet(asks) /\ asks \subseteq Nat
  <2> HIDE DEF asks
  <2> QED
    BY <1>4, CoveredFinite, FS_Subset DEF RangesInv
<1>6. left \in Nat
  BY SizeAssumption DEF RangesInv
<1>7. IsFiniteSet(tried) /\ Cardinality(tried) \in Nat /\ Cardinality(tried) <= left
  <2> HIDE DEF asks, left
  <2> QED
    BY <1>5, <1>6, AtMost
<1>8. Cardinality(sent) \in Nat /\ Cardinality(sent) <= left
  <2> HIDE DEF tried, left
  <2> QED
    BY <1>6, <1>7, FS_EmptySet
<1> DEFINE B == {f[r] : r \in s.ranges}
           n == Cardinality(sent)
<1> HIDE DEF u, sent, n
<1>9. u = [s EXCEPT !.ranges = B, !.windowSent = @ + n]
  <2> HIDE DEF After, f
  <2> QED
    BY <1>1, <1>3 DEF n
<1>10. \A r \in s.ranges : f[r] = After(r)
  <2> HIDE DEF After
  <2> QED
    OBVIOUS
<1> HIDE DEF f, After
<1>11. RangesOK(B, s.highest) /\ Cardinality(Covered(B)) <= Cardinality(Covered(s.ranges))
  <2>1. s.ranges \in SUBSET s.ranges /\ RangesOK(s.ranges, s.highest)
    BY DEF RangesInv
  <2>2. \A r \in s.ranges : IsRange(f[r]) /\ f[r].begin = r.begin /\ f[r].end = r.end
    BY <1>2, <1>10
  <2> QED
    BY <2>1, <2>2, RangesRemap, Zenon
<1>12. \A r \in B : \E q \in s.ranges : r.ts = q.ts
  BY <1>2, <1>10
<1> HIDE DEF B
<1>13. /\ Same(s, u, {"ranges", "windowSent"})
       /\ u.ranges = B /\ u.unrecovered = s.unrecovered /\ u.windowSent = s.windowSent + n
       /\ u.highest = s.highest /\ u.detected = s.detected
  BY <1>9 DEF Same, Fields
<1>14. RangesInv(u)
  BY <1>8, <1>11, <1>13, SizeAssumption DEF RangesInv, n
<1>15. Lost(u) <= Lost(s)
  <2>1. Cardinality(Covered(B)) \in Nat /\ Cardinality(Covered(s.ranges)) \in Nat
    BY <1>11, CoveredFinite DEF RangesInv
  <2> QED
    BY <1>11, <1>13, <2>1 DEF Lost, RangesInv
<1> QED
  BY <1>12, <1>13, <1>14, <1>15 DEF NackStep, Same, NackFields, u

-----------------------------------------------------------------------------
(***************************************************************************)
(* drainPendingNacks and sendNacks: only a gap that is found adds to what  *)
(* is lost or awaited, by its own size.                                    *)
(***************************************************************************)

(* drainPendingNacks, whether the transport takes the NACKs or not.        *)
LEMMA DrainNacksStep ==
  ASSUME NEW s, NEW t, NEW link \in BOOLEAN, DOMAIN s = Fields, RangesInv(s)
  PROVE  NackStep(s, DrainNacks(s, t, link))
<1> DEFINE c == CompactNacks(s, t)
           w == IF c.windowAt = None \/ t - c.windowAt >= NackWindow
                THEN [c EXCEPT !.windowAt = t, !.windowSent = 0] ELSE c
           first == Pass(w, t, FALSE, link)
           again == Pass(first, t, TRUE, link)
           last == CompactNacks(again, t)
<1>1. NackStep(s, c) /\ RangesInv(c) /\ DOMAIN c = Fields
  BY CompactStep DEF NackStep, Same
<1> HIDE DEF c
<1>2. NackStep(c, w) /\ RangesInv(w) /\ DOMAIN w = Fields
  <2> DEFINE v == [c EXCEPT !.windowAt = t, !.windowSent = 0]
  <2>1. /\ Same(c, v, {"windowAt", "windowSent"}) /\ v.windowSent = 0
        /\ v.ranges = c.ranges /\ v.highest = c.highest
        /\ v.unrecovered = c.unrecovered /\ v.detected = c.detected
    BY <1>1 DEF Same, Fields
  <2> HIDE DEF v
  <2>2. NackStep(c, v)
    <3>1. RangesInv(v)
      BY <1>1, <2>1, SizeAssumption DEF RangesInv
    <3>2. Lost(v) <= Lost(c)
      <4>1. Cardinality(Covered(c.ranges)) \in Nat
        BY <1>1, CoveredFinite DEF RangesInv
      <4> QED
        BY <1>1, <2>1, <4>1 DEF Lost, RangesInv
    <3> QED
      BY <2>1, <3>1, <3>2 DEF NackStep, Same, NackFields
  <2>3. NackStep(c, c)
    BY <1>1, NackStepRefl
  <2>4. w = v \/ w = c
    BY DEF v
  <2> HIDE DEF w
  <2> QED
    BY <2>2, <2>3, <2>4 DEF NackStep, Same
<1> HIDE DEF w
<1>3. NackStep(w, first) /\ RangesInv(first) /\ DOMAIN first = Fields
  <2>1. NackStep(w, first)
    BY <1>2, PassStep, Zenon DEF first
  <2> HIDE DEF first
  <2> QED
    BY <2>1 DEF NackStep, Same
<1> HIDE DEF first
<1>4. NackStep(first, again) /\ RangesInv(again) /\ DOMAIN again = Fields
  <2>1. NackStep(first, again)
    BY <1>3, PassStep, Zenon DEF again
  <2> HIDE DEF again
  <2> QED
    BY <2>1 DEF NackStep, Same
<1> HIDE DEF again
<1>5. NackStep(again, last)
  BY <1>4, CompactStep
<1> HIDE DEF last
<1>6. NackStep(s, w)
  BY <1>1, <1>2, NackStepTrans
<1>7. NackStep(s, first)
  BY <1>3, <1>6, NackStepTrans
<1>8. NackStep(s, again)
  BY <1>4, <1>7, NackStepTrans
<1>9. NackStep(s, last)
  BY <1>5, <1>8, NackStepTrans
<1>10. DrainNacks(s, t, link) \in {c, first, again, last}
  BY DEF DrainNacks, c, w, first, again, last
<1> QED
  BY <1>1, <1>7, <1>8, <1>9, <1>10

(* What a gap that is found adds to what is lost or awaited *)
GapStep(s, u, gap, ts) ==
  /\ Same(s, u, NackFields)
  /\ RangesInv(u)
  /\ Lost(u) <= Lost(s) + gap
  /\ \A r \in u.ranges : r.ts = ts \/ \E q \in s.ranges : r.ts = q.ts

(* sendNacks adds the gap once: as a range, or as lost when it is too long *)
(* or the list is full.                                                    *)
LEMMA SendNacksStep ==
  ASSUME NEW s, NEW begin \in Nat, NEW end \in Nat, NEW ts, NEW t, NEW key \in BOOLEAN, NEW link \in BOOLEAN,
         DOMAIN s = Fields, RangesInv(s), begin < end, end <= s.highest,
         \A r \in s.ranges : r.end <= begin
  PROVE  GapStep(s, SendNacks(s, begin, end, ts, t, key, link), end - begin, ts)
<1> DEFINE c == CompactNacks(s, t)
           Gap(v) == [v EXCEPT !.unrecovered = @ + (end - begin)]
           new == [begin |-> begin, cursor |-> begin, end |-> end, ts |-> ts,
                   seen |-> t, next |-> t, rounds |-> 0,
                   candidate |-> c.waiting,
                   authorized |-> ~c.waiting \/ key]
           more == [c EXCEPT !.ranges = @ \cup {new}]
           u == SendNacks(s, begin, end, ts, t, key, link)
           gap == end - begin
<1>0. gap \in Nat
  OBVIOUS
<1>1. NackStep(s, c) /\ c.ranges \subseteq s.ranges
  BY CompactStep
<1> HIDE DEF c
<1>2. RangesInv(c) /\ DOMAIN c = Fields /\ c.highest = s.highest
  BY <1>1 DEF NackStep, Same, Fields, NackFields
<1>3. ASSUME NEW v, NackStep(s, v) PROVE GapStep(s, Gap(v), gap, ts)
  <2> DEFINE w == Gap(v)
  <2>1. RangesInv(v) /\ DOMAIN v = Fields
    BY <1>3 DEF NackStep, Same
  <2> HIDE DEF gap
  <2>2. /\ Same(v, w, {"unrecovered"}) /\ w.unrecovered = v.unrecovered + gap
        /\ w.ranges = v.ranges /\ w.highest = v.highest /\ w.windowSent = v.windowSent
        /\ w.detected = v.detected
    BY <2>1 DEF Same, Fields, gap
  <2> HIDE DEF w
  <2>3. RangesInv(w)
    BY <1>0, <2>1, <2>2 DEF RangesInv
  <2>4. Cardinality(Covered(v.ranges)) \in Nat /\ Cardinality(Covered(s.ranges)) \in Nat
    BY <2>1, CoveredFinite DEF RangesInv
  <2>5. Lost(w) <= Lost(s) + gap
    BY <1>0, <1>3, <2>1, <2>2, <2>4 DEF NackStep, Lost, RangesInv
  <2>6. GapStep(s, w, gap, ts)
    BY <1>3, <2>2, <2>3, <2>5 DEF GapStep, NackStep, Same, NackFields
  <2> QED
    BY <2>6 DEF w
<1>4. CASE end - begin > MaxNackGap
  <2>1. u = Gap(s)
    BY <1>4 DEF SendNacks
  <2> QED
    BY <1>3, <2>1, NackStepRefl
<1>5. CASE ~(end - begin > MaxNackGap) /\ Cardinality(c.ranges) >= MaxRanges
  <2>1. u = Gap(c)
    BY <1>5 DEF SendNacks, c
  <2> QED
    BY <1>1, <1>3, <2>1
<1>6. CASE ~(end - begin > MaxNackGap) /\ ~(Cardinality(c.ranges) >= MaxRanges)
  <2>1. u = DrainNacks(more, t, link)
    BY <1>6 DEF SendNacks, c
  <2> HIDE DEF u, new
  <2>2. /\ Same(c, more, {"ranges"}) /\ more.ranges = c.ranges \cup {new}
        /\ more.highest = c.highest /\ more.windowSent = c.windowSent
        /\ more.unrecovered = c.unrecovered /\ more.detected = c.detected
    BY <1>2 DEF Same, Fields
  <2> HIDE DEF more
  <2>3. /\ IsRange(new) /\ new.begin = begin /\ new.end = end /\ new.ts = ts
    BY DEF new, IsRange, RangeFields
  <2>4. RangesOK(c.ranges, s.highest)
    BY <1>2 DEF RangesInv
  <2>5. RangesOK(more.ranges, s.highest)
    <3>1. IsFiniteSet(more.ranges) /\ Cardinality(more.ranges) <= MaxRanges
      <4>1. IsFiniteSet(c.ranges) /\ Cardinality(c.ranges) \in Nat
        BY <2>4, FS_CardinalityType DEF RangesOK
      <4>2. IsFiniteSet(c.ranges \cup {new}) /\ Cardinality(c.ranges \cup {new}) =
             IF new \in c.ranges THEN Cardinality(c.ranges) ELSE Cardinality(c.ranges) + 1
        BY <4>1, FS_AddElement, Zenon
      <4> QED
        BY <1>6, <2>2, <4>1, <4>2, SizeAssumption
    <3>2. \A r \in more.ranges : IsRange(r) /\ r.end <= s.highest
      BY <2>2, <2>3, <2>4 DEF RangesOK
    <3>3. \A r, q \in more.ranges : r # q => r.end <= q.begin \/ q.end <= r.begin
      BY <1>1, <2>2, <2>3, <2>4 DEF RangesOK
    <3> QED
      BY <3>1, <3>2, <3>3 DEF RangesOK
  <2>6. Cardinality(Covered(more.ranges)) <= Cardinality(Covered(c.ranges)) + gap
    <3>1. Covered(more.ranges) = Covered(c.ranges) \cup (begin..(end - 1))
      BY <2>2, <2>3 DEF Covered, Span
    <3>2. IsFiniteSet(Covered(c.ranges)) /\ Cardinality(Covered(c.ranges)) \in Nat
      BY <2>4, CoveredFinite
    <3>3. IsFiniteSet(begin..(end - 1)) /\ Cardinality(begin..(end - 1)) = gap
      BY FS_Interval
    <3> DEFINE A == Covered(c.ranges)
               B == begin..(end - 1)
    <3> HIDE DEF A, B, gap
    <3>4. Cardinality(A \cup B) = Cardinality(A) + Cardinality(B) - Cardinality(A \cap B)
      BY <3>2, <3>3, FS_Union DEF A, B
    <3>5. Cardinality(A \cap B) \in Nat
      BY <3>2, FS_Intersection, FS_CardinalityType DEF A
    <3> QED
      BY <1>0, <3>1, <3>2, <3>3, <3>4, <3>5 DEF A, B
  <2>7. RangesInv(more)
    BY <1>2, <2>2, <2>5 DEF RangesInv
  <2>8. NackStep(more, u)
    BY <2>1, <2>2, <2>7, DrainNacksStep DEF Same
  <2>9. /\ Cardinality(Covered(c.ranges)) \in Nat /\ Cardinality(Covered(s.ranges)) \in Nat
        /\ Cardinality(Covered(more.ranges)) \in Nat /\ Cardinality(Covered(u.ranges)) \in Nat
        /\ RangesInv(u)
    BY <2>4, <2>5, <2>8, CoveredFinite DEF RangesInv, NackStep
  <2>10. Lost(u) <= Lost(s) + gap
    <3> HIDE DEF gap
    <3>1. Lost(more) <= Lost(c) + gap
      BY <1>0, <1>2, <2>2, <2>6, <2>9 DEF Lost, RangesInv
    <3> QED
      BY <1>0, <1>1, <1>2, <2>2, <2>8, <2>9, <3>1 DEF NackStep, Lost, RangesInv
  <2>11. \A r \in u.ranges : r.ts = ts \/ \E q \in s.ranges : r.ts = q.ts
    BY <1>1, <2>2, <2>3, <2>8 DEF NackStep
  <2> QED
    BY <1>1, <2>2, <2>8, <2>9, <2>10, <2>11 DEF GapStep, NackStep, Same, NackFields, u
<1> QED
  BY <1>4, <1>5, <1>6

-----------------------------------------------------------------------------
(***************************************************************************)
(* noteSequence: each packet is of one of four kinds (the first, a copy, a *)
(* newer one, an older one), and detected grows as fast as the loss it     *)
(* opens.  Then the callbacks: a queue whose last event says what the      *)
(* decoder will have.                                                      *)
(***************************************************************************)

(* What noteSequence changes beside the list of ranges.                    *)
NoteFields == {"have", "highest", "base", "unique", "received", "recovered", "detected"}

(* What noteSequence changes *)
NoteEffect(s, u, x, ts) ==
  /\ Same(s, u, NoteFields \cup NackFields)
  /\ RangesInv(u)
  /\ u.highest \in Nat
  /\ x <= u.highest
  /\ Lost(s) <= s.detected => Lost(u) <= u.detected
  /\ \A r \in u.ranges : r.ts = ts \/ \E q \in s.ranges : r.ts = q.ts

(* The window after a newer number.                                        *)
Shifted(s, x) == {y \in s.received : x - y < Window} \cup {x}

(* The four kinds of packets that noteSequence tells apart.                *)
Noted(s, u, x) ==
  \/ ~s.have /\ u.have = TRUE /\ u.highest = x /\ u.base = x /\ u.unique = 1 /\ u.received = {x}
  \/ s.have /\ IsDuplicate(s, x) /\ u = s
  \/ /\ s.have /\ ~IsDuplicate(s, x) /\ x > s.highest /\ u.have = TRUE
     /\ u.highest = x /\ u.base = s.base /\ u.unique = s.unique + 1
     /\ u.received = Shifted(s, x)
  \/ /\ s.have /\ ~IsDuplicate(s, x) /\ x <= s.highest /\ u.have = TRUE
     /\ u.highest = s.highest /\ u.base = s.base /\ u.received = s.received \cup {x}
     /\ u.unique = IF x >= s.base THEN s.unique + 1 ELSE s.unique

(* A newer number: what it skips is detected as missing.                   *)
LEMMA NoteNewerEffect ==
  ASSUME NEW s, NEW x \in Nat, NEW p, NEW t, NEW link \in BOOLEAN,
         DOMAIN s = Fields, RangesInv(s), s.highest \in Nat, s.unique \in Nat, x > s.highest,
         NEW u, u = NoteNewer(s, x, p, t, link)
  PROVE  /\ NoteEffect(s, u, x, p.ts) /\ u.have = s.have
         /\ u.highest = x /\ u.base = s.base /\ u.unique = s.unique + 1
         /\ u.received = Shifted(s, x)
<1> DEFINE R == Shifted(s, x)
           seen == [s EXCEPT !.highest = x, !.unique = @ + 1, !.received = R]
           gap == x - s.highest - 1
           more == [seen EXCEPT !.detected = @ + gap]
<1>0. gap \in Nat
  OBVIOUS
<1>1. Cardinality(Covered(s.ranges)) \in Nat
  BY CoveredFinite DEF RangesInv
<1>2. RangesOK(s.ranges, x)
  BY DEF RangesInv, RangesOK, IsRange
<1> HIDE DEF R, gap
<1>3. /\ Same(s, seen, {"highest", "unique", "received"})
      /\ seen.highest = x /\ seen.unique = s.unique + 1 /\ seen.received = R
      /\ seen.ranges = s.ranges /\ seen.unrecovered = s.unrecovered /\ seen.base = s.base
      /\ seen.windowSent = s.windowSent /\ seen.detected = s.detected /\ seen.have = s.have
  BY DEF Same, Fields
<1> HIDE DEF seen
<1>4. /\ Same(s, more, {"highest", "unique", "received", "detected"})
      /\ more.highest = x /\ more.unique = s.unique + 1 /\ more.received = R
      /\ more.ranges = s.ranges /\ more.unrecovered = s.unrecovered /\ more.base = s.base
      /\ more.windowSent = s.windowSent /\ more.detected = s.detected + gap /\ more.have = s.have
  BY <1>3 DEF Same, Fields
<1> HIDE DEF more
<1>5. CASE x = s.highest + 1
  <2>1. u = seen
    BY <1>5 DEF NoteNewer, seen, R, Shifted
  <2>2. RangesInv(seen)
    BY <1>2, <1>3 DEF RangesInv
  <2>3. Lost(seen) = Lost(s)
    BY <1>3 DEF Lost
  <2>4. Same(s, seen, NoteFields \cup NackFields)
    BY <1>3 DEF Same, NoteFields
  <2> QED
    <3>2. seen.highest \in Nat /\ x <= seen.highest
      BY <1>3
    <3>3. Lost(s) <= s.detected => Lost(seen) <= seen.detected
      BY <1>3, <2>3
    <3>4. \A r \in seen.ranges : r.ts = p.ts \/ \E q \in s.ranges : r.ts = q.ts
      BY <1>3
    <3>5. NoteEffect(s, seen, x, p.ts)
      BY <2>2, <2>4, <3>2, <3>3, <3>4 DEF NoteEffect
    <3> QED
      BY <1>3, <2>1, <3>5 DEF R
<1>6. CASE x # s.highest + 1
  <2> DEFINE key == p.kind = "key"
             w == SendNacks(more, s.highest + 1, x, p.ts, t, key, link)
  <2>1. u = w
    BY <1>6 DEF NoteNewer, seen, R, more, gap, Shifted
  <2>2. RangesInv(more)
    BY <1>0, <1>2, <1>4 DEF RangesInv
  <2>3. GapStep(more, w, x - (s.highest + 1), p.ts)
    <3>4. key \in BOOLEAN
      OBVIOUS
    <3> HIDE DEF key
    <3>1. s.highest + 1 \in Nat /\ s.highest + 1 < x /\ x <= more.highest
      BY <1>4, <1>6
    <3>2. \A r \in more.ranges : r.end <= s.highest + 1
      BY <1>4 DEF RangesInv, RangesOK, IsRange
    <3>3. DOMAIN more = Fields
      BY <1>4 DEF Same
    <3> QED
      BY <2>2, <3>1, <3>2, <3>3, <3>4, SendNacksStep, Zenon
  <2> HIDE DEF w
  <2>4. gap = x - (s.highest + 1)
    BY DEF gap
  <2>5. w.highest = x /\ w.unique = s.unique + 1 /\ w.received = R /\ w.detected = s.detected + gap
        /\ w.base = s.base /\ w.have = s.have
    BY <1>4, <2>3 DEF GapStep, Same, NackFields, Fields
  <2>6. Lost(w) <= Lost(s) + gap
    BY <1>4, <2>3, <2>4 DEF GapStep, Lost
  <2>7. Lost(s) <= s.detected => Lost(w) <= w.detected
    <3>1. Lost(w) \in Nat /\ Lost(s) \in Nat
      BY <1>1, <2>3, CoveredFinite DEF GapStep, RangesInv, Lost
    <3> QED
      BY <1>0, <2>5, <2>6, <3>1 DEF RangesInv
  <2>8. Same(s, w, NoteFields \cup NackFields)
    BY <1>4, <2>3 DEF GapStep, Same, NoteFields, NackFields
  <2> QED
    BY <1>4, <2>1, <2>3, <2>5, <2>7, <2>8 DEF NoteEffect, GapStep, R
<1> QED
  BY <1>5, <1>6

(* Every packet that is noted.                                             *)
LEMMA NoteSequenceEffect ==
  ASSUME NEW s, NEW x \in Nat, NEW p, NEW t, NEW link \in BOOLEAN,
         DOMAIN s = Fields, RangesInv(s), s.highest \in Nat, s.unique \in Nat, s.have \in BOOLEAN,
         s.have \/ s.ranges = {},
         NEW u, u = NoteSequence(s, x, p, t, link)
  PROVE  NoteEffect(s, u, x, p.ts) /\ Noted(s, u, x)
<1>0. Lost(s) \in Nat /\ RangesOK(s.ranges, s.highest)
  BY CoveredFinite DEF RangesInv, Lost
<1>1. CASE ~s.have
  <2> DEFINE w == [s EXCEPT !.have = TRUE, !.highest = x, !.base = x, !.unique = 1, !.received = {x}]
  <2>1. u = w
    BY <1>1 DEF NoteSequence
  <2>2. /\ Same(s, w, {"have", "highest", "base", "unique", "received"})
        /\ w.have = TRUE /\ w.highest = x /\ w.base = x /\ w.unique = 1 /\ w.received = {x}
        /\ w.ranges = s.ranges /\ w.unrecovered = s.unrecovered
        /\ w.windowSent = s.windowSent /\ w.detected = s.detected
    BY DEF Same, Fields
  <2> HIDE DEF w
  <2>3. RangesOK(w.ranges, x)
    BY <1>0, <1>1, <2>2 DEF RangesOK
  <2>4. RangesInv(w) /\ Lost(w) = Lost(s)
    BY <2>2, <2>3 DEF RangesInv, Lost
  <2>5. Same(s, w, NoteFields \cup NackFields)
    BY <2>2 DEF Same, NoteFields
  <2> QED
    BY <1>1, <2>1, <2>2, <2>4, <2>5 DEF NoteEffect, Noted
<1>2. CASE s.have /\ IsDuplicate(s, x)
  <2>1. u = s
    BY <1>2 DEF NoteSequence
  <2>2. x <= s.highest
    BY <1>2 DEF IsDuplicate
  <2>3. Same(s, s, NoteFields \cup NackFields)
    BY DEF Same
  <2> QED
    BY <1>2, <2>1, <2>2, <2>3 DEF NoteEffect, Noted
<1>3. CASE s.have /\ ~IsDuplicate(s, x) /\ x > s.highest
  <2>1. u = NoteNewer(s, x, p, t, link)
    BY <1>3 DEF NoteSequence
  <2>2. /\ NoteEffect(s, u, x, p.ts) /\ u.have = s.have
        /\ u.highest = x /\ u.base = s.base /\ u.unique = s.unique + 1
        /\ u.received = Shifted(s, x)
    <3>1. x > s.highest
      BY <1>3
    <3> QED
      BY <2>1, <3>1, NoteNewerEffect
  <2> QED
    BY <1>3, <2>2 DEF Noted
<1>4. CASE s.have /\ ~IsDuplicate(s, x) /\ ~(x > s.highest)
  <2> DEFINE counted == x >= s.base
             n == IF counted THEN s.unique + 1 ELSE s.unique
             m == IF counted THEN s.recovered + 1 ELSE s.recovered
             w == [s EXCEPT !.received = @ \cup {x}, !.unique = n, !.recovered = m]
  <2>1. u = w
    BY <1>4 DEF NoteSequence, NoteOlder
  <2> HIDE DEF n, m
  <2>2. /\ Same(s, w, {"received", "unique", "recovered"})
        /\ w.have = s.have /\ w.highest = s.highest /\ w.base = s.base /\ w.unique = n
        /\ w.received = s.received \cup {x}
        /\ w.ranges = s.ranges /\ w.unrecovered = s.unrecovered
        /\ w.windowSent = s.windowSent /\ w.detected = s.detected
    BY DEF Same, Fields
  <2> HIDE DEF w
  <2>4. RangesInv(w) /\ Lost(w) = Lost(s)
    BY <1>0, <2>2 DEF RangesInv, Lost
  <2>5. Same(s, w, NoteFields \cup NackFields)
    BY <2>2 DEF Same, NoteFields
  <2>6. x <= s.highest
    BY <1>4
  <2>7. NoteEffect(s, w, x, p.ts)
    BY <1>4, <2>2, <2>4, <2>5, <2>6 DEF NoteEffect
  <2> QED
    BY <1>4, <2>1, <2>2, <2>6, <2>7 DEF Noted, n
<1> QED
  BY <1>1, <1>2, <1>3, <1>4

-----------------------------------------------------------------------------
(* The states of the decoder, and the callbacks.                           *)
Decoders == [shown : Nat, chain : {"none", "whole", "broken"}, asked : BOOLEAN, forgotten : Nat]
Kinds == {"ask", "restart", "lost", "forgot", "show"}
Events == [kind : Kinds, ts : Nat, then : Decoders]

(* The callbacks of a call that were not taken yet.                        *)
Told(s) == {s.out[n] : n \in DOMAIN s.out}

(* What the decoder has once the callbacks in the queue are done, if it has d now *)
Queued(s, d) ==
  /\ s.out \in Seq(Events)
  /\ s.decoder \in Decoders
  /\ s.decoder = IF s.out = <<>> THEN d ELSE s.out[Len(s.out)].then

(* A callback, and the call that made it.                                  *)
Event(kind, ts, then) == [kind |-> kind, ts |-> ts, then |-> then]

EmitFields == {"out", "decoder"}
Emitted(s, u, e) ==
  /\ u.decoder = e.then
  /\ u.out = Append(s.out, e)

(* Making a callback changes nothing else.                                 *)
LEMMA EmitEffect ==
  ASSUME NEW s, DOMAIN s = Fields, NEW kind, NEW ts, NEW then,
         NEW u, u = Emit(s, kind, ts, then)
  PROVE  Same(s, u, EmitFields) /\ Emitted(s, u, Event(kind, ts, then))
BY DEF Emit, Same, Fields, EmitFields, Emitted, Event

(* It stands last in the queue.                                            *)
LEMMA EmittedQueue ==
  ASSUME NEW s, NEW d, s.out \in Seq(Events), NEW u, NEW e \in Events, Emitted(s, u, e)
  PROVE  Queued(u, d) /\ Told(u) = Told(s) \cup {e}
<1>1. u.out \in Seq(Events) /\ u.out # <<>> /\ Len(u.out) = Len(s.out) + 1 /\ u.out[Len(u.out)] = e
  BY DEF Emitted
<1>2. e.then \in Decoders
  BY DEF Events
<1>3. Told(u) = Told(s) \cup {e}
  <2>1. DOMAIN u.out = 1..(Len(s.out) + 1) /\ DOMAIN s.out = 1..Len(s.out) /\ Len(s.out) \in Nat
    BY DEF Emitted
  <2>2. \A n \in 1..Len(s.out) : u.out[n] = s.out[n]
    BY DEF Emitted
  <2>3. \A n \in DOMAIN u.out : n \in DOMAIN s.out \/ n = Len(u.out)
    BY <1>1, <2>1
  <2> QED
    BY <1>1, <2>1, <2>2, <2>3 DEF Told
<1> QED
  BY <1>1, <1>2, <1>3 DEF Queued, Emitted

(* A request for a key frame: it goes out, or one is under way *)
Asking(s, u) ==
  \/ s.notified = TRUE /\ u.out = s.out /\ u.decoder = s.decoder
  \/ Emitted(s, u, Event("ask", 0, [s.decoder EXCEPT !.asked = TRUE]))

(* What notifyRecovery changes.                                            *)
NotifyFields == {"notified", "notifiedAt"} \cup EmitFields

(* notifyRecovery: afterwards a request is under way.                      *)
LEMMA NotifyEffect ==
  ASSUME NEW s, DOMAIN s = Fields, NEW t, NEW force \in BOOLEAN, s.notified \in BOOLEAN,
         NEW u, u = NotifyRecovery(s, t, force)
  PROVE  /\ Same(s, u, NotifyFields)
         /\ u.notified = TRUE
         /\ Asking(s, u)
<1>1. CASE ~force /\ s.notified /\ t - s.notifiedAt < NotifyGap
  <2>1. u = s
    BY <1>1 DEF NotifyRecovery
  <2> QED
    BY <1>1, <2>1 DEF Same, Asking
<1>2. CASE ~(~force /\ s.notified /\ t - s.notifiedAt < NotifyGap)
  <2> DEFINE w == [s EXCEPT !.notified = TRUE, !.notifiedAt = t]
  <2>1. u = Emit(w, "ask", 0, [s.decoder EXCEPT !.asked = TRUE])
    BY <1>2 DEF NotifyRecovery
  <2>2. Same(s, w, {"notified", "notifiedAt"}) /\ w.notified = TRUE /\ w.out = s.out
    BY DEF Same, Fields
  <2> HIDE DEF w
  <2>3. Same(w, u, EmitFields) /\ Emitted(w, u, Event("ask", 0, [s.decoder EXCEPT !.asked = TRUE]))
    BY <2>1, <2>2, EmitEffect DEF Same
  <2>4. u.notified = TRUE
    BY <2>2, <2>3 DEF Same, EmitFields, Fields
  <2>5. Same(s, u, NotifyFields)
    BY <2>2, <2>3 DEF Same, NotifyFields
  <2>6. Emitted(s, u, Event("ask", 0, [s.decoder EXCEPT !.asked = TRUE]))
    BY <2>2, <2>3 DEF Emitted
  <2> QED
    BY <2>4, <2>5, <2>6 DEF Asking
<1> QED
  BY <1>1, <1>2

-----------------------------------------------------------------------------
(***************************************************************************)
(* Requests for a key frame, and what it takes to hand on the front frame. *)
(***************************************************************************)

(* The ranges are some of those before, maybe made tentative.              *)
Fewer(s, u) ==
  /\ RangesOK(u.ranges, s.highest)
  /\ Cardinality(Covered(u.ranges)) <= Cardinality(Covered(s.ranges))
  /\ \A r \in u.ranges : \E q \in s.ranges : r.ts = q.ts

(* What enterRecovery changes.                                             *)
RecoveryFields == NotifyFields \cup {"waiting", "soft", "softCount", "ranges", "resetNotified"}

(* enterRecovery holds pictures back, and a request is under way.          *)
LEMMA EnterRecoveryEffect ==
  ASSUME NEW s, DOMAIN s = Fields, RangesInv(s), s.notified \in BOOLEAN,
         NEW t, NEW ts, NEW reset \in BOOLEAN, NEW u, u = EnterRecovery(s, t, ts, reset)
  PROVE  /\ Same(s, u, RecoveryFields)
         /\ u.waiting = TRUE /\ u.soft = FALSE /\ u.notified = TRUE
         /\ Asking(s, u)
         /\ Fewer(s, u)
<1> DEFINE A == {q \in s.ranges : q.ts > ts}
           f == [r \in A |-> [r EXCEPT !.candidate = TRUE, !.authorized = KeyBuffered(s, r.ts)]]
           B == {[r EXCEPT !.candidate = TRUE, !.authorized = KeyBuffered(s, r.ts)] : r \in A}
           w == [s EXCEPT !.waiting = TRUE, !.ranges = B, !.soft = FALSE, !.softCount = 0]
           v == [w EXCEPT !.resetNotified = TRUE]
           force == ~s.waiting
           fresh == reset /\ ~s.resetNotified
<1>1. B = {f[r] : r \in A}
  OBVIOUS
<1>2. ASSUME NEW r \in A
      PROVE  /\ IsRange(f[r]) /\ f[r].begin = r.begin /\ f[r].end = r.end /\ f[r].ts = r.ts
  <2> DEFINE k == KeyBuffered(s, r.ts)
  <2>1. f[r] = [r EXCEPT !.candidate = TRUE, !.authorized = k]
    OBVIOUS
  <2>2. IsRange(r)
    BY DEF RangesInv, RangesOK
  <2> HIDE DEF f, k, A
  <2> QED
    BY <2>1, <2>2 DEF IsRange, RangeFields
<1>3. A \in SUBSET s.ranges
  OBVIOUS
<1>4. RangesOK(B, s.highest) /\ Cardinality(Covered(B)) <= Cardinality(Covered(s.ranges))
  <2>1. RangesOK(s.ranges, s.highest)
    BY DEF RangesInv
  <2>2. \A r \in A : IsRange(f[r]) /\ f[r].begin = r.begin /\ f[r].end = r.end
    BY <1>2
  <2> HIDE DEF f, A, B
  <2>3. /\ RangesOK({f[r] : r \in A}, s.highest)
        /\ Cardinality(Covered({f[r] : r \in A})) <= Cardinality(Covered(s.ranges))
    BY <1>3, <2>1, <2>2, RangesRemap, Zenon
  <2> QED
    BY <1>1, <2>3, Zenon
<1>5. \A r \in B : \E q \in s.ranges : r.ts = q.ts
  <2> HIDE DEF f
  <2>1. \A r \in {f[q] : q \in A} : \E q \in s.ranges : r.ts = q.ts
    BY <1>2
  <2> HIDE DEF A, B
  <2> QED
    BY <1>1, <2>1
<1>6. u = IF fresh THEN NotifyRecovery(v, t, TRUE) ELSE NotifyRecovery(w, t, force)
  BY DEF EnterRecovery
<1> HIDE DEF B, force, fresh
<1>7. /\ Same(s, w, {"waiting", "soft", "softCount", "ranges"})
      /\ w.waiting = TRUE /\ w.soft = FALSE /\ w.ranges = B
      /\ w.notified = s.notified /\ w.out = s.out /\ w.decoder = s.decoder
  BY DEF Same, Fields
<1> HIDE DEF w
<1>8. /\ Same(s, v, {"waiting", "soft", "softCount", "ranges", "resetNotified"})
      /\ v.waiting = TRUE /\ v.soft = FALSE /\ v.ranges = B
      /\ v.notified = s.notified /\ v.out = s.out /\ v.decoder = s.decoder
  BY <1>7 DEF Same, Fields
<1> HIDE DEF v
<1>9. PICK x \in {v, w} : \E g \in BOOLEAN : u = NotifyRecovery(x, t, g)
  <2>1. force \in BOOLEAN
    BY DEF force
  <2> QED
    BY <1>6, <2>1
<1>10. PICK g \in BOOLEAN : u = NotifyRecovery(x, t, g)
  BY <1>9
<1>11. /\ Same(s, x, RecoveryFields)
       /\ x.waiting = TRUE /\ x.soft = FALSE /\ x.ranges = B
       /\ x.notified = s.notified /\ x.out = s.out /\ x.decoder = s.decoder
  BY <1>7, <1>8, <1>9 DEF Same, RecoveryFields
<1>12. Same(x, u, NotifyFields) /\ u.notified = TRUE /\ Asking(x, u)
  <2>1. DOMAIN x = Fields /\ x.notified \in BOOLEAN
    BY <1>11 DEF Same
  <2> QED
    BY <1>10, <2>1, NotifyEffect
<1>13. u.waiting = TRUE /\ u.soft = FALSE /\ u.ranges = B
  BY <1>11, <1>12 DEF Same, NotifyFields, EmitFields, Fields
<1>14. Asking(s, u)
  BY <1>11, <1>12 DEF Asking, Emitted
<1>15. Same(s, u, RecoveryFields)
  BY <1>11, <1>12 DEF Same, RecoveryFields
<1> QED
  BY <1>4, <1>5, <1>12, <1>13, <1>14, <1>15 DEF Fewer

(* requestSoftRecovery: a request is under way.                            *)
LEMMA SoftRecoveryEffect ==
  ASSUME NEW s, DOMAIN s = Fields, s.notified \in BOOLEAN,
         NEW t, NEW u, u = RequestSoftRecovery(s, t)
  PROVE  /\ Same(s, u, NotifyFields \cup {"soft"})
         /\ u.soft = TRUE /\ u.notified = TRUE
         /\ Asking(s, u)
<1> DEFINE w == [s EXCEPT !.soft = TRUE]
           force == ~s.soft
<1>1. u = NotifyRecovery(w, t, force)
  BY DEF RequestSoftRecovery
<1> HIDE DEF force
<1>2. /\ Same(s, w, {"soft"}) /\ w.soft = TRUE
      /\ w.notified = s.notified /\ w.out = s.out /\ w.decoder = s.decoder
  BY DEF Same, Fields
<1> HIDE DEF w
<1>3. Same(w, u, NotifyFields) /\ u.notified = TRUE /\ Asking(w, u)
  <2>1. DOMAIN w = Fields /\ w.notified \in BOOLEAN /\ force \in BOOLEAN
    BY <1>2 DEF Same, force
  <2> QED
    BY <1>1, <2>1, NotifyEffect
<1> QED
  BY <1>2, <1>3 DEF Same, Asking, Emitted, NotifyFields, EmitFields, Fields

-----------------------------------------------------------------------------
(* What the decoder has once it has got frame f *)
Hand(d, f, key) ==
  [d EXCEPT !.shown = f.ts,
            !.chain = IF key THEN "whole"
                      ELSE IF f.ts = d.shown + 1 /\ WholeFrame(f) THEN @ ELSE "broken",
            !.asked = @ /\ ~key]

(* The frame is a key frame.                                               *)
BodyKey(f) == HasKey([packets |-> Body(f)])

(* What handing on the front frame changes.                                *)
HandFields == RecoveryFields \cup {"frames", "lastTs", "lastSeq"}

(* The frame goes and takes its ranges along.                              *)
HandOnEffect(s, u, f, hole) ==
  /\ Same(s, u, HandFields)
  /\ u.frames = s.frames \ {f}
  /\ u.ranges = s.ranges \ RangesOf(s, f.ts)
  /\ u.lastTs = f.ts
  /\ u.lastSeq = IF hole THEN 0 ELSE Marker(f).seq

(* A frame that is no key frame is kept from the decoder, a key frame is    *)
(* handed on, another frame is handed on, maybe after a request             *)
Withheld(s, u, f) ==
  s.waiting /\ ~BodyKey(f) /\ u.waiting = TRUE /\ u.soft = s.soft /\ u.notified = TRUE /\ Asking(s, u)

KeyShown(s, u, f) ==
  /\ BodyKey(f) /\ u.waiting = FALSE /\ u.soft = FALSE /\ u.notified = FALSE
  /\ Emitted(s, u, Event("show", f.ts, Hand(s.decoder, f, TRUE)))

DeltaShown(s, u, f, hole) ==
  /\ ~s.waiting /\ ~BodyKey(f) /\ u.waiting = FALSE /\ u.soft \in BOOLEAN
  /\ \E m : /\ \/ Asking(s, m) /\ u.notified = TRUE
               \/ /\ hole = FALSE /\ m.out = s.out /\ m.decoder = s.decoder
                  /\ u.notified = FALSE /\ u.soft = FALSE
            /\ Emitted(m, u, Event("show", f.ts, Hand(m.decoder, f, FALSE)))

(* The front frame is handed on, or withheld until a key frame comes.      *)
LEMMA HandOnCases ==
  ASSUME NEW s, DOMAIN s = Fields, RangesInv(s), s.notified \in BOOLEAN,
         s.waiting \in BOOLEAN, s.soft \in BOOLEAN, s.decoder \in Decoders,
         NEW t, NEW hole \in BOOLEAN, NEW u, u = HandOn(s, t, hole), NEW f, f = Front(s)
  PROVE  /\ HandOnEffect(s, u, f, hole)
         /\ Withheld(s, u, f) \/ KeyShown(s, u, f) \/ DeltaShown(s, u, f, hole)
<1> DEFINE mark == Marker(f).seq
           key == BodyKey(f)
           last == IF hole THEN 0 ELSE mark
           left == s.ranges \ RangesOf(s, f.ts)
           place == [s EXCEPT !.lastTs = f.ts, !.lastSeq = last]
           dropped == DropRanges(place, RangesOf(s, f.ts))
           done == PopFrame(dropped)
           live == [done EXCEPT !.waiting = FALSE]
           fresh == [live EXCEPT !.soft = FALSE, !.softCount = 0,
                                 !.notified = FALSE, !.resetNotified = FALSE]
           calm == [live EXCEPT !.notified = FALSE]
           told == IF key THEN fresh
                ELSE IF hole THEN RequestSoftRecovery(live, t)
                ELSE IF live.soft THEN NotifyRecovery(live, t, FALSE)
                ELSE calm
           Shown(d) == Emit(d, "show", f.ts, Hand(d.decoder, f, key))
<1>1. u = IF s.waiting /\ ~key THEN NotifyRecovery(done, t, FALSE) ELSE Shown(told)
  BY DEF HandOn, Hand, BodyKey
<1> HIDE DEF mark, left
<1>2. /\ Same(s, place, {"lastTs", "lastSeq"})
      /\ place.lastTs = f.ts /\ place.lastSeq = last
      /\ place.frames = s.frames /\ place.ranges = s.ranges
  BY DEF Same, Fields
<1> HIDE DEF place
<1>3. /\ Same(s, dropped, {"lastTs", "lastSeq", "ranges"})
      /\ dropped.lastTs = f.ts /\ dropped.lastSeq = last
      /\ dropped.frames = s.frames /\ dropped.ranges = left
  BY <1>2 DEF Same, Fields, DropRanges, left
<1> HIDE DEF dropped
<1>4. Front(dropped) = f
  BY <1>3 DEF Front
<1>5. /\ Same(s, done, {"lastTs", "lastSeq", "ranges", "frames"})
      /\ done.lastTs = f.ts /\ done.lastSeq = last
      /\ done.frames = s.frames \ {f} /\ done.ranges = left
      /\ done.waiting = s.waiting /\ done.soft = s.soft /\ done.notified = s.notified
      /\ done.out = s.out /\ done.decoder = s.decoder
  BY <1>3, <1>4 DEF Same, Fields, PopFrame
<1> HIDE DEF done
<1>6. /\ Same(s, live, {"lastTs", "lastSeq", "ranges", "frames", "waiting"})
      /\ live.lastTs = f.ts /\ live.lastSeq = last
      /\ live.frames = s.frames \ {f} /\ live.ranges = left
      /\ live.waiting = FALSE /\ live.soft = s.soft /\ live.notified = s.notified
      /\ live.out = s.out /\ live.decoder = s.decoder
  BY <1>5 DEF Same, Fields
<1> HIDE DEF live
<1> DEFINE Base(x) == /\ Same(s, x, HandFields)
                      /\ x.frames = s.frames \ {f} /\ x.ranges = left
                      /\ x.lastTs = f.ts /\ x.lastSeq = last
<1>7. CASE s.waiting /\ ~key
  <2>1. u = NotifyRecovery(done, t, FALSE)
    BY <1>1, <1>7
  <2>2. DOMAIN done = Fields /\ done.notified \in BOOLEAN
    BY <1>5 DEF Same
  <2>3. Same(done, u, NotifyFields) /\ u.notified = TRUE /\ Asking(done, u)
    BY <2>1, <2>2, NotifyEffect
  <2>4. Base(u)
    BY <1>5, <2>3 DEF Same, Fields, HandFields, RecoveryFields, NotifyFields, EmitFields
  <2>5. Asking(s, u)
    BY <1>5, <2>3 DEF Asking, Emitted
  <2>6. u.waiting = s.waiting /\ u.soft = s.soft
    BY <1>5, <2>3 DEF Same, Fields, NotifyFields, EmitFields
  <2>7. Withheld(s, u, f)
    BY <1>7, <2>3, <2>5, <2>6 DEF Withheld
  <2> QED
    BY <2>4, <2>7 DEF HandOnEffect, mark, left
<1>9. CASE key
  <2>1. u = Shown(fresh)
    BY <1>1, <1>9
  <2>2. /\ Base(fresh) /\ fresh.waiting = FALSE /\ fresh.soft = FALSE /\ fresh.notified = FALSE
        /\ fresh.out = s.out /\ fresh.decoder = s.decoder
    BY <1>6 DEF Same, Fields, EmitFields, HandFields, RecoveryFields, NotifyFields
  <2> HIDE DEF fresh
  <2>3. /\ Base(u) /\ u.waiting = FALSE /\ u.soft = FALSE /\ u.notified = FALSE
        /\ Emitted(fresh, u, Event("show", f.ts, Hand(fresh.decoder, f, key)))
    <3> DEFINE then == Hand(fresh.decoder, f, key)
    <3>1. u = Emit(fresh, "show", f.ts, then) /\ DOMAIN fresh = Fields
      BY <2>1, <2>2 DEF Same
    <3> HIDE DEF then
    <3>2. Same(fresh, u, EmitFields) /\ Emitted(fresh, u, Event("show", f.ts, then))
      BY <3>1, EmitEffect
    <3>3. /\ Base(u)
          /\ u.waiting = FALSE /\ u.soft = fresh.soft /\ u.notified = fresh.notified
      BY <2>2, <3>2 DEF Same, Fields, EmitFields, HandFields, RecoveryFields, NotifyFields
    <3> QED
      BY <2>2, <3>2, <3>3 DEF then
  <2>4. Hand(fresh.decoder, f, key) = Hand(s.decoder, f, TRUE)
    BY <1>9, <2>2 DEF Hand
  <2>5. KeyShown(s, u, f)
    BY <1>9, <2>2, <2>3, <2>4 DEF KeyShown, Emitted
  <2> QED
    BY <2>3, <2>5 DEF HandOnEffect, mark, left
<1>10. CASE ~key /\ ~s.waiting
  <2>1. u = Shown(told)
    BY <1>1, <1>10
  <2>2. /\ Base(told) /\ told.waiting = FALSE /\ told.soft \in BOOLEAN
        /\ \/ Asking(s, told) /\ told.notified = TRUE
           \/ /\ hole = FALSE /\ told.out = s.out /\ told.decoder = s.decoder
              /\ told.notified = FALSE /\ told.soft = FALSE
    <3>0. DOMAIN live = Fields /\ live.notified \in BOOLEAN
      BY <1>6 DEF Same
    <3>1. CASE hole
      <4>1. told = RequestSoftRecovery(live, t)
        BY <1>10, <3>1
      <4> HIDE DEF told
      <4>2. Same(live, told, NotifyFields \cup {"soft"}) /\ told.soft = TRUE /\ told.notified = TRUE /\ Asking(live, told)
        BY <3>0, <4>1, SoftRecoveryEffect
      <4>3. Asking(s, told)
        BY <1>6, <4>2 DEF Asking, Emitted
      <4>4. Base(told) /\ told.waiting = FALSE
        BY <1>6, <4>2 DEF Same, Fields, EmitFields, HandFields, RecoveryFields, NotifyFields
      <4> QED
        BY <4>2, <4>3, <4>4
    <3>2. CASE ~hole /\ live.soft
      <4>1. told = NotifyRecovery(live, t, FALSE)
        BY <1>10, <3>2
      <4> HIDE DEF told
      <4>2. Same(live, told, NotifyFields) /\ told.notified = TRUE /\ Asking(live, told)
        BY <3>0, <4>1, NotifyEffect
      <4>3. Asking(s, told)
        BY <1>6, <4>2 DEF Asking, Emitted
      <4>4. Base(told) /\ told.waiting = FALSE /\ told.soft = s.soft
        BY <1>6, <4>2 DEF Same, Fields, EmitFields, HandFields, RecoveryFields, NotifyFields
      <4> QED
        BY <4>2, <4>3, <4>4
    <3>3. CASE ~hole /\ ~live.soft
      <4>1. told = calm
        BY <1>10, <3>3
      <4>2. /\ Base(calm) /\ calm.waiting = FALSE /\ calm.notified = FALSE /\ calm.soft = s.soft
            /\ calm.out = s.out /\ calm.decoder = s.decoder
        BY <1>6 DEF Same, Fields, EmitFields, HandFields, RecoveryFields, NotifyFields
      <4> HIDE DEF told, calm
      <4> QED
        BY <1>6, <3>3, <4>1, <4>2
    <3> QED
      BY <3>1, <3>2, <3>3
  <2> HIDE DEF told
  <2>3. /\ Base(u) /\ u.waiting = FALSE /\ u.soft = told.soft /\ u.notified = told.notified
        /\ Emitted(told, u, Event("show", f.ts, Hand(told.decoder, f, key)))
    <3> DEFINE then == Hand(told.decoder, f, key)
    <3>1. u = Emit(told, "show", f.ts, then) /\ DOMAIN told = Fields
      BY <2>1, <2>2 DEF Same
    <3> HIDE DEF then
    <3>2. Same(told, u, EmitFields) /\ Emitted(told, u, Event("show", f.ts, then))
      BY <3>1, EmitEffect
    <3>3. /\ Base(u)
          /\ u.waiting = FALSE /\ u.soft = told.soft /\ u.notified = told.notified
      BY <2>2, <3>2 DEF Same, Fields, EmitFields, HandFields, RecoveryFields, NotifyFields
    <3> QED
      BY <2>2, <3>2, <3>3 DEF then
  <2>4. Hand(told.decoder, f, key) = Hand(told.decoder, f, FALSE)
    BY <1>10 DEF Hand
  <2>5. DeltaShown(s, u, f, hole)
    BY <1>10, <2>2, <2>3, <2>4 DEF DeltaShown
  <2> QED
    BY <2>3, <2>5 DEF HandOnEffect, mark, left
<1> QED
  BY <1>7, <1>9, <1>10

-----------------------------------------------------------------------------
(***************************************************************************)
(* Giving up the front frame, an overflow and a new source.                *)
(***************************************************************************)

(* What giving up the front frame changes.                                 *)
GiveUpFields == HandFields \cup NackFields \cup {"softAt"}

(* The frame goes with its ranges, is reported as lost, and a request is   *)
(* made.                                                                   *)
GiveUpEffect(s, u, f) ==
  /\ Same(s, u, GiveUpFields)
  /\ u.frames = s.frames \ {f}
  /\ u.lastTs = f.ts
  /\ u.waiting \in BOOLEAN /\ u.soft \in BOOLEAN /\ u.notified = TRUE
  /\ RangesInv(u)
  /\ Lost(u) <= Lost(s)
  /\ \A r \in u.ranges : r.ts # f.ts /\ \E q \in s.ranges : r.ts = q.ts
  /\ \E m : /\ m.notified = s.notified
            /\ Emitted(s, m, Event("lost", f.ts, s.decoder))
            /\ Asking(m, u)

(* A request by enterRecovery or requestSoftRecovery *)
Requested(s, u) ==
  /\ Same(s, u, RecoveryFields)
  /\ u.waiting \in BOOLEAN /\ u.soft \in BOOLEAN /\ u.notified = TRUE
  /\ Fewer(s, u)
  /\ Asking(s, u)

(* Fewer ranges are sound as before, and lose no more.                     *)
LEMMA FewerRanges ==
  ASSUME NEW s, NEW u, RangesInv(s), Same(s, u, RecoveryFields), Fewer(s, u)
  PROVE  RangesInv(u) /\ Lost(u) <= Lost(s)
<1>1. u.highest = s.highest /\ u.windowSent = s.windowSent /\ u.unrecovered = s.unrecovered
      /\ u.detected = s.detected
  BY DEF Same, RecoveryFields, NotifyFields, EmitFields, Fields
<1>2. Cardinality(Covered(s.ranges)) \in Nat /\ Cardinality(Covered(u.ranges)) \in Nat
  BY CoveredFinite DEF RangesInv, Fewer
<1>3. RangesInv(u)
  BY <1>1 DEF RangesInv, Fewer
<1>4. Lost(u) <= Lost(s)
  BY <1>1, <1>2 DEF RangesInv, Fewer, Lost
<1> QED
  BY <1>3, <1>4

(* enterRecovery is a request.                                             *)
LEMMA RequestedRecovery ==
  ASSUME NEW s, DOMAIN s = Fields, RangesInv(s), s.notified \in BOOLEAN,
         NEW t, NEW ts, NEW reset \in BOOLEAN, NEW u, u = EnterRecovery(s, t, ts, reset)
  PROVE  Requested(s, u) /\ u.waiting = TRUE /\ u.soft = FALSE
BY EnterRecoveryEffect DEF Requested

(* requestSoftRecovery is a request, and holds nothing back.               *)
LEMMA RequestedSoft ==
  ASSUME NEW s, DOMAIN s = Fields, RangesInv(s), s.notified \in BOOLEAN,
         s.waiting \in BOOLEAN, NEW t, NEW u, u = RequestSoftRecovery(s, t)
  PROVE  Requested(s, u) /\ u.waiting = s.waiting
<1>1. /\ Same(s, u, NotifyFields \cup {"soft"})
      /\ u.soft = TRUE /\ u.notified = TRUE
      /\ Asking(s, u)
  BY SoftRecoveryEffect
<1>2. /\ Same(s, u, RecoveryFields) /\ u.waiting = s.waiting /\ u.ranges = s.ranges
  BY <1>1 DEF Same, RecoveryFields, NotifyFields, EmitFields, Fields
<1>3. Fewer(s, u)
  <2>1. Cardinality(Covered(s.ranges)) \in Nat
    BY CoveredFinite DEF RangesInv
  <2> QED
    BY <1>2, <2>1 DEF Fewer, RangesInv
<1> QED
  BY <1>1, <1>2, <1>3 DEF Requested

(* Giving up, whatever made the buffer give up.                            *)
LEMMA GiveUpCases ==
  ASSUME NEW s, DOMAIN s = Fields, RangesInv(s), s.notified \in BOOLEAN,
         s.waiting \in BOOLEAN, s.soft \in BOOLEAN, s.decoder \in Decoders,
         NEW t, NEW invalid \in BOOLEAN, NEW u, u = GiveUp(s, t, invalid), NEW f, f = Front(s)
  PROVE  GiveUpEffect(s, u, f) /\ (s.waiting => u.waiting)
<1> DEFINE a == AbandonNacks(s, f.ts)
           last == LastOf({k.seq : k \in f.packets})
           place == [a EXCEPT !.lastTs = f.ts, !.lastSeq = last]
           popped == PopFrame(place)
           gone == Emit(popped, "lost", f.ts, s.decoder)
           idle == IdleTimeout(s, f, t)
           hard == invalid \/ HardTimeout(f, t) \/ s.waiting \/ HasKey(f)
           loss == ~hard /\ idle
           noted == IF loss THEN NoteSoftLoss(gone, t) ELSE gone
           again == loss /\ noted.softCount >= 2
           deep == hard \/ again
<1>1. u = IF deep THEN EnterRecovery(noted, t, f.ts, invalid) ELSE RequestSoftRecovery(noted, t)
  BY DEF GiveUp
<1>2. NackStep(s, a) /\ a.ranges = s.ranges \ RangesOf(s, f.ts)
  BY AbandonStep
<1> HIDE DEF a, last
<1>3. /\ DOMAIN a = Fields /\ RangesInv(a) /\ a.frames = s.frames /\ a.waiting = s.waiting
      /\ a.soft = s.soft /\ a.notified = s.notified /\ a.out = s.out /\ a.decoder = s.decoder
  BY <1>2 DEF NackStep, Same, NackFields, Fields
<1>4. /\ Same(a, place, {"lastTs", "lastSeq"}) /\ place.lastTs = f.ts /\ place.frames = s.frames
  BY <1>3 DEF Same, Fields
<1> HIDE DEF place
<1>5. Front(place) = f
  BY <1>4 DEF Front
<1>6. /\ Same(a, popped, {"lastTs", "lastSeq", "frames"}) /\ popped.lastTs = f.ts
      /\ popped.frames = s.frames \ {f} /\ popped.out = s.out
  BY <1>3, <1>4, <1>5 DEF Same, Fields, PopFrame
<1> HIDE DEF popped
<1>7. Same(popped, gone, EmitFields) /\ Emitted(popped, gone, Event("lost", f.ts, s.decoder))
  BY <1>6, EmitEffect DEF Same
<1> HIDE DEF gone
<1>8. /\ Same(gone, noted, {"softAt", "softCount"}) /\ noted.out = gone.out /\ noted.decoder = gone.decoder
  <2>1. DOMAIN gone = Fields
    BY <1>7 DEF Same
  <2>2. Same(gone, NoteSoftLoss(gone, t), {"softAt", "softCount"})
        /\ NoteSoftLoss(gone, t).out = gone.out /\ NoteSoftLoss(gone, t).decoder = gone.decoder
    <3> DEFINE n == IF gone.softAt > 0 /\ t - gone.softAt <= SoftWindow THEN gone.softCount + 1 ELSE 1
    <3>1. NoteSoftLoss(gone, t) = [gone EXCEPT !.softAt = t, !.softCount = n]
      BY DEF NoteSoftLoss
    <3> HIDE DEF n
    <3> QED
      BY <2>1, <3>1 DEF Same, Fields
  <2>3. noted = NoteSoftLoss(gone, t) \/ noted = gone
    OBVIOUS
  <2> HIDE DEF noted
  <2> QED
    BY <2>1, <2>2, <2>3 DEF Same
<1>12. hard \in BOOLEAN /\ (s.waiting => hard) /\ (hard => deep)
  OBVIOUS
<1> HIDE DEF noted, hard
<1>9. /\ Same(a, noted, {"lastTs", "lastSeq", "frames", "softAt", "softCount"} \cup EmitFields)
      /\ noted.lastTs = f.ts /\ noted.frames = s.frames \ {f} /\ noted.ranges = a.ranges
      /\ noted.waiting = s.waiting /\ noted.soft = s.soft /\ noted.notified = s.notified
      /\ noted.highest = a.highest /\ noted.windowSent = a.windowSent
      /\ noted.unrecovered = a.unrecovered /\ noted.detected = a.detected
  BY <1>3, <1>6, <1>7, <1>8 DEF Same, EmitFields, Fields
<1>10. Emitted(s, noted, Event("lost", f.ts, s.decoder))
  BY <1>6, <1>7, <1>8 DEF Emitted
<1>11. DOMAIN noted = Fields /\ RangesInv(noted) /\ Lost(noted) = Lost(a)
       /\ noted.notified \in BOOLEAN /\ noted.waiting \in BOOLEAN
  BY <1>3, <1>9 DEF Same, RangesInv, Lost
<1>13. Requested(noted, u) /\ (s.waiting => u.waiting)
  <2>1. CASE deep
    <3>1. u = EnterRecovery(noted, t, f.ts, invalid)
      BY <1>1, <2>1
    <3>2. Requested(noted, u) /\ u.waiting = TRUE
      BY <1>11, <3>1, RequestedRecovery
    <3> QED
      BY <3>2
  <2>2. CASE ~deep
    <3>1. u = RequestSoftRecovery(noted, t)
      BY <1>1, <2>2
    <3>2. Requested(noted, u) /\ u.waiting = noted.waiting
      BY <1>11, <3>1, RequestedSoft
    <3> QED
      BY <1>12, <2>2, <3>2
  <2> QED
    BY <2>1, <2>2
<1>14. RangesInv(u) /\ Lost(u) <= Lost(noted)
  BY <1>11, <1>13, FewerRanges DEF Requested
<1>15. Lost(u) <= Lost(s)
  <2>1. Lost(u) \in Nat /\ Lost(noted) \in Nat /\ Lost(s) \in Nat
    BY <1>11, <1>14, CoveredFinite DEF RangesInv, Lost
  <2> QED
    BY <1>2, <1>11, <1>14, <2>1 DEF NackStep
<1>16. Same(s, u, GiveUpFields) /\ u.frames = s.frames \ {f} /\ u.lastTs = f.ts
  BY <1>2, <1>9, <1>13 DEF NackStep, Requested, Same, GiveUpFields, HandFields, RecoveryFields,
     NotifyFields, EmitFields, NackFields, Fields
<1>17. \A r \in u.ranges : r.ts # f.ts /\ \E q \in s.ranges : r.ts = q.ts
  BY <1>2, <1>9, <1>13 DEF Requested, Fewer, RangesOf
<1> QED
  BY <1>9, <1>10, <1>13, <1>14, <1>15, <1>16, <1>17 DEF GiveUpEffect, Requested

(* What an overflow changes.                                               *)
OverflowFields == RecoveryFields \cup NackFields \cup {"frames"}

(* The newest frame that an overflow discards.                             *)
NewestGone(s, ts) == LastOf({f.ts : f \in s.frames} \cup {ts, s.decoder.forgotten})

(* An overflow leaves no frame and no range, and asks for a key frame.     *)
OverflowEffect(s, u, ts) ==
  /\ Same(s, u, OverflowFields)
  /\ u.frames = {} /\ u.ranges = {}
  /\ u.waiting = TRUE /\ u.soft = FALSE /\ u.notified = TRUE
  /\ RangesInv(u)
  /\ Lost(u) <= Lost(s)
  /\ \E m : /\ m.notified = s.notified
            /\ Emitted(s, m, Event("forgot", NewestGone(s, ts), [s.decoder EXCEPT !.forgotten = NewestGone(s, ts)]))
            /\ Asking(m, u)

(* overflow() has that effect.                                             *)
LEMMA OverflowCases ==
  ASSUME NEW s, DOMAIN s = Fields, RangesInv(s), s.notified \in BOOLEAN,
         NEW ts, NEW t, NEW u, u = Overflow(s, ts, t)
  PROVE  OverflowEffect(s, u, ts)
<1> DEFINE newest == NewestGone(s, ts)
           then == [s.decoder EXCEPT !.forgotten = newest]
           bare == [s EXCEPT !.frames = {}]
           clear == ClearNacks(bare)
           gone == Emit(clear, "forgot", newest, then)
<1>1. u = EnterRecovery(gone, t, 0, TRUE)
  BY DEF Overflow, NewestGone
<1> HIDE DEF newest, then
<1>2. /\ Same(s, bare, {"frames"}) /\ bare.frames = {} /\ bare.ranges = s.ranges
      /\ bare.highest = s.highest /\ bare.windowSent = s.windowSent
      /\ bare.unrecovered = s.unrecovered /\ bare.detected = s.detected
  BY DEF Same, Fields
<1> HIDE DEF bare
<1>3. RangesInv(bare) /\ Lost(bare) = Lost(s)
  BY <1>2 DEF RangesInv, Lost
<1>4. NackStep(bare, clear) /\ clear.ranges = {}
  BY <1>2, <1>3, ClearStep DEF Same
<1> HIDE DEF clear
<1>5. Same(clear, gone, EmitFields) /\ Emitted(clear, gone, Event("forgot", newest, then))
  BY <1>4, EmitEffect DEF NackStep, Same
<1> HIDE DEF gone
<1>6. /\ gone.ranges = {} /\ gone.frames = {} /\ gone.notified = s.notified /\ clear.out = s.out
      /\ gone.highest = clear.highest /\ gone.windowSent = clear.windowSent /\ gone.ranges = clear.ranges
      /\ gone.unrecovered = clear.unrecovered /\ gone.detected = clear.detected
  BY <1>2, <1>4, <1>5 DEF NackStep, Same, NackFields, EmitFields, Fields
<1>7. RangesInv(gone) /\ Lost(gone) = Lost(clear) /\ DOMAIN gone = Fields /\ gone.notified \in BOOLEAN
  BY <1>4, <1>5, <1>6 DEF NackStep, RangesInv, Lost, Same
<1>8. Requested(gone, u) /\ u.waiting = TRUE /\ u.soft = FALSE
  BY <1>1, <1>7, RequestedRecovery
<1>9. RangesInv(u) /\ Lost(u) <= Lost(gone)
  BY <1>7, <1>8, FewerRanges DEF Requested
<1>10. Lost(u) <= Lost(s)
  <2>1. Lost(u) \in Nat /\ Lost(gone) \in Nat /\ Lost(s) \in Nat
    BY <1>7, <1>9, CoveredFinite DEF RangesInv, Lost
  <2> QED
    BY <1>3, <1>4, <1>7, <1>9, <2>1 DEF NackStep
<1>11. u.ranges = {}
  BY <1>6, <1>8 DEF Requested, Fewer
<1>12. Same(s, u, OverflowFields) /\ u.frames = {}
  BY <1>2, <1>4, <1>5, <1>6, <1>8 DEF NackStep, Requested, Same, OverflowFields, RecoveryFields,
     NotifyFields, EmitFields, NackFields, Fields
<1>13. Emitted(s, gone, Event("forgot", newest, then))
  BY <1>5, <1>6 DEF Emitted
<1> QED
  BY <1>6, <1>8, <1>9, <1>10, <1>11, <1>12, <1>13 DEF OverflowEffect, Requested, newest, then

(* A buffer that has just begun with a source *)
Begun(u) ==
  /\ u.frames = {} /\ u.ranges = {} /\ u.received = {} /\ u.have = FALSE
  /\ u.highest = 0 /\ u.unique = 0 /\ u.waiting = TRUE /\ u.lastTs = 0 /\ u.soft = FALSE
  /\ u.windowSent = 0

(* A new source: the totals stay, and a key frame is asked for.            *)
RestartEffect(s, u, ssrc) ==
  /\ DOMAIN u = Fields
  /\ Begun(u)
  /\ u.ssrc = ssrc
  /\ u.notified = TRUE
  /\ u.unrecovered = s.unrecovered /\ u.detected = s.detected
  /\ \E m : /\ Emitted(s, m, Event("restart", 0, NoPicture))
            /\ Emitted(m, u, Event("ask", 0, [NoPicture EXCEPT !.asked = TRUE]))

(* The source of a packet is the first one, the same one or a new one.     *)
LEMMA ChangeSourceCases ==
  ASSUME NEW s, DOMAIN s = Fields, NEW t, NEW ssrc, NEW u, u = ChangeSource(s, t, ssrc)
  PROVE  \/ s.ssrc = None /\ Same(s, u, {"ssrc"}) /\ u.ssrc = ssrc
         \/ s.ssrc = ssrc /\ u = s
         \/ s.ssrc # None /\ s.ssrc # ssrc /\ RestartEffect(s, u, ssrc)
<1>1. CASE s.ssrc = None
  BY <1>1 DEF ChangeSource, Same, Fields
<1>2. CASE s.ssrc # None /\ s.ssrc = ssrc
  BY <1>2 DEF ChangeSource
<1>3. CASE s.ssrc # None /\ s.ssrc # ssrc
  <2> DEFINE e == ForSource(s, ssrc)
             m == Emit(e, "restart", 0, NoPicture)
  <2>1. u = NotifyRecovery(m, t, TRUE)
    BY <1>3 DEF ChangeSource
  <2>2. /\ DOMAIN e = Fields /\ Begun(e) /\ e.ssrc = ssrc /\ e.notified = FALSE
        /\ e.unrecovered = s.unrecovered /\ e.detected = s.detected /\ e.out = s.out
    BY DEF ForSource, EmptyBuffer, Fields, Begun
  <2> HIDE DEF e
  <2>3. Same(e, m, EmitFields) /\ Emitted(e, m, Event("restart", 0, NoPicture))
    BY <2>2, EmitEffect
  <2> HIDE DEF m
  <2>4. DOMAIN m = Fields /\ m.notified = FALSE
    BY <2>2, <2>3 DEF Same, EmitFields, Fields
  <2>5. Same(m, u, NotifyFields) /\ u.notified = TRUE /\ Asking(m, u)
    BY <2>1, <2>4, NotifyEffect
  <2>6. Emitted(m, u, Event("ask", 0, [NoPicture EXCEPT !.asked = TRUE]))
    <3>1. m.decoder = NoPicture
      BY <2>3 DEF Emitted, Event
    <3> QED
      BY <2>4, <2>5, <3>1 DEF Asking
  <2>7. Emitted(s, m, Event("restart", 0, NoPicture))
    BY <2>2, <2>3 DEF Emitted
  <2>8. Begun(u) /\ u.ssrc = ssrc /\ u.unrecovered = s.unrecovered /\ u.detected = s.detected /\ DOMAIN u = Fields
    BY <2>2, <2>3, <2>5 DEF Same, Begun, NotifyFields, EmitFields, Fields
  <2> QED
    BY <1>3, <2>5, <2>6, <2>7, <2>8 DEF RestartEffect
<1> QED
  BY <1>1, <1>2, <1>3

-----------------------------------------------------------------------------
(***************************************************************************)
(* The buffer is sound: its bounds hold, a request is under way whenever   *)
(* something is frozen, and no range asks for the packets of a frame that  *)
(* went during this call.  Draining keeps it so.                           *)
(***************************************************************************)

(* A frame in progress, and the packets of some frames.                    *)
FrameFields == {"ts", "seen", "progress", "packets"}
Packets(F) == UNION {f.packets : f \in F}

(* The bounds on frames and packets.                                       *)
FramesInv(s) ==
  /\ \A f \in s.frames : DOMAIN f = FrameFields /\ f.ts \in Nat \ {0}
  /\ IsFiniteSet(s.frames) /\ Cardinality(s.frames) <= MaxFrames
  /\ IsFiniteSet(Packets(s.frames)) /\ Cardinality(Packets(s.frames)) <= MaxPackets

(* The values that the members have.                                       *)
Typed(s) ==
  /\ DOMAIN s = Fields
  /\ s.have \in BOOLEAN /\ s.waiting \in BOOLEAN /\ s.notified \in BOOLEAN /\ s.soft \in BOOLEAN
  /\ s.lastTs \in Nat /\ s.highest \in Nat /\ s.unique \in Nat
  /\ s.have = FALSE => s.ranges = {} /\ s.frames = {}

(* What is frozen has asked: a throttled request is one that is under way. *)
AskedInv(s) ==
  /\ s.notified = TRUE => s.decoder.asked = TRUE
  /\ s.soft = TRUE => s.decoder.asked = TRUE
  /\ s.waiting = TRUE /\ s.lastTs # 0 => s.notified = TRUE

(* No range of a frame that went during this call.                         *)
GoneInv(s) ==
  \A e \in Told(s), r \in s.ranges : e.kind \in {"show", "lost"} => r.ts # e.ts

(* The invariant of the first layer; d is what the decoder has now.        *)
Sound(s, d) ==
  /\ Typed(s)
  /\ RangesInv(s) /\ Lost(s) <= s.detected
  /\ FramesInv(s)
  /\ AskedInv(s)
  /\ GoneInv(s)
  /\ Queued(s, d)

(* Some of the frames are within the bounds.                               *)
LEMMA FewerFrames ==
  ASSUME NEW s, FramesInv(s), NEW u, u.frames \subseteq s.frames
  PROVE  FramesInv(u)
<1>1. Packets(u.frames) \subseteq Packets(s.frames)
  BY DEF Packets
<1>2. IsFiniteSet(u.frames) /\ Cardinality(u.frames) <= Cardinality(s.frames)
      /\ Cardinality(u.frames) \in Nat /\ Cardinality(s.frames) \in Nat
  BY FS_Subset, FS_CardinalityType DEF FramesInv
<1>3. IsFiniteSet(Packets(u.frames)) /\ Cardinality(Packets(u.frames)) <= Cardinality(Packets(s.frames))
      /\ Cardinality(Packets(u.frames)) \in Nat /\ Cardinality(Packets(s.frames)) \in Nat
  BY <1>1, FS_Subset, FS_CardinalityType DEF FramesInv
<1> QED
  BY <1>2, <1>3, SizeAssumption DEF FramesInv

(* The front frame is the oldest one.                                      *)
LEMMA FrontIsIn ==
  ASSUME NEW s, FramesInv(s), s.frames # {}
  PROVE  Front(s) \in s.frames /\ \A g \in s.frames : Front(s).ts <= g.ts
<1> DEFINE T == {f.ts : f \in s.frames}
<1>1. T \in SUBSET Nat /\ T # {}
  BY DEF FramesInv
<1>2. PICK x \in T : \A y \in T : x <= y
  <2> HIDE DEF T
  <2> QED
    BY <1>1, NatLeast
<1>3. \E f \in s.frames : \A g \in s.frames : f.ts <= g.ts
  BY <1>2
<1> QED
  BY <1>3 DEF Front

(* A request changes nothing else that the decoder has.                    *)
LEMMA AskedDecoder ==
  ASSUME NEW d \in Decoders
  PROVE  /\ [d EXCEPT !.asked = TRUE] \in Decoders
         /\ [d EXCEPT !.asked = TRUE].asked = TRUE
         /\ d.asked = TRUE => [d EXCEPT !.asked = TRUE] = d
BY DEF Decoders

(* After a request the decoder will have asked.                            *)
LEMMA AskingQueue ==
  ASSUME NEW m, NEW u, NEW d, Queued(m, d), Asking(m, u),
         m.notified = TRUE => m.decoder.asked = TRUE
  PROVE  /\ Queued(u, d)
         /\ u.decoder = [m.decoder EXCEPT !.asked = TRUE]
         /\ u.decoder.asked = TRUE
         /\ \A e \in Told(u) : e \in Told(m) \/ e.kind = "ask"
<1>0. m.decoder \in Decoders /\ m.out \in Seq(Events)
  BY DEF Queued
<1>1. CASE m.notified = TRUE /\ u.out = m.out /\ u.decoder = m.decoder
  <2>1. Queued(u, d) /\ Told(u) = Told(m)
    BY <1>1 DEF Queued, Told
  <2> QED
    BY <1>0, <1>1, <2>1, AskedDecoder
<1>2. CASE Emitted(m, u, Event("ask", 0, [m.decoder EXCEPT !.asked = TRUE]))
  <2> DEFINE then == [m.decoder EXCEPT !.asked = TRUE]
             e == Event("ask", 0, then)
  <2>1. then \in Decoders /\ then.asked = TRUE
    BY <1>0, AskedDecoder
  <2> HIDE DEF then
  <2>2. e \in Events /\ e.kind = "ask" /\ e.then = then
    BY <2>1 DEF Event, Events, Kinds
  <2>3. Emitted(m, u, e)
    BY <1>2 DEF then
  <2> HIDE DEF e
  <2>4. Queued(u, d) /\ Told(u) = Told(m) \cup {e} /\ u.decoder = then
    BY <1>0, <2>2, <2>3, EmittedQueue DEF Emitted
  <2> QED
    BY <2>1, <2>2, <2>4 DEF then
<1> QED
  BY <1>1, <1>2 DEF Asking

(* After a callback the decoder will have what it says.                    *)
LEMMA EventQueue ==
  ASSUME NEW s, NEW d, Queued(s, d), NEW u, NEW kind \in Kinds, NEW ts \in Nat,
         NEW then \in Decoders, Emitted(s, u, Event(kind, ts, then))
  PROVE  /\ Queued(u, d)
         /\ u.decoder = then
         /\ \A e \in Told(u) : e \in Told(s) \/ (e.kind = kind /\ e.ts = ts)
<1> DEFINE e == Event(kind, ts, then)
<1>1. e \in Events /\ e.kind = kind /\ e.ts = ts /\ e.then = then
  BY DEF Event, Events
<1> HIDE DEF e
<1>2. Emitted(s, u, e)
  BY DEF e
<1>3. Queued(u, d) /\ Told(u) = Told(s) \cup {e}
  BY <1>1, <1>2, EmittedQueue DEF Queued
<1> QED
  BY <1>1, <1>2, <1>3 DEF Emitted

(* What handing a frame on does to what the decoder has.                   *)
LEMMA HandDecoder ==
  ASSUME NEW d \in Decoders, NEW f, f.ts \in Nat, NEW key \in BOOLEAN
  PROVE  /\ Hand(d, f, key) \in Decoders
         /\ Hand(d, f, key).shown = f.ts
         /\ Hand(d, f, key).forgotten = d.forgotten
         /\ Hand(d, f, key).asked = (d.asked /\ ~key)
         /\ Hand(d, f, key).chain =
              IF key THEN "whole" ELSE IF f.ts = d.shown + 1 /\ WholeFrame(f) THEN d.chain ELSE "broken"
BY DEF Hand, Decoders

(* Handing on keeps the buffer sound.                                      *)
LEMMA HandOnSound ==
  ASSUME NEW s, NEW d, Sound(s, d), s.frames # {}, NEW t, NEW hole \in BOOLEAN,
         NEW u, u = HandOn(s, t, hole)
  PROVE  Sound(u, d)
<1> DEFINE f == Front(s)
<1>0. f \in s.frames /\ f.ts \in Nat \ {0}
  BY FrontIsIn DEF Sound, FramesInv
<1>1. /\ HandOnEffect(s, u, f, hole)
      /\ Withheld(s, u, f) \/ KeyShown(s, u, f) \/ DeltaShown(s, u, f, hole)
  BY HandOnCases DEF Sound, Typed, Queued
<1> HIDE DEF f
<1>2. /\ u.have = s.have /\ u.highest = s.highest /\ u.unique = s.unique /\ DOMAIN u = Fields
      /\ u.windowSent = s.windowSent /\ u.unrecovered = s.unrecovered /\ u.detected = s.detected
      /\ u.lastTs = f.ts /\ u.frames = s.frames \ {f}
      /\ u.ranges = {r \in s.ranges : r.ts # f.ts}
  BY <1>1 DEF HandOnEffect, Same, HandFields, RecoveryFields, NotifyFields, EmitFields, Fields, RangesOf
<1>3. RangesInv(u) /\ Lost(u) <= u.detected
  <2>1. u.ranges \in SUBSET s.ranges /\ RangesOK(s.ranges, s.highest)
    BY <1>2 DEF Sound, RangesInv
  <2>2. RangesOK(u.ranges, s.highest) /\ Cardinality(Covered(u.ranges)) <= Cardinality(Covered(s.ranges))
    BY <2>1, RangesKept
  <2>3. Cardinality(Covered(s.ranges)) \in Nat /\ Cardinality(Covered(u.ranges)) \in Nat
    BY <2>1, <2>2, CoveredFinite
  <2> QED
    BY <1>2, <2>2, <2>3 DEF Sound, RangesInv, Lost
<1>4. FramesInv(u)
  BY <1>2, FewerFrames DEF Sound
<1>5. s.decoder \in Decoders /\ Queued(s, d) /\ (s.notified = TRUE => s.decoder.asked = TRUE)
  BY DEF Sound, Queued, AskedInv
<1>6. /\ u.waiting \in BOOLEAN /\ u.notified \in BOOLEAN /\ u.soft \in BOOLEAN
      /\ AskedInv(u) /\ Queued(u, d)
      /\ \A e \in Told(u) : e \in Told(s) \/ e.kind = "ask" \/ (e.kind = "show" /\ e.ts = f.ts)
  <2>1. CASE Withheld(s, u, f)
    <3>1. /\ Queued(u, d) /\ u.decoder.asked = TRUE
          /\ \A e \in Told(u) : e \in Told(s) \/ e.kind = "ask"
      BY <1>5, <2>1, AskingQueue DEF Withheld
    <3> QED
      BY <2>1, <3>1 DEF Withheld, AskedInv, Sound, Typed
  <2>2. CASE KeyShown(s, u, f)
    <3>1. Hand(s.decoder, f, TRUE) \in Decoders
      BY <1>0, <1>5, HandDecoder
    <3>2. /\ Queued(u, d)
          /\ \A e \in Told(u) : e \in Told(s) \/ (e.kind = "show" /\ e.ts = f.ts)
      <4> DEFINE then == Hand(s.decoder, f, TRUE)
      <4>1. "show" \in Kinds /\ f.ts \in Nat /\ then \in Decoders /\ Emitted(s, u, Event("show", f.ts, then))
        BY <1>0, <2>2, <3>1 DEF KeyShown, Kinds
      <4> HIDE DEF then
      <4> QED
        BY <1>5, <4>1, EventQueue
    <3> QED
      BY <2>2, <3>2 DEF KeyShown, AskedInv
  <2>3. CASE DeltaShown(s, u, f, hole)
    <3>1. PICK m : /\ \/ Asking(s, m) /\ u.notified = TRUE
                      \/ /\ hole = FALSE /\ m.out = s.out /\ m.decoder = s.decoder
                         /\ u.notified = FALSE /\ u.soft = FALSE
                   /\ Emitted(m, u, Event("show", f.ts, Hand(m.decoder, f, FALSE)))
      BY <2>3 DEF DeltaShown
    <3>2. /\ Queued(m, d) /\ m.decoder \in Decoders
          /\ \A e \in Told(m) : e \in Told(s) \/ e.kind = "ask"
          /\ u.notified \in BOOLEAN
          /\ u.notified = TRUE \/ u.soft = TRUE => m.decoder.asked = TRUE
      <4>1. CASE Asking(s, m) /\ u.notified = TRUE
        <5>1. /\ Queued(m, d) /\ m.decoder.asked = TRUE
              /\ \A e \in Told(m) : e \in Told(s) \/ e.kind = "ask"
          BY <1>5, <4>1, AskingQueue
        <5>2. m.decoder \in Decoders
          BY <5>1 DEF Queued
        <5> QED
          BY <4>1, <5>1, <5>2
      <4>2. CASE /\ hole = FALSE /\ m.out = s.out /\ m.decoder = s.decoder
                 /\ u.notified = FALSE /\ u.soft = FALSE
        BY <1>5, <4>2 DEF Queued, Told
      <4> QED
        BY <3>1, <4>1, <4>2
    <3> DEFINE then == Hand(m.decoder, f, FALSE)
    <3>3. then \in Decoders /\ then.asked = (m.decoder.asked /\ ~FALSE)
      BY <1>0, <3>2, HandDecoder
    <3>4. Emitted(m, u, Event("show", f.ts, then)) /\ "show" \in Kinds /\ f.ts \in Nat
      BY <1>0, <3>1 DEF Kinds
    <3> HIDE DEF then
    <3>5. /\ Queued(u, d) /\ u.decoder = then
          /\ \A e \in Told(u) : e \in Told(m) \/ (e.kind = "show" /\ e.ts = f.ts)
      BY <3>2, <3>3, <3>4, EventQueue
    <3>6. u.waiting = FALSE /\ u.soft \in BOOLEAN
      BY <2>3 DEF DeltaShown
    <3>7. AskedInv(u)
      BY <3>2, <3>3, <3>5, <3>6 DEF AskedInv, Decoders
    <3> QED
      BY <3>2, <3>5, <3>6, <3>7
  <2> QED
    BY <1>1, <2>1, <2>2, <2>3
<1>7. GoneInv(u)
  BY <1>2, <1>6 DEF GoneInv, Sound
<1>8. Typed(u)
  BY <1>0, <1>2, <1>6 DEF Typed, Sound
<1> QED
  BY <1>3, <1>4, <1>6, <1>7, <1>8 DEF Sound

(* Giving up keeps it sound.                                               *)
LEMMA GiveUpSound ==
  ASSUME NEW s, NEW d, Sound(s, d), s.frames # {}, NEW t, NEW invalid \in BOOLEAN,
         NEW u, u = GiveUp(s, t, invalid)
  PROVE  Sound(u, d)
<1> DEFINE f == Front(s)
<1>0. f \in s.frames /\ f.ts \in Nat \ {0}
  BY FrontIsIn DEF Sound, FramesInv
<1>1. GiveUpEffect(s, u, f)
  BY GiveUpCases DEF Sound, Typed, Queued
<1> HIDE DEF f
<1>2. /\ u.have = s.have /\ u.highest = s.highest /\ u.unique = s.unique /\ DOMAIN u = Fields
      /\ u.detected = s.detected
      /\ u.lastTs = f.ts /\ u.frames = s.frames \ {f}
  BY <1>1 DEF GiveUpEffect, Same, GiveUpFields, HandFields, RecoveryFields, NotifyFields, EmitFields,
     NackFields, Fields
<1>3. RangesInv(u) /\ Lost(u) <= u.detected
  <2>1. Lost(u) \in Nat /\ Lost(s) \in Nat /\ u.detected \in Nat
    BY <1>1, CoveredFinite DEF Sound, GiveUpEffect, RangesInv, Lost
  <2> QED
    BY <1>1, <1>2, <2>1 DEF GiveUpEffect, Sound
<1>4. FramesInv(u)
  BY <1>2, FewerFrames DEF Sound
<1>5. s.decoder \in Decoders /\ Queued(s, d) /\ (s.notified = TRUE => s.decoder.asked = TRUE)
  BY DEF Sound, Queued, AskedInv
<1>6. PICK m : /\ m.notified = s.notified
               /\ Emitted(s, m, Event("lost", f.ts, s.decoder))
               /\ Asking(m, u)
  BY <1>1 DEF GiveUpEffect
<1>7. /\ Queued(m, d) /\ m.decoder = s.decoder
      /\ \A e \in Told(m) : e \in Told(s) \/ (e.kind = "lost" /\ e.ts = f.ts)
  <2>1. "lost" \in Kinds /\ f.ts \in Nat
    BY <1>0 DEF Kinds
  <2> QED
    BY <1>5, <1>6, <2>1, EventQueue
<1>8. /\ Queued(u, d) /\ u.decoder.asked = TRUE
      /\ \A e \in Told(u) : e \in Told(m) \/ e.kind = "ask"
  BY <1>5, <1>6, <1>7, AskingQueue
<1>9. GoneInv(u)
  BY <1>1, <1>7, <1>8 DEF GoneInv, Sound, GiveUpEffect
<1>10. Typed(u)
  BY <1>0, <1>1, <1>2 DEF Typed, Sound, GiveUpEffect
<1>11. AskedInv(u)
  BY <1>1, <1>8 DEF AskedInv, GiveUpEffect
<1> QED
  BY <1>3, <1>4, <1>8, <1>9, <1>10, <1>11 DEF Sound

(* A round of drain() keeps it sound.                                      *)
LEMMA DrainFrontSound ==
  ASSUME NEW s, NEW d, Sound(s, d), s.frames # {}, NEW t, NEW u, u = DrainFront(s, t)
  PROVE  Sound(u, d)
<1> DEFINE result == Assemble(s, Front(s))
<1>1. \/ u = s
      \/ \E hole \in BOOLEAN : u = HandOn(s, t, hole)
      \/ \E invalid \in BOOLEAN : u = GiveUp(s, t, invalid)
  <2>1. (result = "discontinuous") \in BOOLEAN /\ (result = "invalid") \in BOOLEAN
    OBVIOUS
  <2> HIDE DEF result
  <2> QED
    BY <2>1 DEF DrainFront, result
<1> QED
  BY <1>1, HandOnSound, GiveUpSound

(* So do all rounds together.                                              *)
LEMMA DrainSound ==
  ASSUME NEW s, NEW d, Sound(s, d), NEW t
  PROVE  Sound(Drain(s, t), d)
<1> DEFINE N == Cardinality(s.frames)
<1>1. N \in Nat
  BY FS_CardinalityType DEF Sound, FramesInv
<1>2. PICK g : IsDrain(g, s, t, N) /\ Drain(s, t) = g[N]
  BY <1>1, DrainRounds
<1> HIDE DEF N
<1> DEFINE T == {n \in 0..N : Sound(g[n], d)}
<1>3. g[0] = s
  BY <1>1, <1>2 DEF IsDrain, Round
<1>4. 0 \in T
  BY <1>1, <1>3
<1>5. ASSUME NEW n \in 0..(N - 1), n \in T PROVE n + 1 \in T
  <2>1. n + 1 \in 0..N /\ (n + 1) - 1 = n /\ n + 1 # 0
    BY <1>1
  <2>2. g[n + 1] = IF g[n].frames = {} THEN g[n] ELSE DrainFront(g[n], t)
    BY <1>2, <2>1 DEF IsDrain, Round
  <2>3. Sound(g[n], d)
    BY <1>5
  <2>4. Sound(g[n + 1], d)
    BY <2>2, <2>3, DrainFrontSound
  <2> QED
    BY <2>1, <2>4
<1>6. \A n \in 0..(N - 1) : n \in T => n + 1 \in T
  BY <1>5
<1>7. N \in 0..N
  BY <1>1
<1>8. N \in T
  <2> HIDE DEF T
  <2>1. \A n \in 0..N : n \in T
    BY <1>1, <1>4, <1>6, Interval, Zenon
  <2> QED
    BY <1>7, <2>1
<1> QED
  BY <1>2, <1>8

-----------------------------------------------------------------------------
(***************************************************************************)
(* The parts of receive() before the frame is touched keep it sound, and   *)
(* so does an overflow.                                                    *)
(***************************************************************************)

(* No frame went in this call yet.                                         *)
Quiet(s) == \A e \in Told(s) : e.kind \notin {"show", "lost"}

(* An extended number is a natural one: it never goes below zero.          *)
LEMMA ExtendType ==
  ASSUME NEW s, s.highest \in Nat, NEW seq \in 0..(SeqSpace - 1)
  PROVE  Extend(s, seq) \in Nat
<1> DEFINE low == s.highest % SeqSpace
           near == s.highest - low + seq
           half == SeqSpace \div 2
<1>1. low \in Nat /\ low <= s.highest /\ SeqSpace \in Nat
  BY SizeAssumption
<1>2. Extend(s, seq) = IF seq < low /\ low - seq > half THEN near + SeqSpace
       ELSE IF seq > low /\ seq - low > half /\ near >= SeqSpace THEN near - SeqSpace ELSE near
  BY DEF Extend
<1>3. near \in Nat
  <2> HIDE DEF low
  <2> QED
    BY <1>1
<1> HIDE DEF near, half, low
<1> QED
  BY <1>1, <1>2, <1>3

(* The list of ranges moves on.                                            *)
LEMMA NackSound ==
  ASSUME NEW s, NEW d, Sound(s, d), NEW u, NackStep(s, u)
  PROVE  Sound(u, d) /\ (Quiet(s) => Quiet(u)) /\ u.frames = s.frames /\ u.have = s.have
<1>1. /\ DOMAIN u = Fields /\ u.have = s.have /\ u.waiting = s.waiting /\ u.notified = s.notified
      /\ u.soft = s.soft /\ u.lastTs = s.lastTs /\ u.highest = s.highest /\ u.unique = s.unique
      /\ u.frames = s.frames /\ u.out = s.out /\ u.decoder = s.decoder /\ u.detected = s.detected
  BY DEF NackStep, Same, NackFields, Fields
<1>2. RangesInv(u) /\ Lost(u) <= u.detected
  <2>1. Lost(u) \in Nat /\ Lost(s) \in Nat /\ u.detected \in Nat
    BY CoveredFinite DEF Sound, NackStep, RangesInv, Lost
  <2> QED
    BY <1>1, <2>1 DEF NackStep, Sound
<1>3. Told(u) = Told(s) /\ Queued(u, d) /\ AskedInv(u) /\ FramesInv(u)
  BY <1>1 DEF Told, Queued, AskedInv, FramesInv, Sound
<1>4. GoneInv(u)
  BY <1>3 DEF GoneInv, Sound, NackStep
<1>5. Typed(u)
  <2>1. s.have = FALSE => u.ranges = {}
    BY DEF Typed, Sound, NackStep
  <2> QED
    BY <1>1, <2>1 DEF Typed, Sound
<1> QED
  BY <1>1, <1>2, <1>3, <1>4, <1>5 DEF Sound, Quiet

(* A packet is noted.                                                      *)
LEMMA NoteSound ==
  ASSUME NEW s, NEW d, Sound(s, d), Quiet(s), NEW x \in Nat, NEW ts, NEW u,
         NoteEffect(s, u, x, ts), Noted(s, u, x)
  PROVE  Sound(u, d) /\ Quiet(u) /\ u.have = TRUE
<1>1. /\ DOMAIN u = Fields /\ u.waiting = s.waiting /\ u.notified = s.notified
      /\ u.soft = s.soft /\ u.lastTs = s.lastTs
      /\ u.frames = s.frames /\ u.out = s.out /\ u.decoder = s.decoder
  BY DEF NoteEffect, Same, NoteFields, NackFields, Fields
<1>2. RangesInv(u) /\ Lost(u) <= u.detected
  BY DEF NoteEffect, Sound
<1>3. Told(u) = Told(s) /\ Queued(u, d) /\ AskedInv(u) /\ FramesInv(u)
  BY <1>1 DEF Told, Queued, AskedInv, FramesInv, Sound
<1>4. GoneInv(u)
  BY <1>3 DEF GoneInv, Quiet
<1>5. u.have = TRUE
  BY DEF Noted, Sound, Typed
<1>6. u.highest \in Nat /\ u.unique \in Nat
  BY DEF Noted, NoteEffect, Sound, Typed
<1>7. Typed(u)
  BY <1>1, <1>5, <1>6 DEF Typed, Sound
<1> QED
  BY <1>2, <1>3, <1>4, <1>5, <1>7 DEF Sound, Quiet

(* The source of the packet is looked at.                                  *)
LEMMA ChangeSourceSound ==
  ASSUME NEW s, NEW d, Sound(s, d), s.out = <<>>, NEW t, NEW ssrc,
         NEW u, u = ChangeSource(s, t, ssrc)
  PROVE  Sound(u, d) /\ Quiet(u)
<1>0. Told(s) = {} /\ DOMAIN s = Fields
  BY DEF Told, Sound, Typed
<1>1. CASE s.ssrc = ssrc /\ u = s
  BY <1>0, <1>1 DEF Quiet
<1>2. CASE s.ssrc = None /\ Same(s, u, {"ssrc"})
  <2>1. /\ DOMAIN u = Fields /\ u.have = s.have /\ u.waiting = s.waiting /\ u.notified = s.notified
        /\ u.soft = s.soft /\ u.lastTs = s.lastTs /\ u.highest = s.highest /\ u.unique = s.unique
        /\ u.frames = s.frames /\ u.out = s.out /\ u.decoder = s.decoder /\ u.detected = s.detected
        /\ u.ranges = s.ranges /\ u.unrecovered = s.unrecovered /\ u.windowSent = s.windowSent
    BY <1>2 DEF Same, Fields
  <2>2. Sound(u, d) /\ Told(u) = Told(s)
    BY <2>1 DEF Told, Sound, Typed, Queued, AskedInv, FramesInv, GoneInv, RangesInv, Lost
  <2> QED
    BY <1>0, <2>2 DEF Quiet
<1>3. CASE s.ssrc # None /\ s.ssrc # ssrc /\ RestartEffect(s, u, ssrc)
  <2>1. PICK m : /\ Emitted(s, m, Event("restart", 0, NoPicture))
                 /\ Emitted(m, u, Event("ask", 0, [NoPicture EXCEPT !.asked = TRUE]))
    BY <1>3 DEF RestartEffect
  <2> DEFINE then == [NoPicture EXCEPT !.asked = TRUE]
  <2>2. NoPicture \in Decoders /\ then \in Decoders /\ then.asked = TRUE
    BY DEF NoPicture, Decoders
  <2>3. "restart" \in Kinds /\ "ask" \in Kinds /\ 0 \in Nat
    BY DEF Kinds
  <2>4. Queued(m, d) /\ \A e \in Told(m) : e \in Told(s) \/ e.kind = "restart"
    BY <2>1, <2>2, <2>3, EventQueue DEF Sound
  <2>5. Queued(u, d) /\ u.decoder = then /\ \A e \in Told(u) : e \in Told(m) \/ e.kind = "ask"
    <3> HIDE DEF then
    <3>1. Emitted(m, u, Event("ask", 0, then))
      BY <2>1 DEF then
    <3> QED
      BY <2>2, <2>3, <2>4, <3>1, EventQueue
  <2>6. RangesInv(u) /\ Lost(u) <= u.detected
    <3>1. Covered({}) = {} /\ Cardinality({}) = 0 /\ IsFiniteSet({})
      BY FS_EmptySet DEF Covered
    <3>2. RangesOK(u.ranges, u.highest)
      BY <1>3, <3>1, SizeAssumption DEF RestartEffect, Begun, RangesOK
    <3>3. RangesInv(u)
      BY <1>3, <3>2, SizeAssumption DEF RestartEffect, Begun, RangesInv, Sound
    <3>4. Cardinality(Covered(s.ranges)) \in Nat
      BY CoveredFinite DEF Sound, RangesInv
    <3>5. Lost(u) <= u.detected
      <4>1. u.ranges = {} /\ u.unrecovered = s.unrecovered /\ u.detected = s.detected
        BY <1>3 DEF RestartEffect, Begun
      <4>2. Cardinality(Covered(u.ranges)) = 0
        BY <3>1, <4>1
      <4> QED
        BY <3>4, <4>1, <4>2 DEF Lost, Sound, RangesInv
    <3> QED
      BY <3>3, <3>5
  <2>7. FramesInv(u)
    <3>1. Packets({}) = {} /\ Cardinality({}) = 0 /\ IsFiniteSet({})
      BY FS_EmptySet DEF Packets
    <3> QED
      <4>1. u.frames = {}
        BY <1>3 DEF RestartEffect, Begun
      <4>2. Packets(u.frames) = {}
        BY <3>1, <4>1
      <4> QED
        <5>1. IsFiniteSet(u.frames) /\ Cardinality(u.frames) = 0
          BY <3>1, <4>1
        <5>2. IsFiniteSet(Packets(u.frames)) /\ Cardinality(Packets(u.frames)) = 0
          BY <3>1, <4>2
        <5>3. 0 <= MaxFrames /\ 0 <= MaxPackets
          BY SizeAssumption
        <5> QED
          BY <4>1, <5>1, <5>2, <5>3 DEF FramesInv
  <2>8. Typed(u) /\ AskedInv(u) /\ GoneInv(u)
    <3>1. u.decoder.asked = TRUE
      BY <2>2, <2>5
    <3> HIDE DEF then
    <3>2. DOMAIN u = Fields /\ u.notified = TRUE /\ u.waiting = TRUE /\ u.soft = FALSE /\ u.have = FALSE
          /\ u.lastTs = 0 /\ u.highest = 0 /\ u.unique = 0 /\ u.ranges = {} /\ u.frames = {}
      BY <1>3 DEF RestartEffect, Begun
    <3>3. Typed(u)
      <4>1. u.have \in BOOLEAN /\ u.waiting \in BOOLEAN /\ u.notified \in BOOLEAN /\ u.soft \in BOOLEAN
        BY <3>2
      <4>2. u.lastTs \in Nat /\ u.highest \in Nat /\ u.unique \in Nat
        BY <3>2
      <4>3. u.have = FALSE => u.ranges = {} /\ u.frames = {}
        BY <3>2
      <4> QED
        BY <3>2, <4>1, <4>2, <4>3, Zenon DEF Typed
    <3>4. AskedInv(u)
      BY <3>1, <3>2 DEF AskedInv
    <3>5. GoneInv(u)
      BY <3>2 DEF GoneInv
    <3> QED
      BY <3>3, <3>4, <3>5
  <2>9. Quiet(u)
    BY <1>0, <2>4, <2>5 DEF Quiet
  <2> QED
    BY <2>5, <2>6, <2>7, <2>8, <2>9 DEF Sound
<1> QED
  BY <1>0, <1>1, <1>2, <1>3, ChangeSourceCases

(* LastOf is the greatest member.                                          *)
LEMMA PickLast ==
  ASSUME NEW S, S \subseteq Nat, S # {}, IsFiniteSet(S)
  PROVE  LastOf(S) \in S /\ \A y \in S : y <= LastOf(S)
BY FinMax DEF LastOf

(* The newest frame discarded is as new as every one discarded.            *)
LEMMA NewestForgotten ==
  ASSUME NEW s, FramesInv(s), s.decoder \in Decoders, NEW ts \in Nat
  PROVE  /\ NewestGone(s, ts) \in {f.ts : f \in s.frames} \cup {ts, s.decoder.forgotten}
         /\ NewestGone(s, ts) \in Nat
         /\ NewestGone(s, ts) >= ts /\ NewestGone(s, ts) >= s.decoder.forgotten
         /\ \A f \in s.frames : NewestGone(s, ts) >= f.ts
<1> DEFINE g == [f \in s.frames |-> f.ts]
           T == {f.ts : f \in s.frames}
           S == T \cup {ts, s.decoder.forgotten}
<1>1. g \in Surjection(s.frames, T)
  BY Zenon DEF Surjection
<1>2. IsFiniteSet(T)
  <2> HIDE DEF g, T
  <2> QED
    BY <1>1, FS_Surjection DEF FramesInv
<1>3. s.decoder.forgotten \in Nat
  BY DEF Decoders
<1>4. IsFiniteSet(S)
  <2> HIDE DEF T
  <2>1. IsFiniteSet(T \cup {ts}) /\ IsFiniteSet((T \cup {ts}) \cup {s.decoder.forgotten})
    BY <1>2, FS_AddElement
  <2>2. (T \cup {ts}) \cup {s.decoder.forgotten} = S
    OBVIOUS
  <2> QED
    BY <2>1, <2>2
<1>5. T \subseteq Nat
  BY DEF FramesInv
<1>6. S \subseteq Nat /\ S # {}
  <2> HIDE DEF T
  <2> QED
    BY <1>3, <1>5
<1>7. NewestGone(s, ts) = LastOf(S)
  BY DEF NewestGone
<1>8. LastOf(S) \in S /\ \A y \in S : y <= LastOf(S)
  <2> HIDE DEF S
  <2> QED
    BY <1>4, <1>6, PickLast
<1>9. ts \in S /\ s.decoder.forgotten \in S /\ \A f \in s.frames : f.ts \in S
  OBVIOUS
<1> QED
  BY <1>6, <1>7, <1>8, <1>9

(* An overflow keeps the buffer sound.                                     *)
LEMMA OverflowSound ==
  ASSUME NEW s, NEW d, Sound(s, d), Quiet(s), NEW ts \in Nat, NEW t, NEW u, u = Overflow(s, ts, t)
  PROVE  Sound(u, d)
<1>1. OverflowEffect(s, u, ts)
  BY OverflowCases DEF Sound, Typed
<1>2. /\ u.have = s.have /\ u.highest = s.highest /\ u.unique = s.unique /\ DOMAIN u = Fields
      /\ u.detected = s.detected /\ u.lastTs = s.lastTs
  BY <1>1 DEF OverflowEffect, Same, OverflowFields, RecoveryFields, NotifyFields, EmitFields,
     NackFields, Fields
<1>3. RangesInv(u) /\ Lost(u) <= u.detected
  <2>1. Lost(u) \in Nat /\ Lost(s) \in Nat /\ u.detected \in Nat
    BY <1>1, CoveredFinite DEF Sound, OverflowEffect, RangesInv, Lost
  <2> QED
    BY <1>1, <1>2, <2>1 DEF OverflowEffect, Sound
<1>4. FramesInv(u)
  BY <1>1, FewerFrames DEF Sound, OverflowEffect
<1>5. s.decoder \in Decoders /\ Queued(s, d) /\ (s.notified = TRUE => s.decoder.asked = TRUE)
  BY DEF Sound, Queued, AskedInv
<1> DEFINE then == [s.decoder EXCEPT !.forgotten = NewestGone(s, ts)]
<1>6. then \in Decoders /\ then.asked = s.decoder.asked /\ NewestGone(s, ts) \in Nat
  <2>1. NewestGone(s, ts) \in Nat
    BY <1>5, NewestForgotten DEF Sound
  <2> QED
    BY <1>5, <2>1 DEF Decoders
<1>7. PICK m : /\ m.notified = s.notified
               /\ Emitted(s, m, Event("forgot", NewestGone(s, ts), then))
               /\ Asking(m, u)
  BY <1>1 DEF OverflowEffect
<1> HIDE DEF then
<1>8. /\ Queued(m, d) /\ m.decoder = then
      /\ \A e \in Told(m) : e \in Told(s) \/ e.kind = "forgot"
  <2>1. "forgot" \in Kinds
    BY DEF Kinds
  <2> QED
    BY <1>5, <1>6, <1>7, <2>1, EventQueue
<1>9. /\ Queued(u, d) /\ u.decoder.asked = TRUE
  BY <1>5, <1>6, <1>7, <1>8, AskingQueue
<1>10. Typed(u) /\ GoneInv(u) /\ AskedInv(u)
  BY <1>1, <1>2, <1>9 DEF Typed, GoneInv, AskedInv, Sound, OverflowEffect
<1> QED
  BY <1>3, <1>4, <1>9, <1>10 DEF Sound

(* authorizeRecoveryNacks is a step of the list of ranges.                 *)
LEMMA AuthorizeStep ==
  ASSUME NEW s, NEW ts, NEW t, NEW link \in BOOLEAN, DOMAIN s = Fields, RangesInv(s)
  PROVE  NackStep(s, AuthorizeNacks(s, ts, t, link))
<1> DEFINE A == {q \in s.ranges : ~q.candidate \/ q.ts = ts}
           f == [r \in A |-> [r EXCEPT !.authorized = @ \/ r.candidate]]
           B == {[r EXCEPT !.authorized = @ \/ r.candidate] : r \in A}
           w == [s EXCEPT !.ranges = B]
<1>1. AuthorizeNacks(s, ts, t, link) = DrainNacks(w, t, link)
  BY DEF AuthorizeNacks
<1>2. B = {f[r] : r \in A} /\ A \in SUBSET s.ranges
  OBVIOUS
<1>3. ASSUME NEW r \in A
      PROVE  IsRange(f[r]) /\ f[r].begin = r.begin /\ f[r].end = r.end /\ f[r].ts = r.ts
  <2> DEFINE k == r.authorized \/ r.candidate
  <2>1. f[r] = [r EXCEPT !.authorized = k]
    OBVIOUS
  <2>2. IsRange(r)
    BY DEF RangesInv, RangesOK
  <2> HIDE DEF f, k, A
  <2> QED
    BY <2>1, <2>2 DEF IsRange, RangeFields
<1>4. \A r \in A : IsRange(f[r]) /\ f[r].begin = r.begin /\ f[r].end = r.end /\ f[r].ts = r.ts
  BY <1>3
<1> HIDE DEF f, A, B
<1>5. RangesOK(B, s.highest) /\ Cardinality(Covered(B)) <= Cardinality(Covered(s.ranges))
  <2>1. RangesOK(s.ranges, s.highest) /\ \A r \in A : IsRange(f[r]) /\ f[r].begin = r.begin /\ f[r].end = r.end
    BY <1>4 DEF RangesInv
  <2>2. /\ RangesOK({f[r] : r \in A}, s.highest)
        /\ Cardinality(Covered({f[r] : r \in A})) <= Cardinality(Covered(s.ranges))
    BY <1>2, <2>1, RangesRemap, Zenon
  <2> QED
    BY <1>2, <2>2, Zenon
<1>6. \A r \in B : \E q \in s.ranges : r.ts = q.ts
  BY <1>2, <1>4
<1>7. /\ Same(s, w, {"ranges"}) /\ w.ranges = B /\ w.highest = s.highest
      /\ w.windowSent = s.windowSent /\ w.unrecovered = s.unrecovered /\ w.detected = s.detected
  BY DEF Same, Fields
<1> HIDE DEF w
<1>8. RangesInv(w)
  BY <1>5, <1>7 DEF RangesInv
<1>9. Lost(w) <= Lost(s)
  <2>1. Cardinality(Covered(B)) \in Nat /\ Cardinality(Covered(s.ranges)) \in Nat
    BY <1>5, CoveredFinite DEF RangesInv
  <2> QED
    BY <1>5, <1>7, <2>1 DEF Lost, RangesInv
<1>10. NackStep(s, w)
  BY <1>6, <1>7, <1>8, <1>9 DEF NackStep, Same, NackFields
<1>11. NackStep(w, DrainNacks(w, t, link))
  BY <1>7, <1>8, DrainNacksStep DEF Same
<1> QED
  BY <1>1, <1>10, <1>11, NackStepTrans

-----------------------------------------------------------------------------
(***************************************************************************)
(* A packet that is put into its frame, and receive() as a whole.          *)
(***************************************************************************)

(* What is used of a packet.                                               *)
IsPacket(p) ==
  /\ p.ts \in Nat \ {0} /\ p.kind \in {"key", "params", "delta", "padding"}
  /\ p.ssrc \in Nat

(* Every position of the stream has one.                                   *)
LEMMA Packet ==
  ASSUME NEW i \in Positions
  PROVE  IsPacket(Stream[i]) /\ i \in Nat \ {0} /\ i <= Len(Stream) /\ Positions = 1..Len(Stream)
<1>1. Positions = 1..Len(Stream) /\ Len(Stream) \in Nat
  BY StreamAssumption DEF Positions
<1>2. Stream[i] \in [ts : Nat \ {0}, kind : {"key", "params", "delta", "padding"},
                    head : BOOLEAN, marker : BOOLEAN, bad : BOOLEAN, ssrc : Nat]
  <2> DEFINE T == [ts : Nat \ {0}, kind : {"key", "params", "delta", "padding"},
                    head : BOOLEAN, marker : BOOLEAN, bad : BOOLEAN, ssrc : Nat]
  <2>1. Stream \in Seq(T)
    BY StreamAssumption
  <2> HIDE DEF T
  <2>2. Stream[i] \in T
    BY <1>1, <2>1
  <2> QED
    BY <2>2 DEF T
<1> QED
  BY <1>1, <1>2 DEF IsPacket

(* createFrame: a frame without packets is added.                          *)
EmptyFrame(ts, t) == [ts |-> ts, seen |-> t, progress |-> t, packets |-> {}]

PlaceEffect(s, u, ts, t) ==
  /\ Same(s, u, {"frames"}) /\ Told(u) = Told(s)
  /\ Packets(u.frames) = Packets(s.frames)
  /\ u.frames = s.frames \cup {EmptyFrame(ts, t)}

(* It has room, so that the bounds hold.                                   *)
LEMMA PlaceSound ==
  ASSUME NEW s, NEW d, Sound(s, d), s.have = TRUE, NEW ts \in Nat \ {0}, NEW t,
         Cardinality(s.frames) < MaxFrames, NEW u, u = Place(s, ts, t)
  PROVE  Sound(u, d) /\ PlaceEffect(s, u, ts, t)
<1> DEFINE f == EmptyFrame(ts, t)
<1>1. DOMAIN s = Fields
  BY DEF Sound, Typed
<1>2. /\ Same(s, u, {"frames"}) /\ u.frames = s.frames \cup {f}
  BY <1>1 DEF Same, Fields, Place, EmptyFrame
<1>3. DOMAIN f = FrameFields /\ f.ts \in Nat \ {0} /\ f.packets = {}
  BY DEF FrameFields, EmptyFrame
<1> HIDE DEF f
<1>4. /\ u.have = s.have /\ u.waiting = s.waiting /\ u.notified = s.notified /\ DOMAIN u = Fields
      /\ u.soft = s.soft /\ u.lastTs = s.lastTs /\ u.highest = s.highest /\ u.unique = s.unique
      /\ u.out = s.out /\ u.decoder = s.decoder /\ u.detected = s.detected
      /\ u.ranges = s.ranges /\ u.unrecovered = s.unrecovered /\ u.windowSent = s.windowSent
  BY <1>2 DEF Same, Fields
<1>5. Packets(u.frames) = Packets(s.frames)
  BY <1>2, <1>3 DEF Packets
<1>6. FramesInv(u)
  <2>1. IsFiniteSet(s.frames) /\ Cardinality(s.frames) \in Nat
    BY FS_CardinalityType DEF Sound, FramesInv
  <2>2. IsFiniteSet(s.frames \cup {f}) /\ Cardinality(s.frames \cup {f}) =
           IF f \in s.frames THEN Cardinality(s.frames) ELSE Cardinality(s.frames) + 1
    BY <2>1, FS_AddElement, Zenon
  <2>3. IsFiniteSet(u.frames) /\ Cardinality(u.frames) <= MaxFrames
    BY <1>2, <2>1, <2>2, SizeAssumption
  <2>4. \A g \in u.frames : DOMAIN g = FrameFields /\ g.ts \in Nat \ {0}
    BY <1>2, <1>3 DEF Sound, FramesInv
  <2> QED
    BY <1>5, <2>3, <2>4 DEF Sound, FramesInv
<1>7. RangesInv(u) /\ Lost(u) <= u.detected /\ AskedInv(u) /\ Queued(u, d) /\ Told(u) = Told(s)
  BY <1>4 DEF Sound, RangesInv, Lost, AskedInv, Queued, Told
<1>8. GoneInv(u)
  BY <1>4, <1>7 DEF GoneInv, Sound
<1>9. Typed(u)
  BY <1>4 DEF Typed, Sound
<1> QED
  BY <1>2, <1>5, <1>6, <1>7, <1>8, <1>9 DEF Sound, f, PlaceEffect

(* A packet put into its frame *)
Put(s, i, x, t) ==
  LET f == CHOOSE g \in s.frames : g.ts = Stream[i].ts
  IN [s EXCEPT !.frames = (@ \ {f}) \cup
            {[f EXCEPT !.packets = @ \cup {[seq |-> x, pos |-> i]},
                       !.progress = IF Stream[i].kind = "padding" THEN @ ELSE t]}]

(* The packet stands in its frame.                                         *)
PutEffect(s, u, f, h, i, x) ==
  /\ Same(s, u, {"frames"})
  /\ f \in s.frames /\ f.ts = Stream[i].ts
  /\ u.frames = (s.frames \ {f}) \cup {h}
  /\ h.ts = f.ts /\ h.packets = f.packets \cup {[seq |-> x, pos |-> i]} /\ DOMAIN h = FrameFields

(* There is one frame it goes into.                                        *)
LEMMA PutCases ==
  ASSUME NEW s, NEW d, Sound(s, d), NEW i \in Positions, NEW x, NEW t,
         \E g \in s.frames : g.ts = Stream[i].ts
  PROVE  \E f, h : PutEffect(s, Put(s, i, x, t), f, h, i, x)
<1> DEFINE f == CHOOSE g \in s.frames : g.ts = Stream[i].ts
           when == IF Stream[i].kind = "padding" THEN f.progress ELSE t
           h == [f EXCEPT !.packets = @ \cup {[seq |-> x, pos |-> i]}, !.progress = when]
           u == Put(s, i, x, t)
<1>1. f \in s.frames /\ f.ts = Stream[i].ts
  OBVIOUS
<1>2. u = [s EXCEPT !.frames = (@ \ {f}) \cup {h}]
  BY DEF Put
<1> HIDE DEF u, f, when
<1>3. DOMAIN f = FrameFields
  BY <1>1 DEF Sound, FramesInv
<1>4. h.ts = f.ts /\ h.packets = f.packets \cup {[seq |-> x, pos |-> i]} /\ DOMAIN h = FrameFields
  BY <1>3 DEF FrameFields
<1> HIDE DEF h
<1>5. DOMAIN s = Fields
  BY DEF Sound, Typed
<1>6. Same(s, u, {"frames"}) /\ u.frames = (s.frames \ {f}) \cup {h}
  BY <1>2, <1>5 DEF Same, Fields
<1> QED
  BY <1>1, <1>4, <1>6 DEF PutEffect, u

(* One packet more is within the bound.                                    *)
LEMMA PutSound ==
  ASSUME NEW s, NEW d, Sound(s, d), s.have = TRUE, NEW i \in Positions, NEW x,
         NEW u, NEW f, NEW h, PutEffect(s, u, f, h, i, x),
         Cardinality(Packets(s.frames)) < MaxPackets
  PROVE  Sound(u, d)
<1>4. /\ u.have = s.have /\ u.waiting = s.waiting /\ u.notified = s.notified /\ DOMAIN u = Fields
      /\ u.soft = s.soft /\ u.lastTs = s.lastTs /\ u.highest = s.highest /\ u.unique = s.unique
      /\ u.out = s.out /\ u.decoder = s.decoder /\ u.detected = s.detected
      /\ u.ranges = s.ranges /\ u.unrecovered = s.unrecovered /\ u.windowSent = s.windowSent
  BY DEF PutEffect, Same, Fields
<1> DEFINE k == [seq |-> x, pos |-> i]
           F == s.frames \ {f}
<1>5. Packets(u.frames) \subseteq Packets(s.frames) \cup {k}
  BY DEF Packets, PutEffect
<1> HIDE DEF k
<1>6. FramesInv(u)
  <2>1. IsFiniteSet(s.frames) /\ Cardinality(s.frames) \in Nat
    BY FS_CardinalityType DEF Sound, FramesInv
  <2>2. IsFiniteSet(F) /\ Cardinality(F) = Cardinality(s.frames) - 1
    <3>1. f \in s.frames
      BY DEF PutEffect
    <3>2. IsFiniteSet(F) /\ Cardinality(F) = IF f \in s.frames THEN Cardinality(s.frames) - 1 ELSE Cardinality(s.frames)
      BY <2>1, FS_RemoveElement, Zenon
    <3> QED
      BY <3>1, <3>2
  <2> HIDE DEF F
  <2>3. IsFiniteSet(F \cup {h}) /\ Cardinality(F \cup {h}) =
           IF h \in F THEN Cardinality(F) ELSE Cardinality(F) + 1
    BY <2>2, FS_AddElement, Zenon
  <2>4. IsFiniteSet(u.frames) /\ Cardinality(u.frames) <= MaxFrames
    <3>1. u.frames = F \cup {h}
      BY DEF PutEffect, F
    <3> QED
      BY <2>1, <2>2, <2>3, <3>1, SizeAssumption DEF Sound, FramesInv
  <2>5. \A g \in u.frames : DOMAIN g = FrameFields /\ g.ts \in Nat \ {0}
    BY DEF Sound, FramesInv, PutEffect
  <2>6. IsFiniteSet(Packets(u.frames)) /\ Cardinality(Packets(u.frames)) <= MaxPackets
    <3>1. IsFiniteSet(Packets(s.frames)) /\ Cardinality(Packets(s.frames)) \in Nat
      BY FS_CardinalityType DEF Sound, FramesInv
    <3> DEFINE P == Packets(s.frames)
               Q == Packets(u.frames)
    <3> HIDE DEF P, Q
    <3>2. IsFiniteSet(P \cup {k}) /\ Cardinality(P \cup {k}) =
             IF k \in P THEN Cardinality(P) ELSE Cardinality(P) + 1
      BY <3>1, FS_AddElement, Zenon DEF P
    <3>3. IsFiniteSet(Q) /\ Cardinality(Q) <= Cardinality(P \cup {k}) /\ Cardinality(Q) \in Nat
      BY <1>5, <3>2, FS_Subset, FS_CardinalityType DEF P, Q
    <3> QED
      BY <3>1, <3>2, <3>3, SizeAssumption DEF P, Q
  <2> QED
    BY <2>4, <2>5, <2>6 DEF FramesInv
<1>7. RangesInv(u) /\ Lost(u) <= u.detected /\ AskedInv(u) /\ Queued(u, d) /\ Told(u) = Told(s)
  BY <1>4 DEF Sound, RangesInv, Lost, AskedInv, Queued, Told
<1>8. GoneInv(u)
  BY <1>4, <1>7 DEF GoneInv, Sound
<1>9. Typed(u)
  BY <1>4 DEF Typed, Sound
<1> QED
  BY <1>6, <1>7, <1>8, <1>9 DEF Sound

(* A packet is stored and the buffer drained.                              *)
LEMMA StoreSound ==
  ASSUME NEW s, NEW d, Sound(s, d), s.have = TRUE, NEW i \in Positions, NEW x, NEW t,
         NEW link \in BOOLEAN, Cardinality(Packets(s.frames)) < MaxPackets,
         \E g \in s.frames : g.ts = Stream[i].ts
  PROVE  Sound(Store(s, i, x, t, link), d)
<1> DEFINE u == Put(s, i, x, t)
           w == IF s.waiting /\ Stream[i].kind = "key" THEN AuthorizeNacks(u, Stream[i].ts, t, link) ELSE u
<1>1. Store(s, i, x, t, link) = Drain(w, t)
  BY DEF Store, Put
<1>2. Sound(u, d)
  <2> HIDE DEF u
  <2>1. PICK f, h : PutEffect(s, u, f, h, i, x)
    BY PutCases DEF u
  <2> QED
    BY <2>1, PutSound
<1> HIDE DEF u
<1>3. Sound(AuthorizeNacks(u, Stream[i].ts, t, link), d)
  <2>1. NackStep(u, AuthorizeNacks(u, Stream[i].ts, t, link))
    BY <1>2, AuthorizeStep DEF Sound, Typed
  <2> QED
    BY <1>2, <2>1, NackSound
<1>4. Sound(w, d)
  BY <1>2, <1>3
<1> HIDE DEF w
<1> QED
  BY <1>1, <1>4, DrainSound

(* A packet is stored, refused, or overflows the buffer.                   *)
LEMMA InsertSound ==
  ASSUME NEW s, NEW d, Sound(s, d), Quiet(s), s.have = TRUE, NEW i \in Positions, NEW x, NEW t,
         NEW link \in BOOLEAN
  PROVE  Sound(Insert(s, i, x, t, link), d)
<1> DEFINE p == Stream[i]
           known == \E f \in s.frames : f.ts = p.ts
           fresh == Place(s, p.ts, t)
           placed == IF known THEN s ELSE fresh
           skip == ~known /\ (p.kind = "padding" \/ (s.lastTs # 0 /\ p.ts <= s.lastTs))
           full == ~known /\ Cardinality(s.frames) >= MaxFrames
           u == Insert(s, i, x, t, link)
<1>1. u = IF skip THEN Drain(s, t)
          ELSE IF full THEN Overflow(s, p.ts, t)
          ELSE IF BufferedPackets(s) >= MaxPackets THEN Overflow(placed, p.ts, t)
          ELSE Store(placed, i, x, t, link)
  BY DEF Insert
<1>2. p.ts \in Nat \ {0}
  BY Packet DEF IsPacket
<1>3. BufferedPackets(s) = Cardinality(Packets(s.frames))
  BY DEF BufferedPackets, Packets
<1>4. ASSUME ~full
      PROVE  /\ Sound(placed, d) /\ Quiet(placed) /\ placed.have = TRUE
             /\ Packets(placed.frames) = Packets(s.frames)
             /\ \E g \in placed.frames : g.ts = p.ts
  <2>1. CASE known
    BY <2>1
  <2>2. CASE ~known
    <3>0. Cardinality(s.frames) < MaxFrames
      <4>1. Cardinality(s.frames) \in Nat
        BY FS_CardinalityType DEF Sound, FramesInv
      <4> QED
        BY <1>4, <2>2, <4>1, SizeAssumption
    <3>4. fresh = Place(s, p.ts, t)
      OBVIOUS
    <3> HIDE DEF p, fresh
    <3>1. Sound(fresh, d) /\ PlaceEffect(s, fresh, p.ts, t)
      BY <1>2, <3>0, <3>4, PlaceSound
    <3>2. fresh.have = TRUE
      BY <3>1 DEF PlaceEffect, Same, Fields
    <3>3. \E g \in fresh.frames : g.ts = p.ts
      <4>1. EmptyFrame(p.ts, t) \in fresh.frames /\ EmptyFrame(p.ts, t).ts = p.ts
        BY <3>1 DEF EmptyFrame, PlaceEffect
      <4> QED
        BY <4>1
    <3> QED
      BY <2>2, <3>1, <3>2, <3>3 DEF Quiet, PlaceEffect
  <2> QED
    BY <2>1, <2>2
<1> HIDE DEF known, fresh, skip, full, placed, u
<1>5. CASE skip
  BY <1>1, <1>5, DrainSound DEF u
<1>6. CASE ~skip /\ full
  BY <1>1, <1>2, <1>6, OverflowSound DEF u
<1>7. CASE ~skip /\ ~full /\ BufferedPackets(s) >= MaxPackets
  BY <1>1, <1>2, <1>4, <1>7, OverflowSound DEF u
<1>8. CASE ~skip /\ ~full /\ ~(BufferedPackets(s) >= MaxPackets)
  <2>1. Cardinality(Packets(placed.frames)) < MaxPackets
    <3>1. Cardinality(Packets(s.frames)) \in Nat
      BY FS_CardinalityType DEF Sound, FramesInv
    <3>2. Packets(placed.frames) = Packets(s.frames)
      BY <1>4, <1>8
    <3> QED
      BY <1>3, <1>8, <3>1, <3>2, SizeAssumption
  <2> QED
    BY <1>1, <1>4, <1>8, <2>1, StoreSound DEF u
<1> QED
  BY <1>5, <1>6, <1>7, <1>8 DEF u

(* receive() keeps the buffer sound.                                       *)
LEMMA ReceiveSound ==
  ASSUME NEW s, NEW d, Sound(s, d), s.out = <<>>, NEW i \in Positions, NEW t,
         NEW link \in BOOLEAN
  PROVE  Sound(Receive(s, i, t, link), d)
<1> DEFINE p == Stream[i]
           c == ChangeSource(s, t, p.ssrc)
           sq == (First + i - 1) % SeqSpace
           x == IF c.have THEN Extend(c, sq) ELSE sq
           m == NoteSequence(c, x, p, t, link)
           n == DrainNacks(m, t, link)
           dup == IsDuplicate(c, x)
<1>1. Receive(s, i, t, link) = IF dup THEN n ELSE Insert(n, i, x, t, link)
  BY DEF Receive
<1>2. Sound(c, d) /\ Quiet(c)
  BY ChangeSourceSound
<1> HIDE DEF c, p
<1>3. x \in Nat
  <2>1. sq \in 0..(SeqSpace - 1)
    <3>1. First + i - 1 \in Nat /\ SeqSpace \in Nat \ {0}
      <4>1. i \in Nat \ {0}
        BY Packet
      <4>2. First \in Nat /\ SeqSpace \in Nat \ {0}
        BY SizeAssumption
      <4> QED
        BY <4>1, <4>2
    <3> QED
      BY <3>1
  <2> HIDE DEF sq
  <2>2. Extend(c, sq) \in Nat
    BY <1>2, <2>1, ExtendType DEF Sound, Typed
  <2> QED
    BY <2>1, <2>2, SizeAssumption
<1> HIDE DEF x
<1>4. NoteEffect(c, m, x, p.ts) /\ Noted(c, m, x)
  <2>1. /\ DOMAIN c = Fields /\ RangesInv(c) /\ c.highest \in Nat /\ c.unique \in Nat /\ c.have \in BOOLEAN
        /\ c.have \/ c.ranges = {}
    BY <1>2 DEF Sound, Typed
  <2> QED
    BY <1>3, <2>1, NoteSequenceEffect
<1> HIDE DEF m
<1>5. Sound(m, d) /\ Quiet(m) /\ m.have = TRUE
  BY <1>2, <1>3, <1>4, NoteSound
<1>6. NackStep(m, n)
  BY <1>5, DrainNacksStep DEF Sound, Typed
<1> HIDE DEF n
<1>7. Sound(n, d) /\ Quiet(n) /\ n.have = TRUE
  BY <1>5, <1>6, NackSound
<1>8. Sound(Insert(n, i, x, t, link), d)
  BY <1>7, InsertSound
<1> HIDE DEF dup
<1> QED
  BY <1>1, <1>7, <1>8

-----------------------------------------------------------------------------
(***************************************************************************)
(* The first layer of theorems: soundness is an invariant of the buffer,   *)
(* whatever the sender sends and the network does.                         *)
(***************************************************************************)

(* The clock and the network.                                              *)
Clock == now \in 1..MaxTime /\ copies \in [Positions -> 0..2]

(* The inductive invariant of the first layer.                             *)
SoundInv == Clock /\ Sound(buffer, decoder)

(* An empty buffer is sound.                                               *)
LEMMA EmptySound ==
  Sound(EmptyBuffer, NoPicture)
<1> DEFINE u == EmptyBuffer
<1>1. /\ DOMAIN u = Fields /\ u.have = FALSE /\ u.waiting = TRUE /\ u.notified = FALSE /\ u.soft = FALSE
      /\ u.lastTs = 0 /\ u.highest = 0 /\ u.unique = 0 /\ u.frames = {} /\ u.ranges = {}
      /\ u.out = <<>> /\ u.decoder = NoPicture /\ u.windowSent = 0
      /\ u.unrecovered = 0 /\ u.detected = 0
  BY DEF EmptyBuffer, Fields
<1> HIDE DEF u
<1>2. IsFiniteSet({}) /\ Cardinality({}) = 0 /\ Covered({}) = {} /\ Packets({}) = {}
  BY FS_EmptySet DEF Covered, Packets
<1>3. RangesInv(u) /\ Lost(u) <= u.detected
  <2>1. RangesOK({}, 0)
    BY <1>2, SizeAssumption DEF RangesOK
  <2>2. RangesInv(u)
    BY <1>1, <2>1, SizeAssumption DEF RangesInv
  <2>3. Cardinality(Covered(u.ranges)) = 0
    BY <1>1, <1>2
  <2> QED
    BY <1>1, <2>2, <2>3 DEF Lost
<1>4. FramesInv(u)
  <2>1. IsFiniteSet(u.frames) /\ Cardinality(u.frames) = 0
    BY <1>1, <1>2
  <2>2. IsFiniteSet(Packets(u.frames)) /\ Cardinality(Packets(u.frames)) = 0
    BY <1>1, <1>2
  <2>3. 0 <= MaxFrames /\ 0 <= MaxPackets
    BY SizeAssumption
  <2> QED
    BY <1>1, <2>1, <2>2, <2>3 DEF FramesInv
<1>5. Typed(u)
  <2>1. u.have \in BOOLEAN /\ u.waiting \in BOOLEAN /\ u.notified \in BOOLEAN /\ u.soft \in BOOLEAN
    BY <1>1
  <2>2. u.lastTs \in Nat /\ u.highest \in Nat /\ u.unique \in Nat
    BY <1>1
  <2>3. u.have = FALSE => u.ranges = {} /\ u.frames = {}
    BY <1>1
  <2> QED
    BY <1>1, <2>1, <2>2, <2>3, Zenon DEF Typed
<1>6. AskedInv(u) /\ GoneInv(u)
  BY <1>1 DEF AskedInv, GoneInv
<1>7. Queued(u, NoPicture)
  BY <1>1 DEF Queued, NoPicture, Decoders
<1> QED
  BY <1>3, <1>4, <1>5, <1>6, <1>7 DEF Sound, u

(* A callback that is taken leaves it so.                                  *)
LEMMA TakenSound ==
  ASSUME NEW s, NEW d, Sound(s, d), s.out # <<>>, NEW u, u = [s EXCEPT !.out = Tail(@)]
  PROVE  Sound(u, Head(s.out).then)
<1>1. /\ DOMAIN u = Fields /\ u.have = s.have /\ u.waiting = s.waiting /\ u.notified = s.notified
      /\ u.soft = s.soft /\ u.lastTs = s.lastTs /\ u.highest = s.highest /\ u.unique = s.unique
      /\ u.frames = s.frames /\ u.out = Tail(s.out) /\ u.decoder = s.decoder /\ u.detected = s.detected
      /\ u.ranges = s.ranges /\ u.unrecovered = s.unrecovered /\ u.windowSent = s.windowSent
  BY DEF Sound, Typed, Fields
<1>2. s.out \in Seq(Events) /\ Len(s.out) \in Nat /\ Len(s.out) # 0
  BY DEF Sound, Queued
<1>3. /\ u.out \in Seq(Events) /\ Len(u.out) = Len(s.out) - 1
      /\ \A n \in 1..Len(u.out) : u.out[n] = s.out[n + 1] /\ n + 1 \in 1..Len(s.out)
      /\ DOMAIN u.out = 1..Len(u.out) /\ DOMAIN s.out = 1..Len(s.out)
  BY <1>1, <1>2
<1>4. Queued(u, Head(s.out).then)
  <2>1. CASE Len(s.out) = 1
    <3>1. u.out = <<>> /\ Head(s.out) = s.out[Len(s.out)]
      <4>1. Len(u.out) = 0
        BY <1>3, <2>1
      <4>2. u.out = <<>>
        BY <1>3, <4>1, EmptySeq
      <4>3. Head(s.out) = s.out[1]
        BY <1>2, HeadTailProperties
      <4> QED
        BY <2>1, <4>2, <4>3
    <3> QED
      BY <1>1, <1>3, <3>1 DEF Sound, Queued
  <2>2. CASE Len(s.out) # 1
    <3>1. u.out # <<>> /\ u.out[Len(u.out)] = s.out[Len(s.out)]
      <4>1. Len(u.out) \in 1..Len(u.out) /\ Len(u.out) + 1 = Len(s.out) /\ Len(u.out) # 0
        <5> DEFINE n == Len(u.out)
                   N == Len(s.out)
        <5>1. n = N - 1 /\ N \in Nat /\ N # 0 /\ N # 1
          BY <1>2, <1>3, <2>2
        <5> HIDE DEF n, N
        <5>2. n \in 1..n /\ n + 1 = N /\ n # 0
          BY <5>1
        <5> QED
          BY <5>2 DEF n, N
      <4>2. u.out # <<>>
        <5>1. Len(u.out) # 0
          BY <4>1
        <5>2. Len(<<>>) = 0
          BY EmptySeq
        <5> QED
          BY <5>1, <5>2
      <4> QED
        BY <1>3, <4>1, <4>2
    <3> QED
      BY <1>1, <1>3, <3>1 DEF Sound, Queued
  <2> QED
    BY <2>1, <2>2
<1>5. Told(u) \subseteq Told(s)
  BY <1>3 DEF Told
<1>6. RangesInv(u) /\ Lost(u) <= u.detected /\ FramesInv(u) /\ AskedInv(u) /\ Typed(u)
  BY <1>1 DEF Sound, RangesInv, Lost, FramesInv, AskedInv, Typed
<1>7. GoneInv(u)
  BY <1>1, <1>5 DEF Sound, GoneInv
<1> QED
  BY <1>4, <1>6, <1>7 DEF Sound

(* The buffer starts sound.                                                *)
LEMMA InitSound == Init => SoundInv
<1>1. Init => Clock
  BY SizeAssumption DEF Init, Clock
<1> QED
  BY <1>1, EmptySound DEF Init, SoundInv

(* Every step keeps it so.                                                 *)
LEMMA StepSound == SoundInv /\ [Next]_vars => SoundInv'
<1> SUFFICES ASSUME SoundInv, [Next]_vars PROVE SoundInv'
  OBVIOUS
<1> USE DEF SoundInv
<1>1. ASSUME NEW i \in Positions, NEW link \in BOOLEAN, Deliver(i, link) PROVE SoundInv'
  <2>1. Clock'
    BY <1>1 DEF Clock, Deliver, Deliverable
  <2>2. Sound(Receive(buffer, i, now, link), decoder)
    BY <1>1, ReceiveSound DEF Deliver
  <2> QED
    BY <1>1, <2>1, <2>2 DEF Deliver
<1>2. ASSUME Callback PROVE SoundInv'
  <2>1. Clock'
    BY <1>2 DEF Clock, Callback
  <2> DEFINE u == [buffer EXCEPT !.out = Tail(@)]
  <2>2. buffer' = u /\ decoder' = Head(buffer.out).then /\ buffer.out # <<>>
    BY <1>2 DEF Callback
  <2>3. Sound(u, Head(buffer.out).then)
    BY <2>2, TakenSound
  <2> HIDE DEF u
  <2> QED
    BY <2>1, <2>2, <2>3
<1>3. ASSUME Elapse PROVE SoundInv'
  BY <1>3, SizeAssumption DEF Clock, Elapse
<1>4. ASSUME Reset PROVE SoundInv'
  BY <1>4, EmptySound DEF Clock, Reset
<1>5. CASE UNCHANGED vars
  BY <1>5 DEF vars, Clock
<1> QED
  BY <1>1, <1>2, <1>3, <1>4, <1>5 DEF Next

(* In every state the buffer is sound: for every stream, network, bound    *)
(* and hold (receive, drain, overflow, enterRecovery).                     *)
THEOREM AlwaysSound == Spec => []SoundInv
<1> QED
  BY InitSound, StepSound, PTL DEF Spec

(* A stream that froze itself asked for the key frame that thaws it, and   *)
(* no retransmission is asked for a frame that was handed on or given up   *)
(* in the same call (notifyRecovery, filterPendingNacks).                  *)
THEOREM NothingIsAskedInVain == Spec => []RequestSafety
<1>1. SoundInv => RequestSafety
  <2> SUFFICES ASSUME SoundInv PROVE RequestSafety
    OBVIOUS
  <2>1. Sound(buffer, decoder)
    BY DEF SoundInv
  <2>2. FreezeIsAsked
    <3> SUFFICES ASSUME buffer.out = <<>>, buffer.waiting, buffer.lastTs # 0 PROVE decoder.asked
      BY DEF FreezeIsAsked
    <3>1. buffer.decoder = decoder /\ buffer.waiting = TRUE
      BY <2>1 DEF Sound, Queued, Typed
    <3>2. buffer.decoder.asked = TRUE
      BY <2>1, <3>1 DEF Sound, AskedInv
    <3> QED
      BY <3>1, <3>2
  <2>3. GoneFramesAreNotAsked
    BY <2>1 DEF Sound, GoneInv, Told, GoneFramesAreNotAsked
  <2> QED
    BY <2>2, <2>3 DEF RequestSafety
<1> QED
  BY <1>1, AlwaysSound, PTL

(* Frames, packets, ranges and the NACKs of a window stay within their     *)
(* bounds (createFrame, receive, sendNacks, drainPendingNacks).            *)
THEOREM BoundsHold == Spec => []TypeOK
<1>1. SoundInv => TypeOK
  <2> SUFFICES ASSUME SoundInv PROVE TypeOK
    OBVIOUS
  <2>1. BufferedPackets(buffer) = Cardinality(Packets(buffer.frames))
    BY DEF BufferedPackets, Packets
  <2> QED
    BY <2>1 DEF SoundInv, Clock, Sound, FramesInv, RangesInv, RangesOK, TypeOK
<1> QED
  BY <1>1, AlwaysSound, PTL

(* No packet is written off twice, whichever of expiry, abandonment,       *)
(* overflow and a full list gets to it (countUnrecovered, sendNacks).      *)
THEOREM LossesAddUp == Spec => []LossIsCountedOnce
<1>1. SoundInv => LossIsCountedOnce
  <2> SUFFICES ASSUME SoundInv PROVE LossIsCountedOnce
    OBVIOUS
  <2>1. Sound(buffer, decoder)
    BY DEF SoundInv
  <2> DEFINE M == UNION {Missing(buffer, r) : r \in buffer.ranges}
             C == Covered(buffer.ranges)
  <2>2. M \in SUBSET C
    BY DEF Missing, Covered, Span
  <2>3. IsFiniteSet(C) /\ Cardinality(C) \in Nat
    BY <2>1, CoveredFinite DEF Sound, RangesInv
  <2>4. Cardinality(M) \in Nat /\ Cardinality(M) <= Cardinality(C)
    <3> HIDE DEF M, C
    <3> QED
      BY <2>2, <2>3, FS_Subset, FS_CardinalityType
  <2>5. buffer.unrecovered + Cardinality(C) <= buffer.detected /\ buffer.unrecovered \in Nat /\ buffer.detected \in Nat
    BY <2>1 DEF Sound, Lost, RangesInv
  <2> HIDE DEF M, C
  <2>6. buffer.unrecovered + Cardinality(M) <= buffer.detected
    BY <2>3, <2>4, <2>5
  <2> QED
    BY <2>6 DEF LossIsCountedOnce, M
<1> QED
  BY <1>1, AlwaysSound, PTL

-----------------------------------------------------------------------------
(***************************************************************************)
(* Arithmetic of sequence numbers: a number that is no further than half   *)
(* of the number space from the newest one is extended to what it was      *)
(* before it was cut (noteSequence, lines 628-638).                        *)
(***************************************************************************)

(* Multiples of n are n apart.                                             *)
LEMMA MultLeast ==
  ASSUME NEW n \in Nat \ {0}, NEW k \in Int
  PROVE  /\ k * n \in Int
         /\ k >= 1 => k * n >= n
         /\ k >= 2 => k * n >= n + n
         /\ k <= -1 => k * n <= -n
         /\ k = 0 => k * n = 0
         /\ k = 1 => k * n = n
         /\ k = -1 => k * n = -n
OBVIOUS

(* Every integer is a multiple and a remainder.                            *)
LEMMA Division ==
  ASSUME NEW n \in Nat \ {0}, NEW a \in Int
  PROVE  /\ a % n \in 0..(n - 1)
         /\ \E q \in Int : a = q * n + (a % n)
<1>1. a % n \in 0..(n - 1) /\ a \div n \in Int
  OBVIOUS
<1>2. a = n * (a \div n) + (a % n)
  OBVIOUS
<1>3. n * (a \div n) = (a \div n) * n
  BY <1>1
<1> QED
  BY <1>1, <1>2, <1>3

(* The remainder is the one that is less than n.                           *)
LEMMA Remainder ==
  ASSUME NEW n \in Nat \ {0}, NEW q \in Int, NEW r \in 0..(n - 1)
  PROVE  (q * n + r) % n = r
<1> DEFINE a == q * n + r
<1>1. a \in Int
  OBVIOUS
<1>2. PICK p \in Int : a = p * n + (a % n) /\ a % n \in 0..(n - 1)
  BY <1>1, Division
<1>3. (q - p) * n = (a % n) - r
  <2>1. (q - p) * n = q * n - p * n
    OBVIOUS
  <2> QED
    BY <1>1, <1>2, <2>1
<1>4. q - p = 0
  <2>1. (q - p) * n < n /\ (q - p) * n > -n
    BY <1>2, <1>3
  <2> QED
    BY <2>1, MultLeast
<1> QED
  BY <1>2, <1>3, <1>4

(* Multiples do not change the remainder.                                  *)
LEMMA ModShift ==
  ASSUME NEW n \in Nat \ {0}, NEW a \in Int, NEW m \in Int
  PROVE  (a + m * n) % n = a % n
<1>1. PICK q \in Int : a = q * n + (a % n) /\ a % n \in 0..(n - 1)
  BY Division
<1>2. a + m * n = (q + m) * n + (a % n)
  <2>1. (q + m) * n = q * n + m * n
    OBVIOUS
  <2> QED
    BY <1>1, <2>1
<1>3. ((q + m) * n + (a % n)) % n = a % n
  BY <1>1, Remainder
<1> QED
  BY <1>2, <1>3

(* A number y less than half of the number space away from the newest one  *)
(* is extended to itself, also across a wrap.                              *)
LEMMA ExtendRight ==
  ASSUME NEW s, s.highest \in Nat, NEW y \in Nat,
         y - s.highest < SeqSpace \div 2, s.highest - y < SeqSpace \div 2
  PROVE  Extend(s, y % SeqSpace) = y
<1> DEFINE h == s.highest
           n == SeqSpace
           low == h % n
           seq == y % n
           half == n \div 2
           near == h - low + seq
<1>1. n \in Nat \ {0} /\ half \in Nat /\ half + half <= n
  BY SizeAssumption
<1>12. h \in Int /\ y \in Int
  OBVIOUS
<1> HIDE DEF h, n
<1>2. PICK q \in Int : h = q * n + low /\ low \in 0..(n - 1)
  BY <1>1, <1>12, Division
<1>3. PICK p \in Int : y = p * n + seq /\ seq \in 0..(n - 1)
  BY <1>1, <1>12, Division
<1>4. Extend(s, seq) = IF seq < low /\ low - seq > half THEN near + n
       ELSE IF seq > low /\ seq - low > half /\ near >= n THEN near - n ELSE near
  BY DEF Extend, h, n
<1> HIDE DEF low, seq, half, n, h
<1> DEFINE k == p - q
<1>5. k \in Int /\ y = near + k * n /\ near \in Int
  <2>1. k * n = p * n - q * n
    BY <1>1, <1>2, <1>3
  <2> QED
    BY <1>1, <1>2, <1>3, <2>1
<1> HIDE DEF k
<1>6. y - h = seq - low + k * n /\ y \in Nat /\ h \in Nat
  BY <1>5, <1>2, <1>3, <1>1 DEF h
<1>7. y - h < half /\ h - y < half
  BY DEF half, h, n
<1>8. /\ k * n \in Int /\ (k >= 1 => k * n >= n) /\ (k >= 2 => k * n >= n + n)
      /\ (k <= -1 => k * n <= -n) /\ (k = 0 => k * n = 0) /\ (k = 1 => k * n = n) /\ (k = -1 => k * n = -n)
  BY <1>1, <1>5, MultLeast
<1>85. (k <= -2 => k * n <= -(n + n))
  BY <1>1, <1>5
<1>9. CASE seq < low /\ low - seq > half
  <2>1. k = 1
    BY <1>1, <1>2, <1>3, <1>5, <1>6, <1>7, <1>8, <1>9
  <2> QED
    BY <1>4, <1>5, <1>8, <1>9, <2>1 DEF n, seq
<1>10. CASE seq > low /\ seq - low > half
  <2>1. k = -1
    BY <1>1, <1>2, <1>3, <1>5, <1>6, <1>7, <1>8, <1>85, <1>10
  <2>2. y = near - n
    BY <1>1, <1>5, <1>8, <2>1
  <2>3. near >= n
    BY <1>1, <1>5, <1>6, <2>2
  <2>4. ~(seq < low)
    BY <1>2, <1>3, <1>10
  <2> QED
    BY <1>4, <1>10, <2>2, <2>3, <2>4 DEF n, seq
<1>11. CASE ~(seq < low /\ low - seq > half) /\ ~(seq > low /\ seq - low > half)
  <2>1. seq - low <= half /\ low - seq <= half
    BY <1>1, <1>2, <1>3, <1>11
  <2>2. k = 0
    BY <1>1, <1>2, <1>3, <1>5, <1>6, <1>7, <1>8, <2>1
  <2>3. y = near
    BY <1>5, <1>8, <2>2
  <2> QED
    BY <1>4, <1>11, <2>3 DEF n, seq
<1> QED
  BY <1>9, <1>10, <1>11

-----------------------------------------------------------------------------
(***************************************************************************)
(* What is known of the numbers is the work of noteSequence alone:         *)
(* inserting, draining and overflowing leave it as it is.                  *)
(***************************************************************************)

(* What noteSequence knows of the numbers, which no later step touches *)
Numbers == {"have", "highest", "base", "unique", "received", "ssrc"}
Kept(s, u) ==
  /\ DOMAIN s = Fields /\ DOMAIN u = Fields
  /\ \A k \in Numbers : u[k] = s[k]

(* A step that changes none of the numbers keeps them.                     *)
LEMMA SameKeeps ==
  ASSUME NEW s, NEW u, NEW changed, Same(s, u, changed), changed \cap Numbers = {}
  PROVE  Kept(s, u)
<1>1. Numbers \subseteq Fields
  BY DEF Numbers, Fields
<1> QED
  BY <1>1 DEF Same, Kept

(* Two steps that keep the numbers make one.                               *)
LEMMA KeptTrans ==
  ASSUME NEW s, NEW u, NEW w, Kept(s, u), Kept(u, w)
  PROVE  Kept(s, w)
BY DEF Kept

(* They are kept one by one.                                               *)
LEMMA KeptFields ==
  ASSUME NEW s, NEW u, Kept(s, u)
  PROVE  /\ u.have = s.have /\ u.highest = s.highest /\ u.base = s.base
         /\ u.unique = s.unique /\ u.received = s.received /\ u.ssrc = s.ssrc
BY DEF Kept, Numbers

(* A round of drain() keeps the numbers.                                   *)
LEMMA DrainFrontKeeps ==
  ASSUME NEW s, NEW d, Sound(s, d), NEW t, NEW u, u = DrainFront(s, t)
  PROVE  Kept(s, u)
<1> DEFINE result == Assemble(s, Front(s))
<1>0. DOMAIN s = Fields /\ RangesInv(s) /\ s.notified \in BOOLEAN /\ s.waiting \in BOOLEAN
      /\ s.soft \in BOOLEAN /\ s.decoder \in Decoders
  BY DEF Sound, Typed, Queued
<1>1. \/ u = s
      \/ \E hole \in BOOLEAN : u = HandOn(s, t, hole)
      \/ \E invalid \in BOOLEAN : u = GiveUp(s, t, invalid)
  <2>1. (result = "discontinuous") \in BOOLEAN /\ (result = "invalid") \in BOOLEAN
    OBVIOUS
  <2> HIDE DEF result
  <2> QED
    BY <2>1 DEF DrainFront, result
<1>2. ASSUME NEW hole \in BOOLEAN, u = HandOn(s, t, hole) PROVE Kept(s, u)
  <2>1. Same(s, u, HandFields)
    BY <1>0, <1>2, HandOnCases DEF HandOnEffect
  <2>2. HandFields \cap Numbers = {}
    BY DEF HandFields, RecoveryFields, NotifyFields, EmitFields, Numbers
  <2> QED
    BY <2>1, <2>2, SameKeeps
<1>3. ASSUME NEW invalid \in BOOLEAN, u = GiveUp(s, t, invalid) PROVE Kept(s, u)
  <2>1. Same(s, u, GiveUpFields)
    <3>1. GiveUpEffect(s, u, Front(s))
      BY <1>0, <1>3, GiveUpCases
    <3> QED
      BY <3>1 DEF GiveUpEffect
  <2>2. GiveUpFields \cap Numbers = {}
    BY DEF GiveUpFields, NackFields, HandFields, RecoveryFields, NotifyFields, EmitFields, Numbers
  <2> QED
    BY <2>1, <2>2, SameKeeps
<1>4. Kept(s, s)
  BY <1>0 DEF Kept
<1> QED
  BY <1>1, <1>2, <1>3, <1>4

(* So do all rounds together.                                              *)
LEMMA DrainKeeps ==
  ASSUME NEW s, NEW d, Sound(s, d), NEW t
  PROVE  Kept(s, Drain(s, t))
<1> DEFINE N == Cardinality(s.frames)
<1>1. N \in Nat
  BY FS_CardinalityType DEF Sound, FramesInv
<1>2. PICK g : IsDrain(g, s, t, N) /\ Drain(s, t) = g[N]
  BY <1>1, DrainRounds
<1> HIDE DEF N
<1> DEFINE T == {n \in 0..N : Sound(g[n], d) /\ Kept(s, g[n])}
<1>3. g[0] = s
  BY <1>1, <1>2 DEF IsDrain, Round
<1>4. 0 \in T
  BY <1>1, <1>3 DEF Kept, Sound, Typed
<1>5. ASSUME NEW n \in 0..(N - 1), n \in T PROVE n + 1 \in T
  <2>1. n + 1 \in 0..N /\ (n + 1) - 1 = n /\ n + 1 # 0
    BY <1>1
  <2>2. g[n + 1] = IF g[n].frames = {} THEN g[n] ELSE DrainFront(g[n], t)
    BY <1>2, <2>1 DEF IsDrain, Round
  <2>3. Sound(g[n], d) /\ Kept(s, g[n])
    BY <1>5
  <2>4. Sound(g[n + 1], d)
    BY <2>2, <2>3, DrainFrontSound
  <2>5. Kept(s, g[n + 1])
    BY <2>2, <2>3, DrainFrontKeeps, KeptTrans
  <2> QED
    BY <2>1, <2>4, <2>5
<1>6. \A n \in 0..(N - 1) : n \in T => n + 1 \in T
  BY <1>5
<1>7. N \in 0..N
  BY <1>1
<1>8. N \in T
  <2> HIDE DEF T
  <2>1. \A n \in 0..N : n \in T
    BY <1>1, <1>4, <1>6, Interval, Zenon
  <2> QED
    BY <1>7, <2>1
<1> QED
  BY <1>2, <1>8

(* Storing a packet keeps the numbers.                                     *)
LEMMA StoreKeeps ==
  ASSUME NEW s, NEW d, Sound(s, d), s.have = TRUE, NEW i \in Positions, NEW x, NEW t,
         NEW link \in BOOLEAN, Cardinality(Packets(s.frames)) < MaxPackets,
         \E g \in s.frames : g.ts = Stream[i].ts
  PROVE  Kept(s, Store(s, i, x, t, link))
<1> DEFINE u == Put(s, i, x, t)
           w == IF s.waiting /\ Stream[i].kind = "key" THEN AuthorizeNacks(u, Stream[i].ts, t, link) ELSE u
<1>1. Store(s, i, x, t, link) = Drain(w, t)
  BY DEF Store, Put
<1>2. Sound(u, d) /\ Kept(s, u)
  <2> HIDE DEF u
  <2>1. PICK f, h : PutEffect(s, u, f, h, i, x)
    BY PutCases DEF u
  <2>2. Same(s, u, {"frames"}) /\ {"frames"} \cap Numbers = {}
    BY <2>1 DEF PutEffect, Numbers
  <2> QED
    BY <2>1, <2>2, PutSound, SameKeeps
<1> HIDE DEF u
<1>3. LET a == AuthorizeNacks(u, Stream[i].ts, t, link) IN Sound(a, d) /\ Kept(u, a)
  <2>1. NackStep(u, AuthorizeNacks(u, Stream[i].ts, t, link))
    BY <1>2, AuthorizeStep DEF Sound, Typed
  <2>2. NackFields \cap Numbers = {}
    BY DEF NackFields, Numbers
  <2> QED
    BY <1>2, <2>1, <2>2, NackSound, SameKeeps DEF NackStep
<1>4. Sound(w, d) /\ Kept(s, w)
  BY <1>2, <1>3, KeptTrans
<1> HIDE DEF w
<1> QED
  BY <1>1, <1>4, DrainKeeps, KeptTrans

(* An overflow keeps the numbers: discarded packets count as received.     *)
LEMMA OverflowKeeps ==
  ASSUME NEW s, NEW d, Sound(s, d), NEW ts, NEW t
  PROVE  Kept(s, Overflow(s, ts, t))
<1>1. Same(s, Overflow(s, ts, t), OverflowFields)
  BY OverflowCases DEF Sound, Typed, OverflowEffect
<1>2. OverflowFields \cap Numbers = {}
  BY DEF OverflowFields, RecoveryFields, NackFields, NotifyFields, EmitFields, Numbers
<1> QED
  BY <1>1, <1>2, SameKeeps

(* Inserting a packet keeps the numbers.                                   *)
LEMMA InsertKeeps ==
  ASSUME NEW s, NEW d, Sound(s, d), Quiet(s), s.have = TRUE, NEW i \in Positions, NEW x, NEW t,
         NEW link \in BOOLEAN
  PROVE  Kept(s, Insert(s, i, x, t, link))
<1> DEFINE p == Stream[i]
           known == \E f \in s.frames : f.ts = p.ts
           fresh == Place(s, p.ts, t)
           placed == IF known THEN s ELSE fresh
           skip == ~known /\ (p.kind = "padding" \/ (s.lastTs # 0 /\ p.ts <= s.lastTs))
           full == ~known /\ Cardinality(s.frames) >= MaxFrames
           u == Insert(s, i, x, t, link)
<1>1. u = IF skip THEN Drain(s, t)
          ELSE IF full THEN Overflow(s, p.ts, t)
          ELSE IF BufferedPackets(s) >= MaxPackets THEN Overflow(placed, p.ts, t)
          ELSE Store(placed, i, x, t, link)
  BY DEF Insert
<1>2. p.ts \in Nat \ {0}
  BY Packet DEF IsPacket
<1>3. BufferedPackets(s) = Cardinality(Packets(s.frames))
  BY DEF BufferedPackets, Packets
<1>35. Kept(s, s)
  BY DEF Kept, Sound, Typed
<1>4. ASSUME ~full
      PROVE  /\ Sound(placed, d) /\ placed.have = TRUE /\ Kept(s, placed)
             /\ Packets(placed.frames) = Packets(s.frames)
             /\ \E g \in placed.frames : g.ts = p.ts
  <2>1. CASE known
    BY <1>35, <2>1
  <2>2. CASE ~known
    <3>0. Cardinality(s.frames) < MaxFrames
      <4>1. Cardinality(s.frames) \in Nat
        BY FS_CardinalityType DEF Sound, FramesInv
      <4> QED
        BY <1>4, <2>2, <4>1, SizeAssumption
    <3>4. fresh = Place(s, p.ts, t)
      OBVIOUS
    <3> HIDE DEF p, fresh
    <3>1. Sound(fresh, d) /\ PlaceEffect(s, fresh, p.ts, t)
      BY <1>2, <3>0, <3>4, PlaceSound
    <3>2. fresh.have = TRUE
      BY <3>1 DEF PlaceEffect, Same, Fields
    <3>3. \E g \in fresh.frames : g.ts = p.ts
      <4>1. EmptyFrame(p.ts, t) \in fresh.frames /\ EmptyFrame(p.ts, t).ts = p.ts
        BY <3>1 DEF EmptyFrame, PlaceEffect
      <4> QED
        BY <4>1
    <3>5. Kept(s, fresh)
      <4>1. Same(s, fresh, {"frames"}) /\ {"frames"} \cap Numbers = {}
        BY <3>1 DEF PlaceEffect, Numbers
      <4> QED
        BY <4>1, SameKeeps
    <3> QED
      BY <2>2, <3>1, <3>2, <3>3, <3>5 DEF PlaceEffect
  <2> QED
    BY <2>1, <2>2
<1> HIDE DEF known, fresh, skip, full, placed, u
<1>5. CASE skip
  BY <1>1, <1>5, DrainKeeps DEF u
<1>6. CASE ~skip /\ full
  BY <1>1, <1>2, <1>6, OverflowKeeps DEF u
<1>7. CASE ~skip /\ ~full /\ BufferedPackets(s) >= MaxPackets
  BY <1>1, <1>2, <1>4, <1>7, OverflowKeeps, KeptTrans DEF u
<1>8. CASE ~skip /\ ~full /\ ~(BufferedPackets(s) >= MaxPackets)
  <2>1. Cardinality(Packets(placed.frames)) < MaxPackets
    <3>1. Cardinality(Packets(s.frames)) \in Nat
      BY FS_CardinalityType DEF Sound, FramesInv
    <3>2. Packets(placed.frames) = Packets(s.frames)
      BY <1>4, <1>8
    <3> QED
      BY <1>3, <1>8, <3>1, <3>2, SizeAssumption
  <2>2. Sound(placed, d) /\ placed.have = TRUE /\ \E g \in placed.frames : g.ts = Stream[i].ts
    BY <1>4, <1>8
  <2>3. Kept(placed, Store(placed, i, x, t, link))
    BY <2>1, <2>2, StoreKeeps
  <2> QED
    BY <1>1, <1>4, <1>8, <2>3, KeptTrans DEF u
<1> QED
  BY <1>5, <1>6, <1>7, <1>8 DEF u

-----------------------------------------------------------------------------
(***************************************************************************)
(* The numbers of a source are in line with the packets that came: one     *)
(* offset maps every number received to the packet that bears it.  This    *)
(* needs the limits of the network (NetworkAssumption), and keeps the      *)
(* receiver report below what came.                                        *)
(***************************************************************************)

(* The packets that came.                                                  *)
Came(cp) == {i \in Positions : cp[i] > 0}

(* The next packet is near those that came *)
Near(C, i) ==
  IF C = {} THEN i \in Opening
  ELSE \E n \in C : (\A j \in C : j <= n) /\ i <= n + Ahead /\ i >= n - Behind

(* The numbers of a source are those of its packets, shifted by off *)
Lined(s, C, off) ==
  /\ off \in Int
  /\ \E m \in Int : off = First - 1 + m * SeqSpace
  /\ \A x \in s.received : x \in Nat /\ x <= s.highest /\ x - off \in C
  /\ s.highest \in s.received
  /\ s.base \in Nat /\ Behind <= s.base /\ s.base <= s.highest
  /\ Stream[s.highest - off].ssrc = s.ssrc
  /\ \A j \in C : j <= (s.highest - off) + Behind

(* The packets that the report may have counted: each one once.            *)
Counted(s, C, off) ==
  {i \in C : /\ s.base <= off + i /\ off + i <= s.highest
             /\ off + i \in s.received \/ s.highest - (off + i) >= Window}

Counts(s, C, off) == s.unique <= Cardinality(Counted(s, C, off))

(* They are finitely many.                                                 *)
LEMMA CameFinite ==
  ASSUME NEW cp
  PROVE  /\ Came(cp) \subseteq Positions /\ Came(cp) \subseteq Nat
         /\ IsFiniteSet(Positions) /\ IsFiniteSet(Came(cp))
<1>1. Positions = 1..Len(Stream) /\ Len(Stream) \in Nat
  BY StreamAssumption DEF Positions
<1>2. IsFiniteSet(Positions)
  BY <1>1, FS_Interval
<1>3. Came(cp) \subseteq Positions /\ Came(cp) \subseteq Nat
  BY <1>1 DEF Came
<1> QED
  BY <1>2, <1>3, FS_Subset

(* The network delivers packets near those that came.                      *)
LEMMA DeliverableNear ==
  ASSUME NEW i \in Positions, Deliverable(i)
  PROVE  Near(Came(copies), i)
<1> DEFINE C == Came(copies)
<1>1. C \subseteq Positions /\ C \subseteq Nat /\ IsFiniteSet(C)
  BY CameFinite
<1>2. Newest = IF C = {} THEN 0 ELSE CHOOSE n \in C : \A j \in C : j <= n
  BY DEF Newest, Came
<1> HIDE DEF C
<1>3. CASE C = {}
  BY <1>2, <1>3 DEF Near, Deliverable, C
<1>4. CASE C # {}
  <2>1. \E n \in C : \A j \in C : j <= n
    BY <1>1, <1>4, FinMax
  <2>2. Newest \in C /\ \A j \in C : j <= Newest
    BY <1>2, <1>4, <2>1
  <2>3. Newest # 0
    <3>1. \A j \in Positions : j # 0
      BY Packet
    <3> QED
      BY <1>1, <2>2, <3>1
  <2> QED
    BY <1>4, <2>2, <2>3 DEF Near, Deliverable, C
<1> QED
  BY <1>3, <1>4

(* A packet's number, once it is extended *)
LEMMA NumberKnown ==
  ASSUME NEW s, NEW C, C \subseteq Positions, NEW off, Lined(s, C, off),
         NEW i \in Positions, Near(C, i)
  PROVE  /\ Extend(s, (First + i - 1) % SeqSpace) = off + i
         /\ off + i \in Nat
         /\ i <= (s.highest - off) + Ahead + Behind
         /\ i >= (s.highest - off) - Behind
<1> DEFINE h == s.highest - off
           y == off + i
<1>1. /\ s.highest \in Nat /\ off \in Int /\ h \in C /\ s.base \in Nat
      /\ Behind <= s.base /\ s.base <= s.highest
  BY DEF Lined
<1>2. PICK m \in Int : off = First - 1 + m * SeqSpace
  BY DEF Lined
<1>3. i \in Nat \ {0} /\ First \in Nat /\ SeqSpace \in Nat \ {0} /\ Ahead \in Nat /\ Behind \in Nat
  BY Packet, SizeAssumption
<1>4. PICK n \in C : (\A j \in C : j <= n) /\ i <= n + Ahead /\ i >= n - Behind
  BY <1>1 DEF Near
<1>5. n <= h + Behind /\ h <= n /\ n \in Nat
  BY <1>1, <1>4, Packet DEF Lined
<1>6. i <= h + Ahead + Behind /\ i >= h - Behind
  BY <1>1, <1>3, <1>4, <1>5
<1>7. y \in Nat /\ y - s.highest <= Ahead + Behind /\ s.highest - y <= Behind
  BY <1>1, <1>3, <1>6
<1>8. Ahead + Behind < SeqSpace \div 2 /\ SeqSpace \div 2 \in Nat
  BY NetworkAssumption, SizeAssumption
<1>9. y - s.highest < SeqSpace \div 2 /\ s.highest - y < SeqSpace \div 2
  BY <1>1, <1>3, <1>7, <1>8
<1>10. Extend(s, y % SeqSpace) = y
  <2> HIDE DEF y
  <2> QED
    BY <1>1, <1>7, <1>9, ExtendRight
<1>11. y % SeqSpace = (First + i - 1) % SeqSpace
  <2> DEFINE a == First + i - 1
  <2>1. a \in Int /\ y = a + m * SeqSpace
    BY <1>2, <1>3, MultLeast
  <2> HIDE DEF a, y
  <2>2. (a + m * SeqSpace) % SeqSpace = a % SeqSpace
    BY <1>3, <2>1, ModShift
  <2> QED
    BY <2>1, <2>2 DEF a
<1> QED
  BY <1>6, <1>7, <1>10, <1>11

(* Where the first packet of a source starts *)
Starting(C, i) ==
  \/ C = {}
  \/ \E h \in C : /\ Stream[h].ssrc # Stream[i].ssrc
                  /\ i >= h - Behind /\ i <= h + Ahead + Behind

(* The first packet of a source sets the line.                             *)
LEMMA StartLined ==
  ASSUME NEW s, NEW C, C \subseteq Positions, NEW i \in Positions, Near(C, i), Starting(C, i),
         NEW x, x = (First + i - 1) % SeqSpace,
         s.have = TRUE, s.highest = x, s.base = x, s.unique = 1, s.received = {x},
         s.ssrc = Stream[i].ssrc
  PROVE  Lined(s, C \cup {i}, x - i) /\ Counts(s, C \cup {i}, x - i)
<1>1. i \in Nat \ {0} /\ First \in Nat /\ SeqSpace \in Nat \ {0} /\ Ahead \in Nat /\ Behind \in Nat
  BY Packet, SizeAssumption
<1>2. x \in Nat
  BY <1>1
<1>3. Behind <= x
  <2>1. i \in Beginnings
    BY DEF Near, Starting, Beginnings
  <2> QED
    BY <2>1, NetworkAssumption
<1>4. \E m \in Int : x - i = First - 1 + m * SeqSpace
  <2>1. First + i - 1 \in Int
    BY <1>1
  <2>2. PICK q \in Int : First + i - 1 = q * SeqSpace + x
    <3> DEFINE a == First + i - 1
    <3>1. a \in Int /\ x = a % SeqSpace
      BY <2>1
    <3> HIDE DEF a
    <3>2. \E q \in Int : a = q * SeqSpace + (a % SeqSpace)
      BY <1>1, <3>1, Division
    <3> QED
      BY <3>1, <3>2 DEF a
  <2>3. -q \in Int /\ (-q) * SeqSpace = -(q * SeqSpace) /\ q * SeqSpace \in Int
    BY <1>1, <2>2
  <2>4. x - i = First - 1 + (-q) * SeqSpace
    <3> DEFINE z == q * SeqSpace
               w == (-q) * SeqSpace
    <3>1. z \in Int /\ w = -z /\ First + i - 1 = z + x
      BY <2>2, <2>3
    <3> HIDE DEF z, w
    <3>2. x - i = First - 1 + w
      BY <1>1, <1>2, <3>1
    <3> QED
      BY <3>2 DEF w
  <2> QED
    BY <2>3, <2>4
<1>5. \A j \in C : j <= i + Behind
  <2> SUFFICES ASSUME NEW j \in C PROVE j <= i + Behind
    OBVIOUS
  <2>1. PICK n \in C : (\A k \in C : k <= n) /\ i >= n - Behind
    BY DEF Near
  <2>2. j \in Nat /\ n \in Nat
    BY Packet
  <2> QED
    BY <1>1, <2>1, <2>2
<1>6. x - (x - i) = i /\ (x - i) + i = x /\ x - i \in Int /\ i <= i + Behind
  BY <1>1, <1>2
<1>7. Lined(s, C \cup {i}, x - i)
  <2>1. \A z \in s.received : z \in Nat /\ z <= s.highest /\ z - (x - i) \in C \cup {i}
    BY <1>2, <1>6
  <2>2. s.highest \in s.received /\ s.base \in Nat /\ Behind <= s.base /\ s.base <= s.highest
    BY <1>2, <1>3
  <2>3. s.highest - (x - i) = i
    BY <1>6
  <2> QED
    BY <1>4, <1>5, <1>6, <2>1, <2>2, <2>3 DEF Lined
<1>8. Counts(s, C \cup {i}, x - i)
  <2> DEFINE K == Counted(s, C \cup {i}, x - i)
  <2>1. i \in K
    BY <1>2, <1>6 DEF Counted
  <2>2. IsFiniteSet(K)
    <3>1. IsFiniteSet(Positions) /\ K \subseteq Positions
      BY CameFinite DEF Counted
    <3> QED
      BY <3>1, FS_Subset
  <2> HIDE DEF K
  <2>3. Cardinality(K) \in Nat /\ Cardinality(K) # 0
    BY <2>1, <2>2, FS_CardinalityType, FS_EmptySet
  <2> QED
    BY <2>3 DEF Counts, K
<1> QED
  BY <1>7, <1>8

(* Every other packet of the source is noted in line.                      *)
LEMMA NotedLined ==
  ASSUME NEW s, NEW u, NEW C, C \subseteq Positions, NEW i \in Positions, Near(C, i), NEW off,
         Lined(s, C, off), Counts(s, C, off), s.have = TRUE, s.unique \in Nat,
         NEW x, x = off + i, Noted(s, u, x), u.ssrc = s.ssrc, s.ssrc = Stream[i].ssrc
  PROVE  Lined(u, C \cup {i}, off) /\ Counts(u, C \cup {i}, off) /\ u.have = TRUE
<1>1. /\ x \in Nat /\ i <= (s.highest - off) + Ahead + Behind /\ i >= (s.highest - off) - Behind
  BY NumberKnown
<1>2. /\ s.highest \in Nat /\ off \in Int /\ s.base \in Nat /\ s.highest - off \in C
      /\ Behind <= s.base /\ s.base <= s.highest /\ s.highest \in s.received
      /\ \A y \in s.received : y \in Nat /\ y <= s.highest /\ y - off \in C
      /\ \A j \in C : j <= (s.highest - off) + Behind
      /\ \E m \in Int : off = First - 1 + m * SeqSpace
      /\ Stream[s.highest - off].ssrc = s.ssrc
  BY DEF Lined
<1>3. i \in Nat \ {0} /\ Ahead \in Nat /\ Behind \in Nat /\ Window \in Nat \ {0} /\ x - off = i /\ C \subseteq Nat
      /\ \A j \in C : j \in Int
  <2>1. i \in Nat \ {0} /\ Ahead \in Nat /\ Behind \in Nat /\ Window \in Nat \ {0}
    BY Packet, SizeAssumption
  <2>2. \A j \in C : j \in Nat
    BY Packet
  <2>3. x - off = i
    BY <1>2, <2>1
  <2> QED
    BY <2>1, <2>2, <2>3
<1> DEFINE D == C \cup {i}
           K == Counted(s, C, off)
           L == Counted(u, D, off)
<1>4. IsFiniteSet(K) /\ IsFiniteSet(L) /\ Cardinality(K) \in Nat /\ Cardinality(L) \in Nat
  <2>1. IsFiniteSet(Positions) /\ K \subseteq Positions /\ L \subseteq Positions
    BY CameFinite DEF Counted
  <2> HIDE DEF K, L
  <2> QED
    BY <2>1, FS_Subset, FS_CardinalityType
<1>5. ASSUME K \subseteq L PROVE Cardinality(K) <= Cardinality(L)
  <2> HIDE DEF K, L
  <2> QED
    BY <1>4, <1>5, FS_Subset
<1>6. ASSUME K \subseteq L, i \in L, i \notin K PROVE Cardinality(K) + 1 <= Cardinality(L)
  <2> HIDE DEF K, L
  <2>1. K \cup {i} \subseteq L
    BY <1>6
  <2>2. IsFiniteSet(K \cup {i}) /\ Cardinality(K \cup {i}) = Cardinality(K) + 1
    BY <1>4, <1>6, FS_AddElement
  <2> QED
    BY <1>4, <2>1, <2>2, FS_Subset
<1>65. s.unique <= Cardinality(K)
  BY DEF Counts
<1>66. ASSUME u.unique <= Cardinality(L) PROVE Counts(u, D, off)
  BY <1>66 DEF Counts
<1>7. CASE IsDuplicate(s, x) /\ u = s
  <2>1. x <= s.highest
    BY <1>7 DEF IsDuplicate
  <2>2. \A j \in D : j <= (s.highest - off) + Behind
    BY <1>1, <1>2, <1>3, <2>1
  <2>3. Lined(u, D, off)
    <3>1. \A y \in s.received : y \in Nat /\ y <= s.highest /\ y - off \in D
      BY <1>2
    <3> QED
      BY <1>2, <1>7, <2>2, <3>1 DEF Lined
  <2>4. K \subseteq L
    BY <1>7 DEF Counted
  <2>5. u.unique <= Cardinality(L)
    <3>1. Cardinality(K) <= Cardinality(L)
      BY <1>5, <2>4
    <3> HIDE DEF K, L
    <3> QED
      BY <1>4, <1>65, <1>7, <3>1
  <2> QED
    BY <1>66, <1>7, <2>3, <2>5
<1>8. CASE /\ x > s.highest /\ u.highest = x /\ u.base = s.base /\ u.unique = s.unique + 1
           /\ u.received = Shifted(s, x) /\ u.have = TRUE
  <2>1. Lined(u, D, off)
    <3>1. \A y \in u.received : y \in Nat /\ y <= u.highest /\ y - off \in D
      BY <1>1, <1>2, <1>3, <1>8 DEF Shifted
    <3>2. u.highest \in u.received /\ u.base \in Nat /\ Behind <= u.base /\ u.base <= u.highest
      BY <1>1, <1>2, <1>8 DEF Shifted
    <3>3. u.highest - off = i
      BY <1>3, <1>8
    <3>4. \A j \in D : j <= i + Behind
      BY <1>2, <1>3, <1>8
    <3> QED
      BY <1>2, <3>1, <3>2, <3>3, <3>4 DEF Lined
  <2>2. K \subseteq L
    <3> SUFFICES ASSUME NEW j \in K PROVE j \in L
      OBVIOUS
    <3>1. /\ j \in D /\ s.base <= off + j /\ off + j <= s.highest /\ off + j \in Int
          /\ off + j \in s.received \/ s.highest - (off + j) >= Window
      <4>1. /\ j \in C /\ s.base <= off + j /\ off + j <= s.highest
            /\ off + j \in s.received \/ s.highest - (off + j) >= Window
        BY DEF Counted
      <4>2. off + j \in Int
        BY <1>2, <1>3, <4>1
      <4> QED
        BY <4>1, <4>2
    <3>2. off + j <= x
      BY <1>1, <1>2, <1>8, <3>1
    <3>3. off + j \in u.received \/ x - (off + j) >= Window
      BY <1>1, <1>2, <1>3, <1>8, <3>1 DEF Shifted
    <3> QED
      BY <1>8, <3>1, <3>2, <3>3 DEF Counted
  <2>3. i \in L /\ i \notin K
    <3>1. s.base <= x
      BY <1>1, <1>2, <1>8
    <3>2. x \in u.received
      BY <1>8 DEF Shifted
    <3>3. x <= x /\ ~(x <= s.highest)
      BY <1>1, <1>2, <1>8
    <3> QED
      BY <1>8, <3>1, <3>2, <3>3 DEF Counted
  <2>4. u.unique <= Cardinality(L)
    <3>1. Cardinality(K) + 1 <= Cardinality(L)
      BY <1>6, <2>2, <2>3
    <3> HIDE DEF K, L
    <3> QED
      BY <1>4, <1>65, <1>8, <3>1
  <2> QED
    BY <1>66, <1>8, <2>1, <2>4
<1>9. CASE /\ ~IsDuplicate(s, x) /\ x <= s.highest /\ u.highest = s.highest /\ u.base = s.base
           /\ u.received = s.received \cup {x} /\ u.have = TRUE
           /\ u.unique = IF x >= s.base THEN s.unique + 1 ELSE s.unique
  <2>1. Lined(u, D, off)
    <3>1. \A y \in u.received : y \in Nat /\ y <= u.highest /\ y - off \in D
      BY <1>1, <1>2, <1>3, <1>9
    <3>2. u.highest \in u.received /\ u.base \in Nat /\ Behind <= u.base /\ u.base <= u.highest
      BY <1>2, <1>9
    <3>3. i <= (u.highest - off) + Behind
      BY <1>1, <1>2, <1>3, <1>9
    <3>4. \A j \in D : j <= (u.highest - off) + Behind
      BY <1>2, <1>9, <3>3
    <3> QED
      BY <1>2, <1>9, <3>1, <3>2, <3>4 DEF Lined
  <2>2. K \subseteq L
    BY <1>9 DEF Counted
  <2>3. x \notin s.received /\ ~(s.highest - x >= Window)
    BY <1>9 DEF IsDuplicate
  <2>4. i \notin K
    BY <2>3 DEF Counted
  <2>5. u.unique <= Cardinality(L)
    <3>1. CASE x >= s.base
      <4>1. i \in L
        <5>1. s.base <= x /\ x \in u.received
          BY <1>1, <1>2, <1>9, <3>1
        <5> QED
          BY <1>9, <5>1 DEF Counted
      <4>2. Cardinality(K) + 1 <= Cardinality(L)
        BY <1>6, <2>2, <2>4, <4>1
      <4> HIDE DEF K, L
      <4> QED
        BY <1>4, <1>65, <1>9, <3>1, <4>2
    <3>2. CASE ~(x >= s.base)
      <4>2. Cardinality(K) <= Cardinality(L)
        BY <1>5, <2>2
      <4> HIDE DEF K, L
      <4> QED
        BY <1>4, <1>65, <1>9, <3>2, <4>2
    <3> QED
      BY <3>1, <3>2
  <2> QED
    BY <1>66, <1>9, <2>1, <2>5
<1> QED
  BY <1>7, <1>8, <1>9 DEF Noted

-----------------------------------------------------------------------------
(***************************************************************************)
(* The invariant behind the promise to the decoder.  Each callback in the  *)
(* queue is a step of FrameDelivery; every packet that came and can still  *)
(* be wanted is in its frame; and as long as no request is under way the   *)
(* buffer knows where the next frame starts.                               *)
(***************************************************************************)

(* The frames of the stream.                                               *)
Times == {Stream[i].ts : i \in Positions}

(* A step of the promise, on the decoder's record *)
May(d, e) ==
  \/ e = d
  \/ e = [d EXCEPT !.asked = TRUE]
  \/ e = NoPicture
  \/ \E f \in Times :
       \/ f > d.forgotten /\ e = [d EXCEPT !.forgotten = f]
       \/ f > d.shown /\ e = [d EXCEPT !.shown = f, !.chain = "whole", !.asked = FALSE]
       \/ d.chain # "none" /\ f = d.shown + 1 /\ e = [d EXCEPT !.shown = f]
       \/ /\ d.chain # "none" /\ (d.asked = TRUE \/ d.shown < d.forgotten) /\ f > d.shown
          /\ e = [d EXCEPT !.shown = f, !.chain = "broken"]

(* Every callback in the queue is a step of the promise *)
Steps(s, d) ==
  \A n \in DOMAIN s.out : May(IF n = 1 THEN d ELSE s.out[n - 1].then, s.out[n].then)

(* A callback that is a step of the promise may be added.                  *)
LEMMA EmittedSteps ==
  ASSUME NEW s, NEW d, Queued(s, d), Steps(s, d), NEW u, NEW e, Emitted(s, u, e),
         May(s.decoder, e.then)
  PROVE  Steps(u, d)
<1> DEFINE N == Len(s.out)
<1>1. s.out \in Seq(Events) /\ N \in Nat /\ DOMAIN s.out = 1..N
  BY DEF Queued
<1>2. u.out = Append(s.out, e)
  BY DEF Emitted
<1>3. DOMAIN u.out = 1..(N + 1) /\ u.out[N + 1] = e /\ \A n \in 1..N : u.out[n] = s.out[n]
  BY <1>1, <1>2
<1>4. s.decoder = IF N = 0 THEN d ELSE s.out[N].then
  <2>1. s.out = <<>> <=> N = 0
    BY <1>1, EmptySeq
  <2> QED
    BY <2>1 DEF Queued
<1> HIDE DEF N
<1> SUFFICES ASSUME NEW n \in 1..(N + 1)
             PROVE  May(IF n = 1 THEN d ELSE u.out[n - 1].then, u.out[n].then)
  BY <1>3 DEF Steps
<1>5. CASE n = N + 1
  <2>1. (IF n = 1 THEN d ELSE u.out[n - 1].then) = s.decoder
    <3>1. CASE N = 0
      BY <1>4, <1>5, <3>1
    <3>2. CASE N # 0
      <4>1. n # 1 /\ n - 1 = N /\ N \in 1..N
        BY <1>1, <1>5, <3>2
      <4> QED
        BY <1>3, <1>4, <3>2, <4>1
    <3> QED
      BY <3>1, <3>2
  <2> QED
    BY <1>3, <1>5, <2>1
<1>6. CASE n # N + 1
  <2>1. n \in 1..N /\ (n # 1 => n - 1 \in 1..N)
    BY <1>1, <1>6
  <2>2. May(IF n = 1 THEN d ELSE s.out[n - 1].then, s.out[n].then)
    BY <1>1, <2>1 DEF Steps
  <2>3. (IF n = 1 THEN d ELSE u.out[n - 1].then) = (IF n = 1 THEN d ELSE s.out[n - 1].then)
    BY <1>3, <2>1
  <2> QED
    BY <1>3, <2>1, <2>2, <2>3
<1> QED
  BY <1>5, <1>6

(* A request is a step of the promise.                                     *)
LEMMA AskingSteps ==
  ASSUME NEW s, NEW d, Queued(s, d), Steps(s, d), NEW u, Asking(s, u)
  PROVE  Steps(u, d)
<1>1. CASE u.out = s.out
  BY <1>1 DEF Steps
<1>2. CASE Emitted(s, u, Event("ask", 0, [s.decoder EXCEPT !.asked = TRUE]))
  <2>1. Event("ask", 0, [s.decoder EXCEPT !.asked = TRUE]).then = [s.decoder EXCEPT !.asked = TRUE]
    BY DEF Event
  <2>2. May(s.decoder, [s.decoder EXCEPT !.asked = TRUE])
    BY DEF May
  <2> QED
    BY <1>2, <2>1, <2>2, EmittedSteps
<1> QED
  BY <1>1, <1>2 DEF Asking

(* A callback of any kind, if it is a step of the promise.                 *)
LEMMA EventSteps ==
  ASSUME NEW s, NEW d, Queued(s, d), Steps(s, d), NEW u, NEW kind, NEW ts, NEW then,
         Emitted(s, u, Event(kind, ts, then)), May(s.decoder, then)
  PROVE  Steps(u, d)
<1>1. Event(kind, ts, then).then = then
  BY DEF Event
<1> QED
  BY <1>1, EmittedSteps

(* Frames and what is known of the packets in them *)
Placed(s, off) ==
  /\ \A f \in s.frames :
       /\ f.ts \in Times /\ f.ts > s.lastTs
       /\ \A k \in f.packets : /\ k.pos \in Positions /\ k.seq \in Nat /\ k.seq = off + k.pos
                               /\ Stream[k.pos].ts = f.ts
  /\ \A f, g \in s.frames : f.ts = g.ts => f = g

(* A packet as frames hold it.                                             *)
Pkt(x, p) == [seq |-> x, pos |-> p]

(* A packet that came and can still be wanted is in a frame *)
Stored(s, off, X) ==
  \A x \in s.received \ X :
    /\ Stream[x - off].kind # "padding"
    /\ Stream[x - off].ts > s.lastTs
    /\ Stream[x - off].ts > s.decoder.forgotten
    => \E g \in s.frames : Pkt(x, x - off) \in g.packets

(* While no request is under way the buffer knows where the next frame starts *)
Follows(s, off) ==
  s.waiting = FALSE /\ s.decoder.asked = FALSE =>
    /\ s.lastTs = s.decoder.shown
    /\ s.lastSeq \in Nat
    /\ \A p \in Positions : Stream[p].kind # "padding" =>
         (Stream[p].ts <= s.lastTs <=> off + p <= s.lastSeq)

(* No frame is shown that is not behind the buffer, and none before a key  *)
(* frame.                                                                  *)
DecodeInv(s) ==
  /\ s.decoder.shown <= s.lastTs
  /\ s.waiting = FALSE => s.decoder.chain # "none"

(* The invariant of the second layer.                                      *)
Good(s, d, C, off, X) ==
  /\ Lined(s, C, off)
  /\ Placed(s, off)
  /\ Stored(s, off, X)
  /\ Follows(s, off)
  /\ DecodeInv(s)
  /\ Steps(s, d)

(* Numbers that are kept stay in line.                                     *)
LEMMA KeptLined ==
  ASSUME NEW s, NEW u, Kept(s, u), NEW C, NEW off, Lined(s, C, off)
  PROVE  Lined(u, C, off)
BY KeptFields DEF Lined

(* A frame has finitely many packets.                                      *)
LEMMA PacketsFinite ==
  ASSUME NEW s, FramesInv(s), NEW f \in s.frames
  PROVE  IsFiniteSet(f.packets)
<1>1. f.packets \subseteq Packets(s.frames)
  BY DEF Packets
<1> QED
  BY <1>1, FS_Subset DEF FramesInv

(* A frame with a marker bit has a last packet with one.                   *)
LEMMA MarkerIs ==
  ASSUME NEW s, FramesInv(s), NEW off, Placed(s, off), NEW f \in s.frames, Markers(f) # {}
  PROVE  /\ Marker(f) \in Markers(f)
         /\ \A m \in Markers(f) : m.seq <= Marker(f).seq
<1> DEFINE S == {k.seq : k \in Markers(f)}
<1>1. Markers(f) \subseteq f.packets
  BY DEF Markers, Media
<1>2. S \subseteq Nat /\ S # {}
  BY <1>1 DEF Placed
<1>3. IsFiniteSet(S)
  <2>1. IsFiniteSet(Markers(f))
    BY <1>1, PacketsFinite, FS_Subset
  <2> DEFINE g == [k \in Markers(f) |-> k.seq]
  <2>2. g \in Surjection(Markers(f), S)
    BY Zenon DEF Surjection
  <2> HIDE DEF g, S
  <2> QED
    BY <2>1, <2>2, FS_Surjection
<1>4. \E x \in S : \A y \in S : y <= x
  <2> HIDE DEF S
  <2> QED
    BY <1>2, <1>3, FinMax
<1>5. \E k \in Markers(f) : \A m \in Markers(f) : m.seq <= k.seq
  BY <1>4
<1> QED
  BY <1>5 DEF Marker

(* A frame with a payload has a first packet with one.                     *)
LEMMA FirstMediaIs ==
  ASSUME NEW s, NEW off, Placed(s, off), NEW f \in s.frames, Media(f) # {}
  PROVE  /\ FirstMedia(f) \in Media(f)
         /\ \A m \in Media(f) : FirstMedia(f).seq <= m.seq
<1> DEFINE S == {k.seq : k \in Media(f)}
<1>1. Media(f) \subseteq f.packets
  BY DEF Media
<1>2. S \in SUBSET Nat /\ S # {}
  BY <1>1 DEF Placed
<1>4. \E x \in S : \A y \in S : x <= y
  <2> HIDE DEF S
  <2> QED
    BY <1>2, NatLeast
<1>5. \E k \in Media(f) : \A m \in Media(f) : k.seq <= m.seq
  BY <1>4
<1> QED
  BY <1>5 DEF FirstMedia

(* The marker separates a frame and those before it from those after it *)
LEMMA MarkerSplits ==
  ASSUME NEW q \in Positions, Stream[q].kind # "padding", Stream[q].marker,
         NEW p \in Positions, Stream[p].kind # "padding"
  PROVE  Stream[p].ts <= Stream[q].ts <=> p <= q
<1>1. p \in Nat /\ q \in Nat /\ Stream[p].ts \in Nat /\ Stream[q].ts \in Nat
  BY Packet DEF IsPacket
<1>2. p <= q => Stream[p].ts <= Stream[q].ts
  BY SenderAssumption
<1>3. q <= p => Stream[q].ts <= Stream[p].ts
  BY SenderAssumption
<1>4. Stream[p].ts = Stream[q].ts => p <= q
  BY SenderAssumption DEF FrameOf
<1> QED
  BY <1>1, <1>2, <1>3, <1>4

-----------------------------------------------------------------------------
(***************************************************************************)
(* The heart of the argument: a picture handed on as complete while no     *)
(* request is under way is the next one of the stream, with all its        *)
(* packets.                                                                *)
(***************************************************************************)

(* A frame that is handed on complete, with no request under way, is the    *)
(* next one of the stream and has all its packets                           *)
LEMMA NextIsWhole ==
  ASSUME NEW s, NEW d, Sound(s, d), NEW C, C \subseteq Positions, NEW off,
         Good(s, d, C, off, {}), s.frames # {}, NEW f, f = Front(s),
         Assemble(s, f) = "complete", s.waiting = FALSE, s.decoder.asked = FALSE,
         ~BodyKey(f), s.decoder.forgotten <= s.decoder.shown
  PROVE  f.ts = s.decoder.shown + 1 /\ WholeFrame(f)
<1>1. f \in s.frames /\ \A g \in s.frames : f.ts <= g.ts
  BY FrontIsIn DEF Sound
<1>2. /\ Placed(s, off) /\ Lined(s, C, off) /\ Stored(s, off, {})
      /\ s.lastTs = s.decoder.shown /\ s.lastSeq \in Nat
      /\ \A p \in Positions : Stream[p].kind # "padding" =>
           (Stream[p].ts <= s.lastTs <=> off + p <= s.lastSeq)
  BY DEF Good, Follows
<1>3. /\ Markers(f) # {} /\ RangeReceived(s, FirstMedia(f).seq, Marker(f).seq)
      /\ ~FollowsHole(s, f)
  BY DEF Assemble
<1> DEFINE a == FirstMedia(f)
           b == Marker(f)
<1>4. b \in Markers(f) /\ b \in Media(f) /\ Stream[b.pos].marker
  BY <1>1, <1>2, <1>3, MarkerIs DEF Sound, Markers
<1>5. a \in Media(f) /\ \A m \in Media(f) : a.seq <= m.seq
  BY <1>1, <1>2, <1>4, FirstMediaIs
<1>6. ~(a.seq > s.lastSeq + 1) \/ RangeReceived(s, s.lastSeq + 1, a.seq - 1)
  <2>1. s.lastSeq # None
    BY <1>2 DEF None
  <2>2. HasKey([packets |-> Body(f)]) = BodyKey(f)
    BY DEF BodyKey
  <2> QED
    BY <1>3, <2>1, <2>2 DEF FollowsHole
<1> HIDE DEF a, b
<1>7. /\ a.pos \in Positions /\ a.seq \in Nat /\ a.seq = off + a.pos /\ Stream[a.pos].ts = f.ts
      /\ b.pos \in Positions /\ b.seq \in Nat /\ b.seq = off + b.pos /\ Stream[b.pos].ts = f.ts
      /\ Stream[a.pos].kind # "padding" /\ Stream[b.pos].kind # "padding"
      /\ f.ts > s.lastTs /\ f.ts \in Nat /\ s.lastTs \in Nat /\ off \in Int
  <2>1. Media(f) \subseteq f.packets /\ \A k \in Media(f) : Stream[k.pos].kind # "padding"
    BY DEF Media
  <2>2. f.ts \in Nat /\ s.lastTs \in Nat
    BY <1>1 DEF Sound, FramesInv, Typed
  <2>3. off \in Int
    BY <1>2 DEF Lined
  <2>4. f.ts > s.lastTs /\ \A k \in f.packets : /\ k.pos \in Positions /\ k.seq \in Nat /\ k.seq = off + k.pos
                               /\ Stream[k.pos].ts = f.ts
    BY <1>1, <1>2 DEF Placed
  <2>5. a \in f.packets /\ b \in f.packets
    BY <1>4, <1>5, <2>1
  <2> QED
    BY <1>4, <1>5, <2>1, <2>2, <2>3, <2>4, <2>5
(* every number between the last frame and the marker has come *)
<1>8. ASSUME NEW y \in Int, s.lastSeq < y, y <= b.seq
      PROVE  y \in s.received
  <2>1. CASE y >= a.seq
    BY <1>3, <1>7, <1>8, <2>1 DEF RangeReceived, WasReceived, a, b
  <2>2. CASE y < a.seq
    <3>1. a.seq > s.lastSeq + 1 /\ s.lastSeq + 1 <= y /\ y <= a.seq - 1
      BY <1>2, <1>7, <1>8, <2>2
    <3>2. RangeReceived(s, s.lastSeq + 1, a.seq - 1)
      BY <1>6, <3>1
    <3>3. ~(a.seq - 1 < s.lastSeq + 1) /\ y \in (s.lastSeq + 1)..(a.seq - 1)
      BY <1>2, <1>7, <3>1
    <3> QED
      BY <3>2, <3>3 DEF RangeReceived, WasReceived
  <2> QED
    BY <1>7, <2>1, <2>2
(* so a packet there of a later frame than the last is in this one *)
<1>9. ASSUME NEW p \in Positions, Stream[p].kind # "padding", Stream[p].ts > s.lastTs,
             p <= b.pos
      PROVE  Stream[p].ts = f.ts /\ p \in {k.pos : k \in Body(f)}
  <2>1. p \in Nat /\ Stream[p].ts \in Nat /\ b.pos \in Nat
    BY <1>7, Packet DEF IsPacket
  <2>2. off + p \in Int /\ s.lastSeq < off + p /\ off + p <= b.seq
    <3>1. ~(off + p <= s.lastSeq)
      BY <1>2, <1>7, <1>9, <2>1
    <3> QED
      BY <1>2, <1>7, <1>9, <2>1, <3>1
  <2>3. off + p \in s.received /\ (off + p) - off = p
    BY <1>7, <1>8, <2>1, <2>2
  <2>4. Stream[p].ts > s.decoder.forgotten
    <3>1. s.decoder.forgotten \in Nat /\ s.decoder.shown \in Nat
      BY DEF Sound, Queued, Decoders
    <3> QED
      BY <1>2, <1>9, <2>1, <3>1
  <2>5. PICK g \in s.frames : Pkt(off + p, p) \in g.packets
    <3>1. off + p \in s.received \ {}
      BY <2>3
    <3> QED
      BY <1>2, <1>9, <2>3, <2>4, <3>1 DEF Stored
  <2>6. g.ts = Stream[p].ts
    BY <1>2, <2>5 DEF Placed, Pkt
  <2>7. Stream[p].ts <= f.ts
    BY <1>7, <1>9, <2>1, SenderAssumption
  <2>8. Stream[p].ts = f.ts
    BY <1>1, <1>7, <2>1, <2>6, <2>7
  <2>9. g = f
    BY <1>1, <1>2, <2>6, <2>8 DEF Placed
  <2>10. Pkt(off + p, p) \in Body(f)
    <3>1. Pkt(off + p, p).pos = p /\ Pkt(off + p, p).seq = off + p
      BY DEF Pkt
    <3> QED
      BY <1>9, <2>2, <2>5, <2>9, <3>1 DEF Body, Media, b
  <2>11. Pkt(off + p, p).pos = p
    BY DEF Pkt
  <2> QED
    BY <2>8, <2>10, <2>11
<1>10. s.decoder.shown \in Nat
  BY DEF Sound, Queued, Decoders
<1>11. f.ts = s.decoder.shown + 1
  <2> SUFFICES ASSUME f.ts # s.decoder.shown + 1 PROVE FALSE
    OBVIOUS
  <2> DEFINE n == s.decoder.shown + 1
  <2>1. n \in 1..Stream[b.pos].ts /\ n < f.ts /\ n > s.lastTs
    BY <1>2, <1>7, <1>10
  <2>2. PICK p \in Positions : Stream[p].ts = n /\ Stream[p].kind # "padding"
    <3> HIDE DEF n
    <3> QED
      BY <1>7, <2>1, SenderAssumption DEF FrameOf
  <2>3. p <= b.pos
    <3>1. ~(b.pos <= p)
      BY <1>7, <1>10, <2>1, <2>2, SenderAssumption
    <3>2. p \in Nat /\ b.pos \in Nat
      BY <1>7, Packet
    <3> QED
      BY <3>1, <3>2
  <2>4. Stream[p].ts = f.ts
    BY <1>9, <2>1, <2>2, <2>3
  <2> QED
    BY <1>10, <2>1, <2>2, <2>4
<1>12. WholeFrame(f)
  <2> SUFFICES ASSUME NEW p \in FrameOf(f.ts) PROVE p \in {k.pos : k \in Body(f)}
    BY DEF WholeFrame
  <2>1. p \in Positions /\ Stream[p].ts = f.ts /\ Stream[p].kind # "padding"
    BY DEF FrameOf
  <2>2. p <= b.pos
    BY <1>4, <1>7, <1>10, <2>1, MarkerSplits
  <2> QED
    BY <1>7, <1>9, <2>1, <2>2
<1> QED
  BY <1>11, <1>12

(* Taking the front frame away keeps what is known of the others *)
LEMMA PoppedPlaced ==
  ASSUME NEW s, NEW d, Sound(s, d), s.frames # {}, NEW off, Placed(s, off), Stored(s, off, {}),
         \A x \in s.received : x - off \in Positions,
         NEW u, NEW f, f = Front(s), u.frames = s.frames \ {f}, u.lastTs = f.ts,
         u.received = s.received, u.decoder.forgotten = s.decoder.forgotten
  PROVE  Placed(u, off) /\ Stored(u, off, {})
<1>1. f \in s.frames /\ \A g \in s.frames : f.ts <= g.ts
  BY FrontIsIn DEF Sound
<1>2. s.lastTs \in Nat /\ \A g \in s.frames : g.ts \in Nat
  BY DEF Sound, Typed, FramesInv
<1>3. \A g \in u.frames : g \in s.frames /\ g.ts > f.ts
  <2> SUFFICES ASSUME NEW g \in u.frames PROVE g \in s.frames /\ g.ts > f.ts
    OBVIOUS
  <2>1. g \in s.frames /\ g # f
    OBVIOUS
  <2>2. g.ts # f.ts
    BY <1>1, <2>1 DEF Placed
  <2> QED
    BY <1>1, <1>2, <2>1, <2>2
<1>4. Placed(u, off)
  BY <1>3 DEF Placed
<1>5. Stored(u, off, {})
  <2> SUFFICES ASSUME NEW x \in u.received \ {}, Stream[x - off].kind # "padding",
                      Stream[x - off].ts > u.lastTs, Stream[x - off].ts > u.decoder.forgotten
               PROVE  \E g \in u.frames : Pkt(x, x - off) \in g.packets
    BY DEF Stored
  <2>0. x - off \in Positions /\ x \in s.received \ {}
    OBVIOUS
  <2>1. Stream[x - off].ts \in Nat
    BY <2>0, Packet DEF IsPacket
  <2>2. Stream[x - off].ts > s.lastTs
    <3>1. f.ts > s.lastTs
      BY <1>1 DEF Placed
    <3> QED
      BY <1>1, <1>2, <2>1, <3>1
  <2>3. PICK g \in s.frames : Pkt(x, x - off) \in g.packets
    BY <2>0, <2>2 DEF Stored
  <2>4. g.ts = Stream[x - off].ts
    BY <2>3 DEF Placed, Pkt
  <2>5. g # f
    BY <1>1, <1>2, <2>1, <2>4
  <2> QED
    BY <2>3, <2>5
<1> QED
  BY <1>4, <1>5

-----------------------------------------------------------------------------
(***************************************************************************)
(* The rounds of drain() keep the invariant.                               *)
(***************************************************************************)

(* The three forms of what the decoder has after a frame.                  *)
LEMMA HandForms ==
  ASSUME NEW d \in Decoders, NEW f, f.ts \in Nat
  PROVE  /\ Hand(d, f, TRUE) = [d EXCEPT !.shown = f.ts, !.chain = "whole", !.asked = FALSE]
         /\ f.ts = d.shown + 1 /\ WholeFrame(f) => Hand(d, f, FALSE) = [d EXCEPT !.shown = f.ts]
         /\ ~(f.ts = d.shown + 1 /\ WholeFrame(f)) =>
              Hand(d, f, FALSE) = [d EXCEPT !.shown = f.ts, !.chain = "broken"]
<1> DEFINE w == f.ts = d.shown + 1 /\ WholeFrame(f)
<1> HIDE DEF w
<1>1. Hand(d, f, TRUE) = [d EXCEPT !.shown = f.ts, !.chain = "whole", !.asked = FALSE]
  BY DEF Hand, Decoders
<1>2. ASSUME w PROVE Hand(d, f, FALSE) = [d EXCEPT !.shown = f.ts]
  BY <1>2 DEF Hand, Decoders, w
<1>3. ASSUME ~w PROVE Hand(d, f, FALSE) = [d EXCEPT !.shown = f.ts, !.chain = "broken"]
  BY <1>3 DEF Hand, Decoders, w
<1> QED
  BY <1>1, <1>2, <1>3 DEF w

(* What they have in common.                                               *)
LEMMA HandFieldsAre ==
  ASSUME NEW d \in Decoders, NEW f, f.ts \in Nat
  PROVE  /\ Hand(d, f, TRUE).shown = f.ts /\ Hand(d, f, TRUE).forgotten = d.forgotten
         /\ Hand(d, f, TRUE).chain = "whole"
         /\ Hand(d, f, FALSE).shown = f.ts /\ Hand(d, f, FALSE).forgotten = d.forgotten
         /\ Hand(d, f, FALSE).asked = d.asked
         /\ Hand(d, f, FALSE).chain \in {d.chain, "broken"}
<1>1. TRUE \in BOOLEAN /\ FALSE \in BOOLEAN
  OBVIOUS
<1>2. /\ Hand(d, f, TRUE).shown = f.ts /\ Hand(d, f, TRUE).forgotten = d.forgotten
      /\ Hand(d, f, TRUE).chain = "whole"
  BY DEF Hand, Decoders
<1>3. /\ Hand(d, f, FALSE).shown = f.ts /\ Hand(d, f, FALSE).forgotten = d.forgotten
      /\ Hand(d, f, FALSE).asked = d.asked
  BY DEF Hand, Decoders
<1>4. Hand(d, f, FALSE).chain \in {d.chain, "broken"}
  BY DEF Hand, Decoders
<1> QED
  BY <1>2, <1>3, <1>4

(* Each is a step of the promise when its time has come.                   *)
LEMMA MayShow ==
  ASSUME NEW d, NEW x \in Times
  PROVE  /\ x > d.shown => May(d, [d EXCEPT !.shown = x, !.chain = "whole", !.asked = FALSE])
         /\ d.chain # "none" /\ x = d.shown + 1 => May(d, [d EXCEPT !.shown = x])
         /\ d.chain # "none" /\ (d.asked = TRUE \/ d.shown < d.forgotten) /\ x > d.shown
              => May(d, [d EXCEPT !.shown = x, !.chain = "broken"])
         /\ x > d.forgotten => May(d, [d EXCEPT !.forgotten = x])
BY Zenon DEF May

(* Handing on keeps the invariant: what is shown without a request has     *)
(* been shown to be whole.                                                 *)
LEMMA HandOnGood ==
  ASSUME NEW s, NEW d, Sound(s, d), NEW C, C \subseteq Positions, NEW off,
         Good(s, d, C, off, {}), s.frames # {}, NEW t, NEW hole \in BOOLEAN,
         Assemble(s, Front(s)) = (IF hole THEN "discontinuous" ELSE "complete"),
         NEW u, u = HandOn(s, t, hole)
  PROVE  Good(u, d, C, off, {})
<1> DEFINE f == Front(s)
<1>1. f \in s.frames /\ f.ts \in Nat /\ f.ts \in Times /\ f.ts > s.lastTs
  BY FrontIsIn DEF Sound, FramesInv, Good, Placed
<1>2. /\ DOMAIN s = Fields /\ RangesInv(s) /\ s.notified \in BOOLEAN /\ s.waiting \in BOOLEAN
      /\ s.soft \in BOOLEAN /\ s.decoder \in Decoders /\ Queued(s, d) /\ s.lastTs \in Nat
      /\ (s.notified = TRUE => s.decoder.asked = TRUE)
  BY DEF Sound, Typed, Queued, AskedInv
<1>3. HandOnEffect(s, u, f, hole) /\ (Withheld(s, u, f) \/ KeyShown(s, u, f) \/ DeltaShown(s, u, f, hole))
  BY <1>2, HandOnCases
<1>35. Assemble(s, f) = (IF hole THEN "discontinuous" ELSE "complete")
  OBVIOUS
<1>36. f = Front(s)
  OBVIOUS
<1> HIDE DEF f
<1>4. /\ s.decoder.shown \in Nat /\ s.decoder.forgotten \in Nat /\ s.decoder.asked \in BOOLEAN
      /\ f.ts > s.decoder.shown
  <2>1. s.decoder.shown \in Nat /\ s.decoder.forgotten \in Nat /\ s.decoder.asked \in BOOLEAN
    BY <1>2 DEF Decoders
  <2>2. s.decoder.shown <= s.lastTs
    BY DEF Good, DecodeInv
  <2> QED
    BY <1>1, <1>2, <2>1, <2>2
<1>5. Kept(s, u) /\ u.received = s.received /\ u.lastTs = f.ts /\ u.frames = s.frames \ {f}
      /\ u.lastSeq = IF hole THEN 0 ELSE Marker(f).seq
  <2>1. Same(s, u, HandFields)
    BY <1>3 DEF HandOnEffect
  <2>2. HandFields \cap Numbers = {}
    BY DEF HandFields, RecoveryFields, NotifyFields, EmitFields, Numbers
  <2>3. Kept(s, u)
    BY <2>1, <2>2, SameKeeps
  <2> QED
    BY <1>3, <2>3, KeptFields DEF HandOnEffect
<1>6. Lined(u, C, off)
  BY <1>5, KeptLined DEF Good
<1>7. ASSUME u.decoder.forgotten = s.decoder.forgotten
      PROVE  Placed(u, off) /\ Stored(u, off, {})
  <2>1. \A x \in s.received : x - off \in Positions
    BY DEF Good, Lined
  <2>2. Placed(s, off) /\ Stored(s, off, {})
    BY DEF Good
  <2> QED
    BY <1>5, <1>7, <1>36, <2>1, <2>2, PoppedPlaced
<1>8. CASE Withheld(s, u, f)
  <2>1. Asking(s, u) /\ u.waiting = TRUE
    BY <1>8 DEF Withheld
  <2>2. u.decoder = [s.decoder EXCEPT !.asked = TRUE]
    BY <1>2, <2>1, AskingQueue
  <2>3. u.decoder.forgotten = s.decoder.forgotten /\ u.decoder.shown = s.decoder.shown
    BY <1>2, <2>2 DEF Decoders
  <2>4. Follows(u, off) /\ DecodeInv(u)
    BY <1>1, <1>2, <1>4, <1>5, <2>1, <2>3 DEF Follows, DecodeInv
  <2>5. Steps(u, d)
    BY <1>2, <2>1, AskingSteps DEF Good
  <2> QED
    BY <1>6, <1>7, <2>3, <2>4, <2>5 DEF Good
<1>9. CASE KeyShown(s, u, f)
  <2>1. BodyKey(f) /\ u.waiting = FALSE /\ Emitted(s, u, Event("show", f.ts, Hand(s.decoder, f, TRUE)))
    BY <1>9 DEF KeyShown
  <2>2. u.decoder = Hand(s.decoder, f, TRUE)
    BY <2>1 DEF Emitted, Event
  <2>3. /\ u.decoder.shown = f.ts /\ u.decoder.forgotten = s.decoder.forgotten /\ u.decoder.chain = "whole"
    <3> DEFINE e == Hand(s.decoder, f, TRUE)
    <3>1. e.shown = f.ts /\ e.forgotten = s.decoder.forgotten /\ e.chain = "whole"
      BY <1>1, <1>2, HandFieldsAre
    <3>2. u.decoder = e
      BY <2>2
    <3> HIDE DEF e
    <3> QED
      BY <3>1, <3>2
  <2>4. May(s.decoder, Hand(s.decoder, f, TRUE))
    <3> DEFINE e == Hand(s.decoder, f, TRUE)
               e0 == [s.decoder EXCEPT !.shown = f.ts, !.chain = "whole", !.asked = FALSE]
    <3>1. e = e0
      BY <1>1, <1>2, HandForms
    <3>2. May(s.decoder, e0)
      BY <1>1, <1>4, MayShow
    <3> HIDE DEF e, e0
    <3>3. May(s.decoder, e)
      BY <3>1, <3>2
    <3> QED
      BY <3>3 DEF e
  <2>5. Steps(u, d)
    BY <1>2, <2>1, <2>4, EventSteps DEF Good
  <2>6. hole = FALSE
    <3> SUFFICES ASSUME hole = TRUE PROVE FALSE
      OBVIOUS
    <3>1. FollowsHole(s, f)
      BY <1>35 DEF Assemble
    <3> QED
      BY <2>1, <3>1 DEF FollowsHole, BodyKey
  <2>7. Markers(f) # {}
    BY <1>35 DEF Assemble
  <2>8. /\ Marker(f).pos \in Positions /\ Marker(f).seq \in Nat /\ Marker(f).seq = off + Marker(f).pos
        /\ Stream[Marker(f).pos].ts = f.ts /\ Stream[Marker(f).pos].kind # "padding" /\ Stream[Marker(f).pos].marker
    <3>1. Marker(f) \in Markers(f)
      BY <1>1, <2>7, MarkerIs DEF Good, Sound
    <3> QED
      BY <1>1, <3>1 DEF Markers, Media, Good, Placed
  <2>9. Follows(u, off)
    <3>1. \A p \in Positions : Stream[p].kind # "padding" =>
             (Stream[p].ts <= f.ts <=> off + p <= Marker(f).seq)
      <4> SUFFICES ASSUME NEW p \in Positions, Stream[p].kind # "padding"
                   PROVE  Stream[p].ts <= f.ts <=> off + p <= Marker(f).seq
        OBVIOUS
      <4>1. Stream[p].ts <= f.ts <=> p <= Marker(f).pos
        BY <2>8, MarkerSplits
      <4>2. p \in Nat /\ Marker(f).pos \in Nat /\ off \in Int
        BY <2>8, Packet DEF Good, Lined
      <4> QED
        BY <2>8, <4>1, <4>2
    <3> QED
      BY <1>5, <2>3, <2>6, <2>8, <3>1 DEF Follows
  <2>10. DecodeInv(u)
    BY <1>1, <1>5, <2>3 DEF DecodeInv
  <2> QED
    BY <1>6, <1>7, <2>3, <2>5, <2>9, <2>10 DEF Good
<1>10. CASE DeltaShown(s, u, f, hole)
  <2>1. PICK m : /\ \/ Asking(s, m) /\ u.notified = TRUE
                    \/ hole = FALSE /\ m.out = s.out /\ m.decoder = s.decoder
                 /\ Emitted(m, u, Event("show", f.ts, Hand(m.decoder, f, FALSE)))
    BY <1>10 DEF DeltaShown
  <2>2. ~s.waiting /\ ~BodyKey(f) /\ u.waiting = FALSE /\ s.waiting = FALSE
    BY <1>2, <1>10 DEF DeltaShown
  <2>3. /\ Queued(m, d) /\ Steps(m, d) /\ m.decoder \in Decoders
        /\ m.decoder.shown = s.decoder.shown /\ m.decoder.forgotten = s.decoder.forgotten
        /\ m.decoder.chain = s.decoder.chain
        /\ m.decoder.asked = TRUE \/ (hole = FALSE /\ m.decoder = s.decoder)
    <3>1. CASE Asking(s, m)
      <4>1. Queued(m, d) /\ m.decoder = [s.decoder EXCEPT !.asked = TRUE] /\ m.decoder.asked = TRUE
        BY <1>2, <3>1, AskingQueue
      <4>2. Steps(m, d)
        BY <1>2, <3>1, AskingSteps DEF Good
      <4>3. m.decoder \in Decoders
        BY <4>1 DEF Queued
      <4> QED
        BY <1>2, <4>1, <4>2, <4>3 DEF Decoders
    <3>2. CASE hole = FALSE /\ m.out = s.out /\ m.decoder = s.decoder
      <4>1. Queued(m, d) /\ Steps(m, d)
        BY <1>2, <3>2 DEF Good, Queued, Steps
      <4> QED
        BY <1>2, <3>2, <4>1
    <3> QED
      BY <2>1, <3>1, <3>2
  <2>4. u.decoder = Hand(m.decoder, f, FALSE)
    BY <2>1 DEF Emitted, Event
  <2>5. /\ u.decoder.shown = f.ts /\ u.decoder.forgotten = s.decoder.forgotten
        /\ u.decoder.asked = m.decoder.asked
        /\ u.decoder.chain \in {s.decoder.chain, "broken"}
    <3> DEFINE e == Hand(m.decoder, f, FALSE)
    <3>1. /\ e.shown = f.ts /\ e.forgotten = m.decoder.forgotten /\ e.asked = m.decoder.asked
          /\ e.chain \in {m.decoder.chain, "broken"}
      BY <1>1, <2>3, HandFieldsAre
    <3>2. u.decoder = e
      BY <2>4
    <3> HIDE DEF e
    <3> QED
      BY <2>3, <3>1, <3>2
  <2>6. s.decoder.chain # "none"
    BY <2>2 DEF Good, DecodeInv
  <2>7. ASSUME ~(f.ts = m.decoder.shown + 1 /\ WholeFrame(f))
        PROVE  m.decoder.asked = TRUE \/ m.decoder.shown < m.decoder.forgotten
    <3> SUFFICES ASSUME ~(m.decoder.asked = TRUE), ~(m.decoder.shown < m.decoder.forgotten) PROVE FALSE
      OBVIOUS
    <3>1. hole = FALSE /\ m.decoder = s.decoder
      BY <2>3
    <3>2. s.decoder.asked = FALSE /\ s.decoder.forgotten <= s.decoder.shown
      BY <1>4, <3>1
    <3>3. Assemble(s, f) = "complete"
      BY <1>35, <3>1
    <3>4. f.ts = s.decoder.shown + 1 /\ WholeFrame(f)
      BY <1>36, <2>2, <3>2, <3>3, NextIsWhole
    <3> QED
      BY <2>7, <3>1, <3>4
  <2>8. May(m.decoder, Hand(m.decoder, f, FALSE))
    <3> DEFINE e == Hand(m.decoder, f, FALSE)
    <3>1. CASE f.ts = m.decoder.shown + 1 /\ WholeFrame(f)
      <4>1. e = [m.decoder EXCEPT !.shown = f.ts]
        BY <1>1, <2>3, <3>1, HandForms
      <4> DEFINE e0 == [m.decoder EXCEPT !.shown = f.ts]
      <4>2. May(m.decoder, e0)
        BY <1>1, <2>3, <2>6, <3>1, MayShow
      <4>3. e = e0
        BY <4>1
      <4> HIDE DEF e, e0
      <4>4. May(m.decoder, e)
        BY <4>2, <4>3
      <4> QED
        BY <4>4 DEF e
    <3>2. CASE ~(f.ts = m.decoder.shown + 1 /\ WholeFrame(f))
      <4>1. e = [m.decoder EXCEPT !.shown = f.ts, !.chain = "broken"]
        BY <1>1, <2>3, <3>2, HandForms
      <4>2. m.decoder.asked = TRUE \/ m.decoder.shown < m.decoder.forgotten
        BY <2>7, <3>2
      <4> DEFINE e0 == [m.decoder EXCEPT !.shown = f.ts, !.chain = "broken"]
      <4>3. f.ts > m.decoder.shown
        BY <1>4, <2>3
      <4>4. m.decoder.chain # "none"
        BY <2>3, <2>6
      <4>5. May(m.decoder, e0)
        BY <1>1, <4>2, <4>3, <4>4, MayShow
      <4>6. e = e0
        BY <4>1
      <4> HIDE DEF e, e0
      <4>7. May(m.decoder, e)
        BY <4>5, <4>6
      <4> QED
        BY <4>7 DEF e
    <3>3. May(m.decoder, e)
      BY <3>1, <3>2
    <3> QED
      BY <3>3
  <2>9. Steps(u, d)
    BY <2>1, <2>3, <2>8, EventSteps
  <2>10. DecodeInv(u)
    BY <1>1, <1>5, <2>5, <2>6 DEF DecodeInv
  <2>11. Follows(u, off)
    <3> SUFFICES ASSUME u.decoder.asked = FALSE
                 PROVE  /\ u.lastTs = u.decoder.shown
                        /\ u.lastSeq \in Nat
                        /\ \A p \in Positions : Stream[p].kind # "padding" =>
                             (Stream[p].ts <= u.lastTs <=> off + p <= u.lastSeq)
      BY DEF Follows
    <3>1. hole = FALSE
      BY <2>3, <2>5
    <3>2. Markers(f) # {}
      BY <1>35, <3>1 DEF Assemble
    <3>3. /\ Marker(f).pos \in Positions /\ Marker(f).seq \in Nat /\ Marker(f).seq = off + Marker(f).pos
          /\ Stream[Marker(f).pos].ts = f.ts /\ Stream[Marker(f).pos].kind # "padding" /\ Stream[Marker(f).pos].marker
      <4>1. Marker(f) \in Markers(f)
        BY <1>1, <3>2, MarkerIs DEF Good, Sound
      <4> QED
        BY <1>1, <4>1 DEF Markers, Media, Good, Placed
    <3>4. ASSUME NEW p \in Positions, Stream[p].kind # "padding"
          PROVE  Stream[p].ts <= f.ts <=> off + p <= Marker(f).seq
      <4>1. Stream[p].ts <= f.ts <=> p <= Marker(f).pos
        BY <3>3, <3>4, MarkerSplits
      <4>2. p \in Nat /\ Marker(f).pos \in Nat /\ off \in Int
        BY <3>3, Packet DEF Good, Lined
      <4> QED
        BY <3>3, <4>1, <4>2
    <3> QED
      BY <1>5, <2>5, <3>1, <3>3, <3>4
  <2> QED
    BY <1>6, <1>7, <2>5, <2>9, <2>10, <2>11 DEF Good
<1> QED
  BY <1>3, <1>8, <1>9, <1>10

(* Giving up keeps it: a request is made.                                  *)
LEMMA GiveUpGood ==
  ASSUME NEW s, NEW d, Sound(s, d), NEW C, C \subseteq Positions, NEW off,
         Good(s, d, C, off, {}), s.frames # {}, NEW t, NEW invalid \in BOOLEAN,
         NEW u, u = GiveUp(s, t, invalid)
  PROVE  Good(u, d, C, off, {})
<1> DEFINE f == Front(s)
<1>1. f \in s.frames /\ f.ts \in Nat /\ f.ts > s.lastTs
  BY FrontIsIn DEF Sound, FramesInv, Good, Placed
<1>2. /\ DOMAIN s = Fields /\ RangesInv(s) /\ s.notified \in BOOLEAN /\ s.waiting \in BOOLEAN
      /\ s.soft \in BOOLEAN /\ s.decoder \in Decoders /\ Queued(s, d) /\ s.lastTs \in Nat
      /\ (s.notified = TRUE => s.decoder.asked = TRUE)
  BY DEF Sound, Typed, Queued, AskedInv
<1>3. GiveUpEffect(s, u, f) /\ (s.waiting => u.waiting)
  BY <1>2, GiveUpCases
<1>36. f = Front(s)
  OBVIOUS
<1> HIDE DEF f
<1>5. Kept(s, u) /\ u.received = s.received /\ u.lastTs = f.ts /\ u.frames = s.frames \ {f}
  <2>1. Same(s, u, GiveUpFields)
    BY <1>3 DEF GiveUpEffect
  <2>2. GiveUpFields \cap Numbers = {}
    BY DEF GiveUpFields, NackFields, HandFields, RecoveryFields, NotifyFields, EmitFields, Numbers
  <2>3. Kept(s, u)
    BY <2>1, <2>2, SameKeeps
  <2> QED
    BY <1>3, <2>3, KeptFields DEF GiveUpEffect
<1>6. PICK m : /\ m.notified = s.notified
               /\ Emitted(s, m, Event("lost", f.ts, s.decoder))
               /\ Asking(m, u)
  BY <1>3 DEF GiveUpEffect
<1>7. Queued(m, d) /\ Steps(m, d) /\ m.decoder = s.decoder
  <2>1. May(s.decoder, s.decoder)
    BY DEF May
  <2>2. Steps(m, d)
    BY <1>2, <1>6, <2>1, EventSteps DEF Good
  <2>3. "lost" \in Kinds
    BY DEF Kinds
  <2> QED
    BY <1>1, <1>2, <1>6, <2>2, <2>3, EventQueue
<1>8. /\ u.decoder = [s.decoder EXCEPT !.asked = TRUE] /\ Steps(u, d)
  <2>1. m.notified = TRUE => m.decoder.asked = TRUE
    BY <1>2, <1>6, <1>7
  <2>2. Asking(m, u)
    BY <1>6
  <2>3. u.decoder = [m.decoder EXCEPT !.asked = TRUE]
    BY <1>7, <2>1, <2>2, AskingQueue
  <2>4. Steps(u, d)
    BY <1>7, <2>2, AskingSteps
  <2> QED
    BY <1>7, <2>3, <2>4
<1>9. /\ u.decoder.asked = TRUE /\ u.decoder.forgotten = s.decoder.forgotten
      /\ u.decoder.shown = s.decoder.shown /\ u.decoder.chain = s.decoder.chain
  BY <1>2, <1>8 DEF Decoders
<1>10. Placed(u, off) /\ Stored(u, off, {})
  <2>1. \A x \in s.received : x - off \in Positions
    BY DEF Good, Lined
  <2>2. Placed(s, off) /\ Stored(s, off, {})
    BY DEF Good
  <2> QED
    BY <1>5, <1>9, <1>36, <2>1, <2>2, PoppedPlaced
<1>11. Follows(u, off)
  BY <1>9 DEF Follows
<1>12. DecodeInv(u)
  <2>1. u.decoder.shown <= u.lastTs
    <3>1. s.decoder.shown \in Nat /\ s.decoder.shown <= s.lastTs
      BY <1>2 DEF Decoders, Good, DecodeInv
    <3> QED
      BY <1>1, <1>2, <1>5, <1>9, <3>1
  <2>2. u.waiting = FALSE => u.decoder.chain # "none"
    BY <1>2, <1>3, <1>9 DEF Good, DecodeInv
  <2> QED
    BY <2>1, <2>2 DEF DecodeInv
<1>13. Lined(u, C, off)
  BY <1>5, KeptLined DEF Good
<1> QED
  BY <1>8, <1>10, <1>11, <1>12, <1>13 DEF Good

(* A round of drain() keeps it.                                            *)
LEMMA DrainFrontGood ==
  ASSUME NEW s, NEW d, Sound(s, d), NEW C, C \subseteq Positions, NEW off,
         Good(s, d, C, off, {}), s.frames # {}, NEW t, NEW u, u = DrainFront(s, t)
  PROVE  Good(u, d, C, off, {})
<1> DEFINE result == Assemble(s, Front(s))
           hole == result = "discontinuous"
           invalid == result = "invalid"
<1>1. CASE result \in {"complete", "discontinuous"}
  <2>1. u = HandOn(s, t, hole)
    BY <1>1 DEF DrainFront
  <2>2. hole \in BOOLEAN /\ Assemble(s, Front(s)) = (IF hole THEN "discontinuous" ELSE "complete")
    BY <1>1
  <2> HIDE DEF hole
  <2> QED
    BY <2>1, <2>2, HandOnGood
<1>2. CASE result \notin {"complete", "discontinuous"} /\ u # s
  <2>1. u = GiveUp(s, t, invalid)
    BY <1>2 DEF DrainFront
  <2>2. invalid \in BOOLEAN
    OBVIOUS
  <2> HIDE DEF invalid
  <2> QED
    BY <2>1, <2>2, GiveUpGood
<1> QED
  BY <1>1, <1>2

(* So do all rounds together.                                              *)
LEMMA DrainGood ==
  ASSUME NEW s, NEW d, Sound(s, d), NEW C, C \subseteq Positions, NEW off,
         Good(s, d, C, off, {}), NEW t
  PROVE  Good(Drain(s, t), d, C, off, {})
<1> DEFINE N == Cardinality(s.frames)
<1>1. N \in Nat
  BY FS_CardinalityType DEF Sound, FramesInv
<1>2. PICK g : IsDrain(g, s, t, N) /\ Drain(s, t) = g[N]
  BY <1>1, DrainRounds
<1> HIDE DEF N
<1> DEFINE T == {n \in 0..N : Sound(g[n], d) /\ Good(g[n], d, C, off, {})}
<1>3. g[0] = s
  BY <1>1, <1>2 DEF IsDrain, Round
<1>4. 0 \in T
  BY <1>1, <1>3
<1>5. ASSUME NEW n \in 0..(N - 1), n \in T PROVE n + 1 \in T
  <2>1. n + 1 \in 0..N /\ (n + 1) - 1 = n /\ n + 1 # 0
    BY <1>1
  <2>2. g[n + 1] = IF g[n].frames = {} THEN g[n] ELSE DrainFront(g[n], t)
    BY <1>2, <2>1 DEF IsDrain, Round
  <2>3. Sound(g[n], d) /\ Good(g[n], d, C, off, {})
    BY <1>5
  <2>4. Sound(g[n + 1], d)
    BY <2>2, <2>3, DrainFrontSound
  <2>5. Good(g[n + 1], d, C, off, {})
    BY <2>2, <2>3, DrainFrontGood
  <2> QED
    BY <2>1, <2>4, <2>5
<1>6. \A n \in 0..(N - 1) : n \in T => n + 1 \in T
  BY <1>5
<1>7. N \in 0..N
  BY <1>1
<1>8. N \in T
  <2> HIDE DEF T
  <2>1. \A n \in 0..N : n \in T
    BY <1>1, <1>4, <1>6, Interval, Zenon
  <2> QED
    BY <1>7, <2>1
<1> QED
  BY <1>2, <1>8

-----------------------------------------------------------------------------
(***************************************************************************)
(* An overflow and the insertion of a packet keep it.  X holds the number  *)
(* of a packet that was noted and is not in its frame yet.                 *)
(***************************************************************************)

(* What the invariant speaks of.                                           *)
GoodFields == Numbers \cup {"frames", "lastTs", "lastSeq", "waiting", "decoder", "out"}

(* A step that changes nothing of that keeps it.                           *)
LEMMA SameGood ==
  ASSUME NEW s, NEW u, NEW changed, Same(s, u, changed), changed \cap GoodFields = {},
         NEW d, NEW C, NEW off, NEW X, Good(s, d, C, off, X)
  PROVE  Good(u, d, C, off, X)
<1>1. Kept(s, u)
  BY SameKeeps DEF GoodFields
<1>2. /\ u.frames = s.frames /\ u.lastTs = s.lastTs /\ u.lastSeq = s.lastSeq
      /\ u.waiting = s.waiting /\ u.decoder = s.decoder /\ u.out = s.out
  BY DEF Same, Fields, GoodFields
<1>3. u.received = s.received
  BY <1>1, KeptFields
<1>4. Lined(u, C, off)
  BY <1>1, KeptLined DEF Good
<1> QED
  BY <1>2, <1>3, <1>4 DEF Good, Placed, Stored, Follows, DecodeInv, Steps

(* The list of ranges has no part in it.                                   *)
LEMMA NackGood ==
  ASSUME NEW s, NEW u, NackStep(s, u), NEW d, NEW C, NEW off, NEW X, Good(s, d, C, off, X)
  PROVE  Good(u, d, C, off, X)
<1>1. NackFields \cap GoodFields = {}
  BY DEF NackFields, GoodFields, Numbers
<1> QED
  BY <1>1, SameGood DEF NackStep

(* An overflow keeps it: what is discarded is no newer than `forgotten`.   *)
LEMMA OverflowGood ==
  ASSUME NEW s, NEW d, Sound(s, d), NEW C, C \subseteq Positions, NEW off, NEW X,
         Good(s, d, C, off, X), NEW ts \in Times, \A x \in X : Stream[x - off].ts = ts,
         NEW t, NEW u, u = Overflow(s, ts, t)
  PROVE  Good(u, d, C, off, {})
<1>1. ts \in Nat
  BY Packet DEF Times, IsPacket
<1>2. /\ DOMAIN s = Fields /\ RangesInv(s) /\ s.notified \in BOOLEAN
      /\ s.decoder \in Decoders /\ Queued(s, d) /\ FramesInv(s) /\ s.lastTs \in Nat
      /\ (s.notified = TRUE => s.decoder.asked = TRUE)
  BY DEF Sound, Typed, Queued, AskedInv
<1>3. OverflowEffect(s, u, ts)
  BY <1>2, OverflowCases
<1> DEFINE n == NewestGone(s, ts)
           e == [s.decoder EXCEPT !.forgotten = n]
<1>4. /\ n \in {f.ts : f \in s.frames} \cup {ts, s.decoder.forgotten} /\ n \in Nat
      /\ n >= ts /\ n >= s.decoder.forgotten /\ \A f \in s.frames : n >= f.ts
  BY <1>1, <1>2, NewestForgotten
<1>5. PICK m : /\ m.notified = s.notified /\ Emitted(s, m, Event("forgot", n, e)) /\ Asking(m, u)
  BY <1>3 DEF OverflowEffect
<1>6. Same(s, u, OverflowFields) /\ u.frames = {} /\ u.waiting = TRUE
  BY <1>3 DEF OverflowEffect
<1> HIDE DEF n
<1>7. s.decoder.forgotten \in Nat /\ s.decoder.shown \in Nat
  BY <1>2 DEF Decoders
<1>8. May(s.decoder, e)
  <2>1. CASE n = s.decoder.forgotten
    <3>1. e = s.decoder
      BY <1>2, <2>1 DEF Decoders
    <3> QED
      BY <3>1 DEF May
  <2>2. CASE n # s.decoder.forgotten
    <3>1. n \in Times
      BY <1>4, <2>2 DEF Good, Placed
    <3>2. n > s.decoder.forgotten
      BY <1>4, <1>7, <2>2
    <3> QED
      BY <3>1, <3>2, MayShow
  <2> QED
    BY <2>1, <2>2
<1>9. e \in Decoders /\ e.forgotten = n /\ e.shown = s.decoder.shown /\ e.asked = s.decoder.asked
      /\ e.chain = s.decoder.chain
  BY <1>2, <1>4 DEF Decoders
<1> HIDE DEF e
<1>10. Queued(m, d) /\ Steps(m, d) /\ m.decoder = e
  <2>1. "forgot" \in Kinds
    BY DEF Kinds
  <2>2. Queued(m, d) /\ m.decoder = e
    BY <1>2, <1>4, <1>5, <1>9, <2>1, EventQueue
  <2>3. Steps(m, d)
    BY <1>2, <1>5, <1>8, EventSteps DEF Good
  <2> QED
    BY <2>2, <2>3
<1>11. u.decoder = [e EXCEPT !.asked = TRUE] /\ Steps(u, d)
  <2>1. m.notified = TRUE => m.decoder.asked = TRUE
    BY <1>2, <1>5, <1>9, <1>10
  <2>2. u.decoder = [m.decoder EXCEPT !.asked = TRUE]
    BY <1>5, <1>10, <2>1, AskingQueue
  <2>3. Steps(u, d)
    BY <1>5, <1>10, AskingSteps
  <2> QED
    BY <1>10, <2>2, <2>3
<1>12. u.decoder.forgotten = n /\ u.decoder.shown = s.decoder.shown
  BY <1>9, <1>11 DEF Decoders
<1>13. Kept(s, u) /\ u.lastTs = s.lastTs /\ u.received = s.received
  <2>1. OverflowFields \cap Numbers = {}
    BY DEF OverflowFields, RecoveryFields, NackFields, NotifyFields, EmitFields, Numbers
  <2>2. Kept(s, u)
    BY <1>6, <2>1, SameKeeps
  <2>3. "lastTs" \in Fields \ OverflowFields
    BY DEF Fields, OverflowFields, RecoveryFields, NackFields, NotifyFields, EmitFields
  <2> QED
    BY <1>6, <2>2, <2>3, KeptFields DEF Same
<1>14. Lined(u, C, off)
  BY <1>13, KeptLined DEF Good
<1>15. Placed(u, off)
  BY <1>6 DEF Placed
<1>16. Stored(u, off, {})
  <2> SUFFICES ASSUME NEW x \in u.received \ {}, Stream[x - off].kind # "padding",
                      Stream[x - off].ts > u.lastTs, Stream[x - off].ts > u.decoder.forgotten
               PROVE  FALSE
    BY DEF Stored
  <2>1. x - off \in Positions
    BY <1>14 DEF Lined
  <2>2. Stream[x - off].ts \in Nat
    BY <2>1, Packet DEF IsPacket
  <2>3. Stream[x - off].ts > n
    BY <1>12
  <2>4. x \notin X
    BY <1>1, <1>4, <2>2, <2>3
  <2>5. Stream[x - off].ts > s.decoder.forgotten
    BY <1>4, <1>7, <2>2, <2>3
  <2>6. PICK g \in s.frames : Pkt(x, x - off) \in g.packets
    BY <1>13, <2>4, <2>5 DEF Good, Stored
  <2>7. g.ts = Stream[x - off].ts
    BY <2>6 DEF Good, Placed, Pkt
  <2> QED
    BY <1>4, <2>2, <2>3, <2>6, <2>7
<1>17. Follows(u, off) /\ DecodeInv(u)
  BY <1>6, <1>12, <1>13 DEF Follows, Good, DecodeInv
<1> QED
  BY <1>11, <1>14, <1>15, <1>16, <1>17 DEF Good

(* A new frame keeps it.                                                   *)
LEMMA PlaceGood ==
  ASSUME NEW s, NEW d, NEW C, NEW off, NEW X, Good(s, d, C, off, X),
         NEW ts \in Times, ts > s.lastTs, ~\E f \in s.frames : f.ts = ts,
         NEW t, NEW u, PlaceEffect(s, u, ts, t)
  PROVE  Good(u, d, C, off, X)
<1> DEFINE h == EmptyFrame(ts, t)
<1>1. h.ts = ts /\ h.packets = {}
  BY DEF EmptyFrame
<1>2. Same(s, u, {"frames"}) /\ u.frames = s.frames \cup {h}
  BY DEF PlaceEffect
<1> HIDE DEF h
<1>3. Kept(s, u)
  <2>1. {"frames"} \cap Numbers = {}
    BY DEF Numbers
  <2> QED
    BY <1>2, <2>1, SameKeeps
<1>4. /\ u.lastTs = s.lastTs /\ u.lastSeq = s.lastSeq /\ u.waiting = s.waiting
      /\ u.decoder = s.decoder /\ u.out = s.out /\ u.received = s.received
  BY <1>2 DEF Same, Fields
<1>5. Lined(u, C, off)
  BY <1>3, KeptLined DEF Good
<1>6. Placed(u, off)
  <2>1. Placed(s, off)
    BY DEF Good
  <2> QED
    BY <1>1, <1>2, <1>4, <2>1 DEF Placed
<1>7. Stored(u, off, X)
  BY <1>2, <1>4 DEF Good, Stored
<1>8. Follows(u, off) /\ DecodeInv(u) /\ Steps(u, d)
  BY <1>4 DEF Good, Follows, DecodeInv, Steps
<1> QED
  BY <1>5, <1>6, <1>7, <1>8 DEF Good

(* A packet that is put into its frame is wanted no more.                  *)
LEMMA PutGood ==
  ASSUME NEW s, NEW d, NEW C, NEW off \in Int, NEW i \in Positions, NEW x \in Nat, x = off + i,
         Good(s, d, C, off, {x}), NEW u, NEW f, NEW h, PutEffect(s, u, f, h, i, x)
  PROVE  Good(u, d, C, off, {})
<1>1. /\ Same(s, u, {"frames"}) /\ f \in s.frames /\ f.ts = Stream[i].ts
      /\ u.frames = (s.frames \ {f}) \cup {h}
      /\ h.ts = f.ts /\ h.packets = f.packets \cup {Pkt(x, i)}
  BY DEF PutEffect, Pkt
<1>2. Pkt(x, i).seq = x /\ Pkt(x, i).pos = i /\ x - off = i
  <2>1. i \in Nat
    BY Packet
  <2> QED
    BY <2>1 DEF Pkt
<1>3. Kept(s, u)
  <2>1. {"frames"} \cap Numbers = {}
    BY DEF Numbers
  <2> QED
    BY <1>1, <2>1, SameKeeps
<1>4. /\ u.lastTs = s.lastTs /\ u.lastSeq = s.lastSeq /\ u.waiting = s.waiting
      /\ u.decoder = s.decoder /\ u.out = s.out /\ u.received = s.received
  BY <1>1 DEF Same, Fields
<1>5. Lined(u, C, off)
  BY <1>3, KeptLined DEF Good
<1>6. Placed(u, off)
  <2>1. /\ \A g \in s.frames :
            /\ g.ts \in Times /\ g.ts > s.lastTs
            /\ \A k \in g.packets : /\ k.pos \in Positions /\ k.seq \in Nat /\ k.seq = off + k.pos
                                    /\ Stream[k.pos].ts = g.ts
        /\ \A g, q \in s.frames : g.ts = q.ts => g = q
    BY DEF Good, Placed
  <2>2. ASSUME NEW g \in u.frames
        PROVE  /\ g.ts \in Times /\ g.ts > u.lastTs
               /\ \A k \in g.packets : /\ k.pos \in Positions /\ k.seq \in Nat /\ k.seq = off + k.pos
                                       /\ Stream[k.pos].ts = g.ts
    <3>1. CASE g = h
      <4>1. g.ts \in Times /\ g.ts > u.lastTs
        BY <1>1, <1>4, <2>1, <3>1
      <4>2. ASSUME NEW k \in h.packets
            PROVE  k.pos \in Positions /\ k.seq \in Nat /\ k.seq = off + k.pos /\ Stream[k.pos].ts = h.ts
        <5>1. CASE k = Pkt(x, i)
          BY <1>1, <1>2, <5>1
        <5>2. CASE k \in f.packets
          BY <1>1, <2>1, <5>2
        <5> QED
          BY <1>1, <4>2, <5>1, <5>2
      <4> QED
        BY <3>1, <4>1, <4>2
    <3>2. CASE g \in s.frames
      BY <1>4, <2>1, <3>2
    <3> QED
      BY <1>1, <3>1, <3>2
  <2>3. \A g, q \in u.frames : g.ts = q.ts => g = q
    BY <1>1, <2>1
  <2> QED
    BY <2>2, <2>3 DEF Placed
<1>7. Stored(u, off, {})
  <2> SUFFICES ASSUME NEW y \in u.received \ {}, Stream[y - off].kind # "padding",
                      Stream[y - off].ts > u.lastTs, Stream[y - off].ts > u.decoder.forgotten
               PROVE  \E g \in u.frames : Pkt(y, y - off) \in g.packets
    BY DEF Stored
  <2>1. CASE y = x
    BY <1>1, <1>2, <2>1
  <2>2. CASE y # x
    <3>1. PICK g \in s.frames : Pkt(y, y - off) \in g.packets
      BY <1>4, <2>2 DEF Good, Stored
    <3>2. CASE g = f
      BY <1>1, <3>1, <3>2
    <3>3. CASE g # f
      BY <1>1, <3>1, <3>3
    <3> QED
      BY <3>2, <3>3
  <2> QED
    BY <2>1, <2>2
<1>8. Follows(u, off) /\ DecodeInv(u) /\ Steps(u, d)
  BY <1>4 DEF Good, Follows, DecodeInv, Steps
<1> QED
  BY <1>5, <1>6, <1>7, <1>8 DEF Good

(* A packet is stored and the buffer drained.                              *)
LEMMA StoreGood ==
  ASSUME NEW s, NEW d, Sound(s, d), s.have = TRUE, NEW i \in Positions, NEW x \in Nat, NEW t,
         NEW link \in BOOLEAN, Cardinality(Packets(s.frames)) < MaxPackets,
         \E g \in s.frames : g.ts = Stream[i].ts,
         NEW C, C \subseteq Positions, NEW off \in Int, x = off + i, Good(s, d, C, off, {x})
  PROVE  Good(Store(s, i, x, t, link), d, C, off, {})
<1> DEFINE u == Put(s, i, x, t)
           w == IF s.waiting /\ Stream[i].kind = "key" THEN AuthorizeNacks(u, Stream[i].ts, t, link) ELSE u
<1>1. Store(s, i, x, t, link) = Drain(w, t)
  BY DEF Store, Put
<1>2. Sound(u, d) /\ Good(u, d, C, off, {})
  <2> HIDE DEF u
  <2>1. PICK f, h : PutEffect(s, u, f, h, i, x)
    BY PutCases DEF u
  <2> QED
    BY <2>1, PutSound, PutGood
<1> HIDE DEF u
<1>3. LET a == AuthorizeNacks(u, Stream[i].ts, t, link) IN Sound(a, d) /\ Good(a, d, C, off, {})
  <2>1. NackStep(u, AuthorizeNacks(u, Stream[i].ts, t, link))
    BY <1>2, AuthorizeStep DEF Sound, Typed
  <2> QED
    BY <1>2, <2>1, NackSound, NackGood
<1>4. Sound(w, d) /\ Good(w, d, C, off, {})
  BY <1>2, <1>3
<1> HIDE DEF w
<1> QED
  BY <1>1, <1>4, DrainGood

(* A packet is stored, refused as too old, or overflows the buffer.        *)
LEMMA InsertGood ==
  ASSUME NEW s, NEW d, Sound(s, d), Quiet(s), s.have = TRUE, NEW i \in Positions, NEW x \in Nat, NEW t,
         NEW link \in BOOLEAN,
         NEW C, C \subseteq Positions, NEW off \in Int, x = off + i, Good(s, d, C, off, {x})
  PROVE  Good(Insert(s, i, x, t, link), d, C, off, {})
<1> DEFINE p == Stream[i]
           known == \E f \in s.frames : f.ts = p.ts
           fresh == Place(s, p.ts, t)
           placed == IF known THEN s ELSE fresh
           skip == ~known /\ (p.kind = "padding" \/ (s.lastTs # 0 /\ p.ts <= s.lastTs))
           full == ~known /\ Cardinality(s.frames) >= MaxFrames
           u == Insert(s, i, x, t, link)
<1>1. u = IF skip THEN Drain(s, t)
          ELSE IF full THEN Overflow(s, p.ts, t)
          ELSE IF BufferedPackets(s) >= MaxPackets THEN Overflow(placed, p.ts, t)
          ELSE Store(placed, i, x, t, link)
  BY DEF Insert
<1>2. p.ts \in Nat \ {0} /\ p.ts \in Times /\ s.lastTs \in Nat
  BY Packet DEF IsPacket, Times, Sound, Typed
<1>25. x - off = i /\ \A y \in {x} : Stream[y - off].ts = p.ts
  <2>1. i \in Nat
    BY Packet
  <2>2. x - off = i
    BY <2>1
  <2> QED
    BY <2>2
<1>3. BufferedPackets(s) = Cardinality(Packets(s.frames))
  BY DEF BufferedPackets, Packets
<1>4. ASSUME ~full, ~skip
      PROVE  /\ Sound(placed, d) /\ placed.have = TRUE /\ Good(placed, d, C, off, {x})
             /\ Packets(placed.frames) = Packets(s.frames)
             /\ \E g \in placed.frames : g.ts = p.ts
  <2>1. CASE known
    BY <2>1
  <2>2. CASE ~known
    <3>0. Cardinality(s.frames) < MaxFrames
      <4>1. Cardinality(s.frames) \in Nat
        BY FS_CardinalityType DEF Sound, FramesInv
      <4> QED
        BY <1>4, <2>2, <4>1, SizeAssumption
    <3>4. fresh = Place(s, p.ts, t)
      OBVIOUS
    <3>5. p.ts > s.lastTs
      <4>1. ~(s.lastTs # 0 /\ p.ts <= s.lastTs)
        BY <1>4, <2>2
      <4> HIDE DEF p
      <4> QED
        BY <1>2, <4>1
    <3>6. ~\E f \in s.frames : f.ts = p.ts
      BY <2>2
    <3> HIDE DEF p, fresh
    <3>1. Sound(fresh, d) /\ PlaceEffect(s, fresh, p.ts, t)
      BY <1>2, <3>0, <3>4, PlaceSound
    <3>2. fresh.have = TRUE
      BY <3>1 DEF PlaceEffect, Same, Fields
    <3>3. \E g \in fresh.frames : g.ts = p.ts
      <4>1. EmptyFrame(p.ts, t) \in fresh.frames /\ EmptyFrame(p.ts, t).ts = p.ts
        BY <3>1 DEF EmptyFrame, PlaceEffect
      <4> QED
        BY <4>1
    <3>7. Good(fresh, d, C, off, {x})
      BY <1>2, <3>1, <3>5, <3>6, PlaceGood
    <3> QED
      BY <2>2, <3>1, <3>2, <3>3, <3>7 DEF PlaceEffect
  <2> QED
    BY <2>1, <2>2
<1>45. ASSUME skip PROVE Good(s, d, C, off, {})
  <2>1. Stream[x - off].kind = "padding" \/ ~(Stream[x - off].ts > s.lastTs)
    <3>1. CASE p.kind = "padding"
      BY <1>25, <3>1
    <3>2. CASE p.ts <= s.lastTs
      <4>1. ~(p.ts > s.lastTs)
        <5> HIDE DEF p
        <5> QED
          BY <1>2, <3>2
      <4> QED
        BY <1>25, <4>1
    <3> QED
      BY <1>45, <3>1, <3>2
  <2>2. Stored(s, off, {x})
    BY DEF Good
  <2>3. Stored(s, off, {})
    BY <2>1, <2>2 DEF Stored
  <2> QED
    BY <2>3 DEF Good
<1> HIDE DEF known, fresh, skip, full, placed, u, p
<1>5. CASE skip
  BY <1>1, <1>5, <1>45, DrainGood DEF u
<1>6. CASE ~skip /\ full
  BY <1>1, <1>2, <1>6, <1>25, OverflowGood DEF u
<1>7. CASE ~skip /\ ~full /\ BufferedPackets(s) >= MaxPackets
  BY <1>1, <1>2, <1>4, <1>7, <1>25, OverflowGood DEF u
<1>8. CASE ~skip /\ ~full /\ ~(BufferedPackets(s) >= MaxPackets)
  <2>1. Cardinality(Packets(placed.frames)) < MaxPackets
    <3>1. Cardinality(Packets(s.frames)) \in Nat
      BY FS_CardinalityType DEF Sound, FramesInv
    <3>2. Packets(placed.frames) = Packets(s.frames)
      BY <1>4, <1>8
    <3> QED
      BY <1>3, <1>8, <3>1, <3>2, SizeAssumption
  <2>2. Sound(placed, d) /\ placed.have = TRUE /\ Good(placed, d, C, off, {x})
        /\ \E g \in placed.frames : g.ts = Stream[i].ts
    BY <1>4, <1>8 DEF p
  <2>3. Good(Store(placed, i, x, t, link), d, C, off, {})
    BY <2>1, <2>2, StoreGood
  <2> QED
    BY <1>1, <1>8, <2>3 DEF u
<1> QED
  BY <1>5, <1>6, <1>7, <1>8 DEF u

-----------------------------------------------------------------------------
(***************************************************************************)
(* receive() keeps it, and so does a callback that is taken.               *)
(***************************************************************************)

(* What holds between two calls of receive(), C being the packets that came *)
RInv(s, d, C) ==
  IF s.have = TRUE THEN \E off : Good(s, d, C, off, {}) /\ Counts(s, C, off)
  ELSE s = EmptyBuffer /\ d = NoPicture /\ C = {}

(* Numbers that are kept count no more packets.                            *)
LEMMA KeptCounts ==
  ASSUME NEW s, NEW u, Kept(s, u), NEW C, NEW off, Counts(s, C, off)
  PROVE  Counts(u, C, off)
<1>1. Counted(u, C, off) = Counted(s, C, off)
  BY KeptFields, Zenon DEF Counted
<1>2. u.unique = s.unique
  BY KeptFields
<1> QED
  BY <1>1, <1>2 DEF Counts

(* A buffer before the first packet of a source *)
Fresh(c, d) ==
  /\ DOMAIN c = Fields /\ c.have = FALSE
  /\ c.frames = {} /\ c.waiting = TRUE /\ c.received = {}
  /\ c.decoder.shown <= c.lastTs
  /\ Steps(c, d)

(* A new source makes the buffer fresh.                                    *)
LEMMA RestartFresh ==
  ASSUME NEW s, NEW d, Queued(s, d), Steps(s, d), NEW c, NEW ssrc, RestartEffect(s, c, ssrc)
  PROVE  Fresh(c, d) /\ c.ssrc = ssrc
<1>1. PICK m : /\ Emitted(s, m, Event("restart", 0, NoPicture))
               /\ Emitted(m, c, Event("ask", 0, [NoPicture EXCEPT !.asked = TRUE]))
  BY DEF RestartEffect
<1>2. NoPicture \in Decoders /\ "restart" \in Kinds /\ NoPicture.shown = 0
      /\ [NoPicture EXCEPT !.asked = TRUE].shown = 0
  BY DEF NoPicture, Decoders, Kinds
<1>3. Queued(m, d) /\ m.decoder = NoPicture
  BY <1>1, <1>2, EventQueue
<1>4. Steps(m, d)
  <2>1. May(s.decoder, NoPicture)
    BY DEF May
  <2> QED
    BY <1>1, <2>1, EventSteps
<1>5. Steps(c, d)
  <2>1. May(m.decoder, [m.decoder EXCEPT !.asked = TRUE])
    BY DEF May
  <2>2. Emitted(m, c, Event("ask", 0, [m.decoder EXCEPT !.asked = TRUE]))
    BY <1>1, <1>3
  <2> QED
    BY <1>3, <1>4, <2>1, <2>2, EventSteps
<1>6. c.decoder = [NoPicture EXCEPT !.asked = TRUE]
  BY <1>1 DEF Emitted, Event
<1>7. c.decoder.shown <= c.lastTs
  <2>1. c.lastTs = 0 /\ c.decoder.shown = 0
    BY <1>2, <1>6 DEF RestartEffect, Begun
  <2> QED
    BY <2>1
<1> QED
  BY <1>5, <1>7 DEF Fresh, RestartEffect, Begun

(* What noteSequence keeps *)
LEMMA NoteKeeps ==
  ASSUME NEW c, NEW m, NEW x, NEW ts, NoteEffect(c, m, x, ts)
  PROVE  /\ m.frames = c.frames /\ m.lastTs = c.lastTs /\ m.lastSeq = c.lastSeq
         /\ m.waiting = c.waiting /\ m.decoder = c.decoder /\ m.out = c.out /\ m.ssrc = c.ssrc
BY DEF NoteEffect, Same, Fields, NoteFields, NackFields

(* The first packet of a source is noted.                                  *)
LEMMA FreshNoted ==
  ASSUME NEW c, NEW d, Fresh(c, d), NEW C, C \subseteq Positions, NEW i \in Positions,
         Near(C, i), Starting(C, i), c.ssrc = Stream[i].ssrc,
         NEW x, x = (First + i - 1) % SeqSpace,
         NEW m, NEW ts, NoteEffect(c, m, x, ts), Noted(c, m, x)
  PROVE  /\ Good(m, d, C \cup {i}, x - i, {x}) /\ Counts(m, C \cup {i}, x - i)
         /\ ~IsDuplicate(c, x)
<1>1. m.have = TRUE /\ m.highest = x /\ m.base = x /\ m.unique = 1 /\ m.received = {x}
  BY DEF Noted, Fresh, IsDuplicate
<1>2. /\ m.frames = {} /\ m.lastTs = c.lastTs /\ m.waiting = TRUE /\ m.decoder = c.decoder
      /\ m.out = c.out /\ m.ssrc = Stream[i].ssrc
  BY NoteKeeps DEF Fresh
<1>3. Lined(m, C \cup {i}, x - i) /\ Counts(m, C \cup {i}, x - i)
  BY <1>1, <1>2, StartLined
<1>4. Placed(m, x - i)
  BY <1>2 DEF Placed
<1>5. Stored(m, x - i, {x})
  BY <1>1 DEF Stored
<1>6. Follows(m, x - i) /\ DecodeInv(m) /\ Steps(m, d)
  BY <1>2 DEF Follows, DecodeInv, Steps, Fresh
<1>7. ~IsDuplicate(c, x)
  BY DEF Fresh, IsDuplicate
<1> QED
  BY <1>3, <1>4, <1>5, <1>6, <1>7 DEF Good

(* Another packet of the source is noted.                                  *)
LEMMA KnownNoted ==
  ASSUME NEW s, NEW d, Sound(s, d), s.have = TRUE, NEW C, C \subseteq Positions, NEW off,
         Good(s, d, C, off, {}), Counts(s, C, off), NEW i \in Positions, Near(C, i),
         s.ssrc = Stream[i].ssrc, NEW x, x = off + i,
         NEW m, NEW ts, NoteEffect(s, m, x, ts), Noted(s, m, x)
  PROVE  /\ Good(m, d, C \cup {i}, off, {x}) /\ Counts(m, C \cup {i}, off)
         /\ IsDuplicate(s, x) => Good(m, d, C \cup {i}, off, {})
<1>1. s.unique \in Nat /\ Lined(s, C, off)
  BY DEF Sound, Typed, Good
<1>2. /\ m.frames = s.frames /\ m.lastTs = s.lastTs /\ m.lastSeq = s.lastSeq
      /\ m.waiting = s.waiting /\ m.decoder = s.decoder /\ m.out = s.out /\ m.ssrc = s.ssrc
  BY NoteKeeps
<1>3. Lined(m, C \cup {i}, off) /\ Counts(m, C \cup {i}, off)
  BY <1>1, <1>2, NotedLined
<1>4. Placed(m, off) /\ Follows(m, off) /\ DecodeInv(m) /\ Steps(m, d)
  BY <1>2 DEF Good, Placed, Follows, DecodeInv, Steps
<1>5. m.received \ {x} \subseteq s.received
  BY DEF Noted, Shifted
<1>6. Stored(m, off, {x})
  BY <1>2, <1>5 DEF Good, Stored
<1>7. IsDuplicate(s, x) => m.received = s.received
  BY DEF Noted
<1>8. IsDuplicate(s, x) => Stored(m, off, {})
  BY <1>2, <1>7 DEF Good, Stored
<1> QED
  BY <1>3, <1>4, <1>6, <1>8 DEF Good

(* receive() keeps what holds between two calls.                           *)
LEMMA ReceiveGood ==
  ASSUME NEW s, NEW d, Sound(s, d), s.out = <<>>, NEW C, C \subseteq Positions, RInv(s, d, C),
         NEW i \in Positions, Near(C, i), NEW t, NEW link \in BOOLEAN
  PROVE  RInv(Receive(s, i, t, link), d, C \cup {i})
<1> DEFINE p == Stream[i]
           c == ChangeSource(s, t, p.ssrc)
           sq == (First + i - 1) % SeqSpace
           x == IF c.have THEN Extend(c, sq) ELSE sq
           m == NoteSequence(c, x, p, t, link)
           n == DrainNacks(m, t, link)
           dup == IsDuplicate(c, x)
           D == C \cup {i}
<1>1. Receive(s, i, t, link) = IF dup THEN n ELSE Insert(n, i, x, t, link)
  BY DEF Receive
<1>2. Sound(c, d) /\ Quiet(c)
  BY ChangeSourceSound
<1>3. \/ s.ssrc = None /\ Same(s, c, {"ssrc"}) /\ c.ssrc = p.ssrc
      \/ s.ssrc = p.ssrc /\ c = s
      \/ s.ssrc # None /\ s.ssrc # p.ssrc /\ RestartEffect(s, c, p.ssrc)
  BY ChangeSourceCases DEF Sound, Typed
<1>4. p.ssrc \in Nat /\ p = Stream[i]
  BY Packet DEF IsPacket
<1> HIDE DEF c, p
<1>5. x \in Nat
  <2>1. sq \in 0..(SeqSpace - 1)
    <3>1. First + i - 1 \in Nat /\ SeqSpace \in Nat \ {0}
      <4>1. i \in Nat \ {0}
        BY Packet
      <4>2. First \in Nat /\ SeqSpace \in Nat \ {0}
        BY SizeAssumption
      <4> QED
        BY <4>1, <4>2
    <3> QED
      BY <3>1
  <2> HIDE DEF sq
  <2>2. Extend(c, sq) \in Nat
    BY <1>2, <2>1, ExtendType DEF Sound, Typed
  <2> QED
    BY <2>1, <2>2, SizeAssumption
<1>55. x = IF c.have THEN Extend(c, sq) ELSE sq
  OBVIOUS
<1> HIDE DEF x
<1>6. NoteEffect(c, m, x, p.ts) /\ Noted(c, m, x)
  <2>1. /\ DOMAIN c = Fields /\ RangesInv(c) /\ c.highest \in Nat /\ c.unique \in Nat /\ c.have \in BOOLEAN
        /\ c.have \/ c.ranges = {}
    BY <1>2 DEF Sound, Typed
  <2> QED
    BY <1>5, <2>1, NoteSequenceEffect
<1> HIDE DEF m
<1>7. Sound(m, d) /\ Quiet(m) /\ m.have = TRUE
  BY <1>2, <1>5, <1>6, NoteSound
<1>8. NackStep(m, n)
  BY <1>7, DrainNacksStep DEF Sound, Typed
<1> HIDE DEF n
<1>9. Sound(n, d) /\ Quiet(n) /\ n.have = TRUE
  BY <1>7, <1>8, NackSound
<1> HIDE DEF dup
<1>10. \E off : /\ off \in Int /\ x = off + i /\ Good(m, d, D, off, {x}) /\ Counts(m, D, off)
                /\ dup => Good(m, d, D, off, {})
  <2>1. CASE s.have = TRUE /\ s.ssrc = p.ssrc
    <3>1. c = s
      <4>1. s.ssrc # None
        BY <1>4, <2>1 DEF None
      <4> QED
        BY <1>3, <2>1, <4>1
    <3>2. PICK off : Good(s, d, C, off, {}) /\ Counts(s, C, off)
      BY <2>1 DEF RInv
    <3>3. x = off + i /\ off \in Int
      <4>1. Lined(s, C, off) /\ off \in Int
        BY <3>2 DEF Good, Lined
      <4>2. x = Extend(s, sq)
        BY <1>55, <2>1, <3>1
      <4>3. Extend(s, sq) = off + i
        BY <4>1, NumberKnown
      <4> QED
        BY <4>1, <4>2, <4>3
    <3>4. /\ Good(m, d, D, off, {x}) /\ Counts(m, D, off)
          /\ IsDuplicate(s, x) => Good(m, d, D, off, {})
      BY <1>4, <1>6, <2>1, <3>1, <3>2, <3>3, KnownNoted
    <3> QED
      BY <3>1, <3>3, <3>4 DEF dup
  <2>2. CASE ~(s.have = TRUE /\ s.ssrc = p.ssrc)
    <3>1. Fresh(c, d) /\ c.ssrc = p.ssrc /\ Starting(C, i)
      <4>1. CASE s.have = TRUE
        <5>1. PICK off : Good(s, d, C, off, {}) /\ Counts(s, C, off)
          BY <4>1 DEF RInv
        <5>2. Stream[s.highest - off].ssrc = s.ssrc /\ s.highest - off \in C
          BY <5>1 DEF Good, Lined
        <5>3. s.ssrc # None
          <6>1. Stream[s.highest - off].ssrc \in Nat
            BY <5>2, Packet DEF IsPacket
          <6> QED
            BY <5>2, <6>1 DEF None
        <5>4. RestartEffect(s, c, p.ssrc)
          BY <1>3, <2>2, <4>1, <5>3
        <5>5. Fresh(c, d) /\ c.ssrc = p.ssrc
          BY <5>1, <5>4, RestartFresh DEF Good, Sound
        <5>6. Starting(C, i)
          <6> DEFINE h == s.highest - off
          <6>1. i >= h - Behind /\ i <= h + Ahead + Behind
            BY <5>1, NumberKnown DEF Good
          <6>2. Stream[h].ssrc # Stream[i].ssrc /\ h \in C
            BY <1>4, <2>2, <4>1, <5>2
          <6> QED
            BY <6>1, <6>2 DEF Starting
        <5> QED
          BY <5>5, <5>6
      <4>2. CASE ~(s.have = TRUE)
        <5>1. s = EmptyBuffer /\ C = {}
          BY <4>2 DEF RInv
        <5>2. /\ s.ssrc = None /\ s.have = FALSE /\ s.frames = {} /\ s.waiting = TRUE /\ s.received = {}
              /\ s.decoder = NoPicture /\ s.lastTs = 0 /\ s.out = <<>>
          BY <5>1 DEF EmptyBuffer
        <5>3. Same(s, c, {"ssrc"}) /\ c.ssrc = p.ssrc
          BY <1>3, <1>4, <5>2 DEF None
        <5>4. /\ DOMAIN c = Fields /\ c.have = FALSE /\ c.frames = {} /\ c.waiting = TRUE /\ c.received = {}
              /\ c.decoder = NoPicture /\ c.lastTs = 0 /\ c.out = <<>>
          BY <5>2, <5>3 DEF Same, Fields
        <5>5. c.decoder.shown <= c.lastTs
          BY <5>4 DEF NoPicture
        <5>6. Steps(c, d)
          BY <5>4 DEF Steps
        <5> QED
          BY <5>1, <5>3, <5>4, <5>5, <5>6 DEF Fresh, Starting
      <4> QED
        BY <4>1, <4>2
    <3>2. x = sq
      BY <1>55, <3>1 DEF Fresh
    <3>3. /\ Good(m, d, D, x - i, {x}) /\ Counts(m, D, x - i)
          /\ ~IsDuplicate(c, x)
      BY <1>4, <1>6, <3>1, <3>2, FreshNoted
    <3>4. x - i \in Int /\ x = (x - i) + i
      <4>1. i \in Nat
        BY Packet
      <4> QED
        BY <1>5, <4>1
    <3> QED
      BY <3>3, <3>4 DEF dup
  <2> QED
    BY <2>1, <2>2
<1>11. PICK off : /\ off \in Int /\ x = off + i /\ Good(m, d, D, off, {x}) /\ Counts(m, D, off)
                  /\ dup => Good(m, d, D, off, {})
  BY <1>10
<1>12. D \subseteq Positions
  OBVIOUS
<1> HIDE DEF D
<1>13. Kept(m, n)
  <2>1. NackFields \cap Numbers = {}
    BY DEF NackFields, Numbers
  <2> QED
    BY <1>8, <2>1, SameKeeps DEF NackStep
<1>14. Good(n, d, D, off, {x}) /\ Counts(n, D, off) /\ (dup => Good(n, d, D, off, {}))
  BY <1>8, <1>11, <1>13, NackGood, KeptCounts
<1> DEFINE w == Insert(n, i, x, t, link)
<1>15. Good(w, d, D, off, {})
  BY <1>5, <1>9, <1>11, <1>12, <1>14, InsertGood
<1>16. Counts(w, D, off) /\ w.have = TRUE
  <2>1. Kept(n, w)
    BY <1>9, InsertKeeps
  <2> HIDE DEF w
  <2> QED
    BY <1>9, <1>14, <2>1, KeptCounts, KeptFields
<1> HIDE DEF w
<1>17. CASE dup
  <2>1. Receive(s, i, t, link) = n
    BY <1>1, <1>17
  <2>2. RInv(n, d, D)
    BY <1>9, <1>14, <1>17 DEF RInv
  <2> QED
    BY <2>1, <2>2 DEF D
<1>18. CASE ~dup
  <2>1. Receive(s, i, t, link) = w
    BY <1>1, <1>18 DEF w
  <2>2. RInv(w, d, D)
    BY <1>15, <1>16 DEF RInv
  <2> QED
    BY <2>1, <2>2 DEF D
<1> QED
  BY <1>17, <1>18

(* A callback that is taken keeps it, and is a step of the promise.        *)
LEMMA TakenGood ==
  ASSUME NEW s, NEW d, Sound(s, d), NEW C, RInv(s, d, C), s.out # <<>>,
         NEW u, u = [s EXCEPT !.out = Tail(@)]
  PROVE  RInv(u, Head(s.out).then, C) /\ May(d, Head(s.out).then)
<1>0. s.have = TRUE
  BY DEF RInv, EmptyBuffer
<1>1. Same(s, u, {"out"}) /\ u.out = Tail(s.out)
  BY DEF Sound, Typed, Same, Fields
<1> DEFINE e == Head(s.out).then
           N == Len(s.out)
<1>2. s.out \in Seq(Events) /\ N \in Nat /\ N # 0 /\ DOMAIN s.out = 1..N
  <2>1. s.out \in Seq(Events)
    BY DEF Sound, Queued
  <2> QED
    BY <2>1, EmptySeq
<1>3. DOMAIN u.out = 1..(N - 1) /\ \A n \in 1..(N - 1) : u.out[n] = s.out[n + 1]
  BY <1>1, <1>2
<1>35. s.out[1] = Head(s.out)
  BY <1>2
<1>4. PICK off : Good(s, d, C, off, {}) /\ Counts(s, C, off)
  BY <1>0 DEF RInv
<1>5. /\ u.frames = s.frames /\ u.lastTs = s.lastTs /\ u.lastSeq = s.lastSeq
      /\ u.waiting = s.waiting /\ u.decoder = s.decoder /\ u.received = s.received
  BY <1>1 DEF Same, Fields
<1>6. Kept(s, u)
  <2>1. {"out"} \cap Numbers = {}
    BY DEF Numbers
  <2> QED
    BY <1>1, <2>1, SameKeeps
<1> HIDE DEF N, e
<1>7. \A n \in 1..N : May(IF n = 1 THEN d ELSE s.out[n - 1].then, s.out[n].then)
  BY <1>2, <1>4 DEF Good, Steps
<1>8. May(d, e)
  <2>1. 1 \in 1..N
    BY <1>2
  <2>2. May(d, s.out[1].then)
    BY <1>7, <2>1
  <2> QED
    BY <1>35, <2>2 DEF e
<1>9. Steps(u, e)
  <2> SUFFICES ASSUME NEW n \in 1..(N - 1)
               PROVE  May(IF n = 1 THEN e ELSE u.out[n - 1].then, u.out[n].then)
    BY <1>3 DEF Steps
  <2>1. n + 1 \in 1..N /\ n + 1 # 1 /\ (n + 1) - 1 = n
    BY <1>2
  <2>2. May(s.out[n].then, s.out[n + 1].then)
    BY <1>7, <2>1
  <2>3. (IF n = 1 THEN e ELSE u.out[n - 1].then) = s.out[n].then
    <3>1. CASE n = 1
      BY <1>35, <3>1 DEF e
    <3>2. CASE n # 1
      <4>1. n - 1 \in 1..(N - 1) /\ (n - 1) + 1 = n
        BY <1>2, <3>2
      <4> QED
        BY <1>3, <3>2, <4>1
    <3> QED
      BY <3>1, <3>2
  <2> QED
    BY <1>3, <2>2, <2>3
<1>10. Good(u, e, C, off, {}) /\ Counts(u, C, off)
  <2>1. Lined(u, C, off) /\ Counts(u, C, off)
    BY <1>4, <1>6, KeptLined, KeptCounts DEF Good
  <2> QED
    BY <1>4, <1>5, <1>9, <2>1 DEF Good, Placed, Stored, Follows, DecodeInv
<1>11. u.have = TRUE
  BY <1>0, <1>6, KeptFields
<1> QED
  BY <1>8, <1>10, <1>11 DEF RInv, e

-----------------------------------------------------------------------------
(***************************************************************************)
(* The second layer of theorems: the accounts add up, and the buffer keeps *)
(* the promise of FrameDelivery.                                           *)
(***************************************************************************)

(* The inductive invariant of the second layer.                            *)
DeliveryInv == SoundInv /\ decoder \in Decoders /\ RInv(buffer, decoder, Came(copies))

(* What came after a delivery.                                             *)
LEMMA CameAfter ==
  ASSUME Clock, NEW i \in Positions, Deliverable(i)
  PROVE  Came([copies EXCEPT ![i] = @ + 1]) = Came(copies) \cup {i}
BY DEF Clock, Came, Deliverable

(* It holds at the start.                                                  *)
LEMMA InitGood == Init => DeliveryInv
<1>1. Init => Came(copies) = {}
  BY DEF Init, Came
<1>2. EmptyBuffer.have # TRUE
  BY DEF EmptyBuffer
<1>3. NoPicture \in Decoders
  BY DEF NoPicture, Decoders
<1> QED
  BY <1>1, <1>2, <1>3, InitSound DEF Init, DeliveryInv, RInv

(* Every step keeps it, and does to the decoder what the promise allows.   *)
LEMMA StepGood == DeliveryInv /\ [Next]_vars => DeliveryInv' /\ May(decoder, decoder')
<1> SUFFICES ASSUME DeliveryInv, [Next]_vars PROVE DeliveryInv' /\ May(decoder, decoder')
  OBVIOUS
<1>0. SoundInv /\ SoundInv' /\ RInv(buffer, decoder, Came(copies)) /\ decoder \in Decoders
  BY StepSound DEF DeliveryInv
<1>01. Clock /\ Sound(buffer, decoder) /\ Came(copies) \subseteq Positions
  BY <1>0, CameFinite DEF SoundInv
<1>02. May(decoder, decoder)
  BY DEF May
<1>1. ASSUME NEW i \in Positions, NEW link \in BOOLEAN, Deliver(i, link)
      PROVE  DeliveryInv' /\ May(decoder, decoder')
  <2>1. Near(Came(copies), i) /\ buffer.out = <<>> /\ Deliverable(i)
    BY <1>1, DeliverableNear DEF Deliver
  <2>2. RInv(Receive(buffer, i, now, link), decoder, Came(copies) \cup {i})
    BY <1>0, <1>01, <2>1, ReceiveGood
  <2>3. Came(copies') = Came(copies) \cup {i}
    BY <1>1, <1>01, <2>1, CameAfter DEF Deliver
  <2>4. buffer' = Receive(buffer, i, now, link) /\ decoder' = decoder
    BY <1>1 DEF Deliver
  <2>5. RInv(buffer', decoder', Came(copies'))
    BY <2>2, <2>3, <2>4
  <2> QED
    BY <1>0, <1>02, <2>4, <2>5 DEF DeliveryInv
<1>2. ASSUME Callback PROVE DeliveryInv' /\ May(decoder, decoder')
  <2> DEFINE u == [buffer EXCEPT !.out = Tail(@)]
  <2>1. buffer.out # <<>> /\ decoder' = Head(buffer.out).then /\ buffer' = u /\ copies' = copies
    BY <1>2 DEF Callback
  <2>2. RInv(u, Head(buffer.out).then, Came(copies)) /\ May(decoder, Head(buffer.out).then)
    BY <1>0, <1>01, <2>1, TakenGood
  <2> HIDE DEF u
  <2>3. RInv(buffer', decoder', Came(copies'))
    BY <2>1, <2>2
  <2>4. decoder' \in Decoders
    <3>1. Head(buffer.out) \in Events
      BY <1>01, <2>1 DEF Sound, Queued
    <3> QED
      BY <2>1, <3>1 DEF Events
  <2> QED
    BY <1>0, <2>1, <2>2, <2>3, <2>4 DEF DeliveryInv
<1>3. ASSUME Elapse PROVE DeliveryInv' /\ May(decoder, decoder')
  BY <1>0, <1>02, <1>3 DEF DeliveryInv, Elapse
<1>4. ASSUME Reset PROVE DeliveryInv' /\ May(decoder, decoder')
  <2>1. buffer' = EmptyBuffer /\ decoder' = NoPicture /\ copies' = [i \in Positions |-> 0]
    BY <1>4 DEF Reset
  <2>2. Came(copies') = {}
    BY <2>1 DEF Came
  <2>3. EmptyBuffer.have # TRUE
    BY DEF EmptyBuffer
  <2>4. RInv(buffer', decoder', Came(copies'))
    BY <2>1, <2>2, <2>3 DEF RInv
  <2>5. May(decoder, NoPicture)
    BY DEF May
  <2>6. NoPicture \in Decoders
    BY DEF NoPicture, Decoders
  <2> QED
    BY <1>0, <2>1, <2>4, <2>5, <2>6 DEF DeliveryInv
<1>5. CASE UNCHANGED vars
  BY <1>0, <1>02, <1>5 DEF vars, DeliveryInv
<1> QED
  BY <1>1, <1>2, <1>3, <1>4, <1>5 DEF Next

(* The report counts packets that came, each once.                         *)
LEMMA ReportCounts == DeliveryInv => ReportCountsOnce
<1> SUFFICES ASSUME DeliveryInv PROVE ReportCountsOnce
  OBVIOUS
<1> DEFINE C == Came(copies)
<1>1. RInv(buffer, decoder, C) /\ IsFiniteSet(C)
  BY CameFinite DEF DeliveryInv
<1>2. Cardinality(C) \in Nat
  BY <1>1, FS_CardinalityType
<1>3. CASE buffer.have = TRUE
  <2>1. PICK off : Counts(buffer, C, off)
    BY <1>1, <1>3 DEF RInv
  <2> DEFINE K == Counted(buffer, C, off)
  <2>2. K \subseteq C
    BY DEF Counted
  <2>3. buffer.unique <= Cardinality(K) /\ buffer.unique \in Nat
    BY <2>1 DEF Counts, DeliveryInv, SoundInv, Sound, Typed
  <2> HIDE DEF K, C
  <2>4. Cardinality(K) <= Cardinality(C) /\ Cardinality(K) \in Nat
    BY <1>1, <2>2, FS_Subset, FS_CardinalityType
  <2>5. buffer.unique <= Cardinality(C)
    BY <1>2, <2>3, <2>4
  <2> QED
    BY <2>5 DEF ReportCountsOnce, C, Came
<1>4. CASE ~(buffer.have = TRUE)
  <2>1. buffer.unique = 0
    BY <1>1, <1>4 DEF RInv, EmptyBuffer
  <2> HIDE DEF C
  <2>2. buffer.unique <= Cardinality(C)
    BY <1>2, <2>1
  <2> QED
    BY <2>2 DEF ReportCountsOnce, C, Came
<1> QED
  BY <1>3, <1>4

(* The receiver report never counts more packets than came, whatever       *)
(* order, copies and wraps they came with (noteSequence).                  *)
THEOREM ReportNeverHidesLoss == Spec => []ReportCountsOnce
<1>1. DeliveryInv /\ [Next]_vars => DeliveryInv'
  BY StepGood
<1> QED
  BY <1>1, InitGood, ReportCounts, PTL DEF Spec

(* The bounds hold and the totals that congestion control steers by add up *)
(* (the conjunction of the three theorems above).                          *)
THEOREM AccountsAddUp == Spec => []AccountingSafety
BY BoundsHold, LossesAddUp, ReportNeverHidesLoss, PTL DEF AccountingSafety

(* What is allowed to happen to the record of the decoder is a step of     *)
(* FrameDelivery, or none.                                                 *)
LEMMA MayIsStep ==
  ASSUME decoder \in Decoders, May(decoder, decoder')
  PROVE  [Delivery!Next]_(Delivery!dvars)
<1>0. /\ decoder = [shown |-> decoder.shown, chain |-> decoder.chain,
                    asked |-> decoder.asked, forgotten |-> decoder.forgotten]
      /\ decoder.asked \in BOOLEAN
  BY DEF Decoders
<1>1. CASE decoder' = decoder
  BY <1>1 DEF Delivery!dvars
<1>2. CASE decoder' = [decoder EXCEPT !.asked = TRUE]
  <2>1. Delivery!Ask
    BY <1>0, <1>2 DEF Delivery!Ask
  <2> QED
    BY <2>1 DEF Delivery!Next
<1>3. CASE decoder' = NoPicture
  <2>1. Delivery!Restart
    BY <1>3 DEF Delivery!Restart, NoPicture
  <2> QED
    BY <2>1 DEF Delivery!Next
<1>4. ASSUME NEW f \in Times,
       \/ f > decoder.forgotten /\ decoder' = [decoder EXCEPT !.forgotten = f]
       \/ f > decoder.shown /\ decoder' = [decoder EXCEPT !.shown = f, !.chain = "whole", !.asked = FALSE]
       \/ decoder.chain # "none" /\ f = decoder.shown + 1 /\ decoder' = [decoder EXCEPT !.shown = f]
       \/ /\ decoder.chain # "none" /\ (decoder.asked = TRUE \/ decoder.shown < decoder.forgotten) /\ f > decoder.shown
          /\ decoder' = [decoder EXCEPT !.shown = f, !.chain = "broken"]
      PROVE [Delivery!Next]_(Delivery!dvars)
  <2>1. Delivery!Forget(f) \/ Delivery!ShowKey(f) \/ Delivery!ShowNext(f) \/ Delivery!ShowBroken(f)
    BY <1>0, <1>4 DEF Delivery!Forget, Delivery!ShowKey, Delivery!ShowNext, Delivery!ShowBroken
  <2> QED
    BY <2>1 DEF Delivery!Next, Times
<1> QED
  BY <1>1, <1>2, <1>3, <1>4 DEF May

(* The decoder gets what FrameDelivery promises: pictures in the order of  *)
(* the stream and once, a key frame first, and after a hole only pictures  *)
(* that a key frame was asked for, the exception of an overflow aside      *)
(* (drain, assemble, overflow).                                            *)
THEOREM DeliveryIsKept == Spec => DeliversFrames
<1>1. Init => Delivery!Init
  BY DEF Init, NoPicture, Delivery!Init
<1>2. DeliveryInv /\ [Next]_vars => DeliveryInv' /\ [Delivery!Next]_(Delivery!dvars)
  <2> SUFFICES ASSUME DeliveryInv, [Next]_vars PROVE DeliveryInv' /\ [Delivery!Next]_(Delivery!dvars)
    OBVIOUS
  <2>1. DeliveryInv' /\ May(decoder, decoder')
    BY StepGood
  <2>2. decoder \in Decoders
    BY DEF DeliveryInv
  <2> QED
    BY <2>1, <2>2, MayIsStep
<1> QED
  BY <1>1, <1>2, InitGood, PTL DEF Spec, DeliversFrames, Delivery!Spec
=============================================================================
