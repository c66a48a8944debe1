-------------------------- MODULE BitrateFeedbackProofs --------------------------
(****************************************************************************)
(* Proofs about BitrateFeedback, for every configured bitrate, cool-down,   *)
(* set of loads and set of round-trip times.  Each operator of the          *)
(* controller is shown to take a sound controller to a sound one and to     *)
(* move the target only as far as its name says.                            *)
(****************************************************************************)
EXTENDS BitrateFeedback, Integers, TLAPS

(* A controller: the target within its limits, the counters within theirs. *)
Controllers ==
  [target : Nat, congested : Nat, stable : Nat, ever : BOOLEAN, cuts : Nat,
   ceiling : Nat, latched : BOOLEAN, probe : Nat, best : Nat, cooldown : Nat,
   cap : Nat]
Rates(c) ==
  c.target \in Least..Configured /\ c.cap \in {Configured, OversizedCeiling}
Counters(m, c) ==
  /\ c.congested \in 0..2 /\ c.stable \in 0..5 /\ c.probe \in 0..1
  /\ c.cooldown \in 0..HardRecoveryCooldown(m)
Episode(c) == c.cuts \in 0..2 /\ (c.cuts > 0 => c.target < c.ceiling)
Sound(m, c) == c \in Controllers /\ Rates(c) /\ Counters(m, c) /\ Episode(c)

(* The history of round-trip times, and the window taken from it.          *)
Histories == [least : {0} \cup Rtts, age : 0..BaselineWindow - 1]
WindowInv == window.inflation \in Nat /\ (window.fresh => based)
PathInv ==
  /\ mode \in Modes /\ based \in BOOLEAN /\ renumbered \in BOOLEAN
  /\ history \in Histories

(* The one reduction for the round-trip time alone is remembered.          *)
ProbeInv == probeCuts \in 0..1 /\ (probeCuts = 1 => control.latched)

(* What the history holds of the episode that is open.                      *)
Lowereds == [from : Nat, count : 0..2]
Remembered(c, old) ==
  /\ old.from = 0 => old.count = 0
  /\ c.cuts > 0 <=> old.from > 0
  /\ c.cuts > 0 => c.ceiling = old.from
  /\ c.cuts >= old.count
LoweredInv == lowered \in Lowereds /\ Remembered(control, lowered)

(* The evidence covers what the controller has counted.                     *)
Evidences == [clean : 0..5, inflated : 0..1, unread : BOOLEAN]
EvidenceInv ==
  /\ evidence \in Evidences /\ (evidence.unread <=> window.fresh)
  /\ control.target < control.cap => control.stable <= evidence.clean
  /\ control.latched => control.probe <= evidence.inflated

BitrateInv ==
  /\ PathInv /\ WindowInv /\ Sound(mode, control)
  /\ ProbeInv /\ LoweredInv /\ EvidenceInv

(* The flag and the cap are as before, and nothing but the counters that a  *)
(* reduction or a calm window starts over.                                  *)
Kept(c, d) == d.latched = c.latched /\ d.cap = c.cap

(* What a change of the target leaves alone besides.                        *)
Same(c, d) ==
  /\ d.stable = c.stable /\ d.ever = c.ever /\ d.cooldown = c.cooldown
  /\ d.probe = c.probe /\ d.best = c.best
(* The trial is where it was.                                               *)
SameTrial(c, d) == d.probe = c.probe /\ d.best = c.best
Still(c, d) ==
  Same(c, d) /\ d.target = c.target /\ d.cuts = c.cuts /\ d.ceiling = c.ceiling

(* The target that an episode goes back to: the one its first reduction     *)
(* found, or the present one when none is open.                             *)
Base(c) == IF c.cuts = 0 THEN c.target ELSE c.ceiling
(* A way down opens an episode or counts in the one that is open; a way up  *)
(* ends it once the target is back.  A feedback goes down first.            *)
Down(c, d) ==
  /\ d.target <= c.target /\ Base(d) = Base(c) /\ d.cuts >= c.cuts
  /\ d.target < c.target => d.cuts > 0 /\ (d.cuts >= 2 \/ d.cuts > c.cuts)
Up(c, d) ==
  /\ d.target >= c.target
  /\ IF d.cuts = 0 THEN d.target >= Base(c)
     ELSE d.cuts = c.cuts /\ d.ceiling = c.ceiling
Carried(c, d) ==
  IF d.cuts = 0 THEN d.target >= Base(c)
  ELSE /\ d.ceiling = Base(c) /\ d.cuts >= c.cuts
       /\ d.target < c.target => d.cuts >= 2 \/ d.cuts > c.cuts

-----------------------------------------------------------------------------
(* The lesser of two numbers.                                               *)
LEMMA MinOfTwo == \A a, b \in Int : Min({a, b}) = IF a <= b THEN a ELSE b
<1> SUFFICES ASSUME NEW a \in Int, NEW b \in Int
             PROVE  Min({a, b}) = IF a <= b THEN a ELSE b
  OBVIOUS
<1>1. \E x \in {a, b} : \A y \in {a, b} : x <= y
  OBVIOUS
<1>2. Min({a, b}) \in {a, b} /\ \A y \in {a, b} : Min({a, b}) <= y
  BY <1>1 DEF Min
<1> QED BY <1>2

(* The greater of two numbers.                                              *)
LEMMA MaxOfTwo == \A a, b \in Int : Max({a, b}) = IF a >= b THEN a ELSE b
<1> SUFFICES ASSUME NEW a \in Int, NEW b \in Int
             PROVE  Max({a, b}) = IF a >= b THEN a ELSE b
  OBVIOUS
<1>1. \E x \in {a, b} : \A y \in {a, b} : x >= y
  OBVIOUS
<1>2. Max({a, b}) \in {a, b} /\ \A y \in {a, b} : Max({a, b}) >= y
  BY <1>1 DEF Max
<1> QED BY <1>2

(* The limits of the target, and the ceiling of the guard between them.     *)
LEMMA Limits ==
  /\ Configured \in Nat /\ Least \in Nat /\ OversizedCeiling \in Nat /\ Step = 5000
  /\ Least <= OversizedCeiling /\ OversizedCeiling <= Configured
<1>1. /\ Least = IF 10000 <= Configured THEN 10000 ELSE Configured
      /\ OversizedCeiling = IF 20000 <= Configured THEN 20000 ELSE Configured
  BY ConfiguredAssumption, MinOfTwo DEF Least, OversizedCeiling
<1> QED BY <1>1, ConfiguredAssumption DEF Step

(* A controller that starts is sound.                                       *)
LEMMA NewIsSound ==
  ASSUME NEW m \in Modes
  PROVE  Sound(m, NewController(m))
<1> DEFINE s == IF m = "cloud" THEN OversizedCeiling ELSE Configured
<1>1. NewController(m) =
        [target |-> s, congested |-> 0, stable |-> 0, ever |-> FALSE, cuts |-> 0,
         ceiling |-> s, latched |-> FALSE, probe |-> 0, best |-> 0, cooldown |-> 0,
         cap |-> Configured]
  BY DEF NewController, OversizedCeiling
<1>3. s \in Least..Configured
  BY Limits
<1> HIDE DEF s
<1>2. s \in Nat /\ HardRecoveryCooldown(m) \in Nat
  BY <1>3, Limits, CooldownAssumption DEF HardRecoveryCooldown
<1> QED BY <1>1, <1>2, <1>3, Limits DEF Sound, Controllers, Rates, Counters, Episode

(* A lower target is a reduction of the episode that is open, or opens one. *)
LEMMA ReductionIsRecorded ==
  ASSUME NEW m \in Modes, NEW c, Sound(m, c), NEW x \in Least..c.target
  PROVE  LET d == Record([c EXCEPT !.target = x], c.target)
         IN  Sound(m, d) /\ Kept(c, d) /\ d.target = x /\ Down(c, d)
             /\ Same(c, d)
<1> DEFINE l == [c EXCEPT !.target = x]
           k == Min({2, c.cuts + 1})
           h == IF c.cuts = 0 THEN c.target ELSE c.ceiling
           r == [l EXCEPT !.cuts = k, !.ceiling = h]
<1>1. c \in Controllers /\ c.target \in Least..Configured /\ c.cuts \in 0..2
  BY DEF Sound, Rates, Episode
<1>2. x \in Nat /\ x <= c.target /\ Least <= x /\ x <= Configured
  BY <1>1, Limits
<1>3. /\ l \in Controllers /\ l.target = x /\ l.cuts = c.cuts /\ l.ceiling = c.ceiling
      /\ l.congested = c.congested /\ l.stable = c.stable /\ l.probe = c.probe
      /\ l.cooldown = c.cooldown /\ l.cap = c.cap /\ l.latched = c.latched
      /\ l.ever = c.ever /\ l.best = c.best
  BY <1>1, <1>2 DEF Controllers
<1>4. /\ k \in 1..2 /\ k >= c.cuts /\ (k >= 2 \/ k > c.cuts)
      /\ h \in Nat /\ h = Base(c)
  BY <1>1, MinOfTwo DEF Controllers, Base
<1>5. Record(l, c.target) = IF x >= c.target THEN l ELSE r
  BY <1>3 DEF Record
<1>6. x < c.target \/ (Sound(m, l) /\ Kept(c, l) /\ Down(c, l))
  <2> SUFFICES ASSUME ~(x < c.target) PROVE Sound(m, l) /\ Kept(c, l) /\ Down(c, l)
    OBVIOUS
  <2>1. l.target = c.target /\ c.target \in Nat
    BY <1>1, <1>2, <1>3 DEF Controllers
  <2> HIDE DEF l
  <2>2. Sound(m, l)
    BY <1>2, <1>3, <2>1 DEF Sound, Rates, Counters, Episode
  <2>3. Down(c, l)
    BY <1>1, <1>3, <2>1 DEF Down, Base
  <2> QED BY <1>3, <2>2, <2>3 DEF Kept
<1> HIDE DEF k, h, l
<1>11. k \in Nat
  BY <1>4
<1>12. r \in Controllers
  BY <1>3, <1>4, <1>11 DEF Controllers
<1>7. /\ r \in Controllers /\ r.target = x /\ r.cuts = k /\ r.ceiling = h
      /\ r.congested = c.congested /\ r.stable = c.stable /\ r.probe = c.probe
      /\ r.cooldown = c.cooldown /\ r.cap = c.cap /\ r.latched = c.latched
      /\ r.ever = c.ever /\ r.best = c.best
  BY <1>3, <1>12 DEF Controllers
<1>8. x < c.target => x < h
  BY <1>1, <1>2 DEF h, Sound, Episode, Controllers
<1>9. x < c.target => Sound(m, r) /\ Kept(c, r) /\ Down(c, r)
  <2> HIDE DEF r
  <2>1. r.cuts > 0 /\ Base(r) = Base(c)
    BY <1>4, <1>7 DEF Base
  <2>2. x < c.target => Down(c, r)
    BY <1>1, <1>2, <1>4, <1>7, <2>1 DEF Down, Controllers
  <2> QED BY <1>1, <1>2, <1>4, <1>7, <1>8, <2>2
          DEF Sound, Rates, Counters, Episode, Kept
<1> HIDE DEF r
<1>10. \/ Record(l, c.target) = l /\ ~(x < c.target)
       \/ Record(l, c.target) = r /\ x < c.target
  BY <1>1, <1>2, <1>5 DEF Controllers
<1>13. Same(c, l) /\ Same(c, r)
  BY <1>3, <1>7 DEF Same
<1> QED BY <1>3, <1>6, <1>7, <1>9, <1>10, <1>13 DEF l

(* A step that leaves the target and the episode alone.                     *)
Quiet(m, c, d) ==
  /\ Sound(m, d) /\ Kept(c, d)
  /\ d.target = c.target /\ d.cuts = c.cuts /\ d.ceiling = c.ceiling

(* Typed counters, and the rest the same: a quiet step.                     *)
LEMMA Quietly ==
  ASSUME NEW m \in Modes, NEW c, Sound(m, c), NEW d \in Controllers, Counters(m, d),
         d.target = c.target, d.cuts = c.cuts, d.ceiling = c.ceiling,
         d.latched = c.latched, d.cap = c.cap
  PROVE  Quiet(m, c, d)
BY DEF Sound, Rates, Episode, Quiet, Kept

(* Ways down and up, one after the other.                                   *)
LEMMA DownThenDown ==
  ASSUME NEW m \in Modes, NEW c, Sound(m, c), NEW e, Sound(m, e), NEW d, Sound(m, d),
         Down(c, e), Down(e, d)
  PROVE  Down(c, d)
<1>1. /\ c.target \in Nat /\ e.target \in Nat /\ d.target \in Nat
      /\ c.cuts \in 0..2 /\ e.cuts \in 0..2 /\ d.cuts \in 0..2
  BY DEF Sound, Controllers, Episode
<1> QED BY <1>1 DEF Down

(* Down and then up: the episode is carried through the feedback.           *)
LEMMA DownThenUp ==
  ASSUME NEW m \in Modes, NEW c, Sound(m, c), NEW e, Sound(m, e), NEW d, Sound(m, d),
         Down(c, e), Down(e, d) \/ Up(e, d)
  PROVE  Carried(c, d)
<1>1. /\ c.target \in Nat /\ e.target \in Nat /\ d.target \in Nat
      /\ c.cuts \in 0..2 /\ e.cuts \in 0..2 /\ d.cuts \in 0..2
      /\ c.ceiling \in Nat /\ e.ceiling \in Nat /\ d.ceiling \in Nat
  BY DEF Sound, Controllers, Episode
<1>2. CASE Down(e, d)
  <2>1. Down(c, d)
    BY <1>2, DownThenDown
  <2> QED BY <1>1, <2>1 DEF Down, Carried, Base
<1>3. CASE Up(e, d)
  BY <1>1, <1>3 DEF Down, Up, Carried, Base
<1> QED BY <1>2, <1>3

(* A quiet step is both, and changes neither.                               *)
LEMMA QuietMoves ==
  ASSUME NEW m \in Modes, NEW c, Sound(m, c), NEW d, Quiet(m, c, d)
  PROVE  /\ Down(c, d) /\ Up(c, d)
         /\ \A e : (Down(e, c) <=> Down(e, d)) /\ (Up(e, c) <=> Up(e, d))
         /\ \A e : (Down(c, e) <=> Down(d, e)) /\ (Up(c, e) <=> Up(d, e))
<1>1. c.target \in Nat /\ c.cuts \in 0..2
  BY DEF Sound, Controllers, Episode
<1> QED BY <1>1 DEF Quiet, Down, Up, Base

(* Counters that start over, a mark and a cool-down change no more.         *)
LEMMA ForgetIsQuiet ==
  ASSUME NEW m \in Modes, NEW c, Sound(m, c)
  PROVE  Quiet(m, c, Forget(c)) /\ SameTrial(c, Forget(c)) /\ Forget(c).stable = 0
<1>1. /\ Forget(c) \in Controllers /\ Forget(c).congested = 0 /\ Forget(c).stable = 0
      /\ Forget(c).probe = c.probe /\ Forget(c).cooldown = c.cooldown
      /\ Forget(c).target = c.target /\ Forget(c).cuts = c.cuts
      /\ Forget(c).ceiling = c.ceiling /\ Forget(c).latched = c.latched
      /\ Forget(c).cap = c.cap /\ Forget(c).best = c.best
  BY DEF Forget, Sound, Controllers
<1>2. Counters(m, Forget(c))
  BY <1>1 DEF Sound, Counters
<1> QED BY <1>1, <1>2, Quietly DEF SameTrial

(* The mark that the stream has ever been congested.                        *)
LEMMA MarkIsQuiet ==
  ASSUME NEW m \in Modes, NEW c, Sound(m, c)
  PROVE  LET d == [c EXCEPT !.ever = TRUE]
         IN  Quiet(m, c, d) /\ SameTrial(c, d) /\ d.stable = c.stable
<1> DEFINE d == [c EXCEPT !.ever = TRUE]
<1>1. /\ d \in Controllers /\ d.congested = c.congested /\ d.stable = c.stable
      /\ d.probe = c.probe /\ d.cooldown = c.cooldown /\ d.target = c.target
      /\ d.cuts = c.cuts /\ d.ceiling = c.ceiling /\ d.latched = c.latched
      /\ d.cap = c.cap /\ d.best = c.best
  BY DEF Sound, Controllers
<1> HIDE DEF d
<1>2. Counters(m, d)
  BY <1>1 DEF Sound, Counters
<1>3. Quiet(m, c, d) /\ SameTrial(c, d) /\ d.stable = c.stable
  BY <1>1, <1>2, Quietly DEF SameTrial
<1> QED BY <1>3 DEF d

(* A cool-down is extended, never past the longest one.                     *)
LEMMA CoolDownIsQuiet ==
  ASSUME NEW m \in Modes, NEW c, Sound(m, c), NEW n \in 0..HardRecoveryCooldown(m)
  PROVE  LET d == CoolDown(c, n)
         IN  Quiet(m, c, d) /\ SameTrial(c, d) /\ d.stable = c.stable
<1> DEFINE x == Max({c.cooldown, n})
           d == [c EXCEPT !.cooldown = x]
<1>1. x \in 0..HardRecoveryCooldown(m) /\ x \in Nat
  <2>1. HardRecoveryCooldown(m) \in Nat
    BY CooldownAssumption DEF HardRecoveryCooldown
  <2>2. c.cooldown \in 0..HardRecoveryCooldown(m)
    BY DEF Sound, Counters
  <2> QED BY <2>1, <2>2, MaxOfTwo
<1> HIDE DEF x
<1>2. /\ d \in Controllers /\ d.congested = c.congested /\ d.stable = c.stable
      /\ d.probe = c.probe /\ d.cooldown = x /\ d.target = c.target
      /\ d.cuts = c.cuts /\ d.ceiling = c.ceiling /\ d.latched = c.latched
      /\ d.cap = c.cap /\ d.best = c.best
  BY <1>1 DEF Sound, Controllers
<1> HIDE DEF d
<1>3. Counters(m, d)
  BY <1>1, <1>2 DEF Sound, Counters
<1>4. Quiet(m, c, d) /\ SameTrial(c, d) /\ d.stable = c.stable
  BY <1>2, <1>3, Quietly DEF SameTrial
<1> QED BY <1>4 DEF d, x, CoolDown

(* A reduction by one step, and one of three tenths.                        *)
LEMMA OneStepDown ==
  ASSUME NEW m \in Modes, NEW c, Sound(m, c)
  PROVE  LET d == Record(LowerOneStep(c), c.target)
         IN  /\ Sound(m, d) /\ Kept(c, d) /\ Down(c, d) /\ Same(c, d)
             /\ d.target <= c.target /\ d.target >= c.target - Step
<1> DEFINE x == Max({Least, c.target - Step})
<1>1. c.target \in Least..Configured
  BY DEF Sound, Rates
<1>2. x \in Least..c.target /\ x >= c.target - Step
  BY <1>1, Limits, MaxOfTwo
<1>3. LowerOneStep(c) = [c EXCEPT !.target = x]
  BY DEF LowerOneStep
<1> HIDE DEF x
<1>4. x <= c.target
  BY <1>1, <1>2, Limits
<1> QED BY <1>2, <1>3, <1>4, ReductionIsRecorded

(* A reduction of three tenths, of one step at least.                       *)
LEMMA SeverelyDown ==
  ASSUME NEW m \in Modes, NEW c, Sound(m, c)
  PROVE  LET d == Record(LowerSeverely(c), c.target)
         IN  Sound(m, d) /\ Kept(c, d) /\ d.target <= c.target /\ Down(c, d)
<1> DEFINE rounded == (((c.target * 70) \div 100 + Step \div 2) \div Step) * Step
           lower == Min({c.target - Step, rounded})
           x == Max({Least, lower})
<1>1. c.target \in Least..Configured
  BY DEF Sound, Rates
<1>2. rounded \in Int
  BY <1>1, Limits
<1> HIDE DEF rounded
<1>3. lower \in Int /\ lower <= c.target - Step
  BY <1>1, <1>2, Limits, MinOfTwo
<1> HIDE DEF lower
<1>4. x \in Least..c.target
  BY <1>1, <1>3, Limits, MaxOfTwo
<1>5. LowerSeverely(c) = [c EXCEPT !.target = x]
  BY DEF LowerSeverely, rounded, lower
<1> HIDE DEF x
<1>6. x <= c.target
  BY <1>1, <1>4, Limits
<1> QED BY <1>4, <1>5, <1>6, ReductionIsRecorded

(* A step up stays under the cap and ends an episode that it has repaired.  *)
LEMMA OneStepUp ==
  ASSUME NEW m \in Modes, NEW c, Sound(m, c)
  PROVE  LET d == Finish(RaiseOneStep(c))
         IN  /\ Sound(m, d) /\ Kept(c, d) /\ Up(c, d) /\ Same(c, d)
             /\ d.target >= c.target /\ (d.target <= c.target \/ d.target <= c.cap)
<1> DEFINE limit == Min({Configured, c.cap})
           x == IF c.target >= limit THEN c.target ELSE Min({limit, c.target + Step})
           l == [c EXCEPT !.target = x]
           d == [l EXCEPT !.cuts = 0, !.ceiling = x]
<1>1. /\ c \in Controllers /\ c.target \in Least..Configured
      /\ c.cap \in {Configured, OversizedCeiling}
  BY DEF Sound, Rates
<1>2. limit = c.cap /\ limit \in Nat /\ limit <= Configured
  BY <1>1, Limits, MinOfTwo
<1> HIDE DEF limit
<1>3. /\ x \in Least..Configured /\ x \in Nat /\ x >= c.target
      /\ x <= c.target \/ x <= c.cap
  BY <1>1, <1>2, Limits, MinOfTwo
<1>4. RaiseOneStep(c) = l
  BY DEF RaiseOneStep, limit
<1> HIDE DEF x
<1>5. /\ l \in Controllers /\ l.target = x /\ l.cuts = c.cuts /\ l.ceiling = c.ceiling
      /\ l.congested = c.congested /\ l.stable = c.stable /\ l.probe = c.probe
      /\ l.cooldown = c.cooldown /\ l.cap = c.cap /\ l.latched = c.latched
      /\ l.ever = c.ever /\ l.best = c.best
  BY <1>1, <1>3 DEF Controllers
<1> HIDE DEF l
<1>6. d \in Controllers
  BY <1>3, <1>5 DEF Controllers
<1>7. /\ d.target = x /\ d.cuts = 0 /\ d.ceiling = x
      /\ d.congested = c.congested /\ d.stable = c.stable /\ d.probe = c.probe
      /\ d.cooldown = c.cooldown /\ d.cap = c.cap /\ d.latched = c.latched
      /\ d.ever = c.ever /\ d.best = c.best
  BY <1>5 DEF Controllers
<1>8. Finish(l) = IF c.cuts = 0 \/ x < c.ceiling THEN l ELSE d
  BY <1>5 DEF Finish
<1> HIDE DEF d
<1>9. c.cuts = 0 \/ x < c.ceiling => Sound(m, l)
  BY <1>1, <1>3, <1>5 DEF Sound, Rates, Counters, Episode
<1>10. Sound(m, d)
  BY <1>3, <1>6, <1>7, <1>1 DEF Sound, Rates, Counters, Episode
<1>11. c.cuts = 0 \/ x < c.ceiling => Up(c, l)
  BY <1>1, <1>3, <1>5 DEF Up, Base, Controllers
<1>12. ~(c.cuts = 0 \/ x < c.ceiling) => Up(c, d)
  BY <1>1, <1>3, <1>7 DEF Up, Base, Controllers
<1>13. Same(c, l) /\ Same(c, d)
  BY <1>5, <1>7 DEF Same
<1> QED BY <1>3, <1>4, <1>5, <1>7, <1>8, <1>9, <1>10, <1>11, <1>12, <1>13 DEF Kept

-----------------------------------------------------------------------------
(* applyReceiverSignal: the guard and one step for the decoder.             *)

(* The target gives way to the cap, and no further than it.                 *)
LEMMA GuardIsPutUp ==
  ASSUME NEW m \in Modes, NEW c, Sound(m, c), NEW oversized \in BOOLEAN
  PROVE  LET d == Oversized(m, c, oversized)
         IN  /\ Sound(m, d) /\ d.latched = c.latched /\ (~oversized => d = c)
             /\ d.cap = c.cap \/ d.cap = OversizedCeiling
             /\ d.target <= c.target /\ (d.target >= c.target \/ d.target >= d.cap)
             /\ Down(c, d) /\ SameTrial(c, d)
             /\ d.target < c.target => d.target = d.cap
             /\ d.target >= c.target => Still(c, d)
<1> DEFINE capped == [c EXCEPT !.cap = OversizedCeiling]
           low == Record([capped EXCEPT !.target = OversizedCeiling], c.target)
           d == [low EXCEPT !.ever = TRUE, !.stable = 0]
           r == Oversized(m, c, oversized)
<1>1. /\ c \in Controllers /\ c.target \in Least..Configured /\ c.target \in Nat
  BY Limits DEF Sound, Rates
<1>4. Down(c, c)
  BY <1>1 DEF Down, Sound, Episode
<1>2. CASE m = "home" \/ ~oversized
  <2>1. r = c
    BY <1>2 DEF Oversized
  <2>2. ~(c.target < c.target) /\ Still(c, c) /\ SameTrial(c, c) /\ c.target >= c.target
    BY <1>1 DEF Still, Same, SameTrial
  <2> HIDE DEF r
  <2> QED BY <1>4, <2>1, <2>2 DEF r
<1>3. CASE ~(m = "home" \/ ~oversized)
  <2>1. /\ capped \in Controllers /\ capped.cap = OversizedCeiling
        /\ capped.target = c.target /\ capped.latched = c.latched
        /\ capped.congested = c.congested /\ capped.stable = c.stable
        /\ capped.probe = c.probe /\ capped.cooldown = c.cooldown
        /\ capped.cuts = c.cuts /\ capped.ceiling = c.ceiling
        /\ capped.ever = c.ever /\ capped.best = c.best
    BY <1>1, Limits DEF Controllers
  <2>2. r = IF c.target <= OversizedCeiling THEN capped ELSE d
    BY <1>3 DEF Oversized
  <2> HIDE DEF capped
  <2>3. Sound(m, capped)
    BY <2>1 DEF Sound, Rates, Counters, Episode
  <2>4. CASE c.target <= OversizedCeiling
    <3> HIDE DEF r
    <3>1. Down(c, capped)
      BY <1>4, <2>1 DEF Down, Base
    <3>2. Still(c, capped) /\ SameTrial(c, capped)
      BY <2>1 DEF Still, Same, SameTrial
    <3> QED BY <1>1, <1>3, <2>1, <2>2, <2>3, <2>4, <3>1, <3>2 DEF r
  <2>5. CASE ~(c.target <= OversizedCeiling)
    <3>1. OversizedCeiling \in Least..capped.target
      BY <1>1, <2>1, <2>5, Limits
    <3>2. /\ Sound(m, low) /\ Kept(capped, low) /\ low.target = OversizedCeiling
          /\ Down(capped, low) /\ Same(capped, low)
      BY <2>1, <2>3, <3>1, ReductionIsRecorded
    <3> HIDE DEF low
    <3>3. /\ d \in Controllers /\ d.congested = low.congested /\ d.stable = 0
          /\ d.probe = low.probe /\ d.cooldown = low.cooldown
          /\ d.target = low.target /\ d.cuts = low.cuts /\ d.ceiling = low.ceiling
          /\ d.latched = low.latched /\ d.cap = low.cap /\ d.best = low.best
      BY <3>2 DEF Sound, Controllers
    <3> HIDE DEF d
    <3>4. Sound(m, d)
      BY <3>2, <3>3 DEF Sound, Rates, Counters, Episode
    <3>5. r = d
      BY <2>2, <2>5
    <3> HIDE DEF r
    <3>6. /\ Sound(m, r) /\ r.latched = c.latched /\ r.cap = OversizedCeiling
          /\ r.target = OversizedCeiling
      BY <2>1, <3>2, <3>3, <3>4, <3>5 DEF Kept
    <3>7. r.target <= c.target /\ r.target >= r.cap
      BY <1>1, <2>5, <3>6, Limits
    <3>8. Down(c, d)
      BY <2>1, <3>2, <3>3 DEF Down, Base
    <3>9. SameTrial(c, d)
      BY <2>1, <3>2, <3>3 DEF Same, SameTrial
    <3>10. ~(r.target >= c.target)
      BY <1>1, <2>5, <3>6, Limits
    <3> QED BY <1>3, <3>5, <3>6, <3>7, <3>8, <3>9, <3>10 DEF r
  <2> QED BY <2>4, <2>5
<1> QED BY <1>2, <1>3

(* A hard recovery is one step down and the longest cool-down.              *)
LEMMA RecoveryIsOneStep ==
  ASSUME NEW m \in Modes, NEW c, Sound(m, c)
  PROVE  LET d == HardRecovery(m, c)
         IN  /\ Sound(m, d) /\ Kept(c, d) /\ Down(c, d)
             /\ SameTrial(c, d) /\ d.stable = 0
             /\ d.target <= c.target /\ d.target >= c.target - Step
<1> DEFINE low == Record(LowerOneStep(c), c.target)
           marked == [low EXCEPT !.ever = TRUE]
           fresh == Forget(marked)
<1>1. /\ Sound(m, low) /\ Kept(c, low) /\ Down(c, low) /\ SameTrial(c, low)
      /\ low.target <= c.target /\ low.target >= c.target - Step
  BY OneStepDown DEF Same, SameTrial
<1> HIDE DEF low
<1>2. Quiet(m, low, marked) /\ SameTrial(low, marked)
  BY <1>1, MarkIsQuiet
<1> HIDE DEF marked
<1>3. Quiet(m, marked, fresh) /\ SameTrial(marked, fresh) /\ fresh.stable = 0
  BY <1>2, ForgetIsQuiet DEF Quiet
<1> HIDE DEF fresh
<1>4. HardRecoveryCooldown(m) \in 0..HardRecoveryCooldown(m)
  BY CooldownAssumption DEF HardRecoveryCooldown
<1>5. /\ Quiet(m, fresh, CoolDown(fresh, HardRecoveryCooldown(m)))
      /\ SameTrial(fresh, CoolDown(fresh, HardRecoveryCooldown(m)))
      /\ CoolDown(fresh, HardRecoveryCooldown(m)).stable = 0
  BY <1>3, <1>4, CoolDownIsQuiet DEF Quiet
<1>6. HardRecovery(m, c) = CoolDown(fresh, HardRecoveryCooldown(m))
  BY DEF HardRecovery, fresh, marked, low
<1>7. Down(c, HardRecovery(m, c))
  BY <1>1, <1>2, <1>3, <1>5, <1>6 DEF Quiet, Down, Base
<1>8. SameTrial(c, HardRecovery(m, c)) /\ HardRecovery(m, c).stable = 0
  BY <1>1, <1>2, <1>3, <1>5, <1>6 DEF SameTrial
<1> QED BY <1>1, <1>2, <1>3, <1>5, <1>6, <1>7, <1>8 DEF Quiet, Kept

(* What a signal does to a controller: nothing without one; the cap falls   *)
(* or stays; a recovery costs one step below the cap.                       *)
Signalled(c, d, hard, oversized) ==
  /\ d.latched = c.latched /\ (~hard /\ ~oversized => d = c)
  /\ d.cap = c.cap \/ d.cap = OversizedCeiling
  /\ d.target <= c.target /\ Down(c, d)
  /\ d.target >= c.target - Step \/ d.target >= d.cap - Step
  /\ SameTrial(c, d) /\ (hard => d.stable = 0)
  /\ ~hard => /\ d.target < c.target => d.target = d.cap
              /\ d.target >= c.target => Still(c, d)

(* The signal of the decoder: the guard first, then the recovery.           *)
LEMMA SignalIsAnswered ==
  ASSUME NEW m \in Modes, NEW c, Sound(m, c),
         NEW hard \in BOOLEAN, NEW oversized \in BOOLEAN
  PROVE  LET d == ApplySignal(m, c, hard, oversized)
         IN  Sound(m, d) /\ Signalled(c, d, hard, oversized)
<1> DEFINE o == Oversized(m, c, oversized)
<1>1. /\ Sound(m, o) /\ o.latched = c.latched /\ (~oversized => o = c)
      /\ o.cap = c.cap \/ o.cap = OversizedCeiling
      /\ o.target <= c.target /\ (o.target >= c.target \/ o.target >= o.cap)
      /\ Down(c, o) /\ SameTrial(c, o)
      /\ o.target < c.target => o.target = o.cap
      /\ o.target >= c.target => Still(c, o)
  BY GuardIsPutUp
<1>2. ApplySignal(m, c, hard, oversized) = IF hard THEN HardRecovery(m, o) ELSE o
  BY DEF ApplySignal
<1> HIDE DEF o
<1>3. /\ c.target \in Nat /\ o.target \in Nat /\ o.cap \in Nat /\ c.cap \in Nat
      /\ Step = 5000
  BY <1>1, Limits DEF Sound, Controllers
<1>4. CASE hard
  <2> DEFINE d == HardRecovery(m, o)
  <2>1. /\ Sound(m, d) /\ d.latched = o.latched /\ d.cap = o.cap
        /\ d.target <= o.target /\ d.target >= o.target - Step
        /\ Down(o, d) /\ SameTrial(o, d) /\ d.stable = 0
    BY <1>1, RecoveryIsOneStep DEF Kept
  <2> HIDE DEF d
  <2>2. d.target \in Nat
    BY <2>1 DEF Sound, Controllers
  <2>3. /\ d.target <= c.target
        /\ d.target >= c.target - Step \/ d.target >= d.cap - Step
    BY <1>1, <1>3, <2>1, <2>2
  <2>5. Down(c, d)
    BY <1>1, <2>1, DownThenDown
  <2>6. SameTrial(c, d)
    BY <1>1, <2>1 DEF SameTrial
  <2>4. Signalled(c, d, hard, oversized)
    BY <1>1, <1>4, <2>1, <2>3, <2>5, <2>6 DEF Signalled
  <2> QED BY <1>2, <1>4, <2>1, <2>4 DEF d
<1>5. CASE ~hard
  <2>1. o.target >= c.target - Step \/ o.target >= o.cap - Step
    BY <1>1, <1>3
  <2>2. Signalled(c, o, hard, oversized)
    BY <1>1, <1>5, <2>1 DEF Signalled
  <2> QED BY <1>1, <1>2, <1>5, <2>2
<1> QED BY <1>4, <1>5

-----------------------------------------------------------------------------
(* observe: one branch after the other.                                     *)

(* A trial under way never lowers the target.                               *)
LEMMA ProbeIsSound ==
  ASSUME NEW m \in Modes, NEW c, Sound(m, c), NEW w, w.inflation \in Nat
  PROVE  LET d == Probe(c, w)
         IN  /\ Sound(m, d) /\ Kept(c, d) /\ Up(c, d)
             /\ d.target >= c.target /\ (d.target <= c.target \/ d.target <= c.cap)
             /\ d.probe = 0 \/ (~Improved(c, w) /\ d.probe = c.probe + 1)
             /\ d.target > c.target => d.probe = 0 /\ c.probe + 1 >= ProbeWindows
<1> DEFINE better == [c EXCEPT !.best = w.inflation, !.probe = 0]
           next == [c EXCEPT !.probe = @ + 1]
           up == Finish(RaiseOneStep(c))
           back == [up EXCEPT !.probe = 0]
<1>1. c \in Controllers /\ c.target \in Nat /\ c.probe \in 0..1
  BY DEF Sound, Controllers, Counters
<1>2. Quiet(m, c, better) /\ better.probe = 0
  <2>1. /\ better \in Controllers /\ better.congested = c.congested
        /\ better.stable = c.stable /\ better.probe = 0
        /\ better.cooldown = c.cooldown /\ better.target = c.target
        /\ better.cuts = c.cuts /\ better.ceiling = c.ceiling
        /\ better.latched = c.latched /\ better.cap = c.cap
    BY <1>1 DEF Controllers
  <2> HIDE DEF better
  <2> QED BY <2>1, Quietly DEF Sound, Counters
<1>3. c.probe + 1 < ProbeWindows => Quiet(m, c, next) /\ next.probe = c.probe + 1
  <2>1. /\ next \in Controllers /\ next.congested = c.congested
        /\ next.stable = c.stable /\ next.probe = c.probe + 1
        /\ next.cooldown = c.cooldown /\ next.target = c.target
        /\ next.cuts = c.cuts /\ next.ceiling = c.ceiling
        /\ next.latched = c.latched /\ next.cap = c.cap
    BY <1>1 DEF Controllers
  <2>2. c.probe + 1 < ProbeWindows => c.probe + 1 \in 0..1
    BY <1>1 DEF ProbeWindows
  <2> HIDE DEF next
  <2> QED BY <2>1, <2>2, Quietly DEF Sound, Counters
<1>4. /\ Sound(m, up) /\ Kept(c, up) /\ Up(c, up)
      /\ up.target >= c.target /\ (up.target <= c.target \/ up.target <= c.cap)
  BY OneStepUp
<1> HIDE DEF up
<1>5. Quiet(m, up, back) /\ back.probe = 0
  <2>1. /\ back \in Controllers /\ back.congested = up.congested
        /\ back.stable = up.stable /\ back.probe = 0
        /\ back.cooldown = up.cooldown /\ back.target = up.target
        /\ back.cuts = up.cuts /\ back.ceiling = up.ceiling
        /\ back.latched = up.latched /\ back.cap = up.cap
    BY <1>4 DEF Sound, Controllers
  <2> HIDE DEF back
  <2> QED BY <1>4, <2>1, Quietly DEF Sound, Counters
<1>6. \/ Probe(c, w) = better
      \/ c.probe + 1 < ProbeWindows /\ ~Improved(c, w) /\ Probe(c, w) = next
      \/ ~(c.probe + 1 < ProbeWindows) /\ Probe(c, w) = back
  BY DEF Probe, up
<1> HIDE DEF better, next, back
<1>7. Up(c, better) /\ (c.probe + 1 < ProbeWindows => Up(c, next)) /\ Up(c, back)
  BY <1>2, <1>3, <1>4, <1>5, QuietMoves
<1> QED BY <1>1, <1>2, <1>3, <1>4, <1>5, <1>6, <1>7 DEF Quiet, Kept, ProbeWindows

(* A severe window.                                                         *)
LEMMA SevereIsSound ==
  ASSUME NEW m \in Modes, NEW c, Sound(m, c)
  PROVE  LET d == OnSevere(m, c)
         IN  /\ Sound(m, d) /\ Kept(c, d) /\ d.target <= c.target /\ Down(c, d)
             /\ d.stable = 0
<1> DEFINE low == Record(LowerSeverely(c), c.target)
           fresh == Forget(low)
           d == [fresh EXCEPT !.ever = TRUE]
<1>1. Sound(m, low) /\ Kept(c, low) /\ low.target <= c.target /\ Down(c, low)
  BY SeverelyDown
<1> HIDE DEF low
<1>2. Quiet(m, low, fresh) /\ fresh.stable = 0
  BY <1>1, ForgetIsQuiet
<1> HIDE DEF fresh
<1>3. Quiet(m, fresh, d) /\ d.stable = 0
  BY <1>2, MarkIsQuiet DEF Quiet
<1> HIDE DEF d
<1>4. 1 \in 0..HardRecoveryCooldown(m)
  BY CooldownAssumption DEF HardRecoveryCooldown
<1>5. Quiet(m, d, CoolDown(d, 1)) /\ CoolDown(d, 1).stable = 0
  BY <1>3, <1>4, CoolDownIsQuiet DEF Quiet
<1>6. OnSevere(m, c) = IF m = "cloud" THEN CoolDown(d, 1) ELSE d
  BY DEF OnSevere, d, fresh, low
<1>7. Down(c, OnSevere(m, c))
  BY <1>1, <1>2, <1>3, <1>5, <1>6 DEF Quiet, Down, Base
<1> QED BY <1>1, <1>2, <1>3, <1>5, <1>6, <1>7 DEF Quiet, Kept

(* A congested window that lowers the target for the round-trip time alone  *)
(* starts a trial.                                                          *)
LEMMA CongestedIsSound ==
  ASSUME NEW m \in Modes, NEW c, Sound(m, c), NEW w, w.inflation \in Nat
  PROVE  LET d == OnCongested(m, c, w)
         IN  /\ Sound(m, d) /\ d.cap = c.cap /\ d.target <= c.target
             /\ d.latched = c.latched \/ d.latched = TRUE
             /\ RttOnly(m, w) /\ d.target < c.target => d.latched
             /\ Down(c, d) /\ d.stable = 0
             /\ d.latched => d.probe = 0 \/ (c.latched /\ d.probe = c.probe)
<1> DEFINE counted == [c EXCEPT !.stable = 0, !.congested = @ + 1]
           low == Record(LowerOneStep(c), c.target)
           calm == IF m = "cloud" THEN CoolDown(low, 1) ELSE low
           fresh == Forget(calm)
           cut == [fresh EXCEPT !.ever = TRUE]
           trial == [cut EXCEPT !.latched = TRUE, !.probe = 0, !.best = w.inflation]
           needed == IF RttOnly(m, w) THEN RttOnlyWindows ELSE 2
<1>1. c \in Controllers /\ c.target \in Nat /\ c.congested \in 0..2
  BY DEF Sound, Controllers, Counters
<1>2. c.congested + 1 < needed => /\ Quiet(m, c, counted) /\ counted.stable = 0
                                  /\ counted.probe = c.probe
  <2>1. /\ counted \in Controllers /\ counted.congested = c.congested + 1
        /\ counted.stable = 0 /\ counted.probe = c.probe
        /\ counted.cooldown = c.cooldown /\ counted.target = c.target
        /\ counted.cuts = c.cuts /\ counted.ceiling = c.ceiling
        /\ counted.latched = c.latched /\ counted.cap = c.cap
    <3> DEFINE n == c.congested + 1
    <3>1. n \in Nat /\ counted = [c EXCEPT !.stable = 0, !.congested = n]
      BY <1>1
    <3> HIDE DEF n, counted
    <3>2. counted.congested = n
      BY <1>1, <3>1 DEF Controllers
    <3>3. counted \in Controllers
      BY <1>1, <3>1 DEF Controllers
    <3> QED BY <1>1, <3>1, <3>2, <3>3 DEF Controllers, n
  <2>2. c.congested + 1 < needed => c.congested + 1 \in 0..2
    BY <1>1 DEF RttOnlyWindows
  <2> HIDE DEF counted, needed
  <2> QED BY <2>1, <2>2, Quietly DEF Sound, Counters
<1>3. /\ Sound(m, low) /\ Kept(c, low) /\ low.target <= c.target /\ Down(c, low)
      /\ low.probe = c.probe
  BY OneStepDown DEF Same
<1> HIDE DEF low
<1>4. 1 \in 0..HardRecoveryCooldown(m)
  BY CooldownAssumption DEF HardRecoveryCooldown
<1>5. Quiet(m, low, CoolDown(low, 1)) /\ CoolDown(low, 1).probe = low.probe
  BY <1>3, <1>4, CoolDownIsQuiet DEF SameTrial
<1>6. /\ Sound(m, calm) /\ Kept(c, calm) /\ calm.target <= c.target /\ Down(c, calm)
      /\ calm.probe = c.probe
  BY <1>3, <1>5 DEF Quiet, Kept, Down, Base
<1> HIDE DEF calm
<1>7. Quiet(m, calm, fresh) /\ fresh.stable = 0 /\ fresh.probe = calm.probe
  BY <1>6, ForgetIsQuiet DEF SameTrial
<1> HIDE DEF fresh
<1>8. Quiet(m, fresh, cut) /\ cut.stable = 0 /\ cut.probe = fresh.probe
  BY <1>7, MarkIsQuiet DEF Quiet, SameTrial
<1> HIDE DEF cut
<1>9. /\ Sound(m, cut) /\ Kept(c, cut) /\ cut.target <= c.target /\ Down(c, cut)
      /\ cut.stable = 0 /\ cut.probe = c.probe
  BY <1>6, <1>7, <1>8 DEF Quiet, Kept, Down, Base
<1>10. /\ Sound(m, trial) /\ trial.cap = cut.cap /\ trial.target = cut.target
       /\ trial.latched /\ Down(c, trial) /\ trial.stable = 0 /\ trial.probe = 0
  <2>1. /\ trial \in Controllers /\ trial.congested = cut.congested
        /\ trial.stable = cut.stable /\ trial.probe = 0 /\ trial.latched = TRUE
        /\ trial.cooldown = cut.cooldown /\ trial.target = cut.target
        /\ trial.cuts = cut.cuts /\ trial.ceiling = cut.ceiling /\ trial.cap = cut.cap
    BY <1>9 DEF Sound, Controllers
  <2> HIDE DEF trial
  <2>2. Down(c, trial)
    BY <1>9, <2>1 DEF Down, Base
  <2> QED BY <1>9, <2>1, <2>2 DEF Sound, Rates, Counters, Episode
<1>11. OnCongested(m, c, w) = IF c.congested + 1 < needed THEN counted
                              ELSE IF RttOnly(m, w) THEN trial ELSE cut
  BY DEF OnCongested, cut, fresh, calm, low
<1> HIDE DEF counted, trial, needed
<1>12. CASE c.congested + 1 < needed
  BY <1>1, <1>2, <1>11, <1>12, QuietMoves DEF Quiet, Kept
<1>13. CASE ~(c.congested + 1 < needed) /\ RttOnly(m, w)
  BY <1>9, <1>10, <1>11, <1>13 DEF Kept
<1>14. CASE ~(c.congested + 1 < needed) /\ ~RttOnly(m, w)
  BY <1>9, <1>11, <1>14 DEF Kept
<1> QED BY <1>12, <1>13, <1>14

(* A clean window: cool down, count, or raise by one step below the cap.    *)
LEMMA StableIsSound ==
  ASSUME NEW m \in Modes, NEW c, Sound(m, c)
  PROVE  LET d == OnStable(m, c)
         IN  /\ Sound(m, d) /\ d.cap = c.cap /\ Up(c, d)
             /\ d.target >= c.target /\ (d.target <= c.target \/ d.target <= c.cap)
             /\ d.latched = FALSE
             /\ d.stable = 0 \/ (d.stable = c.stable + 1 /\ ~(c.cooldown > 0))
             /\ d.target > c.target =>
                  d.stable = 0 /\ c.stable + 1 >= StableNeeded(m, c)
<1> DEFINE calm == [c EXCEPT !.congested = 0, !.latched = FALSE]
           cooler == [calm EXCEPT !.cooldown = @ - 1, !.stable = 0]
           counted == [calm EXCEPT !.stable = @ + 1]
           up == Finish(RaiseOneStep(calm))
           raised == [up EXCEPT !.stable = 0]
           needed == StableNeeded(m, calm)
<1>1. /\ c \in Controllers /\ c.target \in Nat /\ c.stable \in 0..5
      /\ c.cooldown \in 0..HardRecoveryCooldown(m) /\ c.cooldown \in Nat
      /\ HardRecoveryCooldown(m) \in Nat
  BY CooldownAssumption DEF Sound, Controllers, Counters, HardRecoveryCooldown
<1>2. /\ calm \in Controllers /\ calm.congested = 0 /\ calm.latched = FALSE
      /\ calm.stable = c.stable /\ calm.probe = c.probe
      /\ calm.cooldown = c.cooldown /\ calm.target = c.target
      /\ calm.cuts = c.cuts /\ calm.ceiling = c.ceiling /\ calm.cap = c.cap
  BY <1>1 DEF Controllers
<1>3. OnStable(m, c) = IF calm.cooldown > 0 THEN cooler
                       ELSE IF calm.stable + 1 < needed THEN counted ELSE raised
  BY DEF OnStable
<1>4. needed \in {2, 5, 6}
  BY DEF StableNeeded
<1>15. needed = StableNeeded(m, c)
  <2>1. calm.ever = c.ever
    BY <1>1 DEF Controllers
  <2> HIDE DEF calm
  <2> QED BY <1>2, <2>1 DEF StableNeeded
<1> HIDE DEF calm, needed
<1>5. Sound(m, calm)
  BY <1>2 DEF Sound, Rates, Counters, Episode
<1>6. calm.cooldown > 0 => Quiet(m, calm, cooler) /\ cooler.stable = 0
  <2> SUFFICES ASSUME calm.cooldown > 0
               PROVE  Quiet(m, calm, cooler) /\ cooler.stable = 0
    OBVIOUS
  <2> DEFINE n == calm.cooldown - 1
  <2>1. n \in Nat /\ n \in 0..HardRecoveryCooldown(m)
    BY <1>1, <1>2
  <2>2. cooler = [calm EXCEPT !.cooldown = n, !.stable = 0]
    OBVIOUS
  <2> HIDE DEF n, cooler
  <2>3. cooler \in Controllers
    BY <1>2, <2>1, <2>2 DEF Controllers
  <2>4. /\ cooler.congested = calm.congested /\ cooler.stable = 0
        /\ cooler.probe = calm.probe /\ cooler.latched = calm.latched
        /\ cooler.cooldown = n /\ cooler.target = calm.target
        /\ cooler.cuts = calm.cuts /\ cooler.ceiling = calm.ceiling
        /\ cooler.cap = calm.cap
    BY <1>2, <2>2 DEF Controllers
  <2> QED BY <1>5, <2>1, <2>3, <2>4, Quietly DEF Sound, Counters
<1>7. calm.stable + 1 < needed =>
        Quiet(m, calm, counted) /\ counted.stable = calm.stable + 1
  <2> SUFFICES ASSUME calm.stable + 1 < needed
               PROVE  Quiet(m, calm, counted) /\ counted.stable = calm.stable + 1
    OBVIOUS
  <2> DEFINE n == calm.stable + 1
  <2>1. n \in Nat /\ n \in 0..5
    BY <1>1, <1>2, <1>4
  <2>2. counted = [calm EXCEPT !.stable = n]
    OBVIOUS
  <2> HIDE DEF counted
  <2> HIDE DEF n
  <2>3. /\ counted \in Controllers /\ counted.congested = calm.congested
        /\ counted.stable = n
        /\ counted.probe = calm.probe /\ counted.latched = calm.latched
        /\ counted.cooldown = calm.cooldown /\ counted.target = calm.target
        /\ counted.cuts = calm.cuts /\ counted.ceiling = calm.ceiling
        /\ counted.cap = calm.cap
    BY <1>2, <2>1, <2>2 DEF Controllers
  <2> QED BY <1>5, <2>1, <2>3, Quietly DEF Sound, Counters, n
<1>8. /\ Sound(m, up) /\ Kept(calm, up) /\ up.target >= calm.target /\ Up(calm, up)
      /\ up.target <= calm.target \/ up.target <= calm.cap
  BY <1>5, OneStepUp
<1> HIDE DEF up
<1>9. Quiet(m, up, raised) /\ raised.stable = 0
  <2>1. /\ raised \in Controllers /\ raised.congested = up.congested
        /\ raised.stable = 0 /\ raised.probe = up.probe
        /\ raised.cooldown = up.cooldown /\ raised.target = up.target
        /\ raised.cuts = up.cuts /\ raised.ceiling = up.ceiling
        /\ raised.latched = up.latched /\ raised.cap = up.cap
    BY <1>8 DEF Sound, Controllers
  <2> HIDE DEF raised
  <2> QED BY <1>8, <2>1, Quietly DEF Sound, Counters
<1> HIDE DEF cooler, counted, raised
<1>13. /\ calm.cooldown > 0 => Up(calm, cooler)
       /\ calm.stable + 1 < needed => Up(calm, counted)
       /\ Up(calm, raised)
  BY <1>5, <1>6, <1>7, <1>8, <1>9, QuietMoves
<1>14. \A d : Up(calm, d) => Up(c, d)
  BY <1>2 DEF Up, Base
<1>10. CASE calm.cooldown > 0
  BY <1>1, <1>2, <1>3, <1>6, <1>10, <1>13, <1>14, <1>15 DEF Quiet, Kept
<1>11. CASE ~(calm.cooldown > 0) /\ calm.stable + 1 < needed
  BY <1>1, <1>2, <1>3, <1>7, <1>11, <1>13, <1>14, <1>15 DEF Quiet, Kept
<1>12. CASE ~(calm.cooldown > 0) /\ ~(calm.stable + 1 < needed)
  BY <1>1, <1>2, <1>3, <1>4, <1>8, <1>9, <1>12, <1>13, <1>14, <1>15 DEF Quiet, Kept
<1> QED BY <1>10, <1>11, <1>12

(* A window that says nothing takes back one clean one.                     *)
LEMMA NeutralIsQuiet ==
  ASSUME NEW m \in Modes, NEW c, Sound(m, c)
  PROVE  /\ Quiet(m, c, OnNeutral(c)) /\ OnNeutral(c).probe = c.probe
         /\ OnNeutral(c).stable = IF c.stable > 0 THEN c.stable - 1 ELSE 0
<1> DEFINE n == IF c.stable > 0 THEN c.stable - 1 ELSE 0
           d == [c EXCEPT !.congested = 0, !.stable = n]
<1>1. c \in Controllers /\ c.stable \in 0..5
  BY DEF Sound, Counters
<1>2. n \in Nat /\ n \in 0..5
  BY <1>1
<1>3. OnNeutral(c) = d
  BY DEF OnNeutral
<1> HIDE DEF n
<1>4. /\ d \in Controllers /\ d.congested = 0 /\ d.stable = n
      /\ d.probe = c.probe /\ d.cooldown = c.cooldown /\ d.target = c.target
      /\ d.cuts = c.cuts /\ d.ceiling = c.ceiling /\ d.latched = c.latched
      /\ d.cap = c.cap
  BY <1>1, <1>2 DEF Controllers
<1> HIDE DEF d
<1>5. Counters(m, d)
  BY <1>2, <1>4 DEF Sound, Counters
<1> QED BY <1>3, <1>4, <1>5, Quietly DEF n

(* What judging a window does: the cap stays, the target is not raised      *)
(* above it; after a recovery nothing is lowered; and a window that is      *)
(* neither strongly congested nor clean lowers the target only to start a   *)
(* trial, of which there is one at a time.                                  *)
Judged(m, c, w, hard, d) ==
  /\ d.cap = c.cap /\ (d.target <= c.target \/ d.target <= c.cap)
  /\ hard => d.target >= c.target
  /\ Down(c, d) \/ Up(c, d)
  /\ ~Strong(m, w) /\ ~Stable(m, w) =>
       /\ c.latched => d.latched
       /\ d.target < c.target => ~c.latched /\ d.latched

(* What it does to the counters: a raise, a recovery or a congested window  *)
(* starts the clean ones over, a window adds one or takes one back, a raise *)
(* needs as many as there have to be, or a trial that has run its course.   *)
Counted(m, c, w, hard, d) ==
  /\ hard \/ Congested(m, w) \/ d.target > c.target => d.stable = 0
  /\ ~hard /\ ~Congested(m, w) =>
       /\ d.target >= c.target
       /\ \/ d.stable = 0
          \/ Stable(m, w) /\ ~(c.cooldown > 0) /\ d.stable = c.stable + 1
          \/ ~Stable(m, w) /\ d.stable = c.stable - 1
  /\ d.target > c.target => \/ c.latched /\ c.probe + 1 >= ProbeWindows
                            \/ ~hard /\ c.stable + 1 >= StableNeeded(m, c)
  /\ d.latched => \/ d.probe = 0
                  \/ /\ c.latched /\ d.target <= c.target
                     /\ IF RttOnly(m, w) THEN ~Improved(c, w) /\ d.probe = c.probe + 1
                        ELSE d.probe = c.probe

(* A strongly congested window ends the trial and changes no more.          *)
LEMMA StrongEndsTrial ==
  ASSUME NEW m \in Modes, NEW c, Sound(m, c), NEW w
  PROVE  LET d == IF Strong(m, w) THEN [c EXCEPT !.latched = FALSE, !.probe = 0] ELSE c
         IN  /\ Sound(m, d) /\ d.cap = c.cap /\ d.target = c.target
             /\ d.cuts = c.cuts /\ d.ceiling = c.ceiling
             /\ IF Strong(m, w) THEN d.latched = FALSE ELSE d = c
<1>1. CASE ~Strong(m, w)
  BY <1>1
<1>2. CASE Strong(m, w)
  <2> DEFINE d == [c EXCEPT !.latched = FALSE, !.probe = 0]
  <2>1. /\ d \in Controllers /\ d.congested = c.congested /\ d.stable = c.stable
        /\ d.probe = 0 /\ d.cooldown = c.cooldown /\ d.target = c.target
        /\ d.cuts = c.cuts /\ d.ceiling = c.ceiling /\ d.cap = c.cap
        /\ d.latched = FALSE
    BY DEF Sound, Controllers
  <2> HIDE DEF d
  <2>2. Sound(m, d)
    BY <2>1 DEF Sound, Rates, Counters, Episode
  <2> QED BY <1>2, <2>1, <2>2 DEF d
<1> QED BY <1>1, <1>2

(* The branches of a window, the trial first.                               *)
LEMMA WindowIsJudged ==
  ASSUME NEW m \in Modes, NEW c, Sound(m, c), NEW w, w.inflation \in Nat,
         NEW hard \in BOOLEAN
  PROVE  LET r == Judge(m, c, w, hard)
         IN  Sound(m, r) /\ Judged(m, c, w, hard, r) /\ Counted(m, c, w, hard, r)
<1> DEFINE d == IF Strong(m, w) THEN [c EXCEPT !.latched = FALSE, !.probe = 0] ELSE c
           probing == d.latched /\ RttOnly(m, w)
           r == Judge(m, c, w, hard)
           Right(x) == Sound(m, x) /\ Judged(m, c, w, hard, x) /\ Counted(m, c, w, hard, x)
<1>1. c \in Controllers /\ c.target \in Nat /\ c.stable \in 0..5
  BY DEF Sound, Controllers, Counters
<1>2. /\ Sound(m, d) /\ d.cap = c.cap /\ d.target = c.target
      /\ d.cuts = c.cuts /\ d.ceiling = c.ceiling
      /\ IF Strong(m, w) THEN d.latched = FALSE ELSE d = c
  BY StrongEndsTrial
<1>3. \/ probing /\ r = Forget(Probe(d, w))
      \/ ~probing /\ hard /\ r = Forget(d)
      \/ ~probing /\ ~hard /\ Severe(w) /\ r = OnSevere(m, d)
      \/ ~probing /\ ~hard /\ Congested(m, w) /\ r = OnCongested(m, d, w)
      \/ ~probing /\ ~hard /\ ~Congested(m, w) /\ Stable(m, w) /\ r = OnStable(m, d)
      \/ ~probing /\ ~hard /\ ~Congested(m, w) /\ ~Stable(m, w) /\ r = OnNeutral(d)
  <2>1. /\ Severe(w) => Strong(m, w)
        /\ Congested(m, w) <=> Strong(m, w) \/ RttOnly(m, w)
    BY DEF Strong, Congested
  <2>2. r = CASE probing -> Forget(Probe(d, w))
              [] ~probing /\ hard -> Forget(d)
              [] ~probing /\ ~hard /\ Severe(w) -> OnSevere(m, d)
              [] ~probing /\ ~hard /\ ~Severe(w) /\ (Strong(m, w) \/ RttOnly(m, w)) ->
                   OnCongested(m, d, w)
              [] ~probing /\ ~hard /\ ~(Strong(m, w) \/ RttOnly(m, w)) /\ Stable(m, w) ->
                   OnStable(m, d)
              [] OTHER -> OnNeutral(d)
    BY DEF Judge
  <2> HIDE DEF r, d
  <2> QED BY <2>1, <2>2
<1> HIDE DEF d, r
<1>10. \A e : (Down(d, e) => Down(c, e)) /\ (Up(d, e) => Up(c, e))
  BY <1>2 DEF Down, Up, Base
<1>11. Severe(w) => Strong(m, w)
  BY DEF Strong
<1>12. RttOnly(m, w) => ~Strong(m, w)
  BY DEF RttOnly
<1>13. Congested(m, w) <=> Strong(m, w) \/ RttOnly(m, w)
  BY DEF Congested
<1>4. ASSUME probing /\ r = Forget(Probe(d, w))
      PROVE  Right(r)
  <2> DEFINE p == Probe(d, w)
  <2>0. d = c /\ c.latched /\ RttOnly(m, w) /\ Congested(m, w)
    BY <1>2, <1>4, <1>12, <1>13
  <2>1. /\ Sound(m, p) /\ Kept(d, p) /\ Up(d, p)
        /\ p.target >= d.target /\ (p.target <= d.target \/ p.target <= d.cap)
        /\ p.probe = 0 \/ (~Improved(d, w) /\ p.probe = d.probe + 1)
        /\ p.target > d.target => p.probe = 0 /\ d.probe + 1 >= ProbeWindows
    BY <1>2, ProbeIsSound
  <2> HIDE DEF p
  <2>2. r = Forget(p)
    BY <1>4 DEF p
  <2>3. Quiet(m, p, r) /\ r.probe = p.probe /\ r.stable = 0
    BY <2>1, <2>2, ForgetIsQuiet DEF SameTrial
  <2>4. p.target \in Nat
    BY <2>1 DEF Sound, Controllers
  <2>5. Up(c, r)
    BY <1>10, <2>1, <2>3, QuietMoves
  <2>6. Judged(m, c, w, hard, r)
    BY <1>1, <1>2, <1>4, <2>1, <2>2, <2>3, <2>4, <2>5 DEF Quiet, Kept, Judged
  <2>7. Counted(m, c, w, hard, r)
    BY <1>1, <2>0, <2>1, <2>3, <2>4 DEF Quiet, Counted
  <2> QED BY <2>3, <2>6, <2>7 DEF Quiet
<1>5. ASSUME ~probing /\ hard /\ r = Forget(d)
      PROVE  Right(r)
  <2>1. Quiet(m, d, r) /\ r.probe = d.probe /\ r.stable = 0
    BY <1>2, <1>5, ForgetIsQuiet DEF SameTrial
  <2>2. Up(c, r)
    BY <1>2, <1>10, <2>1, QuietMoves
  <2>3. Judged(m, c, w, hard, r)
    BY <1>1, <1>2, <1>5, <2>1, <2>2 DEF Quiet, Kept, Judged
  <2>4. r.latched => d = c /\ c.latched /\ ~RttOnly(m, w)
    BY <1>2, <1>5, <2>1 DEF Quiet, Kept
  <2>5. Counted(m, c, w, hard, r)
    BY <1>1, <1>2, <1>5, <2>1, <2>4 DEF Quiet, Counted
  <2> QED BY <2>1, <2>3, <2>5 DEF Quiet
<1>6. ASSUME ~probing /\ ~hard /\ Severe(w) /\ r = OnSevere(m, d)
      PROVE  Right(r)
  <2>1. /\ Sound(m, r) /\ Kept(d, r) /\ r.target <= d.target /\ Down(d, r)
        /\ r.stable = 0
    BY <1>2, <1>6, SevereIsSound
  <2>2. Judged(m, c, w, hard, r)
    BY <1>1, <1>2, <1>6, <1>10, <1>11, <2>1 DEF Kept, Judged
  <2>3. Counted(m, c, w, hard, r)
    <3>1. r.latched = FALSE /\ Congested(m, w) /\ r.target \in Nat
      BY <1>2, <1>6, <1>11, <1>13, <2>1 DEF Kept, Sound, Controllers
    <3> QED BY <1>1, <1>2, <1>6, <2>1, <3>1 DEF Counted
  <2> QED BY <2>1, <2>2, <2>3
<1>7. ASSUME ~probing /\ ~hard /\ Congested(m, w) /\ r = OnCongested(m, d, w)
      PROVE  Right(r)
  <2>1. /\ Sound(m, r) /\ r.cap = d.cap /\ r.target <= d.target
        /\ r.latched = d.latched \/ r.latched = TRUE
        /\ RttOnly(m, w) /\ r.target < d.target => r.latched
        /\ Down(d, r) /\ r.stable = 0
        /\ r.latched => r.probe = 0 \/ (d.latched /\ r.probe = d.probe)
    BY <1>2, <1>7, CongestedIsSound
  <2>2. Judged(m, c, w, hard, r)
    BY <1>1, <1>2, <1>7, <1>10, <1>13, <2>1 DEF Judged
  <2>3. Counted(m, c, w, hard, r)
    <3>1. r.target \in Nat /\ ~d.latched
      BY <1>2, <1>7, <1>13, <2>1 DEF Sound, Controllers
    <3> QED BY <1>1, <1>2, <1>7, <2>1, <3>1 DEF Counted
  <2> QED BY <2>1, <2>2, <2>3
<1>8. ASSUME ~probing /\ ~hard /\ ~Congested(m, w) /\ Stable(m, w) /\ r = OnStable(m, d)
      PROVE  Right(r)
  <2>0. d = c
    BY <1>2, <1>8, <1>13
  <2>1. /\ Sound(m, r) /\ r.cap = d.cap
        /\ r.target >= d.target /\ (r.target <= d.target \/ r.target <= d.cap)
        /\ Up(d, r) /\ r.latched = FALSE
        /\ r.stable = 0 \/ (r.stable = d.stable + 1 /\ ~(d.cooldown > 0))
        /\ r.target > d.target => r.stable = 0 /\ d.stable + 1 >= StableNeeded(m, d)
    BY <1>2, <1>8, StableIsSound
  <2>2. Judged(m, c, w, hard, r)
    BY <1>1, <1>8, <2>0, <2>1 DEF Judged
  <2>3. Counted(m, c, w, hard, r)
    BY <1>1, <1>8, <2>0, <2>1 DEF Counted
  <2> QED BY <2>1, <2>2, <2>3
<1>9. ASSUME ~probing /\ ~hard /\ ~Congested(m, w) /\ ~Stable(m, w) /\ r = OnNeutral(d)
      PROVE  Right(r)
  <2>0. d = c /\ (r.latched => ~RttOnly(m, w))
    BY <1>2, <1>9, <1>13
  <2>1. /\ Quiet(m, c, r) /\ r.probe = c.probe
        /\ r.stable = IF c.stable > 0 THEN c.stable - 1 ELSE 0
    BY <1>9, <2>0, NeutralIsQuiet
  <2>2. Up(c, r)
    BY <2>1, QuietMoves
  <2>3. Judged(m, c, w, hard, r)
    BY <1>1, <2>1, <2>2 DEF Quiet, Kept, Judged
  <2>4. Counted(m, c, w, hard, r)
    BY <1>1, <1>9, <2>0, <2>1 DEF Quiet, Kept, Counted
  <2> QED BY <2>1, <2>3, <2>4 DEF Quiet
<1> QED BY <1>3, <1>4, <1>5, <1>6, <1>7, <1>8, <1>9 DEF r

(* A whole feedback: a recovery costs one step, a cap that is up stays, and *)
(* without a clean or a strongly congested window a reduction the decoder   *)
(* did not ask for uses up the one trial there is.                          *)
LEMMA FeedbackIsSound ==
  ASSUME NEW m \in Modes, NEW c, Sound(m, c), NEW w, w.inflation \in Nat,
         NEW hard \in BOOLEAN, NEW oversized \in BOOLEAN
  PROVE  LET r == Observe(m, c, w, hard, oversized)
         IN  /\ Sound(m, r) /\ Carried(c, r)
             /\ hard => r.target >= c.target - Step \/ r.target >= r.cap - Step
             /\ c.cap < Configured =>
                  r.cap = c.cap /\ (r.target <= c.target \/ r.target <= c.cap)
             /\ ~w.fresh \/ (~Strong(m, w) /\ ~Stable(m, w)) =>
                  /\ c.latched => r.latched
                  /\ ~hard /\ ~oversized /\ r.target < c.target =>
                       w.fresh /\ ~c.latched /\ r.latched
<1> DEFINE d == ApplySignal(m, c, hard, oversized)
           r == Observe(m, c, w, hard, oversized)
<1>1. Sound(m, d) /\ Signalled(c, d, hard, oversized)
  BY SignalIsAnswered
<1>2. r = IF w.fresh THEN Judge(m, d, w, hard) ELSE d
  BY DEF Observe
<1> HIDE DEF d
<1>3. Sound(m, r) /\ (IF w.fresh THEN Judged(m, d, w, hard, r) ELSE r = d)
  BY <1>1, <1>2, WindowIsJudged
<1> HIDE DEF r
<1>4. /\ c.target \in Nat /\ d.target \in Nat /\ r.target \in Nat
      /\ c.cap \in Nat /\ d.cap \in Nat /\ r.cap \in Nat
      /\ c.cap \in {Configured, OversizedCeiling}
      /\ Configured \in Nat /\ Step = 5000
  BY <1>1, <1>3, Limits DEF Sound, Controllers, Rates
<1>5. /\ r.cap = d.cap /\ (r.target <= d.target \/ r.target <= d.cap)
      /\ hard => r.target >= d.target
  BY <1>3, <1>4 DEF Judged
<1>6. hard => r.target >= c.target - Step \/ r.target >= r.cap - Step
  BY <1>1, <1>4, <1>5 DEF Signalled
<1>7. c.cap < Configured =>
        r.cap = c.cap /\ (r.target <= c.target \/ r.target <= c.cap)
  BY <1>1, <1>4, <1>5 DEF Signalled
<1>8. ASSUME ~w.fresh \/ (~Strong(m, w) /\ ~Stable(m, w))
      PROVE  /\ c.latched => r.latched
             /\ ~hard /\ ~oversized /\ r.target < c.target =>
                  w.fresh /\ ~c.latched /\ r.latched
  <2>1. CASE w.fresh
    BY <1>1, <1>3, <1>8, <2>1 DEF Signalled, Judged
  <2>2. CASE ~w.fresh
    BY <1>1, <1>3, <1>4, <2>2 DEF Signalled
  <2> QED BY <2>1, <2>2
<1>9. Carried(c, r)
  <2>1. CASE w.fresh
    BY <1>1, <1>3, <2>1, DownThenUp DEF Signalled, Judged
  <2>2. CASE ~w.fresh
    <3>1. Down(d, r)
      BY <1>1, <1>3, <1>4, <2>2 DEF Down, Sound, Episode
    <3> QED BY <1>1, <1>3, <3>1, DownThenUp DEF Signalled
  <2> QED BY <2>1, <2>2
<1> QED BY <1>3, <1>6, <1>7, <1>8, <1>9 DEF r

(* A raise has its evidence, and what a feedback leaves of the counters is  *)
(* covered by what is left of it: n clean windows and k inflated ones.      *)
Earned(m, c, w, hard, d, n, k) ==
  /\ d.target > c.target =>
       /\ w.fresh
       /\ n + 1 >= StableNeeded(m, c) \/ (c.latched /\ k + 1 >= ProbeWindows)
  /\ d.target < d.cap => d.stable <=
       IF d.target # c.target \/ hard \/ (w.fresh /\ Congested(m, w)) THEN 0
       ELSE IF ~w.fresh \/ (Stable(m, w) /\ c.cooldown > 0) THEN n
       ELSE IF Stable(m, w) THEN Capped(n + 1, 5) ELSE Max({0, n - 1})
  /\ d.latched => d.probe <=
       IF d.target > c.target \/ ~c.latched THEN 0
       ELSE IF ~w.fresh \/ ~RttOnly(m, w) THEN k
       ELSE IF Improved(c, w) THEN 0 ELSE Capped(k + 1, 1)

(* What the evidence covers is covered after the next feedback.             *)
LEMMA FeedbackIsEarned ==
  ASSUME NEW m \in Modes, NEW c, Sound(m, c), NEW w, w.inflation \in Nat,
         NEW hard \in BOOLEAN, NEW oversized \in BOOLEAN,
         NEW n \in 0..5, NEW k \in 0..1,
         c.target < c.cap => c.stable <= n, c.latched => c.probe <= k
  PROVE  Earned(m, c, w, hard, Observe(m, c, w, hard, oversized), n, k)
<1> DEFINE d == ApplySignal(m, c, hard, oversized)
           r == Observe(m, c, w, hard, oversized)
<1>1. Sound(m, d) /\ Signalled(c, d, hard, oversized)
  BY SignalIsAnswered
<1>2. r = IF w.fresh THEN Judge(m, d, w, hard) ELSE d
  BY DEF Observe
<1> HIDE DEF d
<1>3. /\ Sound(m, r)
      /\ IF w.fresh THEN Judged(m, d, w, hard, r) /\ Counted(m, d, w, hard, r) ELSE r = d
  BY <1>1, <1>2, WindowIsJudged
<1> HIDE DEF r
<1>4. /\ c.target \in Nat /\ d.target \in Nat /\ r.target \in Nat
      /\ c.cap \in Nat /\ d.cap \in Nat /\ r.cap \in Nat
      /\ c.stable \in 0..5 /\ d.stable \in 0..5 /\ r.stable \in 0..5
      /\ c.probe \in 0..1 /\ d.probe \in 0..1 /\ r.probe \in 0..1
      /\ c.cooldown \in Nat
  BY <1>1, <1>3 DEF Sound, Controllers, Counters
<1>5. d.target <= c.target /\ d.cap <= c.cap /\ d.latched = c.latched
  <2>1. OversizedCeiling <= c.cap
    BY Limits DEF Sound, Rates
  <2> QED BY <1>1, <1>4, <2>1 DEF Signalled
<1>6. d.probe = c.probe /\ d.best = c.best /\ (Improved(d, w) <=> Improved(c, w))
  BY <1>1 DEF Signalled, SameTrial, Improved
<1>7. r.cap = d.cap /\ (r.target <= d.target \/ r.target <= d.cap)
  BY <1>3, <1>4 DEF Judged
<1>8. /\ ~hard /\ d.target < c.target => d.target = d.cap
      /\ ~hard /\ ~(d.target < c.target) => Still(c, d)
  BY <1>1, <1>4 DEF Signalled
<1> HIDE DEF d
<1>9. r.target > c.target =>
        /\ w.fresh
        /\ n + 1 >= StableNeeded(m, c) \/ (c.latched /\ k + 1 >= ProbeWindows)
  <2> SUFFICES ASSUME r.target > c.target
               PROVE  /\ w.fresh
                      /\ \/ n + 1 >= StableNeeded(m, c)
                         \/ c.latched /\ k + 1 >= ProbeWindows
    OBVIOUS
  <2>1. w.fresh /\ r.target > d.target /\ r.target <= d.cap
    BY <1>3, <1>4, <1>5, <1>7
  <2>2. CASE d.latched /\ d.probe + 1 >= ProbeWindows
    BY <1>4, <1>5, <1>6, <2>1, <2>2 DEF ProbeWindows
  <2>3. CASE ~hard /\ d.stable + 1 >= StableNeeded(m, d)
    <3>1. Still(c, d)
      BY <1>4, <1>8, <2>1, <2>3
    <3>2. StableNeeded(m, d) = StableNeeded(m, c) /\ StableNeeded(m, c) \in Nat
      BY <3>1 DEF Still, Same, StableNeeded
    <3>3. d.stable <= n
      BY <1>4, <1>5, <2>1, <3>1 DEF Still, Same
    <3> QED BY <1>4, <2>1, <2>3, <3>2, <3>3
  <2> QED BY <1>3, <2>1, <2>2, <2>3 DEF Counted
<1>10. /\ Capped(n + 1, 5) = (IF n + 1 < 5 THEN n + 1 ELSE 5)
       /\ Max({0, n - 1}) = (IF n >= 1 THEN n - 1 ELSE 0)
  BY MaxOfTwo DEF Capped
<1>11. r.target < r.cap => r.stable <=
         IF r.target # c.target \/ hard \/ (w.fresh /\ Congested(m, w)) THEN 0
         ELSE IF ~w.fresh \/ (Stable(m, w) /\ c.cooldown > 0) THEN n
         ELSE IF Stable(m, w) THEN Capped(n + 1, 5) ELSE Max({0, n - 1})
  <2> SUFFICES ASSUME r.target < r.cap
               PROVE  r.stable <=
                 IF r.target # c.target \/ hard \/ (w.fresh /\ Congested(m, w)) THEN 0
                 ELSE IF ~w.fresh \/ (Stable(m, w) /\ c.cooldown > 0) THEN n
                 ELSE IF Stable(m, w) THEN Capped(n + 1, 5) ELSE Max({0, n - 1})
    OBVIOUS
  <2>1. CASE ~w.fresh /\ hard
    BY <1>1, <1>3, <1>4, <2>1 DEF Signalled
  <2>2. CASE ~w.fresh /\ ~hard
    <3>1. r = d /\ Still(c, d)
      BY <1>3, <1>4, <1>8, <2>2
    <3> QED BY <1>4, <1>5, <2>2, <3>1 DEF Still, Same
  <2>3. CASE w.fresh /\ (hard \/ Congested(m, w))
    BY <1>3, <1>4, <2>3 DEF Counted
  <2>4. CASE w.fresh /\ ~hard /\ ~Congested(m, w)
    <3>1. /\ r.target >= d.target
          /\ r.target > d.target => r.stable = 0
          /\ \/ r.stable = 0
             \/ Stable(m, w) /\ ~(d.cooldown > 0) /\ r.stable = d.stable + 1
             \/ ~Stable(m, w) /\ r.stable = d.stable - 1
      BY <1>3, <2>4 DEF Counted
    <3>2. Still(c, d) /\ c.target < c.cap
      BY <1>4, <1>5, <1>7, <1>8, <2>4, <3>1 DEF Still
    <3>3. /\ d.target = c.target /\ d.stable = c.stable /\ d.cooldown = c.cooldown
          /\ c.stable <= n
      BY <3>2 DEF Still, Same
    <3>4. CASE r.target # c.target
      BY <1>4, <3>1, <3>3, <3>4
    <3>5. CASE r.target = c.target
      BY <1>4, <1>10, <2>4, <3>1, <3>3, <3>5
    <3> QED BY <3>4, <3>5
  <2> QED BY <2>1, <2>2, <2>3, <2>4
<1>12. r.latched => r.probe <=
         IF r.target > c.target \/ ~c.latched THEN 0
         ELSE IF ~w.fresh \/ ~RttOnly(m, w) THEN k
         ELSE IF Improved(c, w) THEN 0 ELSE Capped(k + 1, 1)
  <2> SUFFICES ASSUME r.latched
               PROVE  r.probe <=
                 IF r.target > c.target \/ ~c.latched THEN 0
                 ELSE IF ~w.fresh \/ ~RttOnly(m, w) THEN k
                 ELSE IF Improved(c, w) THEN 0 ELSE Capped(k + 1, 1)
    OBVIOUS
  <2>1. Capped(k + 1, 1) = 1
    BY DEF Capped
  <2>2. CASE ~w.fresh
    BY <1>3, <1>4, <1>5, <1>6, <2>2
  <2>3. CASE w.fresh /\ r.probe = 0
    BY <2>1, <2>3
  <2>4. CASE w.fresh /\ r.probe # 0
    <3>1. /\ d.latched /\ r.target <= d.target
          /\ IF RttOnly(m, w) THEN ~Improved(d, w) /\ r.probe = d.probe + 1
             ELSE r.probe = d.probe
      BY <1>3, <2>4 DEF Counted
    <3> QED BY <1>4, <1>5, <1>6, <2>1, <2>4, <3>1
  <2> QED BY <2>2, <2>3, <2>4
<1> QED BY <1>9, <1>11, <1>12 DEF Earned, r

-----------------------------------------------------------------------------
(* The state of the feedback.                                               *)

(* Round-trip times are numbers, and so is the absence of one.              *)
LEMMA RttsAreTimes == \A t \in {0} \cup Rtts : t \in Nat
<1>1. \A t \in {0} \cup Rtts : t = 0 \/ t \in Rtts
  OBVIOUS
<1>2. \A t \in Rtts : t \in Nat
  BY RttsAssumption
<1> QED BY <1>1, <1>2

(* What is remembered of an episode follows the target.                     *)
LEMMA EpisodeIsRemembered ==
  ASSUME NEW m \in Modes, NEW c, Sound(m, c), NEW d, Sound(m, d), Carried(c, d),
         NEW old \in Lowereds, Remembered(c, old)
  PROVE  LET new == LoweredAfter(old, c.target, d.target)
         IN  new \in Lowereds /\ Remembered(d, new)
<1> DEFINE from == IF old.from = 0 /\ d.target < c.target THEN c.target ELSE old.from
           count == IF d.target < c.target THEN Capped(old.count + 1, 2) ELSE old.count
           new == LoweredAfter(old, c.target, d.target)
<1>1. /\ c.target \in Nat /\ d.target \in Nat /\ c.ceiling \in Nat /\ d.ceiling \in Nat
      /\ c.cuts \in 0..2 /\ d.cuts \in 0..2
      /\ c.cuts > 0 => c.target < c.ceiling
      /\ d.cuts > 0 => d.target < d.ceiling
      /\ old.from \in Nat /\ old.count \in 0..2
  BY DEF Sound, Controllers, Episode, Lowereds
<1>2. new = IF d.target >= from THEN [from |-> 0, count |-> 0]
            ELSE [from |-> from, count |-> count]
  BY DEF LoweredAfter
<1>3. /\ from \in Nat /\ count \in 0..2 /\ count <= old.count + 1
      /\ ~(d.target < c.target) => count = old.count
  BY <1>1 DEF Capped
<1>4. CASE d.target >= from
  <2>1. d.cuts = 0
    BY <1>1, <1>4 DEF Carried, Base, Remembered
  <2> QED BY <1>1, <1>2, <1>4, <2>1 DEF Lowereds, Remembered
<1>5. CASE ~(d.target >= from)
  <2>1. from > 0
    BY <1>1, <1>3, <1>5
  <2>2. from = Base(c)
    BY <1>1, <1>5, <2>1 DEF Base, Remembered
  <2>3. d.cuts > 0 /\ d.ceiling = from
    BY <1>1, <1>3, <1>5, <2>2 DEF Carried
  <2>4. d.cuts >= count
    BY <1>1, <1>3, <2>3 DEF Carried, Remembered
  <2> HIDE DEF from, count
  <2> QED BY <1>2, <1>3, <1>5, <2>1, <2>3, <2>4 DEF Lowereds, Remembered
<1> QED BY <1>4, <1>5

(* What is kept of a history is one.                                        *)
LEMMA HistoryIsKept ==
  ASSUME NEW h \in Histories, NEW rtt \in Rtts, NEW k \in KeepRtt(h, rtt, Rtts)
  PROVE  k \in Histories
<1>1. rtt \in Nat /\ BaselineWindow \in Nat /\ BaselineWindow >= 1
  BY RttsAssumption, WindowAssumption
<1>2. h.least \in {0} \cup Rtts /\ h.age \in 0..BaselineWindow - 1
  BY DEF Histories
<1>3. h.least \in Nat
  BY <1>2, RttsAreTimes
<1>4. [least |-> rtt, age |-> 0] \in Histories
  BY <1>1 DEF Histories
<1>5. CASE rtt = 0
  <2>1. KeepRtt(h, rtt, Rtts) = {h}
    BY <1>1, <1>3, <1>5 DEF KeepRtt
  <2> QED BY <2>1
<1>6. CASE rtt > 0 /\ (h.least = 0 \/ rtt <= h.least)
  <2>1. KeepRtt(h, rtt, Rtts) = {[least |-> rtt, age |-> 0]}
    BY <1>1, <1>3, <1>6 DEF KeepRtt
  <2> QED BY <1>4, <2>1
<1>7. CASE rtt > h.least /\ h.least > 0
  <2> DEFINE younger == [least : {t \in Rtts : h.least < t /\ t < rtt}, age : 1..h.age]
  <2>1. KeepRtt(h, rtt, Rtts) =
          IF h.age + 1 < BaselineWindow THEN {[h EXCEPT !.age = @ + 1]}
          ELSE {[least |-> rtt, age |-> 0]} \cup younger
    BY <1>1, <1>3, <1>7 DEF KeepRtt
  <2>2. CASE h.age + 1 < BaselineWindow
    <3>1. h.age + 1 \in 0..BaselineWindow - 1
      BY <1>1, <1>2, <2>2
    <3>2. [h EXCEPT !.age = @ + 1] \in Histories
      BY <3>1 DEF Histories
    <3> QED BY <2>1, <2>2, <3>2
  <2>3. CASE ~(h.age + 1 < BaselineWindow)
    <3>1. 1..h.age \subseteq 0..BaselineWindow - 1
      BY <1>1, <1>2
    <3>2. younger \subseteq Histories
      BY <3>1 DEF Histories
    <3> HIDE DEF younger
    <3> QED BY <1>4, <2>1, <2>3, <3>2
  <2> QED BY <2>2, <2>3
<1> QED BY <1>1, <1>3, <1>5, <1>6, <1>7

(* A window measured is fresh, a window used is not.                        *)
LEMMA WindowsAreSound ==
  /\ NoWindow.fresh = FALSE /\ NoWindow.inflation = 0
  /\ \A load, n : Window(load, n).fresh = TRUE /\ Window(load, n).inflation = n
BY DEF NoWindow, Window

(* The owner loop starts in the invariant.                                  *)
LEMMA InitIsSound == Init => BitrateInv
<1> SUFFICES ASSUME Init PROVE BitrateInv
  OBVIOUS
<1>1. Sound(mode, control)
  BY NewIsSound DEF Init
<1>2. control.latched = FALSE
  BY DEF Init, NewController
<1>3. history \in Histories
  BY WindowAssumption DEF Init, NoRtt, Histories
<1>4. WindowInv
  <2>1. window = NoWindow
    BY DEF Init
  <2> QED BY <2>1, WindowsAreSound DEF WindowInv
<1>5. PathInv
  BY <1>3 DEF Init, PathInv
<1>6. probeCuts = 0 /\ lowered = [from |-> 0, count |-> 0]
  BY DEF Init
<1>7. control.cuts = 0 /\ control.stable = 0
  BY DEF Init, NewController
<1>8. LoweredInv
  BY <1>6, <1>7 DEF LoweredInv, Lowereds, Remembered
<1>9. EvidenceInv
  <2>1. evidence = [clean |-> 0, inflated |-> 0, unread |-> FALSE] /\ window = NoWindow
    BY DEF Init
  <2> QED BY <1>2, <1>7, <2>1, WindowsAreSound DEF EvidenceInv, Evidences
<1> QED BY <1>1, <1>2, <1>4, <1>5, <1>6, <1>8, <1>9 DEF BitrateInv, ProbeInv

(* updateNetworkPathEstimate.                                               *)
LEMMA SampleStep ==
  ASSUME BitrateInv, NEW load \in Loads, NEW rtt \in Rtts, Sample(load, rtt)
  PROVE  BitrateInv'
<1>1. PICK h \in Histories : h = history'
  BY HistoryIsKept DEF BitrateInv, PathInv, Sample
<1>2. Inflation(h, rtt) \in Nat
  <2>1. h.least \in Nat /\ rtt \in Nat
    BY RttsAreTimes, RttsAssumption DEF Histories
  <2> QED BY <2>1 DEF Inflation
<1>3. window' = window \/ window' = NoWindow \/ window' = Window(load, Inflation(h, rtt))
  BY <1>1 DEF Sample
<1>4. UNCHANGED <<mode, control, probeCuts, lowered>> /\ based' = TRUE
  BY DEF Sample
<1>7. EvidenceInv'
  <2>1. \/ UNCHANGED <<window, evidence>>
        \/ evidence' = [evidence EXCEPT !.unread = TRUE] /\ window'.fresh = TRUE
        \/ evidence' = [evidence EXCEPT !.unread = FALSE] /\ window'.fresh = FALSE
    <3>1. window' = Window(load, Inflation(history', rtt)) => window'.fresh = TRUE
      BY WindowsAreSound
    <3>2. window' = NoWindow => window'.fresh = FALSE
      BY WindowsAreSound
    <3> QED BY <3>1, <3>2 DEF Sample
  <2>2. evidence' \in Evidences /\ (evidence'.unread <=> window'.fresh)
    BY <2>1 DEF BitrateInv, EvidenceInv, Evidences
  <2>3. evidence'.clean = evidence.clean /\ evidence'.inflated = evidence.inflated
    BY <2>1 DEF BitrateInv, EvidenceInv, Evidences
  <2> QED BY <1>4, <2>2, <2>3 DEF BitrateInv, EvidenceInv
<1>5. renumbered' \in BOOLEAN
  BY DEF Sample, BitrateInv, PathInv
<1>6. WindowInv'
  <2>1. window'.inflation \in Nat
    BY <1>2, <1>3, WindowsAreSound DEF BitrateInv, WindowInv
  <2> QED BY <1>4, <2>1 DEF WindowInv
<1> QED BY <1>1, <1>4, <1>5, <1>6, <1>7 DEF BitrateInv, PathInv, ProbeInv, LoweredInv

(* What a feedback does to the evidence is what it does to the counters.    *)
LEMMA FeedbackEarns ==
  ASSUME BitrateInv, NEW hard \in BOOLEAN, NEW oversized \in BOOLEAN,
         Feedback(hard, oversized)
  PROVE  Earned(mode, control, window, hard, control', evidence.clean, evidence.inflated)
<1>1. control' = Observe(mode, control, window, hard, oversized)
  BY DEF Feedback
<1>2. /\ mode \in Modes /\ Sound(mode, control) /\ window.inflation \in Nat
      /\ evidence.clean \in 0..5 /\ evidence.inflated \in 0..1
      /\ control.target < control.cap => control.stable <= evidence.clean
      /\ control.latched => control.probe <= evidence.inflated
  BY DEF BitrateInv, PathInv, WindowInv, EvidenceInv, Evidences
<1>3. ASSUME NEW n \in 0..5, NEW k \in 0..1,
             control.target < control.cap => control.stable <= n,
             control.latched => control.probe <= k
      PROVE  Earned(mode, control, window, hard,
                    Observe(mode, control, window, hard, oversized), n, k)
  BY <1>2, <1>3, FeedbackIsEarned
<1> QED BY <1>1, <1>2, <1>3

(* The evidence covers the counters after the feedback too.                 *)
LEMMA EvidenceStep ==
  ASSUME BitrateInv, NEW hard \in BOOLEAN, NEW oversized \in BOOLEAN,
         Feedback(hard, oversized)
  PROVE  EvidenceInv'
<1> DEFINE cut == control'.target < control.target
           raised == control'.target > control.target
           n == IF \/ cut \/ raised \/ hard
                   \/ evidence.unread /\ Congested(mode, window) THEN 0
                ELSE IF ~evidence.unread \/ (Stable(mode, window) /\ control.cooldown > 0)
                THEN evidence.clean
                ELSE IF Stable(mode, window) THEN Capped(evidence.clean + 1, 5)
                ELSE Max({0, evidence.clean - 1})
           k == IF raised \/ ~control.latched THEN 0
                ELSE IF ~evidence.unread \/ ~RttOnly(mode, window) THEN evidence.inflated
                ELSE IF Improved(control, window) THEN 0
                ELSE Capped(evidence.inflated + 1, 1)
<1>1. /\ evidence' = [clean |-> n, inflated |-> k, unread |-> FALSE]
      /\ window' = NoWindow
  BY DEF Feedback, Used
<1>2. /\ evidence.clean \in 0..5 /\ evidence.inflated \in 0..1
      /\ evidence.unread \in BOOLEAN /\ (evidence.unread <=> window.fresh)
  BY DEF BitrateInv, EvidenceInv, Evidences
<1>3. control.target \in Nat /\ control'.target \in Nat
  <2>1. Sound(mode, control')
    BY FeedbackIsSound DEF Feedback, BitrateInv, PathInv, WindowInv
  <2> QED BY <2>1 DEF BitrateInv, Sound, Controllers
<1>4. n \in 0..5 /\ k \in 0..1
  BY <1>2, MaxOfTwo DEF Capped
<1>5. cut \/ raised <=> control'.target # control.target
  BY <1>3
<1>6. /\ control'.target < control'.cap => control'.stable <= n
      /\ control'.latched => control'.probe <= k
  <2> HIDE DEF n, k
  <2>1. Earned(mode, control, window, hard, control', evidence.clean, evidence.inflated)
    BY FeedbackEarns
  <2>2. /\ control'.target < control'.cap => control'.stable <= n
    BY <1>2, <1>5, <2>1 DEF Earned, n
  <2>3. control'.latched => control'.probe <= k
    BY <1>2, <2>1 DEF Earned, k
  <2> QED BY <2>2, <2>3
<1> HIDE DEF n, k
<1>7. /\ evidence' \in Evidences /\ evidence'.clean = n /\ evidence'.inflated = k
      /\ evidence'.unread = FALSE /\ window'.fresh = FALSE
  BY <1>1, <1>4, WindowsAreSound DEF Evidences
<1> QED BY <1>6, <1>7 DEF EvidenceInv

(* The receiver feedback of runLoop.                                        *)
LEMMA FeedbackStep ==
  ASSUME BitrateInv, NEW hard \in BOOLEAN, NEW oversized \in BOOLEAN,
         Feedback(hard, oversized)
  PROVE  BitrateInv'
<1> DEFINE r == Observe(mode, control, window, hard, oversized)
           over == Strong(mode, window) \/ Stable(mode, window)
<1>1. /\ UNCHANGED <<mode, history, based>> /\ window' = NoWindow /\ control' = r
      /\ renumbered' \in BOOLEAN
      /\ probeCuts' = IF window.fresh /\ over THEN 0
                      ELSE IF control'.target < control.target /\ ~hard /\ ~oversized
                           THEN probeCuts + 1 ELSE probeCuts
      /\ lowered' = LoweredAfter(lowered, control.target, control'.target)
  BY DEF Feedback, Used, BitrateInv, PathInv, WindowInv
<1>2. /\ Sound(mode, r) /\ Carried(control, r)
      /\ ~window.fresh \/ ~over =>
           /\ control.latched => r.latched
           /\ ~hard /\ ~oversized /\ r.target < control.target =>
                ~control.latched /\ r.latched
  BY FeedbackIsSound DEF BitrateInv, PathInv, WindowInv
<1>3. PathInv' /\ WindowInv'
  <2>1. PathInv'
    BY <1>1 DEF BitrateInv, PathInv
  <2>2. window'.fresh = FALSE /\ window'.inflation = 0
    BY <1>1, WindowsAreSound
  <2> QED BY <2>1, <2>2 DEF WindowInv
<1>4. ProbeInv'
  <2> HIDE DEF r, over
  <2>1. CASE window.fresh /\ over
    BY <1>1, <2>1 DEF ProbeInv
  <2>2. CASE ~(window.fresh /\ over) /\ r.target < control.target /\ ~hard /\ ~oversized
    BY <1>1, <1>2, <2>2 DEF BitrateInv, ProbeInv
  <2>3. CASE /\ ~(window.fresh /\ over)
             /\ ~(r.target < control.target /\ ~hard /\ ~oversized)
    BY <1>1, <1>2, <2>3 DEF BitrateInv, ProbeInv
  <2> QED BY <2>1, <2>2, <2>3
<1>5. LoweredInv'
  BY <1>1, <1>2, EpisodeIsRemembered DEF BitrateInv, PathInv, LoweredInv
<1>6. EvidenceInv'
  BY EvidenceStep
<1> QED BY <1>1, <1>2, <1>3, <1>4, <1>5, <1>6 DEF BitrateInv

(* A fresh session.                                                         *)
LEMMA ReconnectStep ==
  ASSUME BitrateInv, Reconnect
  PROVE  BitrateInv'
<1>1. history' \in Histories
  BY WindowAssumption DEF Reconnect, NoRtt, Histories
<1>2. UNCHANGED <<mode, control, probeCuts, lowered>> /\ based' = FALSE /\ renumbered' = TRUE
  BY DEF Reconnect
<1>4. EvidenceInv'
  <2>1. /\ evidence' \in Evidences /\ evidence'.unread = FALSE
        /\ evidence'.clean = evidence.clean /\ evidence'.inflated = evidence.inflated
    BY DEF Reconnect, BitrateInv, EvidenceInv, Evidences
  <2>2. window'.fresh = FALSE
    BY WindowsAreSound DEF Reconnect
  <2> QED BY <1>2, <2>1, <2>2 DEF BitrateInv, EvidenceInv
<1>3. WindowInv'
  <2>1. window' = NoWindow
    BY DEF Reconnect
  <2>2. window'.fresh = FALSE /\ window'.inflation = 0
    BY <2>1, WindowsAreSound
  <2> QED BY <2>2 DEF WindowInv
<1> QED BY <1>1, <1>2, <1>3, <1>4 DEF BitrateInv, PathInv, ProbeInv, LoweredInv

(* BitrateInv is inductive.                                                 *)
LEMMA BitrateStep == BitrateInv /\ [Next]_vars => BitrateInv'
<1>1. BitrateInv /\ UNCHANGED vars => BitrateInv'
  BY DEF vars, BitrateInv, PathInv, WindowInv, ProbeInv, LoweredInv, EvidenceInv
<1> QED BY <1>1, SampleStep, FeedbackStep, ReconnectStep
        DEF Next, NextSample, NextFeedback

(* BitrateInv holds throughout.                                             *)
LEMMA Invariance == Spec => []BitrateInv
BY InitIsSound, BitrateStep, PTL DEF Spec

(* Counters and target stay within their limits, an episode of congestion  *)
(* is open exactly while the target has not come back to where its first    *)
(* reduction found it and remembers whether there was a second, and between *)
(* two windows that say something else a longer round-trip time lowers the  *)
(* target once.                                                             *)
THEOREM EpisodesAreSafe == Spec => []EpisodeSafety
<1>1. BitrateInv => EpisodeSafety
  <2> SUFFICES ASSUME BitrateInv PROVE EpisodeSafety
    OBVIOUS
  <2>1. EpisodeMatchesTarget /\ ProbedOnce
    <3>1. control.cuts > 0 => control.target < control.ceiling
      BY DEF BitrateInv, Sound, Episode
    <3>2. EpisodeMatchesTarget
      BY <3>1 DEF BitrateInv, LoweredInv, Remembered, EpisodeMatchesTarget
    <3> QED BY <3>2 DEF BitrateInv, ProbeInv, ProbedOnce
  <2>2. TypeOK
    <3>1. /\ mode \in Modes /\ based \in BOOLEAN /\ renumbered \in BOOLEAN
          /\ window.fresh => based
      BY DEF BitrateInv, PathInv, WindowInv
    <3>4. history.least \in {0} \cup Rtts /\ history.age \in 0..BaselineWindow - 1
      BY DEF BitrateInv, PathInv, Histories
    <3>2. /\ control.target \in Least..Configured /\ control.congested \in 0..2
          /\ control.stable \in 0..5 /\ control.cuts \in 0..2
          /\ control.probe \in 0..1
          /\ control.cooldown \in 0..HardRecoveryCooldown(mode)
      BY DEF BitrateInv, Sound, Rates, Counters, Episode
    <3>3. control.congested \in 0..RttOnlyWindows /\ control.probe \in 0..ProbeWindows - 1
      BY <3>2 DEF RttOnlyWindows, ProbeWindows
    <3> QED BY <3>1, <3>2, <3>3, <3>4 DEF TypeOK
  <2> QED BY <2>1, <2>2 DEF EpisodeSafety
<1> QED BY <1>1, Invariance, PTL

(* A decoder that starts over costs one step, whatever the window counted.  *)
LEMMA RecoveryCostsOneStep ==
  ASSUME BitrateInv, NEW oversized \in BOOLEAN, Feedback(TRUE, oversized)
  PROVE  ~(control'.target < Min({control.target, control'.cap}) - Step)
<1>1. /\ control' = Observe(mode, control, window, TRUE, oversized)
      /\ mode \in Modes /\ Sound(mode, control) /\ window.inflation \in Nat
      /\ TRUE \in BOOLEAN
  BY DEF Feedback, BitrateInv, PathInv, WindowInv
<1>2. /\ Sound(mode, control')
      /\ \/ control'.target >= control.target - Step
         \/ control'.target >= control'.cap - Step
  BY <1>1, FeedbackIsSound
<1>3. PICK t, u, v \in Nat :
        t = control.target /\ u = control'.target /\ v = control'.cap
  BY <1>1, <1>2 DEF Sound, Controllers
<1>4. Min({t, v}) <= t /\ Min({t, v}) <= v /\ Min({t, v}) \in Nat
  BY MinOfTwo
<1> QED BY <1>2, <1>3, <1>4, Limits

(* A cap once put up stays and the target is not raised above it.           *)
LEMMA CapHolds ==
  ASSUME BitrateInv, [Next]_vars, control.cap < Configured
  PROVE  control'.target <= Max({control.target, control.cap}) /\ control'.cap = control.cap
<1>1. PICK t, v \in Nat : t = control.target /\ v = control.cap
  BY DEF BitrateInv, Sound, Controllers
<1>2. t <= Max({t, v}) /\ v <= Max({t, v}) /\ Max({t, v}) \in Nat
  BY MaxOfTwo
<1>3. CASE UNCHANGED control
  BY <1>1, <1>2, <1>3
<1>4. ASSUME NEW hard \in BOOLEAN, NEW oversized \in BOOLEAN, Feedback(hard, oversized)
      PROVE  /\ control'.target <= Max({control.target, control.cap})
             /\ control'.cap = control.cap
  <2>1. control' = Observe(mode, control, window, hard, oversized)
    BY <1>4 DEF Feedback
  <2>4. mode \in Modes /\ Sound(mode, control) /\ window.inflation \in Nat
    BY DEF BitrateInv, PathInv, WindowInv
  <2>2. /\ Sound(mode, control') /\ control'.cap = control.cap
        /\ control'.target <= control.target \/ control'.target <= control.cap
    BY <2>1, <2>4, FeedbackIsSound
  <2>3. PICK u \in Nat : u = control'.target
    BY <2>2 DEF Sound, Controllers
  <2> QED BY <1>1, <1>2, <2>2, <2>3
<1>5. UNCHANGED control \/ NextFeedback
  BY DEF Next, NextSample, Sample, Reconnect, vars
<1> QED BY <1>3, <1>4, <1>5 DEF NextFeedback

(* Each reduction is answered for once, and a guard once put up stays.      *)
THEOREM ReductionsAreSafe == Spec => ReductionSafety
<1>1. BitrateInv /\ [Next]_vars =>
        [ control'.target < Min({control.target, control'.cap}) - Step
          => \A oversized \in BOOLEAN : ~Feedback(TRUE, oversized) ]_vars
  BY RecoveryCostsOneStep
<1>2. BitrateInv /\ [Next]_vars =>
        [ control.cap < Configured
          => control'.target <= Max({control.target, control.cap})
             /\ control'.cap = control.cap ]_vars
  BY CapHolds
<1> QED BY <1>1, <1>2, Invariance, PTL
        DEF Spec, ReductionSafety, OneStepPerRecovery, GuardHolds

(* A raise follows as many different clean windows as the state asks for,   *)
(* or as many inflated ones as a trial lasts: a window that the loop looks  *)
(* at again counts for nothing.                                             *)
THEOREM RaisesHaveEvidence == Spec => RaisesAreEarned
<1>1. BitrateInv /\ [Next]_vars =>
        [ control'.target > control.target =>
          /\ evidence.unread
          /\ \/ evidence.clean + 1 >= StableNeeded(mode, control)
             \/ control.latched /\ evidence.inflated + 1 >= ProbeWindows ]_vars
  <2> SUFFICES ASSUME BitrateInv, [Next]_vars, control'.target > control.target
               PROVE  /\ evidence.unread
                      /\ \/ evidence.clean + 1 >= StableNeeded(mode, control)
                         \/ control.latched /\ evidence.inflated + 1 >= ProbeWindows
    OBVIOUS
  <2>1. control.target \in Nat
    BY DEF BitrateInv, Sound, Controllers
  <2>2. control' # control
    BY <2>1
  <2>3. PICK hard \in BOOLEAN, oversized \in BOOLEAN : Feedback(hard, oversized)
    BY <2>2 DEF Next, NextSample, NextFeedback, Sample, Reconnect, vars
  <2>4. Earned(mode, control, window, hard, control', evidence.clean, evidence.inflated)
    BY <2>3, FeedbackEarns
  <2> QED BY <2>4 DEF Earned, BitrateInv, EvidenceInv
<1> QED BY <1>1, Invariance, PTL DEF Spec, RaisesAreEarned
=============================================================================
