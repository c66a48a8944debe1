----------------------------- MODULE XboxPolicyProofs -----------------------------
(****************************************************************************)
(* Proofs about the policies of the owner loop of an Xbox stream: the       *)
(* watchdog of the video (VideoHealth) and the latency mode (XboxLatency).  *)
(* The two share no state.                                                  *)
(****************************************************************************)
EXTENDS VideoHealth, XboxLatency, TLAPS
-----------------------------------------------------------------------------
(* The buffer: what the controller has counted, and a clean window it is    *)
(* still to count, are clean windows of one row; a recovery may have ended  *)
(* in one that was open.                                                    *)
Unseen == fresh /\ Good
Pending(f) == IF f THEN 1 ELSE 0
CountInv ==
  /\ mode = "home" => latency.clean = 0 /\ latency.fair = 0
  /\ (mode = "cloud" /\ latency.mode = "recovery") =>
       latency.clean + Pending(Unseen) <= streak + 1
  /\ (mode = "cloud" /\ latency.mode = "balanced") => latency.clean + Pending(Unseen) <= streak
LatencyInv == BufferTypeOK /\ CountInv

USE DEF LatencyModes, RecoveryCleanWindows, RealtimeCleanWindows,
        FairWindowsToBalance, Modes, Qualities

(* A fresh controller is at the latency of its stream.                     *)
LEMMA LatencyInit == BufferInit => LatencyInv
<1> SUFFICES ASSUME BufferInit PROVE LatencyInv
  OBVIOUS
<1>0. /\ mode \in Modes /\ recovering = FALSE /\ streak = 0
      /\ fresh = FALSE /\ renumbered = FALSE
  BY DEF BufferInit
<1>1. BufferTypeOK
  <2>1. path \in [valid : BOOLEAN, observed : Qualities]
    BY DEF BufferInit, NoPath
  <2>2. /\ verdict \in [quality : Qualities,
                       bad : 0..BadWindows - 1, good : 0..GoodWindows - 1]
        /\ verdict.bad = 0
    BY WindowAssumption DEF BufferInit, NoVerdict
  <2>3. PICK m \in {"balanced", "realtime"} : latency = [mode |-> m, clean |-> 0, fair |-> 0]
    BY DEF BufferInit
  <2>4. /\ latency \in [mode : LatencyModes, clean : 0..7, fair : 0..1]
        /\ latency.clean = 0 /\ latency.fair = 0
    BY <2>3
  <2>5. 0..8 - 1 = 0..7 /\ 0..2 - 1 = 0..1 /\ 0 \in 0..8
    OBVIOUS
  <2> QED
    <3>1. latency.clean > 0 => latency.mode # "realtime"
      BY <2>4
    <3>2. latency.mode = "recovery" => latency.clean < 5
      BY <2>4
    <3>3. latency.fair > 0 => latency.mode = "realtime"
      BY <2>4
    <3>4. fresh \in BOOLEAN /\ renumbered \in BOOLEAN /\ recovering \in BOOLEAN
      BY <1>0
    <3> QED
      BY <1>0, <2>1, <2>2, <2>4, <2>5, <3>1, <3>2, <3>3, <3>4 DEF BufferTypeOK
<1>2. CountInv
  BY DEF BufferInit, CountInv, Pending, Unseen
<1> QED
  BY <1>1, <1>2 DEF LatencyInv

(* The verdicts of the estimator.                                          *)
Verdicts == [quality : Qualities, bad : 0..BadWindows - 1, good : 0..GoodWindows - 1]
(* A window is of some quality.                                            *)
LEMMA ClassIsQuality ==
  ASSUME NEW m, NEW w PROVE Classify(m, w) \in Qualities
  BY DEF Classify

(* The verdict of the estimator stays one, whatever is observed.           *)
LEMMA VerdictIsKept ==
  ASSUME NEW q \in Verdicts, q.bad = 0 \/ q.good = 0, NEW observed \in Qualities
  PROVE  LET next == UpdateQuality(q, observed)
         IN next \in Verdicts /\ (next.bad = 0 \/ next.good = 0)
<1> DEFINE next == UpdateQuality(q, observed)
           worse == Rank(observed) > Rank(q.quality)
           better == Rank(observed) < Rank(q.quality)
<1>1. /\ Rank(observed) \in Nat /\ Rank(q.quality) \in Nat
  BY DEF Rank, Verdicts
<1>2. /\ q.quality \in Qualities
      /\ q.bad \in 0..BadWindows - 1 /\ q.good \in 0..GoodWindows - 1
  BY DEF Verdicts
<1>3. 0 \in 0..BadWindows - 1 /\ 0 \in 0..GoodWindows - 1
  BY WindowAssumption
<1>4. ~(worse /\ better)
  BY <1>1
<1>5. PICK a \in Int : a = q.bad + 1
  BY <1>2
<1>6. PICK b \in Int : b = q.good + 1
  BY <1>2
<1>7. CASE \/ worse /\ a >= BadWindows
           \/ better /\ b >= GoodWindows
  <2>1. next = [NoVerdict EXCEPT !.quality = observed]
    <3>1. CASE worse /\ a >= BadWindows
      <4>1. q.bad + 1 >= BadWindows
        BY <1>5, <3>1
      <4> QED BY <1>1, <1>2, <3>1, <4>1, WindowAssumption DEF UpdateQuality
    <3>2. CASE better /\ b >= GoodWindows
      <4>1. ~worse
        BY <1>4, <3>2
      <4>2. q.good + 1 >= GoodWindows
        BY <1>6, <3>2
      <4> QED BY <1>1, <1>2, <3>2, <4>1, <4>2, WindowAssumption DEF UpdateQuality
    <3> QED BY <1>7, <3>1, <3>2
  <2>2. next = [quality |-> observed, bad |-> 0, good |-> 0]
    BY <2>1 DEF NoVerdict
  <2> QED BY <1>3, <2>2 DEF Verdicts
<1>8. CASE worse /\ a < BadWindows
  <2>1. next = [q EXCEPT !.bad = a, !.good = 0]
    BY <1>4, <1>5, <1>8 DEF UpdateQuality
  <2>2. a \in 0..BadWindows - 1
    BY <1>2, <1>5, <1>8, WindowAssumption
  <2>3. [q EXCEPT !.bad = a, !.good = 0] \in Verdicts
    BY <1>3, <2>2 DEF Verdicts
  <2>4. [q EXCEPT !.bad = a, !.good = 0].good = 0
    BY DEF Verdicts
  <2> QED BY <2>1, <2>3, <2>4
<1>9. CASE better /\ b < GoodWindows
  <2>1. next = [q EXCEPT !.good = b, !.bad = 0]
    BY <1>4, <1>6, <1>9 DEF UpdateQuality
  <2>2. b \in 0..GoodWindows - 1
    BY <1>2, <1>6, <1>9, WindowAssumption
  <2>3. [q EXCEPT !.good = b, !.bad = 0] \in Verdicts
    BY <1>3, <2>2 DEF Verdicts
  <2>4. [q EXCEPT !.good = b, !.bad = 0].bad = 0
    BY DEF Verdicts
  <2> QED BY <2>1, <2>3, <2>4
<1>10. CASE ~worse /\ ~better
  <2>1. next = [q EXCEPT !.bad = 0, !.good = 0]
    BY <1>10 DEF UpdateQuality
  <2>2. [q EXCEPT !.bad = 0, !.good = 0] \in Verdicts
    BY <1>3 DEF Verdicts
  <2>3. [q EXCEPT !.bad = 0, !.good = 0].good = 0
    BY DEF Verdicts
  <2> QED BY <2>1, <2>2, <2>3
<1> HIDE DEF worse, better, next
<1>11. (a >= BadWindows \/ a < BadWindows) /\ (b >= GoodWindows \/ b < GoodWindows)
  BY WindowAssumption
<1> QED
  BY <1>7, <1>8, <1>9, <1>10, <1>11 DEF next

(* What one observation makes of the controller.                           *)
Controllers == [mode : LatencyModes, clean : 0..7, fair : 0..1]
Consistent(l) ==
  /\ l \in Controllers
  /\ l.clean > 0 => l.mode # "realtime"
  /\ l.mode = "recovery" => l.clean < 5
  /\ l.fair > 0 => l.mode = "realtime"

(* A controller of the type is consistent.                                 *)
LEMMA LatencyOfType == BufferTypeOK => Consistent(latency) /\ streak \in 0..8
  BY DEF BufferTypeOK, Consistent, Controllers

(* Two fields of a controller that are set at once.                        *)
LEMMA ControllerSet ==
  ASSUME NEW l \in Controllers, NEW m \in LatencyModes, NEW n \in Nat
  PROVE  /\ [l EXCEPT !.mode = m, !.clean = n] = [mode |-> m, clean |-> n, fair |-> l.fair]
         /\ [l EXCEPT !.mode = m, !.fair = n] = [mode |-> m, clean |-> l.clean, fair |-> n]
<1>1. PICK d : d = [l EXCEPT !.mode = m]
  OBVIOUS
<1>2. d = [mode |-> m, clean |-> l.clean, fair |-> l.fair]
  BY <1>1 DEF Controllers
<1>3. /\ [l EXCEPT !.mode = m, !.clean = n] = [d EXCEPT !.clean = n]
      /\ [l EXCEPT !.mode = m, !.fair = n] = [d EXCEPT !.fair = n]
  BY <1>1
<1>4. [d EXCEPT !.clean = n] = [mode |-> m, clean |-> n, fair |-> l.fair]
  BY <1>2
<1>5. [d EXCEPT !.fair = n] = [mode |-> m, clean |-> l.clean, fair |-> n]
  BY <1>2
<1> QED BY <1>3, <1>4, <1>5

(* A rise starts its row over; before it a row grows by one or is broken.  *)
LEMMA RiseIsCounted ==
  ASSUME Consistent(latency), latency.mode # "realtime", NEW needed \in {5, 8},
         latency.mode = "recovery" => needed = 5, NEW better \in {"balanced", "realtime"}
  PROVE  /\ Consistent(Rise(needed, better))
         /\ \/ /\ Rise(needed, better).mode = better
               /\ Rise(needed, better).clean = 0
               /\ latency.clean + 1 >= needed /\ Good
            \/ /\ Rise(needed, better).mode = latency.mode
               /\ Rise(needed, better).clean \in {0, latency.clean + 1}
               /\ Rise(needed, better).clean # 0 => Good
<1> USE DEF Consistent
<1>0. latency.clean \in 0..7 /\ latency.fair = 0
  BY DEF Controllers
<1>1. CASE Good /\ latency.clean + 1 >= needed
  <2> DEFINE l == [latency EXCEPT !.mode = better, !.clean = 0]
  <2>1. Rise(needed, better) = l
    BY <1>0, <1>1 DEF Rise
  <2>2. l = [mode |-> better, clean |-> 0, fair |-> latency.fair]
    BY ControllerSet
  <2> QED BY <1>0, <1>1, <2>1, <2>2 DEF Controllers
<1>2. CASE Good /\ latency.clean + 1 < needed
  <2>1. Rise(needed, better)
          = [mode |-> latency.mode, clean |-> latency.clean + 1, fair |-> 0]
    BY <1>0, <1>2 DEF Rise, Controllers
  <2> QED BY <1>0, <1>2, <2>1 DEF Controllers
<1>3. CASE ~Good
  <2>1. Rise(needed, better) = [mode |-> latency.mode, clean |-> 0, fair |-> 0]
    BY <1>0, <1>3 DEF Rise, Controllers
  <2> QED BY <1>0, <1>3, <2>1 DEF Controllers
<1> QED BY <1>0, <1>1, <1>2, <1>3

(* A fall leads to the balanced mode, or is counted.                       *)
LEMMA FallIsConsistent ==
  ASSUME Consistent(latency), latency.mode = "realtime"
  PROVE  /\ Consistent(Fall)
         /\ Fall.mode \in {"realtime", "balanced"}
         /\ Fall.clean = 0
<1> USE DEF Consistent
<1>0. latency.clean = 0 /\ latency.fair \in 0..1
  BY DEF Controllers
<1>1. CASE Fair /\ latency.fair + 1 >= 2
  <2> DEFINE l == [latency EXCEPT !.mode = "balanced", !.fair = 0]
  <2>1. Fall = l
    BY <1>0, <1>1 DEF Fall
  <2>2. l = [mode |-> "balanced", clean |-> latency.clean, fair |-> 0]
    BY ControllerSet
  <2> QED BY <1>0, <2>1, <2>2 DEF Controllers
<1>2. CASE Fair /\ latency.fair + 1 < 2
  <2>1. Fall = [mode |-> "realtime", clean |-> 0, fair |-> latency.fair + 1]
    BY <1>0, <1>2 DEF Fall, Controllers
  <2> QED BY <1>0, <1>2, <2>1 DEF Controllers
<1>3. CASE ~Fair
  <2>1. Fall = [mode |-> "realtime", clean |-> 0, fair |-> 0]
    BY <1>0, <1>3 DEF Fall, Controllers
  <2> QED BY <1>0, <1>3, <2>1 DEF Controllers
<1> QED BY <1>0, <1>1, <1>2, <1>3

(* An observation of a home stream moves the mode alone.                   *)
LEMMA HomeIsConsistent ==
  ASSUME Consistent(latency), latency.clean = 0, latency.fair = 0
  PROVE  /\ Consistent(ObserveHome)
         /\ ObserveHome.clean = 0 /\ ObserveHome.fair = 0
<1> DEFINE up == [latency EXCEPT !.mode = "balanced"]
           down == [latency EXCEPT !.mode = "realtime"]
<1>1. up = [mode |-> "balanced", clean |-> 0, fair |-> 0]
  BY DEF Consistent, Controllers
<1>2. down = [mode |-> "realtime", clean |-> 0, fair |-> 0]
  BY DEF Consistent, Controllers
<1>3. ObserveHome \in {up, down, latency}
  BY DEF ObserveHome
<1> HIDE DEF up, down
<1>4. Consistent(up) /\ up.clean = 0 /\ up.fair = 0
  BY <1>1 DEF Consistent, Controllers
<1>5. Consistent(down) /\ down.clean = 0 /\ down.fair = 0
  BY <1>2 DEF Consistent, Controllers
<1> QED BY <1>3, <1>4, <1>5

(* An observation of a cloud stream: a reason to recover starts over, and  *)
(* else what counts is a new window.                                       *)
LEMMA CloudIsConsistent ==
  ASSUME Consistent(latency), mode = "cloud", fresh \in BOOLEAN, path.valid \in BOOLEAN,
         NEW l, l = ObserveCloud
  PROVE  /\ Consistent(l)
         /\ ReasonToRecover => l.mode = "recovery" /\ l.clean = 0
         /\ ~ReasonToRecover =>
              /\ l.mode # "recovery" \/ latency.mode = "recovery"
              /\ l.mode = latency.mode => l.clean <= latency.clean + Pending(Unseen)
              /\ NewWindow /\ ~Good => l.clean = 0
              /\ l.mode # latency.mode => l.clean = 0
              /\ latency.mode = "recovery" /\ l.mode # "recovery" =>
                   l.mode = "balanced" /\ Unseen /\ latency.clean >= 4
              /\ latency.mode = "balanced" /\ l.mode # "balanced" =>
                   l.mode = "realtime" /\ Unseen /\ latency.clean >= 7
<1>1. CASE ReasonToRecover
  <2>1. l = [mode |-> "recovery", clean |-> 0, fair |-> 0]
    BY <1>1 DEF ObserveCloud, NewWindow
  <2> QED BY <1>1, <2>1 DEF Consistent, Controllers
<1>2. Good => path.valid
  BY DEF Good
<1>3. latency.clean \in 0..7
  BY DEF Consistent, Controllers
<1>4. CASE NewWindow /\ latency.mode = "recovery"
  <2>1. ~ReasonToRecover /\ (Good => fresh)
    BY <1>2, <1>4 DEF NewWindow
  <2>2. l = Rise(5, "balanced")
    BY <1>4, <2>1 DEF ObserveCloud
  <2>3. /\ Consistent(l)
        /\ \/ l.mode = "balanced" /\ l.clean = 0 /\ latency.clean + 1 >= 5 /\ Good
           \/ /\ l.mode = latency.mode /\ l.clean \in {0, latency.clean + 1}
              /\ l.clean # 0 => Good
    BY <1>4, <2>2, RiseIsCounted
  <2> QED BY <1>3, <1>4, <2>1, <2>3 DEF Pending, Unseen
<1>5. CASE NewWindow /\ latency.mode = "balanced"
  <2>1. ~ReasonToRecover /\ (Good => fresh)
    BY <1>2, <1>5 DEF NewWindow
  <2>2. l = Rise(8, "realtime")
    BY <1>5, <2>1 DEF ObserveCloud
  <2>3. /\ Consistent(l)
        /\ \/ l.mode = "realtime" /\ l.clean = 0 /\ latency.clean + 1 >= 8 /\ Good
           \/ /\ l.mode = latency.mode /\ l.clean \in {0, latency.clean + 1}
              /\ l.clean # 0 => Good
    BY <1>5, <2>2, RiseIsCounted
  <2> QED BY <1>3, <1>5, <2>1, <2>3 DEF Pending, Unseen
<1>6. CASE NewWindow /\ latency.mode = "realtime"
  <2>1. ~ReasonToRecover
    BY <1>6 DEF NewWindow
  <2>2. l = Fall
    BY <1>6, <2>1 DEF ObserveCloud
  <2>3. Consistent(l) /\ l.mode \in {"realtime", "balanced"} /\ l.clean = 0
    BY <1>6, <2>2, FallIsConsistent
  <2> QED BY <1>3, <1>6, <2>1, <2>3 DEF Pending, Unseen
<1>7. CASE ~ReasonToRecover /\ ~NewWindow
  <2>1. l = latency
    BY <1>7 DEF ObserveCloud
  <2> QED BY <1>3, <1>7, <2>1 DEF Pending, Unseen
<1>8. latency.mode \in {"recovery", "balanced", "realtime"}
  BY DEF Consistent, Controllers
<1> QED BY <1>1, <1>4, <1>5, <1>6, <1>7, <1>8

(* An observation: the counters stay what they are said to be, and a mode  *)
(* that rises has been earned.                                             *)
Earned ==
  mode = "cloud" =>
    /\ (latency.mode = "recovery" /\ latency'.mode # "recovery") => streak >= 4
    /\ (latency.mode = "balanced" /\ latency'.mode = "realtime") => streak >= 8

(* What an observation makes of the row and of the mode.                   *)
LEMMA ObserveIsCounted ==
  LatencyInv /\ Observe =>
    Consistent(latency)' /\ streak' \in 0..8 /\ CountInv' /\ Earned
<1> SUFFICES ASSUME LatencyInv, Observe
             PROVE  Consistent(latency)' /\ streak' \in 0..8 /\ CountInv' /\ Earned
  OBVIOUS
<1>1. Consistent(latency) /\ streak \in 0..8 /\ CountInv
  BY LatencyOfType DEF LatencyInv
<1>2. mode \in {"home", "cloud"} /\ fresh \in BOOLEAN /\ path.valid \in BOOLEAN
  BY DEF LatencyInv, BufferTypeOK
<1>3. mode' = mode
  BY DEF Observe
<1>4. streak' \in {0, streak}
  BY DEF Observe
<1>5. CASE mode = "home"
  <2>1. latency' = ObserveHome
    BY <1>5 DEF Observe
  <2>2. Consistent(latency') /\ latency'.clean = 0 /\ latency'.fair = 0
    BY <1>1, <1>5, <2>1, HomeIsConsistent DEF CountInv
  <2> QED BY <1>1, <1>3, <1>4, <1>5, <2>2 DEF CountInv, Earned
<1>6. CASE mode = "cloud"
  <2>1. latency' = ObserveCloud
    BY <1>6 DEF Observe
  <2> DEFINE rec == ReasonToRecover
             broken == NewWindow /\ ~Good
  <2>2. /\ Consistent(latency')
        /\ rec => latency'.mode = "recovery" /\ latency'.clean = 0
        /\ ~rec =>
              /\ latency'.mode # "recovery" \/ latency.mode = "recovery"
              /\ latency'.mode = latency.mode => latency'.clean <= latency.clean + Pending(Unseen)
              /\ broken => latency'.clean = 0
              /\ latency'.mode # latency.mode => latency'.clean = 0
              /\ latency.mode = "recovery" /\ latency'.mode # "recovery" =>
                   latency'.mode = "balanced" /\ Unseen /\ latency.clean >= 4
              /\ latency.mode = "balanced" /\ latency'.mode # "balanced" =>
                   latency'.mode = "realtime" /\ Unseen /\ latency.clean >= 7
    BY <1>1, <1>2, <1>6, <2>1, CloudIsConsistent
  <2>3. fresh' = (fresh /\ rec)
    BY <1>6 DEF Observe
  <2>4. streak' = IF latency'.mode # latency.mode \/ rec \/ broken THEN 0 ELSE streak
    BY DEF Observe
  <2> HIDE DEF rec, broken
  <2>5. latency.clean \in 0..7 /\ latency'.clean \in 0..7
    BY <1>1, <2>2 DEF Consistent, Controllers
  <2>6. CASE rec
    <3>1. latency'.clean + Pending(Unseen') <= streak' + 1
      BY <2>2, <2>4, <2>6 DEF Pending
    <3> QED BY <1>1, <1>3, <1>4, <1>6, <2>2, <2>6, <3>1 DEF CountInv, Earned
  <2>7. CASE ~rec
    <3>1. Pending(Unseen') = 0
      BY <2>3, <2>7 DEF Pending, Unseen
    <3>2. Earned
      BY <1>1, <1>6, <2>2, <2>5, <2>7 DEF CountInv, Earned, Pending
    <3>3. CountInv'
      BY <1>1, <1>2, <1>3, <1>6, <2>2, <2>4, <2>5, <2>7, <3>1 DEF CountInv, Pending
    <3> QED BY <1>1, <1>4, <2>2, <3>2, <3>3
  <2> QED BY <2>6, <2>7
<1> QED BY <1>2, <1>5, <1>6

(* The types, put together from the controller's and the rest.             *)
RestOfType ==
  /\ mode \in Modes /\ path \in [valid : BOOLEAN, observed : Qualities]
  /\ verdict \in Verdicts /\ (verdict.bad = 0 \/ verdict.good = 0)
  /\ fresh \in BOOLEAN /\ renumbered \in BOOLEAN /\ recovering \in BOOLEAN

ControlType == Consistent(latency) /\ streak \in 0..8

(* The type is that of the controller and that of the rest.                *)
LEMMA TypeIsParts == BufferTypeOK <=> RestOfType /\ ControlType
<1>1. 0..8 - 1 = 0..7 /\ 0..2 - 1 = 0..1
  OBVIOUS
<1> QED
  BY <1>1 DEF BufferTypeOK, RestOfType, ControlType, Consistent, Controllers, Verdicts

(* An observation keeps the invariant and earns what it gives.             *)
LEMMA ObserveStep == LatencyInv /\ Observe => LatencyInv' /\ Earned
<1> SUFFICES ASSUME LatencyInv, Observe PROVE LatencyInv' /\ Earned
  OBVIOUS
<1>1. RestOfType
  BY TypeIsParts DEF LatencyInv, ControlType
<1>2. fresh' \in BOOLEAN /\ renumbered' \in BOOLEAN
  BY DEF Observe
<1>3. RestOfType'
  BY <1>1, <1>2 DEF RestOfType, Observe
<1>4. Consistent(latency)' /\ streak' \in 0..8 /\ CountInv' /\ Earned
  BY ObserveIsCounted
<1>5. ControlType'
  BY <1>4 DEF ControlType
<1>6. BufferTypeOK'
  BY <1>3, <1>5, TypeIsParts, PTL
<1> QED BY <1>4, <1>6 DEF LatencyInv

(* A window is closed: one more, and one that was not observed yet.        *)
LEMMA WindowStep ==
  ASSUME LatencyInv, NEW load, NEW inflation, CloseWindow(load, inflation)
  PROVE  LatencyInv' /\ latency' = latency
<1>1. RestOfType /\ Consistent(latency) /\ streak \in 0..8 /\ CountInv
  BY TypeIsParts DEF LatencyInv, ControlType
<1> DEFINE observed == Classify(mode, [load |-> load, inflation |-> inflation])
<1>2. observed \in Qualities
  BY ClassIsQuality
<1>3. /\ path' = [valid |-> TRUE, observed |-> observed]
      /\ verdict' = UpdateQuality(verdict, observed)
      /\ (fresh' = TRUE /\ renumbered' = renumbered) \/ (fresh' = FALSE /\ renumbered' = FALSE)
      /\ streak' = IF {observed, verdict'.quality} = {"good"} /\ streak < 8
                   THEN streak + 1 ELSE streak
      /\ mode' = mode /\ latency' = latency /\ recovering' = recovering
  BY DEF CloseWindow
<1> HIDE DEF observed
<1>4. verdict' \in Verdicts /\ (verdict'.bad = 0 \/ verdict'.good = 0)
  BY <1>1, <1>2, <1>3, VerdictIsKept DEF RestOfType
<1>5. path' \in [valid : BOOLEAN, observed : Qualities]
  BY <1>2, <1>3
<1>6. fresh' \in BOOLEAN /\ renumbered' \in BOOLEAN
  BY <1>1, <1>3 DEF RestOfType
<1>7. RestOfType'
  BY <1>1, <1>3, <1>4, <1>5, <1>6 DEF RestOfType
<1>8. /\ streak' \in 0..8 /\ streak' >= streak
      /\ Good' => streak' = streak + 1 \/ (streak = 8 /\ streak' = 8)
  <2>1. Good' <=> {observed, verdict'.quality} = {"good"}
    BY <1>3 DEF Good
  <2> QED BY <1>1, <1>3, <2>1
<1>9. Consistent(latency)'
  BY <1>1, <1>3 DEF Consistent
<1>10. latency.clean \in 0..7
  BY <1>1 DEF Consistent, Controllers
<1>11. CountInv'
  <2>1. Pending(Unseen) \in Nat
    BY DEF Pending
  <2>2. CASE Good'
    <3>1. Pending(Unseen') \in 0..1
      BY DEF Pending
    <3> QED BY <1>1, <1>3, <1>8, <1>10, <2>1, <2>2, <3>1 DEF CountInv
  <2>3. CASE ~Good'
    <3>1. Pending(Unseen') = 0
      BY <2>3 DEF Pending, Unseen
    <3> QED BY <1>1, <1>3, <1>8, <1>10, <2>1, <3>1 DEF CountInv
  <2> QED BY <2>2, <2>3
<1>12. ControlType'
  BY <1>8, <1>9 DEF ControlType
<1>13. BufferTypeOK'
  BY <1>7, <1>12, TypeIsParts, PTL
<1> QED BY <1>3, <1>11, <1>13 DEF LatencyInv

(* A recovery begins or ends, and a fresh session.                         *)
LEMMA OutsideStep ==
  LatencyInv /\ (Recovery \/ Reconnect) => LatencyInv' /\ latency' = latency
<1> SUFFICES ASSUME LatencyInv, Recovery \/ Reconnect
             PROVE  LatencyInv' /\ latency' = latency
  OBVIOUS
<1>1. RestOfType /\ Consistent(latency) /\ streak \in 0..8 /\ CountInv
  BY TypeIsParts DEF LatencyInv, ControlType
<1>2. /\ mode' = mode /\ latency' = latency /\ streak' = streak
      /\ fresh' \in {FALSE, fresh}
  BY DEF Recovery, Reconnect
<1>3. RestOfType'
  <2>1. CASE Recovery
    <3>1. recovering' \in BOOLEAN
      BY <2>1 DEF Recovery
    <3> QED BY <1>1, <2>1, <3>1 DEF Recovery, RestOfType
  <2>2. CASE Reconnect
    <3>1. path' \in [valid : BOOLEAN, observed : Qualities]
      BY <2>2 DEF Reconnect, NoPath
    <3>2. verdict' \in Verdicts /\ verdict'.bad = 0
      BY <2>2, WindowAssumption DEF Reconnect, NoVerdict, Verdicts
    <3>3. fresh' = FALSE /\ renumbered' = TRUE /\ recovering' = recovering /\ mode' = mode
      BY <2>2 DEF Reconnect
    <3> QED BY <1>1, <3>1, <3>2, <3>3 DEF RestOfType
  <2> QED BY <2>1, <2>2
<1>4. Consistent(latency)' /\ streak' \in 0..8
  BY <1>1, <1>2 DEF Consistent
<1>5. CountInv'
  <2>1. latency.clean \in 0..7
    BY <1>1 DEF Consistent, Controllers
  <2>2. /\ Pending(Unseen') \in Nat /\ Pending(Unseen) \in Nat
        /\ Pending(Unseen') <= Pending(Unseen)
    <3>1. CASE Recovery
      <4>1. Unseen' = Unseen
        BY <3>1 DEF Recovery, Unseen, Good
      <4> QED BY <4>1 DEF Pending
    <3>2. CASE Reconnect
      <4>1. ~Unseen'
        BY <3>2 DEF Reconnect, Unseen
      <4> QED BY <4>1 DEF Pending
    <3> QED BY <3>1, <3>2
  <2> QED BY <1>1, <1>2, <2>1, <2>2 DEF CountInv
<1>6. ControlType'
  BY <1>4 DEF ControlType
<1>7. BufferTypeOK'
  BY <1>3, <1>6, TypeIsParts, PTL
<1> QED BY <1>2, <1>5, <1>7 DEF LatencyInv

(* Every step does.                                                        *)
LEMMA LatencyStep == LatencyInv /\ [BufferNext]_bufferVars => LatencyInv' /\ Earned
<1> SUFFICES ASSUME LatencyInv, [BufferNext]_bufferVars PROVE LatencyInv' /\ Earned
  OBVIOUS
<1>1. CASE NextWindow
  <2>1. PICK load \in Loads, inflation \in Inflations : CloseWindow(load, inflation)
    BY <1>1 DEF NextWindow
  <2>2. LatencyInv' /\ latency' = latency
    BY <2>1, WindowStep
  <2> QED BY <2>2 DEF Earned
<1>2. CASE Observe
  BY <1>2, ObserveStep
<1>3. CASE Recovery \/ Reconnect
  BY <1>3, OutsideStep DEF Earned
<1>4. CASE UNCHANGED bufferVars
  BY <1>4 DEF bufferVars, LatencyInv, BufferTypeOK, CountInv, Unseen, Good, Earned
<1> QED BY <1>1, <1>2, <1>3, <1>4 DEF BufferNext

(* The buffer of a cloud stream shrinks only after a row of as many        *)
(* different clean windows as it takes, for every load and every length of *)
(* the rows of the estimator (XboxLatencyController::observe).             *)
THEOREM RisesAreSafe == BufferSpec => BufferSafety
<1>1. BufferInit /\ [][BufferNext]_bufferVars => []LatencyInv
  BY LatencyInit, LatencyStep, PTL
<1>2. LatencyInv => BufferTypeOK
  BY DEF LatencyInv
<1>3. LatencyInv /\ [BufferNext]_bufferVars =>
        [mode = "cloud" =>
           /\ (latency.mode = "recovery" /\ latency'.mode # "recovery")
                => streak >= RecoveryCleanWindows - 1
           /\ (latency.mode = "balanced" /\ latency'.mode = "realtime")
                => streak >= RealtimeCleanWindows]_bufferVars
  <2>1. 5 - 1 = 4
    OBVIOUS
  <2> QED BY LatencyStep, <2>1 DEF Earned
<1> QED
  BY <1>1, <1>2, <1>3, PTL DEF BufferSpec, BufferSafety, RisesAreEarned
-----------------------------------------------------------------------------
(* The watchdog: an attempt that is counted is on trial, and once its      *)
(* cool-down is over its time is over; right after a poll nothing is       *)
(* counted against a video that is well; what was prepared for a fresh     *)
(* session is used by that session.                                        *)
Attempts == [renderer : 0..1, decoder : 0..1, cooled : BOOLEAN]
DecoderTrials == {"none", "given", "ripe", "waived"}
RendererTrials == {"none", "given", "ripe"}
Trials == [decoder : DecoderTrials, renderer : RendererTrials]
OnTrial(t, h) ==
  /\ t \in Attempts /\ h \in Trials
  /\ t.renderer > 0 => h.renderer # "none"
  /\ t.decoder > 0 => h.decoder # "none"
  /\ (t.renderer > 0 /\ t.cooled) => h.renderer = "ripe"
  /\ (t.decoder > 0 /\ t.cooled) => h.decoder \in {"ripe", "waived"}
TrialInv == OnTrial(tries, trial)
PolledInv == (polled /\ phase = "running" /\ Well) => tries.renderer = 0
PreparedInv == prepared => phase \in {"down", "stopped"}

(* The rest of the types.                                                  *)
LinkType ==
  /\ phase \in {"starting", "running", "down", "stopped"} /\ prepared \in BOOLEAN
  /\ age \in {"new", "decode", "rtp"} /\ rtp \in {"none", "flowing", "stalled"}
PictureType ==
  /\ decoding \in {"none", "current", "aging", "late"}
  /\ picture \in {"none", "shown", "faulty", "late"}
  /\ suspended \in BOOLEAN /\ rendered \in BOOLEAN
KeyType == pending \in BOOLEAN /\ waiting \in BOOLEAN /\ asked \in BOOLEAN
LoopType ==
  /\ pace \in {"free", "waits"} /\ resuming \in [was : BOOLEAN, grace : BOOLEAN]
  /\ changed \in BOOLEAN /\ polled \in BOOLEAN

HealthInv ==
  /\ LinkType /\ PictureType /\ KeyType /\ LoopType
  /\ TrialInv /\ PolledInv /\ PreparedInv

(* The parts make up the type.                                             *)
LEMMA HealthTypes == HealthInv => TypeOK
  BY DEF HealthInv, LinkType, PictureType, KeyType, LoopType, TrialInv, OnTrial, Attempts,
         Trials, DecoderTrials, RendererTrials, TypeOK

(* Without attempts anything may be on trial.                              *)
LEMMA FreshIsNoTrial == ASSUME NEW h \in Trials PROVE OnTrial(Fresh, h)
  BY DEF OnTrial, Fresh, Attempts

(* A stream starts with nothing tried.                                     *)
LEMMA HealthInit == Init => HealthInv
<1> SUFFICES ASSUME Init PROVE HealthInv
  OBVIOUS
<1>1. LinkType /\ PictureType
  BY DEF Init, LinkType, PictureType
<1>2. KeyType
  BY DEF Init, KeyType
<1>3. LoopType
  BY DEF Init, LoopType
<1>4. TrialInv
  <2>1. trial \in Trials
    BY DEF Init, Trials, DecoderTrials, RendererTrials
  <2>2. tries = Fresh
    BY DEF Init
  <2> QED BY <2>1, <2>2, FreshIsNoTrial DEF TrialInv
<1>5. PolledInv /\ PreparedInv
  BY DEF Init, PolledInv, PreparedInv
<1> QED BY <1>1, <1>2, <1>3, <1>4, <1>5 DEF HealthInv

(* What an iteration counts against the attempts: an attempt begins its    *)
(* trial with a cool-down.                                                 *)
LEMMA DecoderIsTried ==
  ASSUME NEW k \in 0..1, NEW m \in BOOLEAN,
         NEW r, r = [renderer |-> k, decoder |-> 0, cooled |-> m]
  PROVE  Tried(r, "recoverDecoder") = [renderer |-> k, decoder |-> 1, cooled |-> FALSE]
<1>1. r.decoder + 1 = 1
  OBVIOUS
<1>2. Tried(r, "recoverDecoder") = [r EXCEPT !.decoder = r.decoder + 1, !.cooled = FALSE]
  BY DEF Tried
<1>3. PICK d : d = [r EXCEPT !.decoder = 1]
  OBVIOUS
<1>4. d = [renderer |-> k, decoder |-> 1, cooled |-> m]
  BY <1>3
<1>5. PICK no \in BOOLEAN : no = FALSE
  OBVIOUS
<1>6. [d EXCEPT !.cooled = no] = [renderer |-> k, decoder |-> 1, cooled |-> no]
  BY <1>4
<1> QED BY <1>1, <1>2, <1>3, <1>5, <1>6

(* So is one on the renderer.                                              *)
LEMMA RendererIsTried ==
  ASSUME NEW l \in 0..1, NEW m \in BOOLEAN,
         NEW r, r = [renderer |-> 0, decoder |-> l, cooled |-> m],
         NEW action \in {"recoverRenderer", "observeRenderer"}
  PROVE  Tried(r, action) = [renderer |-> 1, decoder |-> l, cooled |-> FALSE]
<1>1. r.renderer + 1 = 1
  OBVIOUS
<1>2. Tried(r, action) = [r EXCEPT !.renderer = r.renderer + 1, !.cooled = FALSE]
  BY DEF Tried
<1>3. PICK d : d = [r EXCEPT !.renderer = 1]
  OBVIOUS
<1>4. d = [renderer |-> 1, decoder |-> l, cooled |-> m]
  BY <1>3
<1>5. PICK no \in BOOLEAN : no = FALSE
  OBVIOUS
<1>6. [d EXCEPT !.cooled = no] = [renderer |-> 1, decoder |-> l, cooled |-> no]
  BY <1>4
<1> QED BY <1>1, <1>2, <1>3, <1>5, <1>6

(* Attempts and trials after an iteration: the new one is on trial.        *)
LEMMA LookIsTried ==
  ASSUME OnTrial(tries, trial), NEW action \in Actions, Look(action),
         Restarted.renderer = 0 \/ action \notin {"recoverRenderer", "observeRenderer"},
         Restarted.decoder = 0 \/ action # "recoverDecoder"
  PROVE  OnTrial(tries', trial')
<1> DEFINE back == changed \/ Uncovered
           well == phase = "running" /\ Well
           r == Restarted
           t == Tried(r, action)
           onRenderer == action \in {"recoverRenderer", "observeRenderer"}
           d == trial'.decoder
           e == trial'.renderer
<1>1. PICK a \in 0..1, b \in 0..1, c \in BOOLEAN :
        /\ tries = [renderer |-> a, decoder |-> b, cooled |-> c]
        /\ tries.renderer = a /\ tries.decoder = b /\ tries.cooled = c
  BY DEF OnTrial, Attempts
<1>2. PICK u \in DecoderTrials, v \in RendererTrials :
        trial.decoder = u /\ trial.renderer = v
  BY DEF OnTrial, Trials
<1>3. /\ a > 0 => v # "none"
      /\ b > 0 => u # "none"
      /\ (a > 0 /\ c) => v = "ripe"
      /\ (b > 0 /\ c) => u \in {"ripe", "waived"}
  BY <1>1, <1>2 DEF OnTrial
<1>4. /\ changed => r = [renderer |-> 0, decoder |-> 0, cooled |-> TRUE]
      /\ ~changed /\ back => r = [renderer |-> 0, decoder |-> b, cooled |-> TRUE]
      /\ ~back => r = [renderer |-> a, decoder |-> b, cooled |-> c]
  <2>1. CASE changed
    BY <2>1 DEF Restarted, Fresh
  <2>2. CASE ~changed /\ back
    BY <1>1, <2>2 DEF Restarted
  <2>3. CASE ~back
    BY <1>1, <2>3 DEF Restarted
  <2> QED BY <2>1, <2>2, <2>3
<1>5. tries' = IF well THEN Fresh ELSE t
  BY DEF Look
<1>6. trial' = [decoder |-> IF action = "recoverDecoder" THEN "given"
                            ELSE IF changed \/ well THEN "none"
                            ELSE IF Uncovered THEN Waived(trial.decoder)
                            ELSE trial.decoder,
                renderer |-> CASE onRenderer -> "given"
                               [] action \in Actions \ {"recoverRenderer", "observeRenderer"}
                                  /\ back -> "none"
                               [] OTHER -> trial.renderer]
  BY DEF Look
<1>7. /\ action = "recoverDecoder" => d = "given"
      /\ action # "recoverDecoder" /\ (changed \/ well) => d = "none"
      /\ action # "recoverDecoder" /\ ~well /\ ~changed /\ back => d = Waived(u)
      /\ action # "recoverDecoder" /\ ~well /\ ~back => d = u
  BY <1>2, <1>6
<1>8. /\ onRenderer => e = "given"
      /\ ~onRenderer /\ back => e = "none"
      /\ ~onRenderer /\ ~back => e = v
  BY <1>2, <1>6
<1>9. trial' \in Trials
  <2>1. d \in DecoderTrials /\ e \in RendererTrials
    BY <1>7, <1>8 DEF Waived, DecoderTrials, RendererTrials
  <2>2. trial' = [decoder |-> d, renderer |-> e]
    BY <1>6
  <2> QED BY <2>1, <2>2 DEF Trials
<1>10. ASSUME ~well PROVE OnTrial(t, trial')
  <2> HIDE DEF back, r, well
  <2>1. PICK k \in 0..1, l \in 0..1, m \in BOOLEAN :
          /\ r = [renderer |-> k, decoder |-> l, cooled |-> m]
          /\ k > 0 => ~back /\ k = a /\ m = c
          /\ l > 0 => l = b /\ ~changed
          /\ ~back => k = a /\ l = b /\ m = c
          /\ back => m
    <3>1. CASE changed
      <4>1. r = [renderer |-> 0, decoder |-> 0, cooled |-> TRUE] /\ back
        BY <1>4, <3>1 DEF back
      <4>2. PICK yes \in BOOLEAN : yes = TRUE
        OBVIOUS
      <4>3. r = [renderer |-> 0, decoder |-> 0, cooled |-> yes]
        BY <4>1, <4>2
      <4> WITNESS 0 \in 0..1, 0 \in 0..1, yes \in BOOLEAN
      <4> QED BY <4>1, <4>2, <4>3
    <3>2. CASE ~changed /\ back
      <4>1. r = [renderer |-> 0, decoder |-> b, cooled |-> TRUE]
        BY <1>4, <3>2
      <4>2. PICK yes \in BOOLEAN : yes = TRUE
        OBVIOUS
      <4>3. r = [renderer |-> 0, decoder |-> b, cooled |-> yes]
        BY <4>1, <4>2
      <4> WITNESS 0 \in 0..1, b \in 0..1, yes \in BOOLEAN
      <4> QED BY <3>2, <4>2, <4>3
    <3>3. CASE ~back
      <4>1. r = [renderer |-> a, decoder |-> b, cooled |-> c]
        BY <1>4, <3>3
      <4>2. ~changed
        BY <3>3 DEF back
      <4> WITNESS a \in 0..1, b \in 0..1, c \in BOOLEAN
      <4> QED BY <3>3, <4>1, <4>2
    <3> QED BY <3>1, <3>2, <3>3
  <2>2. CASE action = "recoverDecoder"
    <3>1. l = 0
      BY <2>1, <2>2 DEF r
    <3>2. t = [renderer |-> k, decoder |-> 1, cooled |-> FALSE]
      BY <2>1, <2>2, <3>1, DecoderIsTried
    <3>3. d = "given" /\ (back => e = "none") /\ (~back => e = v)
      BY <1>7, <1>8, <2>2
    <3> HIDE DEF t, d, e
    <3> QED BY <1>3, <1>9, <2>1, <3>2, <3>3 DEF OnTrial, Attempts, d, e
  <2>3. CASE onRenderer
    <3>1. k = 0 /\ action \in {"recoverRenderer", "observeRenderer"}
      BY <2>1, <2>3 DEF r
    <3>2. t = [renderer |-> 1, decoder |-> l, cooled |-> FALSE]
      BY <2>1, <3>1, RendererIsTried
    <3>3. e = "given" /\ (~changed => d \in {u, Waived(u)})
      BY <1>7, <1>8, <1>10, <2>3
    <3> HIDE DEF t, d, e
    <3> QED BY <1>3, <1>9, <2>1, <3>2, <3>3 DEF OnTrial, Attempts, d, e, Waived
  <2>4. CASE action # "recoverDecoder" /\ ~onRenderer
    <3>1. t = [renderer |-> k, decoder |-> l, cooled |-> m]
      BY <2>1, <2>4 DEF Tried
    <3>2. /\ back => e = "none" /\ (~changed => d = Waived(u))
          /\ ~back => d = u /\ e = v
      BY <1>7, <1>8, <1>10, <2>4
    <3> HIDE DEF t, d, e
    <3>3. u \in DecoderTrials
      BY <1>2
    <3> QED
      BY <1>3, <1>9, <2>1, <3>1, <3>2, <3>3
      DEF OnTrial, Attempts, d, e, Waived, DecoderTrials
  <2> QED BY <2>2, <2>3, <2>4
<1> QED BY <1>5, <1>9, <1>10, FreshIsNoTrial

(* What the watchdog decides, and on what grounds.                         *)
LEMMA DecisionHasGrounds ==
  ASSUME NEW o, NEW t \in Attempts, NEW action, action = Decide(o, t)
  PROVE  /\ action \in Actions
         /\ action = "stop" => t.renderer > 0 /\ t.cooled /\ ~o.rtpStalled
         /\ action \in {"recoverRenderer", "observeRenderer"} => t.renderer = 0
         /\ action = "recoverDecoder" => t.decoder = 0
         /\ action = "reconnect" => o.rtpStalled \/ (t.decoder > 0 /\ t.cooled)
<1>1. t.renderer \in 0..1 /\ t.decoder \in 0..1
  BY DEF Attempts
<1> DEFINE decoder == ~o.rtpStalled /\ t.cooled /\ o.decodeStalled
           renderer == /\ ~o.rtpStalled /\ t.cooled /\ ~o.decodeStalled
                       /\ ~o.suspended /\ o.presentStalled
<1>2. CASE o.rtpStalled
  <2>1. action = "reconnect"
    BY <1>2 DEF Decide
  <2> QED BY <1>2, <2>1 DEF Actions
<1>3. CASE decoder /\ t.decoder = 0
  <2>1. action = "recoverDecoder"
    BY <1>3 DEF Decide
  <2> QED BY <1>3, <2>1 DEF Actions
<1>4. CASE decoder /\ t.decoder > 0
  <2>1. action = "reconnect"
    BY <1>1, <1>4 DEF Decide
  <2> QED BY <1>4, <2>1 DEF Actions
<1>5. CASE renderer /\ t.renderer > 0
  <2>1. action = "stop"
    BY <1>1, <1>5 DEF Decide
  <2> QED BY <1>5, <2>1 DEF Actions
<1>6. CASE renderer /\ t.renderer = 0
  <2>1. action \in {"recoverRenderer", "observeRenderer"}
    BY <1>6 DEF Decide
  <2> QED BY <1>6, <2>1 DEF Actions
<1>7. CASE ~o.rtpStalled /\ ~decoder /\ ~renderer
  <2>1. action = "none"
    BY <1>7 DEF Decide
  <2> QED BY <2>1 DEF Actions
<1> HIDE DEF decoder, renderer
<1>8. (t.decoder = 0 \/ t.decoder > 0) /\ (t.renderer = 0 \/ t.renderer > 0)
  BY <1>1
<1> QED BY <1>2, <1>3, <1>4, <1>5, <1>6, <1>7, <1>8

(* Attempts that are looked at again are attempts, the old ones unless they *)
(* were taken back.                                                        *)
LEMMA RestartedAttempts ==
  ASSUME tries \in Attempts
  PROVE  /\ Restarted \in Attempts
         /\ Restarted.renderer > 0 =>
              Restarted = tries /\ ~changed /\ ~Uncovered
         /\ Restarted.decoder > 0 =>
              /\ ~changed /\ tries.decoder > 0
              /\ Uncovered \/ Restarted = tries
<1>1. CASE changed
  BY <1>1 DEF Restarted, Fresh, Attempts
<1>2. CASE ~changed /\ Uncovered
  <2>1. PICK a \in 0..1, b \in 0..1, c \in BOOLEAN :
          tries = [renderer |-> a, decoder |-> b, cooled |-> c]
    BY DEF Attempts
  <2>2. Restarted = [renderer |-> 0, decoder |-> b, cooled |-> TRUE]
    BY <1>2, <2>1 DEF Restarted
  <2>3. tries.decoder = b
    BY <2>1
  <2> QED BY <1>2, <2>2, <2>3 DEF Attempts
<1>3. CASE ~changed /\ ~Uncovered
  BY <1>3 DEF Restarted
<1> QED BY <1>1, <1>2, <1>3

(* What an action on the media and on the session may do.                  *)
LEMMA ActionIsApplied ==
  ASSUME LinkType, PictureType, KeyType, phase = "running", ~prepared,
         NEW action \in Actions, NEW sent \in BOOLEAN, Apply(action, sent)
  PROVE  /\ phase' \in {"running", "down", "stopped"} /\ prepared' \in BOOLEAN
         /\ rtp' \in {"none", "flowing", "stalled"}
         /\ decoding' \in {"none", decoding} /\ picture' \in {"none", picture}
         /\ KeyType'
         /\ phase' = "stopped" => action = "stop"
         /\ prepared' => action = "reconnect" /\ phase' = "down"
         /\ phase' = "running" =>
              rtp' = rtp /\ decoding' = decoding /\ picture' = picture
<1> USE DEF Actions
<1>1. CASE action = "reconnect"
  <2>1. /\ phase' = "down" /\ prepared' = TRUE /\ rtp' = "none" /\ NewSource
    BY <1>1 DEF Apply
  <2>2. decoding' = "none" /\ picture' = "none" /\ KeyType'
    BY <2>1 DEF NewSource, KeyType
  <2> QED BY <1>1, <2>1, <2>2
<1>2. CASE action = "recoverDecoder"
  <2>1. /\ HardRecovery(FALSE) /\ phase' = phase /\ prepared' = prepared /\ rtp' = rtp
        /\ decoding' = decoding /\ picture' = picture
    BY <1>2 DEF Apply, link
  <2>2. KeyType'
    BY <2>1 DEF HardRecovery, KeyType
  <2> QED BY <1>2, <2>1, <2>2 DEF LinkType, PictureType
<1>3. CASE action = "recoverRenderer"
  <2>1. /\ pending' = TRUE /\ ClearRequest(sent)
        /\ phase' = phase /\ prepared' = prepared /\ rtp' = rtp
        /\ decoding' = decoding /\ picture' = picture /\ waiting' = waiting
    BY <1>3 DEF Apply, link
  <2>2. KeyType'
    BY <2>1 DEF ClearRequest, KeyType
  <2> QED BY <1>3, <2>1, <2>2 DEF LinkType, PictureType
<1>4. CASE action = "stop"
  <2>1. /\ phase' = "stopped" /\ ClearRequest(sent)
        /\ prepared' = prepared /\ rtp' = rtp
        /\ decoding' = decoding /\ picture' = picture /\ pending' = pending /\ waiting' = waiting
    BY <1>4 DEF Apply
  <2>2. KeyType'
    BY <2>1 DEF ClearRequest, KeyType
  <2> QED BY <1>4, <2>1, <2>2 DEF LinkType, PictureType
<1>5. CASE action \in {"none", "observeRenderer"}
  <2>1. /\ ClearRequest(sent) /\ phase' = phase /\ prepared' = prepared /\ rtp' = rtp
        /\ decoding' = decoding /\ picture' = picture /\ pending' = pending /\ waiting' = waiting
    BY <1>5 DEF Apply, link
  <2>2. KeyType'
    BY <2>1 DEF ClearRequest, KeyType
  <2> QED BY <1>5, <2>1, <2>2 DEF LinkType, PictureType
<1> QED BY <1>1, <1>2, <1>3, <1>4, <1>5

(* What the loop looks at is up to date afterwards.                        *)
LEMMA LookIsDone ==
  ASSUME HealthInv, NEW action, Look(action), pace' \in {"free", "waits"},
         decoding' \in {"none", decoding}, picture' \in {"none", picture}
  PROVE  LoopType' /\ PictureType' /\ age' \in {"new", "decode", "rtp"}
<1>1. resuming' \in [was : BOOLEAN, grace : BOOLEAN]
  <2>1. resuming' = [was |-> suspended,
                     grace |-> resuming.grace \/ (resuming.was /\ ~suspended)]
    BY DEF Look, Resumed
  <2>2. suspended \in BOOLEAN
    BY DEF HealthInv, PictureType
  <2>3. PICK g \in BOOLEAN : g = (resuming.grace \/ (resuming.was /\ ~suspended))
    OBVIOUS
  <2> QED BY <2>1, <2>2, <2>3
<1>2. changed' = FALSE /\ polled' = TRUE /\ suspended' = suspended /\ rendered' = rendered
  BY DEF Look
<1>3. age' \in {"new", "decode", "rtp"}
  BY DEF Look, SinceStart, HealthInv, LinkType
<1>4. LoopType'
  BY <1>1, <1>2 DEF LoopType
<1>5. PictureType'
  BY <1>2 DEF HealthInv, PictureType
<1> QED BY <1>3, <1>4, <1>5

(* The stream is ended only when the attempt had its time, and the decoder *)
(* given up when it had or a cover took that back.                         *)
Justified ==
  /\ (phase = "running" /\ phase' = "stopped") => trial.renderer = "ripe"
  /\ (phase = "running" /\ prepared' /\ ~RtpStalled)
       => \/ trial.decoder \in {"ripe", "waived"}
          \/ trial.decoder = "given" /\ Uncovered

(* An iteration of the loop on a running stream.                           *)
LEMMA IterateStep ==
  ASSUME HealthInv, NEW other \in BOOLEAN, NEW sent \in BOOLEAN, Iterate(other, sent)
  PROVE  HealthInv' /\ Justified
<1> DEFINE r == Restarted
           action == Decide(Observed, r)
<1>1. /\ phase = "running" /\ Apply(action, sent /\ Asks(other))
      /\ Request(other) /\ Look(action)
  BY DEF Iterate
<1>2. ~prepared
  BY <1>1 DEF HealthInv, PreparedInv
<1>3. OnTrial(tries, trial) /\ tries \in Attempts
  BY DEF HealthInv, TrialInv, OnTrial
<1>4. /\ r \in Attempts
      /\ r.renderer > 0 => r = tries /\ ~changed /\ ~Uncovered
      /\ r.decoder > 0 => tries.decoder > 0 /\ (Uncovered \/ r = tries)
  BY <1>3, RestartedAttempts
<1>5. Observed.rtpStalled = RtpStalled
  BY DEF Observed
<1>6. /\ action \in Actions
      /\ action = "stop" => r.renderer > 0 /\ r.cooled
      /\ action \in {"recoverRenderer", "observeRenderer"} => r.renderer = 0
      /\ action = "recoverDecoder" => r.decoder = 0
      /\ action = "reconnect" => RtpStalled \/ (r.decoder > 0 /\ r.cooled)
  BY <1>4, <1>5, DecisionHasGrounds
<1> HIDE DEF action, r
<1>7. PICK out \in BOOLEAN : out = (sent /\ Asks(other))
  OBVIOUS
<1>8. /\ phase' \in {"running", "down", "stopped"} /\ prepared' \in BOOLEAN
      /\ rtp' \in {"none", "flowing", "stalled"}
      /\ decoding' \in {"none", decoding} /\ picture' \in {"none", picture}
      /\ KeyType'
      /\ phase' = "stopped" => action = "stop"
      /\ prepared' => action = "reconnect" /\ phase' = "down"
      /\ phase' = "running" => rtp' = rtp /\ decoding' = decoding /\ picture' = picture
  <2>1. Apply(action, out)
    BY <1>1, <1>7
  <2> QED BY <1>1, <1>2, <1>6, <2>1, ActionIsApplied DEF HealthInv
<1>9. pace' \in {"free", "waits"}
  BY <1>1 DEF Request, Paced, HealthInv, LoopType
<1>10. LoopType' /\ PictureType' /\ age' \in {"new", "decode", "rtp"}
  BY <1>1, <1>8, <1>9, LookIsDone
<1>11. LinkType'
  BY <1>8, <1>10 DEF LinkType
<1>12. TrialInv'
  BY <1>1, <1>3, <1>6, LookIsTried DEF TrialInv, r
<1>13. PolledInv'
  <2> SUFFICES ASSUME phase' = "running", Well' PROVE tries'.renderer = 0
    BY DEF PolledInv
  <2>1. rtp' = rtp /\ decoding' = decoding /\ picture' = picture
    BY <1>8
  <2>2. SinceStart' = SinceStart
    BY <1>1 DEF Look, SinceStart
  <2>3. Well
    BY <2>1, <2>2 DEF Well, DecodeStalled, PresentStalled
  <2>4. tries' = Fresh
    BY <1>1, <2>3 DEF Look
  <2> QED BY <2>4 DEF Fresh
<1>14. PreparedInv'
  BY <1>8 DEF PreparedInv
<1>15. Justified
  <2>1. ASSUME phase' = "stopped" PROVE trial.renderer = "ripe"
    BY <1>3, <1>4, <1>6, <1>8, <2>1 DEF OnTrial
  <2>2. ASSUME prepared', ~RtpStalled
        PROVE  \/ trial.decoder \in {"ripe", "waived"}
               \/ trial.decoder = "given" /\ Uncovered
    <3>1. r.decoder > 0 /\ r.cooled /\ tries.decoder > 0
      BY <1>4, <1>6, <1>8, <2>2
    <3>2. trial.decoder \in DecoderTrials
      BY <1>3 DEF OnTrial, Trials
    <3> QED
      BY <1>3, <1>4, <3>1, <3>2 DEF OnTrial, DecoderTrials
  <2> QED BY <2>1, <2>2 DEF Justified
<1> QED BY <1>8, <1>10, <1>11, <1>12, <1>13, <1>14, <1>15 DEF HealthInv

(* A stream that is not running is looked at as well.                      *)
LEMMA IdleStep == HealthInv /\ Idle => HealthInv' /\ Justified
<1> SUFFICES ASSUME HealthInv, Idle PROVE HealthInv' /\ Justified
  OBVIOUS
<1>1. /\ phase \in {"starting", "down"} /\ phase' = phase /\ prepared' = prepared /\ rtp' = rtp
      /\ decoding' = decoding /\ picture' = picture /\ pending' = pending
      /\ waiting' = waiting /\ asked' = asked /\ pace' = pace /\ Look("none")
  BY DEF Idle, link, media
<1>2. LoopType' /\ PictureType' /\ age' \in {"new", "decode", "rtp"}
  BY <1>1, LookIsDone DEF HealthInv, LoopType
<1>3. TrialInv'
  BY <1>1, LookIsTried DEF HealthInv, TrialInv, Actions
<1>4. LinkType' /\ KeyType'
  BY <1>1, <1>2 DEF HealthInv, LinkType, KeyType
<1>5. PolledInv' /\ PreparedInv' /\ Justified
  BY <1>1 DEF HealthInv, PolledInv, PreparedInv, Justified
<1> QED BY <1>2, <1>3, <1>4, <1>5 DEF HealthInv

(* A step that is not one of the loop's has the next poll before it.       *)
LEMMA BeforeThePoll ==
  ASSUME HealthInv, LinkType', PictureType', KeyType', LoopType', TrialInv',
         polled' = FALSE \/ phase' # "running",
         phase = "running" => phase' # "stopped",
         prepared' = prepared, prepared => phase' \in {"down", "stopped"}
  PROVE  HealthInv' /\ Justified
<1>1. PolledInv' /\ PreparedInv'
  BY DEF PolledInv, PreparedInv
<1>2. Justified
  BY DEF HealthInv, PreparedInv, Justified
<1> QED BY <1>1, <1>2 DEF HealthInv

(* Packets, frames, pictures and what covers them: but for a picture that  *)
(* ages, they leave the watchdog alone.                                    *)
MediaChange ==
  \/ RtpFlows \/ RtpStalls \/ DecodeAges \/ Show
  \/ \E key \in BOOLEAN : Decode(key)
  \/ \E fence \in BOOLEAN : RenderFault(fence)
  \/ RetireFences \/ PipelineRecovers \/ SourceChanges \/ Cover

(* They leave the watchdog alone.                                          *)
LEMMA MediaStep == HealthInv /\ MediaChange => HealthInv' /\ Justified
<1> SUFFICES ASSUME HealthInv, MediaChange PROVE HealthInv' /\ Justified
  OBVIOUS
<1> USE DEF link, media, watchdog
<1>1. /\ polled' = FALSE /\ phase' = phase /\ prepared' = prepared /\ age' = age
      /\ tries' = tries /\ trial' = trial /\ resuming' = resuming
  BY DEF MediaChange, RtpFlows, RtpStalls, DecodeAges, Show,
         Decode, RenderFault, RetireFences, PipelineRecovers,
         SourceChanges, Cover
<1>2. rtp' \in {"none", "flowing", "stalled"} /\ changed' \in BOOLEAN
  BY DEF MediaChange, RtpFlows, RtpStalls, DecodeAges, Show,
         Decode, RenderFault, RetireFences, PipelineRecovers,
         SourceChanges, Cover, HealthInv, LinkType, LoopType
<1>3. pace' \in {"free", "waits"}
  BY DEF MediaChange, RtpFlows, RtpStalls, DecodeAges, Show,
         Decode, RenderFault, RetireFences, PipelineRecovers,
         SourceChanges, Cover, HealthInv, LoopType
<1>4. /\ decoding' \in {"none", "current", "aging", "late"}
      /\ picture' \in {"none", "shown", "faulty", "late"}
  BY DEF MediaChange, RtpFlows, RtpStalls, DecodeAges, Show,
         Decode, RenderFault, RetireFences, PipelineRecovers,
         SourceChanges, Cover, NewSource, HealthInv, PictureType
<1>5. suspended' \in BOOLEAN /\ rendered' \in BOOLEAN
  BY DEF MediaChange, RtpFlows, RtpStalls, DecodeAges, Show,
         Decode, RenderFault, RetireFences, PipelineRecovers,
         SourceChanges, Cover, HealthInv, PictureType
<1>6. KeyType'
  <2>1. CASE RtpFlows \/ RtpStalls \/ DecodeAges \/ Cover
    BY <2>1 DEF RtpFlows, RtpStalls, DecodeAges, Cover,
                HealthInv, KeyType
  <2>2. CASE Show \/ RetireFences
    BY <2>2 DEF Show, RetireFences, HealthInv, KeyType
  <2>3. CASE \E key \in BOOLEAN : Decode(key)
    BY <2>3 DEF Decode, HealthInv, KeyType
  <2>4. CASE \E fence \in BOOLEAN : RenderFault(fence)
    BY <2>4 DEF RenderFault, HardRecovery, HealthInv, KeyType
  <2>5. CASE PipelineRecovers
    BY <2>5 DEF PipelineRecovers, HardRecovery, HealthInv, KeyType
  <2>6. CASE SourceChanges
    BY <2>6 DEF SourceChanges, NewSource, HealthInv, KeyType
  <2> QED BY <2>1, <2>2, <2>3, <2>4, <2>5, <2>6 DEF MediaChange
<1>7. LinkType' /\ PictureType' /\ LoopType' /\ TrialInv'
  <2>1. LinkType'
    BY <1>1, <1>2 DEF HealthInv, LinkType
  <2>2. PictureType'
    BY <1>4, <1>5 DEF PictureType
  <2>3. LoopType'
    BY <1>1, <1>2, <1>3 DEF HealthInv, LoopType
  <2>4. TrialInv'
    BY <1>1 DEF HealthInv, TrialInv
  <2> QED BY <2>1, <2>2, <2>3, <2>4
<1>8. (phase = "running" => phase' # "stopped") /\ (prepared => phase' \in {"down", "stopped"})
  BY <1>1 DEF HealthInv, PreparedInv
<1> QED BY <1>1, <1>6, <1>7, <1>8, BeforeThePoll

(* A picture ages: after a poll that found the video well nothing is       *)
(* counted any more, so that the trial of the renderer may be forgotten.   *)
LEMMA PictureStep == HealthInv /\ PictureAges => HealthInv' /\ Justified
<1> SUFFICES ASSUME HealthInv, PictureAges PROVE HealthInv' /\ Justified
  OBVIOUS
<1> DEFINE well == phase = "running" /\ picture = "shown" /\ ~DecodeStalled
<1>1. /\ polled /\ picture' = "late" /\ polled' = FALSE
      /\ trial' = IF well THEN [trial EXCEPT !.renderer = "none"] ELSE trial
      /\ phase' = phase /\ prepared' = prepared /\ rtp' = rtp /\ age' = age
      /\ decoding' = decoding /\ suspended' = suspended /\ rendered' = rendered
  BY DEF PictureAges, link
<1>2. /\ pending' = pending /\ waiting' = waiting /\ asked' = asked
      /\ pace' = pace /\ tries' = tries /\ resuming' = resuming /\ changed' = changed
  BY DEF PictureAges
<1>3. LinkType' /\ KeyType'
  BY <1>1, <1>2 DEF HealthInv, LinkType, KeyType
<1>4. PictureType' /\ LoopType'
  <2>1. PictureType'
    BY <1>1 DEF HealthInv, PictureType
  <2>2. LoopType'
    BY <1>1, <1>2 DEF HealthInv, LoopType
  <2> QED BY <2>1, <2>2
<1>5. TrialInv'
  <2>1. OnTrial(tries, trial)
    BY DEF HealthInv, TrialInv
  <2>2. CASE ~well
    BY <1>1, <1>2, <2>1, <2>2 DEF TrialInv
  <2>3. CASE well
    <3>1. Well
      BY <2>3 DEF Well, PresentStalled
    <3>2. tries.renderer = 0
      BY <1>1, <2>3, <3>1 DEF HealthInv, PolledInv
    <3>3. PICK d \in DecoderTrials, e \in RendererTrials :
            trial = [decoder |-> d, renderer |-> e]
      BY <2>1 DEF OnTrial, Trials
    <3>4. trial' = [decoder |-> d, renderer |-> "none"]
      BY <1>1, <2>3, <3>3
    <3> HIDE DEF well
    <3>5. OnTrial(tries, trial')
      BY <2>1, <3>2, <3>3, <3>4 DEF OnTrial, Trials, Attempts, RendererTrials
    <3> QED BY <1>2, <3>5 DEF TrialInv
  <2> QED BY <2>2, <2>3
<1>6. (phase = "running" => phase' # "stopped") /\ (prepared => phase' \in {"down", "stopped"})
  BY <1>1 DEF HealthInv, PreparedInv
<1> QED BY <1>1, <1>3, <1>4, <1>5, <1>6, BeforeThePoll

(* The timers of the loop: the cool-down is over, and with it the time of  *)
(* what is on trial.                                                       *)
LEMMA CoolStep == HealthInv /\ Cool => HealthInv' /\ Justified
<1> SUFFICES ASSUME HealthInv, Cool PROVE HealthInv' /\ Justified
  OBVIOUS
<1>1. /\ tries' = [tries EXCEPT !.cooled = TRUE] /\ polled' = FALSE
      /\ trial' = [decoder |-> Ripe(trial.decoder),
                   renderer |-> Ripe(trial.renderer)]
  BY DEF Cool
<1>2. /\ phase' = phase /\ prepared' = prepared /\ rtp' = rtp /\ age' = age
      /\ decoding' = decoding /\ picture' = picture
      /\ suspended' = suspended /\ rendered' = rendered
  BY DEF Cool, link, media
<1>3. /\ pending' = pending /\ waiting' = waiting /\ asked' = asked
      /\ pace' = pace /\ resuming' = resuming /\ changed' = changed
  BY DEF Cool, link, media
<1>4. LinkType' /\ KeyType'
  BY <1>2, <1>3 DEF HealthInv, LinkType, KeyType
<1>5. PictureType' /\ LoopType'
  <2>1. PictureType'
    BY <1>2 DEF HealthInv, PictureType
  <2>2. LoopType'
    BY <1>1, <1>3 DEF HealthInv, LoopType
  <2> QED BY <2>1, <2>2
<1>6. TrialInv'
  <2>1. OnTrial(tries, trial)
    BY DEF HealthInv, TrialInv
  <2>2. PICK a \in 0..1, b \in 0..1, c \in BOOLEAN :
          tries = [renderer |-> a, decoder |-> b, cooled |-> c]
    BY <2>1 DEF OnTrial, Attempts
  <2>3. PICK d \in DecoderTrials, e \in RendererTrials :
          trial = [decoder |-> d, renderer |-> e]
    BY <2>1 DEF OnTrial, Trials
  <2>4. PICK yes \in BOOLEAN : yes = TRUE
    OBVIOUS
  <2>5. tries' = [renderer |-> a, decoder |-> b, cooled |-> yes]
    BY <1>1, <2>2, <2>4
  <2>6. trial' = [decoder |-> Ripe(d), renderer |-> Ripe(e)]
    BY <1>1, <2>3
  <2>7. a > 0 => e # "none"
    BY <2>1, <2>2, <2>3 DEF OnTrial
  <2>8. b > 0 => d # "none"
    BY <2>1, <2>2, <2>3 DEF OnTrial
  <2>9. OnTrial(tries', trial')
    BY <2>5, <2>6, <2>7, <2>8
    DEF OnTrial, Attempts, Trials, DecoderTrials, RendererTrials, Ripe
  <2> QED BY <2>9 DEF TrialInv
<1>7. (phase = "running" => phase' # "stopped") /\ (prepared => phase' \in {"down", "stopped"})
  BY <1>2 DEF HealthInv, PreparedInv
<1> QED BY <1>1, <1>2, <1>4, <1>5, <1>6, <1>7, BeforeThePoll

OtherTimers == GraceEnds \/ DelayEnds \/ AgePasses
(* The other timers leave attempts and trials alone.                       *)
LEMMA TimerStep == HealthInv /\ OtherTimers => HealthInv' /\ Justified
<1> SUFFICES ASSUME HealthInv, OtherTimers PROVE HealthInv' /\ Justified
  OBVIOUS
<1> USE DEF OtherTimers, GraceEnds, DelayEnds, AgePasses, link,
            media
<1>1. /\ polled' = FALSE /\ phase' = phase /\ prepared' = prepared /\ rtp' = rtp
      /\ tries' = tries /\ trial' = trial /\ changed' = changed
  OBVIOUS
<1>2. /\ decoding' = decoding /\ picture' = picture
      /\ suspended' = suspended /\ rendered' = rendered
      /\ pending' = pending /\ waiting' = waiting /\ asked' = asked
  OBVIOUS
<1>3. age' \in {"new", "decode", "rtp"} /\ pace' \in {"free", "waits"}
  BY DEF HealthInv, LinkType, LoopType
<1>4. resuming' \in [was : BOOLEAN, grace : BOOLEAN]
  BY DEF HealthInv, LoopType
<1>5. LinkType' /\ KeyType'
  BY <1>1, <1>2, <1>3 DEF HealthInv, LinkType, KeyType
<1>6. PictureType'
  BY <1>2 DEF HealthInv, PictureType
<1>7. LoopType'
  BY <1>1, <1>3, <1>4 DEF HealthInv, LoopType
<1>8. TrialInv'
  BY <1>1 DEF HealthInv, TrialInv
<1>9. (phase = "running" => phase' # "stopped") /\ (prepared => phase' \in {"down", "stopped"})
  BY <1>1 DEF HealthInv, PreparedInv
<1> QED BY <1>1, <1>5, <1>6, <1>7, <1>8, <1>9, BeforeThePoll

(* The session starts, is lost, is set up afresh or is given up.           *)
LEMMA SessionStep == HealthInv /\ Session => HealthInv' /\ Justified
<1> SUFFICES ASSUME HealthInv, Session PROVE HealthInv' /\ Justified
  OBVIOUS
<1> USE DEF link, media, watchdog
<1>1. CASE StartControl
  <2>1. /\ phase = "starting" /\ phase' = "running" /\ age' = "new" /\ polled' = FALSE
        /\ pace' \in {"free", "waits"} /\ prepared' = prepared /\ rtp' = rtp
        /\ tries' = tries /\ trial' = trial /\ resuming' = resuming /\ changed' = changed
    BY <1>1 DEF StartControl
  <2>2. /\ decoding' = decoding /\ picture' = picture
        /\ suspended' = suspended /\ rendered' = rendered
        /\ pending' = pending /\ waiting' = waiting /\ asked' = asked
    BY <1>1 DEF StartControl
  <2>3. LinkType' /\ KeyType' /\ PictureType'
    BY <2>1, <2>2 DEF HealthInv, LinkType, KeyType, PictureType
  <2>4. LoopType' /\ TrialInv'
    BY <2>1 DEF HealthInv, LoopType, TrialInv
  <2>5. ~prepared
    BY <2>1 DEF HealthInv, PreparedInv
  <2> QED BY <2>1, <2>3, <2>4, <2>5, BeforeThePoll
<1>2. CASE LinkLost
  <2>1. /\ phase' = "down" /\ rtp' = "none" /\ prepared' = prepared /\ age' = age
        /\ polled' = polled /\ pace' = pace /\ tries' = tries /\ trial' = trial
        /\ resuming' = resuming /\ changed' = changed
    BY <1>2 DEF LinkLost
  <2>2. /\ decoding' = decoding /\ picture' = picture
        /\ suspended' = suspended /\ rendered' = rendered
        /\ pending' = pending /\ waiting' = waiting /\ asked' = asked
    BY <1>2 DEF LinkLost
  <2>3. LinkType' /\ KeyType' /\ PictureType'
    BY <2>1, <2>2 DEF HealthInv, LinkType, KeyType, PictureType
  <2>4. LoopType' /\ TrialInv'
    BY <2>1 DEF HealthInv, LoopType, TrialInv
  <2> QED BY <2>1, <2>3, <2>4, BeforeThePoll
<1>3. CASE Reconnected
  <2>1. /\ phase = "down" /\ phase' = "starting" /\ prepared' = FALSE /\ age' = "new"
        /\ tries' = Fresh /\ changed' = FALSE
        /\ trial' = [decoder |-> "none", renderer |-> "none"]
        /\ rtp' = rtp /\ pace' = pace /\ resuming' = resuming /\ polled' = polled
        /\ suspended' = suspended /\ rendered' = rendered
    BY <1>3 DEF Reconnected
  <2>2. /\ decoding' \in {"none", decoding} /\ picture' \in {"none", picture} /\ KeyType'
    BY <1>3 DEF Reconnected, NewSource, HealthInv, KeyType
  <2>3. LinkType' /\ PictureType'
    BY <2>1, <2>2 DEF HealthInv, LinkType, PictureType
  <2>4. LoopType'
    BY <2>1 DEF HealthInv, LoopType
  <2>5. TrialInv'
    <3>1. trial' \in Trials
      BY <2>1 DEF Trials, DecoderTrials, RendererTrials
    <3> QED BY <2>1, <3>1, FreshIsNoTrial DEF TrialInv
  <2>6. PolledInv' /\ PreparedInv' /\ Justified
    BY <2>1 DEF PolledInv, PreparedInv, Justified
  <2> QED BY <2>2, <2>3, <2>4, <2>5, <2>6 DEF HealthInv
<1>4. CASE GiveUp
  <2>1. /\ phase = "down" /\ phase' = "stopped" /\ rtp' = rtp /\ prepared' = prepared
        /\ age' = age /\ polled' = polled /\ pace' = pace /\ tries' = tries
        /\ trial' = trial /\ resuming' = resuming /\ changed' = changed
    BY <1>4 DEF GiveUp
  <2>2. /\ decoding' = decoding /\ picture' = picture
        /\ suspended' = suspended /\ rendered' = rendered
        /\ pending' = pending /\ waiting' = waiting /\ asked' = asked
    BY <1>4 DEF GiveUp
  <2>3. LinkType' /\ KeyType' /\ PictureType'
    BY <2>1, <2>2 DEF HealthInv, LinkType, KeyType, PictureType
  <2>4. LoopType' /\ TrialInv'
    BY <2>1 DEF HealthInv, LoopType, TrialInv
  <2> QED BY <2>1, <2>3, <2>4, BeforeThePoll
<1> QED BY <1>1, <1>2, <1>3, <1>4 DEF Session

(* Nothing happens.                                                        *)
LEMMA HealthStutter == HealthInv /\ UNCHANGED vars => HealthInv' /\ Justified
<1> SUFFICES ASSUME HealthInv, UNCHANGED vars PROVE HealthInv' /\ Justified
  OBVIOUS
<1>1. /\ phase' = phase /\ prepared' = prepared /\ age' = age /\ rtp' = rtp
      /\ decoding' = decoding /\ picture' = picture
      /\ suspended' = suspended /\ rendered' = rendered
      /\ pending' = pending /\ waiting' = waiting /\ asked' = asked
  BY DEF vars, link, media, watchdog
<1>2. /\ pace' = pace /\ tries' = tries /\ trial' = trial /\ resuming' = resuming
      /\ changed' = changed /\ polled' = polled
  BY DEF vars, link, media, watchdog
<1>3. LinkType' /\ KeyType' /\ PictureType'
  BY <1>1 DEF HealthInv, LinkType, KeyType, PictureType
<1>4. LoopType' /\ TrialInv'
  BY <1>2 DEF HealthInv, LoopType, TrialInv
<1>5. Well' = Well
  BY <1>1, <1>2 DEF Well, DecodeStalled, PresentStalled,
                    SinceStart
<1>6. PolledInv' /\ PreparedInv'
  BY <1>1, <1>2, <1>5 DEF HealthInv, PolledInv, PreparedInv
<1>7. Justified
  BY <1>1 DEF HealthInv, PreparedInv, Justified
<1> QED BY <1>3, <1>4, <1>6, <1>7 DEF HealthInv

(* Every step keeps the invariant and is justified.                        *)
LEMMA HealthStep == HealthInv /\ [Next]_vars => HealthInv' /\ Justified
<1> SUFFICES ASSUME HealthInv, [Next]_vars PROVE HealthInv' /\ Justified
  OBVIOUS
<1>1. CASE Idle
  BY <1>1, IdleStep
<1>2. CASE \E other, sent \in BOOLEAN : Iterate(other, sent)
  BY <1>2, IterateStep
<1>3. CASE MediaChange
  BY <1>3, MediaStep
<1>4. CASE PictureAges
  BY <1>4, PictureStep
<1>5. CASE Cool
  BY <1>5, CoolStep
<1>6. CASE OtherTimers
  BY <1>6, TimerStep
<1>7. CASE Session
  BY <1>7, SessionStep
<1>8. CASE UNCHANGED vars
  BY <1>8, HealthStutter
<1> QED
  BY <1>1, <1>2, <1>3, <1>4, <1>5, <1>6, <1>7, <1>8
  DEF Next, Loop, Media, Timers, MediaChange, OtherTimers

(* The stream is ended only after an attempt on the renderer that had its  *)
(* time, and a fresh session is set up for video that is not decoded only   *)
(* after an attempt on the decoder that had its time, or that a cover of    *)
(* the picture cut short (runLoop, decideVideoWatchdogAction).              *)
THEOREM RemediesHaveTheirTime == Spec => RecoverySafety
<1>1. Init /\ [][Next]_vars => []HealthInv
  BY HealthInit, HealthStep, PTL
<1>2. HealthInv => TypeOK
  BY HealthTypes
<1>3. HealthInv /\ [Next]_vars =>
        [phase = "running" /\ phase' = "stopped" => trial.renderer = "ripe"]_vars
  BY HealthStep DEF Justified
<1>4. HealthInv /\ [Next]_vars =>
        [phase = "running" /\ prepared' /\ ~RtpStalled
           => \/ trial.decoder \in {"ripe", "waived"}
              \/ trial.decoder = "given" /\ Uncovered]_vars
  BY HealthStep DEF Justified
<1> QED
  BY <1>1, <1>2, <1>3, <1>4, PTL
  DEF Spec, RecoverySafety, StopEarned, DecoderGetsItsTime
=============================================================================
