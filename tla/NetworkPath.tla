------------------------------ MODULE NetworkPath ------------------------------
(****************************************************************************)
(* NetworkPathEstimator: what one window of about a second says of the path *)
(* to the console.  A window is a record of what was counted in it (`load`) *)
(* and of how far its round-trip time lies over the least one of the last   *)
(* windows (`inflation`).  Home and cloud streams are held to different     *)
(* thresholds.  Times are in milliseconds, losses in parts per million.     *)
(****************************************************************************)
EXTENDS Naturals, FiniteSetsExt

CONSTANTS BaselineWindow,  \* kRttBaselineWindow: 30 round-trip times in the code
          BadWindows,      \* worse windows in a row before the quality falls: 2
          GoodWindows      \* better windows in a row before it rises: 3

ASSUME WindowAssumption ==
    /\ BaselineWindow \in Nat \ {0}
    /\ BadWindows \in Nat \ {0} /\ GoodWindows \in Nat \ {0}

Modes == {"home", "cloud"}
Qualities == {"good", "fair", "poor"}
Rank(quality) == CASE quality = "good" -> 0
                   [] quality = "fair" -> 1
                   [] quality = "poor" -> 2

(* The history of round-trip times is kept as its least value and the age  *)
(* of it in samples.  When that value leaves the history, the least of the  *)
(* younger ones takes its place: some value above it, of some younger age,  *)
(* and no larger than the newest.  A time of 0 is no answer and is not kept.*)
NoRtt == [least |-> 0, age |-> 0]
KeepRtt(history, rtt, times) ==
    CASE rtt = 0 -> {history}
      [] rtt > 0 /\ (history.least = 0 \/ rtt <= history.least) ->
           {[least |-> rtt, age |-> 0]}
      [] rtt > history.least /\ history.least > 0 ->
           IF history.age + 1 < BaselineWindow THEN {[history EXCEPT !.age = @ + 1]}
           ELSE {[least |-> rtt, age |-> 0]} \cup
                [least : {t \in times : history.least < t /\ t < rtt},
                 age : 1..history.age]
Inflation(history, rtt) ==
    IF rtt > history.least THEN rtt - history.least ELSE 0

(* classify *)
GoodInflation(mode) == IF mode = "home" THEN 15 ELSE 30
FairInflation(mode) == IF mode = "home" THEN 35 ELSE 80
Classify(mode, window) ==
    LET load == window.load
        good == /\ load.drops = 0 /\ load.depth < 512
                /\ load.unrecovered < 2000 /\ load.detected < 5000
                /\ window.inflation <= GoodInflation(mode)
        fair == /\ load.drops = 0 /\ load.depth < 1024
                /\ load.unrecovered < 10000
                /\ window.inflation <= FairInflation(mode)
    IN CASE good -> "good" [] ~good /\ fair -> "fair" [] OTHER -> "poor"

NoVerdict == [quality |-> "good", bad |-> 0, good |-> 0]

(* updateQuality: the quality the path is said to have, and the windows in  *)
(* a row that contradicted it                                               *)
UpdateQuality(q, observed) ==
    LET settled == [NoVerdict EXCEPT !.quality = observed]
        worse == Rank(observed) > Rank(q.quality)
        better == Rank(observed) < Rank(q.quality)
    IN CASE worse /\ q.bad + 1 >= BadWindows -> settled
         [] worse /\ q.bad + 1 < BadWindows -> [q EXCEPT !.bad = @ + 1, !.good = 0]
         [] better /\ q.good + 1 >= GoodWindows -> settled
         [] better /\ q.good + 1 < GoodWindows -> [q EXCEPT !.good = @ + 1, !.bad = 0]
         [] OTHER -> [q EXCEPT !.bad = 0, !.good = 0]
=============================================================================
