---------------------------- MODULE HoleOwnership ----------------------------
(***************************************************************************)
(* What the PlayStation code promises about its hole-punch sessions: each  *)
(* is handed from the connector to the controller, to the stream session   *)
(* and to chiaki, never back and never to two of them, and whoever holds   *)
(* it last finishes it, once.  PsConnect implements this specification.    *)
(***************************************************************************)
EXTENDS Naturals

CONSTANT Handles

VARIABLE holder   \* who holds each handle

Owners == <<"connector", "result", "session", "chiaki">>
Living == {"connector", "result", "session", "chiaki"}
Holders == Living \cup {"none", "finished"}

Init == holder = [h \in Handles |-> "none"]

Create(h) == holder[h] = "none" /\ holder' = [holder EXCEPT ![h] = "connector"]
Pass(h) ==
  \E i \in 1..3 : /\ holder[h] = Owners[i]
                  /\ holder' = [holder EXCEPT ![h] = Owners[i + 1]]
Finish(h) == holder[h] \in Living /\ holder' = [holder EXCEPT ![h] = "finished"]

Next == \E h \in Handles : Create(h) \/ Pass(h) \/ Finish(h)
Spec == Init /\ [][Next]_holder
=============================================================================
