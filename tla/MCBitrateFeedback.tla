--------------------------- MODULE MCBitrateFeedback ---------------------------
(* Model values for BitrateFeedback: a clean window, a moderate final loss   *)
(* (congestion only together with the round-trip time) and a severe one.     *)
EXTENDS BitrateFeedback

Clean == [NoLoad EXCEPT !.packets = 2000]
MCLoads == {Clean,
            [Clean EXCEPT !.detected = 6000, !.unrecovered = 4000],
            [Clean EXCEPT !.detected = 60000, !.unrecovered = 60000]}
=============================================================================
