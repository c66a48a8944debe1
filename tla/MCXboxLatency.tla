----------------------------- MODULE MCXboxLatency -----------------------------
(* Model values for XboxLatency: clean windows, windows with some final loss *)
(* and windows with much of it; the round-trip time as it was, or inflated   *)
(* so far that a home stream finds it fair and a cloud stream still good.    *)
EXTENDS XboxLatency

Clean == [packets |-> 2000, detected |-> 0, unrecovered |-> 0, drops |-> 0, depth |-> 0]
MCLoads == {Clean,
            [Clean EXCEPT !.detected = 6000, !.unrecovered = 4000],
            [Clean EXCEPT !.detected = 60000, !.unrecovered = 60000]}
=============================================================================
