---------------------------- MODULE MCVideoJitter ----------------------------
(****************************************************************************)
(* A stream for the model checker: a key frame behind its parameter sets, a *)
(* picture of two packets followed by padding, one of one packet, a second  *)
(* key frame, and one of another source that cannot be depacketized.        *)
(****************************************************************************)
EXTENDS VideoJitter

Packet(ts, kind, head, marker) ==
    [ts |-> ts, kind |-> kind, head |-> head, marker |-> marker,
     bad |-> FALSE, ssrc |-> 1]

MCStream ==
    << Packet(1, "params", TRUE, FALSE),
       Packet(1, "key", TRUE, TRUE),
       Packet(2, "delta", TRUE, FALSE),
       Packet(2, "delta", FALSE, TRUE),
       Packet(2, "padding", FALSE, FALSE),
       Packet(3, "delta", TRUE, TRUE),
       Packet(4, "key", TRUE, TRUE),
       [Packet(5, "key", TRUE, TRUE) EXCEPT !.ssrc = 2, !.bad = TRUE] >>
=============================================================================
