---------------------------- MODULE MCWsFraming ----------------------------
(***************************************************************************)
(* Traffic for WsFraming: sequences of up to two frames out of one         *)
(* representative of every case the framing layer distinguishes, and of    *)
(* four frames out of those that make up fragmented messages.              *)
(***************************************************************************)
EXTENDS WsFraming

Mk(o, f, l, u) ==
    [op |-> o, fin |-> f, len |-> l, long |-> FALSE, utf8 |-> u, defect |-> "none"]

Fragments ==
    {Mk("text", FALSE, 1, "whole"), Mk("text", FALSE, 1, "cut"),
     Mk("continuation", FALSE, 1, "rest"), Mk("continuation", TRUE, 1, "whole"),
     Mk("continuation", TRUE, 0, "whole"), Mk("ping", TRUE, 0, "whole")}

Shapes ==
    Fragments \cup
    {Mk("text", TRUE, 1, "whole"), Mk("text", TRUE, 1, "cut"),
     Mk("text", FALSE, 0, "whole"), Mk("binary", TRUE, 1, "bad"),
     Mk("binary", FALSE, 2, "bad"), Mk("continuation", TRUE, 1, "rest"),
     Mk("continuation", FALSE, 1, "bad"), Mk("ping", FALSE, 0, "whole"),
     Mk("pong", TRUE, 2, "whole"), Mk("close", TRUE, 1, "cut"),
     Mk("close", TRUE, 0, "whole"),
     [Mk("text", TRUE, 3, "whole") EXCEPT !.long = TRUE],
     [Mk("text", TRUE, 2, "whole") EXCEPT !.long = TRUE, !.defect = "huge"],
     [Mk("text", TRUE, 1, "whole") EXCEPT !.defect = "mask"]}

MCTraffic == UNION {[1..n -> Shapes] : n \in 1..2} \cup [1..4 -> Fragments]
=============================================================================
