--------------------------- MODULE MCServerProcess ---------------------------
(* Two servers, on two ports or on one, and two commands to stop them.      *)
EXTENDS ServerProcess

CONSTANTS p1, p2, s1, s2

TwoPids == {p1, p2}
TwoStops == {s1, s2}
=============================================================================
