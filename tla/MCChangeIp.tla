----------------------------- MODULE MCChangeIp -----------------------------
(* Requests for the same modem.                                             *)
EXTENDS ChangeIp, TLC

CONSTANTS r1, r2, m1, m2, w1

\* Every reconnection gets an address no modem has had before.
FreshLeases == [a \in IPs |-> IF a + 1 \in IPs THEN {a + 1} ELSE {a}]

\* Any address, the current one included.
AnyLeases == [a \in IPs |-> IPs]

MCModemOf == [c \in Conns |-> m1]
MCRowOf == [c \in Conns |-> w1]
MCFirstIP == [m \in Modems |-> 1]

Interchangeable == Permutations(Conns)
=============================================================================
