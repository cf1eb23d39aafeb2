--------------------------- MODULE MCRebootServer ---------------------------
(* Connections that ask for a reboot of the same modem.                     *)
EXTENDS RebootServer, TLC

CONSTANTS c1, c2, c3, m1

\* Every reconnection gets an address no modem has had before.
FreshLeases == [a \in IPs |-> IF a + 1 \in IPs THEN {a + 1} ELSE {a}]

\* Any address, the current one included.
AnyLeases == [a \in IPs |-> IPs]

MCModemOf == [c \in Conns |-> m1]
MCFirstIP == [m \in Modems |-> 1]

Interchangeable == Permutations(Conns)
=============================================================================
