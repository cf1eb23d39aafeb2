--------------------------- MODULE MCChangeIpPage ---------------------------
(* One page, two sockets, one modem.                                        *)
EXTENDS ChangeIpPage

CONSTANTS r1, r2, m1, w1

TwoSockets == {r1, r2}
OneModem == {m1}

\* Every reconnection gets an address no modem has had before.
FreshLeases == [a \in IPs |-> IF a + 1 \in IPs THEN {a + 1} ELSE {a}]

MCModemOf == [c \in Conns |-> m1]
MCRowOf == [c \in Conns |-> w1]
MCFirstIP == [m \in Modems |-> 1]
=============================================================================
