-------------------------- MODULE MCConnectionPool --------------------------
(* Two list pages, each of which asks the application, and a WebSocket.      *)
EXTENDS ConnectionPool

CONSTANTS l1, a1, l2, a2, s1, w1, w2

MCRequests == {l1, a1, l2, a2, s1}
MCKind == [r \in Requests |-> IF r \in {l1, l2} THEN "list"
                              ELSE IF r = s1 THEN "socket" ELSE "plain"]
MCAsks == [r \in {l1, l2} |-> IF r = l1 THEN a1 ELSE a2]
=============================================================================
