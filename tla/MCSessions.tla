----------------------------- MODULE MCSessions -----------------------------
(* Two addresses, as many accounts, and two requests at a time.             *)
EXTENDS Sessions, TLC

CONSTANTS e1, e2, r1, r2

TwoEmails == {e1, e2}
TwoReqs == {r1, r2}

Interchangeable ==
    Permutations(TwoEmails) \cup Permutations(TwoReqs)
=============================================================================
