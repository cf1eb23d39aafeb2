------------------------------ MODULE MCModems ------------------------------
(* Two of everything; which of two is which does not matter.                 *)
EXTENDS Modems, TLC

Interchangeable ==
    Permutations(Workers) \cup Permutations(Modems) \cup Permutations(Users)
        \cup Permutations(Ips) \cup Permutations(Emails)
=============================================================================
