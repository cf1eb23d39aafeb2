----------------------------- MODULE MCUserList -----------------------------
(* Two operators, users in the order of their addresses.                     *)
EXTENDS UserList

Interchangeable == Permutations(Operators)
=============================================================================
