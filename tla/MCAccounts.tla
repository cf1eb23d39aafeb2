----------------------------- MODULE MCAccounts -----------------------------
(* Two or three codes, and accounts, addresses and workers to go with them.  *)
EXTENDS Accounts, TLC

Interchangeable ==
    Permutations(Mails) \cup Permutations(Processes)
        \cup Permutations(Addresses) \cup Permutations(Ids)
=============================================================================
