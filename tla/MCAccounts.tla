----------------------------- MODULE MCAccounts -----------------------------
(* Instances of Accounts for TLC. *)
EXTENDS Accounts, TLC
CONSTANTS hub, goo, ann, ann2, me
Emails == [i \in Identity |-> me]
Handles == [i \in Identity |-> IF i = hub THEN ann ELSE None]
Names == [i \in Identity |-> <<ann, ann2>>]
Interchangeable == Permutations(Account) \cup Permutations(Client)
=============================================================================
