----------------------------- MODULE MCAccounts -----------------------------
(* Slots, ids, emails and passwords are interchangeable.                   *)
EXTENDS Accounts, TLC

Symmetry == Permutations(Requests) \cup Permutations(Ids) \cup
            Permutations(Emails) \cup Permutations(Passwords)

=============================================================================
