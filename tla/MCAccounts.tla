---------------------------- MODULE MCAccounts -----------------------------
(* Small instances of Accounts for TLC. *)
EXTENDS Accounts, TLC

CONSTANTS e1, e2, p1, p2, d1, d2

\* A person with both identifiers who chooses a domain, and another one with the
\* same phone number who chooses none.
Forms == {[email |-> e1, phone |-> p1, domain |-> d1],
          [email |-> e2, phone |-> p1, domain |-> NoDomain]}

Symmetry == Permutations(Id) \cup Permutations(Handler) \cup Permutations(Org)
=============================================================================
