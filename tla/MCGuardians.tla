----------------------------- MODULE MCGuardians -----------------------------
(* Small instances of Guardians for TLC. *)
EXTENDS Guardians, TLC

CONSTANTS w1, w2

\* One ward with an account, who creates profiles, and one who signs up.
Mixed == w1 :> {"guardian", "create", "action"} @@ w2 :> {"signup"}

\* One ward who signs up.
SigningUp == w1 :> {"signup"}

Symmetry == Permutations(Contact) \cup Permutations(Code)
              \cup Permutations(Handler)
=============================================================================
