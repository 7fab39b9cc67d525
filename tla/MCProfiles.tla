----------------------------- MODULE MCProfiles -----------------------------
(* Small instances of Profiles for TLC. *)
EXTENDS Profiles, TLC

CONSTANT u1

\* Clients tell only the ages of minors.
MinorsTell == u1 :> {"minor"}

Symmetry == Permutations(Item) \cup Permutations(Handler)
=============================================================================
