----------------------------- MODULE MCSessions -----------------------------
(* Small instances of Sessions for TLC. *)
EXTENDS Sessions, TLC

Symmetry == Permutations(Browser) \cup Permutations(Flow) \cup Permutations(Session)
              \cup Permutations(Pod) \cup Permutations(Handler)
=============================================================================
