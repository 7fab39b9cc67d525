--------------------------- MODULE MCConnections ---------------------------
(***************************************************************************)
(* Small instances of Connections for TLC.                                 *)
(***************************************************************************)
EXTENDS Connections, TLC

CONSTANTS i1, i2, i3, u1, u2, u3, n1, n2

\* Two items of two owners: a pair that can connect in either direction.
MCOwner == i1 :> u1 @@ i2 :> u2

\* A third item, for a neighbour on another instance.
ThreeOwners == MCOwner @@ i3 :> u3

\* Both on one instance, or each on its own.
OneHome == i1 :> n1 @@ i2 :> n1
TwoHomes == i1 :> n1 @@ i2 :> n2
OneRemote == OneHome @@ i3 :> n2

\* Action ids are interchangeable, and so are handlers.
Symmetry == Permutations(ActionId) \cup Permutations(Handler)
=============================================================================
