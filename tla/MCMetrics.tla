----------------------------- MODULE MCMetrics -----------------------------
(***************************************************************************)
(* A small instance of Metrics for TLC: a process with two connections,    *)
(* two checks of one pair, two profiles.                                   *)
(***************************************************************************)
EXTENDS Metrics, TLC

CONSTANTS h1, h2, c1, c2, n1, p1, i1, i2

MCPodOf == h1 :> n1 @@ h2 :> n1
MCPool == n1 :> {c1, c2}
MCPairOf == i1 :> p1 @@ i2 :> p1
=============================================================================
