----------------------------- MODULE MCFetching -----------------------------
(* Small instances of Fetching for TLC. *)
EXTENDS Fetching, TLC

CONSTANTS Peer

\* The first two rows of the domain may both be at Self.
MCHome == <<Peer, Self, Self>>

\* The second page, of items and of markers, and an own list.
MCRequest == {[kind |-> "item", offset |-> 1], [kind |-> "marker", offset |-> 1],
              [kind |-> "own", offset |-> 0]}

\* The second page of items is within what a peer gives, that of markers is not.
MCPeerLimit == ("item" :> 2) @@ ("marker" :> 1)
=============================================================================
