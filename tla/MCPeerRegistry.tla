--------------------------- MODULE MCPeerRegistry ---------------------------
(* Three peers for two places, two concurrent observations.                *)
EXTENDS PeerRegistry, TLC

CONSTANTS p1, p2, p3, t1, t2

Interchangeable == Permutations({p1, p2, p3}) \union Permutations({t1, t2})

=============================================================================
