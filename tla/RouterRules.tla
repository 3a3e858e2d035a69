----------------------------- MODULE RouterRules -----------------------------
(***************************************************************************)
(* What Router::route_inbound (mesh/router.rs) decides, as operators on an *)
(* envelope and a node's cache of seen ids.  Router.tla runs them for one  *)
(* node, Mesh.tla for every node of a network.                             *)
(***************************************************************************)
EXTENDS Envelope, Functions

CONSTANTS
    MaxHops,    \* Router.max_hops
    SeenTtl,    \* RouteTable.seen_ttl
    MaxAge,     \* oldest envelope route_inbound takes
    MaxSkew     \* furthest future timestamp it takes

ASSUME RouterConstants ==
    /\ MaxHops \in Nat
    /\ SeenTtl \in Nat \ {0}
    /\ MaxAge \in Nat
    /\ MaxSkew \in Nat

(* A slip: the last hop a ttl pays for is refused.                         *)
WithinHopsButLast(env) == env.hop.hops <= MaxHops /\ ~(env.hop.ttl <= 1 /\ env.hop.hops > 0)

(* The checks before the cache is touched: hops, then an expired ttl, then *)
(* freshness.                                                              *)
WithinHops(env) == env.hop.hops <= MaxHops /\ ~(env.hop.ttl = 0 /\ env.hop.hops > 0)

(* A slip: only the future is checked, not the age.                        *)
AcceptableAtAnyAge(env, now) == WithinHops(env) /\ env.body.ts <= now + MaxSkew

Acceptable(env, now) == WithinHops(env) /\ IsFresh(env, now, MaxAge, MaxSkew)

(* check_and_record: the answer, and the cache with the id recorded.       *)
IsNew(seen, id) == id \notin DOMAIN seen

Recorded(seen, id, now) ==
    [ i \in DOMAIN seen \union {id} |-> IF i = id THEN now ELSE seen[i] ]

(* gc_seen keeps what is younger than seen_ttl.                            *)
Collected(seen, now) ==
    Restrict(seen, { i \in DOMAIN seen : now - seen[i] < SeenTtl })

(* Is the envelope for the node, and is it flooded onwards all the same?   *)
ForUs(self, env) == env.body.recipient \in {self, None}

FloodedKind == { "channel", "broadcast", "peer_discovery", "route_announce" }

(* The decision on an envelope that passed the checks and the cache.       *)
Decision(self, env) ==
    LET live == env.hop.ttl > 0 IN
    CASE ForUs(self, env) /\ env.body.kind \in FloodedKind /\ live -> "deliver_and_relay"
      [] ForUs(self, env) /\ ~(env.body.kind \in FloodedKind /\ live) -> "deliver"
      [] ~ForUs(self, env) /\ live -> "relay"
      [] OTHER -> "drop"

=============================================================================
