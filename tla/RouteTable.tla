----------------------------- MODULE RouteTable -----------------------------
(***************************************************************************)
(* One node's distance-vector table (RouteTable and                        *)
(* Router::process_route_announce in mesh/router.rs):                      *)
(* signed announcements arrive late, repeated, altered or re-signed, in    *)
(* any order and through any neighbour; routes are removed one by one or   *)
(* by neighbour.  Every method holds the table's lock throughout.          *)
(***************************************************************************)
EXTENDS Integers, Functions

CONSTANTS
    Node,           \* identity ids; a node's key is named after the node, as
                    \* its id is the hash of its verifying key
    Self,           \* our_id
    Rogue,          \* nodes that sign whatever they like
    HopCounts,      \* hop counts announcements carry
    MaxHopCount,    \* 255, the largest of them that a u8 holds
    Seqs,           \* sequence numbers rogue announcements carry
    SeqMax,         \* u64::MAX
    MaxSeqJump,     \* MAX_SEQ_JUMP
    MaxIssued       \* bound: honest nodes announce this often

ASSUME TableConstants ==
    /\ Self \in Node
    /\ Rogue \subseteq Node \ {Self}
    /\ MaxHopCount \in Nat
    /\ HopCounts \subseteq 0..MaxHopCount
    /\ SeqMax \in Nat
    /\ Seqs \subseteq 0..SeqMax
    /\ MaxSeqJump \in Nat
    /\ MaxIssued \in 0..SeqMax

VARIABLES
    routes,     \* RouteTable.routes: destination -> [next_hop, cost, seq]
    issued,     \* the announce task's seq, per honest node (serve.rs)
    offered     \* history: per route, the seq it was inserted with and the
                \* best authentic announcement since, taken or not

vars == <<routes, issued, offered>>

RouteEntry == [ next_hop : Node, cost : 1..MaxHopCount, seq : 0..SeqMax ]

(* A signature: the key it was made with and the (origin, hop_count, seq)  *)
(* it covers.  An honest node signs for itself, with hop_count 0 and the   *)
(* numbers it has reached (after a restart it counts from 0 and makes the  *)
(* same signatures again); a rogue one signs anything.  The numbering is   *)
(* the announce task's; the calls that sign the triple are not in the      *)
(* repository, only process_route_announce, which verifies it.             *)
Signature == [ by : Node, origin : Node, hop : HopCounts, seq : 0..SeqMax ]

Exists(sig) ==
    \/ sig.by \in Rogue
    \/ sig.origin = sig.by /\ sig.hop = 0 /\ sig.seq \in 1..issued[sig.by]

Signatures ==
    { sig \in [ by : Node, origin : Node, hop : HopCounts,
                seq : Seqs \union 1..MaxIssued ] : Exists(sig) }

(* The announcements those who relay a signature can make of it.           *)
Announcements(sig) ==
    [ origin : Node, key : Node, hop : HopCounts, seq : {sig.seq, SeqMax}, sig : {sig} ]

-----------------------------------------------------------------------------

TypeOK ==
    /\ DOMAIN routes \subseteq Node \ {Self}
    /\ routes \in [DOMAIN routes -> RouteEntry]
    /\ issued \in [Node -> 0..MaxIssued]
    /\ DOMAIN offered = DOMAIN routes

Init ==
    /\ routes = << >>
    /\ issued = [ n \in Node |-> 0 ]
    /\ offered = << >>

(* The announce task of another node: its next number (serve.rs).          *)
Announce(n) ==
    /\ issued[n] < MaxIssued
    /\ issued' = [ issued EXCEPT ![n] = @ + 1 ]
    /\ UNCHANGED <<routes, offered>>

Better(new, old) ==
    new.seq > old.seq \/ (new.seq = old.seq /\ new.cost < old.cost)

(* update's early return.  The sum is a u64 and wraps in a release build;  *)
(* in a debug build the call panics there and the table stays as it is.    *)
Suspicious(new, old) ==
    /\ new.seq > (old.seq + MaxSeqJump) % (SeqMax + 1)
    /\ new.seq # SeqMax

(* Slips: a stale announcement of a cheaper route wins; the jump check     *)
(* refuses one number too many.                                            *)
SupersedesByCost(new, d) ==
    d \in DOMAIN routes =>
        ~Suspicious(new, routes[d]) /\ (Better(new, routes[d]) \/ new.cost < routes[d].cost)

SupersedesWithinJump(new, d) ==
    d \in DOMAIN routes =>
        new.seq < routes[d].seq + MaxSeqJump /\ Better(new, routes[d])

(* should_update.                                                          *)
Supersedes(new, d) ==
    d \in DOMAIN routes =>
        ~Suspicious(new, routes[d]) /\ Better(new, routes[d])

With(f, d, v) == [ x \in DOMAIN f \union {d} |-> IF x = d THEN v ELSE f[x] ]

(* History: the offer, if it is the best one since the route was inserted. *)
Noted(d, entry) ==
    LET offer == [ seq |-> entry.seq, cost |-> entry.cost ] IN
    IF d \notin DOMAIN offered
      THEN With(offered, d, [ first |-> entry.seq, top |-> offer ])
      ELSE IF Better(offer, offered[d].top)
             THEN With(offered, d, [ offered[d] EXCEPT !.top = offer ])
             ELSE offered

(* RouteTable::update.                                                     *)
Update(d, entry) ==
    /\ routes' = IF Supersedes(entry, d) THEN With(routes, d, entry) ELSE routes
    /\ offered' = Noted(d, entry)

(* A slip: the key is taken from the announcement and never bound to the   *)
(* origin's id.                                                            *)
AuthenticForAnyKey(ann) ==
    ann.sig = [ by |-> ann.key, origin |-> ann.origin, hop |-> ann.hop, seq |-> ann.seq ]

(* The signature verifies under the key sent along, over exactly these     *)
(* fields, and the key hashes to the origin's id.                          *)
Authentic(ann) ==
    /\ ann.sig = [ by |-> ann.key, origin |-> ann.origin, hop |-> ann.hop, seq |-> ann.seq ]
    /\ ann.key = ann.origin

(* A slip: u8 addition past the largest hop count.                         *)
ProcessRouteAnnounceWraps(ann, via) ==
    /\ ann.origin # Self
    /\ Authentic(ann)
    /\ Update(ann.origin, [ next_hop |-> via, seq |-> ann.seq,
                            cost |-> (ann.hop + 1) % (MaxHopCount + 1) ])
    /\ UNCHANGED issued

(* process_route_announce, when no check returns early.                    *)
ProcessRouteAnnounce(ann, via) ==
    /\ ann.origin # Self
    /\ ann.hop < MaxHopCount
    /\ Authentic(ann)
    /\ Update(ann.origin,
              [ next_hop |-> via, cost |-> ann.hop + 1, seq |-> ann.seq ])
    /\ UNCHANGED issued

Retain(kept) ==
    /\ routes' = Restrict(routes, kept)
    /\ offered' = Restrict(offered, kept)
    /\ UNCHANGED issued

Remove(d) == Retain(DOMAIN routes \ {d})

RemoveRoutesVia(n) == Retain({ d \in DOMAIN routes : routes[d].next_hop # n })

Next ==
    \/ \E n \in Node \ (Rogue \union {Self}) : Announce(n)
    \/ \E sig \in Signatures, via \in Node \ {Self} :
          \E ann \in Announcements(sig) : ProcessRouteAnnounce(ann, via)
    \/ \E d \in DOMAIN routes : Remove(d)
    \/ \E n \in Node \ {Self} : RemoveRoutesVia(n)

Spec == Init /\ [][Next]_vars

-----------------------------------------------------------------------------

(* Every route was vouched for: its destination itself signed that number  *)
(* and that hop count, whoever relayed, altered or re-signed announcements *)
(* on the way (router.rs:160, 174), and nobody talks us into a route to    *)
(* ourselves.                                                              *)
RoutesAuthentic ==
    \A d \in DOMAIN routes :
        /\ d # Self
        /\ Exists([ by |-> d, origin |-> d,
                    hop |-> routes[d].cost - 1, seq |-> routes[d].seq ])

(* The order of arrival does not matter: as long as every announcement     *)
(* since a route was inserted is within MAX_SEQ_JUMP of the first, and the *)
(* sum in the check does not wrap, the route is the best of them all.      *)
BestOfferWins ==
    \A d \in DOMAIN routes :
        LET o == offered[d] IN
        (o.top.seq <= o.first + MaxSeqJump /\ o.top.seq + MaxSeqJump <= SeqMax)
            => routes[d].seq = o.top.seq /\ routes[d].cost = o.top.cost

(* While a destination stays in the table its entry only improves: a late  *)
(* or repeated announcement never brings back an older route.  And its seq *)
(* grows by at most MAX_SEQ_JUMP at a time, even where the sum in the      *)
(* check wraps, but for the one number the check lets through (router.rs:  *)
(* 47), against what it is for: SeqJumpsBounded.                           *)
NeverBackwards ==
    [][ \A d \in DOMAIN routes \intersect DOMAIN routes' :
            LET new == routes'[d]  old == routes[d] IN
            \/ new = old
            \/ /\ Better(new, old)
               /\ new.seq <= old.seq + MaxSeqJump \/ new.seq = SeqMax ]_routes

(* router.rs:13: no announcement moves a route's seq on by more than       *)
(* MAX_SEQ_JUMP, u64::MAX included.                                        *)
SeqJumpsBounded ==
    [][ \A d \in DOMAIN routes \intersect DOMAIN routes' :
            routes'[d].seq <= routes[d].seq + MaxSeqJump ]_routes

=============================================================================
