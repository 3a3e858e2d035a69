------------------------------ MODULE MCRouter ------------------------------
(***************************************************************************)
(* One node, two envelopes.  One unit of time is a minute: the cache       *)
(* forgets after 5, an envelope is fresh for 10 and up to 1 early.         *)
(***************************************************************************)
EXTENDS Router

CONSTANTS us, them, e1, e2

MCMade == [ i \in {e1, e2} |->
    IF i = e1 THEN BroadcastText(e1, them, 2, 1).body
              ELSE DirectText(e2, them, them, 2, 4).body ]

(* In bounds, at the last hop, out of ttl, and beyond max_hops.            *)
MCHopFields == { [ ttl |-> 2, hops |-> 1 ], [ ttl |-> 1, hops |-> 2 ],
                 [ ttl |-> 0, hops |-> 2 ], [ ttl |-> 1, hops |-> 3 ] }

=============================================================================
