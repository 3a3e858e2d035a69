------------------------------- MODULE Router -------------------------------
(***************************************************************************)
(* Inbound routing of one node (Router::route_inbound, mesh/router.rs):    *)
(* the hop, ttl and freshness checks, the cache of seen envelope ids and   *)
(* its collection.  Each method holds the cache's write lock from its read *)
(* to its write, so each is one step.                                      *)
(*                                                                         *)
(* The wall clock (freshness) and the monotonic clock (cache ages) advance *)
(* together: the node's time is not set while it runs.                     *)
(***************************************************************************)
EXTENDS RouterRules

CONSTANTS
    Self,       \* our_id
    Made,       \* what each envelope says: ids are not shared by two envelopes
    HopFields,  \* hop fields a copy may arrive with
    MaxTime     \* bound: the clock stops here

ASSUME Inputs ==
    /\ Self \in Node
    /\ Made \in [Id -> Body]
    /\ \A i \in Id : Made[i].id = i
    /\ HopFields \subseteq Hop
    /\ MaxTime \in Nat

VARIABLES
    clock,      \* now, on both clocks
    seen,       \* RouteTable.seen_messages: id -> when it was recorded
    decision,   \* what the last route_inbound returned
    admitted    \* history: per id, its passes through the checks and the cache

vars == <<clock, seen, decision, admitted>>

(* The copy of envelope i that arrives with the hop fields h.              *)
Copy(i, h) == [ body |-> Made[i], hop |-> h, sig |-> None ]

Promise == INSTANCE ReplayFilter
    WITH Window <- SeenTtl, Stamp <- [ i \in Id |-> Made[i].ts ]

TypeOK ==
    /\ clock \in Nat
    /\ DOMAIN seen \subseteq Id
    /\ seen \in [DOMAIN seen -> 0..clock]
    /\ decision \in { "none", "deliver", "deliver_and_relay", "relay", "drop" }
    /\ admitted \in [Id -> Promise!History]

-----------------------------------------------------------------------------

Init ==
    /\ clock = 0
    /\ seen = << >>
    /\ decision = "none"
    /\ admitted = [ i \in Id |-> Promise!Never ]

Tick ==
    /\ clock < MaxTime
    /\ clock' = clock + 1
    /\ UNCHANGED <<seen, decision, admitted>>

(* Slips the properties below must catch: the id recorded before the       *)
(* checks, and the id recorded with the sender's timestamp.                *)
RouteInboundRecordsFirst(env) ==
    LET i == env.body.id  ok == Acceptable(env, clock) IN
    /\ IsNew(seen, i)
    /\ seen' = Recorded(seen, i, clock)
    /\ decision' = IF ok THEN Decision(Self, env) ELSE "drop"
    /\ admitted' = IF ok THEN [ admitted EXCEPT ![i] = Promise!Again(@, clock) ]
                          ELSE admitted
    /\ UNCHANGED clock

RouteInboundRecordsStamp(env) ==
    LET i == env.body.id IN
    /\ Acceptable(env, clock)
    /\ IsNew(seen, i)
    /\ seen' = Recorded(seen, i, env.body.ts)
    /\ decision' = Decision(Self, env)
    /\ admitted' = [ admitted EXCEPT ![i] = Promise!Again(@, clock) ]
    /\ UNCHANGED clock

(* route_inbound on an envelope that passes every check.                   *)
RouteInbound(env) ==
    LET i == env.body.id IN
    /\ Acceptable(env, clock)
    /\ IsNew(seen, i)
    /\ seen' = Recorded(seen, i, clock)
    /\ decision' = Decision(Self, env)
    /\ admitted' = [ admitted EXCEPT ![i] = Promise!Again(@, clock) ]
    /\ UNCHANGED clock

(* route_inbound on any other: it is dropped, and the cache stays.         *)
RouteInboundDrops(env) ==
    /\ ~Acceptable(env, clock) \/ ~IsNew(seen, env.body.id)
    /\ decision' = "drop"
    /\ UNCHANGED <<clock, seen, admitted>>

(* A slip: entries are dropped one unit before seen_ttl.                   *)
GcSeenTooEarly ==
    /\ seen' = Restrict(seen, { i \in DOMAIN seen : clock - seen[i] < SeenTtl - 1 })
    /\ UNCHANGED <<clock, decision, admitted>>

(* gc_seen.                                                                *)
GcSeen ==
    /\ seen' = Collected(seen, clock)
    /\ UNCHANGED <<clock, decision, admitted>>

Arrive ==
    \E i \in Id, h \in HopFields :
        \/ RouteInbound(Copy(i, h))
        \/ RouteInboundDrops(Copy(i, h))

Next == Tick \/ Arrive \/ GcSeen

Spec == Init /\ [][Next]_vars

-----------------------------------------------------------------------------

(* The cache agrees with what was admitted: it holds an id exactly with    *)
(* the time of its last admission, and it holds every id admitted less     *)
(* than seen_ttl ago.  So a copy refused for its hops or its age never     *)
(* hides a later good one (router.rs:119, "before polluting dedup cache"), *)
(* and no collection forgets an id too soon.                               *)
CacheIsTheHistory ==
    /\ \A i \in DOMAIN seen : admitted[i].n > 0 /\ seen[i] = admitted[i].last
    /\ \A i \in Id : admitted[i].n > 0 /\ clock - admitted[i].last < SeenTtl
                        => i \in DOMAIN seen

(* However often an envelope is repeated to the node, however its copies   *)
(* and the collections interleave, the number of times it passes is        *)
(* bounded by how many times seen_ttl fits into its window of freshness.   *)
ReplayBound ==
    \A i \in Id : admitted[i].n > 0
        => (admitted[i].n - 1) * SeenTtl <= MaxAge + MaxSkew

(* The node implements the abstract replay filter: every admission is of a *)
(* fresh envelope and comes at least seen_ttl after the one before it.     *)
ImplementsReplayFilter == Promise!Spec

(* What router.rs:123 and envelope.rs:294 promise of a fresh envelope: a   *)
(* copy of one that was already routed is not routed again.                *)
NeverReplayed == \A i \in Id : admitted[i].n <= 1

=============================================================================
