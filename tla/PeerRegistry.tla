---------------------------- MODULE PeerRegistry ----------------------------
(***************************************************************************)
(* The peer registry (mesh/peer.rs) under concurrent callers.  observe     *)
(* reads the clock, takes the lock on observe_times, reads the clock       *)
(* again, and only then takes the lock on peers: other calls run in        *)
(* between.  Every other method is one critical section on peers.          *)
(* rssi and last_transport are overwritten by each observation and read by *)
(* nobody; they are left out.                                              *)
(***************************************************************************)
EXTENDS Integers, FiniteSets, Functions

CONSTANTS
    Peer,               \* identity ids
    Task,               \* concurrent callers of observe
    RateLimit,          \* at most one observation of a peer in this long
    StaleThreshold,     \* stale_threshold
    OfflineThreshold,   \* offline_threshold
    MaxPeers,           \* max_peers
    MaxTime             \* bound: the clock stops here

ASSUME RegistryConstants ==
    /\ {RateLimit, StaleThreshold, OfflineThreshold, MaxPeers, MaxTime} \subseteq Nat
    /\ StaleThreshold <= OfflineThreshold

VARIABLES
    clock,          \* now, on both clocks
    peers,          \* PeerRegistry.peers: id -> [last_seen, state, verified]
    observe_times,  \* PeerRegistry.observe_times: id -> instant
    calls,          \* observe calls in progress: task -> [pc, peer, now]
    blocked         \* history: peers blocked and not unblocked since

vars == <<clock, peers, observe_times, calls, blocked>>

PeerState == { "online", "stale", "offline", "blocked" }

PeerRecord == [ last_seen : Nat, state : PeerState, verified : BOOLEAN ]

Call == [ pc : { "rate", "apply" }, peer : Peer, now : Nat ]

TypeOK ==
    /\ clock \in Nat
    /\ DOMAIN peers \subseteq Peer
    /\ peers \in [DOMAIN peers -> PeerRecord]
    /\ DOMAIN observe_times \subseteq Peer
    /\ observe_times \in [DOMAIN observe_times -> 0..clock]
    /\ DOMAIN calls \subseteq Task
    /\ calls \in [DOMAIN calls -> Call]
    /\ \A t \in DOMAIN calls : calls[t].now <= clock
    /\ \A p \in DOMAIN peers : peers[p].last_seen <= clock
    /\ blocked \subseteq Peer

Init ==
    /\ clock = 0
    /\ peers = << >>
    /\ observe_times = << >>
    /\ calls = << >>
    /\ blocked = {}

Tick ==
    /\ clock < MaxTime
    /\ clock' = clock + 1
    /\ UNCHANGED <<peers, observe_times, calls, blocked>>

With(f, x, v) == [ y \in DOMAIN f \union {x} |-> IF y = x THEN v ELSE f[y] ]

Without(f, x) == Restrict(f, DOMAIN f \ {x})

-----------------------------------------------------------------------------
(* observe, in three steps.                                                *)

(* The call begins: Instant::now(), before any lock.                       *)
ObserveStart(t, p) ==
    /\ t \notin DOMAIN calls
    /\ calls' = With(calls, t, [ pc |-> "rate", peer |-> p, now |-> clock ])
    /\ UNCHANGED <<clock, peers, observe_times, blocked>>

(* A slip: an instant read before the recorded one passes.                 *)
TooSoonSinceOnly(c) ==
    /\ c.peer \in DOMAIN observe_times
    /\ c.now \in observe_times[c.peer]..(observe_times[c.peer] + RateLimit - 1)

(* duration_since is zero for an instant before the recorded one.          *)
TooSoon(c) ==
    /\ c.peer \in DOMAIN observe_times
    /\ c.now - observe_times[c.peer] < RateLimit

(* A slip: the limiter keeps the instant at which the next call may pass.  *)
ObserveRateRecordsNext(t) ==
    /\ t \in DOMAIN calls
    /\ calls[t].pc = "rate"
    /\ IF TooSoon(calls[t])
         THEN /\ calls' = Without(calls, t)
              /\ UNCHANGED observe_times
         ELSE /\ observe_times' = With(observe_times, calls[t].peer, calls[t].now + RateLimit)
              /\ calls' = [ calls EXCEPT ![t] = [ @ EXCEPT !.pc = "apply", !.now = clock ] ]
    /\ UNCHANGED <<clock, peers, blocked>>

(* The critical section on observe_times, and the second clock reading.    *)
ObserveRate(t) ==
    /\ t \in DOMAIN calls
    /\ calls[t].pc = "rate"
    /\ IF TooSoon(calls[t])
         THEN /\ calls' = Without(calls, t)
              /\ UNCHANGED observe_times
         ELSE /\ observe_times' = With(observe_times, calls[t].peer, calls[t].now)
              /\ calls' = [ calls EXCEPT ![t] = [ @ EXCEPT !.pc = "apply", !.now = clock ] ]
    /\ UNCHANGED <<clock, peers, blocked>>

IsBlocked(p) == p \in DOMAIN peers /\ peers[p].state = "blocked"

(* Slips: any offline peer is evicted; a blocked one may be.               *)
EvictableAny == { p \in DOMAIN peers : peers[p].state = "offline" }

EvictableOldest ==
    { p \in DOMAIN peers : \A q \in DOMAIN peers : peers[p].last_seen <= peers[q].last_seen }

(* The offline peers seen longest ago: min_by_key takes one of them.       *)
Evictable ==
    LET offline == { p \in DOMAIN peers : peers[p].state = "offline" } IN
    { p \in offline : \A q \in offline : peers[p].last_seen <= peers[q].last_seen }

(* The entry after an observation: a new one is unverified.                *)
Observed(known, p, at) ==
    [ last_seen |-> at, state |-> "online",
      verified |-> IF p \in DOMAIN known THEN known[p].verified ELSE FALSE ]

(* A slip: the peer is known, so it goes online, blocked or not.           *)
AppliedUnblocking(p, at) ==
    IF p \in DOMAIN peers \/ Cardinality(DOMAIN peers) < MaxPeers
      THEN { With(peers, p, Observed(peers, p, at)) }
      ELSE { With(Without(peers, q), p, Observed(Without(peers, q), p, at)) : q \in Evictable }

(* A slip: the registry is full only beyond max_peers.                     *)
AppliedOverCap(p, at) ==
    IF IsBlocked(p) THEN {}
    ELSE IF p \in DOMAIN peers \/ Cardinality(DOMAIN peers) <= MaxPeers
      THEN { With(peers, p, Observed(peers, p, at)) }
      ELSE { With(Without(peers, q), p, Observed(Without(peers, q), p, at)) : q \in Evictable }

(* What peers may become when p is applied, observed at the given time;    *)
(* nothing if p is blocked, or new to a full registry that can evict none. *)
Applied(p, at) ==
    IF IsBlocked(p) THEN {}
    ELSE IF p \in DOMAIN peers \/ Cardinality(DOMAIN peers) < MaxPeers
      THEN { With(peers, p, Observed(peers, p, at)) }
      ELSE { With(Without(peers, q), p, Observed(Without(peers, q), p, at)) : q \in Evictable }

(* The critical section on peers.                                          *)
ObserveApply(t) ==
    /\ t \in DOMAIN calls
    /\ calls[t].pc = "apply"
    /\ LET outcomes == Applied(calls[t].peer, calls[t].now) IN
       IF outcomes = {} THEN UNCHANGED peers ELSE peers' \in outcomes
    /\ calls' = Without(calls, t)
    /\ UNCHANGED <<clock, observe_times, blocked>>

-----------------------------------------------------------------------------

MarkVerified(p) ==
    /\ p \in DOMAIN peers
    /\ peers' = [ peers EXCEPT ![p].verified = TRUE ]
    /\ UNCHANGED <<clock, observe_times, calls, blocked>>

(* block: a peer that is not registered is left unblocked.                 *)
Block(p) ==
    /\ p \in DOMAIN peers
    /\ peers' = [ peers EXCEPT ![p].state = "blocked" ]
    /\ blocked' = blocked \union {p}
    /\ UNCHANGED <<clock, observe_times, calls>>

Unblock(p) ==
    /\ IsBlocked(p)
    /\ peers' = [ peers EXCEPT ![p].state = "offline" ]
    /\ blocked' = blocked \ {p}
    /\ UNCHANGED <<clock, observe_times, calls>>

Age(p) == clock - peers[p].last_seen

(* A slip: the age decides, blocked or not.                                *)
RefreshedAll(p) ==
    CASE Age(p) > OfflineThreshold -> "offline"
      [] Age(p) \in (StaleThreshold + 1)..OfflineThreshold -> "stale"
      [] OTHER -> "online"

Refreshed(p) ==
    CASE IsBlocked(p) -> "blocked"
      [] ~IsBlocked(p) /\ Age(p) > OfflineThreshold -> "offline"
      [] ~IsBlocked(p) /\ Age(p) \in (StaleThreshold + 1)..OfflineThreshold -> "stale"
      [] OTHER -> "online"

RefreshStates ==
    /\ peers' = [ p \in DOMAIN peers |-> [ peers[p] EXCEPT !.state = Refreshed(p) ] ]
    /\ UNCHANGED <<clock, observe_times, calls, blocked>>

Next ==
    \/ Tick
    \/ \E t \in Task, p \in Peer : ObserveStart(t, p)
    \/ \E t \in Task : ObserveRate(t) \/ ObserveApply(t)
    \/ \E p \in Peer : MarkVerified(p) \/ Block(p) \/ Unblock(p)
    \/ RefreshStates

Spec == Init /\ [][Next]_vars

-----------------------------------------------------------------------------

(* neighbor_ids.                                                           *)
NeighborIds == { p \in DOMAIN peers : peers[p].state = "online" }

(* A blocked peer stays registered and blocked until it is unblocked:      *)
(* observations that were under way when it was blocked, refreshes and     *)
(* evictions for new peers do not set it free (peer.rs:85), and it is not  *)
(* among the neighbours that forward_targets is given.  (serve sends to    *)
(* every transport whatever forward_targets returns.)                      *)
BlockedUntilUnblocked ==
    /\ \A p \in blocked : IsBlocked(p)
    /\ NeighborIds \intersect blocked = {}

(* However many observations run at once, the registry stays in its bound. *)
WithinMaxPeers == Cardinality(DOMAIN peers) <= MaxPeers

(* A peer is forgotten only to make room for another in a full registry,   *)
(* and only an offline one that no offline peer was seen before.           *)
ForgottenOnlyWhenOffline ==
    [][ \A p \in DOMAIN peers \ DOMAIN peers' :
          /\ Cardinality(DOMAIN peers) = MaxPeers
          /\ DOMAIN peers' \ DOMAIN peers # {}
          /\ peers[p].state = "offline"
          /\ \A q \in DOMAIN peers :
                peers[q].state = "offline" => peers[p].last_seen <= peers[q].last_seen ]_peers

(* Two observations of a peer that pass the rate limit were begun at least *)
(* RateLimit apart, in whichever order their callers got the lock.         *)
ObservationsSpaced ==
    [][ \A p \in DOMAIN observe_times :
          observe_times'[p] = observe_times[p]
            \/ observe_times'[p] >= observe_times[p] + RateLimit ]_observe_times

=============================================================================
