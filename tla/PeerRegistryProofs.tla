------------------------- MODULE PeerRegistryProofs -------------------------
(***************************************************************************)
(* PeerRegistry.tla for every number of peers, callers and places, and     *)
(* every choice of thresholds: blocking lasts until unblock, admitted      *)
(* observations are spaced, the cap holds, and eviction is fair.           *)
(***************************************************************************)
EXTENDS PeerRegistry, FiniteSetTheorems, TLAPS

(* A step of Next is one of these.                                         *)
LEMMA StepCases ==
    ASSUME [Next]_vars,
           NEW P,
           Tick => P,
           \A t \in Task, p \in Peer : ObserveStart(t, p) => P,
           \A t \in Task : ObserveRate(t) => P,
           \A t \in Task : ObserveApply(t) => P,
           \A p \in Peer : MarkVerified(p) => P,
           \A p \in Peer : Block(p) => P,
           \A p \in Peer : Unblock(p) => P,
           RefreshStates => P,
           UNCHANGED vars => P
    PROVE  P
BY DEF Next

(* Whatever an observation makes of the registry, it is a registry, and it *)
(* was seen no later than now; a blocked peer is in it as before.          *)
LEMMA AppliedKeeps ==
    ASSUME TypeOK, NEW p \in Peer, NEW at \in Nat, at <= clock,
           NEW known \in Applied(p, at)
    PROVE  /\ DOMAIN known \subseteq Peer
           /\ known \in [DOMAIN known -> PeerRecord]
           /\ \A q \in DOMAIN known : known[q].last_seen <= clock
           /\ \A q \in Peer : IsBlocked(q) => q \in DOMAIN known /\ known[q] = peers[q]
<1>1. ~IsBlocked(p)
  BY DEF Applied
<1>2. ASSUME NEW old, DOMAIN old \subseteq DOMAIN peers,
             \A q \in DOMAIN old : old[q] = peers[q],
             \A q \in Peer : IsBlocked(q) => q \in DOMAIN old,
             known = With(old, p, Observed(old, p, at))
      PROVE  /\ DOMAIN known \subseteq Peer
             /\ known \in [DOMAIN known -> PeerRecord]
             /\ \A q \in DOMAIN known : known[q].last_seen <= clock
             /\ \A q \in Peer : IsBlocked(q) => q \in DOMAIN known /\ known[q] = peers[q]
  <2>1. Observed(old, p, at) \in PeerRecord /\ Observed(old, p, at).last_seen = at
    BY <1>2 DEF Observed, TypeOK, PeerRecord, PeerState
  <2>2. /\ DOMAIN known = DOMAIN old \union {p}
        /\ known[p] = Observed(old, p, at)
        /\ \A q \in DOMAIN old : q # p => known[q] = peers[q]
        /\ known = [ q \in DOMAIN known |-> known[q] ]
    BY <1>2 DEF With
  <2> QED
    BY <1>1, <1>2, <2>1, <2>2 DEF TypeOK
<1>3. CASE p \in DOMAIN peers \/ Cardinality(DOMAIN peers) < MaxPeers
  <2>1. known = With(peers, p, Observed(peers, p, at))
    BY <1>1, <1>3 DEF Applied
  <2> QED
    BY <1>2, <2>1 DEF IsBlocked
<1>4. CASE ~(p \in DOMAIN peers \/ Cardinality(DOMAIN peers) < MaxPeers)
  <2>1. PICK q \in Evictable :
            known = With(Without(peers, q), p, Observed(Without(peers, q), p, at))
    BY <1>1, <1>4 DEF Applied
  <2>2. ~IsBlocked(q)
    BY DEF Evictable, IsBlocked
  <2>3. /\ DOMAIN Without(peers, q) = DOMAIN peers \ {q}
        /\ \A r \in DOMAIN Without(peers, q) : Without(peers, q)[r] = peers[r]
    BY DEF Without, Restrict
  <2> QED
    BY <1>2, <2>1, <2>2, <2>3 DEF IsBlocked
<1> QED
  BY <1>3, <1>4

(* Every reachable state has its type.                                     *)
THEOREM TypeCorrect == Spec => []TypeOK
<1>1. Init => TypeOK
  BY DEF Init, TypeOK
<1>2. TypeOK /\ [Next]_vars => TypeOK'
  <2> SUFFICES ASSUME TypeOK, [Next]_vars PROVE TypeOK'
    OBVIOUS
  <2>1. ASSUME Tick PROVE TypeOK'
    <3>1. clock' \in Nat /\ clock < clock'
      BY <2>1 DEF Tick, TypeOK
    <3>2. 0..clock \subseteq 0..clock'
      BY <3>1 DEF TypeOK
    <3>3. observe_times \in [DOMAIN observe_times -> 0..clock']
      BY <3>2 DEF TypeOK
    <3>4. \A p \in DOMAIN peers : peers[p].last_seen <= clock'
      BY <3>1 DEF TypeOK, PeerRecord
    <3>5. \A t \in DOMAIN calls : calls[t].now <= clock'
      BY <3>1 DEF TypeOK, Call
    <3> QED
      BY <2>1, <3>1, <3>3, <3>4, <3>5 DEF Tick, TypeOK
  <2>2. ASSUME NEW t \in Task, NEW p \in Peer, ObserveStart(t, p) PROVE TypeOK'
    <3>1. [ pc |-> "rate", peer |-> p, now |-> clock ] \in Call
      BY DEF TypeOK, Call
    <3> QED
      BY <2>2, <3>1 DEF ObserveStart, TypeOK, With
  <2>3. ASSUME NEW t \in Task, ObserveRate(t) PROVE TypeOK'
    <3>1. calls[t] \in Call /\ calls[t].now <= clock
      BY <2>3 DEF ObserveRate, TypeOK
    <3>2. CASE TooSoon(calls[t])
      BY <2>3, <3>2 DEF ObserveRate, TypeOK, Without, Restrict
    <3>3. CASE ~TooSoon(calls[t])
      <4>1. [ calls[t] EXCEPT !.pc = "apply", !.now = clock ] \in Call
        BY <3>1 DEF TypeOK, Call
      <4>2. /\ observe_times' = With(observe_times, calls[t].peer, calls[t].now)
            /\ calls' = [ calls EXCEPT ![t] = [ @ EXCEPT !.pc = "apply", !.now = clock ] ]
            /\ UNCHANGED <<clock, peers, blocked>>
        BY <2>3, <3>3 DEF ObserveRate
      <4>3. /\ DOMAIN calls' = DOMAIN calls /\ calls' \in [DOMAIN calls' -> Call]
            /\ \A u \in DOMAIN calls' : calls'[u].now <= clock
        BY <2>3, <4>1, <4>2 DEF ObserveRate, TypeOK, Call
      <4>4. /\ DOMAIN observe_times' \subseteq Peer
            /\ observe_times' \in [DOMAIN observe_times' -> 0..clock]
        BY <3>1, <4>2 DEF TypeOK, With, Call
      <4> QED
        BY <4>2, <4>3, <4>4 DEF TypeOK
    <3> QED
      BY <3>2, <3>3
  <2>4. ASSUME NEW t \in Task, ObserveApply(t) PROVE TypeOK'
    <3>1. calls[t].peer \in Peer /\ calls[t].now \in Nat /\ calls[t].now <= clock
      BY <2>4 DEF ObserveApply, TypeOK, Call
    <3>2. /\ calls' = Without(calls, t)
          /\ peers' = peers \/ peers' \in Applied(calls[t].peer, calls[t].now)
          /\ UNCHANGED <<clock, observe_times, blocked>>
      BY <2>4 DEF ObserveApply
    <3>3. /\ DOMAIN peers' \subseteq Peer /\ peers' \in [DOMAIN peers' -> PeerRecord]
          /\ \A q \in DOMAIN peers' : peers'[q].last_seen <= clock
      BY <3>1, <3>2, AppliedKeeps DEF TypeOK
    <3>4. /\ DOMAIN calls' \subseteq Task /\ calls' \in [DOMAIN calls' -> Call]
          /\ \A u \in DOMAIN calls' : calls'[u].now <= clock
      BY <3>2 DEF TypeOK, Without, Restrict
    <3> QED
      BY <3>2, <3>3, <3>4 DEF TypeOK
  <2>5. ASSUME NEW p \in Peer, MarkVerified(p) PROVE TypeOK'
    BY <2>5 DEF MarkVerified, TypeOK, PeerRecord
  <2>6. ASSUME NEW p \in Peer, Block(p) PROVE TypeOK'
    BY <2>6 DEF Block, TypeOK, PeerRecord, PeerState
  <2>7. ASSUME NEW p \in Peer, Unblock(p) PROVE TypeOK'
    BY <2>7 DEF Unblock, IsBlocked, TypeOK, PeerRecord, PeerState
  <2>8. ASSUME RefreshStates PROVE TypeOK'
    <3>1. \A p \in DOMAIN peers : Refreshed(p) \in PeerState
      BY DEF Refreshed, PeerState
    <3> QED
      BY <2>8, <3>1 DEF RefreshStates, TypeOK, PeerRecord
  <2>9. ASSUME UNCHANGED vars PROVE TypeOK'
    BY <2>9 DEF vars, TypeOK
  <2> QED
    BY <2>1, <2>2, <2>3, <2>4, <2>5, <2>6, <2>7, <2>8, <2>9, StepCases
<1> QED
  BY <1>1, <1>2, PTL DEF Spec

(* A peer that is blocked stays registered, blocked and out of the         *)
(* neighbours until it is unblocked, in every reachable state.             *)
THEOREM BlockingLasts == Spec => []BlockedUntilUnblocked
<1> DEFINE Held == \A p \in blocked : IsBlocked(p)
<1>1. Init => Held
  BY DEF Init
<1>2. TypeOK /\ Held /\ [Next]_vars => Held'
  <2> SUFFICES ASSUME TypeOK, Held, [Next]_vars PROVE Held'
    OBVIOUS
  <2>1. ASSUME Tick PROVE Held'
    BY <2>1 DEF Tick, IsBlocked
  <2>2. ASSUME NEW t \in Task, NEW p \in Peer, ObserveStart(t, p) PROVE Held'
    BY <2>2 DEF ObserveStart, IsBlocked
  <2>3. ASSUME NEW t \in Task, ObserveRate(t) PROVE Held'
    BY <2>3 DEF ObserveRate, IsBlocked
  <2>4. ASSUME NEW t \in Task, ObserveApply(t) PROVE Held'
    <3>1. calls[t].peer \in Peer /\ calls[t].now \in Nat /\ calls[t].now <= clock
      BY <2>4 DEF ObserveApply, TypeOK, Call
    <3>2. /\ peers' = peers \/ peers' \in Applied(calls[t].peer, calls[t].now)
          /\ blocked' = blocked
      BY <2>4 DEF ObserveApply
    <3>3. \A q \in Peer : IsBlocked(q) => q \in DOMAIN peers' /\ peers'[q] = peers[q]
      BY <3>1, <3>2, AppliedKeeps DEF IsBlocked
    <3> QED
      BY <3>2, <3>3 DEF IsBlocked, TypeOK
  <2>5. ASSUME NEW p \in Peer, MarkVerified(p) PROVE Held'
    BY <2>5 DEF MarkVerified, IsBlocked, TypeOK, PeerRecord
  <2>6. ASSUME NEW p \in Peer, Block(p) PROVE Held'
    BY <2>6 DEF Block, IsBlocked, TypeOK, PeerRecord
  <2>7. ASSUME NEW p \in Peer, Unblock(p) PROVE Held'
    BY <2>7 DEF Unblock, IsBlocked, TypeOK, PeerRecord
  <2>8. ASSUME RefreshStates PROVE Held'
    <3>1. \A p \in blocked : Refreshed(p) = "blocked"
      BY DEF Refreshed
    <3> QED
      BY <2>8, <3>1 DEF RefreshStates, IsBlocked, TypeOK, PeerRecord
  <2>9. ASSUME UNCHANGED vars PROVE Held'
    BY <2>9 DEF vars, IsBlocked
  <2> QED
    BY <2>1, <2>2, <2>3, <2>4, <2>5, <2>6, <2>7, <2>8, <2>9, StepCases
<1>3. Held => BlockedUntilUnblocked
  BY DEF BlockedUntilUnblocked, NeighborIds, IsBlocked
<1> QED
  BY <1>1, <1>2, <1>3, TypeCorrect, PTL DEF Spec

(* Observations of a peer that pass the rate limit are RateLimit apart, in *)
(* every behaviour and whatever the order of the locks.                    *)
THEOREM ObservationsAreSpaced == Spec => ObservationsSpaced
<1> DEFINE Spaced ==
        \A p \in DOMAIN observe_times :
            observe_times'[p] = observe_times[p]
              \/ observe_times'[p] >= observe_times[p] + RateLimit
<1>1. TypeOK /\ [Next]_vars => [Spaced]_observe_times
  <2> SUFFICES ASSUME TypeOK, [Next]_vars, observe_times' # observe_times PROVE Spaced
    OBVIOUS
  <2>1. PICK t \in Task : ObserveRate(t)
    BY DEF Next, vars, Tick, ObserveStart, ObserveApply, MarkVerified, Block, Unblock, RefreshStates
  <2>2. /\ ~TooSoon(calls[t])
        /\ observe_times' = With(observe_times, calls[t].peer, calls[t].now)
    BY <2>1 DEF ObserveRate
  <2>3. calls[t] \in Call
    BY <2>1 DEF ObserveRate, TypeOK
  <2> QED
    BY <2>2, <2>3, RegistryConstants DEF TooSoon, With, TypeOK, Call
<1> QED
  BY <1>1, TypeCorrect, PTL DEF Spec, ObservationsSpaced

-----------------------------------------------------------------------------

(* An observation adds its peer to a registry with room, changes the entry *)
(* of one that is known, or takes the place of one that may be evicted.    *)
LEMMA AppliedDomain ==
    ASSUME NEW p \in Peer, NEW at, NEW known \in Applied(p, at)
    PROVE  \/ DOMAIN known = DOMAIN peers /\ p \in DOMAIN peers
           \/ DOMAIN known = DOMAIN peers \union {p} /\ Cardinality(DOMAIN peers) < MaxPeers
           \/ /\ p \notin DOMAIN peers /\ ~(Cardinality(DOMAIN peers) < MaxPeers)
              /\ \E q \in Evictable : DOMAIN known = (DOMAIN peers \ {q}) \union {p}
<1>1. CASE p \in DOMAIN peers \/ Cardinality(DOMAIN peers) < MaxPeers
  <2>1. known = With(peers, p, Observed(peers, p, at))
    BY <1>1 DEF Applied
  <2>2. DOMAIN known = DOMAIN peers \union {p}
    BY <2>1 DEF With
  <2> QED
    BY <1>1, <2>2
<1>2. CASE ~(p \in DOMAIN peers \/ Cardinality(DOMAIN peers) < MaxPeers)
  <2>1. PICK q \in Evictable :
            known = With(Without(peers, q), p, Observed(Without(peers, q), p, at))
    BY <1>2 DEF Applied
  <2>2. DOMAIN known = (DOMAIN peers \ {q}) \union {p}
    BY <2>1 DEF With, Without, Restrict
  <2> QED
    BY <1>2, <2>2
<1> QED
  BY <1>1, <1>2

(* What a step does to who is registered: nothing, or what an observation  *)
(* does.                                                                   *)
LEMMA RegistryStep ==
    ASSUME TypeOK, [Next]_vars, DOMAIN peers' # DOMAIN peers
    PROVE  \E p \in Peer :
             /\ p \notin DOMAIN peers
             /\ \/ DOMAIN peers' = DOMAIN peers \union {p} /\ Cardinality(DOMAIN peers) < MaxPeers
                \/ /\ ~(Cardinality(DOMAIN peers) < MaxPeers)
                   /\ \E q \in Evictable : DOMAIN peers' = (DOMAIN peers \ {q}) \union {p}
<1>1. PICK t \in Task : ObserveApply(t)
  BY DEF Next, vars, TypeOK, Tick, ObserveStart, ObserveRate, MarkVerified, Block, Unblock, RefreshStates
<1>2. peers' \in Applied(calls[t].peer, calls[t].now)
  BY <1>1 DEF ObserveApply
<1>3. calls[t].peer \in Peer
  BY <1>1 DEF ObserveApply, TypeOK, Call
<1> DEFINE p == calls[t].peer
<1>4. \/ DOMAIN peers' = DOMAIN peers /\ p \in DOMAIN peers
      \/ DOMAIN peers' = DOMAIN peers \union {p} /\ Cardinality(DOMAIN peers) < MaxPeers
      \/ /\ p \notin DOMAIN peers /\ ~(Cardinality(DOMAIN peers) < MaxPeers)
         /\ \E q \in Evictable : DOMAIN peers' = (DOMAIN peers \ {q}) \union {p}
  BY <1>2, <1>3, AppliedDomain
<1> QED
  BY <1>3, <1>4

(* The registry is a finite set, within its bound: Cardinality says        *)
(* nothing of a set that is not finite.                                    *)
Bounded == IsFiniteSet(DOMAIN peers) /\ WithinMaxPeers

(* In every reachable state it is one.                                     *)
LEMMA BoundedHolds == Spec => []Bounded
<1>1. Init => Bounded
  <2> SUFFICES ASSUME Init PROVE Bounded
    OBVIOUS
  <2>1. DOMAIN peers = {}
    BY DEF Init
  <2> QED
    BY <2>1, FS_EmptySet, RegistryConstants DEF Bounded, WithinMaxPeers
<1>2. TypeOK /\ Bounded /\ [Next]_vars => Bounded'
  <2> SUFFICES ASSUME TypeOK, Bounded, [Next]_vars PROVE Bounded'
    OBVIOUS
  <2>1. CASE DOMAIN peers' = DOMAIN peers
    BY <2>1 DEF Bounded, WithinMaxPeers
  <2>2. CASE DOMAIN peers' # DOMAIN peers
    <3> DEFINE S == DOMAIN peers
    <3>1. IsFiniteSet(S) /\ Cardinality(S) \in Nat /\ Cardinality(S) <= MaxPeers
      BY FS_CardinalityType DEF Bounded, WithinMaxPeers
    <3>2. PICK p \in Peer :
             /\ p \notin S
             /\ \/ DOMAIN peers' = S \union {p} /\ Cardinality(S) < MaxPeers
                \/ /\ ~(Cardinality(S) < MaxPeers)
                   /\ \E q \in Evictable : DOMAIN peers' = (S \ {q}) \union {p}
      BY <2>2, RegistryStep
    <3>3. CASE DOMAIN peers' = S \union {p} /\ Cardinality(S) < MaxPeers
      <4>1. IsFiniteSet(S \union {p}) /\ Cardinality(S \union {p}) = Cardinality(S) + 1
        BY <3>1, <3>2, FS_AddElement
      <4> QED
        BY <3>1, <3>3, <4>1, RegistryConstants DEF Bounded, WithinMaxPeers
    <3>4. ASSUME NEW q \in Evictable, DOMAIN peers' = (S \ {q}) \union {p} PROVE Bounded'
      <4>1. q \in S
        BY DEF Evictable
      <4>2. IsFiniteSet(S \ {q}) /\ Cardinality(S \ {q}) = Cardinality(S) - 1
        BY <3>1, <4>1, FS_RemoveElement
      <4>3. p \notin S \ {q}
        BY <3>2
      <4>4. /\ IsFiniteSet((S \ {q}) \union {p})
            /\ Cardinality((S \ {q}) \union {p}) = Cardinality(S \ {q}) + 1
        BY <4>2, <4>3, FS_AddElement
      <4> QED
        BY <3>1, <3>4, <4>2, <4>4 DEF Bounded, WithinMaxPeers
    <3> QED
      BY <3>2, <3>3, <3>4
  <2> QED
    BY <2>1, <2>2
<1> QED
  BY <1>1, <1>2, TypeCorrect, PTL DEF Spec

(* However many observations are under way, the registry never has more    *)
(* than max_peers entries.                                                 *)
THEOREM RegistryBounded == Spec => []WithinMaxPeers
<1>1. Bounded => WithinMaxPeers
  BY DEF Bounded
<1> QED
  BY <1>1, BoundedHolds, PTL

(* In every step, a peer that is forgotten makes room for a new one in a   *)
(* full registry, was offline, and was seen before the other offline ones. *)
THEOREM EvictionIsFair == Spec => ForgottenOnlyWhenOffline
<1> DEFINE Fair ==
        \A p \in DOMAIN peers \ DOMAIN peers' :
          /\ Cardinality(DOMAIN peers) = MaxPeers
          /\ DOMAIN peers' \ DOMAIN peers # {}
          /\ peers[p].state = "offline"
          /\ \A q \in DOMAIN peers :
                peers[q].state = "offline" => peers[p].last_seen <= peers[q].last_seen
<1>1. TypeOK /\ Bounded /\ [Next]_vars => [Fair]_peers
  <2> SUFFICES ASSUME TypeOK, Bounded, [Next]_vars,
                      NEW p \in DOMAIN peers \ DOMAIN peers'
               PROVE  /\ Cardinality(DOMAIN peers) = MaxPeers
                      /\ DOMAIN peers' \ DOMAIN peers # {}
                      /\ peers[p].state = "offline"
                      /\ \A q \in DOMAIN peers :
                            peers[q].state = "offline" => peers[p].last_seen <= peers[q].last_seen
    OBVIOUS
  <2>1. PICK new \in Peer :
             /\ new \notin DOMAIN peers
             /\ ~(Cardinality(DOMAIN peers) < MaxPeers)
             /\ \E q \in Evictable : DOMAIN peers' = (DOMAIN peers \ {q}) \union {new}
    BY RegistryStep
  <2>2. p \in Evictable /\ new \in DOMAIN peers' \ DOMAIN peers
    BY <2>1
  <2>3. Cardinality(DOMAIN peers) = MaxPeers
    BY <2>1, FS_CardinalityType, RegistryConstants DEF Bounded, WithinMaxPeers
  <2> QED
    BY <2>2, <2>3 DEF Evictable
<1> QED
  BY <1>1, TypeCorrect, BoundedHolds, PTL DEF Spec, ForgottenOnlyWhenOffline

=============================================================================
