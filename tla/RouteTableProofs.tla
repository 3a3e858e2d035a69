-------------------------- MODULE RouteTableProofs --------------------------
(***************************************************************************)
(* RouteTable.tla for every set of nodes and rogues, every range of        *)
(* sequence numbers and every jump: routes are vouched for, entries only   *)
(* improve, and the best offer wins.                                       *)
(***************************************************************************)
EXTENDS RouteTable, TLAPS

(* A step of Next is one of these.                                         *)
LEMMA StepCases ==
    ASSUME [Next]_vars,
           NEW P,
           \A n \in Node \ (Rogue \union {Self}) : Announce(n) => P,
           \A sig \in Signatures, via \in Node \ {Self} :
               \A ann \in Announcements(sig) : ProcessRouteAnnounce(ann, via) => P,
           \A kept \in SUBSET DOMAIN routes :
               (/\ routes' = Restrict(routes, kept)
                /\ offered' = Restrict(offered, kept)
                /\ UNCHANGED issued) => P,
           UNCHANGED vars => P
    PROVE  P
<1>1. ASSUME NEW d \in DOMAIN routes, Remove(d) PROVE P
  BY <1>1 DEF Remove, Retain
<1>2. ASSUME NEW n \in Node \ {Self}, RemoveRoutesVia(n) PROVE P
  BY <1>2 DEF RemoveRoutesVia, Retain
<1> QED
  BY <1>1, <1>2 DEF Next

(* Wrapping never makes a sum larger.                                      *)
LEMMA WrapShrinks ==
    \A n \in Nat, w \in Nat : n % (w + 1) <= n /\ (n <= w => n % (w + 1) = n)
OBVIOUS

(* The ranges of hop counts and sequence numbers.                          *)
LEMMA HopsInRange == \A hop \in HopCounts : hop \in 0..MaxHopCount
BY TableConstants

(* Sequence numbers, forged or issued, fit in 64 bits.                     *)
LEMMA SeqsInRange == \A seq \in Seqs \union 1..MaxIssued : seq \in 0..SeqMax
<1>1. \A seq \in Seqs : seq \in 0..SeqMax
  BY TableConstants
<1>2. \A seq \in 1..MaxIssued : seq \in 0..SeqMax
  BY TableConstants
<1> QED
  BY <1>1, <1>2

(* An announcement that passes the checks offers a typed entry, which its  *)
(* origin itself signed.                                                   *)
LEMMA OfferTyped ==
    ASSUME TypeOK, NEW sig \in Signatures, NEW via \in Node \ {Self},
           NEW ann \in Announcements(sig), ProcessRouteAnnounce(ann, via)
    PROVE  /\ ann.origin \in Node \ {Self}
           /\ [ next_hop |-> via, cost |-> ann.hop + 1, seq |-> ann.seq ] \in RouteEntry
           /\ Exists([ by |-> ann.origin, origin |-> ann.origin,
                       hop |-> ann.hop, seq |-> ann.seq ])
<1>1. /\ ann.origin \in Node /\ ann.hop \in HopCounts /\ ann.seq \in {sig.seq, SeqMax}
      /\ ann.sig = sig
  BY DEF Announcements
<1>2. sig.seq \in 0..SeqMax /\ Exists(sig)
  <2>1. sig.seq \in Seqs \union 1..MaxIssued /\ Exists(sig)
    BY DEF Signatures
  <2> QED
    BY <2>1, SeqsInRange
<1>3. ann.seq \in 0..SeqMax
  BY <1>1, <1>2, TableConstants
<1>4. ann.hop \in Nat /\ ann.hop < MaxHopCount
  <2>1. ann.hop < MaxHopCount
    BY DEF ProcessRouteAnnounce
  <2>2. ann.hop \in 0..MaxHopCount
    BY <1>1, HopsInRange
  <2> QED
    BY <2>1, <2>2
<1>5. ann.hop + 1 \in 1..MaxHopCount
  BY <1>4, TableConstants
<1>6. sig = [ by |-> ann.origin, origin |-> ann.origin, hop |-> ann.hop, seq |-> ann.seq ]
  BY <1>1 DEF ProcessRouteAnnounce, Authentic
<1> QED
  BY <1>1, <1>2, <1>3, <1>5, <1>6 DEF ProcessRouteAnnounce, RouteEntry

(* Every reachable state has its type.                                     *)
THEOREM TypeCorrect == Spec => []TypeOK
<1>1. Init => TypeOK
  BY TableConstants DEF Init, TypeOK
<1>2. TypeOK /\ [Next]_vars => TypeOK'
  <2> SUFFICES ASSUME TypeOK, [Next]_vars PROVE TypeOK'
    OBVIOUS
  <2>1. ASSUME NEW n \in Node \ (Rogue \union {Self}), Announce(n) PROVE TypeOK'
    <3>1. issued[n] + 1 \in 0..MaxIssued
      BY <2>1, TableConstants DEF Announce, TypeOK
    <3> QED
      BY <2>1, <3>1 DEF Announce, TypeOK
  <2>2. ASSUME NEW sig \in Signatures, NEW via \in Node \ {Self},
               NEW ann \in Announcements(sig), ProcessRouteAnnounce(ann, via)
        PROVE  TypeOK'
    <3> DEFINE entry == [ next_hop |-> via, cost |-> ann.hop + 1, seq |-> ann.seq ]
    <3>1. ann.origin \in Node \ {Self} /\ entry \in RouteEntry
      BY <2>2, OfferTyped
    <3>2. /\ routes' = IF Supersedes(entry, ann.origin)
                         THEN With(routes, ann.origin, entry) ELSE routes
          /\ offered' = Noted(ann.origin, entry)
          /\ issued' = issued
      BY <2>2 DEF ProcessRouteAnnounce, Update
    <3>3. ann.origin \notin DOMAIN routes => Supersedes(entry, ann.origin)
      BY DEF Supersedes
    <3>4. DOMAIN routes' = DOMAIN routes \union {ann.origin}
      BY <3>2, <3>3 DEF With
    <3>5. routes' \in [DOMAIN routes' -> RouteEntry]
      <4>1. CASE Supersedes(entry, ann.origin)
        BY <3>1, <3>2, <4>1 DEF With, TypeOK
      <4>2. CASE ~Supersedes(entry, ann.origin)
        BY <3>2, <4>2 DEF TypeOK
      <4> QED
        BY <4>1, <4>2
    <3>6. DOMAIN offered' = DOMAIN offered \union {ann.origin}
      BY <3>2 DEF Noted, With
    <3> QED
      BY <3>1, <3>2, <3>4, <3>5, <3>6 DEF TypeOK
  <2>3. ASSUME NEW kept \in SUBSET DOMAIN routes,
               routes' = Restrict(routes, kept),
               offered' = Restrict(offered, kept),
               UNCHANGED issued
        PROVE  TypeOK'
    BY <2>3 DEF Restrict, TypeOK
  <2>4. ASSUME UNCHANGED vars PROVE TypeOK'
    BY <2>4 DEF vars, TypeOK
  <2> QED
    BY <2>1, <2>2, <2>3, <2>4, StepCases
<1> QED
  BY <1>1, <1>2, PTL DEF Spec

(* In every reachable state, each route's destination itself signed its    *)
(* number and hop count.                                                   *)
THEOREM Authenticity == Spec => []RoutesAuthentic
<1>1. Init => RoutesAuthentic
  BY DEF Init, RoutesAuthentic
<1>2. TypeOK /\ RoutesAuthentic /\ [Next]_vars => RoutesAuthentic'
  <2> SUFFICES ASSUME TypeOK, RoutesAuthentic, [Next]_vars PROVE RoutesAuthentic'
    OBVIOUS
  <2>1. ASSUME NEW n \in Node \ (Rogue \union {Self}), Announce(n) PROVE RoutesAuthentic'
    <3>1. /\ routes' = routes
          /\ \A m \in Node : issued[m] \in 0..MaxIssued /\ issued'[m] \in Int
                               /\ issued[m] <= issued'[m]
      BY <2>1, TableConstants DEF Announce, TypeOK
    <3>2. ASSUME NEW d \in DOMAIN routes
          PROVE  /\ d # Self
                 /\ Exists([ by |-> d, origin |-> d,
                             hop |-> routes[d].cost - 1, seq |-> routes[d].seq ])'
      <4>1. d \in Node /\ routes[d].seq \in Nat
        BY <3>2, TableConstants DEF TypeOK, RouteEntry
      <4>2. d # Self /\ Exists([ by |-> d, origin |-> d,
                                 hop |-> routes[d].cost - 1, seq |-> routes[d].seq ])
        BY <3>2 DEF RoutesAuthentic
      <4> QED
        BY <3>1, <4>1, <4>2, TableConstants DEF Exists
    <3> QED
      BY <3>1, <3>2 DEF RoutesAuthentic
  <2>2. ASSUME NEW sig \in Signatures, NEW via \in Node \ {Self},
               NEW ann \in Announcements(sig), ProcessRouteAnnounce(ann, via)
        PROVE  RoutesAuthentic'
    <3> DEFINE entry == [ next_hop |-> via, cost |-> ann.hop + 1, seq |-> ann.seq ]
    <3>1. /\ ann.origin \in Node \ {Self} /\ entry \in RouteEntry
          /\ Exists([ by |-> ann.origin, origin |-> ann.origin,
                      hop |-> ann.hop, seq |-> ann.seq ])
      BY <2>2, OfferTyped
    <3>2. /\ routes' = With(routes, ann.origin, entry) \/ routes' = routes
          /\ issued' = issued
      BY <2>2 DEF ProcessRouteAnnounce, Update
    <3>3. ann.hop \in Nat
      BY HopsInRange DEF Announcements
    <3>4. entry.cost - 1 = ann.hop /\ entry.seq = ann.seq
      BY <3>3
    <3>5. ASSUME NEW d \in DOMAIN routes'
          PROVE  \/ d = ann.origin /\ routes'[d] = entry
                 \/ d \in DOMAIN routes /\ routes'[d] = routes[d]
      BY <3>2, <3>5 DEF With
    <3> HIDE DEF entry
    <3> QED
      BY <3>1, <3>2, <3>4, <3>5 DEF RoutesAuthentic, Exists
  <2>3. ASSUME NEW kept \in SUBSET DOMAIN routes,
               routes' = Restrict(routes, kept),
               offered' = Restrict(offered, kept),
               UNCHANGED issued
        PROVE  RoutesAuthentic'
    BY <2>3 DEF Restrict, RoutesAuthentic, Exists
  <2>4. ASSUME UNCHANGED vars PROVE RoutesAuthentic'
    BY <2>4 DEF vars, RoutesAuthentic, Exists
  <2> QED
    BY <2>1, <2>2, <2>3, <2>4, StepCases
<1> QED
  BY <1>1, <1>2, TypeCorrect, PTL DEF Spec

(* The table after an offer: the entry is taken where it supersedes, and   *)
(* nothing else changes.                                                   *)
LEMMA UpdateOf ==
    ASSUME NEW d, NEW entry, Update(d, entry)
    PROVE  /\ DOMAIN routes' = DOMAIN routes \union {d}
           /\ routes'[d] = IF Supersedes(entry, d) THEN entry ELSE routes[d]
           /\ \A x \in DOMAIN routes \ {d} : routes'[x] = routes[x]
<1>1. CASE Supersedes(entry, d)
  BY <1>1 DEF Update, With
<1>2. CASE ~Supersedes(entry, d)
  <2>1. d \in DOMAIN routes /\ routes' = routes
    BY <1>2 DEF Update, Supersedes
  <2> QED
    BY <1>2, <2>1
<1> QED
  BY <1>1, <1>2

(* While a destination stays in the table its entry only improves, and its *)
(* number grows by at most MAX_SEQ_JUMP unless it becomes u64::MAX, also   *)
(* where the sum of the check wraps.                                       *)
THEOREM Improvement == Spec => NeverBackwards
<1> DEFINE Improves(d) ==
        LET new == routes'[d]  old == routes[d] IN
        \/ new = old
        \/ /\ Better(new, old)
           /\ new.seq <= old.seq + MaxSeqJump \/ new.seq = SeqMax
<1>1. TypeOK /\ [Next]_vars => [\A d \in DOMAIN routes \intersect DOMAIN routes' : Improves(d)]_routes
  <2> SUFFICES ASSUME TypeOK, [Next]_vars, NEW d \in DOMAIN routes \intersect DOMAIN routes'
               PROVE  Improves(d)
    OBVIOUS
  <2>1. ASSUME NEW n \in Node \ (Rogue \union {Self}), Announce(n) PROVE Improves(d)
    BY <2>1 DEF Announce
  <2>2. ASSUME NEW sig \in Signatures, NEW via \in Node \ {Self},
               NEW ann \in Announcements(sig), ProcessRouteAnnounce(ann, via)
        PROVE  Improves(d)
    <3> DEFINE entry == [ next_hop |-> via, cost |-> ann.hop + 1, seq |-> ann.seq ]
    <3>1. Update(ann.origin, entry)
      BY <2>2 DEF ProcessRouteAnnounce
    <3>2. entry \in RouteEntry
      BY <2>2, OfferTyped
    <3> HIDE DEF entry
    <3>3. CASE d # ann.origin \/ ~Supersedes(entry, ann.origin)
      <4>1. CASE d # ann.origin
        <5>1. routes'[d] = routes[d]
          BY <3>1, <4>1, UpdateOf
        <5> QED
          BY <5>1
      <4>2. CASE d = ann.origin /\ ~Supersedes(entry, d)
        <5>1. routes'[d] = routes[d]
          BY <3>1, <4>2, UpdateOf
        <5> QED
          BY <5>1
      <4> QED
        BY <3>3, <4>1, <4>2
    <3>4. CASE d = ann.origin /\ Supersedes(entry, ann.origin)
      <4>1. routes'[d] = entry
        BY <3>1, <3>4, UpdateOf
      <4>2. Better(entry, routes[d]) /\ ~Suspicious(entry, routes[d])
        BY <3>4 DEF Supersedes
      <4>3. routes[d].seq \in 0..SeqMax /\ entry.seq \in 0..SeqMax
        BY <3>2 DEF TypeOK, RouteEntry
      <4>4. entry.seq <= (routes[d].seq + MaxSeqJump) % (SeqMax + 1) \/ entry.seq = SeqMax
        BY <4>2, <4>3, TableConstants DEF Suspicious
      <4>5. (routes[d].seq + MaxSeqJump) % (SeqMax + 1) <= routes[d].seq + MaxSeqJump
        <5>1. routes[d].seq + MaxSeqJump \in Nat /\ SeqMax \in Nat
          BY <4>3, TableConstants
        <5> QED
          BY <5>1, WrapShrinks
      <4> QED
        BY <4>1, <4>2, <4>3, <4>4, <4>5, TableConstants
    <3> QED
      BY <3>3, <3>4
  <2>3. ASSUME NEW kept \in SUBSET DOMAIN routes,
               routes' = Restrict(routes, kept),
               offered' = Restrict(offered, kept),
               UNCHANGED issued
        PROVE  Improves(d)
    BY <2>3 DEF Restrict
  <2>4. ASSUME UNCHANGED vars PROVE Improves(d)
    BY <2>4 DEF vars
  <2> QED
    <3> HIDE DEF Improves
    <3> QED
      BY <2>1, <2>2, <2>3, <2>4, StepCases
<1> QED
  BY <1>1, TypeCorrect, PTL DEF Spec, NeverBackwards

(* The best offer since the route was inserted is no older than the first, *)
(* and while it is within the jump of the first, the route is that offer.  *)
Offer == [ first : 0..SeqMax, top : [ seq : 0..SeqMax, cost : Nat ] ]

InReach(o) == o.top.seq <= o.first + MaxSeqJump /\ o.top.seq + MaxSeqJump <= SeqMax

Best(d) ==
    /\ offered[d] \in Offer
    /\ offered[d].first <= offered[d].top.seq
    /\ InReach(offered[d])
         => routes[d].seq = offered[d].top.seq /\ routes[d].cost = offered[d].top.cost

AllBest == \A d \in DOMAIN routes : Best(d)

(* The offer noted: the first of a new route, or the best of an old one.   *)
LEMMA NotedOf ==
    ASSUME TypeOK, NEW d, NEW entry, Update(d, entry)
    PROVE  /\ d \notin DOMAIN routes =>
                offered'[d] = [ first |-> entry.seq,
                                top |-> [ seq |-> entry.seq, cost |-> entry.cost ] ]
           /\ d \in DOMAIN routes =>
                offered'[d] = IF Better(entry, offered[d].top)
                                THEN [ offered[d] EXCEPT !.top = [ seq |-> entry.seq, cost |-> entry.cost ] ]
                                ELSE offered[d]
           /\ \A x \in DOMAIN routes \ {d} : offered'[x] = offered[x]
<1> DEFINE offer == [ seq |-> entry.seq, cost |-> entry.cost ]
<1>1. Better(offer, offered[d].top) <=> Better(entry, offered[d].top)
  BY DEF Better
<1>2. offered' = Noted(d, entry) /\ DOMAIN offered = DOMAIN routes
  BY DEF Update, TypeOK
<1>3. CASE d \notin DOMAIN routes
  <2>1. offered' = With(offered, d, [ first |-> entry.seq, top |-> offer ])
    BY <1>2, <1>3 DEF Noted
  <2> QED
    BY <1>2, <1>3, <2>1 DEF With
<1>4. CASE d \in DOMAIN routes
  <2>1. offered' = IF Better(offer, offered[d].top)
                     THEN With(offered, d, [ offered[d] EXCEPT !.top = offer ])
                     ELSE offered
    BY <1>2, <1>4 DEF Noted
  <2> QED
    BY <1>1, <1>2, <1>4, <2>1 DEF With
<1> QED
  BY <1>3, <1>4

(* An offer to a route that is the best of all so far.                     *)
LEMMA BestAfterOffer ==
    ASSUME TypeOK, NEW d \in DOMAIN routes, NEW entry \in RouteEntry,
           Update(d, entry), Best(d)
    PROVE  Best(d)'
<1> DEFINE o == offered[d]  r == routes[d]
<1>1. /\ r.seq \in Nat /\ r.cost \in Nat
      /\ o \in Offer
      /\ o.first \in Nat /\ o.top.seq \in Nat /\ o.top.cost \in Nat
      /\ o.first <= o.top.seq
      /\ entry.seq \in Nat /\ entry.seq <= SeqMax /\ entry.cost \in Nat
  BY TableConstants DEF Best, Offer, TypeOK, RouteEntry
<1>2. SeqMax \in Nat /\ MaxSeqJump \in Nat
  BY TableConstants
<1>3. routes'[d] = IF Supersedes(entry, d) THEN entry ELSE r
  BY UpdateOf
<1>4. CASE Better(entry, o.top)
  <2>1. offered'[d] = [ o EXCEPT !.top = [ seq |-> entry.seq, cost |-> entry.cost ] ]
    BY <1>4, NotedOf
  <2>2. /\ offered'[d] \in Offer
        /\ offered'[d].first = o.first
        /\ offered'[d].top.seq = entry.seq /\ offered'[d].top.cost = entry.cost
    BY <1>1, <2>1 DEF Offer
  <2>3. o.top.seq <= entry.seq
    BY <1>1, <1>4 DEF Better
  <2>4. ASSUME InReach(o)' PROVE Supersedes(entry, d)
    <3>1. entry.seq <= o.first + MaxSeqJump /\ entry.seq + MaxSeqJump <= SeqMax
      BY <2>2, <2>4 DEF InReach
    <3>2. InReach(o)
      BY <1>1, <1>2, <2>3, <3>1 DEF InReach
    <3>3. r.seq = o.top.seq /\ r.cost = o.top.cost
      BY <3>2 DEF Best
    <3>4. (r.seq + MaxSeqJump) % (SeqMax + 1) = r.seq + MaxSeqJump
      <4>1. r.seq + MaxSeqJump \in Nat /\ r.seq + MaxSeqJump <= SeqMax
        BY <1>1, <1>2, <2>3, <3>1, <3>3
      <4> QED
        BY <1>2, <4>1, WrapShrinks
    <3>5. ~Suspicious(entry, r)
      BY <1>1, <1>2, <3>1, <3>3, <3>4 DEF Suspicious
    <3> QED
      BY <1>4, <3>3, <3>5 DEF Supersedes, Better
  <2>5. InReach(offered[d])' => routes'[d] = entry
    BY <1>3, <2>4
  <2>6. offered'[d].first <= offered'[d].top.seq
    BY <1>1, <2>2, <2>3
  <2> QED
    BY <2>2, <2>5, <2>6 DEF Best
<1>5. CASE ~Better(entry, o.top)
  <2>1. offered'[d] = o
    BY <1>5, NotedOf
  <2>2. ASSUME InReach(o) PROVE routes'[d] = r
    <3>1. r.seq = o.top.seq /\ r.cost = o.top.cost
      BY <2>2 DEF Best
    <3>2. ~Supersedes(entry, d)
      BY <1>5, <3>1 DEF Supersedes, Better
    <3> QED
      BY <1>3, <3>2
  <2> QED
    BY <2>1, <2>2 DEF Best, InReach
<1> QED
  BY <1>4, <1>5

(* In every reachable state, a route is the best of all authentic offers   *)
(* since it was inserted, in whatever order they came, as long as none was *)
(* out of reach of the first.                                              *)
THEOREM BestOfferKept == Spec => []BestOfferWins
<1>1. Init => AllBest
  BY DEF Init, AllBest
<1>2. TypeOK /\ AllBest /\ [Next]_vars => AllBest'
  <2> SUFFICES ASSUME TypeOK, AllBest, [Next]_vars PROVE AllBest'
    OBVIOUS
  <2>1. ASSUME NEW n \in Node \ (Rogue \union {Self}), Announce(n) PROVE AllBest'
    BY <2>1 DEF Announce, AllBest, Best, InReach
  <2>2. ASSUME NEW sig \in Signatures, NEW via \in Node \ {Self},
               NEW ann \in Announcements(sig), ProcessRouteAnnounce(ann, via)
        PROVE  AllBest'
    <3> DEFINE entry == [ next_hop |-> via, cost |-> ann.hop + 1, seq |-> ann.seq ]
               dest == ann.origin
    <3>1. Update(dest, entry)
      BY <2>2 DEF ProcessRouteAnnounce
    <3>2. entry \in RouteEntry
      BY <2>2, OfferTyped
    <3> HIDE DEF entry, dest
    <3>3. DOMAIN routes' = DOMAIN routes \union {dest}
      BY <3>1, UpdateOf
    <3>4. ASSUME NEW d \in DOMAIN routes, d # dest PROVE Best(d)'
      <4>1. routes'[d] = routes[d]
        BY <3>1, <3>4, UpdateOf
      <4>2. offered'[d] = offered[d]
        <5>1. \A x \in DOMAIN routes \ {dest} : offered'[x] = offered[x]
          BY <3>1, NotedOf, TypeOK
        <5> QED
          BY <3>4, <5>1
      <4> QED
        BY <4>1, <4>2 DEF AllBest, Best, InReach
    <3>5. CASE dest \in DOMAIN routes
      <4>1. Best(dest)'
        BY <3>1, <3>2, <3>5, BestAfterOffer DEF AllBest
      <4> QED
        BY <3>3, <3>4, <3>5, <4>1 DEF AllBest
    <3>6. CASE dest \notin DOMAIN routes
      <4>1. Supersedes(entry, dest)
        BY <3>6 DEF Supersedes
      <4>2. routes'[dest] = entry
        BY <3>1, <4>1, UpdateOf
      <4>3. offered'[dest] = [ first |-> entry.seq,
                               top |-> [ seq |-> entry.seq, cost |-> entry.cost ] ]
        BY <3>1, <3>6, NotedOf, TypeOK
      <4>4. entry.seq \in 0..SeqMax /\ entry.cost \in Nat
        BY <3>2, TableConstants DEF RouteEntry
      <4>5. Best(dest)'
        BY <4>2, <4>3, <4>4 DEF Best, Offer
      <4> QED
        BY <3>3, <3>4, <4>5 DEF AllBest
    <3> QED
      BY <3>5, <3>6
  <2>3. ASSUME NEW kept \in SUBSET DOMAIN routes,
               routes' = Restrict(routes, kept),
               offered' = Restrict(offered, kept),
               UNCHANGED issued
        PROVE  AllBest'
    <3>1. DOMAIN routes' = kept /\ \A d \in kept : routes'[d] = routes[d] /\ offered'[d] = offered[d]
      BY <2>3 DEF Restrict
    <3> QED
      BY <3>1 DEF AllBest, Best, InReach
  <2>4. ASSUME UNCHANGED vars PROVE AllBest'
    BY <2>4 DEF vars, AllBest, Best, InReach
  <2> QED
    BY <2>1, <2>2, <2>3, <2>4, StepCases
<1>3. AllBest => BestOfferWins
  BY DEF AllBest, Best, InReach, BestOfferWins
<1> QED
  BY <1>1, <1>2, <1>3, TypeCorrect, PTL DEF Spec

=============================================================================
