---------------------------- MODULE RouterProofs ----------------------------
(***************************************************************************)
(* Router.tla for every set of ids, every max_hops, seen_ttl, age and skew *)
(* and every content of the envelopes: the cache and the history agree,    *)
(* the replay bound holds, and the node implements ReplayFilter.           *)
(***************************************************************************)
EXTENDS Router, TLAPS

(* Collecting keeps the young entries as they are, and no others.          *)
LEMMA CollectedMaps ==
    ASSUME NEW S, NEW now
    PROVE  /\ DOMAIN Collected(S, now) = { j \in DOMAIN S : now - S[j] < SeenTtl }
           /\ \A j \in DOMAIN Collected(S, now) : Collected(S, now)[j] = S[j]
BY DEF Collected, Restrict

(* A step of Next is one of these, with the envelope that arrived named.   *)
LEMMA StepCases ==
    ASSUME [Next]_vars,
           NEW P,
           Tick => P,
           \A i \in Id, h \in HopFields : RouteInbound(Copy(i, h)) => P,
           \A i \in Id, h \in HopFields : RouteInboundDrops(Copy(i, h)) => P,
           GcSeen => P,
           UNCHANGED vars => P
    PROVE  P
BY DEF Next, Arrive

(* route_inbound on a copy of i, with what it says about the history.      *)
LEMMA RouteInboundOf ==
    ASSUME NEW i \in Id, NEW h \in HopFields, RouteInbound(Copy(i, h))
    PROVE  /\ Made[i].ts <= clock + MaxSkew
           /\ clock <= Made[i].ts + MaxAge
           /\ i \notin DOMAIN seen
           /\ seen' = Recorded(seen, i, clock)
           /\ decision' \in { "none", "deliver", "deliver_and_relay", "relay", "drop" }
           /\ admitted' = [ admitted EXCEPT ![i] = Promise!Again(@, clock) ]
           /\ clock' = clock
<1>1. Copy(i, h).body = Made[i] /\ Made[i].id = i
  BY Inputs DEF Copy
<1>2. Decision(Self, Copy(i, h)) \in { "none", "deliver", "deliver_and_relay", "relay", "drop" }
  BY DEF Decision
<1> QED
  BY <1>1, <1>2 DEF RouteInbound, Acceptable, IsFresh, IsNew

(* Every reachable state has its type.                                     *)
THEOREM TypeCorrect == Spec => []TypeOK
<1>1. Init => TypeOK
  BY DEF Init, TypeOK, Promise!History, Promise!Never
<1>2. TypeOK /\ [Next]_vars => TypeOK'
  <2> SUFFICES ASSUME TypeOK, [Next]_vars PROVE TypeOK'
    OBVIOUS
  <2>1. ASSUME Tick PROVE TypeOK'
    BY <2>1, Inputs DEF Tick, TypeOK
  <2>2. ASSUME NEW i \in Id, NEW h \in HopFields, RouteInbound(Copy(i, h)) PROVE TypeOK'
    <3>1. DOMAIN seen' = DOMAIN seen \union {i} /\ seen'[i] = clock
          /\ \A j \in DOMAIN seen : j # i => seen'[j] = seen[j]
      BY <2>2, RouteInboundOf DEF Recorded
    <3>2. seen' = [ j \in DOMAIN seen' |-> seen'[j] ]
      BY <2>2, RouteInboundOf DEF Recorded
    <3>3. seen' \in [DOMAIN seen' -> 0..clock]
      BY <3>1, <3>2 DEF TypeOK
    <3>4. admitted' \in [Id -> Promise!History]
      BY <2>2, RouteInboundOf DEF TypeOK, Promise!History, Promise!Again
    <3> QED
      BY <2>2, RouteInboundOf, <3>1, <3>3, <3>4 DEF TypeOK
  <2>3. ASSUME NEW i \in Id, NEW h \in HopFields, RouteInboundDrops(Copy(i, h))
        PROVE  TypeOK'
    BY <2>3 DEF RouteInboundDrops, TypeOK
  <2>4. ASSUME GcSeen PROVE TypeOK'
    BY <2>4 DEF GcSeen, TypeOK, Collected, Restrict
  <2>5. ASSUME UNCHANGED vars PROVE TypeOK'
    BY <2>5 DEF vars, TypeOK
  <2> QED
    BY <2>1, <2>2, <2>3, <2>4, <2>5, StepCases
<1> QED
  BY <1>1, <1>2, PTL DEF Spec

(* The cache holds each id with its last admission, and every id admitted  *)
(* less than seen_ttl ago, in every reachable state.                       *)
THEOREM CacheCorrect == Spec => []CacheIsTheHistory
<1>1. Init => CacheIsTheHistory
  BY DEF Init, CacheIsTheHistory, Promise!Never
<1>2. TypeOK /\ CacheIsTheHistory /\ [Next]_vars => CacheIsTheHistory'
  <2> SUFFICES ASSUME TypeOK, CacheIsTheHistory, [Next]_vars PROVE CacheIsTheHistory'
    OBVIOUS
  <2>1. ASSUME Tick PROVE CacheIsTheHistory'
    BY <2>1, RouterConstants DEF Tick, TypeOK, CacheIsTheHistory, Promise!History
  <2>2. ASSUME NEW i \in Id, NEW h \in HopFields, RouteInbound(Copy(i, h))
        PROVE  CacheIsTheHistory'
    <3>1. DOMAIN seen' = DOMAIN seen \union {i} /\ seen'[i] = clock
          /\ \A j \in DOMAIN seen : j # i => seen'[j] = seen[j]
      BY <2>2, RouteInboundOf DEF Recorded
    <3>2. /\ admitted'[i].n = admitted[i].n + 1 /\ admitted'[i].last = clock
          /\ \A j \in Id : j # i => admitted'[j] = admitted[j]
      BY <2>2, RouteInboundOf DEF TypeOK, Promise!Again
    <3> QED
      BY <2>2, RouteInboundOf, <3>1, <3>2 DEF TypeOK, CacheIsTheHistory, Promise!History
  <2>3. ASSUME NEW i \in Id, NEW h \in HopFields, RouteInboundDrops(Copy(i, h))
        PROVE  CacheIsTheHistory'
    BY <2>3 DEF RouteInboundDrops, CacheIsTheHistory
  <2>4. ASSUME GcSeen PROVE CacheIsTheHistory'
    <3>1. /\ DOMAIN seen' = { j \in DOMAIN seen : clock - seen[j] < SeenTtl }
          /\ \A j \in DOMAIN seen' : seen'[j] = seen[j]
      BY <2>4, CollectedMaps DEF GcSeen
    <3> QED
      BY <2>4, <3>1 DEF GcSeen, TypeOK, CacheIsTheHistory
  <2>5. ASSUME UNCHANGED vars PROVE CacheIsTheHistory'
    BY <2>5 DEF vars, CacheIsTheHistory
  <2> QED
    BY <2>1, <2>2, <2>3, <2>4, <2>5, StepCases
<1> QED
  BY <1>1, <1>2, TypeCorrect, PTL DEF Spec

-----------------------------------------------------------------------------

(* The strengthening behind the bound: the first and the last admission    *)
(* lie in the window of freshness, and between them there is room for one  *)
(* seen_ttl per admission after the first.                                 *)
Spaced(i) ==
    admitted[i].n > 0 =>
        /\ Made[i].ts <= admitted[i].first + MaxSkew
        /\ admitted[i].last <= Made[i].ts + MaxAge
        /\ admitted[i].last <= clock
        /\ (admitted[i].n - 1) * SeenTtl <= admitted[i].last - admitted[i].first

AllSpaced == \A i \in Id : Spaced(i)

(* One more admission, at least seen_ttl after the last, keeps the spacing.*)
LEMMA OneMoreFits ==
    ASSUME NEW n \in Nat, NEW s \in Nat, NEW first \in Nat, NEW last \in Nat,
           NEW now \in Nat, (n - 1) * s <= last - first, now - last >= s
    PROVE  (n + 1 - 1) * s <= now - first
<1>1. n * s = (n - 1) * s + s
  OBVIOUS
<1>2. (n - 1) * s \in Int
  OBVIOUS
<1>3. n + 1 - 1 = n
  OBVIOUS
<1> QED
  BY <1>1, <1>2, <1>3

(* An id that route_inbound admits was not admitted within seen_ttl.       *)
LEMMA AdmittedApart ==
    ASSUME TypeOK, CacheIsTheHistory, NEW i \in Id, NEW h \in HopFields,
           RouteInbound(Copy(i, h)), admitted[i].n > 0
    PROVE  clock - admitted[i].last >= SeenTtl
BY RouteInboundOf, RouterConstants DEF CacheIsTheHistory, TypeOK, Promise!History

(* How often an envelope can pass is bounded, for every configuration.     *)
THEOREM ReplayBounded == Spec => []ReplayBound
<1>1. Init => AllSpaced
  BY DEF Init, AllSpaced, Spaced, Promise!Never
<1>2. TypeOK /\ CacheIsTheHistory /\ AllSpaced /\ [Next]_vars => AllSpaced'
  <2> SUFFICES ASSUME TypeOK, CacheIsTheHistory, AllSpaced, [Next]_vars
               PROVE  AllSpaced'
    OBVIOUS
  <2>1. ASSUME Tick PROVE AllSpaced'
    BY <2>1 DEF Tick, TypeOK, AllSpaced, Spaced, Promise!History
  <2>2. ASSUME NEW i \in Id, NEW h \in HopFields, RouteInbound(Copy(i, h))
        PROVE  AllSpaced'
    <3> SUFFICES ASSUME NEW j \in Id PROVE Spaced(j)'
      BY DEF AllSpaced
    <3>1. CASE j # i
      <4>1. admitted'[j] = admitted[j] /\ clock' = clock
        BY <2>2, <3>1, RouteInboundOf DEF TypeOK
      <4> QED
        BY <4>1 DEF AllSpaced, Spaced
    <3>2. CASE j = i
      <4>1. admitted'[i] = Promise!Again(admitted[i], clock) /\ clock' = clock
        BY <2>2, RouteInboundOf DEF TypeOK
      <4>2. /\ admitted[i].n \in Nat /\ admitted[i].first \in Nat
            /\ admitted[i].last \in Nat /\ clock \in Nat /\ Made[i].ts \in Nat
            /\ SeenTtl \in Nat /\ MaxSkew \in Nat /\ MaxAge \in Nat
        BY Inputs, RouterConstants DEF TypeOK, Promise!History, Body
      <4>3. Made[i].ts <= clock + MaxSkew /\ clock <= Made[i].ts + MaxAge
        BY <2>2, RouteInboundOf
      <4>4. CASE admitted[i].n = 0
        <5>1. admitted'[i].n = 1 /\ admitted'[i].first = clock /\ admitted'[i].last = clock
          BY <4>1, <4>4 DEF Promise!Again
        <5> QED
          BY <3>2, <4>1, <4>2, <4>3, <5>1 DEF Spaced
      <4>5. CASE admitted[i].n > 0
        <5>1. /\ admitted'[i].n = admitted[i].n + 1
              /\ admitted'[i].first = admitted[i].first /\ admitted'[i].last = clock
          BY <4>1, <4>2, <4>5 DEF Promise!Again
        <5>2. /\ Made[i].ts <= admitted[i].first + MaxSkew
              /\ (admitted[i].n - 1) * SeenTtl <= admitted[i].last - admitted[i].first
          BY <4>5 DEF AllSpaced, Spaced
        <5>3. clock - admitted[i].last >= SeenTtl
          BY <2>2, <4>5, AdmittedApart
        <5>4. (admitted[i].n + 1 - 1) * SeenTtl <= clock - admitted[i].first
          BY <4>2, <5>2, <5>3, OneMoreFits
        <5> QED
          BY <3>2, <4>1, <4>2, <4>3, <5>1, <5>2, <5>4 DEF Spaced
      <4> QED
        BY <4>2, <4>4, <4>5
    <3> QED
      BY <3>1, <3>2
  <2>3. ASSUME NEW i \in Id, NEW h \in HopFields, RouteInboundDrops(Copy(i, h))
        PROVE  AllSpaced'
    BY <2>3 DEF RouteInboundDrops, AllSpaced, Spaced
  <2>4. ASSUME GcSeen PROVE AllSpaced'
    BY <2>4 DEF GcSeen, AllSpaced, Spaced
  <2>5. ASSUME UNCHANGED vars PROVE AllSpaced'
    BY <2>5 DEF vars, AllSpaced, Spaced
  <2> QED
    BY <2>1, <2>2, <2>3, <2>4, <2>5, StepCases
<1>3. TypeOK /\ AllSpaced => ReplayBound
  <2> SUFFICES ASSUME TypeOK, AllSpaced, NEW i \in Id, admitted[i].n > 0
               PROVE  (admitted[i].n - 1) * SeenTtl <= MaxAge + MaxSkew
    BY DEF ReplayBound
  <2>1. /\ admitted[i].n \in Nat /\ admitted[i].first \in Nat
        /\ admitted[i].last \in Nat /\ Made[i].ts \in Nat
        /\ SeenTtl \in Nat /\ MaxSkew \in Nat /\ MaxAge \in Nat
    BY Inputs, RouterConstants DEF TypeOK, Promise!History, Body
  <2>2. (admitted[i].n - 1) * SeenTtl \in Int
    BY <2>1
  <2> QED
    BY <2>1, <2>2 DEF AllSpaced, Spaced
<1> QED
  BY <1>1, <1>2, <1>3, TypeCorrect, CacheCorrect, PTL DEF Spec

-----------------------------------------------------------------------------

(* Every step of the node is a step of the abstract filter or none at all. *)
THEOREM RouterImplementsFilter == Spec => ImplementsReplayFilter
<1>1. Init => Promise!Init
  BY DEF Init, Promise!Init
<1>2. TypeOK /\ CacheIsTheHistory /\ [Next]_vars => [Promise!Next]_(Promise!vars)
  <2> SUFFICES ASSUME TypeOK, CacheIsTheHistory, [Next]_vars
               PROVE  [Promise!Next]_(Promise!vars)
    OBVIOUS
  <2>1. ASSUME Tick PROVE Promise!Tick
    BY <2>1 DEF Tick, Promise!Tick
  <2>2. ASSUME NEW i \in Id, NEW h \in HopFields, RouteInbound(Copy(i, h))
        PROVE  Promise!Admit(i)
    <3>1. admitted[i].n > 0 => clock - admitted[i].last >= SeenTtl
      BY <2>2, AdmittedApart
    <3> QED
      BY <2>2, <3>1, RouteInboundOf DEF Promise!Admit
  <2>3. ASSUME NEW i \in Id, NEW h \in HopFields, RouteInboundDrops(Copy(i, h))
        PROVE  UNCHANGED Promise!vars
    BY <2>3 DEF RouteInboundDrops, Promise!vars
  <2>4. ASSUME GcSeen PROVE UNCHANGED Promise!vars
    BY <2>4 DEF GcSeen, Promise!vars
  <2>5. ASSUME UNCHANGED vars PROVE UNCHANGED Promise!vars
    BY <2>5 DEF vars, Promise!vars
  <2> QED
    BY <2>1, <2>2, <2>3, <2>4, <2>5, StepCases DEF Promise!Next
<1> QED
  BY <1>1, <1>2, TypeCorrect, CacheCorrect, PTL DEF Spec, ImplementsReplayFilter, Promise!Spec

=============================================================================
