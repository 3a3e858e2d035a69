------------------------------ MODULE MeshProofs ------------------------------
(***************************************************************************)
(* Mesh.tla for every network, any number of envelopes, and a radio that   *)
(* loses and repeats as much as it likes: the accounting of hops and of    *)
(* copies handled.                                                         *)
(***************************************************************************)
EXTENDS Mesh, TLAPS

(* A step of Next is one of these.                                         *)
LEMMA StepCases ==
    ASSUME [Next]_vars,
           NEW P,
           \A n \in Node, i \in Id : Announce(n, i) => P,
           \A n, r \in Node, i \in Id : AppSend(n, i, r) => P,
           \A n, r \in Node, i \in Id : CliSend(n, i, r) => P,
           \A c \in air : HandleInbound(c, air \ {c}) /\ UNCHANGED <<sent, viaHub, restarts>> => P,
           \A c \in air : HandleInbound(c, air) /\ UNCHANGED <<sent, viaHub, restarts>> => P,
           \A c \in air : Lose(c) => P,
           \A n \in Node : Restart(n) => P,
           UNCHANGED vars => P
    PROVE  P
BY DEF Next, Receive, ReceiveRepeated

-----------------------------------------------------------------------------
(* What a node makes and what it passes on.                                *)

(* A new envelope has its whole ttl to go.                                 *)
LEMMA MadeFresh ==
    ASSUME NEW n \in Node, NEW r \in Node, NEW i \in Id,
           NEW env \in { Signed(RouteAnnounce(i, n, MaxHops, 0)),
                         Signed(DirectText(i, n, r, MaxHops, 0)) }
    PROVE  /\ env \in EnvelopeSet
           /\ env.body.id = i /\ env.body.sender = n
           /\ env.hop = [ ttl |-> MaxHops, hops |-> 0 ]
BY RouterConstants DEF Signed, RouteAnnounce, DirectText, Flooded, Unsigned, EnvelopeSet, Body, Hop, Kind

(* A copy passed on goes to a neighbour, with its body as it came, one     *)
(* more hop made and one less to go.                                       *)
LEMMA OnwardCopies ==
    ASSUME NEW n \in Node, NEW env \in EnvelopeSet, NEW c \in Onward(n, env)
    PROVE  /\ c.to \in InRange[n] /\ c.to \in Node
           /\ c.env \in EnvelopeSet /\ c.env.body = env.body
           /\ env.hop.ttl > 0
           /\ c.env.hop.ttl = env.hop.ttl - 1
           /\ c.env.hop.hops = env.hop.hops + 1
<1>1. CanAdvance(env, MaxHops) /\ c \in Broadcast(n, Advanced(env))
  BY DEF Onward
<1>2. env.hop \in Hop /\ env.hop.ttl > 0
  BY <1>1 DEF CanAdvance, EnvelopeSet
<1>3. Advanced(env) \in EnvelopeSet /\ Advanced(env).body = env.body
      /\ Advanced(env).hop = [ ttl |-> env.hop.ttl - 1, hops |-> env.hop.hops + 1 ]
  BY <1>2 DEF Advanced, EnvelopeSet, Hop
<1> QED
  BY <1>1, <1>2, <1>3, MeshConstants DEF Broadcast

-----------------------------------------------------------------------------
(* Types.                                                                  *)

(* What TypeOK needs beside itself.                                        *)
Filed ==
    /\ seen = [ n \in Node |-> seen[n] ]
    /\ DOMAIN sent \subseteq Id
    /\ \A i \in DOMAIN sent : sent[i] \in Body /\ sent[i].id = i

MInv == TypeOK /\ Filed

(* Counting touches the count of one envelope at one node, by at most 1.   *)
LEMMA Counted ==
    ASSUME NEW counts \in [Node -> [Id -> Nat]], NEW n \in Node, NEW i \in Id, NEW yes
    PROVE  /\ Count(counts, n, i, yes) \in [Node -> [Id -> Nat]]
           /\ Count(counts, n, i, yes)[n][i] <= counts[n][i] + 1
           /\ \A m \in Node, j \in Id : <<m, j>> # <<n, i>> =>
                  Count(counts, n, i, yes)[m][j] = counts[m][j]
<1> DEFINE more == [ counts EXCEPT ![n][i] = @ + 1 ]
<1>1. /\ more \in [Node -> [Id -> Nat]]
      /\ more[n][i] = counts[n][i] + 1
      /\ \A m \in Node, j \in Id : <<m, j>> # <<n, i>> => more[m][j] = counts[m][j]
  OBVIOUS
<1>2. Count(counts, n, i, yes) \in {more, counts}
  BY DEF Count
<1> QED
  BY <1>1, <1>2

(* Making an envelope, as announce, send and aegis-ffi do, keeps the types. *)
LEMMA MakeTypes ==
    ASSUME MInv, NEW env \in EnvelopeSet, NEW copies, Make(env, copies),
           \A c \in copies : c.to \in Node /\ c.env = env,
           viaHub' \subseteq viaHub \union {env.body.id}
    PROVE  MInv'
<1>1. env.body \in Body /\ env.body.id \in Id
  BY DEF EnvelopeSet, Body
<1>2. /\ DOMAIN sent' = DOMAIN sent \union {env.body.id}
      /\ sent'[env.body.id] = env.body
      /\ \A i \in DOMAIN sent : sent'[i] = sent[i]
  BY DEF Make
<1>3. TypeOK'
  BY <1>1, <1>2 DEF MInv, TypeOK, Make
<1>4. Filed'
  BY <1>1, <1>2 DEF MInv, Filed, Make
<1> QED
  BY <1>3, <1>4 DEF MInv

(* So does handle_inbound.                                                 *)
LEMMA HandleTypes ==
    ASSUME MInv, NEW c \in air, NEW rest \in SUBSET air, HandleInbound(c, rest),
           UNCHANGED <<sent, viaHub, restarts>>
    PROVE  MInv'
<1> DEFINE n == c.to
           i == c.env.body.id
<1>1. n \in Node /\ c.env \in EnvelopeSet /\ i \in Id /\ i \in DOMAIN sent
  BY DEF MInv, TypeOK, Filed
<1>2. \A d \in air' : \/ d \in air
                      \/ d.to \in Node /\ d.env \in EnvelopeSet /\ d.env.body = c.env.body
  BY <1>1, OnwardCopies DEF HandleInbound
<1>3. PICK didDeliver, didRelay :
          /\ delivered' \in {delivered, Count(delivered, n, i, didDeliver)}
          /\ relayed' \in {relayed, Count(relayed, n, i, didRelay)}
  <2>1. CASE Handles(n, c.env)
    BY <2>1 DEF HandleInbound
  <2>2. CASE ~Handles(n, c.env)
    BY <2>2 DEF HandleInbound
  <2> QED
    BY <2>1, <2>2
<1>4. delivered' \in [Node -> [Id -> Nat]] /\ relayed' \in [Node -> [Id -> Nat]]
  BY <1>1, <1>3, Counted DEF MInv, TypeOK
<1>5. /\ seen' = [ m \in Node |-> seen'[m] ]
      /\ \A m \in Node : DOMAIN seen'[m] \subseteq DOMAIN sent
  <2>1. CASE Handles(n, c.env)
    <3>1. seen' = [ seen EXCEPT ![n] = Recorded(@, i, 0) ]
      BY <2>1 DEF HandleInbound
    <3>2. DOMAIN Recorded(seen[n], i, 0) = DOMAIN seen[n] \union {i}
      BY DEF Recorded
    <3> QED
      BY <1>1, <3>1, <3>2 DEF MInv, TypeOK, Filed
  <2>2. CASE ~Handles(n, c.env)
    BY <2>2 DEF HandleInbound, MInv, TypeOK, Filed
  <2> QED
    BY <2>1, <2>2
<1>6. TypeOK'
  BY <1>1, <1>2, <1>4, <1>5 DEF MInv, TypeOK
<1>7. Filed'
  BY <1>5 DEF MInv, Filed
<1> QED
  BY <1>6, <1>7 DEF MInv

(* The strengthened type invariant is inductive.                           *)
LEMMA MInvStep == MInv /\ [Next]_vars => MInv'
<1> SUFFICES ASSUME MInv, [Next]_vars PROVE MInv'
  OBVIOUS
<1>1. ASSUME NEW n \in Node, NEW i \in Id, Announce(n, i) PROVE MInv'
  <2> DEFINE env == Signed(RouteAnnounce(i, n, MaxHops, 0))
  <2>1. env \in EnvelopeSet
    BY MadeFresh
  <2>2. \A c \in Broadcast(n, env) : c.to \in Node /\ c.env = env
    BY MeshConstants DEF Broadcast
  <2> QED
    BY <1>1, <2>1, <2>2, MakeTypes DEF Announce
<1>2. ASSUME NEW n \in Node, NEW r \in Node, NEW i \in Id, AppSend(n, i, r) PROVE MInv'
  <2> DEFINE env == Signed(DirectText(i, n, r, MaxHops, 0))
  <2>1. env \in EnvelopeSet
    BY MadeFresh
  <2>2. \A c \in Broadcast(n, env) : c.to \in Node /\ c.env = env
    BY MeshConstants DEF Broadcast
  <2> QED
    BY <1>2, <2>1, <2>2, MakeTypes DEF AppSend
<1>3. ASSUME NEW n \in Node, NEW r \in Node, NEW i \in Id, CliSend(n, i, r) PROVE MInv'
  <2> DEFINE env == Signed(DirectText(i, n, r, MaxHops, 0))
             copies == { [ to |-> n, env |-> env ] }
  <2>1. env \in EnvelopeSet /\ env.body.id = i
    BY MadeFresh
  <2>2. Make(env, copies) /\ viaHub' \subseteq viaHub \union {env.body.id}
    BY <1>3, <2>1 DEF CliSend
  <2>3. \A c \in copies : c.to \in Node /\ c.env = env
    OBVIOUS
  <2> HIDE DEF env, copies
  <2> QED
    BY <2>1, <2>2, <2>3, MakeTypes
<1>4. ASSUME NEW c \in air, NEW rest \in SUBSET air, HandleInbound(c, rest),
             UNCHANGED <<sent, viaHub, restarts>>
      PROVE  MInv'
  BY <1>4, HandleTypes
<1>5. ASSUME NEW c \in air, Lose(c) PROVE MInv'
  BY <1>5 DEF Lose, MInv, TypeOK, Filed
<1>6. ASSUME NEW n \in Node, Restart(n) PROVE MInv'
  <2>1. /\ seen' = [ m \in Node |-> seen'[m] ]
        /\ \A m \in Node : seen'[m] = IF m = n THEN << >> ELSE seen[m]
    BY <1>6 DEF Restart, MInv, Filed
  <2>2. DOMAIN << >> = {}
    OBVIOUS
  <2>3. \A m \in Node : DOMAIN seen'[m] \subseteq DOMAIN sent
    BY <2>1, <2>2 DEF MInv, TypeOK
  <2>4. restarts' \in [Node -> Nat]
    BY <1>6 DEF Restart, MInv, TypeOK
  <2>5. TypeOK'
    BY <1>6, <2>3, <2>4 DEF Restart, MInv, TypeOK
  <2>6. Filed'
    BY <1>6, <2>1 DEF Restart, MInv, Filed
  <2> QED
    BY <2>5, <2>6 DEF MInv
<1>7. UNCHANGED vars => MInv'
  BY DEF vars, MInv, TypeOK, Filed
<1>8. \A c \in air : HandleInbound(c, air \ {c}) /\ UNCHANGED <<sent, viaHub, restarts>> => MInv'
  BY <1>4
<1>9. \A c \in air : HandleInbound(c, air) /\ UNCHANGED <<sent, viaHub, restarts>> => MInv'
  BY <1>4
<1> QED
  BY <1>1, <1>2, <1>3, <1>5, <1>6, <1>7, <1>8, <1>9, StepCases

(* And holds at the start.                                                 *)
LEMMA MInvInit == Init => MInv
BY DEF Init, MInv, TypeOK, Filed

(* Every reachable state has its type; every copy under way is of an       *)
(* envelope that was made, with its body as it was made.                   *)
THEOREM TypeCorrect == Spec => []TypeOK
<1>1. MInv => TypeOK
  BY DEF MInv
<1> QED
  BY MInvInit, MInvStep, <1>1, PTL DEF Spec

-----------------------------------------------------------------------------
(* Hops.                                                                   *)

(* A copy relayed is one hop further, and its receiver at most one away.   *)
LEMMA HopsKept ==
    ASSUME MInv, HopsAddUp, NEW c \in air, NEW rest \in SUBSET air,
           HandleInbound(c, rest)
    PROVE  HopsAddUp'
<1> DEFINE n == c.to
           i == c.env.body.id
<1>1. c.to \in Node /\ c.env \in EnvelopeSet /\ c.env.body.sender \in Node
  BY DEF MInv, TypeOK, EnvelopeSet, Body
<1>2. c.env.hop.hops \in Nat /\ c.env.hop.ttl \in Nat
  BY <1>1 DEF EnvelopeSet, Hop
<1>3. ASSUME NEW d \in Onward(n, c.env)
      PROVE  /\ d.env.hop.hops + d.env.hop.ttl = MaxHops
             /\ Distance[d.env.body.sender][d.to] <= d.env.hop.hops + 1
  <2>1. /\ d.to \in InRange[n] /\ d.to \in Node
        /\ d.env.body = c.env.body
        /\ d.env.hop.ttl = c.env.hop.ttl - 1
        /\ d.env.hop.hops = c.env.hop.hops + 1
    BY <1>1, OnwardCopies
  <2>2. Distance[c.env.body.sender][d.to] <= Distance[c.env.body.sender][n] + 1
    BY <1>1, <2>1, MeshConstants
  <2>3. /\ c.env.hop.hops + c.env.hop.ttl = MaxHops
        /\ Distance[c.env.body.sender][n] <= c.env.hop.hops + 1
    BY DEF HopsAddUp
  <2>4. Distance[c.env.body.sender][d.to] \in Nat /\ Distance[c.env.body.sender][n] \in Nat
    BY <1>1, <2>1, MeshConstants
  <2> QED
    BY <1>2, <2>1, <2>2, <2>3, <2>4, RouterConstants
<1>4. \A d \in air' : d \in air \/ d \in Onward(n, c.env)
  BY DEF HandleInbound
<1> QED
  BY <1>3, <1>4 DEF HopsAddUp

(* Whatever the network, the way of each copy and the repeats: hops made   *)
(* and hops left add up, and a copy has made at least as many hops as its  *)
(* receiver is away from the sender.                                       *)
THEOREM HopsAccounted == Spec => []HopsAddUp
<1>1. Init => HopsAddUp
  BY DEF Init, HopsAddUp
<1>2. MInv /\ HopsAddUp /\ [Next]_vars => HopsAddUp'
  <2> SUFFICES ASSUME MInv, HopsAddUp, [Next]_vars PROVE HopsAddUp'
    OBVIOUS
  <2>1. ASSUME NEW n \in Node, NEW i \in Id, Announce(n, i) PROVE HopsAddUp'
    <3> DEFINE env == Signed(RouteAnnounce(i, n, MaxHops, 0))
    <3>1. env.body.sender = n /\ env.hop = [ ttl |-> MaxHops, hops |-> 0 ]
      BY MadeFresh
    <3>2. \A d \in Broadcast(n, env) : d.env = env /\ Distance[n][d.to] = 1
      BY MeshConstants DEF Broadcast
    <3>3. air' = air \union Broadcast(n, env)
      BY <2>1 DEF Announce, Make
    <3> QED
      BY <3>1, <3>2, <3>3, RouterConstants DEF HopsAddUp
  <2>2. ASSUME NEW n \in Node, NEW r \in Node, NEW i \in Id, AppSend(n, i, r) PROVE HopsAddUp'
    <3> DEFINE env == Signed(DirectText(i, n, r, MaxHops, 0))
    <3>1. env.body.sender = n /\ env.hop = [ ttl |-> MaxHops, hops |-> 0 ]
      BY MadeFresh
    <3>2. \A d \in Broadcast(n, env) : d.env = env /\ Distance[n][d.to] = 1
      BY MeshConstants DEF Broadcast
    <3>3. air' = air \union Broadcast(n, env)
      BY <2>2 DEF AppSend, Make
    <3> QED
      BY <3>1, <3>2, <3>3, RouterConstants DEF HopsAddUp
  <2>3. ASSUME NEW n \in Node, NEW r \in Node, NEW i \in Id, CliSend(n, i, r) PROVE HopsAddUp'
    <3> DEFINE env == Signed(DirectText(i, n, r, MaxHops, 0))
               copy == [ to |-> n, env |-> env ]
    <3>1. env.body.sender = n /\ env.hop = [ ttl |-> MaxHops, hops |-> 0 ]
      BY MadeFresh
    <3>2. air' = air \union {copy} /\ copy.env = env /\ copy.to = n
      BY <2>3 DEF CliSend, Make
    <3>3. Distance[n][n] = 0
      BY MeshConstants
    <3> HIDE DEF env, copy
    <3> QED
      BY <3>1, <3>2, <3>3, RouterConstants DEF HopsAddUp
  <2>4. \A c \in air : HandleInbound(c, air \ {c}) /\ UNCHANGED <<sent, viaHub, restarts>>
                          => HopsAddUp'
    BY HopsKept
  <2>5. \A c \in air : HandleInbound(c, air) /\ UNCHANGED <<sent, viaHub, restarts>> => HopsAddUp'
    BY HopsKept
  <2>6. ASSUME NEW c \in air, Lose(c) PROVE HopsAddUp'
    BY <2>6 DEF Lose, HopsAddUp
  <2>7. ASSUME NEW n \in Node, Restart(n) PROVE HopsAddUp'
    BY <2>7 DEF Restart, HopsAddUp
  <2>8. UNCHANGED vars => HopsAddUp'
    BY DEF vars, HopsAddUp
  <2> QED
    BY <2>1, <2>2, <2>3, <2>4, <2>5, <2>6, <2>7, <2>8, StepCases
<1> QED
  BY MInvInit, MInvStep, <1>1, <1>2, PTL DEF Spec

-----------------------------------------------------------------------------
(* Copies handled.                                                         *)

(* How often node n can have handled envelope i: never its own or one not  *)
(* made; otherwise once in each past life, and once in this one if it has  *)
(* seen it.                                                                *)
Most(n, i) ==
    IF i \notin DOMAIN sent \/ sent[i].sender = n THEN 0
    ELSE IF i \in DOMAIN seen[n] THEN restarts[n] + 1 ELSE restarts[n]

HandledWithin ==
    \A n \in Node, i \in Id : delivered[n][i] <= Most(n, i) /\ relayed[n][i] <= Most(n, i)

(* Nothing is handled, and no bound gets smaller.                          *)
LEMMA BoundGrows ==
    ASSUME MInv, MInv', HandledWithin, UNCHANGED <<delivered, relayed>>,
           \A n \in Node, i \in Id : Most(n, i) <= Most(n, i)'
    PROVE  HandledWithin'
<1> SUFFICES ASSUME NEW n \in Node, NEW i \in Id
             PROVE  delivered[n][i] <= Most(n, i)' /\ relayed[n][i] <= Most(n, i)'
  BY DEF HandledWithin
<1>1. /\ Most(n, i) \in Nat /\ Most(n, i)' \in Nat
      /\ delivered[n][i] \in Nat /\ relayed[n][i] \in Nat
  BY DEF Most, MInv, TypeOK
<1>2. delivered[n][i] <= Most(n, i) /\ relayed[n][i] <= Most(n, i)
  BY DEF HandledWithin
<1> QED
  BY <1>1, <1>2

(* handle_inbound handles only what the cache of this life does not hold.  *)
LEMMA HandledOnce ==
    ASSUME MInv, HandledWithin, NEW c \in air, NEW rest, HandleInbound(c, rest),
           UNCHANGED <<sent, viaHub, restarts>>
    PROVE  HandledWithin'
<1> DEFINE n == c.to
           i == c.env.body.id
<1>1. n \in Node /\ i \in Id /\ i \in DOMAIN sent /\ sent[i] = c.env.body
  BY DEF MInv, TypeOK, Filed
<1>2. CASE Handles(n, c.env)
  <2>1. /\ sent[i].sender # n /\ i \notin DOMAIN seen[n]
        /\ seen' = [ seen EXCEPT ![n] = Recorded(@, i, 0) ]
    BY <1>1, <1>2 DEF Handles, IsNew, HandleInbound
  <2>2. i \in DOMAIN seen'[n]
    BY <1>1, <2>1 DEF Recorded, MInv, Filed
  <2>3. Most(n, i) = restarts[n] /\ Most(n, i)' = restarts[n] + 1
    BY <1>1, <2>1, <2>2 DEF Most
  <2>4. \A m \in Node, j \in Id : <<m, j>> # <<n, i>> => Most(m, j)' = Most(m, j)
    <3>1. \A m \in Node : m # n => seen'[m] = seen[m]
      BY <2>1 DEF MInv, Filed
    <3>2. DOMAIN seen'[n] = DOMAIN seen[n] \union {i}
      BY <1>1, <2>1 DEF Recorded, MInv, Filed
    <3> QED
      BY <3>1, <3>2 DEF Most
  <2>5. PICK didDeliver, didRelay :
            /\ delivered' = Count(delivered, n, i, didDeliver)
            /\ relayed' = Count(relayed, n, i, didRelay)
    BY <1>2 DEF HandleInbound
  <2>6. /\ delivered'[n][i] <= delivered[n][i] + 1 /\ relayed'[n][i] <= relayed[n][i] + 1
        /\ \A m \in Node, j \in Id : <<m, j>> # <<n, i>> =>
              delivered'[m][j] = delivered[m][j] /\ relayed'[m][j] = relayed[m][j]
        /\ delivered' \in [Node -> [Id -> Nat]] /\ relayed' \in [Node -> [Id -> Nat]]
    BY <1>1, <2>5, Counted DEF MInv, TypeOK
  <2>7. delivered'[n][i] <= Most(n, i)' /\ relayed'[n][i] <= Most(n, i)'
    <3>1. delivered[n][i] <= restarts[n] /\ relayed[n][i] <= restarts[n]
      BY <1>1, <2>3 DEF HandledWithin
    <3>2. /\ restarts[n] \in Nat /\ delivered[n][i] \in Nat /\ relayed[n][i] \in Nat
          /\ delivered'[n][i] \in Nat /\ relayed'[n][i] \in Nat
      BY <1>1, <2>6 DEF MInv, TypeOK
    <3> QED
      BY <2>3, <2>6, <3>1, <3>2
  <2>8. ASSUME NEW m \in Node, NEW j \in Id, <<m, j>> # <<n, i>>
        PROVE  delivered'[m][j] <= Most(m, j)' /\ relayed'[m][j] <= Most(m, j)'
    BY <2>4, <2>6, <2>8 DEF HandledWithin
  <2> QED
    BY <2>7, <2>8 DEF HandledWithin
<1>3. CASE ~Handles(n, c.env)
  BY <1>3 DEF HandleInbound, HandledWithin, Most
<1> QED
  BY <1>2, <1>3

(* A new envelope changes no count, and makes no bound smaller.            *)
LEMMA MakeWithin ==
    ASSUME MInv, MInv', HandledWithin, NEW env, NEW copies, Make(env, copies)
    PROVE  HandledWithin'
<1>1. \A j \in DOMAIN sent : j \in DOMAIN sent' /\ sent'[j] = sent[j]
  BY DEF Make
<1>2. \A n \in Node, j \in Id : Most(n, j) <= Most(n, j)'
  BY <1>1 DEF Make, Most, MInv, TypeOK
<1> QED
  BY <1>2, BoundGrows DEF Make

(* However copies are reordered, repeated and lost, and whenever nodes     *)
(* restart: a node delivers and relays an envelope at most once in each of *)
(* its lives, and never its own.                                           *)
THEOREM HandledOncePerLife == Spec => []OncePerLife
<1>1. Init => HandledWithin
  BY DEF Init, HandledWithin, Most
<1>2. MInv /\ MInv' /\ HandledWithin /\ [Next]_vars => HandledWithin'
  <2> SUFFICES ASSUME MInv, MInv', HandledWithin, [Next]_vars PROVE HandledWithin'
    OBVIOUS
  <2>1. ASSUME NEW n \in Node, NEW i \in Id, Announce(n, i) PROVE HandledWithin'
    BY <2>1, MakeWithin DEF Announce
  <2>2. ASSUME NEW n \in Node, NEW r \in Node, NEW i \in Id, AppSend(n, i, r)
        PROVE  HandledWithin'
    BY <2>2, MakeWithin DEF AppSend
  <2>3. ASSUME NEW n \in Node, NEW r \in Node, NEW i \in Id, CliSend(n, i, r)
        PROVE  HandledWithin'
    BY <2>3, MakeWithin DEF CliSend
  <2>4. \A c \in air : HandleInbound(c, air \ {c}) /\ UNCHANGED <<sent, viaHub, restarts>>
                          => HandledWithin'
    BY HandledOnce
  <2>5. \A c \in air : HandleInbound(c, air) /\ UNCHANGED <<sent, viaHub, restarts>>
                          => HandledWithin'
    BY HandledOnce
  <2>6. ASSUME NEW c \in air, Lose(c) PROVE HandledWithin'
    BY <2>6 DEF Lose, HandledWithin, Most
  <2>7. ASSUME NEW n \in Node, Restart(n) PROVE HandledWithin'
    <3>1. \A m \in Node : restarts'[m] = IF m = n THEN restarts[m] + 1 ELSE restarts[m]
      BY <2>7 DEF Restart, MInv, TypeOK
    <3>2. \A m \in Node : m # n => seen'[m] = seen[m]
      BY <2>7 DEF Restart, MInv, Filed
    <3>3. \A m \in Node, j \in Id : Most(m, j) <= Most(m, j)'
      BY <2>7, <3>1, <3>2 DEF Restart, Most, MInv, TypeOK
    <3> QED
      BY <2>7, <3>3, BoundGrows DEF Restart
  <2>8. UNCHANGED vars => HandledWithin'
    BY DEF vars, HandledWithin, Most
  <2> QED
    BY <2>1, <2>2, <2>3, <2>4, <2>5, <2>6, <2>7, <2>8, StepCases
<1>3. MInv /\ HandledWithin => OncePerLife
  <2> SUFFICES ASSUME MInv, HandledWithin, NEW n \in Node, NEW i \in DOMAIN sent
               PROVE  LET lives == IF sent[i].sender = n THEN 0 ELSE 1 + restarts[n] IN
                      delivered[n][i] <= lives /\ relayed[n][i] <= lives
    BY DEF OncePerLife
  <2>1. /\ i \in Id /\ restarts[n] \in Nat
        /\ delivered[n][i] \in Nat /\ relayed[n][i] \in Nat
    BY DEF MInv, TypeOK, Filed
  <2>2. delivered[n][i] <= Most(n, i) /\ relayed[n][i] <= Most(n, i)
    BY <2>1 DEF HandledWithin
  <2> QED
    BY <2>1, <2>2 DEF Most
<1> QED
  BY MInvInit, MInvStep, <1>1, <1>2, <1>3, PTL DEF Spec

=============================================================================
