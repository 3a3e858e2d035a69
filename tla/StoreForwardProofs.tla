-------------------------- MODULE StoreForwardProofs --------------------------
(***************************************************************************)
(* StoreForward.tla for every set of envelopes, every capacity, backoff    *)
(* and retention: no envelope is duplicated, and none is lost but by the   *)
(* ways the module names; what the attempts field can tell; that the caps  *)
(* hold, and that no due envelope overtakes another.                       *)
(*                                                                         *)
(* The proofs are about Held, the map together with what dequeue_due has   *)
(* out of it: a turn of its loop leaves Held as it is, so that the loop's  *)
(* own invariant (Walking) is all that is said of a walk in progress.      *)
(***************************************************************************)
EXTENDS StoreForward, FiniteSetTheorems, TLAPS

-----------------------------------------------------------------------------

(* Maps: none, one filed later, one with an entry more, with fewer, and    *)
(* two in one.                                                             *)
LEMMA MapEmpty == \A t : IsMap(<< >>, t)
  BY DEF IsMap

LEMMA MapLater ==
    ASSUME NEW f, NEW t \in Nat, NEW u \in Nat, t <= u, IsMap(f, t)
    PROVE  IsMap(f, u)
<1>1. \A k \in DOMAIN f : f[k].at \in Nat
  BY DEF IsMap, Entry
<1>2. \A k \in DOMAIN f : f[k].at <= u
  BY <1>1 DEF IsMap
<1> QED
  BY <1>2 DEF IsMap

LEMMA MapPut ==
    ASSUME NEW f, NEW t \in Nat, IsMap(f, t),
           NEW key \in Key, NEW entry \in Entry,
           key[2] <= entry.at, entry.at <= t
    PROVE  IsMap(Put(f, key, entry), t)
<1> DEFINE g == Put(f, key, entry)
<1>1. /\ DOMAIN g = DOMAIN f \union {key}
      /\ \A k \in DOMAIN g : g[k] = IF k = key THEN entry ELSE f[k]
      /\ g = [ k \in DOMAIN g |-> g[k] ]
  BY DEF Put, Over
<1> HIDE DEF g
<1>2. g \in [DOMAIN g -> Entry]
  BY <1>1 DEF IsMap
<1> QED
  BY <1>1, <1>2 DEF IsMap, g

LEMMA MapOver ==
    ASSUME NEW f, NEW g, NEW t \in Nat, IsMap(f, t), IsMap(g, t)
    PROVE  IsMap(Over(f, g), t)
<1> DEFINE h == Over(f, g)
<1>1. /\ DOMAIN h = DOMAIN f \union DOMAIN g
      /\ \A k \in DOMAIN h : h[k] = IF k \in DOMAIN g THEN g[k] ELSE f[k]
      /\ h = [ k \in DOMAIN h |-> h[k] ]
  BY DEF Over
<1> HIDE DEF h
<1>2. h \in [DOMAIN h -> Entry]
  BY <1>1 DEF IsMap
<1> QED
  BY <1>1, <1>2 DEF IsMap, h

LEMMA MapRestricted ==
    ASSUME NEW f, NEW t \in Nat, IsMap(f, t), NEW K, K \subseteq DOMAIN f
    PROVE  IsMap(Restrict(f, K), t)
  BY DEF IsMap, Restrict

LEMMA MapWithout ==
    ASSUME NEW f, NEW t \in Nat, IsMap(f, t), NEW K
    PROVE  IsMap(Without(f, K), t)
  BY MapRestricted DEF Without

-----------------------------------------------------------------------------

(* The invariant of dequeue_due's loop: what is not visited is in the map, *)
(* what is visited was sorted by whether it was due, and each key visited  *)
(* comes before all that are not.                                          *)
Walking ==
    /\ limit \in Nat
    /\ ~busy => todo = {} /\ DOMAIN out = {} /\ DOMAIN toRequeue = {}
    /\ busy => todo = DOMAIN queue
    /\ DOMAIN queue \intersect (DOMAIN out \union DOMAIN toRequeue) = {}
    /\ DOMAIN out \intersect DOMAIN toRequeue = {}
    /\ \A k \in DOMAIN out : IsDue(out[k], asked)
    /\ \A k \in DOMAIN toRequeue : ~IsDue(toRequeue[k], asked)
    /\ \A k \in DOMAIN out \union DOMAIN toRequeue, j \in todo : Before(k, j)
    /\ IsFiniteSet(DOMAIN out) /\ Cardinality(DOMAIN out) <= limit

LEMMA WalkingHolds == Spec => []Walking
<1>0. IsFiniteSet({}) /\ Cardinality({}) = 0
  BY FS_EmptySet
<1>1. Init => Walking
  <2> SUFFICES ASSUME Init PROVE Walking
    OBVIOUS
  <2>1. /\ limit = 0 /\ busy = FALSE /\ todo = {} /\ DOMAIN queue = {}
        /\ DOMAIN out = {} /\ DOMAIN toRequeue = {}
    BY DEF Init
  <2>2. IsFiniteSet(DOMAIN out) /\ Cardinality(DOMAIN out) <= limit
    BY <1>0, <2>1
  <2> QED
    BY <2>1, <2>2 DEF Walking
<1>2. Walking /\ [Next]_vars => Walking'
  <2> SUFFICES ASSUME Walking, [Next]_vars PROVE Walking'
    OBVIOUS
  <2>a. ASSUME ~busy, UNCHANGED walk PROVE Walking'
    <3>1. todo = {} /\ DOMAIN out = {} /\ DOMAIN toRequeue = {}
      BY <2>a DEF Walking
    <3> QED
      BY <2>a, <3>1 DEF walk, Walking
  <2>b. ASSUME UNCHANGED walk, UNCHANGED queue PROVE Walking'
    BY <2>b DEF walk, Walking, IsDue
  <2>1. ASSUME Tick PROVE Walking'
    BY <2>1, <2>b DEF Tick
  <2>2. ASSUME NEW e \in Env, NEW p \in Priority, Enqueue(e, p) PROVE Walking'
    BY <2>2, <2>a DEF Enqueue
  <2>3. ASSUME NEW n \in Batches, StartDequeue(n) PROVE Walking'
    <3>1. /\ busy' /\ limit' = n /\ limit' \in Nat
          /\ todo' = DOMAIN queue' /\ out' = out /\ toRequeue' = toRequeue
          /\ DOMAIN out = {} /\ DOMAIN toRequeue = {}
      BY <2>3, QueueConstants DEF StartDequeue, Walking
    <3>2. IsFiniteSet(DOMAIN out') /\ Cardinality(DOMAIN out') <= limit'
      BY <1>0, <3>1
    <3> QED
      BY <3>1, <3>2 DEF Walking
  <2>4. ASSUME DequeueNext PROVE Walking'
    <3>1. PICK key \in todo :
            /\ \A j \in todo \ {key} : Before(key, j)
            /\ todo' = todo \ {key}
            /\ queue' = Without(queue, {key})
            /\ IF IsDue(queue[key], asked)
                 THEN out' = Put(out, key, queue[key]) /\ toRequeue' = toRequeue
                 ELSE toRequeue' = Put(toRequeue, key, queue[key]) /\ out' = out
      BY <2>4 DEF DequeueNext, ComesNext
    <3>2. /\ busy /\ busy' /\ limit' = limit /\ asked' = asked
          /\ Cardinality(DOMAIN out) < limit
      BY <2>4 DEF DequeueNext
    <3>3. /\ key \in DOMAIN queue /\ todo = DOMAIN queue
          /\ key \notin DOMAIN out /\ key \notin DOMAIN toRequeue
          /\ DOMAIN queue' = DOMAIN queue \ {key}
      BY <3>1, <3>2 DEF Walking, Without, Restrict
    <3>4. CASE IsDue(queue[key], asked)
      <4>1. /\ toRequeue' = toRequeue
            /\ DOMAIN out' = DOMAIN out \union {key}
            /\ \A k \in DOMAIN out' : out'[k] = IF k = key THEN queue[key] ELSE out[k]
        BY <3>1, <3>4 DEF Put, Over
      <4>2. /\ IsFiniteSet(DOMAIN out \union {key})
            /\ Cardinality(DOMAIN out \union {key}) = Cardinality(DOMAIN out) + 1
            /\ Cardinality(DOMAIN out) \in Nat
        BY <3>3, FS_AddElement, FS_CardinalityType DEF Walking
      <4>3. IsFiniteSet(DOMAIN out') /\ Cardinality(DOMAIN out') <= limit'
        BY <3>2, <4>1, <4>2 DEF Walking
      <4>4. \A k \in DOMAIN out' : IsDue(out'[k], asked')
        BY <3>2, <3>4, <4>1 DEF Walking
      <4>5. \A k \in DOMAIN toRequeue' : ~IsDue(toRequeue'[k], asked')
        BY <3>2, <4>1 DEF Walking
      <4>6. \A k \in DOMAIN out' \union DOMAIN toRequeue', j \in todo' : Before(k, j)
        BY <3>1, <4>1 DEF Walking
      <4> QED
        BY <3>1, <3>2, <3>3, <4>1, <4>3, <4>4, <4>5, <4>6 DEF Walking
    <3>5. CASE ~IsDue(queue[key], asked)
      <4>1. /\ out' = out
            /\ DOMAIN toRequeue' = DOMAIN toRequeue \union {key}
            /\ \A k \in DOMAIN toRequeue' :
                  toRequeue'[k] = IF k = key THEN queue[key] ELSE toRequeue[k]
        BY <3>1, <3>5 DEF Put, Over
      <4>2. \A k \in DOMAIN out' : IsDue(out'[k], asked')
        BY <3>2, <4>1 DEF Walking
      <4>3. \A k \in DOMAIN toRequeue' : ~IsDue(toRequeue'[k], asked')
        BY <3>2, <3>5, <4>1 DEF Walking
      <4>4. \A k \in DOMAIN out' \union DOMAIN toRequeue', j \in todo' : Before(k, j)
        BY <3>1, <4>1 DEF Walking
      <4> QED
        BY <3>1, <3>2, <3>3, <4>1, <4>2, <4>3, <4>4 DEF Walking
    <3> QED
      BY <3>4, <3>5
  <2>5. ASSUME EndDequeue PROVE Walking'
    <3>1. /\ limit' = 0 /\ busy' = FALSE /\ todo' = {}
          /\ DOMAIN out' = {} /\ DOMAIN toRequeue' = {}
      BY <2>5 DEF EndDequeue
    <3>2. IsFiniteSet(DOMAIN out') /\ Cardinality(DOMAIN out') <= limit'
      BY <1>0, <3>1
    <3> QED
      BY <3>1, <3>2 DEF Walking
  <2>6. ASSUME NEW r \in Recipient, DrainFor(r) PROVE Walking'
    BY <2>6, <2>a DEF DrainFor
  <2>7. ASSUME NEW e \in Env, Deliver(e) PROVE Walking'
    BY <2>7, <2>b DEF Deliver
  <2>8. ASSUME NEW e \in Env, Requeue(e) PROVE Walking'
    BY <2>8, <2>a DEF Requeue
  <2>9. ASSUME Gc PROVE Walking'
    BY <2>9, <2>a DEF Gc
  <2>10. ASSUME UNCHANGED vars PROVE Walking'
    BY <2>10, <2>b DEF vars
  <2> QED
    BY <2>1, <2>2, <2>3, <2>4, <2>5, <2>6, <2>7, <2>8, <2>9, <2>10 DEF Next
<1> QED
  BY <1>1, <1>2, PTL DEF Spec

-----------------------------------------------------------------------------

(* What filing an envelope, or giving a map's to the client, leaves of its *)
(* type.                                                                   *)
LEMMA InsertTyped ==
    ASSUME TypeOK, NEW e \in Env, NEW p \in Priority, NEW attempts \in Nat,
           Insert(e, p, attempts)
    PROVE  /\ now' \in Nat /\ now <= now'
           /\ IsMap(queue', now')
           /\ where' \in [Env -> Place]
<1>1. PICK at \in now..MaxTime :
         /\ queue' = Put(queue, <<p, now>>, [ env |-> e, at |-> at, attempts |-> attempts ])
         /\ now' = at
  BY DEF Insert
<1>2. now \in Nat /\ MaxTime \in Nat
  BY QueueConstants DEF TypeOK
<1>3. at \in Nat /\ now <= at
  BY <1>2
<1>4. <<p, now>> \in Key /\ [ env |-> e, at |-> at, attempts |-> attempts ] \in Entry
  BY <1>2, <1>3 DEF Key, Entry
<1>5. IsMap(queue, at)
  BY <1>2, <1>3, MapLater DEF TypeOK
<1>6. IsMap(queue', now')
  BY <1>1, <1>3, <1>4, <1>5, MapPut
<1>7. where' \in [Env -> Place]
  <2>1. \A x \in Env : where[x] \in Place
    BY DEF TypeOK
  <2>2. where' = [ x \in Env |->
                     IF x = e THEN "queued"
                     ELSE IF <<p, now>> \in DOMAIN queue /\ x = queue[<<p, now>>].env
                            THEN "overwritten" ELSE where[x] ]
    BY DEF Insert
  <2> QED
    BY <2>1, <2>2 DEF Place
<1> QED
  BY <1>1, <1>3, <1>6, <1>7

LEMMA GiveTyped ==
    ASSUME TypeOK, NEW map, IsMap(map, now), Give(map)
    PROVE  /\ DOMAIN inHand' \subseteq Env
           /\ inHand' \in [DOMAIN inHand' -> Priority]
           /\ handed' \in [Env -> Nat]
           /\ where' \in [Env -> Place]
<1> DEFINE given == { map[k].env : k \in DOMAIN map }
<1>1. given \subseteq Env
  BY DEF IsMap, Entry
<1>2. ASSUME NEW e \in given
      PROVE  (CHOOSE k \in DOMAIN map : map[k].env = e)[1] \in Priority
  <2>1. (CHOOSE k \in DOMAIN map : map[k].env = e) \in DOMAIN map
    BY <1>2
  <2> QED
    BY <2>1 DEF IsMap, Key
<1>3. DOMAIN inHand' \subseteq Env /\ inHand' \in [DOMAIN inHand' -> Priority]
  BY <1>1, <1>2 DEF Give, TypeOK
<1>4. handed' \in [Env -> Nat]
  BY DEF Give, TypeOK
<1>5. where' \in [Env -> Place]
  BY DEF Give, TypeOK, Place
<1> QED
  BY <1>3, <1>4, <1>5

(* Every reachable state has its type; in particular each entry's key has  *)
(* an instant no later than the entry's own, and neither is ahead of the   *)
(* clock.                                                                  *)
THEOREM TypeCorrect == Spec => []TypeOK
<1>1. Init => TypeOK
  <2> SUFFICES ASSUME Init PROVE TypeOK
    OBVIOUS
  <2>1. IsMap(queue, now) /\ IsMap(out, now) /\ IsMap(toRequeue, now)
    BY MapEmpty DEF Init
  <2>2. DOMAIN inHand \subseteq Env /\ inHand \in [DOMAIN inHand -> Priority]
    BY DEF Init
  <2>3. handed \in [Env -> Nat] /\ where \in [Env -> Place]
    BY DEF Init, Place
  <2> QED
    BY <2>1, <2>2, <2>3 DEF Init, TypeOK
<1>2. TypeOK /\ Walking /\ [Next]_vars => TypeOK'
  <2> SUFFICES ASSUME TypeOK, Walking, [Next]_vars PROVE TypeOK'
    OBVIOUS
  <2> USE DEF walk
  <2>1. ASSUME Tick PROVE TypeOK'
    <3>1. now \in Nat /\ now' \in Nat /\ now <= now'
      BY <2>1 DEF Tick, TypeOK
    <3>2. IsMap(queue, now') /\ IsMap(out, now') /\ IsMap(toRequeue, now')
      BY <3>1, MapLater DEF TypeOK
    <3> QED
      BY <2>1, <3>1, <3>2 DEF Tick, TypeOK
  <2>a. ASSUME NEW e \in Env, NEW p \in Priority, NEW attempts \in Nat,
               ~busy, Insert(e, p, attempts), UNCHANGED <<walk, handed>>,
               DOMAIN inHand' \subseteq Env, inHand' \in [DOMAIN inHand' -> Priority]
        PROVE  TypeOK'
    <3>1. now' \in Nat /\ now <= now' /\ IsMap(queue', now') /\ where' \in [Env -> Place]
      BY <2>a, InsertTyped
    <3>2. IsMap(out, now') /\ IsMap(toRequeue, now') /\ now \in Nat
      BY <3>1, MapLater DEF TypeOK
    <3> QED
      BY <2>a, <3>1, <3>2 DEF TypeOK
  <2>2. ASSUME NEW e \in Env, NEW p \in Priority, Enqueue(e, p) PROVE TypeOK'
    <3>1. CASE Insert(e, p, 0)
      BY <2>2, <2>a, <3>1 DEF Enqueue, TypeOK
    <3>2. CASE Refuse(e)
      BY <2>2, <3>2 DEF Enqueue, Refuse, TypeOK, Place
    <3> QED
      BY <2>2, <3>1, <3>2 DEF Enqueue
  <2>3. ASSUME NEW n \in Batches, StartDequeue(n) PROVE TypeOK'
    BY <2>3, QueueConstants DEF StartDequeue, TypeOK, IsMap
  <2>4. ASSUME DequeueNext PROVE TypeOK'
    <3>1. PICK key \in todo :
            /\ todo' = todo \ {key}
            /\ queue' = Without(queue, {key})
            /\ \/ out' = Put(out, key, queue[key]) /\ toRequeue' = toRequeue
               \/ toRequeue' = Put(toRequeue, key, queue[key]) /\ out' = out
      BY <2>4 DEF DequeueNext
    <3>2. now' = now /\ now \in Nat
      BY <2>4 DEF DequeueNext, TypeOK
    <3>3. /\ key \in Key /\ queue[key] \in Entry
          /\ key[2] <= queue[key].at /\ queue[key].at <= now
      BY <2>4 DEF DequeueNext, TypeOK, IsMap, Walking
    <3>4. IsMap(queue', now)
      BY <3>1, <3>2, MapWithout DEF TypeOK
    <3>5. IsMap(out', now) /\ IsMap(toRequeue', now)
      BY <3>1, <3>2, <3>3, MapPut DEF TypeOK
    <3>6. todo' \subseteq Key
      BY <3>1 DEF TypeOK
    <3> QED
      BY <2>4, <3>2, <3>4, <3>5, <3>6 DEF DequeueNext, TypeOK
  <2>5. ASSUME EndDequeue PROVE TypeOK'
    <3>1. now' = now /\ now \in Nat
      BY <2>5 DEF EndDequeue, TypeOK
    <3>2. IsMap(queue', now)
      BY <2>5, <3>1, MapOver DEF EndDequeue, PutBack, TypeOK
    <3>3. IsMap(out', now) /\ IsMap(toRequeue', now)
      BY <2>5, MapEmpty DEF EndDequeue
    <3>4. /\ DOMAIN inHand' \subseteq Env
          /\ inHand' \in [DOMAIN inHand' -> Priority]
          /\ handed' \in [Env -> Nat]
          /\ where' \in [Env -> Place]
      BY <2>5, GiveTyped DEF EndDequeue, TypeOK
    <3> QED
      BY <2>5, <3>1, <3>2, <3>3, <3>4 DEF EndDequeue, TypeOK
  <2>6. ASSUME NEW r \in Recipient, DrainFor(r) PROVE TypeOK'
    <3> DEFINE drained == AddressedTo(queue, r)
    <3>1. now' = now /\ now \in Nat /\ drained \subseteq DOMAIN queue
      BY <2>6 DEF DrainFor, TypeOK, AddressedTo
    <3>2. IsMap(queue', now) /\ IsMap(Restrict(queue, drained), now)
      BY <2>6, <3>1, MapWithout, MapRestricted DEF DrainFor, TypeOK
    <3>3. /\ DOMAIN inHand' \subseteq Env
          /\ inHand' \in [DOMAIN inHand' -> Priority]
          /\ handed' \in [Env -> Nat]
          /\ where' \in [Env -> Place]
      BY <2>6, <3>2, GiveTyped DEF DrainFor
    <3> QED
      BY <2>6, <3>1, <3>2, <3>3 DEF DrainFor, TypeOK
  <2>7. ASSUME NEW e \in Env, Deliver(e) PROVE TypeOK'
    BY <2>7 DEF Deliver, LetGo, Restrict, TypeOK, Place
  <2>8. ASSUME NEW e \in Env, Requeue(e) PROVE TypeOK'
    <3>1. inHand[e] \in Priority
      BY <2>8 DEF Requeue, TypeOK
    <3>2. DOMAIN inHand' \subseteq Env /\ inHand' \in [DOMAIN inHand' -> Priority]
      BY <2>8 DEF Requeue, LetGo, Restrict, TypeOK
    <3>3. CASE Insert(e, inHand[e], 1)
      BY <2>8, <2>a, <3>1, <3>2, <3>3 DEF Requeue
    <3>4. CASE Refuse(e)
      BY <2>8, <3>2, <3>4 DEF Requeue, Refuse, TypeOK, Place
    <3> QED
      BY <2>8, <3>3, <3>4 DEF Requeue
  <2>9. ASSUME Gc PROVE TypeOK'
    <3>1. IsMap(queue', now)
      BY <2>9, MapWithout DEF Gc, TypeOK
    <3> QED
      BY <2>9, <3>1 DEF Gc, TypeOK, Place
  <2>10. ASSUME UNCHANGED vars PROVE TypeOK'
    BY <2>10 DEF vars, TypeOK
  <2> QED
    BY <2>1, <2>2, <2>3, <2>4, <2>5, <2>6, <2>7, <2>8, <2>9, <2>10 DEF Next
<1> QED
  BY <1>1, <1>2, WalkingHolds, PTL DEF Spec

-----------------------------------------------------------------------------

LEMMA HeldIsMap ==
    ASSUME TypeOK
    PROVE  IsMap(Held, now)
<1>1. now \in Nat
  BY DEF TypeOK
<1>2. IsMap(Over(queue, toRequeue), now)
  BY <1>1, MapOver DEF TypeOK
<1> QED
  BY <1>1, <1>2, MapOver DEF TypeOK, Held

(* Without a walk, what is held is the map.                                *)
LEMMA HeldIsQueue ==
    ASSUME TypeOK, Walking, ~busy
    PROVE  Held = queue
<1>1. DOMAIN out = {} /\ DOMAIN toRequeue = {}
  BY DEF Walking
<1>2. queue = [ k \in DOMAIN queue |-> queue[k] ]
  BY DEF TypeOK, IsMap
<1>3. Over(queue, toRequeue) = queue
  BY <1>1, <1>2 DEF Over
<1> QED
  BY <1>1, <1>2, <1>3 DEF Over, Held

LEMMA HeldIsQueueAfter ==
    ASSUME TypeOK, TypeOK', Walking, ~busy, UNCHANGED walk
    PROVE  Held' = queue'
<1>1. /\ DOMAIN out = {} /\ DOMAIN toRequeue = {}
      /\ out' = out /\ toRequeue' = toRequeue
  BY DEF Walking, walk
<1>2. queue' = [ k \in DOMAIN queue' |-> queue'[k] ]
  BY DEF TypeOK, IsMap
<1>3. Over(queue', toRequeue') = queue'
  BY <1>1, <1>2 DEF Over
<1>4. Over(queue', out') = queue'
  BY <1>1, <1>2 DEF Over
<1> QED
  BY <1>3, <1>4 DEF Held

(* A turn of the loop moves an entry, and holds what was held.             *)
LEMMA TurnHolds ==
    ASSUME TypeOK, Walking, DequeueNext
    PROVE  Held' = Held
<1>1. PICK key \in todo :
        /\ queue' = Without(queue, {key})
        /\ \/ out' = Put(out, key, queue[key]) /\ toRequeue' = toRequeue
           \/ toRequeue' = Put(toRequeue, key, queue[key]) /\ out' = out
  BY DEF DequeueNext
<1>2. /\ key \in DOMAIN queue /\ key \notin DOMAIN out /\ key \notin DOMAIN toRequeue
      /\ DOMAIN queue \intersect DOMAIN out = {}
      /\ DOMAIN queue \intersect DOMAIN toRequeue = {}
      /\ DOMAIN toRequeue \intersect DOMAIN out = {}
  BY DEF DequeueNext, Walking
<1> DEFINE At(q, r, o, k) == IF k \in DOMAIN o THEN o[k]
                             ELSE IF k \in DOMAIN r THEN r[k] ELSE q[k]
<1>3. /\ Held = [ k \in DOMAIN queue \union DOMAIN toRequeue \union DOMAIN out
                    |-> At(queue, toRequeue, out, k) ]
      /\ Held' = [ k \in DOMAIN queue' \union DOMAIN toRequeue' \union DOMAIN out'
                    |-> At(queue', toRequeue', out', k) ]
  BY DEF Held, Over
<1>4. /\ DOMAIN queue' = DOMAIN queue \ {key}
      /\ \A k \in DOMAIN queue' : queue'[k] = queue[k]
  BY <1>1 DEF Without, Restrict
<1>5. CASE out' = Put(out, key, queue[key]) /\ toRequeue' = toRequeue
  <2>1. /\ DOMAIN out' = DOMAIN out \union {key}
        /\ \A k \in DOMAIN out' : out'[k] = IF k = key THEN queue[key] ELSE out[k]
    BY <1>5 DEF Put, Over
  <2>2. DOMAIN queue' \union DOMAIN toRequeue' \union DOMAIN out'
          = DOMAIN queue \union DOMAIN toRequeue \union DOMAIN out
    BY <1>2, <1>4, <1>5, <2>1
  <2>3. ASSUME NEW k \in DOMAIN queue \union DOMAIN toRequeue \union DOMAIN out
        PROVE  At(queue', toRequeue', out', k) = At(queue, toRequeue, out, k)
    BY <1>2, <1>4, <1>5, <2>1
  <2> HIDE DEF At
  <2> QED
    BY <1>3, <2>2, <2>3
<1>6. CASE toRequeue' = Put(toRequeue, key, queue[key]) /\ out' = out
  <2>1. /\ DOMAIN toRequeue' = DOMAIN toRequeue \union {key}
        /\ \A k \in DOMAIN toRequeue' :
              toRequeue'[k] = IF k = key THEN queue[key] ELSE toRequeue[k]
    BY <1>6 DEF Put, Over
  <2>2. DOMAIN queue' \union DOMAIN toRequeue' \union DOMAIN out'
          = DOMAIN queue \union DOMAIN toRequeue \union DOMAIN out
    BY <1>2, <1>4, <1>6, <2>1
  <2>3. ASSUME NEW k \in DOMAIN queue \union DOMAIN toRequeue \union DOMAIN out
        PROVE  At(queue', toRequeue', out', k) = At(queue, toRequeue, out, k)
    BY <1>2, <1>4, <1>6, <2>1
  <2> HIDE DEF At
  <2> QED
    BY <1>3, <2>2, <2>3
<1> QED
  BY <1>1, <1>5, <1>6

-----------------------------------------------------------------------------

(* What the calls do to what is held.                                      *)
Filed(e, p, attempts) ==
    /\ \E at \in Nat :
          Held' = Put(Held, <<p, now>>, [ env |-> e, at |-> at, attempts |-> attempts ])
    /\ where' = [ x \in Env |->
                    IF x = e THEN "queued"
                    ELSE IF <<p, now>> \in DOMAIN Held /\ x = Held[<<p, now>>].env
                           THEN "overwritten" ELSE where[x] ]

Dropped(e) == Held' = Held /\ where' = [ where EXCEPT ![e] = "refused" ]

HandOut(K) == Held' = Without(Held, K) /\ Give(Restrict(Held, K))

Collected(K) ==
    /\ Held' = Without(Held, K)
    /\ where' = [ e \in Env |-> IF \E k \in K : Held[k].env = e THEN "expired" ELSE where[e] ]

(* The end of a walk hands out what it took from all that was held.        *)
LEMMA WalkHandsOut ==
    ASSUME TypeOK, Walking, EndDequeue
    PROVE  DOMAIN out \subseteq DOMAIN Held /\ HandOut(DOMAIN out)
<1>1. /\ DOMAIN queue \intersect DOMAIN out = {}
      /\ DOMAIN toRequeue \intersect DOMAIN out = {}
  BY DEF Walking
<1>2. out = [ k \in DOMAIN out |-> out[k] ]
  BY DEF TypeOK, IsMap
<1>3. /\ DOMAIN Held = DOMAIN queue \union DOMAIN toRequeue \union DOMAIN out
      /\ \A k \in DOMAIN out : Held[k] = out[k]
      /\ \A k \in DOMAIN queue \union DOMAIN toRequeue :
            Held[k] = IF k \in DOMAIN toRequeue THEN toRequeue[k] ELSE queue[k]
  BY <1>1 DEF Held, Over
<1>4. Restrict(Held, DOMAIN out) = out
  BY <1>2, <1>3 DEF Restrict
<1>5. /\ DOMAIN out' = {} /\ DOMAIN toRequeue' = {}
      /\ queue' = [ k \in DOMAIN queue \union DOMAIN toRequeue |->
                      IF k \in DOMAIN toRequeue THEN toRequeue[k] ELSE queue[k] ]
  BY DEF EndDequeue, PutBack, Over
<1>6. DOMAIN Held \ DOMAIN out = DOMAIN queue \union DOMAIN toRequeue
  BY <1>1, <1>3
<1>7. queue' = [ k \in DOMAIN Held \ DOMAIN out |-> Held[k] ]
  BY <1>3, <1>5, <1>6
<1>8. Over(queue', toRequeue') = queue'
  BY <1>5, <1>7 DEF Over
<1>9. Over(queue', out') = queue'
  BY <1>5, <1>7 DEF Over
<1>10. Held' = Without(Held, DOMAIN out)
  BY <1>7, <1>8, <1>9 DEF Held, Without, Restrict
<1> QED
  BY <1>3, <1>4, <1>10 DEF HandOut, EndDequeue

(* A step of Next, as far as what is held, the client and the history are  *)
(* concerned, is one of these.                                             *)
LEMMA StepCases ==
    ASSUME TypeOK, TypeOK', Walking, [Next]_vars,
           NEW P,
           UNCHANGED <<Held, inHand, handed, where>> => P,
           \A e \in Env, p \in Priority :
              /\ where[e] = "new" /\ Filed(e, p, 0) /\ UNCHANGED <<inHand, handed>>
              /\ Cardinality(DOMAIN Held) < MaxTotal
              /\ Cardinality(AddressedTo(Held, RecipientOf[e])) < MaxPerRecipient
              => P,
           \A e \in Env :
              where[e] = "new" /\ Dropped(e) /\ UNCHANGED <<inHand, handed>> => P,
           \A K \in SUBSET DOMAIN Held : HandOut(K) => P,
           \A e \in Env :
              /\ e \in DOMAIN inHand /\ LetGo(e) /\ UNCHANGED <<Held, handed>>
              /\ where' = [ where EXCEPT ![e] = "delivered" ]
              => P,
           \A e \in Env :
              /\ e \in DOMAIN inHand /\ LetGo(e) /\ UNCHANGED handed
              /\ Filed(e, inHand[e], 1) /\ Cardinality(DOMAIN Held) < MaxTotal
              => P,
           \A e \in Env :
              e \in DOMAIN inHand /\ LetGo(e) /\ UNCHANGED handed /\ Dropped(e) => P,
           \A K \in SUBSET DOMAIN Held : Collected(K) /\ UNCHANGED <<inHand, handed>> => P
    PROVE  P
<1>a. ASSUME UNCHANGED <<queue, walk>> PROVE Held' = Held
  BY <1>a DEF walk, Held
<1>b. ASSUME NEW e \in Env, NEW p \in Priority, NEW attempts \in Nat,
             ~busy, UNCHANGED walk, Insert(e, p, attempts)
      PROVE  Filed(e, p, attempts)
  <2>1. Held = queue /\ Held' = queue'
    BY <1>b, HeldIsQueue, HeldIsQueueAfter
  <2>2. \E at \in Nat :
           queue' = Put(queue, <<p, now>>, [ env |-> e, at |-> at, attempts |-> attempts ])
    <3>1. PICK at \in now..MaxTime :
            queue' = Put(queue, <<p, now>>, [ env |-> e, at |-> at, attempts |-> attempts ])
      BY <1>b DEF Insert
    <3>2. at \in Nat
      BY QueueConstants DEF TypeOK
    <3> QED
      BY <3>1, <3>2
  <2>3. where' = [ x \in Env |->
                     IF x = e THEN "queued"
                     ELSE IF <<p, now>> \in DOMAIN queue /\ x = queue[<<p, now>>].env
                            THEN "overwritten" ELSE where[x] ]
    BY <1>b DEF Insert
  <2> QED
    BY <2>1, <2>2, <2>3 DEF Filed
<1>c. ASSUME NEW e \in Env, UNCHANGED walk, Refuse(e) PROVE Dropped(e)
  BY <1>c, <1>a DEF Refuse, Dropped
<1>1. ASSUME Tick PROVE P
  BY <1>1, <1>a DEF Tick
<1>2. ASSUME NEW e \in Env, NEW p \in Priority, Enqueue(e, p) PROVE P
  <2>1. ~busy /\ UNCHANGED walk /\ Held = queue /\ where[e] = "new"
    BY <1>2, HeldIsQueue DEF Enqueue
  <2>2. CASE HasRoom(e)
    <3>1. Insert(e, p, 0)
      BY <1>2, <2>2 DEF Enqueue
    <3>2. Filed(e, p, 0)
      BY <1>b, <2>1, <3>1
    <3> QED
      BY <1>2, <2>1, <2>2, <3>2 DEF HasRoom, Enqueue
  <2>3. CASE ~HasRoom(e)
    BY <1>2, <1>c, <2>1, <2>3 DEF Enqueue
  <2> QED
    BY <2>2, <2>3
<1>3. ASSUME NEW n \in Batches, StartDequeue(n) PROVE P
  <2>1. Held' = Held
    BY <1>3 DEF StartDequeue, Held
  <2> QED
    BY <1>3, <2>1 DEF StartDequeue
<1>4. ASSUME DequeueNext PROVE P
  BY <1>4, TurnHolds DEF DequeueNext
<1>5. ASSUME EndDequeue PROVE P
  BY <1>5, WalkHandsOut
<1>6. ASSUME NEW r \in Recipient, DrainFor(r) PROVE P
  <2>1. Held = queue /\ Held' = queue'
    BY <1>6, HeldIsQueue, HeldIsQueueAfter DEF DrainFor
  <2>2. AddressedTo(queue, r) \in SUBSET DOMAIN queue
    BY DEF AddressedTo
  <2>3. HandOut(AddressedTo(queue, r))
    BY <1>6, <2>1 DEF DrainFor, HandOut
  <2> QED
    BY <2>1, <2>2, <2>3
<1>7. ASSUME NEW e \in Env, Deliver(e) PROVE P
  BY <1>7, <1>a DEF Deliver
<1>8. ASSUME NEW e \in Env, Requeue(e) PROVE P
  <2>1. /\ ~busy /\ UNCHANGED walk /\ Held = queue /\ inHand[e] \in Priority
        /\ e \in DOMAIN inHand /\ LetGo(e) /\ UNCHANGED handed
    BY <1>8, HeldIsQueue DEF Requeue, TypeOK
  <2>2. CASE Cardinality(DOMAIN queue) < MaxTotal
    <3>1. Filed(e, inHand[e], 1)
      BY <1>8, <1>b, <2>1, <2>2 DEF Requeue
    <3> QED
      BY <2>1, <2>2, <3>1
  <2>3. CASE ~(Cardinality(DOMAIN queue) < MaxTotal)
    BY <1>8, <1>c, <2>1, <2>3 DEF Requeue
  <2> QED
    BY <2>2, <2>3
<1>9. ASSUME Gc PROVE P
  <2> DEFINE gone == { k \in DOMAIN queue : Expired(queue[k]) }
  <2>1. Held = queue /\ Held' = queue'
    BY <1>9, HeldIsQueue, HeldIsQueueAfter DEF Gc
  <2>2. Collected(gone)
    BY <1>9, <2>1 DEF Gc, Collected
  <2>3. gone \in SUBSET DOMAIN Held
    BY <2>1
  <2> HIDE DEF gone
  <2>4. UNCHANGED <<inHand, handed>>
    BY <1>9 DEF Gc
  <2> QED
    BY <2>2, <2>3, <2>4
<1>10. ASSUME UNCHANGED vars PROVE P
  BY <1>10, <1>a DEF vars
<1> QED
  BY <1>1, <1>2, <1>3, <1>4, <1>5, <1>6, <1>7, <1>8, <1>9, <1>10 DEF Next

-----------------------------------------------------------------------------

HeldOK == IsMap(Held, now)

LEMMA HeldTyped == Spec => []HeldOK
  BY TypeCorrect, HeldIsMap, PTL DEF HeldOK

(* The accounts of every reachable state balance.                          *)
LEMMA AccountsPointwise ==
    ASSUME TypeOK
    PROVE  EveryEnvelopeAccountedFor <=>
             /\ \A k \in DOMAIN Held : where[Held[k].env] = "queued"
             /\ \A e \in Env : where[e] = "queued" => \E k \in DOMAIN Held : Held[k].env = e
             /\ \A j, k \in DOMAIN Held : Held[j].env = Held[k].env => j = k
             /\ \A e \in DOMAIN inHand : where[e] = "in_hand"
             /\ \A e \in Env : where[e] = "in_hand" => e \in DOMAIN inHand
<1>1. /\ \A k \in DOMAIN Held : Held[k].env \in Env
      /\ DOMAIN inHand \subseteq Env
  BY HeldIsMap DEF TypeOK, IsMap, Entry
<1> QED
  BY <1>1 DEF EveryEnvelopeAccountedFor

(* Filing an envelope that is not in the queue keeps its accounts; one     *)
(* entry at most is displaced, and it is recorded.                         *)
LEMMA FiledAccounts ==
    ASSUME TypeOK, EveryEnvelopeAccountedFor,
           NEW e \in Env, where[e] # "queued",
           NEW p \in Priority, NEW attempts \in Nat, Filed(e, p, attempts)
    PROVE  /\ \A k \in DOMAIN Held' : where'[Held'[k].env] = "queued"
           /\ \A x \in Env : where'[x] = "queued" =>
                 \E k \in DOMAIN Held' : Held'[k].env = x
           /\ \A j, k \in DOMAIN Held' : Held'[j].env = Held'[k].env => j = k
           /\ \A x \in Env \ {e} : where'[x] = "in_hand" <=> where[x] = "in_hand"
<1> DEFINE key == <<p, now>>
<1>1. /\ DOMAIN Held' = DOMAIN Held \union {key}
      /\ Held'[key].env = e
      /\ \A k \in DOMAIN Held \ {key} : Held'[k] = Held[k]
  BY DEF Filed, Put, Over
<1>2. \A x \in Env :
        /\ x = e => where'[x] = "queued"
        /\ x # e /\ key \in DOMAIN Held /\ x = Held[key].env => where'[x] = "overwritten"
        /\ x # e /\ ~(key \in DOMAIN Held /\ x = Held[key].env) => where'[x] = where[x]
  BY DEF Filed
<1>3. /\ \A k \in DOMAIN Held : where[Held[k].env] = "queued"
      /\ \A x \in Env : where[x] = "queued" => \E k \in DOMAIN Held : Held[k].env = x
      /\ \A j, k \in DOMAIN Held : Held[j].env = Held[k].env => j = k
  BY AccountsPointwise
<1>4. \A k \in DOMAIN Held : Held[k].env \in Env /\ Held[k].env # e
  BY <1>3, HeldIsMap DEF IsMap, Entry
<1>5. \A k \in DOMAIN Held' : where'[Held'[k].env] = "queued"
  <2> SUFFICES ASSUME NEW k \in DOMAIN Held' PROVE where'[Held'[k].env] = "queued"
    OBVIOUS
  <2>1. CASE k = key
    BY <1>1, <1>2, <2>1
  <2>2. CASE k # key
    <3>1. k \in DOMAIN Held /\ Held'[k] = Held[k]
      BY <1>1, <2>2
    <3>2. ~(key \in DOMAIN Held /\ Held[k].env = Held[key].env)
      BY <1>3, <2>2, <3>1
    <3> QED
      BY <1>2, <1>3, <1>4, <3>1, <3>2
  <2> QED
    BY <2>1, <2>2
<1>6. ASSUME NEW x \in Env, where'[x] = "queued"
      PROVE  \E k \in DOMAIN Held' : Held'[k].env = x
  <2>1. CASE x = e
    BY <1>1, <2>1
  <2>2. CASE x # e
    <3>1. where[x] = "queued" /\ ~(key \in DOMAIN Held /\ x = Held[key].env)
      BY <1>2, <1>6, <2>2
    <3>2. PICK k \in DOMAIN Held : Held[k].env = x
      BY <1>3, <3>1
    <3> QED
      BY <1>1, <3>1, <3>2
  <2> QED
    BY <2>1, <2>2
<1>7. \A j, k \in DOMAIN Held' : Held'[j].env = Held'[k].env => j = k
  BY <1>1, <1>3, <1>4
<1>8. \A x \in Env \ {e} : where'[x] = "in_hand" <=> where[x] = "in_hand"
  BY <1>2, <1>3
<1> QED
  BY <1>5, <1>6, <1>7, <1>8

(* In every reachable state each envelope offered is in one place, and     *)
(* the queue, the client's hands and the history agree on which.           *)
THEOREM NoneLostNoneTwice == Spec => []EveryEnvelopeAccountedFor
<1>1. Init => EveryEnvelopeAccountedFor
  <2> SUFFICES ASSUME Init PROVE EveryEnvelopeAccountedFor
    OBVIOUS
  <2>1. DOMAIN Held = {}
    BY DEF Init, Held, Over
  <2> QED
    BY <2>1 DEF Init, EveryEnvelopeAccountedFor
<1>2. TypeOK /\ TypeOK' /\ HeldOK' /\ Walking /\ EveryEnvelopeAccountedFor /\ [Next]_vars
        => EveryEnvelopeAccountedFor'
  <2> SUFFICES ASSUME TypeOK, TypeOK', HeldOK', Walking,
                      EveryEnvelopeAccountedFor, [Next]_vars
               PROVE  EveryEnvelopeAccountedFor'
    OBVIOUS
  <2> DEFINE QueueAgrees == /\ \A k \in DOMAIN Held' : where'[Held'[k].env] = "queued"
                            /\ \A x \in Env : where'[x] = "queued" =>
                                  \E k \in DOMAIN Held' : Held'[k].env = x
             OncePerKey  == \A j, k \in DOMAIN Held' : Held'[j].env = Held'[k].env => j = k
             HandsAgree  == /\ \A x \in DOMAIN inHand' : where'[x] = "in_hand"
                            /\ \A x \in Env : where'[x] = "in_hand" => x \in DOMAIN inHand'
  <2>a. QueueAgrees /\ OncePerKey /\ HandsAgree => EveryEnvelopeAccountedFor'
    <3>1. \A k \in DOMAIN Held' : Held'[k].env \in Env
      BY DEF HeldOK, IsMap, Entry
    <3>2. DOMAIN inHand' \subseteq Env
      BY DEF TypeOK
    <3>3. QueueAgrees => { Held'[k].env : k \in DOMAIN Held' } = { e \in Env : where'[e] = "queued" }
      BY <3>1
    <3>4. HandsAgree => DOMAIN inHand' = { e \in Env : where'[e] = "in_hand" }
      BY <3>2
    <3> QED
      BY <3>3, <3>4 DEF EveryEnvelopeAccountedFor
  <2>b. /\ \A k \in DOMAIN Held : where[Held[k].env] = "queued"
        /\ \A x \in Env : where[x] = "queued" => \E k \in DOMAIN Held : Held[k].env = x
        /\ \A j, k \in DOMAIN Held : Held[j].env = Held[k].env => j = k
        /\ \A x \in DOMAIN inHand : where[x] = "in_hand"
        /\ \A x \in Env : where[x] = "in_hand" => x \in DOMAIN inHand
    BY AccountsPointwise
  <2>c. \A k \in DOMAIN Held : Held[k].env \in Env
    BY HeldIsMap DEF IsMap, Entry
  <2>1. ASSUME UNCHANGED <<Held, inHand, handed, where>> PROVE EveryEnvelopeAccountedFor'
    BY <2>1 DEF EveryEnvelopeAccountedFor
  (* An envelope filed that was with the client, and no longer is, or new. *)
  <2>d. ASSUME NEW e \in Env, NEW p \in Priority, NEW attempts \in Nat,
               Filed(e, p, attempts), where[e] # "queued",
               DOMAIN inHand' = DOMAIN inHand \ {e}
        PROVE  EveryEnvelopeAccountedFor'
    <3>1. QueueAgrees /\ OncePerKey
          /\ \A x \in Env \ {e} : where'[x] = "in_hand" <=> where[x] = "in_hand"
      BY <2>d, FiledAccounts
    <3>2. where'[e] = "queued"
      BY <2>d DEF Filed
    <3>3. HandsAgree
      BY <2>b, <2>d, <3>1, <3>2 DEF TypeOK
    <3> QED
      BY <2>a, <3>1, <3>3
  (* One that leaves for good.                                             *)
  <2>e. ASSUME NEW e \in Env, NEW place \in {"refused", "delivered"},
               where' = [ where EXCEPT ![e] = place ], Held' = Held, where[e] # "queued",
               DOMAIN inHand' = DOMAIN inHand \ {e}
        PROVE  EveryEnvelopeAccountedFor'
    <3>1. \A x \in Env : where'[x] = IF x = e THEN place ELSE where[x]
      BY <2>e DEF TypeOK
    <3>2. QueueAgrees /\ OncePerKey /\ HandsAgree
      BY <2>b, <2>c, <2>e, <3>1 DEF TypeOK
    <3> QED
      BY <2>a, <3>2
  <2>f. \A e \in DOMAIN inHand : where[e] # "queued"
    BY <2>b
  <2>g. \A e \in Env : where[e] = "new" => DOMAIN inHand = DOMAIN inHand \ {e}
    BY <2>b
  <2>h. \A e \in Env : LetGo(e) => DOMAIN inHand' = DOMAIN inHand \ {e}
    BY DEF LetGo, Restrict
  <2>2. ASSUME NEW e \in Env, NEW p \in Priority,
               where[e] = "new", Filed(e, p, 0), UNCHANGED inHand
        PROVE  EveryEnvelopeAccountedFor'
    BY <2>2, <2>d, <2>g
  <2>3. ASSUME NEW e \in Env, where[e] = "new", Dropped(e), UNCHANGED inHand
        PROVE  EveryEnvelopeAccountedFor'
    BY <2>3, <2>e, <2>g DEF Dropped
  <2>4. ASSUME NEW K \in SUBSET DOMAIN Held, HandOut(K) PROVE EveryEnvelopeAccountedFor'
    <3> DEFINE given == { Held[k].env : k \in K }
    <3>1. /\ DOMAIN Held' = DOMAIN Held \ K
          /\ \A k \in DOMAIN Held' : Held'[k] = Held[k]
          /\ DOMAIN Restrict(Held, K) = K
          /\ \A k \in K : Restrict(Held, K)[k] = Held[k]
      BY <2>4 DEF HandOut, Without, Restrict
    <3>2. { Restrict(Held, K)[k].env : k \in DOMAIN Restrict(Held, K) } = given
      BY <3>1
    <3>3. /\ DOMAIN inHand' = DOMAIN inHand \union given
          /\ \A x \in Env : where'[x] = IF x \in given THEN "in_hand" ELSE where[x]
      BY <2>4, <3>2 DEF HandOut, Give
    <3>4. \A k \in DOMAIN Held' : Held[k].env \notin given
      BY <2>b, <3>1
    <3>5. QueueAgrees
      BY <2>b, <2>c, <3>1, <3>3, <3>4
    <3>6. OncePerKey
      BY <2>b, <3>1
    <3>7. HandsAgree
      BY <2>b, <2>c, <3>1, <3>3 DEF TypeOK
    <3> QED
      BY <2>a, <3>5, <3>6, <3>7
  <2>5. ASSUME NEW e \in Env, e \in DOMAIN inHand, LetGo(e), UNCHANGED Held,
               where' = [ where EXCEPT ![e] = "delivered" ]
        PROVE  EveryEnvelopeAccountedFor'
    BY <2>5, <2>e, <2>f, <2>h
  <2>6. ASSUME NEW e \in Env, e \in DOMAIN inHand, LetGo(e), Filed(e, inHand[e], 1)
        PROVE  EveryEnvelopeAccountedFor'
    <3>1. inHand[e] \in Priority
      BY <2>6 DEF TypeOK
    <3> QED
      BY <2>6, <2>d, <2>f, <2>h, <3>1
  <2>7. ASSUME NEW e \in Env, e \in DOMAIN inHand, LetGo(e), Dropped(e)
        PROVE  EveryEnvelopeAccountedFor'
    BY <2>7, <2>e, <2>f, <2>h DEF Dropped
  <2>8. ASSUME NEW K \in SUBSET DOMAIN Held, Collected(K), UNCHANGED inHand
        PROVE  EveryEnvelopeAccountedFor'
    <3>1. /\ DOMAIN Held' = DOMAIN Held \ K
          /\ \A k \in DOMAIN Held' : Held'[k] = Held[k]
          /\ \A x \in Env : where'[x] = IF \E k \in K : Held[k].env = x
                                          THEN "expired" ELSE where[x]
      BY <2>8 DEF Collected, Without, Restrict
    <3>2. QueueAgrees
      BY <2>b, <2>c, <3>1
    <3>3. OncePerKey
      BY <2>b, <3>1
    <3>4. HandsAgree
      BY <2>8, <2>b, <2>c, <3>1 DEF TypeOK
    <3> QED
      BY <2>a, <3>2, <3>3, <3>4
  <2> QED
    BY <2>1, <2>2, <2>3, <2>4, <2>5, <2>6, <2>7, <2>8, StepCases
<1> QED
  BY <1>1, <1>2, TypeCorrect, HeldTyped, WalkingHolds, PTL DEF Spec

-----------------------------------------------------------------------------

(* What the attempts field depends on: how often an envelope was handed    *)
(* out before it was queued the first time, or put back.                   *)
Counted ==
    /\ AttemptsSayOnlyWhether
    /\ \A e \in Env : /\ where[e] = "new" => handed[e] = 0
                      /\ where[e] = "in_hand" => handed[e] # 0

(* In every reachable state, attempts is 0 for what was never handed out   *)
(* and 1 for everything else, however often it was.                        *)
THEOREM AttemptsNeverCount == Spec => []AttemptsSayOnlyWhether
<1>1. Init => Counted
  <2> SUFFICES ASSUME Init PROVE Counted
    OBVIOUS
  <2>1. DOMAIN Held = {}
    BY DEF Init, Held, Over
  <2> QED
    BY <2>1 DEF Init, Counted, AttemptsSayOnlyWhether
<1>2. TypeOK /\ TypeOK' /\ Walking /\ EveryEnvelopeAccountedFor /\ Counted /\ [Next]_vars
        => Counted'
  <2> SUFFICES ASSUME TypeOK, TypeOK', Walking, EveryEnvelopeAccountedFor, Counted,
                      [Next]_vars
               PROVE  Counted'
    OBVIOUS
  <2>a. \A k \in DOMAIN Held :
          /\ Held[k].env \in Env
          /\ Held[k].attempts = IF handed[Held[k].env] = 0 THEN 0 ELSE 1
    BY HeldIsMap DEF IsMap, Entry, Counted, AttemptsSayOnlyWhether
  <2>b. \A e \in Env : /\ where[e] = "new" => handed[e] = 0
                       /\ where[e] = "in_hand" => handed[e] # 0
                       /\ handed[e] \in Nat
    BY DEF Counted, TypeOK
  <2>c. /\ \A j, k \in DOMAIN Held : Held[j].env = Held[k].env => j = k
        /\ \A e \in DOMAIN inHand : e \in Env /\ where[e] = "in_hand"
    BY AccountsPointwise DEF TypeOK
  (* Filing with the number that goes with the envelope.                   *)
  <2>d. ASSUME NEW e \in Env, NEW p \in Priority,
               NEW attempts \in Nat, Filed(e, p, attempts), handed' = handed,
               attempts = IF handed[e] = 0 THEN 0 ELSE 1
        PROVE  Counted'
    <3> DEFINE key == <<p, now>>
    <3>1. /\ DOMAIN Held' = DOMAIN Held \union {key}
          /\ Held'[key].env = e /\ Held'[key].attempts = attempts
          /\ \A k \in DOMAIN Held \ {key} : Held'[k] = Held[k]
      BY <2>d DEF Filed, Put, Over
    <3>2. \A x \in Env : where'[x] \in {"queued", "overwritten", where[x]}
      BY <2>d DEF Filed
    <3>3. AttemptsSayOnlyWhether'
      BY <2>a, <2>d, <3>1 DEF AttemptsSayOnlyWhether
    <3> QED
      BY <2>b, <2>d, <3>2, <3>3 DEF Counted
  (* One that leaves for good.                                             *)
  <2>e. ASSUME NEW e \in Env, NEW place \in {"refused", "delivered"},
               where' = [ where EXCEPT ![e] = place ], Held' = Held, handed' = handed
        PROVE  Counted'
    <3>1. \A x \in Env : where'[x] = IF x = e THEN place ELSE where[x]
      BY <2>e DEF TypeOK
    <3> QED
      BY <2>a, <2>b, <2>e, <3>1 DEF Counted, AttemptsSayOnlyWhether
  <2>1. ASSUME UNCHANGED <<Held, inHand, handed, where>> PROVE Counted'
    BY <2>1 DEF Counted, AttemptsSayOnlyWhether
  <2>2. ASSUME NEW e \in Env, NEW p \in Priority,
               where[e] = "new", Filed(e, p, 0), UNCHANGED handed
        PROVE  Counted'
    BY <2>2, <2>b, <2>d
  <2>3. ASSUME NEW e \in Env, Dropped(e), UNCHANGED handed PROVE Counted'
    BY <2>3, <2>e DEF Dropped
  <2>4. ASSUME NEW K \in SUBSET DOMAIN Held, HandOut(K) PROVE Counted'
    <3> DEFINE given == { Held[k].env : k \in K }
    <3>1. /\ DOMAIN Held' = DOMAIN Held \ K
          /\ \A k \in DOMAIN Held' : Held'[k] = Held[k]
          /\ DOMAIN Restrict(Held, K) = K
          /\ \A k \in K : Restrict(Held, K)[k] = Held[k]
      BY <2>4 DEF HandOut, Without, Restrict
    <3>2. { Restrict(Held, K)[k].env : k \in DOMAIN Restrict(Held, K) } = given
      BY <3>1
    <3>3. \A e \in Env : /\ where'[e] = IF e \in given THEN "in_hand" ELSE where[e]
                         /\ handed'[e] = IF e \in given THEN handed[e] + 1 ELSE handed[e]
      BY <2>4, <3>2 DEF HandOut, Give
    <3>4. \A k \in DOMAIN Held' : Held[k].env \notin given
      BY <2>c, <3>1
    <3>5. AttemptsSayOnlyWhether'
      BY <2>a, <3>1, <3>3, <3>4 DEF AttemptsSayOnlyWhether
    <3>6. \A e \in Env : /\ where'[e] = "new" => handed'[e] = 0
                         /\ where'[e] = "in_hand" => handed'[e] # 0
      BY <2>b, <3>3
    <3> QED
      BY <3>5, <3>6 DEF Counted
  <2>5. ASSUME NEW e \in Env, UNCHANGED <<Held, handed>>,
               where' = [ where EXCEPT ![e] = "delivered" ]
        PROVE  Counted'
    BY <2>5, <2>e
  <2>6. ASSUME NEW e \in Env, e \in DOMAIN inHand, UNCHANGED handed, Filed(e, inHand[e], 1)
        PROVE  Counted'
    <3>1. inHand[e] \in Priority /\ handed[e] # 0
      BY <2>6, <2>b, <2>c DEF TypeOK
    <3> QED
      BY <2>6, <2>d, <3>1
  <2>7. ASSUME NEW K \in SUBSET DOMAIN Held, Collected(K), UNCHANGED handed PROVE Counted'
    <3>1. /\ DOMAIN Held' \subseteq DOMAIN Held
          /\ \A k \in DOMAIN Held' : Held'[k] = Held[k]
          /\ \A x \in Env : where'[x] \in {"expired", where[x]}
      BY <2>7 DEF Collected, Without, Restrict
    <3>2. AttemptsSayOnlyWhether'
      BY <2>7, <2>a, <3>1 DEF AttemptsSayOnlyWhether
    <3> QED
      BY <2>7, <2>b, <3>1, <3>2 DEF Counted
  <2> QED
    BY <2>1, <2>2, <2>3, <2>4, <2>5, <2>6, <2>7, StepCases
<1>3. Counted => AttemptsSayOnlyWhether
  BY DEF Counted
<1> QED
  BY <1>1, <1>2, <1>3, TypeCorrect, WalkingHolds, NoneLostNoneTwice, PTL DEF Spec

-----------------------------------------------------------------------------

(* The entries of a recipient that were never handed out.                  *)
Fresh(r) == { k \in AddressedTo(Held, r) : Held[k].attempts = 0 }

(* The caps, of a map that is finite: Cardinality says nothing of a set    *)
(* that is not.                                                            *)
Capped ==
    /\ IsFiniteSet(DOMAIN Held)
    /\ Cardinality(DOMAIN Held) <= MaxTotal
    /\ \A r \in Recipient : Cardinality(Fresh(r)) <= MaxPerRecipient

(* A step that only takes entries out leaves the caps observed.            *)
LEMMA ShrinkingKeepsCaps ==
    ASSUME Capped,
           DOMAIN Held' \subseteq DOMAIN Held,
           \A k \in DOMAIN Held' : Held'[k] = Held[k]
    PROVE  Capped'
<1>1. IsFiniteSet(DOMAIN Held') /\ Cardinality(DOMAIN Held') <= Cardinality(DOMAIN Held)
  BY FS_Subset DEF Capped
<1>2. /\ Cardinality(DOMAIN Held') \in Nat /\ Cardinality(DOMAIN Held) \in Nat
      /\ MaxTotal \in Nat /\ MaxPerRecipient \in Nat
  BY <1>1, FS_CardinalityType, QueueConstants DEF Capped
<1>3. ASSUME NEW r \in Recipient
      PROVE  Cardinality(Fresh(r)') <= MaxPerRecipient
  <2>1. Fresh(r)' \subseteq Fresh(r)
    BY DEF Fresh, AddressedTo
  <2>2. IsFiniteSet(Fresh(r))
    <3>1. Fresh(r) \subseteq DOMAIN Held
      BY DEF Fresh, AddressedTo
    <3> QED
      BY <3>1, FS_Subset DEF Capped
  <2>3. IsFiniteSet(Fresh(r)') /\ Cardinality(Fresh(r)') <= Cardinality(Fresh(r))
    BY <2>1, <2>2, FS_Subset
  <2>4. Cardinality(Fresh(r)') \in Nat /\ Cardinality(Fresh(r)) \in Nat
    BY <2>2, <2>3, FS_CardinalityType
  <2>5. Cardinality(Fresh(r)) <= MaxPerRecipient
    BY DEF Capped
  <2> QED
    BY <1>2, <2>3, <2>4, <2>5
<1>4. Cardinality(DOMAIN Held') <= MaxTotal
  BY <1>1, <1>2 DEF Capped
<1> QED
  BY <1>1, <1>3, <1>4 DEF Capped

(* A filing where the total is below its cap, and so is the share of       *)
(* its recipient if the envelope is a fresh one.                           *)
LEMMA FiledKeepsCaps ==
    ASSUME TypeOK, Capped,
           NEW e \in Env, NEW p \in Priority, NEW attempts \in Nat,
           Filed(e, p, attempts),
           Cardinality(DOMAIN Held) < MaxTotal,
           attempts = 0 => Cardinality(AddressedTo(Held, RecipientOf[e])) < MaxPerRecipient
    PROVE  Capped'
<1> DEFINE key == <<p, now>>
<1>1. /\ DOMAIN Held' = DOMAIN Held \union {key}
      /\ Held'[key].env = e /\ Held'[key].attempts = attempts
      /\ \A k \in DOMAIN Held \ {key} : Held'[k] = Held[k]
  BY DEF Filed, Put, Over
<1>2. IsFiniteSet(DOMAIN Held) /\ Cardinality(DOMAIN Held) \in Nat
  BY FS_CardinalityType DEF Capped
<1>3. MaxTotal \in Nat /\ MaxPerRecipient \in Nat
  BY QueueConstants
<1> HIDE DEF key
<1>4. /\ IsFiniteSet(DOMAIN Held \union {key})
      /\ Cardinality(DOMAIN Held \union {key})
           = IF key \in DOMAIN Held THEN Cardinality(DOMAIN Held)
             ELSE Cardinality(DOMAIN Held) + 1
  BY <1>2, FS_AddElement
<1>5. IsFiniteSet(DOMAIN Held') /\ Cardinality(DOMAIN Held') <= MaxTotal
  BY <1>1, <1>2, <1>3, <1>4
<1>6. ASSUME NEW r \in Recipient
      PROVE  Cardinality(Fresh(r)') <= MaxPerRecipient
  <2>1. Fresh(r) \subseteq AddressedTo(Held, r) /\ AddressedTo(Held, r) \subseteq DOMAIN Held
    BY DEF Fresh, AddressedTo
  <2>2. IsFiniteSet(AddressedTo(Held, r)) /\ IsFiniteSet(Fresh(r))
    BY <1>2, <2>1, FS_Subset
  <2>3. /\ Cardinality(AddressedTo(Held, r)) \in Nat /\ Cardinality(Fresh(r)) \in Nat
        /\ Cardinality(Fresh(r)) <= Cardinality(AddressedTo(Held, r))
    BY <2>1, <2>2, FS_Subset, FS_CardinalityType
  <2>4. Cardinality(Fresh(r)) <= MaxPerRecipient
    BY DEF Capped
  <2>5. CASE attempts = 0 /\ RecipientOf[e] = r
    <3>1. Fresh(r)' \subseteq Fresh(r) \union {key}
      BY <1>1 DEF Fresh, AddressedTo
    <3>2. /\ IsFiniteSet(Fresh(r) \union {key})
          /\ Cardinality(Fresh(r) \union {key})
               = IF key \in Fresh(r) THEN Cardinality(Fresh(r)) ELSE Cardinality(Fresh(r)) + 1
      BY <2>2, FS_AddElement
    <3>3. /\ IsFiniteSet(Fresh(r)')
          /\ Cardinality(Fresh(r)') <= Cardinality(Fresh(r) \union {key})
      BY <3>1, <3>2, FS_Subset
    <3>4. Cardinality(Fresh(r)') \in Nat
      BY <3>3, FS_CardinalityType
    <3>5. Cardinality(AddressedTo(Held, r)) < MaxPerRecipient
      BY <2>5
    <3> QED
      BY <1>3, <2>3, <3>2, <3>3, <3>4, <3>5
  <2>6. CASE ~(attempts = 0 /\ RecipientOf[e] = r)
    <3>1. Fresh(r)' \subseteq Fresh(r)
      BY <1>1, <2>6 DEF Fresh, AddressedTo
    <3>2. /\ IsFiniteSet(Fresh(r)')
          /\ Cardinality(Fresh(r)') <= Cardinality(Fresh(r))
      BY <2>2, <3>1, FS_Subset
    <3>3. Cardinality(Fresh(r)') \in Nat
      BY <3>2, FS_CardinalityType
    <3> QED
      BY <1>3, <2>3, <2>4, <3>2, <3>3
  <2> QED
    BY <2>5, <2>6
<1> QED
  BY <1>5, <1>6 DEF Capped

(* The caps are observed in every reachable state.                         *)
LEMMA CappedHolds == Spec => []Capped
<1>1. Init => Capped
  <2> SUFFICES ASSUME Init PROVE Capped
    OBVIOUS
  <2>1. DOMAIN Held = {} /\ \A r \in Recipient : Fresh(r) = {}
    BY DEF Init, Held, Over, Fresh, AddressedTo
  <2>2. IsFiniteSet({}) /\ Cardinality({}) = 0
    BY FS_EmptySet
  <2>3. MaxTotal \in Nat /\ MaxPerRecipient \in Nat
    BY QueueConstants
  <2>4. IsFiniteSet(DOMAIN Held) /\ Cardinality(DOMAIN Held) <= MaxTotal
    BY <2>1, <2>2, <2>3
  <2>5. ASSUME NEW r \in Recipient PROVE Cardinality(Fresh(r)) <= MaxPerRecipient
    <3>1. Fresh(r) = {}
      BY <2>1
    <3>2. Cardinality(Fresh(r)) = 0
      BY <2>2, <3>1
    <3> QED
      BY <2>3, <3>2
  <2> QED
    BY <2>4, <2>5 DEF Capped
<1>2. TypeOK /\ TypeOK' /\ Walking /\ Capped /\ [Next]_vars => Capped'
  <2> SUFFICES ASSUME TypeOK, TypeOK', Walking, Capped, [Next]_vars PROVE Capped'
    OBVIOUS
  <2>1. ASSUME Held' = Held PROVE Capped'
    BY <2>1, ShrinkingKeepsCaps
  <2>2. ASSUME NEW e \in Env, NEW p \in Priority, Filed(e, p, 0),
               Cardinality(DOMAIN Held) < MaxTotal,
               Cardinality(AddressedTo(Held, RecipientOf[e])) < MaxPerRecipient
        PROVE  Capped'
    BY <2>2, FiledKeepsCaps
  <2>3. ASSUME NEW K \in SUBSET DOMAIN Held, Held' = Without(Held, K) PROVE Capped'
    <3>1. /\ DOMAIN Held' \subseteq DOMAIN Held
          /\ \A k \in DOMAIN Held' : Held'[k] = Held[k]
      BY <2>3 DEF Without, Restrict
    <3> QED
      BY <3>1, ShrinkingKeepsCaps
  <2>4. ASSUME NEW e \in Env, e \in DOMAIN inHand, Filed(e, inHand[e], 1),
               Cardinality(DOMAIN Held) < MaxTotal
        PROVE  Capped'
    <3>1. inHand[e] \in Priority
      BY <2>4 DEF TypeOK
    <3> QED
      BY <2>4, <3>1, FiledKeepsCaps
  <2>5. /\ \A e \in Env : Dropped(e) => Held' = Held
        /\ \A K \in SUBSET DOMAIN Held : HandOut(K) \/ Collected(K) => Held' = Without(Held, K)
    BY DEF Dropped, HandOut, Collected
  <2> QED
    BY <2>1, <2>2, <2>3, <2>4, <2>5, StepCases
<1> QED
  BY <1>1, <1>2, TypeCorrect, WalkingHolds, PTL DEF Spec

(* In every reachable state the queue is within MAX_TOTAL, and no          *)
(* recipient has more than MAX_PER_RECIPIENT entries never handed out.     *)
THEOREM CapsObserved == Spec => []WithinCaps
<1>1. Capped => WithinCaps
  BY DEF Capped, WithinCaps, Fresh
<1> QED
  BY <1>1, CappedHolds, PTL

-----------------------------------------------------------------------------

(* What the loop of dequeue_due returns was due, and comes before all that *)
(* is due and stays; if it is less than was asked for, nothing due stays.  *)
(* Whatever the batch, and whenever the loop stops.                        *)
THEOREM DueInOrder == Spec => NoOvertaking
<1> DEFINE left == { j \in DOMAIN queue' : IsDue(queue'[j], asked) }
           Ordered == /\ \A k \in DOMAIN out : IsDue(out[k], asked)
                      /\ \A j \in left, k \in DOMAIN out : Before(k, j)
                      /\ Cardinality(DOMAIN out) <= limit
                      /\ Cardinality(DOMAIN out) < limit => left = {}
<1>1. Walking /\ EndDequeue => Ordered
  <2> SUFFICES ASSUME Walking, EndDequeue PROVE Ordered
    OBVIOUS
  <2>1. /\ DOMAIN queue' = DOMAIN queue \union DOMAIN toRequeue
        /\ \A k \in DOMAIN toRequeue : queue'[k] = toRequeue[k]
    BY DEF EndDequeue, PutBack, Over
  <2>2. left \subseteq todo
    BY <2>1 DEF EndDequeue, Walking
  <2>3. \A j \in left, k \in DOMAIN out : Before(k, j)
    BY <2>2 DEF Walking
  <2>4. Cardinality(DOMAIN out) < limit => left = {}
    <3>1. Cardinality(DOMAIN out) \in Nat /\ limit \in Nat
      BY FS_CardinalityType DEF Walking
    <3>2. Cardinality(DOMAIN out) < limit => todo = {}
      BY <3>1 DEF EndDequeue
    <3> QED
      BY <2>2, <3>2
  <2> QED
    BY <2>3, <2>4 DEF Walking
<1>2. Walking => (EndDequeue => Ordered)
  BY <1>1
<1> QED
  BY <1>2, WalkingHolds, PTL DEF Spec, NoOvertaking

=============================================================================
