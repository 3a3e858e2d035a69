---------------------------- MODULE StoreForward ----------------------------
(***************************************************************************)
(* The store-and-forward queue (mesh/store_forward.rs) and the client that *)
(* takes envelopes from it, delivers them or puts them back.  Every method *)
(* holds the queue's write lock throughout, so each is one step, but for   *)
(* dequeue_due: its loop is walked key by key with the lock held, while    *)
(* the clock goes on and the client delivers.  What the client holds       *)
(* between two calls is in no queue.                                       *)
(*                                                                         *)
(* Instants are read from a clock that never goes back but may read the    *)
(* same twice, which is all that std::time::Instant promises.              *)
(***************************************************************************)
EXTENDS Integers, FiniteSets, Functions

CONSTANTS
    Env,                \* envelopes
    RecipientOf,        \* the recipient of each
    Recipient,          \* who they may be for
    Priority,           \* priorities they may be queued with, 0 first
    MaxTotal,           \* MAX_TOTAL
    MaxPerRecipient,    \* MAX_PER_RECIPIENT
    MaxAttempts,        \* max_attempts
    BackoffBase,        \* backoff_base
    BackoffMax,         \* backoff_max
    Retention,          \* gc's argument
    Batches,            \* dequeue_due's argument
    MaxTime,            \* bound: the clock stops here
    MaxHandOuts         \* bound: an envelope is handed out this often

ASSUME QueueConstants ==
    /\ RecipientOf \in [Env -> Recipient]
    /\ Priority \subseteq Nat
    /\ {MaxTotal, MaxPerRecipient, MaxAttempts, Retention, MaxTime, MaxHandOuts} \subseteq Nat
    /\ BackoffBase \in Nat /\ BackoffMax \in Nat
    /\ MaxAttempts > 1
    /\ Batches \subseteq Nat

VARIABLES
    now,        \* Instant::now()
    queue,      \* the BTreeMap: <<priority, instant>> -> [env, at, attempts]
    busy,       \* dequeue_due holds the lock, and has these locals:
    limit,      \* its n
    asked,      \* its now
    todo,       \* the keys it has yet to visit
    out,        \* the entries it will return
    toRequeue,  \* to_requeue: those it walked past, not due
    inHand,     \* envelopes the client holds -> their priority field
    handed,     \* history: how often each envelope was handed out
    where       \* history: what became of each envelope

walk == <<busy, limit, asked, todo, out, toRequeue>>

vars == <<now, queue, walk, inHand, handed, where>>

Key == Priority \X Nat

Entry == [ env : Env, at : Nat, attempts : Nat ]

(* Where an envelope can be: not offered yet, in the queue, with the       *)
(* client, or gone, in one of four ways.                                   *)
Place == { "new", "queued", "in_hand", "delivered", "refused", "expired", "overwritten" }

(* The map's order: by priority, then by instant.                          *)
Before(j, k) == j[1] < k[1] \/ (j[1] = k[1] /\ j[2] < k[2])

(* One map's entries over another's; one entry put in a map; a map without *)
(* some keys.                                                              *)
Over(f, g) == [ k \in DOMAIN f \union DOMAIN g |-> IF k \in DOMAIN g THEN g[k] ELSE f[k] ]

Put(f, key, entry) == Over(f, [ k \in {key} |-> entry ])

Without(f, K) == Restrict(f, DOMAIN f \ K)

(* What is queued: the map, and what dequeue_due has out of it meanwhile.  *)
Held == Over(Over(queue, toRequeue), out)

AddressedTo(map, r) == { k \in DOMAIN map : RecipientOf[map[k].env] = r }

(* Entries under their keys, filed by an instant; each key's instant was   *)
(* read before the entry's queued_at.                                      *)
IsMap(f, by) ==
    /\ DOMAIN f \subseteq Key
    /\ f \in [DOMAIN f -> Entry]
    /\ \A k \in DOMAIN f : k[2] <= f[k].at /\ f[k].at <= by

TypeOK ==
    /\ now \in Nat
    /\ IsMap(queue, now) /\ IsMap(out, now) /\ IsMap(toRequeue, now)
    /\ busy \in BOOLEAN
    /\ limit \in Nat
    /\ asked \in Nat
    /\ todo \subseteq Key
    /\ DOMAIN inHand \subseteq Env
    /\ inHand \in [DOMAIN inHand -> Priority]
    /\ handed \in [Env -> Nat]
    /\ where \in [Env -> Place]

Init ==
    /\ now = 0
    /\ queue = << >>
    /\ busy = FALSE
    /\ limit = 0
    /\ asked = 0
    /\ todo = {}
    /\ out = << >>
    /\ toRequeue = << >>
    /\ inHand = << >>
    /\ handed = [ e \in Env |-> 0 ]
    /\ where = [ e \in Env |-> "new" ]

Tick ==
    /\ now < MaxTime
    /\ now' = now + 1
    /\ UNCHANGED <<queue, walk, inHand, handed, where>>

-----------------------------------------------------------------------------

(* backoff_for: base * 2^min(attempts, 10), at most backoff_max.           *)
Backoff(attempts) ==
    LET doublings == IF attempts < 10 THEN attempts ELSE 10
        wait == BackoffBase * 2^doublings
    IN  IF wait < BackoffMax THEN wait ELSE BackoffMax

(* Whether an entry is due at an instant.                                  *)
IsDue(entry, t) == t - entry.at >= Backoff(entry.attempts)

(* A slip: a retry is filed under the instant it becomes due.              *)
InsertAhead(e, priority, attempts) ==
    LET at == now + Backoff(attempts) IN
    /\ queue' = Put(queue, <<priority, at>>, [ env |-> e, at |-> at, attempts |-> attempts ])
    /\ where' = [ where EXCEPT ![e] = "queued" ]
    /\ UNCHANGED now

(* queue.insert: the key takes the present instant, queued_at the one that *)
(* is read next.  An entry already under the key is replaced and dropped.  *)
Insert(e, priority, attempts) ==
    LET key == <<priority, now>> IN
    /\ \E at \in now..MaxTime :
          /\ queue' = Put(queue, key, [ env |-> e, at |-> at, attempts |-> attempts ])
          /\ now' = at
    /\ where' = [ x \in Env |->
                    IF x = e THEN "queued"
                    ELSE IF key \in DOMAIN queue /\ x = queue[key].env
                           THEN "overwritten" ELSE where[x] ]

(* QueueFull: the envelope, taken by value, is dropped.                    *)
Refuse(e) ==
    /\ where' = [ where EXCEPT ![e] = "refused" ]
    /\ UNCHANGED <<now, queue>>

(* A slip: the queue's own entries are counted after the insertion.        *)
HasRoomForOneMore(e) ==
    /\ Cardinality(DOMAIN queue) <= MaxTotal
    /\ Cardinality(AddressedTo(queue, RecipientOf[e])) <= MaxPerRecipient

(* enqueue's two caps.                                                     *)
HasRoom(e) ==
    /\ Cardinality(DOMAIN queue) < MaxTotal
    /\ Cardinality(AddressedTo(queue, RecipientOf[e])) < MaxPerRecipient

Enqueue(e, priority) ==
    /\ ~busy
    /\ where[e] = "new"
    /\ IF HasRoom(e) THEN Insert(e, priority, 0) ELSE Refuse(e)
    /\ UNCHANGED <<walk, inHand, handed>>

(* The client is given a map's envelopes.                                  *)
Give(map) ==
    LET given == { map[k].env : k \in DOMAIN map } IN
    /\ inHand' = [ e \in DOMAIN inHand \union given |->
                     IF e \in DOMAIN inHand THEN inHand[e]
                     ELSE LET key == CHOOSE k \in DOMAIN map : map[k].env = e IN key[1] ]
    /\ handed' = [ e \in Env |-> IF e \in given THEN handed[e] + 1 ELSE handed[e] ]
    /\ where' = [ e \in Env |-> IF e \in given THEN "in_hand" ELSE where[e] ]

(* dequeue_due(n) takes the lock, reads the clock and lists the keys.      *)
StartDequeue(n) ==
    /\ ~busy
    /\ busy' = TRUE
    /\ limit' = n
    /\ asked' = now
    /\ todo' = DOMAIN queue
    /\ UNCHANGED <<now, queue, out, toRequeue, inHand, handed, where>>

(* A slip: the keys are visited from the last.                             *)
ComesLast(key) == \A j \in todo \ {key} : Before(j, key)

ComesNext(key) == \A j \in todo \ {key} : Before(key, j)

(* One turn of its loop: the next entry leaves the map, to be returned or  *)
(* to be put back.                                                         *)
DequeueNext ==
    /\ busy
    /\ Cardinality(DOMAIN out) < limit
    /\ \E key \in todo :
          /\ ComesNext(key)
          /\ todo' = todo \ {key}
          /\ queue' = Without(queue, {key})
          /\ IF IsDue(queue[key], asked)
               THEN out' = Put(out, key, queue[key]) /\ UNCHANGED toRequeue
               ELSE toRequeue' = Put(toRequeue, key, queue[key]) /\ UNCHANGED out
    /\ UNCHANGED <<now, busy, limit, asked, inHand, handed, where>>

(* A slip: what was walked past is not put back.                           *)
PutBackForgotten == queue

PutBack == Over(queue, toRequeue)

(* The loop is over: it has n, or no key is left.  What was walked past    *)
(* goes back, the lock is released, and the client has the rest.           *)
EndDequeue ==
    /\ busy
    /\ todo = {} \/ Cardinality(DOMAIN out) >= limit
    /\ queue' = PutBack
    /\ Give(out)
    /\ busy' = FALSE
    /\ limit' = 0
    /\ asked' = 0
    /\ todo' = {}
    /\ out' = << >>
    /\ toRequeue' = << >>
    /\ UNCHANGED now

MayHandOut(K) == \A k \in K : handed[queue[k].env] < MaxHandOuts

(* drain_for, due or not.                                                  *)
DrainFor(r) ==
    LET drained == AddressedTo(queue, r) IN
    /\ ~busy
    /\ MayHandOut(drained)
    /\ queue' = Without(queue, drained)
    /\ Give(Restrict(queue, drained))
    /\ UNCHANGED <<now, walk>>

LetGo(e) == inHand' = Restrict(inHand, DOMAIN inHand \ {e})

(* The client has delivered an envelope it holds.                          *)
Deliver(e) ==
    /\ e \in DOMAIN inHand
    /\ LetGo(e)
    /\ where' = [ where EXCEPT ![e] = "delivered" ]
    /\ UNCHANGED <<now, queue, walk, handed>>

(* A slip: attempts are left as enqueue sets them.                         *)
RequeueAsNew(e) ==
    /\ ~busy
    /\ e \in DOMAIN inHand
    /\ Cardinality(DOMAIN queue) < MaxTotal
    /\ Insert(e, inHand[e], 0)
    /\ LetGo(e)
    /\ UNCHANGED <<walk, handed>>

(* requeue, by value: the total cap only, and attempts = 1.                *)
Requeue(e) ==
    /\ ~busy
    /\ e \in DOMAIN inHand
    /\ IF Cardinality(DOMAIN queue) < MaxTotal THEN Insert(e, inHand[e], 1) ELSE Refuse(e)
    /\ LetGo(e)
    /\ UNCHANGED <<walk, handed>>

Expired(entry) == entry.attempts >= MaxAttempts \/ now - entry.at > Retention

Gc ==
    LET gone == { k \in DOMAIN queue : Expired(queue[k]) } IN
    /\ ~busy
    /\ queue' = Without(queue, gone)
    /\ where' = [ e \in Env |-> IF \E k \in gone : queue[k].env = e
                                  THEN "expired" ELSE where[e] ]
    /\ UNCHANGED <<now, walk, inHand, handed>>

Next ==
    \/ Tick
    \/ \E e \in Env, p \in Priority : Enqueue(e, p)
    \/ \E n \in Batches : StartDequeue(n)
    \/ DequeueNext
    \/ EndDequeue
    \/ \E r \in Recipient : DrainFor(r)
    \/ \E e \in Env : Deliver(e)
    \/ \E e \in Env : Requeue(e)
    \/ Gc

Spec == Init /\ [][Next]_vars

-----------------------------------------------------------------------------

(* Every envelope that was offered is in exactly one place: once in the    *)
(* queue, or with a walk through it, in the client's hands, delivered,     *)
(* refused, expired, or overwritten by another of the same priority and    *)
(* instant.  Nothing else loses one, and nothing duplicates one.           *)
EveryEnvelopeAccountedFor ==
    /\ { Held[k].env : k \in DOMAIN Held } = { e \in Env : where[e] = "queued" }
    /\ \A j, k \in DOMAIN Held : Held[j].env = Held[k].env => j = k
    /\ DOMAIN inHand = { e \in Env : where[e] = "in_hand" }

(* The caps, as far as they go: requeue observes the total only, so a      *)
(* recipient's share is bounded for envelopes never handed out, and only   *)
(* for those.                                                              *)
WithinCaps ==
    /\ Cardinality(DOMAIN Held) <= MaxTotal
    /\ \A r \in Recipient :
          Cardinality({ k \in AddressedTo(Held, r) : Held[k].attempts = 0 }) <= MaxPerRecipient

(* The attempts field tells only whether an envelope was handed out at     *)
(* all: the count gc compares with max_attempts never gets beyond 1.       *)
AttemptsSayOnlyWhether ==
    \A k \in DOMAIN Held :
        Held[k].attempts = IF handed[Held[k].env] = 0 THEN 0 ELSE 1

(* What a dequeue_due returns was due, and it leaves nothing due that      *)
(* comes before what it returns, nor anything due at all if it returns     *)
(* fewer than it was asked for: an emergency never waits behind bulk, nor  *)
(* an old envelope behind a new one of its priority (store_forward.rs:79). *)
NoOvertaking ==
    [][ EndDequeue =>
          LET left == { j \in DOMAIN queue' : IsDue(queue'[j], asked) } IN
          /\ \A k \in DOMAIN out : IsDue(out[k], asked)
          /\ \A j \in left, k \in DOMAIN out : Before(k, j)
          /\ Cardinality(DOMAIN out) <= limit
          /\ Cardinality(DOMAIN out) < limit => left = {} ]_vars

(* store_forward.rs:129 and :138: a collection leaves no envelope that was *)
(* already handed out max_attempts times.                                  *)
GcDropsExhausted ==
    [][ Gc => \A k \in DOMAIN queue' : handed[queue'[k].env] < MaxAttempts ]_vars

(* store_forward.rs:11: the queue holds at most MAX_PER_RECIPIENT          *)
(* envelopes for one recipient.                                            *)
PerRecipientCap ==
    \A r \in Recipient : Cardinality(AddressedTo(Held, r)) <= MaxPerRecipient

=============================================================================
