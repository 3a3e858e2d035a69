-------------------------------- MODULE Mesh --------------------------------
(***************************************************************************)
(* A network of nodes running `aegis serve`: the announce task, messages   *)
(* handed to a transport by an application (aegis-ffi) or to the node's    *)
(* own hub by `aegis send`, handle_inbound and relay (serve.rs), over a    *)
(* radio that reorders, loses and repeats envelopes, with nodes that       *)
(* restart and forget their cache.                                         *)
(*                                                                         *)
(* A run spans less than seen_ttl: nothing is collected and every envelope *)
(* is fresh, so the clock stands still at 0.  Router.tla has the clock.    *)
(***************************************************************************)
EXTENDS RouterRules, FiniteSets

CONSTANTS
    InRange,        \* who hears whom: node -> set of nodes
    Distance,       \* fewest hops between two nodes of this topology
    Apps,           \* nodes with an application that sends messages
    CliUsers,       \* nodes whose user runs `aegis send`
    MaxLosses,      \* bound: copies lost
    MaxRepeats,     \* bound: copies received twice
    MaxRestarts     \* bound: restarts, of all nodes together

ASSUME MeshConstants ==
    /\ InRange \in [Node -> SUBSET Node]
    /\ \A n \in Node : n \notin InRange[n]
    /\ Distance \in [Node -> [Node -> Nat]]
    /\ \A m, n \in Node : (n \in InRange[m] => Distance[m][n] = 1) /\ Distance[n][n] = 0
    /\ \A k, m, n \in Node : n \in InRange[m] => Distance[k][n] <= Distance[k][m] + 1
    /\ Apps \subseteq Node /\ CliUsers \subseteq Node
    /\ {MaxLosses, MaxRepeats, MaxRestarts} \subseteq Nat

VARIABLES
    air,        \* copies under way: [to, env]
    seen,       \* each node's Router.table.seen_messages
    sent,       \* history: the envelopes made so far, id -> body
    viaHub,     \* history: which of them `aegis send` made
    delivered,  \* history: how often each node delivered each envelope
    relayed,    \* history: and how often it passed it on
    restarts,   \* history: restarts of each node
    losses,     \* bounds' counters
    repeats

vars == <<air, seen, sent, viaHub, delivered, relayed, restarts, losses, repeats>>

TypeOK ==
    /\ \A c \in air : c.to \in Node /\ c.env \in EnvelopeSet
    /\ \A c \in air : c.env.body.id \in DOMAIN sent /\ sent[c.env.body.id] = c.env.body
    /\ \A n \in Node : DOMAIN seen[n] \subseteq DOMAIN sent
    /\ delivered \in [Node -> [Id -> Nat]]
    /\ relayed \in [Node -> [Id -> Nat]]
    /\ viaHub \subseteq DOMAIN sent
    /\ restarts \in [Node -> Nat]

Init ==
    /\ air = {}
    /\ seen = [ n \in Node |-> << >> ]
    /\ sent = << >>
    /\ viaHub = {}
    /\ delivered = [ n \in Node |-> [ i \in Id |-> 0 ] ]
    /\ relayed = [ n \in Node |-> [ i \in Id |-> 0 ] ]
    /\ restarts = [ n \in Node |-> 0 ]
    /\ losses = 0
    /\ repeats = 0

(* Transport::send on every transport: a copy for each node in range.      *)
Broadcast(n, env) == { [ to |-> m, env |-> env ] : m \in InRange[n] }

Make(env, copies) ==
    /\ env.body.id \notin DOMAIN sent
    /\ sent' = [ i \in DOMAIN sent \union {env.body.id} |->
                   IF i = env.body.id THEN env.body ELSE sent[i] ]
    /\ air' = air \union copies
    /\ UNCHANGED <<seen, delivered, relayed, restarts, losses, repeats>>

(* The announce task: a signed announcement, straight to the transports.   *)
Announce(n, i) ==
    LET env == Signed(RouteAnnounce(i, n, MaxHops, 0)) IN
    /\ Make(env, Broadcast(n, env))
    /\ UNCHANGED viaHub

(* An application signs a message (build_direct_message, with a ttl of 10) *)
(* and gives it to its transports.                                         *)
AppSend(n, i, r) ==
    LET env == Signed(DirectText(i, n, r, MaxHops, 0)) IN
    /\ n \in Apps /\ r # n
    /\ Make(env, Broadcast(n, env))
    /\ UNCHANGED viaHub

(* `aegis send`: signed by the same identity, written to the hub of the    *)
(* node itself (data_dir/aegis.sock), which reads it as inbound.           *)
CliSend(n, i, r) ==
    LET env == Signed(DirectText(i, n, r, MaxHops, 0)) IN
    /\ n \in CliUsers /\ r # n
    /\ Make(env, { [ to |-> n, env |-> env ] })
    /\ viaHub' = viaHub \union {i}

-----------------------------------------------------------------------------

(* Slips: the copy that came is relayed, not the advanced one; the relay   *)
(* names itself as the sender.                                             *)
OnwardUnchanged(n, env) ==
    IF CanAdvance(env, MaxHops) THEN Broadcast(n, env) ELSE {}

OnwardResent(n, env) ==
    IF CanAdvance(env, MaxHops)
      THEN Broadcast(n, [ Advanced(env) EXCEPT !.body.sender = n ])
      ELSE {}

(* relay: advance_ttl or give up, then send on every transport.  The       *)
(* targets forward_targets returns are not used.                           *)
Onward(n, env) ==
    IF CanAdvance(env, MaxHops) THEN Broadcast(n, Advanced(env)) ELSE {}

(* A slip: a node takes its own envelopes when they come back.             *)
HandlesOwnToo(n, env) ==
    Valid(env) /\ Acceptable(env, 0) /\ IsNew(seen[n], env.body.id)

(* The envelope gets through: the transport's from_bytes validates it, it  *)
(* is another node's (handle_inbound), and route_inbound does not drop it  *)
(* for its hops or as a duplicate.                                         *)
Handles(n, env) ==
    /\ Valid(env)
    /\ env.body.sender # n
    /\ Acceptable(env, 0)
    /\ IsNew(seen[n], env.body.id)

Count(counts, n, i, yes) == IF yes THEN [ counts EXCEPT ![n][i] = @ + 1 ] ELSE counts

(* handle_inbound on a copy, which is rest of the air afterwards.          *)
HandleInbound(c, rest) ==
    LET n == c.to  env == c.env  i == env.body.id
        decision == Decision(n, env)
        onward == IF decision \in {"relay", "deliver_and_relay"} THEN Onward(n, env) ELSE {}
    IN  IF Handles(n, env)
          THEN /\ seen' = [ seen EXCEPT ![n] = Recorded(@, i, 0) ]
               /\ air' = rest \union onward
               /\ delivered' = Count(delivered, n, i,
                                     decision \in {"deliver", "deliver_and_relay"})
               /\ relayed' = Count(relayed, n, i, onward # {})
          ELSE air' = rest /\ UNCHANGED <<seen, delivered, relayed>>

Receive(c) ==
    /\ HandleInbound(c, air \ {c})
    /\ UNCHANGED <<sent, viaHub, restarts, losses, repeats>>

(* The radio: a copy arrives and will arrive again, or never does.         *)
ReceiveRepeated(c) ==
    /\ repeats < MaxRepeats
    /\ repeats' = repeats + 1
    /\ HandleInbound(c, air)
    /\ UNCHANGED <<sent, viaHub, restarts, losses>>

Lose(c) ==
    /\ losses < MaxLosses
    /\ losses' = losses + 1
    /\ air' = air \ {c}
    /\ UNCHANGED <<seen, sent, viaHub, delivered, relayed, restarts, repeats>>

(* The process ends and is started again: Router::new.                     *)
TotalRestarts == Cardinality({ r \in Node \X (1..MaxRestarts) : r[2] <= restarts[r[1]] })

Restart(n) ==
    /\ TotalRestarts < MaxRestarts
    /\ restarts' = [ restarts EXCEPT ![n] = @ + 1 ]
    /\ seen' = [ seen EXCEPT ![n] = << >> ]
    /\ UNCHANGED <<air, sent, viaHub, delivered, relayed, losses, repeats>>

Next ==
    \/ \E n \in Node, i \in Id : Announce(n, i)
    \/ \E n, r \in Node, i \in Id : AppSend(n, i, r) \/ CliSend(n, i, r)
    \/ \E c \in air : Receive(c) \/ ReceiveRepeated(c) \/ Lose(c)
    \/ \E n \in Node : Restart(n)

(* The main loop of a node takes what has arrived, again and again: a copy *)
(* that is not lost is handled in the end.                                 *)
Fairness == \A n \in Node : WF_vars(\E c \in air : c.to = n /\ Receive(c))

Spec == Init /\ [][Next]_vars /\ Fairness

-----------------------------------------------------------------------------

(* However copies are reordered, repeated and lost, a node handles an      *)
(* envelope at most once in each of its lives: it delivers and relays it   *)
(* no more often, and never its own, not even after a restart.             *)
OncePerLife ==
    \A n \in Node, i \in DOMAIN sent :
        LET lives == IF sent[i].sender = n THEN 0 ELSE 1 + restarts[n] IN
        delivered[n][i] <= lives /\ relayed[n][i] <= lives

(* Hop accounting end to end: a copy has made at least as many hops as its *)
(* receiver is away from the sender, what it has made and what it has left *)
(* add up to what it started with, and it is never relayed beyond that.    *)
HopsAddUp ==
    \A c \in air :
        /\ c.env.hop.hops + c.env.hop.ttl = MaxHops
        /\ Distance[c.env.body.sender][c.to] <= c.env.hop.hops + 1

(* Everyone the envelope is addressed to has delivered it.                 *)
ReachedAll(i) ==
    /\ i \in DOMAIN sent
    /\ \A n \in Node \ {sent[i].sender} :
          sent[i].recipient \in {n, None} => delivered[n][i] > 0

Undisturbed == losses = 0 /\ \A n \in Node : restarts[n] = 0

(* Coverage: with max_hops no smaller than the network, flooding takes an  *)
(* envelope to everyone it is meant for, in whatever order copies arrive   *)
(* and however little ttl the first of them has left, unless a copy is     *)
(* lost or a node restarts on the way.                                     *)
FloodingReachesAll ==
    \A i \in Id : (i \in DOMAIN sent \ viaHub /\ Undisturbed)
                    ~> (ReachedAll(i) \/ ~Undisturbed)

(* send.rs:1 and README.md:67: `aegis send` transmits the message, so it   *)
(* reaches its recipient unless a copy is lost or a node restarts.         *)
CliSendTransmits ==
    \A i \in Id : (i \in viaHub /\ Undisturbed) ~> (ReachedAll(i) \/ ~Undisturbed)

(* docs/SECURITY.md:59: receivers verify the signature of every envelope,  *)
(* so the signature on every copy under way is good.                       *)
SignaturesSurviveRelay == \A c \in air : Verifies(c.env)

=============================================================================
