------------------------------ MODULE Envelope ------------------------------
(***************************************************************************)
(* The wire envelope (messaging/envelope.rs): the shapes its constructors  *)
(* give it, hop accounting, field validation, freshness, and what its      *)
(* signature covers.  Payload, priority, flags and version are abstracted  *)
(* away; the channel name is present exactly when kind = "channel".        *)
(***************************************************************************)
EXTENDS Naturals

CONSTANTS
    Node,       \* identity ids
    Id,         \* envelope ids
    None        \* no recipient, or no signature

ASSUME NoneIsNotANode == None \notin Node

(* EnvelopeType, the kinds whose shape or routing differs.  "file_chunk"   *)
(* stands for the kinds that no check names (voice_frame, read_receipt).   *)
Kind == { "direct", "channel", "broadcast", "route_announce",
          "peer_discovery", "emergency_beacon", "delivery_receipt", "file_chunk" }

(* The fields the relays leave alone, and the two they change.             *)
Body == [ id : Id, kind : Kind, sender : Node, recipient : Node \union {None}, ts : Nat ]
Hop  == [ ttl : Nat, hops : Nat ]

(* An envelope: its body, its current hop fields, and the hop fields its   *)
(* signature covers.  A signature over anything but the whole envelope is  *)
(* never made (sign), so those hop fields identify the signed bytes.       *)
EnvelopeSet == [ body : Body, hop : Hop, sig : Hop \union {None} ]

Unsigned(body, ttl) ==
    [ body |-> body, hop |-> [ttl |-> ttl, hops |-> 0], sig |-> None ]

DirectText(id, sender, recipient, ttl, now) ==
    Unsigned([ id |-> id, kind |-> "direct", sender |-> sender,
               recipient |-> recipient, ts |-> now ], ttl)

Flooded(kind, id, sender, ttl, now) ==
    Unsigned([ id |-> id, kind |-> kind, sender |-> sender,
               recipient |-> None, ts |-> now ], ttl)

BroadcastText(id, sender, ttl, now)     == Flooded("broadcast", id, sender, ttl, now)
RouteAnnounce(id, sender, maxHops, now) == Flooded("route_announce", id, sender, maxHops, now)

(* advance_ttl: its two early returns, then its two assignments.  hops is  *)
(* below max_hops <= 255 when it is incremented, so it never saturates.    *)
CanAdvance(env, maxHops) == env.hop.ttl > 0 /\ env.hop.hops < maxHops

Advanced(env) ==
    [ env EXCEPT !.hop = [ ttl |-> env.hop.ttl - 1, hops |-> env.hop.hops + 1 ] ]

(* signing_bytes serialises every field but the signature, ttl and hops    *)
(* included; sign stores a signature over those bytes.                     *)
Signed(env)   == [ env EXCEPT !.sig = env.hop ]
Verifies(env) == env.sig = env.hop

(* validate: a direct envelope names a recipient, a flooded one names      *)
(* none, and the other kinds are not checked.                              *)
Valid(env) ==
    /\ env.body.kind = "direct" => env.body.recipient # None
    /\ env.body.kind \in { "channel", "broadcast", "peer_discovery",
                           "route_announce", "emergency_beacon" }
          => env.body.recipient = None

(* is_fresh, on the receiver's wall clock.                                 *)
IsFresh(env, now, maxAge, maxSkew) ==
    /\ env.body.ts <= now + maxSkew
    /\ now <= env.body.ts + maxAge

=============================================================================
