------------------------------- MODULE Session -------------------------------
(***************************************************************************)
(* Sessions (crypto/signal.rs): X3DH between Alice, who starts, and Bob,   *)
(* then one chain of keys in each direction.  Keys are symbolic: a         *)
(* Diffie-Hellman result is known by its two keys, a derived key by what   *)
(* it was derived from, and a ciphertext opens only under the key and the  *)
(* associated data it was sealed with.                                     *)
(*                                                                         *)
(* The mesh may lose, repeat, reorder, delay and damage what is sent.      *)
(* dh_ratchet is not modelled: nothing calls it.                           *)
(***************************************************************************)
EXTENDS Naturals, Sequences, FiniteSets

CONSTANTS
    Alice, Bob,         \* the parties, each known by its identity key
    SignedPrekey,       \* Bob's signed prekeys
    OneTimePrekey,      \* and one-time prekeys
    Ephemeral,          \* ephemeral keys there are to draw
    Garbled,            \* a damaged field
    None,
    CounterSpan,        \* message counters are u32: 2^32
    MaxLives,           \* bound: sessions a party starts
    MaxSent,            \* bound: messages sent
    MaxCalls            \* bound: calls of decrypt in a session

ASSUME SessionConstants ==
    /\ Alice # Bob
    /\ {Alice, Bob} \intersect {Garbled, None} = {} /\ Garbled # None
    /\ (SignedPrekey \union OneTimePrekey \union Ephemeral)
          \intersect {Alice, Bob, Garbled, None} = {}
    /\ SignedPrekey \intersect (OneTimePrekey \union Ephemeral) = {}
    /\ OneTimePrekey \intersect Ephemeral = {}
    /\ CounterSpan \in Nat \ {0}
    /\ {MaxLives, MaxSent, MaxCalls} \subseteq Nat

Party == {Alice, Bob}

ASSUME NoneIsNoText == None \notin [ by : Party, life : Nat, pos : Nat ]

VARIABLES
    session,    \* each party's present session, or None
    initials,   \* X3DH initial messages sent
    wire,       \* ciphertexts sent
    spent,      \* ephemeral keys drawn
    life,       \* history: how many sessions each party has started
    heard,      \* history: what each call of decrypt made of its argument,
                \* in the present session of each party
    before      \* history: what each party accepted in its earlier sessions

vars == <<session, initials, wire, spent, life, heard, before>>

-----------------------------------------------------------------------------
(* Keys.                                                                   *)

(* derive_shared_key: either side computes it from its secret and the      *)
(* other's public key.                                                     *)
DH(k1, k2, context) == [ keys |-> {k1, k2}, context |-> context ]

(* A chain key: hkdf_derive from the root, then once for every step.       *)
Chain(root, info) == [ root |-> root, info |-> info, steps |-> << >> ]

(* A slip: a step keeps the chain key.                                     *)
StepInPlace(chain, n) == chain

(* The chain half of ratchet_send and ratchet_recv.                        *)
Step(chain, n) == [ chain EXCEPT !.steps = Append(@, n) ]

(* A slip: the counter does not wrap.                                      *)
SuccWide(n) == n + 1

(* self.send_n += 1 in a release build.  (A debug build panics.)           *)
Succ(n) == (n + 1) % CounterSpan

MessageKey(chain, n) == [ chain |-> chain, n |-> n ]

(* session_id is a hash of the root key.                                   *)
Aad(root, n) == <<root, n>>

(* A new SessionState.  used is history: the keys it was made from.        *)
NewSession(root, sendInfo, recvInfo, used) ==
    [ root |-> root, send |-> Chain(root, sendInfo), recv |-> Chain(root, recvInfo),
      send_n |-> 0, recv_n |-> 0, used |-> used ]

(* What calls of decrypt accepted.                                         *)
Accepted(results) == { results[i] : i \in DOMAIN results } \ {None}

Start(p, s) ==
    /\ session' = [ session EXCEPT ![p] = s ]
    /\ life' = [ life EXCEPT ![p] = @ + 1 ]
    /\ heard' = [ heard EXCEPT ![p] = << >> ]
    /\ before' = [ before EXCEPT ![p] = @ \union Accepted(heard[p]) ]

-----------------------------------------------------------------------------
(* X3DH.                                                                   *)

(* The bundles Bob publishes, and what may arrive of them.                 *)
Published ==
    { [ id |-> Bob, key |-> Bob, spk |-> s, signer |-> Bob, signed |-> s, opk |-> o ] :
        s \in SignedPrekey, o \in OneTimePrekey \union {None} }

Bundles ==
    Published \union { [ b EXCEPT !.spk = Garbled ] : b \in Published }
              \union { [ b EXCEPT !.id = Garbled ] : b \in Published }
              \union { [ b EXCEPT !.opk = Garbled ] : b \in Published }

(* X3DHBundle::verify: the id is the hash of the key, and the key signed   *)
(* the prekey.  The one-time prekey is not signed.                         *)
VerifiedBundle(b) == b.id = b.key /\ b.signer = b.key /\ b.signed = b.spk

(* init_as_alice: two DHs with the signed prekey and, if there is a        *)
(* one-time prekey, a third with an ephemeral key of its own, which the    *)
(* initial message does not carry.                                         *)
InitAsAlice(b, eph, eph2) ==
    LET third == IF b.opk = None THEN << >> ELSE << DH(eph2, b.opk, "x3dh-dh3") >>
        root == << DH(Alice, b.spk, "x3dh-dh1"), DH(eph, b.spk, "x3dh-dh2") >> \o third
    IN
    /\ life[Alice] < MaxLives
    /\ VerifiedBundle(b)
    /\ IF b.opk = None THEN eph2 = eph ELSE eph2 # eph
    /\ {eph, eph2} \intersect spent = {}
    /\ spent' = spent \union {eph, eph2}
    /\ Start(Alice, NewSession(root, "send", "recv",
                               [ id |-> Alice, eph |-> eph, spk |-> b.spk, opk |-> b.opk ]))
    /\ initials' = initials \union
                     {[ id |-> Alice, key |-> Alice, eph |-> eph, spk |-> b.spk ]}
    /\ UNCHANGED wire

InitialsArriving ==
    initials \union { [ m EXCEPT !.eph = Garbled ] : m \in initials }
             \union { [ m EXCEPT !.id = Garbled ] : m \in initials }
             \union { [ m EXCEPT !.id = Garbled, !.key = Garbled ] : m \in initials }
             \union { [ m EXCEPT !.id = Garbled, !.key = Garbled, !.eph = Garbled ] :
                        m \in initials }

(* Slips: the second DH is forgotten; the chains are not mirrored.         *)
BobsRootShort(m, spk, opk) ==
    << DH(spk, m.key, "x3dh-dh1") >>
       \o (IF opk = None THEN << >> ELSE << DH(opk, m.eph, "x3dh-dh3") >>)

BobsRoot(m, spk, opk) ==
    << DH(spk, m.key, "x3dh-dh1"), DH(spk, m.eph, "x3dh-dh2") >>
       \o (IF opk = None THEN << >> ELSE << DH(opk, m.eph, "x3dh-dh3") >>)

BobsSessionUnmirrored(root, used) == NewSession(root, "send", "recv", used)

BobsSession(root, used) == NewSession(root, "recv", "send", used)

(* init_as_bob, with whichever of his prekeys Bob's application passes:    *)
(* the signed one the message echoes is not checked, and whether Alice     *)
(* used a one-time prekey is not in the message.  The id is checked to be  *)
(* the key's; nothing says that they are Alice's.  Called again for a      *)
(* repeated initial message, it starts another session.                    *)
InitAsBob(m, spk, opk) ==
    /\ life[Bob] < MaxLives
    /\ m.id = m.key
    /\ Start(Bob, BobsSession(BobsRoot(m, spk, opk),
                              [ id |-> m.key, eph |-> m.eph, spk |-> spk, opk |-> opk ]))
    /\ UNCHANGED <<initials, wire, spent>>

-----------------------------------------------------------------------------
(* Messages.                                                               *)

(* SessionState::encrypt, after ratchet_send.                              *)
Encrypt(p) ==
    LET s == session[p]
        chain == Step(s.send, s.send_n)
        n == Succ(s.send_n)
    IN
    /\ s # None
    /\ Cardinality(wire) < MaxSent
    /\ session' = [ session EXCEPT ![p].send = chain, ![p].send_n = n ]
    /\ wire' = wire \union
                 {[ by |-> p, life |-> life[p], used |-> s.used,
                    pos |-> Cardinality({ c \in wire : c.by = p /\ c.life = life[p] }) + 1,
                    n |-> n, key |-> MessageKey(chain, n), aad |-> Aad(s.root, n) ]}
    /\ UNCHANGED <<initials, spent, life, heard, before>>

(* A slip: the receiving counter in the associated data is the one before  *)
(* the step.                                                               *)
OpensBefore(s, chain, n, c) ==
    MessageKey(chain, n) = c.key /\ Aad(s.root, s.recv_n) = c.aad

(* decrypt_with_aad under the key of this step.  expected_n comes with the *)
(* ciphertext.                                                             *)
Opens(s, chain, n, c) == MessageKey(chain, n) = c.key /\ Aad(s.root, c.n) = c.aad

(* What came: who sent it in which of its sessions, and its place in it.   *)
Text(c) == [ by |-> c.by, life |-> c.life, pos |-> c.pos ]

(* SessionState::decrypt: ratchet_recv first, whatever comes of it.        *)
DecryptCall(p, result) ==
    /\ session[p] # None
    /\ Len(heard[p]) < MaxCalls
    /\ session' = [ session EXCEPT ![p].recv = Step(@, session[p].recv_n),
                                   ![p].recv_n = Succ(@) ]
    /\ heard' = [ heard EXCEPT ![p] = Append(@, result) ]
    /\ UNCHANGED <<initials, wire, spent, life, before>>

Decrypt(p, c) ==
    LET s == session[p]
        opened == Opens(s, Step(s.recv, s.recv_n), Succ(s.recv_n), c)
    IN
    /\ c.by # p
    /\ DecryptCall(p, IF opened THEN Text(c) ELSE None)

(* A damaged ciphertext, or number.                                        *)
DecryptDamaged(p) == DecryptCall(p, None)

-----------------------------------------------------------------------------

TypeOK ==
    /\ \A p \in Party : session[p] # None =>
          /\ session[p].send_n \in 0..(CounterSpan - 1)
          /\ session[p].recv_n \in 0..(CounterSpan - 1)
          /\ session[p].send_n = Len(session[p].send.steps) % CounterSpan
          /\ session[p].recv_n = Len(session[p].recv.steps) % CounterSpan
          /\ Len(heard[p]) = Len(session[p].recv.steps)
    /\ life \in [Party -> Nat]
    /\ spent \subseteq Ephemeral
    /\ \A m \in initials : m.eph \in spent
    /\ \A c \in wire : c.by \in Party /\ c.life \in 1..life[c.by] /\ c.pos >= 1

Init ==
    /\ session = [ p \in Party |-> None ]
    /\ initials = {}
    /\ wire = {}
    /\ spent = {}
    /\ life = [ p \in Party |-> 0 ]
    /\ heard = [ p \in Party |-> << >> ]
    /\ before = [ p \in Party |-> {} ]

Next ==
    \/ \E b \in Bundles, e1, e2 \in Ephemeral : InitAsAlice(b, e1, e2)
    \/ \E m \in InitialsArriving, s \in SignedPrekey, o \in OneTimePrekey \union {None} :
          InitAsBob(m, s, o)
    \/ \E p \in Party : Encrypt(p) \/ DecryptDamaged(p)
    \/ \E p \in Party, c \in wire : Decrypt(p, c)

Spec == Init /\ [][Next]_vars

-----------------------------------------------------------------------------

(* The two ends of X3DH have one root key exactly when they used the same  *)
(* identity, ephemeral and signed prekey and no one-time prekey: with one, *)
(* Alice's third DH uses a key Bob never learns (signal.rs:210), and they  *)
(* never agree, whatever Bob's application passes to init_as_bob; see      *)
(* BobDerivesSameRoot.                                                     *)
RootsAgree ==
    LET a == session[Alice]  b == session[Bob] IN
    a # None /\ b # None =>
        (a.root = b.root <=> a.used = b.used /\ a.used.opk = None)

(* signal.rs:255: init_as_bob derives the same root key from Alice's       *)
(* initial message, given the prekeys she used.                            *)
BobDerivesSameRoot ==
    LET a == session[Alice]  b == session[Bob] IN
    a # None /\ b # None /\ a.used = b.used => a.root = b.root

(* No key seals two messages, in either direction, over any number of      *)
(* sessions and across the counters' wrap, with one exception: Bob started *)
(* two sessions from one initial message.                                  *)
KeysUsedOnce ==
    \A c, d \in wire :
        c.key = d.key =>
            \/ c = d
            \/ c.by = Bob /\ d.by = Bob /\ c.life # d.life /\ c.used = d.used

(* The k-th call of decrypt succeeds exactly on the k-th message of a      *)
(* session of the peer made from the same keys.  So within a session       *)
(* nothing is accepted twice or out of order; and a call on anything else, *)
(* a late, repeated or damaged message, uses up the message whose turn it  *)
(* was (signal.rs:171).                                                    *)
AcceptsExactlyTheNext ==
    [][ \A p \in Party, c \in wire : Decrypt(p, c) =>
            LET k == Len(heard[p]) + 1 IN
            heard'[p][k] = Text(c) <=>
                /\ c.used = session[p].used /\ c.used.opk = None
                /\ c.pos = k ]_vars

(* SECURITY.md:63: a ciphertext is not accepted again, by this session or  *)
(* by a later one.                                                         *)
NothingAcceptedTwice ==
    \A p \in Party :
        /\ Accepted(heard[p]) \intersect before[p] = {}
        /\ \A i, j \in DOMAIN heard[p] :
              heard[p][i] = heard[p][j] /\ heard[p][i] # None => i = j

=============================================================================
