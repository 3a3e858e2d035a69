---------------------------- MODULE SessionProofs ----------------------------
(***************************************************************************)
(* Session.tla for any prekeys, any number of sessions and messages, and   *)
(* counters of any width.                                                  *)
(***************************************************************************)
EXTENDS Session, Integers, FiniteSetTheorems, TLAPS

-----------------------------------------------------------------------------
(* Counters.                                                               *)

(* Quotient and remainder are what they should be.                         *)
LEMMA DivisionParts ==
    ASSUME NEW C \in Nat \ {0}, NEW n \in Nat
    PROVE  n % C \in 0..(C - 1) /\ n \div C \in Int /\ n = C * (n \div C) + (n % C)
OBVIOUS

(* And the remainder is the only one.                                      *)
LEMMA OneRemainder ==
    ASSUME NEW C \in Nat \ {0}, NEW q1 \in Int, NEW q2 \in Int,
           NEW r1 \in 0..(C - 1), NEW r2 \in 0..(C - 1),
           C * q1 + r1 = C * q2 + r2
    PROVE  r1 = r2
<1>1. C * (q1 - q2) = r2 - r1
  OBVIOUS
<1>2. CASE q1 > q2
  <2>1. C * (q1 - q2) >= C
    BY <1>2
  <2> QED
    BY <1>1, <2>1
<1>3. CASE q1 < q2
  <2>1. C * (q1 - q2) <= -C
    BY <1>3
  <2> QED
    BY <1>1, <2>1
<1>4. CASE q1 = q2
  BY <1>4
<1> QED
  BY <1>2, <1>3, <1>4

(* A counter that wraps holds the number of steps modulo its span.         *)
LEMMA CounterCounts ==
    ASSUME NEW n \in Nat
    PROVE  n % CounterSpan \in 0..(CounterSpan - 1) /\ Succ(n % CounterSpan) = (n + 1) % CounterSpan
<1> DEFINE C == CounterSpan
           q == n \div C
           r == n % C
           q1 == (n + 1) \div C
           r1 == (n + 1) % C
<1>0. C \in Nat \ {0}
  BY SessionConstants
<1>1. q \in Int /\ q1 \in Int /\ r \in 0..(C - 1) /\ r1 \in 0..(C - 1)
  BY <1>0, DivisionParts
<1>2. n = C * q + r /\ n + 1 = C * q1 + r1
  BY <1>0, DivisionParts
<1>3. C % C = 0
  <2>1. C = C * (C \div C) + (C % C) /\ C \div C \in Int /\ C % C \in 0..(C - 1)
    BY <1>0, DivisionParts
  <2>2. C * 1 + 0 = C
    BY <1>0
  <2> HIDE DEF C, r
  <2> QED
    BY <1>0, <2>1, <2>2, OneRemainder
<1>4. CASE r + 1 < C
  <2>1. (r + 1) % C = r + 1
    BY <1>0, <1>1, <1>4
  <2>2. r + 1 \in 0..(C - 1)
    BY <1>0, <1>1, <1>4
  <2> HIDE DEF C, q, r, q1, r1
  <2>3. C * q + (r + 1) = C * q1 + r1
    BY <1>0, <1>1, <1>2
  <2>4. r + 1 = r1
    BY <1>0, <1>1, <2>2, <2>3, OneRemainder
  <2> QED
    BY <1>1, <2>1, <2>4 DEF C, r, r1, Succ
<1>5. CASE r + 1 = C
  <2> HIDE DEF C, q, r, q1, r1
  <2>1. C * (q + 1) + 0 = C * q1 + r1
    BY <1>0, <1>1, <1>2, <1>5
  <2>2. r1 = 0
    BY <1>0, <1>1, <2>1, OneRemainder
  <2> QED
    BY <1>1, <1>3, <1>5, <2>2 DEF C, r, r1, Succ
<1> QED
  BY <1>0, <1>1, <1>4, <1>5

(* The numbers of a chain's first k steps.                                 *)
Steps(k) == [ i \in 1..k |-> (i - 1) % CounterSpan ]

(* A chain of root and info after k steps.                                 *)
ChainAfter(root, info, k) == [ root |-> root, info |-> info, steps |-> Steps(k) ]

(* One more step of a chain and its counter.                               *)
LEMMA ChainAdvances ==
    ASSUME NEW root, NEW info, NEW k \in Nat
    PROVE  /\ Step(ChainAfter(root, info, k), k % CounterSpan) = ChainAfter(root, info, k + 1)
           /\ Len(Steps(k)) = k
           /\ Succ(k % CounterSpan) = (k + 1) % CounterSpan
<1>1. Steps(k) \in Seq(Nat) /\ Len(Steps(k)) = k
  <2>1. \A i \in 1..k : (i - 1) % CounterSpan \in Nat
    BY SessionConstants, CounterCounts
  <2> QED
    BY <2>1 DEF Steps
<1>2. Append(Steps(k), k % CounterSpan) = Steps(k + 1)
  <2>1. k % CounterSpan \in Nat
    BY SessionConstants, CounterCounts
  <2> DEFINE longer == Append(Steps(k), k % CounterSpan)
  <2>2. /\ longer \in Seq(Nat) /\ Len(longer) = k + 1
        /\ \A i \in 1..(k + 1) : longer[i] = IF i <= k THEN Steps(k)[i] ELSE k % CounterSpan
    BY <1>1, <2>1
  <2>3. longer = [ i \in 1..(k + 1) |-> longer[i] ]
    BY <2>2
  <2>4. \A i \in 1..(k + 1) : longer[i] = (i - 1) % CounterSpan
    BY <2>2 DEF Steps
  <2> HIDE DEF longer
  <2>5. longer = Steps(k + 1)
    BY <2>3, <2>4 DEF Steps
  <2> QED
    BY <2>5 DEF longer
<1>3. Step(ChainAfter(root, info, k), k % CounterSpan)
          = [ root |-> root, info |-> info, steps |-> Append(Steps(k), k % CounterSpan) ]
  BY DEF Step, ChainAfter
<1> QED
  BY <1>1, <1>2, <1>3, CounterCounts DEF ChainAfter

(* As many steps as there were.                                            *)
LEMMA StepsLength == \A k \in Nat : Len(Steps(k)) = k
BY ChainAdvances

-----------------------------------------------------------------------------
(* Roots.                                                                  *)

Used ==
    [ id : {Alice, Garbled}, eph : Ephemeral \union {Garbled}, spk : SignedPrekey,
      opk : OneTimePrekey \union {None, Garbled} ]

(* What Alice's root is for a session made from the keys of used.          *)
AlicesRoot(root, used) ==
    LET two == << DH(Alice, used.spk, "x3dh-dh1"), DH(used.eph, used.spk, "x3dh-dh2") >> IN
    /\ used \in Used /\ used.id = Alice /\ used.eph \in Ephemeral
    /\ \/ used.opk = None /\ root = two
       \/ /\ used.opk # None
          /\ \E eph2 \in Ephemeral \ {used.eph} :
                root = << two[1], two[2], DH(eph2, used.opk, "x3dh-dh3") >>

(* What Bob's is.                                                          *)
BobsRootFrom(root, used) ==
    LET two == << DH(used.spk, used.id, "x3dh-dh1"), DH(used.spk, used.eph, "x3dh-dh2") >> IN
    /\ used \in Used /\ used.opk # Garbled
    /\ root = IF used.opk = None THEN two
              ELSE << two[1], two[2], DH(used.opk, used.eph, "x3dh-dh3") >>

RootFrom(p, root, used) ==
    IF p = Alice THEN AlicesRoot(root, used) ELSE BobsRootFrom(root, used)

(* No key is of two kinds.                                                 *)
LEMMA KindsOfKeys ==
    ASSUME NEW u \in Used
    PROVE  /\ u.spk # Alice /\ u.spk # u.id /\ u.spk # u.eph /\ u.spk # Garbled
           /\ u.opk # None => u.opk \notin Ephemeral
           /\ u.opk # None /\ u.opk # Garbled => u.opk # u.eph
           /\ u = [ id |-> u.id, eph |-> u.eph, spk |-> u.spk, opk |-> u.opk ]
BY SessionConstants DEF Used

(* Equal results of DH have equal pairs of keys.                           *)
LEMMA SamePair ==
    ASSUME NEW k1, NEW k2, NEW j1, NEW j2, NEW context,
           DH(k1, k2, context) = DH(j1, j2, context)
    PROVE  {k1, k2} = {j1, j2}
BY DEF DH

(* Alice's root and Bob's are one exactly if they are made from the same   *)
(* keys and no one-time prekey.                                            *)
LEMMA RootsMatch ==
    ASSUME NEW r1, NEW u1, NEW r2, NEW u2, AlicesRoot(r1, u1), BobsRootFrom(r2, u2)
    PROVE  r1 = r2 <=> u1 = u2 /\ u1.opk = None
<1>1. /\ u1 \in Used /\ u2 \in Used /\ u1.eph \in Ephemeral
      /\ u1.id = Alice /\ u2.opk # Garbled
  BY DEF AlicesRoot, BobsRootFrom
<1>2. ASSUME u1 = u2, u1.opk = None PROVE r1 = r2
  BY <1>2 DEF AlicesRoot, BobsRootFrom, DH
<1>3. ASSUME r1 = r2 PROVE u1 = u2 /\ u1.opk = None
  <2>1. /\ r1[1] = DH(Alice, u1.spk, "x3dh-dh1")
        /\ r1[2] = DH(u1.eph, u1.spk, "x3dh-dh2")
        /\ Len(r1) = IF u1.opk = None THEN 2 ELSE 3
    BY DEF AlicesRoot
  <2>2. /\ r2[1] = DH(u2.spk, u2.id, "x3dh-dh1")
        /\ r2[2] = DH(u2.spk, u2.eph, "x3dh-dh2")
        /\ Len(r2) = IF u2.opk = None THEN 2 ELSE 3
        /\ u2.opk # None => r2[3] = DH(u2.opk, u2.eph, "x3dh-dh3")
    BY DEF BobsRootFrom
  <2>3. u1.spk = u2.spk /\ u2.id = Alice
    <3>1. {Alice, u1.spk} = {u2.spk, u2.id}
      BY <1>3, <2>1, <2>2, SamePair
    <3> QED
      BY <1>1, <3>1, KindsOfKeys
  <2>4. u1.eph = u2.eph
    BY <1>1, <1>3, <2>1, <2>2, <2>3, SamePair, KindsOfKeys
  <2>5. u1.opk = None <=> u2.opk = None
    BY <1>3, <2>1, <2>2
  <2>6. ASSUME u1.opk # None PROVE FALSE
    <3>1. PICK eph2 \in Ephemeral \ {u1.eph} : r1[3] = DH(eph2, u1.opk, "x3dh-dh3")
      BY <2>6 DEF AlicesRoot
    <3>2. DH(eph2, u1.opk, "x3dh-dh3") = DH(u2.opk, u2.eph, "x3dh-dh3")
      BY <1>3, <2>2, <2>5, <2>6, <3>1
    <3>3. {eph2, u1.opk} = {u2.opk, u2.eph}
      BY <3>2, SamePair
    <3> QED
      BY <1>1, <2>4, <2>5, <2>6, <3>3, KindsOfKeys
  <2> QED
    BY <1>1, <2>3, <2>4, <2>5, <2>6, KindsOfKeys
<1> QED
  BY <1>2, <1>3

(* Alice's root tells her ephemeral key.                                   *)
LEMMA AlicesRootTells ==
    ASSUME NEW root, NEW u1, NEW u2, AlicesRoot(root, u1), AlicesRoot(root, u2)
    PROVE  u1.eph = u2.eph
<1>1. /\ u1 \in Used /\ root[1] = DH(Alice, u1.spk, "x3dh-dh1")
      /\ root[2] = DH(u1.eph, u1.spk, "x3dh-dh2")
  BY DEF AlicesRoot
<1>2. /\ u2 \in Used /\ root[1] = DH(Alice, u2.spk, "x3dh-dh1")
      /\ root[2] = DH(u2.eph, u2.spk, "x3dh-dh2")
  BY DEF AlicesRoot
<1>3. u1.spk = u2.spk
  BY <1>1, <1>2, SamePair, KindsOfKeys
<1> QED
  BY <1>1, <1>2, <1>3, SamePair, KindsOfKeys

(* Bob's tells every key he used.                                          *)
LEMMA BobsRootTells ==
    ASSUME NEW root, NEW u1, NEW u2, BobsRootFrom(root, u1), BobsRootFrom(root, u2)
    PROVE  u1 = u2
<1>1. /\ u1 \in Used /\ u1.opk # Garbled /\ root[1] = DH(u1.spk, u1.id, "x3dh-dh1")
      /\ root[2] = DH(u1.spk, u1.eph, "x3dh-dh2")
      /\ Len(root) = IF u1.opk = None THEN 2 ELSE 3
      /\ u1.opk # None => root[3] = DH(u1.opk, u1.eph, "x3dh-dh3")
  BY DEF BobsRootFrom
<1>2. /\ u2 \in Used /\ u2.opk # Garbled /\ root[1] = DH(u2.spk, u2.id, "x3dh-dh1")
      /\ root[2] = DH(u2.spk, u2.eph, "x3dh-dh2")
      /\ Len(root) = IF u2.opk = None THEN 2 ELSE 3
      /\ u2.opk # None => root[3] = DH(u2.opk, u2.eph, "x3dh-dh3")
  BY DEF BobsRootFrom
<1>3. u1.spk = u2.spk /\ u1.id = u2.id
  <2>1. {u1.spk, u1.id} = {u2.spk, u2.id} /\ {u1.spk, u1.eph} = {u2.spk, u2.eph}
    BY <1>1, <1>2, SamePair
  <2>2. u1.id \in {Alice, Garbled} /\ u2.id \in {Alice, Garbled}
    BY <1>1, <1>2 DEF Used
  <2>3. u1.spk \notin {Alice, Garbled} /\ u2.spk \notin {Alice, Garbled}
    BY <1>1, <1>2, KindsOfKeys
  <2> QED
    BY <2>1, <2>2, <2>3
<1>4. u1.eph = u2.eph
  BY <1>1, <1>2, <1>3, SamePair, KindsOfKeys
<1>5. u1.opk = u2.opk
  <2>1. u1.opk = None <=> u2.opk = None
    BY <1>1, <1>2
  <2>2. CASE u1.opk # None
    <3>1. DH(u1.opk, u1.eph, "x3dh-dh3") = DH(u2.opk, u2.eph, "x3dh-dh3")
      BY <1>1, <1>2, <2>1, <2>2
    <3>2. {u1.opk, u1.eph} = {u2.opk, u2.eph}
      BY <3>1, SamePair
    <3> QED
      BY <1>1, <1>2, <1>4, <2>1, <2>2, <3>2, KindsOfKeys
  <2> QED
    BY <2>1, <2>2
<1> QED
  BY <1>1, <1>2, <1>3, <1>4, <1>5, KindsOfKeys

-----------------------------------------------------------------------------
(* The invariant.                                                          *)

SendInfo(p) == IF p = Alice THEN "send" ELSE "recv"
RecvInfo(p) == IF p = Alice THEN "recv" ELSE "send"

(* Messages of p's present session.                                        *)
Own(p) == { c \in wire : c.by = p /\ c.life = life[p] }

(* A session of p after j calls of encrypt and k of decrypt.               *)
SessionAfter(p, root, used, j, k) ==
    [ root |-> root,
      send |-> ChainAfter(root, SendInfo(p), j), recv |-> ChainAfter(root, RecvInfo(p), k),
      send_n |-> j % CounterSpan, recv_n |-> k % CounterSpan, used |-> used ]

(* The k-th message of a session of p.                                     *)
Message(p, l, root, used, k) ==
    [ by |-> p, life |-> l, used |-> used, pos |-> k, n |-> k % CounterSpan,
      key |-> MessageKey(ChainAfter(root, SendInfo(p), k), k % CounterSpan),
      aad |-> Aad(root, k % CounterSpan) ]

RootOf(c) == c.key.chain.root

Types ==
    /\ session = [ p \in Party |-> session[p] ]
    /\ life \in [ Party -> Nat ]
    /\ heard = [ p \in Party |-> heard[p] ]
    /\ \A p \in Party : heard[p] \in Seq({None} \union [ by : Party, life : Nat, pos : Nat ])
    /\ spent \subseteq Ephemeral
    /\ \A m \in initials :
          m.eph \in spent /\ m = [ id |-> Alice, key |-> Alice, eph |-> m.eph, spk |-> m.spk ]
    /\ IsFiniteSet(wire)

(* Sessions are what their roots and the calls so far make of them.        *)
SessionsMade ==
    \A p \in Party : session[p] # None =>
        LET s == session[p] IN
        /\ life[p] >= 1
        /\ s = SessionAfter(p, s.root, s.used, Cardinality(Own(p)), Len(heard[p]))
        /\ RootFrom(p, s.root, s.used)
        /\ p = Alice => s.used.eph \in spent

(* Messages are what their session made of them.                           *)
MessagesMade ==
    \A c \in wire :
        /\ c.by \in Party /\ c.life \in 1..life[c.by] /\ c.pos \in Nat \ {0}
        /\ c = Message(c.by, c.life, RootOf(c), c.used, c.pos)
        /\ RootFrom(c.by, RootOf(c), c.used)
        /\ c.by = Alice => c.used.eph \in spent

(* A message is of its party's present session, or Alice has since drawn   *)
(* another ephemeral key.                                                  *)
PresentOrPast ==
    \A c \in wire :
        LET s == session[c.by] IN
        IF c.life = life[c.by]
        THEN c.used = s.used /\ RootOf(c) = s.root /\ c.pos <= Cardinality(Own(c.by))
        ELSE c.by = Alice /\ s # None => c.used.eph # s.used.eph

(* One message at a place of a session; a session has one root; and        *)
(* Alice's sessions have each their ephemeral key.                         *)
PlacesDistinct ==
    \A c, d \in wire :
        /\ c.by = d.by /\ c.life = d.life => c.used = d.used /\ RootOf(c) = RootOf(d)
        /\ c.by = d.by /\ c.life = d.life /\ c.pos = d.pos => c = d
        /\ c.by = Alice /\ d.by = Alice /\ c.life # d.life => c.used.eph # d.used.eph

SInv == Types /\ SessionsMade /\ MessagesMade /\ PresentOrPast /\ PlacesDistinct

(* A new session has made no step.                                         *)
LEMMA NewSessionIsUnused ==
    ASSUME NEW root, NEW used
    PROVE  /\ NewSession(root, "send", "recv", used) = SessionAfter(Alice, root, used, 0, 0)
           /\ BobsSession(root, used) = SessionAfter(Bob, root, used, 0, 0)
<1>1. Steps(0) = << >>
  BY DEF Steps
<1>2. 0 % CounterSpan = 0
  BY SessionConstants
<1> QED
  BY <1>1, <1>2, SessionConstants
  DEF NewSession, BobsSession, SessionAfter, ChainAfter, Chain, SendInfo, RecvInfo

(* Starting a session, with a root made as it should be and, for Alice, a  *)
(* new ephemeral key, keeps the invariant.                                 *)
LEMMA StartKeeps ==
    ASSUME SInv, NEW p \in Party, NEW root, NEW used, RootFrom(p, root, used),
           Start(p, SessionAfter(p, root, used, 0, 0)), wire' = wire,
           spent \subseteq spent', spent' \subseteq Ephemeral,
           p = Alice => used.eph \in spent' \ spent,
           \A m \in initials' :
              m.eph \in spent' /\ m = [ id |-> Alice, key |-> Alice, eph |-> m.eph, spk |-> m.spk ]
    PROVE  SInv'
<1> DEFINE new == SessionAfter(p, root, used, 0, 0)
<1>1. /\ session' = [ q \in Party |-> IF q = p THEN new ELSE session[q] ]
      /\ life' = [ q \in Party |-> IF q = p THEN life[q] + 1 ELSE life[q] ]
      /\ heard' = [ q \in Party |-> IF q = p THEN << >> ELSE heard[q] ]
  BY DEF Start, SInv, Types
<1>2. new.used = used /\ new.root = root
  BY DEF SessionAfter
<1> HIDE DEF new
<1>3. Types'
  BY <1>1 DEF SInv, Types
<1>4. /\ Own(p)' = {} /\ Cardinality(Own(p)') = 0
      /\ \A q \in Party \ {p} : Own(q)' = Own(q)
  <2>1. Own(p)' = {}
    BY <1>1 DEF Own, SInv, Types, MessagesMade
  <2>2. \A q \in Party \ {p} : Own(q)' = Own(q)
    BY <1>1 DEF Own
  <2> QED
    BY <2>1, <2>2, FS_EmptySet
<1>5. SessionsMade'
  <2>1. SUFFICES ASSUME NEW q \in Party, session'[q] # None
                 PROVE  /\ life'[q] >= 1
                        /\ session'[q] = SessionAfter(q, session'[q].root, session'[q].used,
                                                      Cardinality(Own(q)'), Len(heard'[q]))
                        /\ RootFrom(q, session'[q].root, session'[q].used)
                        /\ q = Alice => session'[q].used.eph \in spent'
    BY DEF SessionsMade, RootFrom, AlicesRoot, BobsRootFrom, SessionAfter, ChainAfter, Steps
  <2>2. CASE q = p
    <3>1. life'[q] >= 1
      BY <1>1, <2>2 DEF SInv, Types
    <3> QED
      BY <1>1, <1>2, <1>4, <2>2, <3>1 DEF new
  <2>3. CASE q # p
    BY <1>1, <1>4, <2>1, <2>3 DEF SInv, SessionsMade
  <2> QED
    BY <2>2, <2>3
<1>6. MessagesMade'
  BY <1>1 DEF SInv, Types, MessagesMade, RootFrom, AlicesRoot, BobsRootFrom, RootOf, Message,
              ChainAfter, Steps
<1>7. PresentOrPast'
  <2> SUFFICES ASSUME NEW c \in wire
               PROVE  IF c.life = life'[c.by]
                      THEN c.used = session'[c.by].used /\ RootOf(c) = session'[c.by].root
                           /\ c.pos <= Cardinality(Own(c.by)')
                      ELSE c.by = Alice /\ session'[c.by] # None =>
                              c.used.eph # session'[c.by].used.eph
    BY DEF PresentOrPast, RootOf
  <2>1. c.by \in Party /\ c.life \in 1..life[c.by] /\ (c.by = Alice => c.used.eph \in spent)
    BY DEF SInv, MessagesMade
  <2>2. CASE c.by = p
    BY <1>1, <1>2, <2>1, <2>2 DEF SInv, Types
  <2>3. CASE c.by # p
    BY <1>1, <1>4, <2>1, <2>3 DEF SInv, PresentOrPast
  <2> QED
    BY <2>2, <2>3
<1>8. PlacesDistinct'
  BY DEF SInv, PlacesDistinct, RootOf
<1> QED
  BY <1>3, <1>5, <1>6, <1>7, <1>8 DEF SInv

(* Appending to a pair.                                                    *)
LEMMA PairThen ==
    ASSUME NEW a, NEW b, NEW x
    PROVE  << a, b >> \o << >> = << a, b >> /\ << a, b >> \o << x >> = << a, b, x >>
<1> DEFINE S == {a, b, x}
           longer == << a, b >> \o << x >>
<1>1. /\ << a, b >> \in Seq(S) /\ << x >> \in Seq(S) /\ << >> \in Seq(S)
      /\ Len(<< a, b >>) = 2 /\ Len(<< x >>) = 1
  OBVIOUS
<1>2. << a, b >> \o << >> = << a, b >>
  BY <1>1
<1>3. /\ longer \in Seq(S) /\ Len(longer) = 3
      /\ \A i \in 1..3 : longer[i] = IF i <= 2 THEN << a, b >>[i] ELSE << x >>[i - 2]
  BY <1>1
<1>4. longer[1] = a /\ longer[2] = b /\ longer[3] = x
  BY <1>3
<1> HIDE DEF longer
<1>5. longer = << a, b, x >>
  BY <1>3, <1>4
<1> QED
  BY <1>2, <1>5 DEF longer

(* init_as_alice.                                                          *)
LEMMA AliceKeeps ==
    ASSUME SInv, NEW b \in Bundles, NEW eph \in Ephemeral, NEW eph2 \in Ephemeral,
           InitAsAlice(b, eph, eph2)
    PROVE  SInv'
<1> DEFINE third == IF b.opk = None THEN << >> ELSE << DH(eph2, b.opk, "x3dh-dh3") >>
           two == << DH(Alice, b.spk, "x3dh-dh1"), DH(eph, b.spk, "x3dh-dh2") >>
           used == [ id |-> Alice, eph |-> eph, spk |-> b.spk, opk |-> b.opk ]
<1>1. b.spk \in SignedPrekey /\ b.opk \in OneTimePrekey \union {None, Garbled}
  <2>1. VerifiedBundle(b)
    BY DEF InitAsAlice
  <2>2. /\ b.signed \in SignedPrekey
        /\ b.opk \in OneTimePrekey \union {None, Garbled}
    BY DEF Bundles, Published
  <2> QED
    BY <2>1, <2>2 DEF VerifiedBundle
<1>2. used \in Used
  BY <1>1 DEF Used
<1>3. two \o third = IF b.opk = None THEN two
                     ELSE << two[1], two[2], DH(eph2, b.opk, "x3dh-dh3") >>
  BY PairThen
<1>4. b.opk # None => eph2 \in Ephemeral \ {eph}
  BY DEF InitAsAlice
<1>5. AlicesRoot(two \o third, used)
  BY <1>2, <1>3, <1>4 DEF AlicesRoot
<1>6. /\ Start(Alice, NewSession(two \o third, "send", "recv", used))
      /\ spent' = spent \union {eph, eph2} /\ eph \notin spent
      /\ wire' = wire
      /\ initials' = initials \union {[ id |-> Alice, key |-> Alice, eph |-> eph, spk |-> b.spk ]}
  BY DEF InitAsAlice
<1> DEFINE root == two \o third
<1> HIDE DEF root
<1>7. RootFrom(Alice, root, used) /\ Start(Alice, SessionAfter(Alice, root, used, 0, 0))
  BY <1>5, <1>6, NewSessionIsUnused DEF RootFrom, root
<1>8. /\ spent \subseteq spent' /\ spent' \subseteq Ephemeral
      /\ used.eph \in spent' \ spent
      /\ \A m \in initials' :
            m.eph \in spent' /\ m = [ id |-> Alice, key |-> Alice, eph |-> m.eph, spk |-> m.spk ]
  BY <1>6 DEF SInv, Types
<1> HIDE DEF used
<1> QED
  BY <1>6, <1>7, <1>8, StartKeeps DEF Party

(* init_as_bob.                                                            *)
LEMMA BobKeeps ==
    ASSUME SInv, NEW m \in InitialsArriving, NEW spk \in SignedPrekey,
           NEW opk \in OneTimePrekey \union {None}, InitAsBob(m, spk, opk)
    PROVE  SInv'
<1> DEFINE used == [ id |-> m.key, eph |-> m.eph, spk |-> spk, opk |-> opk ]
           root == BobsRoot(m, spk, opk)
<1>1. m.key \in {Alice, Garbled} /\ m.eph \in Ephemeral \union {Garbled}
  <2>1. PICK d \in initials :
           m \in { d, [ d EXCEPT !.eph = Garbled ], [ d EXCEPT !.id = Garbled ],
                   [ d EXCEPT !.id = Garbled, !.key = Garbled ],
                   [ d EXCEPT !.id = Garbled, !.key = Garbled, !.eph = Garbled ] }
    BY DEF InitialsArriving
  <2>2. d.eph \in Ephemeral /\ d = [ id |-> Alice, key |-> Alice, eph |-> d.eph, spk |-> d.spk ]
    BY DEF SInv, Types
  <2>3. CASE m \in {d, [ d EXCEPT !.eph = Garbled ], [ d EXCEPT !.id = Garbled ]}
    BY <2>2, <2>3
  <2>4. CASE m = [ d EXCEPT !.id = Garbled, !.key = Garbled ]
    <3> DEFINE one == [ d EXCEPT !.id = Garbled ]
    <3>1. one = [ id |-> Garbled, key |-> Alice, eph |-> d.eph, spk |-> d.spk ]
      BY <2>2
    <3> HIDE DEF one
    <3>2. m = [ one EXCEPT !.key = Garbled ]
      BY <2>4 DEF one
    <3> QED
      BY <2>2, <3>1, <3>2
  <2>5. CASE m = [ d EXCEPT !.id = Garbled, !.key = Garbled, !.eph = Garbled ]
    <3> DEFINE one == [ d EXCEPT !.id = Garbled ]
               two == [ one EXCEPT !.key = Garbled ]
    <3>1. one = [ id |-> Garbled, key |-> Alice, eph |-> d.eph, spk |-> d.spk ]
      BY <2>2
    <3> HIDE DEF one
    <3>2. two = [ id |-> Garbled, key |-> Garbled, eph |-> d.eph, spk |-> d.spk ]
      BY <3>1
    <3> HIDE DEF two
    <3>3. m = [ two EXCEPT !.eph = Garbled ]
      BY <2>5 DEF one, two
    <3> QED
      BY <2>2, <3>2, <3>3
  <2> QED
    BY <2>1, <2>3, <2>4, <2>5
<1>2. used \in Used /\ used.opk # Garbled
  BY <1>1, SessionConstants DEF Used
<1>3. BobsRootFrom(root, used)
  <2> DEFINE two == << DH(spk, m.key, "x3dh-dh1"), DH(spk, m.eph, "x3dh-dh2") >>
  <2>1. root = IF opk = None THEN two ELSE << two[1], two[2], DH(opk, m.eph, "x3dh-dh3") >>
    <3>1. root = two \o (IF opk = None THEN << >> ELSE << DH(opk, m.eph, "x3dh-dh3") >>)
      BY <1>1 DEF BobsRoot
    <3> HIDE DEF root
    <3> QED
      BY <3>1, PairThen
  <2> HIDE DEF root
  <2> QED
    BY <1>2, <2>1 DEF BobsRootFrom
<1>4. /\ Start(Bob, BobsSession(root, used))
      /\ wire' = wire /\ spent' = spent /\ initials' = initials
  BY DEF InitAsBob
<1> HIDE DEF root, used
<1>5. RootFrom(Bob, root, used) /\ Start(Bob, SessionAfter(Bob, root, used, 0, 0))
  BY <1>3, <1>4, NewSessionIsUnused, SessionConstants DEF RootFrom
<1>6. /\ spent \subseteq spent' /\ spent' \subseteq Ephemeral
      /\ \A d \in initials' :
            d.eph \in spent' /\ d = [ id |-> Alice, key |-> Alice, eph |-> d.eph, spk |-> d.spk ]
  BY <1>4 DEF SInv, Types
<1> QED
  BY <1>4, <1>5, <1>6, StartKeeps, SessionConstants DEF Party

(* encrypt.                                                                *)
LEMMA EncryptKeeps ==
    ASSUME SInv, NEW p \in Party, Encrypt(p)
    PROVE  SInv'
<1> DEFINE s == session[p]
           j == Cardinality(Own(p))
           k == Len(heard[p])
           new == SessionAfter(p, s.root, s.used, j + 1, k)
           m == Message(p, life[p], s.root, s.used, j + 1)
<1>0. IsFiniteSet(Own(p)) /\ j \in Nat /\ k \in Nat
  <2>1. IsFiniteSet(Own(p))
    BY FS_Subset DEF SInv, Types, Own
  <2> QED
    BY <2>1, FS_CardinalityType DEF SInv, Types
<1>1. /\ s # None /\ s = SessionAfter(p, s.root, s.used, j, k) /\ RootFrom(p, s.root, s.used)
      /\ p = Alice => s.used.eph \in spent
  BY DEF Encrypt, SInv, SessionsMade
<1>2. /\ s.send = ChainAfter(s.root, SendInfo(p), j) /\ s.send_n = j % CounterSpan
      /\ s.recv = ChainAfter(s.root, RecvInfo(p), k) /\ s.recv_n = k % CounterSpan
  BY <1>1 DEF SessionAfter
<1>3. /\ Step(s.send, s.send_n) = ChainAfter(s.root, SendInfo(p), j + 1)
      /\ Succ(s.send_n) = (j + 1) % CounterSpan
  BY <1>0, <1>2, ChainAdvances
<1>4. [ s EXCEPT !.send = Step(s.send, s.send_n), !.send_n = Succ(s.send_n) ] = new
  <2> DEFINE root == s.root
             used == s.used
             x == Step(s.send, s.send_n)
             y == Succ(s.send_n)
             a == ChainAfter(root, SendInfo(p), j)
             b == ChainAfter(root, RecvInfo(p), k)
             half == [ root |-> root, send |-> x, recv |-> b, send_n |-> j % CounterSpan,
                       recv_n |-> k % CounterSpan, used |-> used ]
  <2>1. s = [ root |-> root, send |-> a, recv |-> b,
              send_n |-> j % CounterSpan, recv_n |-> k % CounterSpan, used |-> used ]
    BY <1>1 DEF SessionAfter
  <2>2. new = [ root |-> root, send |-> x, recv |-> b,
                send_n |-> y, recv_n |-> k % CounterSpan, used |-> used ]
    BY <1>3 DEF SessionAfter
  <2> HIDE DEF s, root, used, x, y, a, b, new
  <2>3. [ s EXCEPT !.send = x ] = half
    BY <2>1
  <2>4. [ half EXCEPT !.send_n = y ] = new
    BY <2>2
  <2> HIDE DEF half
  <2>5. [ s EXCEPT !.send = x, !.send_n = y ] = [ [ s EXCEPT !.send = x ] EXCEPT !.send_n = y ]
    OBVIOUS
  <2> QED
    BY <2>3, <2>4, <2>5 DEF x, y
<1>5. /\ session' = [ q \in Party |-> IF q = p THEN new ELSE session[q] ]
      /\ UNCHANGED <<initials, spent, life, heard>>
  <2>1. session' = [ session EXCEPT ![p] = [ s EXCEPT !.send = Step(s.send, s.send_n),
                                                   !.send_n = Succ(s.send_n) ] ]
    BY DEF Encrypt
  <2> QED
    BY <1>4, <2>1 DEF Encrypt, SInv, Types
<1>6. wire' = wire \union {m}
  BY <1>3 DEF Encrypt, Message, Own
<1>7. /\ m.by = p /\ m.life = life[p] /\ m.used = s.used /\ RootOf(m) = s.root /\ m.pos = j + 1
      /\ new.used = s.used /\ new.root = s.root
  BY DEF Message, RootOf, MessageKey, ChainAfter, SessionAfter
<1>8. life[p] \in Nat /\ life[p] >= 1
  BY <1>1 DEF SInv, SessionsMade, Types
<1> HIDE DEF new, m
<1>9. m = Message(m.by, m.life, RootOf(m), m.used, m.pos)
  BY <1>7 DEF m
<1> HIDE DEF s
<1>10. ASSUME NEW e \in wire
       PROVE  /\ e.by = p /\ e.life = life[p] =>
                    e.used = s.used /\ RootOf(e) = s.root /\ e.pos <= j
              /\ e.by = Alice /\ p = Alice /\ e.life # life[p] => e.used.eph # s.used.eph
              /\ e.by \in Party /\ e.pos \in Nat
  BY <1>1 DEF SInv, PresentOrPast, MessagesMade, s
<1> HIDE DEF j
<1>11. /\ Own(p)' = Own(p) \union {m} /\ Cardinality(Own(p)') = j + 1
       /\ \A q \in Party \ {p} : Own(q)' = Own(q)
  <2>1. Own(p)' = Own(p) \union {m}
    BY <1>5, <1>6, <1>7 DEF Own
  <2>2. \A q \in Party \ {p} : Own(q)' = Own(q)
    BY <1>5, <1>6, <1>7 DEF Own
  <2>3. m \notin Own(p)
    BY <1>0, <1>7, <1>10 DEF Own
  <2> QED
    BY <1>0, <2>1, <2>2, <2>3, FS_AddElement DEF j
<1>12. Types'
  BY <1>5, <1>6, FS_AddElement DEF SInv, Types
<1>13. SessionsMade'
  <2>1. SUFFICES ASSUME NEW q \in Party, session'[q] # None
                 PROVE  /\ life[q] >= 1
                        /\ session'[q] = SessionAfter(q, session'[q].root, session'[q].used,
                                                      Cardinality(Own(q)'), Len(heard[q]))
                        /\ RootFrom(q, session'[q].root, session'[q].used)
                        /\ q = Alice => session'[q].used.eph \in spent
    BY <1>5 DEF SessionsMade, RootFrom, AlicesRoot, BobsRootFrom, SessionAfter, ChainAfter, Steps
  <2>2. CASE q = p
    BY <1>1, <1>5, <1>7, <1>8, <1>11, <2>2 DEF new
  <2>3. CASE q # p
    BY <1>5, <1>11, <2>1, <2>3 DEF SInv, SessionsMade
  <2> QED
    BY <2>2, <2>3
<1>14. MessagesMade'
  <2>1. SUFFICES ASSUME NEW c \in wire'
                 PROVE  /\ c.by \in Party /\ c.life \in 1..life[c.by] /\ c.pos \in Nat \ {0}
                        /\ c = Message(c.by, c.life, RootOf(c), c.used, c.pos)
                        /\ RootFrom(c.by, RootOf(c), c.used)
                        /\ c.by = Alice => c.used.eph \in spent
    BY <1>5 DEF MessagesMade, RootFrom, AlicesRoot, BobsRootFrom, RootOf, Message, ChainAfter, Steps
  <2>2. CASE c = m
    BY <1>0, <1>1, <1>7, <1>8, <1>9, <2>2
  <2>3. CASE c # m
    BY <1>6, <2>1, <2>3 DEF SInv, MessagesMade
  <2> QED
    BY <2>2, <2>3
<1>15. PresentOrPast'
  <2>1. SUFFICES ASSUME NEW c \in wire'
                 PROVE  IF c.life = life[c.by]
                        THEN c.used = session'[c.by].used /\ RootOf(c) = session'[c.by].root
                             /\ c.pos <= Cardinality(Own(c.by)')
                        ELSE c.by = Alice /\ session'[c.by] # None =>
                                c.used.eph # session'[c.by].used.eph
    BY <1>5 DEF PresentOrPast, RootOf
  <2>2. CASE c = m
    <3>1. c.by = p /\ c.life = life[p] /\ session'[c.by] = new
      BY <1>5, <1>7, <2>2
    <3>2. Cardinality(Own(c.by)') = j + 1
      BY <1>11, <3>1
    <3> QED
      BY <1>0, <1>7, <2>2, <3>1, <3>2
  <2>3. CASE c # m /\ c.by = p
    <3>1. c \in wire /\ session'[c.by] = new
      BY <1>5, <1>6, <2>1, <2>3
    <3>2. Cardinality(Own(c.by)') = j + 1
      BY <1>11, <2>3
    <3> QED
      BY <1>0, <1>1, <1>7, <1>10, <2>3, <3>1, <3>2
  <2>4. CASE c # m /\ c.by # p
    <3>1. c \in wire /\ c.by \in Party
      BY <1>6, <1>10, <2>1, <2>4
    <3>2. session'[c.by] = session[c.by] /\ Own(c.by)' = Own(c.by)
      BY <1>5, <1>11, <2>4, <3>1
    <3> QED
      BY <3>1, <3>2 DEF SInv, PresentOrPast
  <2> QED
    BY <2>2, <2>3, <2>4
<1>16. PlacesDistinct'
  <2>1. SUFFICES ASSUME NEW c \in wire', NEW d \in wire'
                 PROVE  /\ c.by = d.by /\ c.life = d.life => c.used = d.used /\ RootOf(c) = RootOf(d)
                        /\ c.by = d.by /\ c.life = d.life /\ c.pos = d.pos => c = d
                        /\ c.by = Alice /\ d.by = Alice /\ c.life # d.life =>
                              c.used.eph # d.used.eph
    BY DEF PlacesDistinct, RootOf
  <2>2. CASE c = m /\ d = m
    BY <2>2
  <2>3. CASE c = m /\ d # m
    BY <1>0, <1>6, <1>7, <1>10, <2>1, <2>3
  <2>4. CASE c # m /\ d = m
    BY <1>0, <1>6, <1>7, <1>10, <2>1, <2>4
  <2>5. CASE c # m /\ d # m
    BY <1>6, <2>1, <2>5 DEF SInv, PlacesDistinct
  <2> QED
    BY <2>2, <2>3, <2>4, <2>5
<1> QED
  BY <1>12, <1>13, <1>14, <1>15, <1>16 DEF SInv

Results == {None} \union [ by : Party, life : Nat, pos : Nat ]

(* decrypt, whatever comes of it.                                          *)
LEMMA DecryptKeeps ==
    ASSUME SInv, NEW p \in Party, NEW result \in Results, DecryptCall(p, result)
    PROVE  SInv'
<1> DEFINE s == session[p]
           j == Cardinality(Own(p))
           k == Len(heard[p])
           new == SessionAfter(p, s.root, s.used, j, k + 1)
<1>1. /\ s # None /\ s = SessionAfter(p, s.root, s.used, j, k) /\ RootFrom(p, s.root, s.used)
      /\ p = Alice => s.used.eph \in spent
      /\ life[p] >= 1 /\ k \in Nat
  BY DEF DecryptCall, SInv, SessionsMade, Types
<1>2. s.recv = ChainAfter(s.root, RecvInfo(p), k) /\ s.recv_n = k % CounterSpan
  BY <1>1 DEF SessionAfter
<1>3. /\ Step(s.recv, s.recv_n) = ChainAfter(s.root, RecvInfo(p), k + 1)
      /\ Succ(s.recv_n) = (k + 1) % CounterSpan
  BY <1>1, <1>2, ChainAdvances
<1>4. [ s EXCEPT !.recv = Step(s.recv, s.recv_n), !.recv_n = Succ(s.recv_n) ] = new
  <2> DEFINE root == s.root
             used == s.used
             x == Step(s.recv, s.recv_n)
             y == Succ(s.recv_n)
             a == ChainAfter(root, SendInfo(p), j)
             b == ChainAfter(root, RecvInfo(p), k)
             half == [ root |-> root, send |-> a, recv |-> x, send_n |-> j % CounterSpan,
                       recv_n |-> k % CounterSpan, used |-> used ]
  <2>1. s = [ root |-> root, send |-> a, recv |-> b,
              send_n |-> j % CounterSpan, recv_n |-> k % CounterSpan, used |-> used ]
    BY <1>1 DEF SessionAfter
  <2>2. new = [ root |-> root, send |-> a, recv |-> x,
                send_n |-> j % CounterSpan, recv_n |-> y, used |-> used ]
    BY <1>3 DEF SessionAfter
  <2> HIDE DEF s, root, used, x, y, a, b, new
  <2>3. [ s EXCEPT !.recv = x ] = half
    BY <2>1
  <2>4. [ half EXCEPT !.recv_n = y ] = new
    BY <2>2
  <2> HIDE DEF half
  <2>5. [ s EXCEPT !.recv = x, !.recv_n = y ] = [ [ s EXCEPT !.recv = x ] EXCEPT !.recv_n = y ]
    OBVIOUS
  <2> QED
    BY <2>3, <2>4, <2>5 DEF x, y
<1>5. /\ session' = [ q \in Party |-> IF q = p THEN new ELSE session[q] ]
      /\ UNCHANGED <<initials, wire, spent, life>>
  <2>1. session' = [ session EXCEPT ![p] = [ s EXCEPT !.recv = Step(s.recv, s.recv_n),
                                                   !.recv_n = Succ(s.recv_n) ] ]
    BY DEF DecryptCall
  <2> QED
    BY <1>4, <2>1 DEF DecryptCall, SInv, Types
<1>6. /\ heard' = [ q \in Party |-> IF q = p THEN Append(heard[q], result) ELSE heard[q] ]
      /\ heard'[p] \in Seq(Results) /\ Len(heard'[p]) = k + 1
  <2>1. heard' = [ q \in Party |-> IF q = p THEN Append(heard[q], result) ELSE heard[q] ]
    BY DEF DecryptCall, SInv, Types
  <2>2. heard[p] \in Seq(Results)
    BY DEF SInv, Types, Results
  <2> HIDE DEF Results
  <2>3. Append(heard[p], result) \in Seq(Results) /\ Len(Append(heard[p], result)) = k + 1
    BY <2>2
  <2> QED
    BY <2>1, <2>3
<1>7. new.used = s.used /\ new.root = s.root
  BY DEF SessionAfter
<1>8. \A q \in Party : Own(q)' = Own(q)
  BY <1>5 DEF Own
<1>9. Types'
  BY <1>5, <1>6 DEF SInv, Types, Results
<1> HIDE DEF new
<1>10. SessionsMade'
  <2>1. SUFFICES ASSUME NEW q \in Party, session'[q] # None
                 PROVE  /\ life[q] >= 1
                        /\ session'[q] = SessionAfter(q, session'[q].root, session'[q].used,
                                                      Cardinality(Own(q)'), Len(heard'[q]))
                        /\ RootFrom(q, session'[q].root, session'[q].used)
                        /\ q = Alice => session'[q].used.eph \in spent
    BY <1>5 DEF SessionsMade, RootFrom, AlicesRoot, BobsRootFrom, SessionAfter, ChainAfter, Steps
  <2>2. CASE q = p
    BY <1>1, <1>5, <1>6, <1>7, <1>8, <2>2 DEF new
  <2>3. CASE q # p
    BY <1>5, <1>6, <1>8, <2>1, <2>3 DEF SInv, SessionsMade
  <2> QED
    BY <2>2, <2>3
<1>11. MessagesMade'
  BY <1>5 DEF SInv, MessagesMade, RootFrom, AlicesRoot, BobsRootFrom, RootOf, Message, ChainAfter, Steps
<1>12. PresentOrPast'
  <2>1. SUFFICES ASSUME NEW c \in wire
                 PROVE  IF c.life = life[c.by]
                        THEN c.used = session'[c.by].used /\ RootOf(c) = session'[c.by].root
                             /\ c.pos <= Cardinality(Own(c.by)')
                        ELSE c.by = Alice /\ session'[c.by] # None =>
                                c.used.eph # session'[c.by].used.eph
    BY <1>5 DEF PresentOrPast, RootOf
  <2>2. c.by \in Party /\ Own(c.by)' = Own(c.by)
    BY <1>8 DEF SInv, MessagesMade
  <2>3. /\ session'[c.by].used = session[c.by].used /\ session'[c.by].root = session[c.by].root
        /\ session'[c.by] # None => session[c.by] # None
    BY <1>1, <1>5, <1>7, <2>2
  <2> QED
    BY <2>2, <2>3 DEF SInv, PresentOrPast
<1>13. PlacesDistinct'
  BY <1>5 DEF SInv, PlacesDistinct, RootOf
<1> QED
  BY <1>9, <1>10, <1>11, <1>12, <1>13 DEF SInv

(* What a message opens to, and nothing, are results.                      *)
LEMMA TextIsResult ==
    ASSUME SInv, NEW c \in wire
    PROVE  Text(c) \in Results /\ Text(c) # None /\ None \in Results
BY NoneIsNoText DEF SInv, Types, MessagesMade, Text, Results

(* The invariant holds at the start.                                       *)
LEMMA SInvInit == Init => SInv
BY FS_EmptySet DEF Init, SInv, Types, SessionsMade, MessagesMade, PresentOrPast, PlacesDistinct

(* And is kept by every step.                                              *)
LEMMA SInvStep == SInv /\ [Next]_vars => SInv'
<1> SUFFICES ASSUME SInv, [Next]_vars PROVE SInv'
  OBVIOUS
<1>1. ASSUME NEW b \in Bundles, NEW e1 \in Ephemeral, NEW e2 \in Ephemeral,
             InitAsAlice(b, e1, e2)
      PROVE  SInv'
  BY <1>1, AliceKeeps
<1>2. ASSUME NEW m \in InitialsArriving, NEW s \in SignedPrekey,
             NEW o \in OneTimePrekey \union {None}, InitAsBob(m, s, o)
      PROVE  SInv'
  BY <1>2, BobKeeps
<1>3. ASSUME NEW p \in Party, Encrypt(p) PROVE SInv'
  BY <1>3, EncryptKeeps
<1>4. ASSUME NEW p \in Party, DecryptDamaged(p) PROVE SInv'
  BY <1>4, DecryptKeeps DEF DecryptDamaged, Results
<1>5. ASSUME NEW p \in Party, NEW c \in wire, Decrypt(p, c) PROVE SInv'
  <2>1. PICK result \in Results : DecryptCall(p, result)
    BY <1>5, TextIsResult DEF Decrypt
  <2> QED
    BY <2>1, DecryptKeeps
<1>6. CASE UNCHANGED vars
  <2>1. \A q \in Party : Own(q)' = Own(q)
    BY <1>6 DEF vars, Own
  <2>2. Types' /\ PlacesDistinct'
    BY <1>6 DEF vars, SInv, Types, PlacesDistinct, RootOf
  <2>3. SessionsMade'
    BY <1>6, <2>1 DEF vars, SInv, SessionsMade, SessionAfter, ChainAfter, Steps, RootFrom,
                      AlicesRoot, BobsRootFrom
  <2>4. MessagesMade'
    BY <1>6 DEF vars, SInv, MessagesMade, RootOf, Message, ChainAfter, Steps, RootFrom,
                AlicesRoot, BobsRootFrom
  <2>5. PresentOrPast'
    <3> SUFFICES ASSUME NEW c \in wire
                 PROVE  IF c.life = life[c.by]
                        THEN c.used = session[c.by].used /\ RootOf(c) = session[c.by].root
                             /\ c.pos <= Cardinality(Own(c.by)')
                        ELSE c.by = Alice /\ session[c.by] # None =>
                                c.used.eph # session[c.by].used.eph
      BY <1>6 DEF vars, PresentOrPast, RootOf
    <3>1. Own(c.by)' = Own(c.by)
      BY <2>1 DEF SInv, MessagesMade
    <3> QED
      BY <3>1 DEF SInv, PresentOrPast
  <2> QED
    BY <2>2, <2>3, <2>4, <2>5 DEF SInv
<1> QED
  BY <1>1, <1>2, <1>3, <1>4, <1>5, <1>6 DEF Next

(* Every session and every message is what X3DH and the calls so far make  *)
(* of it.                                                                  *)
THEOREM Inductive == Spec => []SInv
BY SInvInit, SInvStep, PTL DEF Spec

(* Counters stay within their width, count the steps of their chains, and  *)
(* wrap with them.                                                         *)
THEOREM TypeCorrect == Spec => []TypeOK
<1>1. SInv => TypeOK
  <2> SUFFICES ASSUME SInv PROVE TypeOK
    OBVIOUS
  <2>1. ASSUME NEW p \in Party, session[p] # None
        PROVE  /\ session[p].send_n \in 0..(CounterSpan - 1)
               /\ session[p].recv_n \in 0..(CounterSpan - 1)
               /\ session[p].send_n = Len(session[p].send.steps) % CounterSpan
               /\ session[p].recv_n = Len(session[p].recv.steps) % CounterSpan
               /\ Len(heard[p]) = Len(session[p].recv.steps)
    <3> DEFINE j == Cardinality(Own(p))
               k == Len(heard[p])
    <3>1. j \in Nat /\ k \in Nat
      <4>1. IsFiniteSet(Own(p))
        BY FS_Subset DEF SInv, Types, Own
      <4> QED
        BY <4>1, FS_CardinalityType DEF SInv, Types
    <3>2. session[p] = SessionAfter(p, session[p].root, session[p].used, j, k)
      BY <2>1 DEF SInv, SessionsMade
    <3>3. /\ session[p].send_n = j % CounterSpan /\ session[p].recv_n = k % CounterSpan
          /\ session[p].send.steps = Steps(j) /\ session[p].recv.steps = Steps(k)
      BY <3>2 DEF SessionAfter, ChainAfter
    <3> HIDE DEF j, k
    <3>4. Len(Steps(j)) = j /\ Len(Steps(k)) = k
      BY <3>1, ChainAdvances
    <3> QED
      BY <3>1, <3>3, <3>4, CounterCounts DEF k
  <2>2. \A c \in wire : c.by \in Party /\ c.life \in 1..life[c.by] /\ c.pos >= 1
    BY DEF SInv, MessagesMade
  <2> QED
    BY <2>1, <2>2 DEF TypeOK, SInv, Types
<1> QED
  BY Inductive, <1>1, PTL

(* For any prekeys and keys Bob's application passes to init_as_bob: the   *)
(* roots agree exactly if both sides used the same keys and no one-time    *)
(* prekey.                                                                 *)
THEOREM RootsCorrect == Spec => []RootsAgree
<1>1. SInv => RootsAgree
  <2> SUFFICES ASSUME SInv, session[Alice] # None, session[Bob] # None
               PROVE  session[Alice].root = session[Bob].root
                         <=> /\ session[Alice].used = session[Bob].used
                             /\ session[Alice].used.opk = None
    BY DEF RootsAgree
  <2>1. /\ AlicesRoot(session[Alice].root, session[Alice].used)
        /\ BobsRootFrom(session[Bob].root, session[Bob].used)
    BY SessionConstants DEF SInv, SessionsMade, RootFrom, Party
  <2> QED
    BY <2>1, RootsMatch
<1> QED
  BY Inductive, <1>1, PTL

(* No key seals two messages, over any number of sessions and messages and *)
(* whatever the counters' width, but for Bob's second session from one     *)
(* initial message.                                                        *)
THEOREM KeysCorrect == Spec => []KeysUsedOnce
<1>1. SInv => KeysUsedOnce
  <2> SUFFICES ASSUME SInv, NEW c \in wire, NEW d \in wire, c.key = d.key
               PROVE  \/ c = d
                      \/ c.by = Bob /\ d.by = Bob /\ c.life # d.life /\ c.used = d.used
    BY DEF KeysUsedOnce
  <2>1. /\ c.by \in Party /\ d.by \in Party
        /\ RootFrom(c.by, RootOf(c), c.used) /\ RootFrom(d.by, RootOf(d), d.used)
        /\ c.pos \in Nat /\ d.pos \in Nat
    BY DEF SInv, MessagesMade
  <2>2. /\ c.key.chain.info = SendInfo(c.by) /\ c.key.chain.steps = Steps(c.pos)
        /\ d.key.chain.info = SendInfo(d.by) /\ d.key.chain.steps = Steps(d.pos)
    <3>1. ASSUME NEW e \in wire
          PROVE  e.key = MessageKey(ChainAfter(RootOf(e), SendInfo(e.by), e.pos), e.pos % CounterSpan)
      <4>1. e = Message(e.by, e.life, RootOf(e), e.used, e.pos)
        BY DEF SInv, MessagesMade
      <4> QED
        BY <4>1 DEF Message
    <3>2. ASSUME NEW e \in wire
          PROVE  e.key.chain.info = SendInfo(e.by) /\ e.key.chain.steps = Steps(e.pos)
      <4> DEFINE chain == ChainAfter(RootOf(e), SendInfo(e.by), e.pos)
                 n == e.pos % CounterSpan
      <4>1. e.key = MessageKey(chain, n)
        BY <3>1
      <4> HIDE DEF chain, n
      <4>2. e.key.chain = chain
        BY <4>1 DEF MessageKey
      <4> QED
        BY <4>2 DEF chain, ChainAfter
    <3> QED
      BY <3>2
  <2>3. c.by = d.by /\ RootOf(c) = RootOf(d)
    BY <2>1, <2>2, SessionConstants DEF SendInfo, Party, RootOf
  <2>4. c.pos = d.pos
    BY <2>1, <2>2, ChainAdvances
  <2>5. CASE c.life = d.life
    BY <2>3, <2>4, <2>5 DEF SInv, PlacesDistinct
  <2>6. CASE c.life # d.life /\ c.by = Alice
    <3>1. c.used.eph # d.used.eph
      BY <2>3, <2>6 DEF SInv, PlacesDistinct
    <3> QED
      BY <2>1, <2>3, <2>6, <3>1, AlicesRootTells DEF RootFrom
  <2>7. CASE c.life # d.life /\ c.by = Bob
    BY <2>1, <2>3, <2>7, BobsRootTells, SessionConstants DEF RootFrom
  <2> QED
    BY <2>1, <2>5, <2>6, <2>7 DEF Party
<1> QED
  BY Inductive, <1>1, PTL

(* Whatever the mesh loses, repeats, reorders and damages: the k-th call   *)
(* of decrypt succeeds exactly on the k-th message of a session of the     *)
(* peer made from the same keys.                                           *)
THEOREM DecryptCorrect == Spec => AcceptsExactlyTheNext
<1> DEFINE Rule(p, c) ==
               Decrypt(p, c) =>
                   (heard'[p][Len(heard[p]) + 1] = Text(c) <=>
                       /\ c.used = session[p].used /\ c.used.opk = None
                       /\ c.pos = Len(heard[p]) + 1)
<1>1. ASSUME SInv, NEW p \in Party, NEW c \in wire PROVE Rule(p, c)
  <2> SUFFICES ASSUME Decrypt(p, c)
               PROVE  heard'[p][Len(heard[p]) + 1] = Text(c) <=>
                         /\ c.used = session[p].used /\ c.used.opk = None
                         /\ c.pos = Len(heard[p]) + 1
    OBVIOUS
  <2> DEFINE s == session[p]
             k == Len(heard[p])
             opened == Opens(s, Step(s.recv, s.recv_n), Succ(s.recv_n), c)
             result == IF opened THEN Text(c) ELSE None
             root == RootOf(c)
  <2>1. heard'[p] = Append(heard[p], result) /\ s # None /\ c.by # p
    <3>1. DecryptCall(p, result) /\ c.by # p
      BY DEF Decrypt
    <3> HIDE DEF result
    <3> QED
      BY <1>1, <3>1 DEF DecryptCall, SInv, Types
  <2>2. k \in Nat /\ heard[p] \in Seq(Results) /\ Text(c) # None
        /\ Text(c) \in Results /\ None \in Results
    BY <1>1, TextIsResult DEF SInv, Types, Results
  <2>3. heard'[p][k + 1] = Text(c) <=> opened
    BY <2>1, <2>2
  <2>4. /\ s.recv = ChainAfter(s.root, RecvInfo(p), k)
        /\ s.recv_n = k % CounterSpan /\ RootFrom(p, s.root, s.used)
    <3>1. /\ s = SessionAfter(p, s.root, s.used, Cardinality(Own(p)), k)
          /\ RootFrom(p, s.root, s.used)
      BY <1>1, <2>1 DEF SInv, SessionsMade
    <3> QED
      BY <3>1 DEF SessionAfter
  <2>5. /\ c.by \in Party /\ c.pos \in Nat /\ RootFrom(c.by, root, c.used)
        /\ c = Message(c.by, c.life, root, c.used, c.pos)
    BY <1>1 DEF SInv, MessagesMade
  <2>6. /\ c.key = MessageKey(ChainAfter(root, SendInfo(c.by), c.pos), c.pos % CounterSpan)
        /\ c.aad = Aad(root, c.n)
    BY <2>5 DEF Message
  <2>7. opened <=> /\ MessageKey(ChainAfter(s.root, RecvInfo(p), k + 1), (k + 1) % CounterSpan) = c.key
                   /\ Aad(s.root, c.n) = c.aad
    BY <2>2, <2>4, ChainAdvances DEF Opens
  <2>8. opened <=> root = s.root /\ c.pos = k + 1
    <3> HIDE DEF root, k, opened, s
    <3>1. RecvInfo(p) = SendInfo(c.by)
      BY <2>1, <2>5 DEF RecvInfo, SendInfo, Party
    <3>2. ASSUME root = s.root, c.pos = k + 1 PROVE opened
      BY <2>6, <2>7, <3>1, <3>2
    <3>3. ASSUME opened PROVE root = s.root /\ c.pos = k + 1
      <4>1. ChainAfter(s.root, RecvInfo(p), k + 1) = ChainAfter(root, SendInfo(c.by), c.pos)
        BY <2>6, <2>7, <3>3 DEF MessageKey
      <4>2. s.root = root /\ Steps(k + 1) = Steps(c.pos)
        BY <4>1 DEF ChainAfter
      <4>3. Len(Steps(k + 1)) = k + 1 /\ Len(Steps(c.pos)) = c.pos
        BY <2>2, <2>5, StepsLength
      <4> QED
        BY <4>2, <4>3
    <3> QED
      BY <3>2, <3>3
  <2>9. root = s.root <=> c.used = s.used /\ c.used.opk = None
    <3>1. CASE p = Alice
      BY <2>1, <2>4, <2>5, <3>1, RootsMatch DEF RootFrom
    <3>2. CASE p # Alice
      BY <2>1, <2>4, <2>5, <3>2, RootsMatch DEF RootFrom, Party
    <3> QED
      BY <3>1, <3>2
  <2> QED
    BY <2>3, <2>8, <2>9
<1>2. SInv /\ [Next]_vars => [ \A p \in Party, c \in wire : Rule(p, c) ]_vars
  BY <1>1
<1>3. AcceptsExactlyTheNext <=> [][ \A p \in Party, c \in wire : Rule(p, c) ]_vars
  BY DEF AcceptsExactlyTheNext
<1> HIDE DEF Rule
<1> QED
  BY Inductive, <1>2, <1>3, PTL DEF Spec

=============================================================================
