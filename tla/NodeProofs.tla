----------------------------- MODULE NodeProofs -----------------------------
(***************************************************************************)
(* Node.tla for any number of clients, channels, sockets and queues of any *)
(* size, and any schedule of its tasks: what main handles is an unbroken   *)
(* run of what each source sent, tasks that share write_halfs do not spoil *)
(* it, and transports that were stopped stay quiet.                        *)
(***************************************************************************)
EXTENDS Node, FiniteSetTheorems, TLAPS

(* The frames of x in a channel, by their numbers.                         *)
Nums(ch, x) ==
    IF ch = None THEN {}
    ELSE { ch.buf[i].n : i \in { j \in 1..Len(ch.buf) : ch.buf[j].by = x } }

(* A channel holds each source's frames in the order they were sent.       *)
Rising(ch) ==
    ch # None =>
        \A i, j \in 1..Len(ch.buf) :
            i < j /\ ch.buf[i].by = ch.buf[j].by => ch.buf[i].n < ch.buf[j].n

(* Somebody will receive from it.                                          *)
Clean(ch) == ch # None /\ ~ch.lagged

(* The transport a source's frames come through, and how many the          *)
(* transport has taken from it.                                            *)
Via(x) == IF x = "ble" THEN "ble" ELSE "hub"

Seen(x) == IF x = "ble" THEN Len(sent["ble"]) ELSE taken[x]

Good(x) == { k \in 1..Len(sent[x]) : sent[x][k] = "good" }

Done(x) == { handled[x][i] : i \in 1..Len(handled[x]) }

(* What is handled comes before what waits for main, which comes before    *)
(* what waits for the forwarder; and as long as the receivers keep up,     *)
(* nothing good is missing between the first of them and the last that     *)
(* arrived.                                                                *)
Run(D, inc, ch, x, seen, good) ==
    LET I == Nums(inc, x)
        C == Nums(ch, x)
    IN  /\ D \union I \union C \subseteq 1..seen
        /\ \A d \in D, i \in I : d < i
        /\ \A w \in D \union I, c \in C : w < c
        /\ Clean(inc) =>
             \A a, b \in D \union I, k \in good : a < k /\ k < b => k \in D \union I
        /\ Clean(inc) /\ Clean(ch) =>
             \A a \in D \union I, k \in good : a < k => k \in D \union I \union C \/ seen < k
        /\ Clean(ch) => \A a \in C, k \in good : a < k => k \in C \/ seen < k

(* Numbers that rise, with nothing good between two neighbours.            *)
InOrder(nums, frames) ==
    /\ \A i, j \in 1..Len(nums) : i < j => nums[i] < nums[j]
    /\ \A i \in 1..(Len(nums) - 1) :
          \A k \in (nums[i] + 1)..(nums[i + 1] - 1) : frames[k] # "good"

Starting == main \in {"start", "subscribe hub", "start ble", "subscribe ble", "subscribe"}

ChannelOrNone == Channel(Frame) \union {None}

FlowTyped ==
    /\ incoming \in ChannelOrNone
    /\ chan \in [Transport -> ChannelOrNone]
    /\ sent \in [Source -> Seq(Kind)]
    /\ taken \in [Client -> Nat]
    /\ handled \in [Source -> Seq(Nat)]

Flow ==
    /\ FlowTyped
    /\ Rising(incoming)
    /\ \A t \in Transport : Rising(chan[t])
    /\ \A t \in Transport, x \in Source : Nums(chan[t], x) # {} => Via(x) = t
    /\ \A x \in Source : Seen(x) <= Len(sent[x])
    /\ \A x \in Source : Run(Done(x), incoming, chan[Via(x)], x, Seen(x), Good(x))
    /\ \A x \in Source : InOrder(handled[x], sent[x])
    /\ Starting => incoming = None
    /\ incoming = None => \A x \in Source : handled[x] = << >>

-----------------------------------------------------------------------------
(* Channels.                                                               *)

(* A channel is not the absence of one.                                    *)
LEMMA AChannelIs ==
    ASSUME NEW ch \in Channel(Frame)
    PROVE  /\ ch # None
           /\ ch.buf \in Seq(Frame) /\ ch.lagged \in BOOLEAN
           /\ Len(ch.buf) \in Nat
           /\ \A i \in 1..Len(ch.buf) : ch.buf[i] \in Frame
           /\ ch = [ buf |-> ch.buf, lagged |-> ch.lagged ]
<1>1. ch # None
  BY NoneIsNoChannel
<1>2. ch.buf \in Seq(Frame) /\ ch.lagged \in BOOLEAN /\ ch = [ buf |-> ch.buf, lagged |-> ch.lagged ]
  BY DEF Channel
<1> QED
  BY <1>1, <1>2

(* A frame's source and number.                                            *)
LEMMA AFrameIs ==
    /\ \A f \in Frame : f.by \in Source /\ f.n \in Nat /\ f.n >= 1 /\ f = [ by |-> f.by, n |-> f.n ]
    /\ \A x \in Source, n \in Nat : n >= 1 => [ by |-> x, n |-> n ] \in Frame
BY DEF Frame

(* The numbers in a channel are numbers.                                   *)
LEMMA NumsAre ==
    ASSUME NEW ch \in ChannelOrNone, NEW x
    PROVE  Nums(ch, x) \subseteq Nat \ {0}
<1>1. CASE ch = None
  BY <1>1 DEF Nums
<1>2. CASE ch # None
  <2>1. ch \in Channel(Frame)
    BY <1>2 DEF ChannelOrNone
  <2>2. \A i \in 1..Len(ch.buf) : ch.buf[i].n \in Nat \ {0}
    BY <2>1, AChannelIs, AFrameIs
  <2> QED
    BY <1>2, <2>2 DEF Nums
<1> QED
  BY <1>1, <1>2

(* A buffer with a frame more at its end.                                  *)
LEMMA AppendIs ==
    ASSUME NEW S, NEW s \in Seq(S), NEW x \in S
    PROVE  /\ Append(s, x) \in Seq(S)
           /\ Len(Append(s, x)) = Len(s) + 1
           /\ \A i \in 1..Len(s) : Append(s, x)[i] = s[i]
           /\ Append(s, x)[Len(s) + 1] = x
OBVIOUS

(* A buffer without its oldest frame.                                      *)
LEMMA TailIs ==
    ASSUME NEW S, NEW s \in Seq(S), s # << >>
    PROVE  /\ Len(s) \in Nat \ {0}
           /\ Head(s) = s[1] /\ Head(s) \in S
           /\ Tail(s) \in Seq(S)
           /\ Len(Tail(s)) = Len(s) - 1
           /\ \A i \in 1..(Len(s) - 1) : Tail(s)[i] = s[i + 1]
OBVIOUS

(* A send to a channel with room.                                          *)
LEMMA SentWithRoom ==
    ASSUME NEW ch \in Channel(Frame), NEW f \in Frame, NEW new \in Channel(Frame),
           new.buf = Append(ch.buf, f)
    PROVE  /\ \A x : Nums(new, x) = Nums(ch, x) \union (IF x = f.by THEN {f.n} ELSE {})
           /\ Rising(ch) /\ (\A n \in Nums(ch, f.by) : n < f.n) => Rising(new)
<1>1. /\ Len(new.buf) = Len(ch.buf) + 1 /\ Len(ch.buf) \in Nat
      /\ \A i \in 1..Len(ch.buf) : new.buf[i] = ch.buf[i] /\ ch.buf[i] \in Frame
      /\ new.buf[Len(ch.buf) + 1] = f
  <2>1. ch.buf \in Seq(Frame)
    BY AChannelIs
  <2> QED
    BY <2>1, AppendIs
<1>2. ch # None /\ new # None
  BY AChannelIs
<1>3. ASSUME NEW x
      PROVE  Nums(new, x) = Nums(ch, x) \union (IF x = f.by THEN {f.n} ELSE {})
  <2>1. ASSUME NEW m \in Nums(new, x)
        PROVE  m \in Nums(ch, x) \union (IF x = f.by THEN {f.n} ELSE {})
    <3>1. PICK i \in 1..Len(new.buf) : new.buf[i].by = x /\ m = new.buf[i].n
      BY <1>2 DEF Nums
    <3>2. i \in 1..Len(ch.buf) \/ i = Len(ch.buf) + 1
      BY <1>1
    <3> QED
      BY <1>1, <1>2, <3>1, <3>2 DEF Nums
  <2>2. ASSUME NEW m \in Nums(ch, x) PROVE m \in Nums(new, x)
    <3>1. PICK i \in 1..Len(ch.buf) : ch.buf[i].by = x /\ m = ch.buf[i].n
      BY <1>2 DEF Nums
    <3>2. i \in 1..Len(new.buf) /\ new.buf[i] = ch.buf[i]
      BY <1>1
    <3> QED
      BY <1>2, <3>1, <3>2 DEF Nums
  <2>3. x = f.by => f.n \in Nums(new, x)
    <3>1. Len(ch.buf) + 1 \in 1..Len(new.buf)
      BY <1>1
    <3> QED
      BY <1>1, <1>2, <3>1 DEF Nums
  <2> QED
    BY <2>1, <2>2, <2>3
<1>4. ASSUME Rising(ch), \A n \in Nums(ch, f.by) : n < f.n PROVE Rising(new)
  <2> SUFFICES ASSUME NEW i \in 1..Len(new.buf), NEW j \in 1..Len(new.buf),
                      i < j, new.buf[i].by = new.buf[j].by
               PROVE  new.buf[i].n < new.buf[j].n
    BY DEF Rising
  <2>1. i \in 1..Len(ch.buf) /\ new.buf[i] = ch.buf[i]
    BY <1>1
  <2>2. CASE j \in 1..Len(ch.buf)
    BY <1>1, <1>2, <1>4, <2>1, <2>2 DEF Rising
  <2>3. CASE j = Len(ch.buf) + 1
    <3>1. ch.buf[i].by = f.by /\ new.buf[j] = f
      BY <1>1, <2>1, <2>3
    <3>2. ch.buf[i].n \in Nums(ch, f.by)
      BY <1>2, <2>1, <3>1 DEF Nums
    <3> QED
      BY <1>4, <2>1, <3>1, <3>2
  <2> QED
    BY <1>1, <2>2, <2>3
<1> QED
  BY <1>3, <1>4

(* A channel that loses its oldest frame.                                  *)
LEMMA WithoutOldest ==
    ASSUME NEW ch \in Channel(Frame), NEW new \in Channel(Frame),
           ch.buf # << >>, new.buf = Tail(ch.buf)
    PROVE  /\ Head(ch.buf) \in Frame
           /\ \A x : Nums(ch, x) = Nums(new, x) \union (IF x = Head(ch.buf).by THEN {Head(ch.buf).n} ELSE {})
           /\ Rising(ch) => /\ Rising(new)
                            /\ \A n \in Nums(new, Head(ch.buf).by) : Head(ch.buf).n < n
<1> DEFINE f == Head(ch.buf)
<1>1. /\ f = ch.buf[1] /\ f \in Frame
      /\ Len(ch.buf) \in Nat \ {0} /\ Len(new.buf) = Len(ch.buf) - 1
      /\ \A i \in 1..(Len(ch.buf) - 1) : new.buf[i] = ch.buf[i + 1]
  <2>1. ch.buf \in Seq(Frame)
    BY AChannelIs
  <2> QED
    BY <2>1, TailIs
<1> HIDE DEF f
<1>2. ch # None /\ new # None
  BY AChannelIs
<1>3. ASSUME NEW x
      PROVE  Nums(ch, x) = Nums(new, x) \union (IF x = f.by THEN {f.n} ELSE {})
  <2>1. ASSUME NEW m \in Nums(ch, x)
        PROVE  m \in Nums(new, x) \union (IF x = f.by THEN {f.n} ELSE {})
    <3>1. PICK i \in 1..Len(ch.buf) : ch.buf[i].by = x /\ m = ch.buf[i].n
      BY <1>2 DEF Nums
    <3>2. CASE i = 1
      BY <1>1, <3>1, <3>2
    <3>3. CASE i # 1
      <4>1. i - 1 \in 1..Len(new.buf) /\ new.buf[i - 1] = ch.buf[i]
        <5>1. i - 1 \in 1..(Len(ch.buf) - 1) /\ (i - 1) + 1 = i
          BY <1>1, <3>3
        <5> QED
          BY <1>1, <5>1
      <4> QED
        BY <1>2, <3>1, <4>1 DEF Nums
    <3> QED
      BY <3>2, <3>3
  <2>2. ASSUME NEW m \in Nums(new, x) PROVE m \in Nums(ch, x)
    <3>1. PICK i \in 1..Len(new.buf) : new.buf[i].by = x /\ m = new.buf[i].n
      BY <1>2 DEF Nums
    <3>2. i + 1 \in 1..Len(ch.buf) /\ new.buf[i] = ch.buf[i + 1]
      BY <1>1
    <3> QED
      BY <1>2, <3>1, <3>2 DEF Nums
  <2>3. x = f.by => f.n \in Nums(ch, x)
    <3>1. 1 \in 1..Len(ch.buf)
      BY <1>1
    <3> QED
      BY <1>1, <1>2, <3>1 DEF Nums
  <2> QED
    BY <2>1, <2>2, <2>3
<1>4. ASSUME Rising(ch)
      PROVE  Rising(new) /\ \A n \in Nums(new, f.by) : f.n < n
  <2>1. \A i, j \in 1..Len(ch.buf) :
            i < j /\ ch.buf[i].by = ch.buf[j].by => ch.buf[i].n < ch.buf[j].n
    BY <1>2, <1>4 DEF Rising
  <2>2. \A i \in 1..Len(new.buf) : i + 1 \in 1..Len(ch.buf) /\ 1 < i + 1 /\ new.buf[i] = ch.buf[i + 1]
    BY <1>1
  <2>3. Rising(new)
    <3> SUFFICES ASSUME NEW i \in 1..Len(new.buf), NEW j \in 1..Len(new.buf),
                        i < j, new.buf[i].by = new.buf[j].by
                 PROVE  new.buf[i].n < new.buf[j].n
      BY DEF Rising
    <3>1. i + 1 < j + 1
      OBVIOUS
    <3> QED
      BY <2>1, <2>2, <3>1
  <2>4. ASSUME NEW n \in Nums(new, f.by) PROVE f.n < n
    <3>1. PICK i \in 1..Len(new.buf) : new.buf[i].by = f.by /\ n = new.buf[i].n
      BY <1>2 DEF Nums
    <3>2. 1 \in 1..Len(ch.buf)
      BY <1>1
    <3> QED
      BY <1>1, <2>1, <2>2, <3>1, <3>2
  <2> QED
    BY <2>3, <2>4
<1> QED
  BY <1>1, <1>3, <1>4 DEF f

(* A send, whether there is a receiver and room or not: what was clean     *)
(* afterwards was clean before and got the frame; what was not may have    *)
(* lost some.                                                              *)
LEMMA AfterSend ==
    ASSUME NEW ch \in ChannelOrNone, NEW f \in Frame
    PROVE  /\ Sent(ch, f) \in ChannelOrNone
           /\ \A x : Nums(Sent(ch, f), x) \subseteq Nums(ch, x) \union (IF x = f.by THEN {f.n} ELSE {})
           /\ Clean(Sent(ch, f)) =>
                /\ Clean(ch)
                /\ \A x : Nums(Sent(ch, f), x) = Nums(ch, x) \union (IF x = f.by THEN {f.n} ELSE {})
           /\ ch = None => Sent(ch, f) = None
           /\ Rising(ch) /\ (\A n \in Nums(ch, f.by) : n < f.n) => Rising(Sent(ch, f))
<1>1. CASE ch = None
  <2>1. Sent(ch, f) = None
    BY <1>1 DEF Sent
  <2> QED
    BY <1>1, <2>1 DEF ChannelOrNone, Nums, Clean, Rising
<1>2. CASE ch # None /\ Len(ch.buf) < Capacity
  <2>1. ch \in Channel(Frame)
    BY <1>2 DEF ChannelOrNone
  <2>2. ch.buf \in Seq(Frame) /\ ch.lagged \in BOOLEAN
    BY <2>1, AChannelIs
  <2>3. Append(ch.buf, f) \in Seq(Frame)
    BY <2>2, AppendIs
  <2>4. Sent(ch, f) = [ ch EXCEPT !.buf = Append(@, f) ]
    BY <1>2 DEF Sent
  <2>5. /\ Sent(ch, f) \in Channel(Frame)
        /\ Sent(ch, f).buf = Append(ch.buf, f) /\ Sent(ch, f).lagged = ch.lagged
    BY <2>1, <2>2, <2>3, <2>4 DEF Channel
  <2> DEFINE new == Sent(ch, f)
  <2> HIDE DEF new
  <2>6. /\ \A x : Nums(new, x) = Nums(ch, x) \union (IF x = f.by THEN {f.n} ELSE {})
        /\ Rising(ch) /\ (\A n \in Nums(ch, f.by) : n < f.n) => Rising(new)
    BY <2>1, <2>5, SentWithRoom DEF new
  <2> QED
    BY <1>2, <2>5, <2>6 DEF ChannelOrNone, Clean, new
<1>3. CASE ch # None /\ ~(Len(ch.buf) < Capacity)
  <2>1. ch \in Channel(Frame)
    BY <1>3 DEF ChannelOrNone
  <2>2. ch.buf \in Seq(Frame) /\ ch.lagged \in BOOLEAN
    BY <2>1, AChannelIs
  <2>3. ch.buf # << >>
    BY <1>3, <2>2, ChannelConstants
  <2>4. Tail(ch.buf) \in Seq(Frame)
    BY <2>2, <2>3, TailIs
  <2>5. Append(Tail(ch.buf), f) \in Seq(Frame)
    BY <2>4, AppendIs
  <2>6. Sent(ch, f) = [ buf |-> Append(Tail(ch.buf), f), lagged |-> TRUE ]
    BY <1>3 DEF Sent
  <2> DEFINE rest == [ buf |-> Tail(ch.buf), lagged |-> ch.lagged ]
             new == Sent(ch, f)
  <2>7. rest \in Channel(Frame) /\ rest.buf = Tail(ch.buf)
    BY <2>2, <2>4 DEF Channel
  <2>8. new \in Channel(Frame) /\ new.buf = Append(rest.buf, f) /\ new.lagged
    BY <2>5, <2>6 DEF Channel
  <2> HIDE DEF rest, new
  <2>9. /\ \A x : Nums(rest, x) \subseteq Nums(ch, x)
        /\ Rising(ch) => Rising(rest)
    BY <2>1, <2>3, <2>7, WithoutOldest
  <2>10. /\ \A x : Nums(new, x) = Nums(rest, x) \union (IF x = f.by THEN {f.n} ELSE {})
         /\ Rising(rest) /\ (\A n \in Nums(rest, f.by) : n < f.n) => Rising(new)
    BY <2>7, <2>8, SentWithRoom
  <2>11. \A x : Nums(new, x) \subseteq Nums(ch, x) \union (IF x = f.by THEN {f.n} ELSE {})
    BY <2>9, <2>10
  <2>12. Rising(ch) /\ (\A n \in Nums(ch, f.by) : n < f.n) => Rising(new)
    BY <2>9, <2>10
  <2> QED
    BY <1>3, <2>8, <2>11, <2>12 DEF ChannelOrNone, Clean, new
<1> QED
  BY <1>1, <1>2, <1>3

(* A channel stays one when something is sent.                             *)
LEMMA SentIsOne ==
    ASSUME NEW ch \in Channel(Frame), NEW f \in Frame
    PROVE  Sent(ch, f) # None
<1>1. ch # None /\ ch.buf \in Seq(Frame) /\ ch.lagged \in BOOLEAN
  BY AChannelIs
<1>2. CASE Len(ch.buf) < Capacity
  <2>1. Append(ch.buf, f) \in Seq(Frame)
    BY <1>1, AppendIs
  <2>2. Sent(ch, f) = [ ch EXCEPT !.buf = Append(@, f) ]
    BY <1>1, <1>2 DEF Sent
  <2>3. Sent(ch, f) \in Channel(Frame)
    BY <2>1, <2>2 DEF Channel
  <2> QED
    BY <2>3, AChannelIs
<1>3. CASE ~(Len(ch.buf) < Capacity)
  <2>1. ch.buf # << >>
    BY <1>1, <1>3, ChannelConstants
  <2>2. Tail(ch.buf) \in Seq(Frame)
    BY <1>1, <2>1, TailIs
  <2>3. Append(Tail(ch.buf), f) \in Seq(Frame)
    BY <2>2, AppendIs
  <2>4. Sent(ch, f) = [ buf |-> Append(Tail(ch.buf), f), lagged |-> TRUE ]
    BY <1>1, <1>3 DEF Sent
  <2>5. Sent(ch, f) \in Channel(Frame)
    BY <2>3, <2>4 DEF Channel
  <2> QED
    BY <2>5, AChannelIs
<1> QED
  BY <1>2, <1>3

(* A receive takes the oldest frame of its source.                         *)
LEMMA AfterReceive ==
    ASSUME NEW ch \in ChannelOrNone, CanReceive(ch), NEW f, f = Head(ch.buf)
    PROVE  /\ f \in Frame
           /\ Received(ch) \in ChannelOrNone
           /\ Clean(ch) /\ Clean(Received(ch))
           /\ \A x : Nums(ch, x) = Nums(Received(ch), x) \union (IF x = f.by THEN {f.n} ELSE {})
           /\ Rising(ch) => Rising(Received(ch)) /\ \A n \in Nums(Received(ch), f.by) : f.n < n
<1>1. ch \in Channel(Frame) /\ ch.buf # << >> /\ ~ch.lagged
  BY DEF CanReceive, ChannelOrNone
<1>2. ch.buf \in Seq(Frame)
  BY <1>1, AChannelIs
<1>3. Tail(ch.buf) \in Seq(Frame)
  BY <1>1, <1>2, TailIs
<1>4. Received(ch) = [ ch EXCEPT !.buf = Tail(@) ]
  BY DEF Received
<1>5. /\ Received(ch) \in Channel(Frame)
      /\ Received(ch).buf = Tail(ch.buf) /\ ~Received(ch).lagged
  BY <1>1, <1>3, <1>4 DEF Channel
<1> DEFINE new == Received(ch)
<1> HIDE DEF new
<1>6. /\ f \in Frame
      /\ \A x : Nums(ch, x) = Nums(new, x) \union (IF x = f.by THEN {f.n} ELSE {})
      /\ Rising(ch) => Rising(new) /\ \A n \in Nums(new, f.by) : f.n < n
  BY <1>1, <1>5, WithoutOldest DEF new
<1>7. new # None /\ ch # None
  BY <1>1, <1>5, AChannelIs DEF new
<1> QED
  BY <1>1, <1>5, <1>6, <1>7 DEF ChannelOrNone, Clean, new

(* A channel that was just subscribed to.                                  *)
LEMMA AfterSubscribe ==
    /\ Subscribed \in ChannelOrNone
    /\ Rising(Subscribed) /\ Rising(None)
    /\ \A x : Nums(Subscribed, x) = {} /\ Nums(None, x) = {}
    /\ ~Clean(None)
<1>1. Subscribed \in Channel(Frame) /\ Subscribed.buf = << >>
  BY DEF Subscribed, Channel
<1>2. 1..Len(Subscribed.buf) = {}
  BY <1>1
<1> QED
  BY <1>1, <1>2 DEF ChannelOrNone, Rising, Nums, Clean

-----------------------------------------------------------------------------
(* The line of a source's frames, step by step.                            *)

(* More good frames beyond what was taken: nothing changes.                *)
LEMMA RunLonger ==
    ASSUME NEW D, NEW inc, NEW ch, NEW x, NEW seen \in Nat, NEW good, NEW longer,
           Run(D, inc, ch, x, seen, good), longer \intersect 1..seen \subseteq good,
           longer \subseteq Nat
    PROVE  Run(D, inc, ch, x, seen, longer)
<1> DEFINE I == Nums(inc, x)  C == Nums(ch, x)
<1>1. /\ D \union I \union C \subseteq 1..seen
      /\ \A d \in D, i \in I : d < i
      /\ \A w \in D \union I, c \in C : w < c
  BY DEF Run
<1>2. \A a \in D \union I \union C, k \in longer : a < k /\ k \notin good => seen < k
  BY <1>1
<1>3. \A b \in D \union I, k \in longer : k < b => seen >= k
  BY <1>1
<1>4. ASSUME Clean(inc), NEW a \in D \union I, NEW b \in D \union I, NEW k \in longer, a < k, k < b
      PROVE  k \in D \union I
  <2>1. k \in good
    BY <1>1, <1>2, <1>3, <1>4
  <2> QED
    BY <1>4, <2>1 DEF Run
<1>5. ASSUME Clean(inc), Clean(ch), NEW a \in D \union I, NEW k \in longer, a < k
      PROVE  k \in D \union I \union C \/ seen < k
  BY <1>2, <1>5 DEF Run
<1>6. ASSUME Clean(ch), NEW a \in C, NEW k \in longer, a < k
      PROVE  k \in C \/ seen < k
  BY <1>2, <1>6 DEF Run
<1> QED
  BY <1>1, <1>4, <1>5, <1>6 DEF Run

(* The transport took a frame and publishes it.                            *)
LEMMA RunArrives ==
    ASSUME NEW D, NEW inc, NEW ch \in ChannelOrNone, NEW seen \in Nat, NEW good \in SUBSET Nat,
           NEW f \in Frame, f.n = seen + 1,
           Run(D, inc, ch, f.by, seen, good)
    PROVE  Run(D, inc, Sent(ch, f), f.by, seen + 1, good)
<1> DEFINE I == Nums(inc, f.by)  C == Nums(ch, f.by)  new == Sent(ch, f)  C1 == Nums(new, f.by)
<1>1. /\ D \union I \union C \subseteq 1..seen
      /\ \A d \in D, i \in I : d < i
      /\ \A w \in D \union I, c \in C : w < c
  BY DEF Run
<1>2. /\ C1 \subseteq C \union {f.n}
      /\ Clean(new) => Clean(ch) /\ C1 = C \union {f.n}
  BY AfterSend
<1>3. /\ Clean(inc) =>
           \A a, b \in D \union I, k \in good : a < k /\ k < b => k \in D \union I
      /\ Clean(inc) /\ Clean(ch) =>
           \A a \in D \union I, k \in good : a < k => k \in D \union I \union C \/ seen < k
      /\ Clean(ch) => \A a \in C, k \in good : a < k => k \in C \/ seen < k
  BY DEF Run
<1> HIDE DEF I, C, new, C1
<1>4. D \union I \union C1 \subseteq 1..(seen + 1)
  BY <1>1, <1>2
<1>5. \A w \in D \union I, c \in C1 : w < c
  BY <1>1, <1>2
<1>6. ASSUME Clean(inc), Clean(new), NEW a \in D \union I, NEW k \in good, a < k
      PROVE  k \in D \union I \union C1 \/ seen + 1 < k
  BY <1>2, <1>3, <1>6
<1>7. ASSUME Clean(new), NEW a \in C1, NEW k \in good, a < k
      PROVE  k \in C1 \/ seen + 1 < k
  <2>1. CASE a \in C
    BY <1>2, <1>3, <1>7, <2>1
  <2>2. CASE a = f.n
    BY <1>7, <2>2
  <2> QED
    BY <1>2, <2>1, <2>2
<1> QED
  BY <1>1, <1>3, <1>4, <1>5, <1>6, <1>7 DEF Run, I, C, new, C1

(* The transport took a frame that is not good.                            *)
LEMMA RunSkips ==
    ASSUME NEW D, NEW inc, NEW ch, NEW x, NEW seen \in Nat, NEW good \in SUBSET Nat,
           seen + 1 \notin good,
           Run(D, inc, ch, x, seen, good)
    PROVE  Run(D, inc, ch, x, seen + 1, good)
<1>1. \A k \in good : seen < k => seen + 1 < k
  OBVIOUS
<1>2. 1..seen \subseteq 1..(seen + 1)
  OBVIOUS
<1> QED
  BY <1>1, <1>2 DEF Run

(* Channels that lose frames of x only as they lag, keep the line.         *)
LEMMA RunWeaker ==
    ASSUME NEW D, NEW inc, NEW ch, NEW x, NEW seen, NEW good, NEW inc1, NEW ch1,
           Run(D, inc, ch, x, seen, good),
           Nums(inc1, x) \subseteq Nums(inc, x), Nums(ch1, x) \subseteq Nums(ch, x),
           Clean(inc1) => Clean(inc) /\ Nums(inc1, x) = Nums(inc, x),
           Clean(ch1) => Clean(ch) /\ Nums(ch1, x) = Nums(ch, x)
    PROVE  Run(D, inc1, ch1, x, seen, good)
BY DEF Run

(* A frame of another source joins x's channel, or leaves it.              *)
LEMMA RunBesides ==
    ASSUME NEW D, NEW inc \in ChannelOrNone, NEW ch \in ChannelOrNone, NEW x, NEW seen, NEW good,
           Run(D, inc, ch, x, seen, good)
    PROVE  /\ \A f \in Frame : f.by # x => /\ Run(D, inc, Sent(ch, f), x, seen, good)
                                           /\ Run(D, Sent(inc, f), ch, x, seen, good)
           /\ CanReceive(ch) /\ Head(ch.buf).by # x => Run(D, inc, Received(ch), x, seen, good)
           /\ CanReceive(inc) /\ Head(inc.buf).by # x => Run(D, Received(inc), ch, x, seen, good)
           /\ Run(D, inc, None, x, seen, good)
<1>1. ASSUME NEW f \in Frame, f.by # x PROVE Run(D, inc, Sent(ch, f), x, seen, good)
  <2> DEFINE own == IF x = f.by THEN {f.n} ELSE {}
  <2>0. /\ Nums(Sent(ch, f), x) \subseteq Nums(ch, x) \union own
        /\ Clean(Sent(ch, f)) => Clean(ch) /\ Nums(Sent(ch, f), x) = Nums(ch, x) \union own
    BY AfterSend
  <2>1. /\ Nums(Sent(ch, f), x) \subseteq Nums(ch, x)
        /\ Clean(Sent(ch, f)) => Clean(ch) /\ Nums(Sent(ch, f), x) = Nums(ch, x)
    BY <1>1, <2>0
  <2> QED
    BY <2>1, RunWeaker
<1>2. ASSUME NEW f \in Frame, f.by # x PROVE Run(D, Sent(inc, f), ch, x, seen, good)
  <2> DEFINE own == IF x = f.by THEN {f.n} ELSE {}
  <2>0. /\ Nums(Sent(inc, f), x) \subseteq Nums(inc, x) \union own
        /\ Clean(Sent(inc, f)) => Clean(inc) /\ Nums(Sent(inc, f), x) = Nums(inc, x) \union own
    BY AfterSend
  <2>1. /\ Nums(Sent(inc, f), x) \subseteq Nums(inc, x)
        /\ Clean(Sent(inc, f)) => Clean(inc) /\ Nums(Sent(inc, f), x) = Nums(inc, x)
    BY <1>2, <2>0
  <2> QED
    BY <2>1, RunWeaker
<1>3. ASSUME CanReceive(ch), Head(ch.buf).by # x PROVE Run(D, inc, Received(ch), x, seen, good)
  <2> DEFINE f == Head(ch.buf)
             own == IF x = f.by THEN {f.n} ELSE {}
  <2>0. Nums(ch, x) = Nums(Received(ch), x) \union own /\ Clean(ch)
    BY <1>3, AfterReceive
  <2>1. Nums(Received(ch), x) = Nums(ch, x) /\ Clean(ch)
    BY <1>3, <2>0
  <2> QED
    BY <2>1, RunWeaker
<1>4. ASSUME CanReceive(inc), Head(inc.buf).by # x PROVE Run(D, Received(inc), ch, x, seen, good)
  <2> DEFINE f == Head(inc.buf)
             own == IF x = f.by THEN {f.n} ELSE {}
  <2>0. Nums(inc, x) = Nums(Received(inc), x) \union own /\ Clean(inc)
    BY <1>4, AfterReceive
  <2>1. Nums(Received(inc), x) = Nums(inc, x) /\ Clean(inc)
    BY <1>4, <2>0
  <2> QED
    BY <2>1, RunWeaker
<1>5. Run(D, inc, None, x, seen, good)
  <2>1. Nums(None, x) = {} /\ ~Clean(None)
    BY AfterSubscribe
  <2> QED
    BY <2>1 DEF Run
<1> QED
  BY <1>1, <1>2, <1>3, <1>4, <1>5

(* A frame of x goes from the forwarder to main.                           *)
LEMMA RunForwards ==
    ASSUME NEW D, NEW inc \in ChannelOrNone, NEW ch \in ChannelOrNone, NEW seen \in Nat,
           NEW good \in SUBSET Nat, NEW f,
           CanReceive(ch), Rising(ch), f = Head(ch.buf),
           Run(D, inc, ch, f.by, seen, good), inc = None => D = {}
    PROVE  /\ Run(D, Sent(inc, f), Received(ch), f.by, seen, good)
           /\ \A n \in Nums(inc, f.by) : n < f.n
<1> DEFINE x == f.by
           I == Nums(inc, x)  I1 == Nums(Sent(inc, f), x)
           C == Nums(ch, x)   C1 == Nums(Received(ch), x)
<1>1. /\ f \in Frame /\ Clean(ch)
      /\ C = C1 \union {f.n}
      /\ \A n \in C1 : f.n < n
  BY AfterReceive
<1>2. /\ I1 \subseteq I \union {f.n}
      /\ Clean(Sent(inc, f)) => Clean(inc) /\ I1 = I \union {f.n}
      /\ inc = None => I1 = {}
  BY <1>1, AfterSend, AfterSubscribe
<1>3. /\ D \union I \union C \subseteq 1..seen
      /\ \A d \in D, i \in I : d < i
      /\ \A w \in D \union I, c \in C : w < c
  BY DEF Run
<1>4. /\ Clean(inc) =>
           \A a, b \in D \union I, k \in good : a < k /\ k < b => k \in D \union I
      /\ Clean(inc) =>
           \A a \in D \union I, k \in good : a < k => k \in D \union I \union C \/ seen < k
      /\ \A a \in C, k \in good : a < k => k \in C \/ seen < k
  BY <1>1 DEF Run
<1>5. f.n \in 1..seen
  BY <1>1, <1>3
<1> DEFINE inc1 == Sent(inc, f)  ch1 == Received(ch)
<1> HIDE DEF I, I1, C, C1, inc1, ch1
<1>6. D \union I1 \union C1 \subseteq 1..seen
  BY <1>1, <1>2, <1>3
<1>7. \A d \in D, i \in I1 : d < i
  BY <1>1, <1>2, <1>3
<1>8. \A w \in D \union I1, c \in C1 : w < c
  BY <1>1, <1>2, <1>3
<1>9. ASSUME Clean(inc1), NEW a \in D \union I1, NEW b \in D \union I1, NEW k \in good, a < k, k < b
      PROVE  k \in D \union I1
  <2>1. Clean(inc) /\ I1 = I \union {f.n}
    BY <1>2, <1>9 DEF inc1
  <2>2. a \in D \union I
    BY <1>1, <1>3, <1>9, <2>1
  <2>3. CASE b \in D \union I
    BY <1>4, <1>9, <2>1, <2>2, <2>3
  <2>4. CASE b = f.n
    <3>1. k \in D \union I \union C \/ seen < k
      BY <1>4, <1>9, <2>1, <2>2
    <3>2. ~(seen < k)
      BY <1>5, <1>9, <2>4
    <3>3. k \notin C
      BY <1>1, <1>3, <1>5, <1>9, <2>4
    <3> QED
      BY <2>1, <3>1, <3>2, <3>3
  <2> QED
    BY <1>9, <2>1, <2>3, <2>4
<1>10. ASSUME Clean(inc1), NEW a \in D \union I1, NEW k \in good, a < k
       PROVE  k \in D \union I1 \union C1 \/ seen < k
  <2>1. Clean(inc) /\ I1 = I \union {f.n}
    BY <1>2, <1>10 DEF inc1
  <2>2. CASE a \in D \union I
    BY <1>1, <1>4, <1>10, <2>1, <2>2
  <2>3. CASE a = f.n
    BY <1>1, <1>4, <1>10, <2>1, <2>3
  <2> QED
    BY <1>10, <2>1, <2>2, <2>3
<1>11. ASSUME NEW a \in C1, NEW k \in good, a < k
       PROVE  k \in C1 \/ seen < k
  <2>1. k \in C \/ seen < k
    BY <1>1, <1>4, <1>11
  <2>2. k # f.n
    BY <1>1, <1>3, <1>5, <1>11
  <2> QED
    BY <1>1, <2>1, <2>2
<1>12. Run(D, inc1, ch1, x, seen, good)
  BY <1>6, <1>7, <1>8, <1>9, <1>10, <1>11 DEF Run, I1, C1, inc1, ch1
<1>13. \A n \in I : n < f.n
  BY <1>1, <1>3
<1> QED
  BY <1>12, <1>13 DEF I, inc1, ch1

(* Main handles a frame of x: it is the next that there is.                *)
LEMMA RunHandles ==
    ASSUME NEW D, NEW inc \in ChannelOrNone, NEW ch, NEW seen \in Nat,
           NEW good \in SUBSET Nat, NEW f,
           CanReceive(inc), Rising(inc), f = Head(inc.buf),
           Run(D, inc, ch, f.by, seen, good)
    PROVE  /\ Run(D \union {f.n}, Received(inc), ch, f.by, seen, good)
           /\ \A d \in D : d < f.n /\ \A k \in good : d < k /\ k < f.n => k \in D
<1> DEFINE x == f.by
           I == Nums(inc, x)  I1 == Nums(Received(inc), x)
           C == Nums(ch, x)   D1 == D \union {f.n}
<1>1. /\ f \in Frame /\ Clean(inc)
      /\ I = I1 \union {f.n}
      /\ \A n \in I1 : f.n < n
  BY AfterReceive
<1>2. /\ D \union I \union C \subseteq 1..seen
      /\ \A d \in D, i \in I : d < i
      /\ \A w \in D \union I, c \in C : w < c
      /\ \A a, b \in D \union I, k \in good : a < k /\ k < b => k \in D \union I
      /\ Clean(ch) =>
           \A a \in D \union I, k \in good : a < k => k \in D \union I \union C \/ seen < k
      /\ Clean(ch) => \A a \in C, k \in good : a < k => k \in C \/ seen < k
  BY <1>1 DEF Run
<1> HIDE DEF I, I1, C
<1>3. D1 \union I1 = D \union I
  BY <1>1
<1>4. \A d \in D1, i \in I1 : d < i
  BY <1>1, <1>2
<1>5. ASSUME NEW d \in D, NEW k \in good, d < k, k < f.n PROVE k \in D
  <2>1. k \in D \union I
    BY <1>1, <1>2, <1>5
  <2>2. f.n \in 1..seen /\ k \in Nat
    BY <1>1, <1>2
  <2>3. k \notin I
    BY <1>1, <1>2, <1>5, <2>2
  <2> QED
    BY <2>1, <2>3
<1>6. \A d \in D : d < f.n
  BY <1>1, <1>2
<1>7. Run(D1, Received(inc), ch, x, seen, good)
  <2> DEFINE inc1 == Received(inc)
  <2> HIDE DEF inc1, D1
  <2>1. Run(D1, inc1, ch, x, seen, good)
    BY <1>2, <1>3, <1>4 DEF Run, I1, C, inc1
  <2> QED
    BY <2>1 DEF inc1
<1> QED
  BY <1>5, <1>6, <1>7

(* Somebody subscribes before anything of x is on its way to main.         *)
LEMMA RunStarts ==
    ASSUME NEW inc, NEW ch, NEW x, NEW seen, NEW good, NEW one,
           Nums(inc, x) = {}, Nums(one, x) = {},
           Run({}, inc, ch, x, seen, good)
    PROVE  Run({}, one, ch, x, seen, good) /\ Run({}, inc, one, x, seen, good)
BY DEF Run

-----------------------------------------------------------------------------
(* The invariant, step by step.                                            *)

(* A step of Next is one of these; what most of them do is no concern of   *)
(* the frames on their way to main.                                        *)
LEMMA FlowSteps ==
    ASSUME [Next]_vars,
           NEW P,
           (/\ incoming' = incoming /\ chan' = chan /\ sent' = sent
            /\ taken' = taken /\ handled' = handled /\ lost' = lost
            /\ Starting' => Starting) => P,
           \A c \in Client, kind \in Kind : WriteFrame(c, kind) => P,
           \A c \in Client : ReadFrame(c) => P,
           InjectIncoming => P,
           \A t \in Transport : Forward(t) => P,
           \A relayed \in BOOLEAN : ReceiveInbound(relayed) => P,
           Subscribe("hub", "subscribe hub", "start ble") => P,
           Subscribe("ble", "subscribe ble", "subscribe") => P,
           SubscribeMain => P
    PROVE  P
<1> DEFINE Calm == /\ incoming' = incoming /\ chan' = chan /\ sent' = sent
                   /\ taken' = taken /\ handled' = handled /\ lost' = lost
                   /\ Starting' => Starting
<1>1. ASSUME StartHub \/ StartBle \/ GoDeaf \/ ShutDown PROVE Calm
  BY <1>1 DEF StartHub, StartBle, GoDeaf, ShutDown, Goto, Starting, clientVars, channelVars
<1>2. ASSUME Shutdown PROVE Calm
  BY <1>2 DEF Shutdown, StopHub, DropListener, ClearHalves, StopBle, Exit, Goto, Starting,
              clientVars, channelVars
<1>3. ASSUME Interrupt \/ Announce \/ DrainOutgoing PROVE Calm
  BY <1>3 DEF Interrupt, Announce, DrainOutgoing, Starting, taskVars, clientVars, channelVars
<1>4. ASSUME NEW s \in Sender, Send(s) PROVE Calm
  BY <1>4 DEF Send, SendHub, WriteHalf, DropFailed, CheckStarted, Push, Finish, Starting,
              clientVars, channelVars
<1>5. ASSUME AcceptLoop PROVE Calm
  BY <1>5 DEF AcceptLoop, AwaitConnection, Accept, AcceptorEnds, Starting,
              taskVars, clientVars, channelVars
<1>6. ASSUME NEW c \in Client, Register(c) \/ EndOfFile(c) \/ Connect(c) \/ ReadHub(c) \/ Leave(c)
      PROVE  Calm
  BY <1>6 DEF Register, EndOfFile, Connect, ReadHub, Leave, Starting, taskVars, clientVars, channelVars
<1>7. ASSUME UNCHANGED vars PROVE Calm
  BY <1>7 DEF vars, taskVars, clientVars, channelVars, Starting
<1> HIDE DEF Calm
<1>8. Calm => P
  BY DEF Calm
<1>9. CASE Startup
  BY <1>1, <1>8, <1>9 DEF Startup
<1>10. CASE MainLoop
  BY <1>1, <1>8, <1>10 DEF MainLoop
<1>11. ASSUME NEW c \in Client, HandleClient(c) PROVE P
  BY <1>6, <1>8, <1>11 DEF HandleClient
<1> QED
  BY <1>2, <1>3, <1>4, <1>5, <1>6, <1>7, <1>8, <1>9, <1>10, <1>11 DEF Next

(* The parts of Flow.                                                      *)
LEMMA FlowIs ==
    ASSUME Flow
    PROVE  /\ incoming \in ChannelOrNone
           /\ \A t \in Transport : chan[t] \in ChannelOrNone
           /\ chan = [ t \in Transport |-> chan[t] ]
           /\ \A x \in Source : /\ sent[x] \in Seq(Kind)
                                /\ Len(sent[x]) \in Nat
                                /\ Seen(x) \in Nat
                                /\ Seen(x) <= Len(sent[x])
                                /\ handled[x] \in Seq(Nat)
                                /\ Via(x) \in Transport
                                /\ Good(x) \in SUBSET Nat
                                /\ Run(Done(x), incoming, chan[Via(x)], x, Seen(x), Good(x))
                                /\ InOrder(handled[x], sent[x])
                                /\ Done(x) \subseteq 1..Seen(x)
           /\ incoming = None => \A x \in Source : Done(x) = {}
<1>1. \A x \in Source : sent[x] \in Seq(Kind)
  BY DEF Flow, FlowTyped
<1>2. \A x \in Source : Len(sent[x]) \in Nat /\ Good(x) \in SUBSET Nat
  BY <1>1 DEF Good
<1>3. "ble" \in Source /\ \A x \in Source : x # "ble" => x \in Client
  BY DEF Source
<1>4. \A x \in Source : Seen(x) \in Nat
  BY <1>2, <1>3 DEF Seen, Flow, FlowTyped
<1>5. \A x \in Source : Done(x) \subseteq 1..Seen(x)
  BY DEF Flow, Run
<1>6. \A x \in Source : handled[x] = << >> => Done(x) = {}
  BY DEF Done
<1>7. \A x \in Source : Via(x) \in Transport
  BY DEF Via, Transport
<1>8. /\ incoming \in ChannelOrNone
      /\ \A t \in Transport : chan[t] \in ChannelOrNone
      /\ chan = [ t \in Transport |-> chan[t] ]
      /\ \A x \in Source : handled[x] \in Seq(Nat)
  BY DEF Flow, FlowTyped
<1> QED
  BY <1>1, <1>2, <1>4, <1>5, <1>6, <1>7, <1>8 DEF Flow

(* Numbers in order stay so as more frames are sent.                       *)
LEMMA InOrderLonger ==
    ASSUME NEW nums \in Seq(Nat), NEW frames, NEW longer, NEW last \in Nat,
           InOrder(nums, frames),
           \A i \in 1..Len(nums) : nums[i] \in 1..last,
           \A k \in 1..last : longer[k] = frames[k]
    PROVE  InOrder(nums, longer)
<1> SUFFICES ASSUME NEW i \in 1..(Len(nums) - 1), NEW k \in (nums[i] + 1)..(nums[i + 1] - 1)
             PROVE  longer[k] # "good"
  BY DEF InOrder
<1>1. i \in 1..Len(nums) /\ i + 1 \in 1..Len(nums)
  OBVIOUS
<1>2. nums[i] \in 1..last /\ nums[i + 1] \in 1..last
  BY <1>1
<1>3. k \in 1..last
  BY <1>2
<1>4. frames[k] # "good"
  BY DEF InOrder
<1> QED
  BY <1>3, <1>4

(* What a source sends later does not disturb what is under way.           *)
LEMMA FlowLonger ==
    ASSUME Flow, NEW x \in Source,
           sent' \in [Source -> Seq(Kind)],
           \A y \in Source \ {x} : sent'[y] = sent[y],
           Len(sent'[x]) >= Len(sent[x]),
           \A k \in 1..Len(sent[x]) : sent'[x][k] = sent[x][k],
           handled' = handled
    PROVE  /\ \A y \in Source : InOrder(handled[y], sent[y])'
           /\ \A y \in Source : Good(y)' \in SUBSET Nat /\ Good(y)' \intersect 1..Seen(y) \subseteq Good(y)
           /\ \A y \in Source \ {x} : Good(y)' = Good(y)
           /\ \A y \in Source : Done(y)' = Done(y)
<1>1. \A y \in Source : /\ Len(sent[y]) \in Nat /\ Len(sent'[y]) \in Nat
                        /\ Len(sent'[y]) >= Len(sent[y])
                        /\ \A k \in 1..Len(sent[y]) : sent'[y][k] = sent[y][k]
  <2>1. \A y \in Source : Len(sent[y]) \in Nat
    BY FlowIs
  <2>2. \A y \in Source : Len(sent'[y]) \in Nat
    <3>1. \A y \in Source : sent'[y] \in Seq(Kind)
      OBVIOUS
    <3> QED
      BY <3>1
  <2>3. ASSUME NEW y \in Source
        PROVE  /\ Len(sent'[y]) >= Len(sent[y])
               /\ \A k \in 1..Len(sent[y]) : sent'[y][k] = sent[y][k]
    <3>1. CASE y = x
      BY <3>1
    <3>2. CASE y # x
      <4>1. sent'[y] = sent[y]
        BY <3>2
      <4> QED
        BY <2>1, <4>1
    <3> QED
      BY <3>1, <3>2
  <2> QED
    BY <2>1, <2>2, <2>3
<1>2. ASSUME NEW y \in Source PROVE InOrder(handled[y], sent[y])'
  <2>1. Done(y) \subseteq 1..Seen(y) /\ Seen(y) \in Nat /\ Seen(y) <= Len(sent[y])
    BY FlowIs
  <2>2. \A i \in 1..Len(handled[y]) : handled[y][i] \in 1..Len(sent[y])
    <3>1. \A i \in 1..Len(handled[y]) : handled[y][i] \in Done(y)
      BY DEF Done
    <3>2. \A d \in Done(y) : d \in 1..Seen(y)
      BY <2>1
    <3>3. \A d \in 1..Seen(y) : d \in 1..Len(sent[y])
      BY <1>1, <2>1
    <3> QED
      BY <3>1, <3>2, <3>3
  <2>3. handled[y] \in Seq(Nat) /\ InOrder(handled[y], sent[y])
    BY FlowIs
  <2> DEFINE nums == handled[y]  frames == sent[y]  longer == sent'[y]  last == Len(sent[y])
  <2>4. last \in Nat /\ \A k \in 1..last : longer[k] = frames[k]
    BY <1>1
  <2> HIDE DEF nums, frames, longer, last
  <2>5. \A i \in 1..Len(nums) : nums[i] \in 1..last
    BY <2>2 DEF nums, last
  <2>6. nums \in Seq(Nat) /\ InOrder(nums, frames)
    BY <2>3 DEF nums, frames
  <2>7. InOrder(nums, longer)
    BY <2>4, <2>5, <2>6, InOrderLonger
  <2> QED
    BY <2>7 DEF nums, longer
<1>3. ASSUME NEW y \in Source
      PROVE  Good(y)' \in SUBSET Nat /\ Good(y)' \intersect 1..Seen(y) \subseteq Good(y)
  <2>1. Seen(y) \in Nat /\ Seen(y) <= Len(sent[y])
    BY FlowIs
  <2> QED
    BY <1>1, <2>1 DEF Good
<1>4. \A y \in Source \ {x} : Good(y)' = Good(y)
  BY DEF Good
<1>5. \A y \in Source : Done(y)' = Done(y)
  BY DEF Done
<1> QED
  BY <1>2, <1>3, <1>4, <1>5

(* A client writes a frame.                                                *)
LEMMA FlowWrite ==
    ASSUME Flow, NEW c \in Client, NEW kind \in Kind, WriteFrame(c, kind)
    PROVE  Flow'
<1>1. /\ sent' = [ sent EXCEPT ![c] = Append(@, kind) ]
      /\ taken' = taken /\ handled' = handled /\ incoming' = incoming /\ chan' = chan
      /\ main' = main
  BY DEF WriteFrame, channelVars, taskVars
<1>2. c \in Source /\ c # "ble"
  BY NodeConstants DEF Source
<1>3. sent[c] \in Seq(Kind) /\ sent \in [Source -> Seq(Kind)]
  BY <1>2 DEF Flow, FlowTyped
<1>4. /\ Append(sent[c], kind) \in Seq(Kind)
      /\ Len(Append(sent[c], kind)) = Len(sent[c]) + 1 /\ Len(sent[c]) \in Nat
      /\ \A k \in 1..Len(sent[c]) : Append(sent[c], kind)[k] = sent[c][k]
  BY <1>3, AppendIs
<1>5. /\ sent' \in [Source -> Seq(Kind)]
      /\ \A y \in Source \ {c} : sent'[y] = sent[y]
      /\ sent'[c] = Append(sent[c], kind)
  BY <1>1, <1>2, <1>3, <1>4
<1>6. /\ \A y \in Source : InOrder(handled[y], sent[y])'
      /\ \A y \in Source : Good(y)' \in SUBSET Nat /\ Good(y)' \intersect 1..Seen(y) \subseteq Good(y)
      /\ \A y \in Source : Done(y)' = Done(y)
  BY <1>1, <1>2, <1>4, <1>5, FlowLonger
<1>7. \A y \in Source : Seen(y)' = Seen(y) /\ Seen(y) <= Len(sent'[y])
  <2>1. \A y \in Source : Seen(y)' = Seen(y)
    BY <1>1, <1>2, <1>5 DEF Seen, Source
  <2>2. \A y \in Source : Seen(y) \in Nat /\ Len(sent[y]) \in Nat /\ Seen(y) <= Len(sent[y])
    BY FlowIs
  <2> QED
    BY <1>4, <1>5, <2>1, <2>2
<1>8. ASSUME NEW y \in Source
      PROVE  Run(Done(y), incoming, chan[Via(y)], y, Seen(y), Good(y))'
  <2> DEFINE D == Done(y)  seen == Seen(y)  good == Good(y)  longer == Good(y)'
             ch == chan[Via(y)]
  <2>1. Run(D, incoming, ch, y, seen, good) /\ seen \in Nat
    BY FlowIs
  <2>2. longer \intersect 1..seen \subseteq good /\ longer \subseteq Nat
    BY <1>6
  <2> HIDE DEF D, seen, good, longer, ch
  <2>3. Run(D, incoming, ch, y, seen, longer)
    BY <2>1, <2>2, RunLonger
  <2> QED
    BY <1>1, <1>6, <1>7, <2>3 DEF D, seen, longer, ch, Via
<1>9. FlowTyped'
  BY <1>1, <1>5 DEF Flow, FlowTyped
<1>10. /\ \A t \in Transport : Rising(chan[t])'
       /\ \A t \in Transport, y \in Source : Nums(chan[t], y)' # {} => Via(y)' = t
       /\ Rising(incoming)'
       /\ Starting' => incoming' = None
       /\ incoming' = None => \A y \in Source : handled'[y] = << >>
  BY <1>1 DEF Flow, Starting, Via, Rising, Nums
<1> QED
  BY <1>6, <1>7, <1>8, <1>9, <1>10 DEF Flow

(* A transport takes the next frame of a source, and publishes it if it is *)
(* good.                                                                   *)
LEMMA FlowArrives ==
    ASSUME Flow, NEW x \in Source, NEW f \in Frame, f.by = x, f.n = Seen(x) + 1,
           sent' \in [Source -> Seq(Kind)], taken' \in [Client -> Nat],
           \A y \in Source \ {x} : sent'[y] = sent[y] /\ Seen(y)' = Seen(y),
           Len(sent'[x]) >= Len(sent[x]),
           \A k \in 1..Len(sent[x]) : sent'[x][k] = sent[x][k],
           Seen(x)' = Seen(x) + 1, Seen(x)' <= Len(sent'[x]),
           handled' = handled, incoming' = incoming, Starting' => Starting,
           \/ chan' = [ chan EXCEPT ![Via(x)] = Sent(@, f) ]
           \/ chan' = chan /\ sent'[x][f.n] # "good"
    PROVE  Flow'
<1>1. /\ \A y \in Source : InOrder(handled[y], sent[y])'
      /\ \A y \in Source : Good(y)' \in SUBSET Nat /\ Good(y)' \intersect 1..Seen(y) \subseteq Good(y)
      /\ \A y \in Source \ {x} : Good(y)' = Good(y)
      /\ \A y \in Source : Done(y)' = Done(y)
  BY FlowLonger
<1>2. \A y \in Source : Seen(y) \in Nat /\ Via(y) \in Transport /\ chan[Via(y)] \in ChannelOrNone
  BY FlowIs
<1>3. chan = [ t \in Transport |-> chan[t] ] /\ \A t \in Transport : chan[t] \in ChannelOrNone
  BY FlowIs
<1> DEFINE ch == chan[Via(x)]  D == Done(x)  seen == Seen(x)  longer == Good(x)'
<1>4. /\ Run(D, incoming, ch, x, seen, longer)
      /\ \A n \in Nums(ch, x) : n < f.n
  <2> DEFINE good == Good(x)
  <2>1. Run(D, incoming, ch, x, seen, good) /\ seen \in Nat
    BY FlowIs
  <2>2. longer \intersect 1..seen \subseteq good /\ longer \subseteq Nat
    BY <1>1
  <2>3. Nums(ch, x) \subseteq 1..seen
    <3> HIDE DEF D, seen, good, ch
    <3> QED
      BY <2>1 DEF Run
  <2> HIDE DEF D, seen, good, longer, ch
  <2>4. Run(D, incoming, ch, x, seen, longer)
    BY <2>1, <2>2, RunLonger
  <2>5. f.n = seen + 1
    BY DEF seen
  <2> QED
    BY <2>1, <2>3, <2>4, <2>5
<1>5. /\ \A t \in Transport : chan'[t] \in ChannelOrNone
      /\ chan' \in [Transport -> ChannelOrNone]
      /\ \A t \in Transport \ {Via(x)} : chan'[t] = chan[t]
      /\ chan'[Via(x)] = Sent(ch, f) \/ (chan'[Via(x)] = ch /\ seen + 1 \notin longer)
  <2>1. CASE chan' = [ chan EXCEPT ![Via(x)] = Sent(@, f) ]
    <3>1. Sent(ch, f) \in ChannelOrNone
      BY <1>2, AfterSend
    <3> QED
      BY <1>2, <1>3, <2>1, <3>1
  <2>2. CASE chan' = chan /\ sent'[x][f.n] # "good"
    BY <1>2, <1>3, <2>2 DEF Good
  <2> QED
    BY <2>1, <2>2
<1>6. Run(Done(x), incoming, chan[Via(x)], x, Seen(x), Good(x))'
  <2> DEFINE new == chan'[Via(x)]
  <2>1. seen \in Nat /\ longer \in SUBSET Nat /\ ch \in ChannelOrNone
    BY <1>1, <1>2
  <2>2. f.n = seen + 1 /\ f.by = x
    OBVIOUS
  <2> HIDE DEF D, seen, longer, ch, new
  <2>3. Run(D, incoming, new, x, seen + 1, longer)
    <3>1. CASE new = Sent(ch, f)
      <4>1. Run(D, incoming, ch, f.by, seen, longer)
        BY <1>4, <2>2
      <4>2. Run(D, incoming, Sent(ch, f), f.by, seen + 1, longer)
        BY <2>1, <2>2, <4>1, RunArrives
      <4> QED
        BY <2>2, <3>1, <4>2
    <3>2. CASE new = ch /\ seen + 1 \notin longer
      BY <1>4, <2>1, <3>2, RunSkips
    <3> QED
      BY <1>5, <3>1, <3>2 DEF new
  <2> QED
    BY <1>1, <2>3 DEF D, seen, longer, new, Via
<1>7. ASSUME NEW y \in Source, y # x
      PROVE  Run(Done(y), incoming, chan[Via(y)], y, Seen(y), Good(y))'
  <2>1. Done(y)' = Done(y) /\ Seen(y)' = Seen(y) /\ Good(y)' = Good(y) /\ Via(y)' = Via(y)
    BY <1>1, <1>7 DEF Via
  <2>2. Run(Done(y), incoming, chan[Via(y)], y, Seen(y), Good(y))
    BY FlowIs
  <2>3. Run(Done(y), incoming, chan'[Via(y)], y, Seen(y), Good(y))
    <3> DEFINE old == chan[Via(y)]  new == chan'[Via(y)]
               DD == Done(y)  ss == Seen(y)  gg == Good(y)
    <3>1. new = old \/ new = Sent(old, f)
      BY <1>2, <1>5
    <3>2. old \in ChannelOrNone /\ incoming \in ChannelOrNone /\ Run(DD, incoming, old, y, ss, gg)
      BY <1>2, <2>2, FlowIs
    <3>3. f \in Frame /\ f.by # y
      BY <1>7
    <3> HIDE DEF old, new, DD, ss, gg
    <3>4. Run(DD, incoming, Sent(old, f), y, ss, gg)
      BY <3>2, <3>3, RunBesides
    <3>5. Run(DD, incoming, new, y, ss, gg)
      BY <3>1, <3>2, <3>4
    <3> QED
      BY <3>5 DEF new, DD, ss, gg
  <2> QED
    BY <2>1, <2>3
<1>8. FlowTyped'
  BY <1>5 DEF Flow, FlowTyped
<1>9. ASSUME NEW t \in Transport
      PROVE  /\ Rising(chan'[t])
             /\ \A y \in Source : Nums(chan'[t], y) # {} => Via(y) = t
  <2>1. Rising(chan[t]) /\ \A y \in Source : Nums(chan[t], y) # {} => Via(y) = t
    BY DEF Flow
  <2>2. CASE chan'[t] = chan[t]
    BY <2>1, <2>2
  <2>3. CASE t = Via(x) /\ chan'[t] = Sent(ch, f)
    <3>1. Rising(Sent(ch, f))
      BY <1>2, <1>4, <2>1, <2>3, AfterSend
    <3>2. ASSUME NEW y \in Source, Nums(Sent(ch, f), y) # {} PROVE Via(y) = t
      <4>1. Nums(Sent(ch, f), y) \subseteq Nums(ch, y) \union (IF y = f.by THEN {f.n} ELSE {})
        BY <1>2, AfterSend
      <4>2. y = x \/ Nums(ch, y) # {}
        BY <3>2, <4>1
      <4> QED
        BY <2>1, <2>3, <4>2
    <3> QED
      BY <2>3, <3>1, <3>2
  <2> QED
    BY <1>5, <2>2, <2>3
<1>10. \A t \in Transport : /\ Rising(chan[t])'
                            /\ \A y \in Source : Nums(chan[t], y)' # {} => Via(y)' = t
  BY <1>9 DEF Rising, Nums, Via
<1>11. /\ Rising(incoming)'
       /\ Starting' => incoming' = None
       /\ incoming' = None => \A y \in Source : handled'[y] = << >>
  BY DEF Flow, Rising
<1>12. \A y \in Source : Seen(y)' <= Len(sent'[y])
  BY FlowIs
<1> QED
  BY <1>1, <1>6, <1>7, <1>8, <1>10, <1>11, <1>12 DEF Flow

(* handle_client reads a frame.                                            *)
LEMMA FlowRead ==
    ASSUME Flow, NEW c \in Client, ReadFrame(c)
    PROVE  Flow'
<1> DEFINE n == taken[c] + 1
           f == [ by |-> c, n |-> n ]
<1>1. c \in Source /\ c # "ble" /\ Via(c) = "hub" /\ Seen(c) = taken[c]
  BY NodeConstants DEF Source, Via, Seen
<1>2. /\ n \in 1..Len(sent[c])
      /\ taken' = [ taken EXCEPT ![c] = n ]
      /\ sent' = sent /\ handled' = handled /\ main' = main /\ incoming' = incoming
      /\ IF sent[c][n] = "good" THEN chan' = [ chan EXCEPT !["hub"] = Sent(@, f) ] ELSE chan' = chan
  <2>1. sent[c] \in Seq(Kind)
    BY <1>1, FlowIs
  <2>2. DOMAIN sent[c] = 1..Len(sent[c])
    BY <2>1
  <2> QED
    BY <2>2 DEF ReadFrame, Publish, taskVars, channelVars
<1>3. taken \in [Client -> Nat] /\ sent \in [Source -> Seq(Kind)]
  BY DEF Flow, FlowTyped
<1>4. n \in Nat /\ n >= 1 /\ taken[c] \in Nat
  BY <1>3
<1>5. f \in Frame /\ f.by = c /\ f.n = Seen(c) + 1
  BY <1>1, <1>4 DEF Frame
<1>6. taken' \in [Client -> Nat]
  BY <1>2, <1>3, <1>4
<1>7. /\ Seen(c)' = Seen(c) + 1
      /\ \A y \in Source \ {c} : Seen(y)' = Seen(y)
  BY <1>1, <1>2, <1>3 DEF Seen, Source
<1>8. Seen(c)' <= Len(sent'[c])
  BY <1>1, <1>2, <1>7
<1>9. Len(sent'[c]) >= Len(sent[c])
  <2>1. Len(sent[c]) \in Nat
    BY <1>1, FlowIs
  <2> QED
    BY <1>2, <2>1
<1>10. \/ chan' = [ chan EXCEPT ![Via(c)] = Sent(@, f) ]
       \/ chan' = chan /\ sent'[c][f.n] # "good"
  BY <1>1, <1>2
<1>11. Starting' => Starting
  BY <1>2 DEF Starting
<1> HIDE DEF f, n
<1> QED
  BY <1>1, <1>2, <1>3, <1>5, <1>6, <1>7, <1>8, <1>9, <1>10, <1>11, FlowArrives

(* The platform injects a frame.                                           *)
LEMMA FlowInject ==
    ASSUME Flow, InjectIncoming
    PROVE  Flow'
<1>0. PICK f : f = [ by |-> "ble", n |-> Len(sent'["ble"]) ]
  OBVIOUS
<1>1. "ble" \in Source /\ Via("ble") = "ble" /\ Seen("ble") = Len(sent["ble"]) /\ Seen("ble")' = Len(sent'["ble"])
  BY DEF Source, Via, Seen
<1>2. /\ sent' = [ sent EXCEPT !["ble"] = Append(@, "good") ]
      /\ taken' = taken /\ handled' = handled /\ main' = main /\ incoming' = incoming
      /\ chan' = [ chan EXCEPT !["ble"] = Sent(@, f) ]
  BY <1>0 DEF InjectIncoming, Publish, taskVars
<1>3. sent["ble"] \in Seq(Kind) /\ sent \in [Source -> Seq(Kind)] /\ taken \in [Client -> Nat]
  BY <1>1 DEF Flow, FlowTyped
<1>4. "good" \in Kind
  BY DEF Kind
<1>5. /\ Append(sent["ble"], "good") \in Seq(Kind)
      /\ Len(Append(sent["ble"], "good")) = Len(sent["ble"]) + 1 /\ Len(sent["ble"]) \in Nat
      /\ \A k \in 1..Len(sent["ble"]) : Append(sent["ble"], "good")[k] = sent["ble"][k]
  BY <1>3, <1>4, AppendIs
<1>6. /\ sent' \in [Source -> Seq(Kind)]
      /\ \A y \in Source \ {"ble"} : sent'[y] = sent[y]
      /\ sent'["ble"] = Append(sent["ble"], "good")
  BY <1>1, <1>2, <1>3, <1>5
<1>7. f \in Frame /\ f.by = "ble" /\ f.n = Seen("ble") + 1
  BY <1>0, <1>1, <1>5, <1>6 DEF Frame
<1>8. /\ Seen("ble")' = Seen("ble") + 1
      /\ Seen("ble")' <= Len(sent'["ble"]) /\ Len(sent'["ble"]) >= Len(sent["ble"])
      /\ \A k \in 1..Len(sent["ble"]) : sent'["ble"][k] = sent["ble"][k]
  BY <1>1, <1>5, <1>6
<1>9. \A y \in Source \ {"ble"} : Seen(y)' = Seen(y)
  BY <1>2 DEF Seen
<1>10. chan' = [ chan EXCEPT ![Via("ble")] = Sent(@, f) ]
  BY <1>1, <1>2
<1>11. Starting' => Starting
  BY <1>2 DEF Starting
<1>12. PICK x \in Source : x = "ble"
  BY <1>1
<1>13. /\ f.by = x /\ f.n = Seen(x) + 1
       /\ sent' \in [Source -> Seq(Kind)] /\ taken' \in [Client -> Nat]
       /\ \A y \in Source \ {x} : sent'[y] = sent[y] /\ Seen(y)' = Seen(y)
       /\ Len(sent'[x]) >= Len(sent[x])
       /\ \A k \in 1..Len(sent[x]) : sent'[x][k] = sent[x][k]
       /\ Seen(x)' = Seen(x) + 1 /\ Seen(x)' <= Len(sent'[x])
       /\ chan' = [ chan EXCEPT ![Via(x)] = Sent(@, f) ]
  <2>1. Seen("ble") = Seen(x) /\ Seen("ble")' = Seen(x)'
    BY <1>12
  <2> QED
    BY <1>2, <1>3, <1>6, <1>7, <1>8, <1>9, <1>10, <1>12, <2>1
<1>14. f \in Frame
  BY <1>7
<1> QED
  BY <1>2, <1>11, <1>13, <1>14, FlowArrives

(* What main has handled, and what was sent, stay as they are: each        *)
(* source's line decides.                                                  *)
LEMMA FlowInside ==
    ASSUME Flow,
           incoming' \in ChannelOrNone, chan' \in [Transport -> ChannelOrNone],
           sent' = sent, taken' = taken, handled' = handled,
           Starting' => incoming' = None,
           incoming' = None => incoming = None,
           Rising(incoming'),
           \A t \in Transport : /\ Rising(chan'[t])
                                /\ \A y \in Source : Nums(chan'[t], y) \subseteq Nums(chan[t], y),
           \A y \in Source : Run(Done(y), incoming', chan'[Via(y)], y, Seen(y), Good(y))
    PROVE  Flow'
<1>1. \A y \in Source : /\ Done(y)' = Done(y) /\ Seen(y)' = Seen(y) /\ Good(y)' = Good(y)
                        /\ Via(y)' = Via(y)
  BY DEF Done, Seen, Good, Via
<1>2. \A y \in Source : Run(Done(y), incoming, chan[Via(y)], y, Seen(y), Good(y))'
  <2> SUFFICES ASSUME NEW y \in Source
               PROVE  Run(Done(y), incoming, chan[Via(y)], y, Seen(y), Good(y))'
    OBVIOUS
  <2>1. Run(Done(y), incoming', chan'[Via(y)], y, Seen(y), Good(y))
    OBVIOUS
  <2> QED
    BY <1>1, <2>1
<1>3. FlowTyped'
  BY DEF Flow, FlowTyped
<1>4. \A y \in Source : Seen(y)' <= Len(sent'[y]) /\ InOrder(handled'[y], sent'[y])
  BY <1>1 DEF Flow
<1>5. \A t \in Transport, y \in Source : Nums(chan'[t], y) # {} => Via(y) = t
  BY DEF Flow
<1>6. Rising(incoming)' /\ \A t \in Transport : /\ Rising(chan[t])'
                                                /\ \A y \in Source : Nums(chan[t], y)' # {} => Via(y)' = t
  BY <1>5 DEF Rising, Nums, Via
<1>7. incoming' = None => \A y \in Source : handled'[y] = << >>
  BY DEF Flow
<1>8. \A y \in Source : InOrder(handled[y], sent[y])'
  BY <1>4 DEF InOrder
<1> QED
  BY <1>2, <1>3, <1>4, <1>6, <1>7, <1>8 DEF Flow

(* The forwarder moves a frame on, or ends.                                *)
LEMMA FlowForward ==
    ASSUME Flow, NEW t \in Transport, Forward(t)
    PROVE  Flow'
<1> DEFINE ch == chan[t]
<1>1. /\ sent' = sent /\ taken' = taken /\ handled' = handled /\ main' = main
  BY DEF Forward, taskVars, clientVars
<1>2. /\ ch \in ChannelOrNone /\ incoming \in ChannelOrNone
      /\ Rising(ch) /\ Rising(incoming)
      /\ chan = [ u \in Transport |-> chan[u] ] /\ \A u \in Transport : chan[u] \in ChannelOrNone
  BY FlowIs DEF Flow
<1>3. \A y \in Source : /\ Run(Done(y), incoming, chan[Via(y)], y, Seen(y), Good(y))
                        /\ Via(y) \in Transport /\ chan[Via(y)] \in ChannelOrNone
                        /\ Seen(y) \in Nat /\ Good(y) \in SUBSET Nat
  BY FlowIs
<1>4. Starting' => incoming = None
  BY <1>1 DEF Starting, Flow
<1>5. ASSUME CanReceive(ch), NEW f, f = Head(ch.buf),
             chan' = [ chan EXCEPT ![t] = Received(@) ], incoming' = Sent(incoming, f)
      PROVE  Flow'
  <2>1. /\ f \in Frame /\ Received(ch) \in ChannelOrNone
        /\ \A x : Nums(ch, x) = Nums(Received(ch), x) \union (IF x = f.by THEN {f.n} ELSE {})
        /\ Rising(Received(ch))
    BY <1>2, <1>5, AfterReceive
  <2>2. f.by \in Source /\ Via(f.by) = t
    <3>1. f.by \in Source
      BY <2>1, AFrameIs
    <3>2. f.n \in Nums(ch, f.by)
      BY <2>1
    <3> QED
      BY <3>1, <3>2 DEF Flow
  <2>3. /\ chan' \in [Transport -> ChannelOrNone]
        /\ chan'[t] = Received(ch)
        /\ \A u \in Transport \ {t} : chan'[u] = chan[u]
    BY <1>2, <1>5, <2>1
  <2>4. /\ incoming' \in ChannelOrNone
        /\ incoming = None => incoming' = None
    BY <1>2, <1>5, <2>1, AfterSend
  <2>5. incoming' = None => incoming = None
    <3> SUFFICES ASSUME incoming # None PROVE Sent(incoming, f) # None
      BY <1>5
    <3>1. incoming \in Channel(Frame)
      BY <1>2 DEF ChannelOrNone
    <3> QED
      BY <2>1, <3>1, SentIsOne
  <2>6. /\ Run(Done(f.by), incoming', chan'[t], f.by, Seen(f.by), Good(f.by))
        /\ \A n \in Nums(incoming, f.by) : n < f.n
    <3> DEFINE D == Done(f.by)  seen == Seen(f.by)  good == Good(f.by)
    <3>1. Run(D, incoming, ch, f.by, seen, good) /\ seen \in Nat /\ good \in SUBSET Nat
      BY <1>3, <2>2
    <3>2. incoming = None => D = {}
      BY <2>2, FlowIs
    <3> HIDE DEF D, seen, good, ch
    <3>3. /\ Run(D, Sent(incoming, f), Received(ch), f.by, seen, good)
          /\ \A n \in Nums(incoming, f.by) : n < f.n
      BY <1>2, <1>5, <3>1, <3>2, RunForwards
    <3> QED
      BY <1>5, <2>3, <3>3 DEF D, seen, good, ch
  <2>7. Rising(incoming')
    BY <1>2, <1>5, <2>1, <2>6, AfterSend
  <2>8. ASSUME NEW y \in Source
        PROVE  Run(Done(y), incoming', chan'[Via(y)], y, Seen(y), Good(y))
    <3>1. CASE y = f.by
      BY <2>2, <2>6, <3>1
    <3>2. CASE y # f.by
      <4> DEFINE D == Done(y)  seen == Seen(y)  good == Good(y)  old == chan[Via(y)]
                 new == chan'[Via(y)]
      <4>1. Run(D, incoming, old, y, seen, good) /\ old \in ChannelOrNone
        BY <1>3
      <4>2. new = old \/ (new = Received(ch) /\ old = ch)
        BY <1>3, <2>3
      <4> HIDE DEF D, seen, good, old, new, ch
      <4>3. Run(D, Sent(incoming, f), old, y, seen, good)
        BY <1>2, <2>1, <3>2, <4>1, RunBesides
      <4>4. Sent(incoming, f) \in ChannelOrNone
        BY <1>5, <2>4
      <4>5. CanReceive(old) /\ Head(old.buf).by # y => Run(D, Sent(incoming, f), Received(old), y, seen, good)
        BY <4>1, <4>3, <4>4, RunBesides
      <4>6. Run(D, Sent(incoming, f), new, y, seen, good)
        BY <1>5, <3>2, <4>2, <4>3, <4>5
      <4> QED
        BY <1>5, <4>6 DEF D, seen, good, new
    <3> QED
      BY <3>1, <3>2
  <2>9. \A u \in Transport : /\ Rising(chan'[u])
                             /\ \A y \in Source : Nums(chan'[u], y) \subseteq Nums(chan[u], y)
    <3> SUFFICES ASSUME NEW u \in Transport
                 PROVE  /\ Rising(chan'[u])
                        /\ \A y \in Source : Nums(chan'[u], y) \subseteq Nums(chan[u], y)
      OBVIOUS
    <3>1. CASE u = t
      BY <2>1, <2>3, <3>1
    <3>2. CASE u # t
      BY <2>3, <3>2 DEF Flow
    <3> QED
      BY <3>1, <3>2
  <2>10. Starting' => incoming' = None
    BY <1>4, <2>4
  <2> QED
    BY <1>1, <2>3, <2>4, <2>5, <2>7, <2>8, <2>9, <2>10, FlowInside
<1>6. ASSUME chan' = [ chan EXCEPT ![t] = None ], incoming' = incoming
      PROVE  Flow'
  <2>1. /\ chan' \in [Transport -> ChannelOrNone]
        /\ chan'[t] = None
        /\ \A u \in Transport \ {t} : chan'[u] = chan[u]
    BY <1>2, <1>6 DEF ChannelOrNone
  <2>2. ASSUME NEW y \in Source
        PROVE  Run(Done(y), incoming', chan'[Via(y)], y, Seen(y), Good(y))
    <3> DEFINE D == Done(y)  seen == Seen(y)  good == Good(y)  old == chan[Via(y)]
               new == chan'[Via(y)]
    <3>1. Run(D, incoming, old, y, seen, good) /\ old \in ChannelOrNone
      BY <1>3
    <3>2. new = old \/ new = None
      BY <1>3, <2>1
    <3> HIDE DEF D, seen, good, old, new
    <3>3. Run(D, incoming, None, y, seen, good)
      BY <1>2, <3>1, RunBesides
    <3>4. Run(D, incoming, new, y, seen, good)
      BY <3>1, <3>2, <3>3
    <3> QED
      BY <1>6, <3>4 DEF D, seen, good, new
  <2>3. \A u \in Transport : /\ Rising(chan'[u])
                             /\ \A y \in Source : Nums(chan'[u], y) \subseteq Nums(chan[u], y)
    <3> SUFFICES ASSUME NEW u \in Transport
                 PROVE  /\ Rising(chan'[u])
                        /\ \A y \in Source : Nums(chan'[u], y) \subseteq Nums(chan[u], y)
      OBVIOUS
    <3>1. CASE u = t
      BY <2>1, <3>1, AfterSubscribe
    <3>2. CASE u # t
      BY <2>1, <3>2 DEF Flow
    <3> QED
      BY <3>1, <3>2
  <2> QED
    BY <1>1, <1>2, <1>4, <1>6, <2>1, <2>2, <2>3, FlowInside
<1>7. \/ /\ CanReceive(ch)
         /\ chan' = [ chan EXCEPT ![t] = Received(@) ]
         /\ incoming' = Sent(incoming, Head(ch.buf))
      \/ chan' = [ chan EXCEPT ![t] = None ] /\ incoming' = incoming
  BY DEF Forward
<1>8. CASE /\ CanReceive(ch)
           /\ chan' = [ chan EXCEPT ![t] = Received(@) ]
           /\ incoming' = Sent(incoming, Head(ch.buf))
  <2>1. PICK f : f = Head(ch.buf)
    OBVIOUS
  <2>2. incoming' = Sent(incoming, f)
    BY <1>8, <2>1
  <2> QED
    BY <1>5, <1>8, <2>1, <2>2
<1> QED
  BY <1>6, <1>7, <1>8

(* Main handles a frame, and it is the next of its source: nothing good    *)
(* was left out between the last one and this.                             *)
LEMMA FlowReceive ==
    ASSUME Flow, NEW relayed \in BOOLEAN, ReceiveInbound(relayed)
    PROVE  Flow'
<1>0. PICK f : f = Head(incoming.buf)
  OBVIOUS
<1>1. /\ sent' = sent /\ taken' = taken /\ chan' = chan
      /\ main = "select" /\ main' \in {"select", "relay"}
      /\ CanReceive(incoming) /\ incoming' = Received(incoming)
      /\ handled' = [ handled EXCEPT ![f.by] = Append(@, f.n) ]
  BY <1>0 DEF ReceiveInbound, clientVars
<1>2. incoming \in ChannelOrNone /\ Rising(incoming) /\ handled \in [Source -> Seq(Nat)]
  BY DEF Flow, FlowTyped
<1>3. /\ f \in Frame /\ incoming' \in ChannelOrNone
      /\ Clean(incoming') /\ Rising(incoming')
  BY <1>0, <1>1, <1>2, AfterReceive
<1>4. f.by \in Source /\ f.n \in Nat
  BY <1>3, AFrameIs
<1> DEFINE x == f.by  nums == handled[x]  last == Len(nums)
<1>5. /\ nums \in Seq(Nat) /\ last \in Nat
      /\ InOrder(nums, sent[x]) /\ \A i \in 1..last : nums[i] \in Nat
  BY <1>4, FlowIs
<1>6. /\ handled' \in [Source -> Seq(Nat)]
      /\ handled'[x] = Append(nums, f.n)
      /\ \A y \in Source \ {x} : handled'[y] = handled[y]
      /\ Append(nums, f.n) \in Seq(Nat)
  BY <1>1, <1>2, <1>4
<1>7. /\ Len(handled'[x]) = last + 1
      /\ \A i \in 1..last : handled'[x][i] = nums[i]
      /\ handled'[x][last + 1] = f.n
  <2>1. /\ Len(Append(nums, f.n)) = last + 1
        /\ \A i \in 1..last : Append(nums, f.n)[i] = nums[i]
        /\ Append(nums, f.n)[last + 1] = f.n
    BY <1>4, <1>5, AppendIs
  <2> QED
    BY <1>6, <2>1
<1>8. /\ \A y \in Source : Seen(y)' = Seen(y) /\ Good(y)' = Good(y) /\ Via(y)' = Via(y)
      /\ \A y \in Source \ {x} : Done(y)' = Done(y)
  BY <1>1, <1>6 DEF Seen, Good, Via, Done
<1>9. Done(x)' = Done(x) \union {f.n}
  <2>1. 1..(last + 1) = (1..last) \union {last + 1}
    BY <1>5
  <2>2. Done(x)' = { handled'[x][i] : i \in 1..(last + 1) }
    BY <1>7 DEF Done
  <2>3. \A m : m \in Done(x)' <=> \E i \in 1..last \union {last + 1} : m = handled'[x][i]
    BY <2>1, <2>2
  <2>4. \A m : m \in Done(x)' <=> (\E i \in 1..last : m = nums[i]) \/ m = f.n
    BY <1>7, <2>3
  <2>5. \A m : m \in Done(x) <=> \E i \in 1..last : m = nums[i]
    BY DEF Done
  <2> QED
    BY <2>4, <2>5
<1>10. /\ Run(Done(x) \union {f.n}, Received(incoming), chan[Via(x)], x, Seen(x), Good(x))
       /\ \A d \in Done(x) : d < f.n /\ \A k \in Good(x) : d < k /\ k < f.n => k \in Done(x)
  <2> DEFINE D == Done(x)  seen == Seen(x)  good == Good(x)  ch == chan[Via(x)]
  <2>1. Run(D, incoming, ch, x, seen, good) /\ seen \in Nat /\ good \in SUBSET Nat
    BY <1>4, FlowIs
  <2>2. f = Head(incoming.buf)
    BY <1>0
  <2> HIDE DEF D, seen, good, ch
  <2>3. /\ Run(D \union {f.n}, Received(incoming), ch, x, seen, good)
        /\ \A d \in D : d < f.n /\ \A k \in good : d < k /\ k < f.n => k \in D
    BY <1>1, <1>2, <2>1, <2>2, RunHandles
  <2> QED
    BY <2>3 DEF D, seen, good, ch
<1>11. InOrder(handled'[x], sent[x])
  <2> DEFINE new == handled'[x]
  <2>1. \A i \in 1..last : nums[i] \in Done(x)
    BY DEF Done
  <2>2. \A i, j \in 1..(last + 1) : i < j => new[i] < new[j]
    <3> SUFFICES ASSUME NEW i \in 1..(last + 1), NEW j \in 1..(last + 1), i < j
                 PROVE  new[i] < new[j]
      OBVIOUS
    <3>1. i \in 1..last
      BY <1>5
    <3>2. CASE j \in 1..last
      BY <1>5, <1>7, <3>1, <3>2 DEF InOrder
    <3>3. CASE j = last + 1
      BY <1>7, <1>10, <2>1, <3>1, <3>3
    <3> QED
      BY <1>5, <3>2, <3>3
  <2>3. ASSUME NEW i \in 1..last, NEW k \in (new[i] + 1)..(new[i + 1] - 1)
        PROVE  sent[x][k] # "good"
    <3>1. CASE i \in 1..(last - 1)
      <4>1. i + 1 \in 1..last
        BY <1>5, <3>1
      <4>2. new[i] = nums[i] /\ new[i + 1] = nums[i + 1]
        BY <1>7, <4>1
      <4> QED
        BY <1>5, <2>3, <3>1, <4>2 DEF InOrder
    <3>2. CASE i = last
      <4>1. new[i] = nums[last] /\ new[i + 1] = f.n /\ last \in 1..last
        BY <1>7, <3>2
      <4>2. nums[last] \in Nat /\ nums[last] < k /\ k < f.n /\ k \in Nat
        BY <1>4, <1>5, <2>3, <4>1
      <4>3. \A d \in Done(x) : d < nums[last] \/ d = nums[last]
        <5> SUFFICES ASSUME NEW j \in 1..last PROVE nums[j] < nums[last] \/ nums[j] = nums[last]
          BY DEF Done
        <5>1. j < last \/ j = last
          BY <1>5
        <5> QED
          BY <1>5, <4>1, <5>1 DEF InOrder
      <4>4. k \notin Done(x)
        <5>1. \A d \in Done(x) : d \in Nat
          BY <1>5 DEF Done
        <5> QED
          BY <4>2, <4>3, <5>1
      <4>5. nums[last] \in Done(x)
        BY <2>1, <4>1
      <4>6. k \notin Good(x)
        BY <1>10, <4>2, <4>4, <4>5
      <4>7. k \in 1..Len(sent[x])
        <5>1. f.n \in 1..Seen(x) /\ Seen(x) \in Nat /\ Seen(x) <= Len(sent[x]) /\ Len(sent[x]) \in Nat
          <6>1. f.n \in Done(x) \union {f.n} /\ Done(x) \union {f.n} \subseteq 1..Seen(x)
            BY <1>10 DEF Run
          <6> QED
            BY <1>4, <6>1, FlowIs
        <5> QED
          BY <4>2, <5>1
      <4> QED
        BY <4>6, <4>7 DEF Good
    <3> QED
      BY <1>5, <3>1, <3>2
  <2>4. Len(new) = last + 1 /\ (last + 1) - 1 = last
    BY <1>5, <1>7
  <2> HIDE DEF new
  <2> QED
    BY <2>2, <2>3, <2>4 DEF InOrder, new
<1>12. ASSUME NEW y \in Source
       PROVE  Run(Done(y), incoming, chan[Via(y)], y, Seen(y), Good(y))'
  <2>1. CASE y = x
    BY <1>1, <1>8, <1>9, <1>10, <2>1
  <2>2. CASE y # x
    <3> DEFINE D == Done(y)  seen == Seen(y)  good == Good(y)  ch == chan[Via(y)]
    <3>1. Run(D, incoming, ch, y, seen, good) /\ ch \in ChannelOrNone
      BY FlowIs
    <3>2. Head(incoming.buf).by # y
      BY <1>0, <2>2
    <3> HIDE DEF D, seen, good, ch
    <3>3. Run(D, Received(incoming), ch, y, seen, good)
      BY <1>1, <1>2, <3>1, <3>2, RunBesides
    <3> QED
      BY <1>1, <1>8, <2>2, <3>3 DEF D, seen, good, ch
  <2> QED
    BY <2>1, <2>2
<1>13. ASSUME NEW y \in Source PROVE InOrder(handled[y], sent[y])'
  <2>1. InOrder(handled'[y], sent[y])
    <3>1. CASE y = x
      BY <1>11, <3>1
    <3>2. CASE y # x
      BY <1>6, <3>2, FlowIs
    <3> QED
      BY <3>1, <3>2
  <2> QED
    BY <1>1, <2>1
<1>14. FlowTyped'
  BY <1>1, <1>3, <1>6 DEF Flow, FlowTyped
<1>15. /\ \A t \in Transport : Rising(chan[t])'
       /\ \A t \in Transport, y \in Source : Nums(chan[t], y)' # {} => Via(y)' = t
       /\ Rising(incoming)'
       /\ \A y \in Source : Seen(y)' <= Len(sent'[y])
  BY <1>1, <1>3, <1>8 DEF Flow, Rising, Nums
<1>16. /\ ~Starting'
       /\ incoming' # None
  BY <1>1, <1>3 DEF Starting, Clean
<1> QED
  BY <1>12, <1>13, <1>14, <1>15, <1>16 DEF Flow


(* A forwarder subscribes: nothing of its transport was on its way.        *)
LEMMA FlowSubscribe ==
    ASSUME Flow, NEW t \in Transport, NEW here, NEW next, Subscribe(t, here, next),
           here \in {"subscribe hub", "subscribe ble"}
    PROVE  Flow'
<1>1. /\ sent' = sent /\ taken' = taken /\ handled' = handled /\ incoming' = incoming
      /\ chan' = [ chan EXCEPT ![t] = Subscribed ]
      /\ main = here
  BY DEF Subscribe, Goto, clientVars
<1>2. incoming = None
  BY <1>1 DEF Flow, Starting
<1>3. /\ chan' \in [Transport -> ChannelOrNone]
      /\ chan'[t] = Subscribed
      /\ \A u \in Transport \ {t} : chan'[u] = chan[u]
  BY <1>1, AfterSubscribe DEF Flow, FlowTyped
<1>4. ASSUME NEW y \in Source
      PROVE  Run(Done(y), incoming', chan'[Via(y)], y, Seen(y), Good(y))
  <2> DEFINE D == Done(y)  seen == Seen(y)  good == Good(y)  old == chan[Via(y)]
             new == chan'[Via(y)]
  <2>1. Run(D, incoming, old, y, seen, good) /\ Via(y) \in Transport
    BY FlowIs
  <2>2. new = old \/ new = Subscribed
    BY <1>3, <2>1
  <2>3. D = {} /\ Nums(incoming, y) = {} /\ Nums(Subscribed, y) = {}
    BY <1>2, FlowIs, AfterSubscribe
  <2> HIDE DEF D, seen, good, old, new
  <2>4. Run(D, incoming, Subscribed, y, seen, good)
    BY <2>1, <2>3, RunStarts
  <2>5. Run(D, incoming, new, y, seen, good)
    BY <2>1, <2>2, <2>4
  <2> QED
    BY <1>1, <2>5 DEF D, seen, good, new
<1>5. \A u \in Transport : /\ Rising(chan'[u])
                           /\ \A y \in Source : Nums(chan'[u], y) \subseteq Nums(chan[u], y)
  <2> SUFFICES ASSUME NEW u \in Transport
               PROVE  /\ Rising(chan'[u])
                      /\ \A y \in Source : Nums(chan'[u], y) \subseteq Nums(chan[u], y)
    OBVIOUS
  <2>1. CASE u = t
    BY <1>3, <2>1, AfterSubscribe
  <2>2. CASE u # t
    BY <1>3, <2>2 DEF Flow
  <2> QED
    BY <2>1, <2>2
<1>6. incoming' \in ChannelOrNone /\ Rising(incoming')
  BY <1>1 DEF Flow, FlowTyped
<1> QED
  BY <1>1, <1>2, <1>3, <1>4, <1>5, <1>6, FlowInside

(* Main subscribes: it has handled nothing, and nothing waits for it.      *)
LEMMA FlowSubscribeMain ==
    ASSUME Flow, SubscribeMain
    PROVE  Flow'
<1>1. /\ sent' = sent /\ taken' = taken /\ handled' = handled /\ chan' = chan
      /\ incoming' = Subscribed
      /\ main = "subscribe" /\ main' = "select"
  BY DEF SubscribeMain, Goto, clientVars
<1>2. incoming = None
  BY <1>1 DEF Flow, Starting
<1>3. incoming' \in ChannelOrNone /\ Rising(incoming')
  BY <1>1, AfterSubscribe
<1>4. ASSUME NEW y \in Source
      PROVE  Run(Done(y), incoming', chan'[Via(y)], y, Seen(y), Good(y))
  <2> DEFINE D == Done(y)  seen == Seen(y)  good == Good(y)  ch == chan[Via(y)]
  <2>1. Run(D, incoming, ch, y, seen, good)
    BY FlowIs
  <2>2. D = {} /\ Nums(incoming, y) = {} /\ Nums(Subscribed, y) = {}
    BY <1>2, FlowIs, AfterSubscribe
  <2> HIDE DEF D, seen, good, ch
  <2>3. Run(D, Subscribed, ch, y, seen, good)
    BY <2>1, <2>2, RunStarts
  <2> QED
    BY <1>1, <2>3 DEF D, seen, good, ch
<1>5. ~Starting'
  BY <1>1 DEF Starting
<1>6. \A u \in Transport : /\ Rising(chan'[u])
                           /\ \A y \in Source : Nums(chan'[u], y) \subseteq Nums(chan[u], y)
  BY <1>1 DEF Flow
<1>7. chan' \in [Transport -> ChannelOrNone]
  BY <1>1 DEF Flow, FlowTyped
<1> QED
  BY <1>1, <1>2, <1>3, <1>4, <1>5, <1>6, <1>7, FlowInside

(* Every other step leaves the frames where they are.                      *)
LEMMA FlowCalm ==
    ASSUME Flow, incoming' = incoming, chan' = chan, sent' = sent, taken' = taken,
           handled' = handled, Starting' => Starting
    PROVE  Flow'
<1>1. /\ incoming' \in ChannelOrNone /\ chan' \in [Transport -> ChannelOrNone]
      /\ Rising(incoming')
      /\ Starting' => incoming' = None
      /\ \A t \in Transport : /\ Rising(chan'[t])
                              /\ \A y \in Source : Nums(chan'[t], y) \subseteq Nums(chan[t], y)
  BY DEF Flow, FlowTyped
<1>2. \A y \in Source : Run(Done(y), incoming', chan'[Via(y)], y, Seen(y), Good(y))
  BY DEF Flow
<1> QED
  BY <1>1, <1>2, FlowInside

(* Flow holds in every reachable state: serve.rs's two channels and the    *)
(* tasks between them keep the frames of each source in line.              *)
THEOREM FlowHolds == Spec => []Flow
<1>1. Init => Flow
  <2> SUFFICES ASSUME Init PROVE Flow
    OBVIOUS
  <2>1. FlowTyped
    BY DEF Init, FlowTyped, ChannelOrNone
  <2>2. /\ \A x \in Source : /\ sent[x] = << >> /\ handled[x] = << >>
                             /\ x # "ble" => taken[x] = 0
        /\ incoming = None /\ \A t \in Transport : chan[t] = None
        /\ "ble" \in Source
    BY DEF Init, Source
  <2>3. ASSUME NEW x \in Source
        PROVE  /\ Seen(x) = 0 /\ Len(sent[x]) = 0
               /\ Done(x) = {} /\ Good(x) = {}
               /\ Via(x) \in Transport /\ InOrder(handled[x], sent[x])
    BY <2>2 DEF Seen, Done, Good, Via, Transport, InOrder
  <2>4. \A x \in Source : Run(Done(x), incoming, chan[Via(x)], x, Seen(x), Good(x))
    BY <2>2, <2>3, AfterSubscribe DEF Run
  <2> QED
    BY <2>1, <2>2, <2>3, <2>4, AfterSubscribe DEF Flow
<1>2. Flow /\ [Next]_vars => Flow'
  <2> SUFFICES ASSUME Flow, [Next]_vars PROVE Flow'
    OBVIOUS
  <2> DEFINE P == Flow'
  <2>1. /\ \A c \in Client, kind \in Kind : WriteFrame(c, kind) => P
        /\ \A c \in Client : ReadFrame(c) => P
        /\ InjectIncoming => P
        /\ \A t \in Transport : Forward(t) => P
        /\ \A relayed \in BOOLEAN : ReceiveInbound(relayed) => P
        /\ SubscribeMain => P
    BY FlowWrite, FlowRead, FlowInject, FlowForward, FlowReceive, FlowSubscribeMain
  <2>2. /\ Subscribe("hub", "subscribe hub", "start ble") => P
        /\ Subscribe("ble", "subscribe ble", "subscribe") => P
    BY FlowSubscribe DEF Transport
  <2>3. (/\ incoming' = incoming /\ chan' = chan /\ sent' = sent
         /\ taken' = taken /\ handled' = handled /\ lost' = lost
         /\ Starting' => Starting) => P
    BY FlowCalm
  <2> HIDE DEF P
  <2>4. P
    BY <2>1, <2>2, <2>3, FlowSteps
  <2> QED
    BY <2>4 DEF P
<1> QED
  BY <1>1, <1>2, PTL DEF Spec

(* From each source main handles an unbroken run of its good frames, once  *)
(* and in order, whatever the channels' capacity (serve.rs:55, :120).      *)
THEOREM UnbrokenRuns == Spec => []HandledInOrder
<1>1. Flow => HandledInOrder
  <2> SUFFICES ASSUME Flow, NEW x \in Source, NEW i \in 1..(Len(handled[x]) - 1)
               PROVE  LET m == handled[x][i]  n == handled[x][i + 1] IN
                      m < n /\ \A k \in (m + 1)..(n - 1) : sent[x][k] # "good"
    BY DEF HandledInOrder
  <2>1. handled[x] \in Seq(Nat) /\ InOrder(handled[x], sent[x])
    BY FlowIs
  <2>2. i \in 1..Len(handled[x]) /\ i + 1 \in 1..Len(handled[x]) /\ i < i + 1
    BY <2>1
  <2> QED
    BY <2>1, <2>2 DEF InOrder
<1> QED
  BY <1>1, FlowHolds, PTL

-----------------------------------------------------------------------------
(* The tasks that share write_halfs, the listener and the transports.      *)

Place == {"start", "subscribe hub", "start ble", "subscribe ble", "subscribe"}
         \union {"select", "deaf", "relay", "stopped"}
         \union {"stop hub", "drop listener", "clear", "stop ble", "leave"}

Progress == [ at : {"idle", "hub", "write", "ble", "push"}, todo : Seq(Client), kept : Seq(Client) ]

Writing(s) == snd[s].at = "write"

(* Each element is there once.                                             *)
Once(s) == \A i, j \in 1..Len(s) : s[i] = s[j] => i = j

Within(s, t) == \A i \in 1..Len(s) : \E j \in 1..Len(t) : s[i] = t[j]

Apart(s, t) == \A i \in 1..Len(s), j \in 1..Len(t) : s[i] # t[j]

(* main waits for its own send; one task at a time holds write_halfs.      *)
Tasks ==
    /\ main \in Place
    /\ snd \in [Sender -> Progress]
    /\ main = "relay" <=> snd["main"].at # "idle"
    /\ ~(Writing("main") /\ Writing("announcer"))

(* A client's write half is there once, from the time its handler put it   *)
(* there.                                                                  *)
Halves ==
    /\ halves \in Seq(Client)
    /\ Once(halves)
    /\ handler \in [Client -> {"none", "accepted", "reading", "ended"}]
    /\ \A i \in 1..Len(halves) : handler[halves[i]] \in {"reading", "ended"}

(* What a writer has yet to write to, and what it keeps, are of write_halfs*)
(* and apart.                                                              *)
WriterOf(s) ==
    Writing(s) =>
        /\ Once(snd[s].todo) /\ Once(snd[s].kept)
        /\ Apart(snd[s].todo, snd[s].kept)
        /\ Within(snd[s].todo, halves) /\ Within(snd[s].kept, halves)

Writers == \A s \in Sender : WriterOf(s)

(* Once the listener is dropped nobody is accepted; once the halves are    *)
(* cleared only who was accepted before can come back.                     *)
Closed ==
    /\ main \in {"clear", "stop ble", "leave", "stopped"} => ~bound /\ acceptor # "accepting"
    /\ main \in {"stop ble", "leave", "stopped"} =>
         /\ \A c \in Client : handler[c] = "accepted" => c \in strays
         /\ \A i \in 1..Len(halves) : halves[i] \in strays

(* A push is late only if it was decided before the stop, and one is.      *)
Lateness ==
    /\ late \in Nat
    /\ Starting => snd["announcer"].at = "idle"
    /\ \/ started /\ late = 0 /\ main \notin {"start", "subscribe hub", "start ble", "leave", "stopped"}
       \/ ~started /\ late = 0 /\ main \in {"start", "subscribe hub", "start ble"}
       \/ /\ ~started /\ main \in {"leave", "stopped"}
          /\ late = 0 \/ (late = 1 /\ snd["announcer"].at # "push")

Order == Tasks /\ Halves /\ Writers /\ Closed /\ Lateness

(* The shapes of a sender's progress.                                      *)
LEMMA ProgressIs ==
    /\ Quiet = [ at |-> "idle", todo |-> << >>, kept |-> << >> ]
    /\ Quiet \in Progress
    /\ \A p \in {"idle", "hub", "write", "ble", "push"} :
          At(p) = [ at |-> p, todo |-> << >>, kept |-> << >> ] /\ At(p) \in Progress
    /\ \A t \in Seq(Client) :
          /\ [ At("write") EXCEPT !.todo = t ] = [ at |-> "write", todo |-> t, kept |-> << >> ]
          /\ [ At("write") EXCEPT !.todo = t ] \in Progress
    /\ \A q \in Progress : /\ q.todo \in Seq(Client) /\ q.kept \in Seq(Client)
                           /\ q = [ at |-> q.at, todo |-> q.todo, kept |-> q.kept ]
<1>1. /\ Quiet = [ at |-> "idle", todo |-> << >>, kept |-> << >> ]
      /\ << >> \in Seq(Client)
  BY DEF Quiet
<1>2. \A p : At(p) = [ at |-> p, todo |-> << >>, kept |-> << >> ]
  BY <1>1 DEF At
<1>3. \A t : [ At("write") EXCEPT !.todo = t ] = [ at |-> "write", todo |-> t, kept |-> << >> ]
  BY <1>2
<1>4. \A p \in {"idle", "hub", "write", "ble", "push"}, t, k \in Seq(Client) :
         [ at |-> p, todo |-> t, kept |-> k ] \in Progress
  BY DEF Progress
<1>5. Quiet \in Progress /\ \A p \in {"idle", "hub", "write", "ble", "push"} : At(p) \in Progress
  BY <1>1, <1>2, <1>4
<1>6. ASSUME NEW t \in Seq(Client) PROVE [ At("write") EXCEPT !.todo = t ] \in Progress
  <2>1. [ at |-> "write", todo |-> t, kept |-> << >> ] \in Progress
    BY <1>1, <1>4
  <2> QED
    BY <1>3, <2>1
<1>7. \A q \in Progress : /\ q.todo \in Seq(Client) /\ q.kept \in Seq(Client)
                           /\ q = [ at |-> q.at, todo |-> q.todo, kept |-> q.kept ]
  BY DEF Progress
<1> QED
  BY <1>1, <1>2, <1>3, <1>5, <1>6, <1>7

(* main and announcer: the other one.                                      *)
LEMMA SendersAre == Sender = {"main", "announcer"} /\ "main" # "announcer"
BY DEF Sender

(* Transport::send enters the hub: with the list of halves, or past it.    *)
LEMMA SendHubDoes ==
    ASSUME snd \in [Sender -> Progress], halves \in Seq(Client), NEW s \in Sender, SendHub(s)
    PROVE  /\ snd' \in [Sender -> Progress]
           /\ \A r \in Sender \ {s} : snd'[r] = snd[r]
           /\ snd[s].at = "hub" /\ ~HalvesLocked /\ main # "stopped"
           /\ \/ snd'[s] = At("ble") /\ snd'[s].at = "ble"
              \/ snd'[s].at = "write" /\ snd'[s].todo = halves /\ snd'[s].kept = << >>
<1>1. snd[s].at = "hub" /\ ~HalvesLocked /\ main # "stopped"
  BY DEF SendHub, Running
<1>2. CASE halves = << >>
  <2>1. snd' = [ snd EXCEPT ![s] = At("ble") ]
    BY <1>2 DEF SendHub
  <2> QED
    BY <1>1, <2>1, ProgressIs
<1>3. CASE halves # << >>
  <2> DEFINE w == [ At("write") EXCEPT !.todo = halves ]
  <2>1. snd' = [ snd EXCEPT ![s] = w ]
    BY <1>3 DEF SendHub
  <2>2. w \in Progress /\ w.at = "write" /\ w.todo = halves /\ w.kept = << >>
    BY ProgressIs
  <2> HIDE DEF w
  <2> QED
    BY <1>1, <2>1, <2>2
<1> QED
  BY <1>2, <1>3

(* A write takes the first half that is left, and keeps it or not.         *)
LEMMA WriteHalfDoes ==
    ASSUME snd \in [Sender -> Progress], NEW s \in Sender, WriteHalf(s)
    PROVE  /\ snd' \in [Sender -> Progress]
           /\ \A r \in Sender \ {s} : snd'[r] = snd[r]
           /\ snd[s].at = "write" /\ snd'[s].at = "write" /\ main # "stopped"
           /\ snd[s].todo \in Seq(Client) /\ snd[s].todo # << >> /\ snd[s].kept \in Seq(Client)
           /\ snd'[s].todo = Tail(snd[s].todo)
           /\ snd'[s].kept \in { snd[s].kept, Append(snd[s].kept, Head(snd[s].todo)) }
<1> DEFINE q == snd[s]  c == Head(q.todo)
           k == IF client[c] = "left" THEN q.kept ELSE Append(q.kept, c)
           new == [ at |-> q.at, todo |-> Tail(q.todo), kept |-> k ]
<1>1. /\ q.at = "write" /\ q.todo # << >> /\ main # "stopped"
      /\ q \in Progress /\ q.todo \in Seq(Client) /\ q.kept \in Seq(Client)
  BY ProgressIs DEF WriteHalf, Running
<1>2. Tail(q.todo) \in Seq(Client) /\ c \in Client
  BY <1>1, TailIs
<1>3. k \in Seq(Client) /\ k \in {q.kept, Append(q.kept, c)}
  BY <1>1, <1>2, AppendIs
<1>4. snd' = [ snd EXCEPT ![s] = new ]
  <2>1. snd' = [ snd EXCEPT ![s] = [ q EXCEPT !.todo = Tail(q.todo), !.kept = k ] ]
    BY DEF WriteHalf
  <2>2. q = [ at |-> q.at, todo |-> q.todo, kept |-> q.kept ]
    BY <1>1, ProgressIs
  <2>3. [ q EXCEPT !.todo = Tail(q.todo), !.kept = k ] = new
    <3> DEFINE tl == Tail(q.todo)  mid == [ q EXCEPT !.todo = tl ]
    <3>1. mid = [ at |-> q.at, todo |-> tl, kept |-> q.kept ]
      <4> HIDE DEF tl
      <4> QED
        BY <2>2
    <3>2. [ mid EXCEPT !.kept = k ] = [ at |-> q.at, todo |-> tl, kept |-> k ]
      <4> DEFINE kk == k
      <4> HIDE DEF tl, mid, kk
      <4> QED
        BY <3>1
    <3>3. [ q EXCEPT !.todo = tl, !.kept = k ] = [ mid EXCEPT !.kept = k ]
      <4> HIDE DEF tl, k
      <4> QED
        OBVIOUS
    <3> QED
      BY <3>2, <3>3
  <2> QED
    BY <2>1, <2>3
<1>5. new \in Progress /\ new.at = "write" /\ new.todo = Tail(q.todo) /\ new.kept = k
  BY <1>1, <1>2, <1>3 DEF Progress
<1> HIDE DEF new, k
<1>6. snd'[s] = new /\ (\A r \in Sender \ {s} : snd'[r] = snd[r]) /\ snd' \in [Sender -> Progress]
  BY <1>4, <1>5
<1> QED
  BY <1>1, <1>3, <1>5, <1>6

(* The rest of Transport::send.                                            *)
LEMMA TheRestDoes ==
    ASSUME snd \in [Sender -> Progress], NEW s \in Sender,
           DropFailed(s) \/ CheckStarted(s) \/ Push(s)
    PROVE  /\ snd' \in [Sender -> Progress] /\ main # "stopped"
           /\ \A r \in Sender \ {s} : snd'[r] = snd[r]
           /\ \/ /\ snd[s].at \in {"write", "ble"}
                 /\ snd'[s].at \in {"ble", "push"} /\ main' = main
                 /\ snd'[s].at = "push" => started
              \/ /\ snd[s].at \in {"ble", "push"}
                 /\ snd'[s].at = "idle"
                 /\ main' = IF s = "main" THEN "select" ELSE main
<1>1. \A p \in {"ble", "push"} : At(p) \in Progress /\ At(p).at = p
  BY ProgressIs
<1>2. Quiet \in Progress /\ Quiet.at = "idle"
  BY ProgressIs
<1>3. CASE DropFailed(s)
  <2>1. snd' = [ snd EXCEPT ![s] = At("ble") ] /\ main' = main /\ main # "stopped" /\ snd[s].at = "write"
    BY <1>3 DEF DropFailed, Running
  <2> QED
    BY <1>1, <2>1
<1>4. ASSUME Finish(s), snd[s].at \in {"ble", "push"}, main # "stopped" 
      PROVE  /\ snd' \in [Sender -> Progress]
             /\ \A r \in Sender \ {s} : snd'[r] = snd[r]
             /\ snd'[s].at = "idle"
             /\ main' = IF s = "main" THEN "select" ELSE main
  BY <1>2, <1>4 DEF Finish
<1>5. CASE CheckStarted(s) /\ started
  <2>1. snd' = [ snd EXCEPT ![s] = At("push") ] /\ main' = main /\ main # "stopped" /\ snd[s].at = "ble"
    BY <1>5 DEF CheckStarted, Running
  <2> QED
    BY <1>1, <1>5, <2>1
<1>6. CASE (CheckStarted(s) /\ ~started) \/ Push(s)
  <2>1. Finish(s) /\ main # "stopped" /\ snd[s].at \in {"ble", "push"}
    BY <1>6 DEF CheckStarted, Push, Running
  <2> QED
    BY <1>4, <2>1
<1> QED
  BY <1>3, <1>5, <1>6

(* A step of Next as those tasks see it.                                   *)
LEMMA TaskSteps ==
    ASSUME [Next]_vars,
           NEW P,
           Startup \/ Shutdown \/ GoDeaf \/ ShutDown \/ Interrupt => P,
           \A relayed \in BOOLEAN : ReceiveInbound(relayed) => P,
           Announce => P,
           \A s \in Sender : Send(s) => P,
           AcceptLoop => P,
           \A c \in Client : HandleClient(c) => P,
           UNCHANGED <<main, snd, acceptor, bound, halves, handler, strays, started, late>> => P
    PROVE  P
<1> DEFINE Calm == UNCHANGED <<main, snd, acceptor, bound, halves, handler, strays, started, late>>
<1>1. ASSUME NEW t \in Transport, Forward(t) PROVE Calm
  BY <1>1 DEF Forward, taskVars, hubVars, bleVars
<1>2. ASSUME NEW c \in Client, Connect(c) \/ ReadHub(c) \/ Leave(c) PROVE Calm
  BY <1>2 DEF Connect, ReadHub, Leave, taskVars, hubVars, bleVars
<1>3. ASSUME NEW c \in Client, NEW kind \in Kind, WriteFrame(c, kind) PROVE Calm
  BY <1>3 DEF WriteFrame, taskVars, hubVars, bleVars
<1>4. ASSUME InjectIncoming \/ DrainOutgoing PROVE Calm
  BY <1>4 DEF InjectIncoming, DrainOutgoing, taskVars, hubVars, bleVars
<1>5. ASSUME UNCHANGED vars PROVE Calm
  BY <1>5 DEF vars, taskVars, hubVars, bleVars
<1> HIDE DEF Calm
<1>6. Calm => P
  BY DEF Calm
<1>7. CASE MainLoop
  BY <1>7 DEF MainLoop
<1> QED
  BY <1>1, <1>2, <1>3, <1>4, <1>5, <1>6, <1>7 DEF Next

(* Tasks is kept.                                                          *)
LEMMA TasksKept ==
    ASSUME Tasks, halves \in Seq(Client), [Next]_vars
    PROVE  Tasks'
<1>1. snd \in [Sender -> Progress] /\ main \in Place
  BY DEF Tasks
<1>2. ASSUME Startup \/ Shutdown \/ GoDeaf \/ ShutDown \/ Interrupt PROVE Tasks'
  <2>1. snd' = snd /\ main # "relay" /\ main' # "relay" /\ main' \in Place
    BY <1>1, <1>2 DEF Startup, StartHub, Subscribe, StartBle, SubscribeMain, Shutdown, StopHub,
       DropListener, ClearHalves, StopBle, Exit, GoDeaf, ShutDown, Interrupt, Goto, Place
  <2> QED
    BY <2>1 DEF Tasks, Writing
<1>3. ASSUME NEW relayed \in BOOLEAN, ReceiveInbound(relayed) PROVE Tasks'
  <2>1. CASE relayed
    <3>1. main' = "relay" /\ snd' = [ snd EXCEPT !["main"] = At("hub") ]
      BY <1>3, <2>1 DEF ReceiveInbound
    <3>2. At("hub") \in Progress /\ At("hub").at = "hub"
      BY ProgressIs
    <3>3. snd' \in [Sender -> Progress] /\ snd'["main"].at = "hub"
      BY <1>1, <3>1, <3>2, SendersAre
    <3> QED
      BY <3>1, <3>3 DEF Tasks, Writing, Place
  <2>2. CASE ~relayed
    BY <1>3, <2>2 DEF ReceiveInbound, Tasks, Writing
  <2> QED
    BY <2>1, <2>2
<1>4. ASSUME Announce PROVE Tasks'
  <2>1. main' = main /\ snd' = [ snd EXCEPT !["announcer"] = At("hub") ]
    BY <1>4 DEF Announce
  <2>2. At("hub") \in Progress /\ At("hub").at = "hub"
    BY ProgressIs
  <2>3. /\ snd' \in [Sender -> Progress]
        /\ snd'["main"] = snd["main"] /\ snd'["announcer"].at = "hub"
    BY <1>1, <2>1, <2>2, SendersAre
  <2> QED
    BY <2>1, <2>3 DEF Tasks, Writing
<1>5. ASSUME NEW s \in Sender, Send(s) PROVE Tasks'
  <2>1. CASE SendHub(s)
    <3>1. /\ snd' \in [Sender -> Progress]
          /\ \A r \in Sender \ {s} : snd'[r] = snd[r]
          /\ snd[s].at = "hub" /\ ~HalvesLocked
          /\ snd'[s].at \in {"ble", "write"}
      BY <1>1, <2>1, SendHubDoes
    <3>2. main' = main
      BY <2>1 DEF SendHub
    <3>3. \A r \in Sender : snd[r].at # "write"
      BY <3>1 DEF HalvesLocked
    <3> QED
      BY <3>1, <3>2, <3>3, SendersAre DEF Tasks, Writing
  <2>2. CASE WriteHalf(s)
    <3>1. /\ snd' \in [Sender -> Progress]
          /\ \A r \in Sender \ {s} : snd'[r] = snd[r]
          /\ snd[s].at = "write" /\ snd'[s].at = "write"
      BY <1>1, <2>2, WriteHalfDoes
    <3>2. main' = main
      BY <2>2 DEF WriteHalf
    <3> QED
      BY <3>1, <3>2, SendersAre DEF Tasks, Writing
  <2>3. CASE DropFailed(s) \/ CheckStarted(s) \/ Push(s)
    <3>1. /\ snd' \in [Sender -> Progress]
          /\ \A r \in Sender \ {s} : snd'[r] = snd[r]
          /\ \/ /\ snd[s].at \in {"write", "ble"}
                /\ snd'[s].at \in {"ble", "push"} /\ main' = main
             \/ /\ snd[s].at \in {"ble", "push"}
                /\ snd'[s].at = "idle"
                /\ main' = IF s = "main" THEN "select" ELSE main
      BY <1>1, <2>3, TheRestDoes
    <3>2. main' \in Place
      BY <1>1, <3>1 DEF Place
    <3>3. CASE s = "main"
      BY <3>1, <3>2, <3>3, SendersAre DEF Tasks, Writing
    <3>4. CASE s = "announcer"
      BY <3>1, <3>2, <3>4, SendersAre DEF Tasks, Writing
    <3> QED
      BY <3>3, <3>4, SendersAre
  <2> QED
    BY <1>5, <2>1, <2>2, <2>3 DEF Send
<1>6. ASSUME AcceptLoop \/ \E c \in Client : HandleClient(c) PROVE Tasks'
  <2>1. main' = main /\ snd' = snd
    BY <1>6 DEF AcceptLoop, AwaitConnection, Accept, AcceptorEnds, HandleClient, Register,
       ReadFrame, EndOfFile, taskVars
  <2> QED
    BY <2>1 DEF Tasks, Writing
<1>7. ASSUME UNCHANGED <<main, snd, acceptor, bound, halves, handler, strays, started, late>>
      PROVE  Tasks'
  BY <1>7 DEF Tasks, Writing
<1> DEFINE Goal == Tasks'
<1>8. /\ Startup \/ Shutdown \/ GoDeaf \/ ShutDown \/ Interrupt => Goal
      /\ \A relayed \in BOOLEAN : ReceiveInbound(relayed) => Goal
      /\ Announce => Goal
      /\ \A s \in Sender : Send(s) => Goal
      /\ AcceptLoop => Goal
      /\ \A c \in Client : HandleClient(c) => Goal
      /\ UNCHANGED <<main, snd, acceptor, bound, halves, handler, strays, started, late>> => Goal
  BY <1>2, <1>3, <1>4, <1>5, <1>6, <1>7
<1> HIDE DEF Goal
<1>9. Goal
  BY <1>8, TaskSteps
<1> QED
  BY <1>9 DEF Goal

(* No element is there twice, in an empty list and in itself.              *)
LEMMA EmptyAndItself ==
    /\ Once(<< >>)
    /\ \A t : Within(<< >>, t) /\ Apart(t, << >>) /\ Apart(<< >>, t) /\ Within(t, t)
<1>1. 1..Len(<< >>) = {}
  OBVIOUS
<1> QED
  BY <1>1 DEF Once, Within, Apart

(* A list without its first element.                                       *)
LEMMA TailKeeps ==
    ASSUME NEW S, NEW s \in Seq(S), s # << >>, Once(s)
    PROVE  /\ Once(Tail(s))
           /\ \A t : Within(s, t) => Within(Tail(s), t) /\ \E j \in 1..Len(t) : Head(s) = t[j]
           /\ \A t : Apart(s, t) => Apart(Tail(s), t) /\ \A j \in 1..Len(t) : Head(s) # t[j]
           /\ \A i \in 1..Len(Tail(s)) : Tail(s)[i] # Head(s)
<1>1. /\ Len(s) \in Nat \ {0} /\ Head(s) = s[1]
      /\ Len(Tail(s)) = Len(s) - 1
      /\ \A i \in 1..(Len(s) - 1) : Tail(s)[i] = s[i + 1]
  BY TailIs
<1> DEFINE rest == Tail(s)  h == Head(s)
<1>2. /\ \A i \in 1..Len(rest) : i + 1 \in 1..Len(s) /\ i + 1 # 1 /\ rest[i] = s[i + 1]
      /\ 1 \in 1..Len(s) /\ h = s[1]
  BY <1>1
<1>3. Len(rest) \in Nat
  BY <1>1
<1> HIDE DEF rest, h
<1>4. Once(rest)
  <2> SUFFICES ASSUME NEW i \in 1..Len(rest), NEW j \in 1..Len(rest), rest[i] = rest[j]
               PROVE  i = j
    BY DEF Once
  <2>1. i + 1 = j + 1
    BY <1>2 DEF Once
  <2> QED
    BY <1>3, <2>1
<1>5. \A i \in 1..Len(rest) : rest[i] # h
  BY <1>2 DEF Once
<1>6. \A t : Within(s, t) => Within(rest, t) /\ \E j \in 1..Len(t) : h = t[j]
  BY <1>2 DEF Within
<1>7. \A t : Apart(s, t) => Apart(rest, t) /\ \A j \in 1..Len(t) : h # t[j]
  BY <1>2 DEF Apart
<1> QED
  BY <1>4, <1>5, <1>6, <1>7 DEF rest, h

(* A list with one more element.                                           *)
LEMMA AppendKeeps ==
    ASSUME NEW S, NEW s \in Seq(S), NEW x \in S
    PROVE  /\ Once(s) /\ (\A i \in 1..Len(s) : s[i] # x) => Once(Append(s, x))
           /\ \A t : Within(s, t) /\ (\E j \in 1..Len(t) : x = t[j]) => Within(Append(s, x), t)
           /\ \A t : Apart(t, s) /\ (\A i \in 1..Len(t) : t[i] # x) => Apart(t, Append(s, x))
<1> DEFINE new == Append(s, x)
<1>1. /\ Len(new) = Len(s) + 1 /\ Len(s) \in Nat
      /\ \A i \in 1..Len(s) : new[i] = s[i]
      /\ new[Len(s) + 1] = x
  BY AppendIs
<1> HIDE DEF new
<1>2. \A i \in 1..Len(new) : (i \in 1..Len(s) /\ new[i] = s[i]) \/ (i = Len(s) + 1 /\ new[i] = x)
  BY <1>1
<1>3. ASSUME Once(s), \A i \in 1..Len(s) : s[i] # x PROVE Once(new)
  BY <1>2, <1>3 DEF Once
<1>4. \A t : Within(s, t) /\ (\E j \in 1..Len(t) : x = t[j]) => Within(new, t)
  BY <1>2 DEF Within
<1>5. \A t : Apart(t, s) /\ (\A i \in 1..Len(t) : t[i] # x) => Apart(t, new)
  BY <1>2 DEF Apart
<1> QED
  BY <1>3, <1>4, <1>5 DEF new

(* A write keeps what is left and what is kept apart.                      *)
LEMMA WriteHalfKeeps ==
    ASSUME snd \in [Sender -> Progress], NEW s \in Sender, WriterOf(s), WriteHalf(s)
    PROVE  WriterOf(s)'
<1> DEFINE t == snd[s].todo  k == snd[s].kept  x == Head(t)
           t1 == snd'[s].todo  k1 == snd'[s].kept
<1>1. /\ Writing(s) /\ halves' = halves
      /\ t \in Seq(Client) /\ t # << >> /\ k \in Seq(Client)
      /\ t1 = Tail(t) /\ (k1 = k \/ k1 = Append(k, x))
  <2>1. halves' = halves
    BY DEF WriteHalf, hubVars
  <2> QED
    BY <2>1, WriteHalfDoes DEF Writing
<1>2. Once(t) /\ Once(k) /\ Apart(t, k) /\ Within(t, halves) /\ Within(k, halves)
  BY <1>1 DEF WriterOf
<1> HIDE DEF t, k, t1, k1
<1>3. /\ Once(t1) /\ Within(t1, halves) /\ Apart(t1, k)
      /\ \E j \in 1..Len(halves) : x = halves[j]
      /\ \A j \in 1..Len(k) : x # k[j]
      /\ \A i \in 1..Len(t1) : t1[i] # x
  BY <1>1, <1>2, TailKeeps
<1>4. x \in Client
  BY <1>1, TailIs
<1> HIDE DEF x
<1>5. Once(k1) /\ Within(k1, halves) /\ Apart(t1, k1)
  <2>1. CASE k1 = k
    BY <1>2, <1>3, <2>1
  <2>2. CASE k1 = Append(k, x)
    <3>1. \A j \in 1..Len(k) : k[j] # x
      BY <1>3
    <3>2. Once(Append(k, x)) /\ Within(Append(k, x), halves)
      BY <1>1, <1>2, <1>3, <1>4, <3>1, AppendKeeps
    <3>3. Apart(t1, Append(k, x))
      BY <1>1, <1>3, <1>4, AppendKeeps
    <3> QED
      BY <2>2, <3>2, <3>3
  <2> QED
    BY <1>1, <2>1, <2>2
<1>6. Once(t1) /\ Once(k1) /\ Apart(t1, k1) /\ Within(t1, halves') /\ Within(k1, halves')
  BY <1>1, <1>3, <1>5
<1> QED
  BY <1>6 DEF WriterOf, t1, k1, Once, Apart, Within

(* Nobody spoils the list another task is writing to: the lock lasts from  *)
(* the first write to the last.                                            *)
LEMMA WritersKept ==
    ASSUME Tasks, Halves, Writers, [Next]_vars
    PROVE  Writers'
<1>1. snd \in [Sender -> Progress] /\ halves \in Seq(Client)
  BY DEF Tasks, Halves
<1>2. \A s \in Sender : WriterOf(s)
  BY DEF Writers
<1> DEFINE Goal == \A s \in Sender : WriterOf(s)'
<1>3. ASSUME NEW s \in Sender, snd'[s] = snd[s], halves' = halves PROVE WriterOf(s)'
  BY <1>2, <1>3 DEF WriterOf, Writing, Once, Apart, Within
<1>4. ASSUME NEW s \in Sender, snd'[s].at # "write" PROVE WriterOf(s)'
  BY <1>4 DEF WriterOf, Writing
<1>5. ~HalvesLocked => \A s \in Sender : snd[s].at # "write"
  BY DEF HalvesLocked
<1>6. ASSUME Startup \/ Shutdown \/ GoDeaf \/ ShutDown \/ Interrupt PROVE Goal
  <2>1. snd' = snd /\ (halves' = halves \/ ~HalvesLocked)
    BY <1>6 DEF Startup, StartHub, Subscribe, StartBle, SubscribeMain, Shutdown, StopHub,
       DropListener, ClearHalves, StopBle, Exit, GoDeaf, ShutDown, Interrupt, Goto, hubVars
  <2> QED
    BY <1>3, <1>4, <1>5, <2>1
<1>7. ASSUME (\E relayed \in BOOLEAN : ReceiveInbound(relayed)) \/ Announce PROVE Goal
  <2>1. /\ halves' = halves
        /\ \/ snd' = snd
           \/ \E r \in Sender : snd' = [ snd EXCEPT ![r] = At("hub") ]
    BY <1>7, SendersAre DEF ReceiveInbound, Announce, hubVars
  <2>2. At("hub").at = "hub"
    BY ProgressIs
  <2>3. ASSUME NEW s \in Sender PROVE snd'[s] = snd[s] \/ snd'[s].at # "write"
    BY <1>1, <2>1, <2>2
  <2> QED
    BY <1>3, <1>4, <2>1, <2>3
<1>8. ASSUME NEW s \in Sender, Send(s) PROVE Goal
  <2>1. CASE SendHub(s)
    <3>1. /\ \A r \in Sender \ {s} : snd'[r] = snd[r]
          /\ ~HalvesLocked
          /\ \/ snd'[s].at = "ble"
             \/ snd'[s].at = "write" /\ snd'[s].todo = halves /\ snd'[s].kept = << >>
      BY <1>1, <2>1, SendHubDoes
    <3>2. halves' = halves
      BY <2>1 DEF SendHub, hubVars
    <3>3. ASSUME snd'[s].todo = halves, snd'[s].kept = << >> PROVE WriterOf(s)'
      <4> DEFINE t1 == snd'[s].todo  k1 == snd'[s].kept
      <4>1. Once(t1) /\ Once(k1) /\ Apart(t1, k1) /\ Within(t1, halves') /\ Within(k1, halves')
        BY <3>2, <3>3, EmptyAndItself DEF Halves
      <4> QED
        BY <4>1 DEF WriterOf, Once, Apart, Within
    <3>4. \A r \in Sender \ {s} : WriterOf(r)'
      BY <1>3, <3>1, <3>2
    <3>5. WriterOf(s)'
      BY <1>4, <3>1, <3>3
    <3> QED
      BY <3>4, <3>5
  <2>2. CASE WriteHalf(s)
    <3>1. \A r \in Sender \ {s} : snd'[r] = snd[r]
      BY <1>1, <2>2, WriteHalfDoes
    <3>2. halves' = halves
      BY <2>2 DEF WriteHalf, hubVars
    <3>3. \A r \in Sender \ {s} : WriterOf(r)'
      BY <1>3, <3>1, <3>2
    <3>4. WriterOf(s)'
      BY <1>1, <1>2, <2>2, WriteHalfKeeps
    <3> QED
      BY <3>3, <3>4
  <2>3. CASE DropFailed(s) \/ CheckStarted(s) \/ Push(s)
    <3>1. /\ \A r \in Sender \ {s} : snd'[r] = snd[r]
          /\ snd'[s].at # "write"
      BY <1>1, <2>3, TheRestDoes
    <3>2. halves' = halves \/ snd[s].at = "write"
      BY <2>3 DEF DropFailed, CheckStarted, Push, hubVars
    <3>3. ASSUME NEW r \in Sender \ {s}, snd[s].at = "write" PROVE snd'[r].at # "write"
      BY <3>1, <3>3, SendersAre DEF Tasks, Writing
    <3> QED
      BY <1>3, <1>4, <3>1, <3>2, <3>3
  <2> QED
    BY <1>8, <2>1, <2>2, <2>3 DEF Send
<1>9. ASSUME AcceptLoop \/ \E c \in Client : HandleClient(c) PROVE Goal
  <2>1. snd' = snd /\ (halves' = halves \/ ~HalvesLocked)
    BY <1>9 DEF AcceptLoop, AwaitConnection, Accept, AcceptorEnds, HandleClient, Register,
       ReadFrame, EndOfFile, taskVars
  <2> QED
    BY <1>3, <1>4, <1>5, <2>1
<1>10. ASSUME UNCHANGED <<main, snd, acceptor, bound, halves, handler, strays, started, late>>
       PROVE  Goal
  BY <1>3, <1>10
<1>11. /\ Startup \/ Shutdown \/ GoDeaf \/ ShutDown \/ Interrupt => Goal
       /\ \A relayed \in BOOLEAN : ReceiveInbound(relayed) => Goal
       /\ Announce => Goal
       /\ \A s \in Sender : Send(s) => Goal
       /\ AcceptLoop => Goal
       /\ \A c \in Client : HandleClient(c) => Goal
       /\ UNCHANGED <<main, snd, acceptor, bound, halves, handler, strays, started, late>> => Goal
  BY <1>6, <1>7, <1>8, <1>9, <1>10
<1> HIDE DEF Goal
<1>12. Goal
  BY <1>11, TaskSteps
<1> QED
  BY <1>12 DEF Goal, Writers

(* Write halves come one by one, and go only as a whole or as they fail.   *)
LEMMA HalvesKept ==
    ASSUME Tasks, Halves, Writers, [Next]_vars
    PROVE  Halves'
<1>1. /\ snd \in [Sender -> Progress] /\ halves \in Seq(Client)
      /\ handler \in [Client -> {"none", "accepted", "reading", "ended"}]
      /\ \A i \in 1..Len(halves) : halves[i] \in Client /\ handler[halves[i]] \in {"reading", "ended"}
  BY DEF Tasks, Halves
<1> DEFINE Goal == Halves'
<1>2. ASSUME halves' = halves \/ halves' = << >>, handler' = handler PROVE Goal
  <2>1. << >> \in Seq(Client) /\ 1..Len(<< >>) = {}
    OBVIOUS
  <2>2. CASE halves' = << >>
    BY <1>1, <1>2, <2>1, <2>2 DEF Halves, Once
  <2>3. CASE halves' = halves
    BY <1>2, <2>3 DEF Halves, Once
  <2> QED
    BY <1>2, <2>2, <2>3
<1>3. ASSUME NEW c \in Client, halves' = halves, NEW h,
             handler' = [ handler EXCEPT ![c] = h ],
             \/ handler[c] = "none" /\ h = "accepted"
             \/ handler[c] = "reading" /\ h \in {"reading", "ended"}
      PROVE  Goal
  <2>1. handler' \in [Client -> {"none", "accepted", "reading", "ended"}]
    BY <1>1, <1>3
  <2>2. \A i \in 1..Len(halves) : handler'[halves[i]] \in {"reading", "ended"}
    BY <1>1, <1>3
  <2> QED
    BY <1>3, <2>1, <2>2 DEF Halves, Once
<1>4. ASSUME Startup \/ Shutdown \/ GoDeaf \/ ShutDown \/ Interrupt PROVE Goal
  <2>1. handler' = handler /\ (halves' = halves \/ halves' = << >>)
    BY <1>4 DEF Startup, StartHub, Subscribe, StartBle, SubscribeMain, Shutdown, StopHub,
       DropListener, ClearHalves, StopBle, Exit, GoDeaf, ShutDown, Interrupt, Goto, hubVars
  <2> QED
    BY <1>2, <2>1
<1>5. ASSUME (\E relayed \in BOOLEAN : ReceiveInbound(relayed)) \/ Announce PROVE Goal
  <2>1. handler' = handler /\ halves' = halves
    BY <1>5 DEF ReceiveInbound, Announce, hubVars
  <2> QED
    BY <1>2, <2>1
<1>6. ASSUME NEW s \in Sender, Send(s) PROVE Goal
  <2>1. CASE SendHub(s) \/ WriteHalf(s) \/ CheckStarted(s) \/ Push(s)
    <3>1. handler' = handler /\ halves' = halves
      BY <2>1 DEF SendHub, WriteHalf, CheckStarted, Push, hubVars
    <3> QED
      BY <1>2, <3>1
  <2>2. CASE DropFailed(s)
    <3> DEFINE k == snd[s].kept
    <3>1. halves' = k /\ handler' = handler /\ Writing(s)
      BY <2>2 DEF DropFailed, Writing
    <3>2. k \in Seq(Client)
      BY <1>1, ProgressIs
    <3>3. Once(k) /\ Within(k, halves)
      BY <3>1 DEF Writers, WriterOf
    <3> HIDE DEF k
    <3>4. \A i \in 1..Len(k) : handler[k[i]] \in {"reading", "ended"}
      BY <1>1, <3>3 DEF Within
    <3> QED
      BY <1>1, <3>1, <3>2, <3>3, <3>4 DEF Halves, Once
  <2> QED
    BY <1>6, <2>1, <2>2 DEF Send
<1>7. ASSUME AcceptLoop PROVE Goal
  <2>1. CASE AwaitConnection \/ AcceptorEnds
    <3>1. handler' = handler /\ halves' = halves
      BY <2>1 DEF AwaitConnection, AcceptorEnds
    <3> QED
      BY <1>2, <3>1
  <2>2. ASSUME NEW c \in Client, Accept(c) PROVE Goal
    <3>1. halves' = halves /\ handler[c] = "none" /\ handler' = [ handler EXCEPT ![c] = "accepted" ]
      BY <2>2 DEF Accept
    <3> QED
      BY <1>3, <3>1
  <2> QED
    BY <1>7, <2>1, <2>2 DEF AcceptLoop
<1>8. ASSUME NEW c \in Client, HandleClient(c) PROVE Goal
  <2>1. CASE ReadFrame(c) \/ EndOfFile(c)
    <3>1. /\ halves' = halves /\ handler[c] = "reading"
          /\ \E h \in {"reading", "ended"} : handler' = [ handler EXCEPT ![c] = h ]
      BY <2>1 DEF ReadFrame, EndOfFile
    <3> QED
      BY <1>3, <3>1
  <2>2. CASE Register(c)
    <3> DEFINE new == Append(halves, c)
    <3>1. /\ halves' = new /\ handler[c] = "accepted"
          /\ handler' = [ handler EXCEPT ![c] = "reading" ]
      BY <2>2 DEF Register
    <3>2. \A i \in 1..Len(halves) : halves[i] # c
      BY <1>1, <3>1
    <3>3. new \in Seq(Client) /\ Once(new)
      BY <1>1, <3>2, AppendIs, AppendKeeps DEF Halves
    <3>4. handler' \in [Client -> {"none", "accepted", "reading", "ended"}]
      BY <1>1, <3>1
    <3>5. \A i \in 1..Len(new) : handler'[new[i]] \in {"reading", "ended"}
      <4>1. /\ Len(new) = Len(halves) + 1 /\ Len(halves) \in Nat
            /\ \A i \in 1..Len(halves) : new[i] = halves[i]
            /\ new[Len(halves) + 1] = c
        BY <1>1, AppendIs
      <4>2. handler'[c] = "reading" /\ \A i \in 1..Len(halves) : handler'[halves[i]] = handler[halves[i]]
        BY <1>1, <3>1, <3>2
      <4> HIDE DEF new
      <4>3. \A i \in 1..Len(new) : i \in 1..Len(halves) \/ i = Len(halves) + 1
        BY <4>1
      <4> QED
        BY <1>1, <4>1, <4>2, <4>3
    <3> HIDE DEF new
    <3> QED
      BY <3>1, <3>3, <3>4, <3>5 DEF Halves, Once
  <2> QED
    BY <1>8, <2>1, <2>2 DEF HandleClient
<1>9. ASSUME UNCHANGED <<main, snd, acceptor, bound, halves, handler, strays, started, late>>
      PROVE  Goal
  BY <1>2, <1>9
<1>10. /\ Startup \/ Shutdown \/ GoDeaf \/ ShutDown \/ Interrupt => Goal
       /\ \A relayed \in BOOLEAN : ReceiveInbound(relayed) => Goal
       /\ Announce => Goal
       /\ \A s \in Sender : Send(s) => Goal
       /\ AcceptLoop => Goal
       /\ \A c \in Client : HandleClient(c) => Goal
       /\ UNCHANGED <<main, snd, acceptor, bound, halves, handler, strays, started, late>> => Goal
  BY <1>4, <1>5, <1>6, <1>7, <1>8, <1>9
<1> HIDE DEF Goal
<1>11. Goal
  BY <1>10, TaskSteps
<1> QED
  BY <1>11 DEF Goal

(* After the listener is dropped nobody new is accepted, and after the     *)
(* halves are cleared none comes back but of those accepted before.        *)
LEMMA ClosedKept ==
    ASSUME Tasks, Halves, Writers, Closed, [Next]_vars
    PROVE  Closed'
<1>1. /\ snd \in [Sender -> Progress] /\ halves \in Seq(Client) /\ main \in Place
      /\ handler \in [Client -> {"none", "accepted", "reading", "ended"}]
      /\ \A i \in 1..Len(halves) : halves[i] \in Client /\ handler[halves[i]] \in {"reading", "ended"}
  BY DEF Tasks, Halves
<1> DEFINE Goal == Closed'
<1>2. ASSUME main' \notin {"clear", "stop ble", "leave", "stopped"} PROVE Goal
  BY <1>2 DEF Closed
<1>3. ASSUME Startup \/ GoDeaf \/ ShutDown \/ StopHub PROVE Goal
  <2>1. main' \notin {"clear", "stop ble", "leave", "stopped"}
    BY <1>3 DEF Startup, StartHub, Subscribe, StartBle, SubscribeMain, StopHub, GoDeaf, ShutDown, Goto
  <2> QED
    BY <1>2, <2>1
<1>4. ASSUME Interrupt PROVE Goal
  <2>1. main' \notin {"clear", "stop ble", "leave", "stopped"}
    BY <1>4 DEF Interrupt
  <2> QED
    BY <1>2, <2>1
<1>5. CASE DropListener
  <2>1. main' = "clear" /\ ~bound' /\ acceptor' = acceptor /\ acceptor # "accepting"
    BY <1>5, Zenon DEF DropListener, Goto
  <2> QED
    BY <2>1 DEF Closed
<1>6. CASE ClearHalves
  <2>1. /\ main = "clear" /\ main' = "stop ble" /\ bound' = bound /\ acceptor' = acceptor
        /\ halves' = << >> /\ handler' = handler
        /\ strays' = { c \in Client : handler[c] = "accepted" }
    BY <1>6 DEF ClearHalves, Goto
  <2>2. /\ \A i \in 1..Len(halves') : halves'[i] \in strays'
        /\ \A c \in Client : handler'[c] = "accepted" => c \in strays'
    <3>1. 1..Len(<< >>) = {}
      OBVIOUS
    <3>2. 1..Len(halves') = {}
      BY <2>1, <3>1
    <3> QED
      BY <2>1, <3>2
  <2>3. ~bound' /\ acceptor' # "accepting"
    BY <2>1 DEF Closed
  <2> QED
    BY <2>2, <2>3 DEF Closed
<1>7. CASE StopBle \/ Exit
  <2>1. /\ main \in {"stop ble", "leave"}
        /\ acceptor' = acceptor /\ bound' = bound /\ halves' = halves /\ handler' = handler
        /\ strays' = strays
    BY <1>7 DEF StopBle, Exit, Goto, hubVars
  <2> QED
    BY <2>1 DEF Closed
<1>8. ASSUME main' = main, bound' = bound, acceptor' = acceptor \/ (~bound => acceptor' = "ended"),
             strays' = strays,
             main \in {"stop ble", "leave", "stopped"} =>
                /\ \A c \in Client : handler'[c] = "accepted" => c \in strays
                /\ \A i \in 1..Len(halves') : halves'[i] \in strays
      PROVE  Goal
  BY <1>8 DEF Closed
<1>9. ASSUME (\E relayed \in BOOLEAN : ReceiveInbound(relayed)) \/ Announce PROVE Goal
  <2>1. \/ main' \in {"select", "relay"}
        \/ main' = main /\ UNCHANGED <<acceptor, bound, halves, handler, strays>>
    BY <1>9 DEF ReceiveInbound, Announce, hubVars
  <2> QED
    BY <1>2, <1>8, <2>1 DEF Closed
<1>10. ASSUME NEW s \in Sender, Send(s) PROVE Goal
  <2>1. UNCHANGED <<acceptor, bound, handler, strays>> /\ (main' = "select" \/ main' = main)
    BY <1>10 DEF Send, SendHub, WriteHalf, DropFailed, CheckStarted, Push, Finish, hubVars
  <2>2. \/ halves' = halves
        \/ Writing(s) /\ halves' = snd[s].kept
    BY <1>10 DEF Send, SendHub, WriteHalf, DropFailed, CheckStarted, Push, hubVars, Writing
  <2>3. Writing(s) => Within(snd[s].kept, halves)
    BY DEF Writers, WriterOf
  <2>4. main \in {"stop ble", "leave", "stopped"} => \A i \in 1..Len(halves') : halves'[i] \in strays
    BY <2>2, <2>3 DEF Within, Closed
  <2> QED
    BY <1>2, <1>8, <2>1, <2>4 DEF Closed
<1>11. ASSUME AcceptLoop PROVE Goal
  <2>1. CASE AwaitConnection \/ AcceptorEnds
    BY <1>8, <2>1 DEF AwaitConnection, AcceptorEnds, taskVars, Closed
  <2>2. ASSUME NEW c \in Client, Accept(c) PROVE Goal
    <3>1. main' = main /\ acceptor = "accepting"
      BY <2>2 DEF Accept, taskVars
    <3>2. main \notin {"clear", "stop ble", "leave", "stopped"}
      BY <3>1 DEF Closed
    <3> QED
      BY <1>2, <3>1, <3>2
  <2> QED
    BY <1>11, <2>1, <2>2 DEF AcceptLoop
<1>12. ASSUME NEW c \in Client, HandleClient(c) PROVE Goal
  <2>1. /\ main' = main /\ bound' = bound /\ acceptor' = acceptor /\ strays' = strays
        /\ \E h \in {"reading", "ended"} : handler' = [ handler EXCEPT ![c] = h ]
    BY <1>12 DEF HandleClient, Register, ReadFrame, EndOfFile, taskVars
  <2>2. \A d \in Client : handler'[d] = "accepted" => handler[d] = "accepted"
    BY <1>1, <2>1
  <2>3. \/ halves' = halves
        \/ halves' = Append(halves, c) /\ handler[c] = "accepted"
    BY <1>12 DEF HandleClient, Register, ReadFrame, EndOfFile
  <2>4. ASSUME main \in {"stop ble", "leave", "stopped"}
        PROVE  \A i \in 1..Len(halves') : halves'[i] \in strays
    <3>1. \A i \in 1..Len(halves) : halves[i] \in strays
      BY <2>4 DEF Closed
    <3>2. ASSUME halves' = Append(halves, c), c \in strays
          PROVE  \A i \in 1..Len(halves') : halves'[i] \in strays
      <4> DEFINE new == Append(halves, c)
      <4>1. /\ Len(new) = Len(halves) + 1 /\ Len(halves) \in Nat
            /\ \A i \in 1..Len(halves) : new[i] = halves[i]
            /\ new[Len(halves) + 1] = c
        BY <1>1, AppendIs
      <4> HIDE DEF new
      <4>2. \A i \in 1..Len(new) : new[i] \in strays
        <5>1. \A i \in 1..Len(new) : i \in 1..Len(halves) \/ i = Len(halves) + 1
          BY <4>1
        <5> QED
          BY <3>1, <3>2, <4>1, <5>1
      <4> QED
        BY <3>2, <4>2 DEF new
    <3>3. handler[c] = "accepted" => c \in strays
      BY <2>4 DEF Closed
    <3> QED
      BY <2>3, <3>1, <3>2, <3>3
  <2> QED
    BY <1>8, <2>1, <2>2, <2>4 DEF Closed
<1>13. ASSUME UNCHANGED <<main, snd, acceptor, bound, halves, handler, strays, started, late>>
       PROVE  Goal
  BY <1>8, <1>13 DEF Closed
<1>14. ASSUME Startup \/ Shutdown \/ GoDeaf \/ ShutDown \/ Interrupt PROVE Goal
  BY <1>3, <1>4, <1>5, <1>6, <1>7, <1>14 DEF Shutdown
<1>15. /\ Startup \/ Shutdown \/ GoDeaf \/ ShutDown \/ Interrupt => Goal
       /\ \A relayed \in BOOLEAN : ReceiveInbound(relayed) => Goal
       /\ Announce => Goal
       /\ \A s \in Sender : Send(s) => Goal
       /\ AcceptLoop => Goal
       /\ \A c \in Client : HandleClient(c) => Goal
       /\ UNCHANGED <<main, snd, acceptor, bound, halves, handler, strays, started, late>> => Goal
  BY <1>9, <1>10, <1>11, <1>12, <1>13, <1>14
<1> HIDE DEF Goal
<1>16. Goal
  BY <1>15, TaskSteps
<1> QED
  BY <1>16 DEF Goal

(* A push is late only once: what the announce task looked up before the   *)
(* stop.                                                                   *)
LEMMA LatenessKept ==
    ASSUME Tasks, Halves, Lateness, [Next]_vars
    PROVE  Lateness'
<1>1. /\ snd \in [Sender -> Progress] /\ main \in Place
      /\ main = "relay" <=> snd["main"].at # "idle"
      /\ "main" \in Sender /\ "announcer" \in Sender
  BY SendersAre DEF Tasks
<1> DEFINE Goal == Lateness'
           who == snd["announcer"].at
<1>2. ASSUME late' = late, started' = started, snd'["announcer"].at = who, main' = main PROVE Goal
  BY <1>2 DEF Lateness, Starting
<1>3. ASSUME Startup PROVE Goal
  <2>1. CASE StartHub \/ Subscribe("hub", "subscribe hub", "start ble")
    <3>1. /\ late' = late /\ started' = started /\ snd' = snd
          /\ main \in {"start", "subscribe hub"} /\ main' \in {"subscribe hub", "start ble"}
      BY <2>1 DEF StartHub, Subscribe, Goto, bleVars
    <3> QED
      BY <3>1 DEF Lateness, Starting
  <2>2. CASE StartBle
    <3>1. late' = late /\ started' /\ snd' = snd /\ main = "start ble" /\ main' = "subscribe ble"
      BY <2>2, Zenon DEF StartBle, Goto
    <3> QED
      BY <3>1 DEF Lateness, Starting
  <2>3. CASE Subscribe("ble", "subscribe ble", "subscribe") \/ SubscribeMain
    <3>1. /\ late' = late /\ started' = started /\ snd' = snd
          /\ main \in {"subscribe ble", "subscribe"} /\ main' \in {"subscribe", "select"}
      BY <2>3 DEF Subscribe, SubscribeMain, Goto, bleVars
    <3> QED
      BY <3>1 DEF Lateness, Starting
  <2> QED
    BY <1>3, <2>1, <2>2, <2>3 DEF Startup
<1>4. ASSUME Shutdown PROVE Goal
  <2>1. CASE StopHub \/ DropListener \/ ClearHalves
    <3>1. /\ late' = late /\ started' = started /\ snd' = snd
          /\ main \in {"stop hub", "drop listener", "clear"}
          /\ main' \in {"drop listener", "clear", "stop ble"}
      BY <2>1 DEF StopHub, DropListener, ClearHalves, Goto, bleVars
    <3> QED
      BY <3>1 DEF Lateness, Starting
  <2>2. CASE StopBle
    <3>1. late' = late /\ ~started' /\ snd' = snd /\ main = "stop ble" /\ main' = "leave"
      BY <2>2, Zenon DEF StopBle, Goto
    <3> QED
      BY <3>1 DEF Lateness, Starting
  <2>3. CASE Exit
    <3>1. late' = late /\ started' = started /\ snd' = snd /\ main = "leave" /\ main' = "stopped"
      BY <2>3 DEF Exit, Goto, bleVars
    <3> QED
      BY <3>1 DEF Lateness, Starting
  <2> QED
    BY <1>4, <2>1, <2>2, <2>3 DEF Shutdown
<1>5. ASSUME GoDeaf \/ ShutDown \/ Interrupt PROVE Goal
  <2>1. /\ late' = late /\ started' = started /\ snd' = snd
        /\ main \in {"select", "deaf"} /\ main' \in {"select", "deaf", "stop hub"}
    BY <1>5 DEF GoDeaf, ShutDown, Interrupt, bleVars
  <2> QED
    BY <2>1 DEF Lateness, Starting
<1>6. ASSUME NEW relayed \in BOOLEAN, ReceiveInbound(relayed) PROVE Goal
  <2>1. /\ late' = late /\ started' = started
        /\ main = "select" /\ main' \in {"select", "relay"}
    BY <1>6 DEF ReceiveInbound, bleVars
  <2> QED
    BY <2>1 DEF Lateness, Starting
<1>7. ASSUME Announce PROVE Goal
  <2>1. /\ late' = late /\ started' = started /\ main' = main
        /\ snd' = [ snd EXCEPT !["announcer"] = At("hub") ]
        /\ ~Starting /\ main # "stopped"
    BY <1>7 DEF Announce, bleVars, Starting
  <2>2. snd'["announcer"].at = "hub"
    <3>1. At("hub").at = "hub"
      BY ProgressIs
    <3> QED
      BY <1>1, <2>1, <3>1
  <2> QED
    BY <2>1, <2>2 DEF Lateness, Starting
<1>8. ASSUME NEW s \in Sender, Send(s) PROVE Goal
  <2>1. snd[s].at # "idle" /\ main # "stopped"
    BY <1>8 DEF Send, SendHub, WriteHalf, DropFailed, CheckStarted, Push, Running
  <2>2. s = "main" \/ s = "announcer"
    BY SendersAre
  <2>3. ~Starting
    BY <1>1, <2>1, <2>2 DEF Lateness, Starting
  <2>4. CASE SendHub(s) \/ WriteHalf(s)
    <3>1. /\ late' = late /\ started' = started /\ main' = main
      BY <2>4 DEF SendHub, WriteHalf, bleVars
    <3>2. snd'["announcer"].at = who \/ snd'["announcer"].at \in {"ble", "write"}
      <4>1. /\ \A r \in Sender \ {s} : snd'[r] = snd[r]
            /\ snd'[s].at \in {"ble", "write"}
        BY <1>1, <2>4, SendHubDoes, WriteHalfDoes DEF Halves
      <4> QED
        BY <1>1, <4>1
    <3> QED
      BY <2>3, <3>1, <3>2 DEF Lateness, Starting
  <2>5. CASE DropFailed(s) \/ CheckStarted(s) \/ Push(s)
    <3>1. /\ \A r \in Sender \ {s} : snd'[r] = snd[r]
          /\ started' = started
          /\ \/ /\ snd'[s].at \in {"ble", "push"} /\ main' = main
                /\ snd'[s].at = "push" => started
             \/ /\ snd'[s].at = "idle"
                /\ main' = IF s = "main" THEN "select" ELSE main
      <4>1. started' = started
        BY <2>5 DEF DropFailed, CheckStarted, Push, bleVars
      <4> QED
        BY <1>1, <2>5, <4>1, TheRestDoes
    <3>2. late' = late \/ (Push(s) /\ ~started /\ late' = late + 1)
      BY <2>5 DEF DropFailed, CheckStarted, Push, bleVars
    <3>3. Push(s) => snd[s].at = "push" /\ snd'[s].at = "idle"
      <4> SUFFICES ASSUME Push(s) PROVE snd[s].at = "push" /\ snd'[s].at = "idle"
        OBVIOUS
      <4>1. snd[s].at = "push" /\ snd' = [ snd EXCEPT ![s] = Quiet ]
        BY DEF Push, Finish
      <4>2. Quiet.at = "idle"
        BY ProgressIs
      <4> QED
        BY <1>1, <4>1, <4>2
    <3>4. CASE s = "main"
      <4>1. main = "relay" /\ started /\ late = 0
        BY <1>1, <2>1, <3>4 DEF Lateness
      <4>2. late' = late /\ main' \in {"relay", "select"} /\ snd'["announcer"] = snd["announcer"]
        BY <1>1, <3>1, <3>2, <3>4, <4>1, SendersAre
      <4> QED
        BY <3>1, <4>1, <4>2 DEF Lateness, Starting
    <3>5. CASE s = "announcer"
      <4>1. main' = main
        BY <3>1, <3>5, SendersAre
      <4>2. CASE started
        <5>1. late' = late /\ late = 0 /\ main \notin {"start", "subscribe hub", "start ble", "leave", "stopped"}
          BY <3>2, <4>2 DEF Lateness
        <5> QED
          BY <2>3, <3>1, <4>1, <4>2, <5>1 DEF Lateness, Starting
      <4>3. CASE ~started
        <5>1. main \in {"leave", "stopped"} /\ (late = 0 \/ (late = 1 /\ who # "push"))
          BY <2>3, <4>3 DEF Lateness, Starting
        <5>2. snd'["announcer"].at # "push"
          BY <3>1, <3>5, <4>3
        <5>3. late' \in {0, 1}
          <6>1. Push(s) => late = 0
            BY <3>3, <3>5, <5>1
          <6> QED
            BY <3>2, <5>1, <6>1
        <5>4. ~started'
          BY <3>1, <4>3
        <5>5. late' \in Nat /\ (late' = 0 \/ late' = 1)
          BY <5>3
        <5>6. ~Starting'
          BY <2>3, <4>1 DEF Starting
        <5>7. main' \in {"leave", "stopped"}
          BY <4>1, <5>1
        <5> QED
          BY <5>2, <5>4, <5>5, <5>6, <5>7, Zenon DEF Lateness
      <4> QED
        BY <4>2, <4>3
    <3> QED
      BY <2>2, <3>4, <3>5
  <2> QED
    BY <1>8, <2>4, <2>5 DEF Send
<1>9. ASSUME AcceptLoop \/ \E c \in Client : HandleClient(c) PROVE Goal
  <2>1. main' = main /\ snd' = snd /\ late' = late /\ started' = started
    BY <1>9 DEF AcceptLoop, AwaitConnection, Accept, AcceptorEnds, HandleClient, Register,
       ReadFrame, EndOfFile, taskVars, bleVars
  <2> QED
    BY <1>2, <2>1
<1>10. ASSUME UNCHANGED <<main, snd, acceptor, bound, halves, handler, strays, started, late>>
       PROVE  Goal
  BY <1>2, <1>10
<1>11. /\ Startup \/ Shutdown \/ GoDeaf \/ ShutDown \/ Interrupt => Goal
       /\ \A relayed \in BOOLEAN : ReceiveInbound(relayed) => Goal
       /\ Announce => Goal
       /\ \A s \in Sender : Send(s) => Goal
       /\ AcceptLoop => Goal
       /\ \A c \in Client : HandleClient(c) => Goal
       /\ UNCHANGED <<main, snd, acceptor, bound, halves, handler, strays, started, late>> => Goal
  BY <1>3, <1>4, <1>5, <1>6, <1>7, <1>8, <1>9, <1>10
<1> HIDE DEF Goal
<1>12. Goal
  BY <1>11, TaskSteps
<1> QED
  BY <1>12 DEF Goal

(* Order holds in every reachable state.                                   *)
THEOREM OrderHolds == Spec => []Order
<1>1. Init => Order
  <2> SUFFICES ASSUME Init PROVE Order
    OBVIOUS
  <2>1. \A s \in Sender : snd[s] = Quiet
    BY DEF Init
  <2>2. Quiet \in Progress /\ Quiet.at = "idle"
    BY ProgressIs
  <2>3. snd \in [Sender -> Progress] /\ \A s \in Sender : snd[s].at = "idle"
    BY <2>1, <2>2 DEF Init
  <2>4. Tasks
    BY <2>3, SendersAre DEF Init, Tasks, Place, Writing
  <2>5. halves = << >> /\ << >> \in Seq(Client) /\ 1..Len(<< >>) = {}
    BY DEF Init
  <2>6. Halves
    BY <2>5, EmptyAndItself DEF Init, Halves
  <2>7. Writers
    BY <2>3 DEF Writers, WriterOf, Writing
  <2>8. Closed
    BY DEF Init, Closed
  <2>9. Lateness
    <3>1. main = "start" /\ late = 0 /\ ~started
      BY Zenon DEF Init
    <3> QED
      BY <2>3, <3>1, SendersAre DEF Lateness, Starting
  <2> QED
    BY <2>4, <2>6, <2>7, <2>8, <2>9 DEF Order
<1>2. Order /\ [Next]_vars => Order'
  <2> SUFFICES ASSUME Order, [Next]_vars PROVE Order'
    OBVIOUS
  <2>1. Tasks /\ Halves /\ Writers /\ Closed /\ Lateness /\ halves \in Seq(Client)
    BY DEF Order, Halves
  <2>2. Tasks' /\ Halves' /\ Writers' /\ Closed' /\ Lateness'
    BY <2>1, TasksKept, HalvesKept, WritersKept, ClosedKept, LatenessKept
  <2> QED
    BY <2>2 DEF Order
<1> QED
  BY <1>1, <1>2, PTL DEF Spec

(* After BLE's stop at most one envelope is queued (ble.rs:75), for any    *)
(* number of announcements.                                                *)
THEOREM LateOnce == Spec => []LateAtMostOnce
<1>1. Order => LateAtMostOnce
  <2> SUFFICES ASSUME Order PROVE LateAtMostOnce
    OBVIOUS
  <2>1. late = 0 \/ late = 1
    BY Zenon DEF Order, Lateness
  <2> QED
    BY <2>1 DEF LateAtMostOnce
<1> QED
  BY <1>1, OrderHolds, PTL

(* A list of members of T.                                                 *)
LEMMA ListedIn ==
    ASSUME NEW S, NEW T, NEW s \in Seq(S), \A i \in 1..Len(s) : s[i] \in T
    PROVE  ToSet(s) \subseteq T
<1>1. DOMAIN s = 1..Len(s)
  OBVIOUS
<1> QED
  BY <1>1 DEF ToSet

(* After the hub's stop only clients accepted before it are in its list    *)
(* (loopback.rs:99, :135), for any number of clients and whatever send was *)
(* under way.                                                              *)
THEOREM ClearedForGood == Spec => []ClearedStaysClear
<1>1. Order => ClearedStaysClear
  <2> SUFFICES ASSUME Order, main \in {"stop ble", "leave", "stopped"}
               PROVE  ToSet(halves) \subseteq strays
    BY DEF ClearedStaysClear
  <2>1. halves \in Seq(Client) /\ \A i \in 1..Len(halves) : halves[i] \in strays
    <3>1. halves \in Seq(Client)
      BY DEF Order, Halves
    <3>2. \A i \in 1..Len(halves) : halves[i] \in strays
      BY Zenon DEF Order, Closed
    <3> QED
      BY <3>1, <3>2, Zenon
  <2> QED
    BY <2>1, ListedIn, Zenon
<1> QED
  BY <1>1, OrderHolds, PTL

-----------------------------------------------------------------------------
(* What has a limit stays within it.                                       *)

Fits(ch) == ch # None => Len(ch.buf) <= Capacity

Channels ==
    /\ Fits(incoming)
    /\ \A t \in Transport : Fits(chan[t])
    /\ lost \subseteq Frame

Sockets ==
    /\ down \in [Client -> 0..Room]
    /\ acceptor \in {"off", "idle", "accepting", "ended"}
    /\ outgoing \in 0..MaxOutgoing

(* A channel that takes a message in or gives one away still fits, and     *)
(* what falls out is a frame.                                              *)
LEMMA ChannelFits ==
    ASSUME NEW ch \in ChannelOrNone, Fits(ch)
    PROVE  /\ \A f \in Frame : Fits(Sent(ch, f)) /\ Casualties(ch, f) \subseteq Frame
           /\ CanReceive(ch) => Fits(Received(ch))
           /\ Fits(None) /\ Fits(Subscribed)
           /\ ch # None => ToSet(ch.buf) \subseteq Frame
<1>1. CASE ch = None
  <2>1. \A f : Sent(ch, f) = None /\ Casualties(ch, f) = {f}
    BY <1>1 DEF Sent, Casualties
  <2>2. Fits(None) /\ ~CanReceive(ch)
    BY <1>1 DEF Fits, CanReceive
  <2>3. Fits(Subscribed)
    BY ChannelConstants DEF Fits, Subscribed
  <2> QED
    BY <1>1, <2>1, <2>2, <2>3
<1>2. CASE ch # None
  <2>1. ch \in Channel(Frame) /\ ch.buf \in Seq(Frame) /\ ch.lagged \in BOOLEAN
    BY <1>2, AChannelIs DEF ChannelOrNone
  <2>2. Len(ch.buf) \in Nat /\ Len(ch.buf) <= Capacity
    BY <1>2, <2>1 DEF Fits
  <2>3. ASSUME NEW f \in Frame PROVE Fits(Sent(ch, f)) /\ Casualties(ch, f) \subseteq Frame
    <3>1. CASE Len(ch.buf) < Capacity
      <4>1. Append(ch.buf, f) \in Seq(Frame) /\ Len(Append(ch.buf, f)) = Len(ch.buf) + 1
        BY <2>1, AppendIs
      <4>2. Sent(ch, f) = [ ch EXCEPT !.buf = Append(@, f) ]
        BY <1>2, <3>1 DEF Sent
      <4>3. Sent(ch, f).buf = Append(ch.buf, f)
        BY <2>1, <4>2 DEF Channel
      <4>4. Casualties(ch, f) = {}
        BY <1>2, <2>2, <3>1 DEF Casualties
      <4> QED
        BY <2>2, <3>1, <4>1, <4>3, <4>4, ChannelConstants DEF Fits
    <3>2. CASE ~(Len(ch.buf) < Capacity)
      <4>1. ch.buf # << >>
        BY <2>1, <3>2, ChannelConstants
      <4>2. /\ Tail(ch.buf) \in Seq(Frame) /\ Len(Tail(ch.buf)) = Len(ch.buf) - 1
            /\ Head(ch.buf) \in Frame
        BY <2>1, <4>1, TailIs
      <4>3. Len(Append(Tail(ch.buf), f)) = Len(ch.buf)
        BY <2>2, <4>2, AppendIs
      <4>4. Sent(ch, f) = [ buf |-> Append(Tail(ch.buf), f), lagged |-> TRUE ]
        BY <1>2, <3>2 DEF Sent
      <4>5. Len(ch.buf) = Capacity
        BY <2>2, <3>2, ChannelConstants
      <4>6. Casualties(ch, f) = {Head(ch.buf)}
        BY <1>2, <4>5 DEF Casualties
      <4> QED
        BY <2>2, <4>2, <4>3, <4>4, <4>6 DEF Fits
    <3> QED
      BY <3>1, <3>2
  <2>4. ASSUME CanReceive(ch) PROVE Fits(Received(ch))
    <3>1. ch.buf # << >>
      BY <2>4 DEF CanReceive
    <3>2. Len(Tail(ch.buf)) = Len(ch.buf) - 1
      BY <2>1, <3>1, TailIs
    <3>3. Received(ch).buf = Tail(ch.buf)
      BY <2>1 DEF Received, Channel
    <3> QED
      BY <2>2, <3>2, <3>3, ChannelConstants DEF Fits
  <2>5. Fits(None) /\ Fits(Subscribed)
    BY ChannelConstants DEF Fits, Subscribed
  <2>6. ToSet(ch.buf) \subseteq Frame
    BY <2>1 DEF ToSet
  <2> QED
    BY <2>3, <2>4, <2>5, <2>6
<1> QED
  BY <1>1, <1>2

(* The channels keep to their capacity.                                    *)
LEMMA ChannelsKept ==
    ASSUME Flow, Channels, [Next]_vars
    PROVE  Channels'
<1>1. /\ incoming \in ChannelOrNone /\ chan = [ t \in Transport |-> chan[t] ]
      /\ \A t \in Transport : chan[t] \in ChannelOrNone /\ Fits(chan[t])
      /\ Fits(incoming) /\ lost \subseteq Frame
      /\ "hub" \in Transport /\ "ble" \in Transport
  BY FlowIs DEF Channels, Transport
<1> DEFINE Goal == Channels'
<1>2. ASSUME Fits(incoming'), \A t \in Transport : Fits(chan'[t]), lost' \subseteq Frame PROVE Goal
  BY <1>2 DEF Channels, Fits
<1>3. ASSUME NEW t \in Transport, NEW f \in Frame, Publish(t, f) PROVE Goal
  <2>1. /\ chan' = [ chan EXCEPT ![t] = Sent(@, f) ] /\ incoming' = incoming
        /\ lost' = lost \union Casualties(chan[t], f)
    BY <1>3 DEF Publish
  <2>2. Fits(Sent(chan[t], f)) /\ Casualties(chan[t], f) \subseteq Frame
    BY <1>1, ChannelFits
  <2>3. chan'[t] = Sent(chan[t], f) /\ \A u \in Transport \ {t} : chan'[u] = chan[u]
    BY <1>1, <2>1
  <2>4. \A u \in Transport : Fits(chan'[u])
    BY <1>1, <2>2, <2>3
  <2> QED
    BY <1>1, <1>2, <2>1, <2>2, <2>4
<1>4. ASSUME incoming' = incoming, chan' = chan, lost' = lost PROVE Goal
  BY <1>1, <1>2, <1>4
<1>5. ASSUME NEW c \in Client, NEW kind \in Kind, WriteFrame(c, kind) PROVE Goal
  BY <1>4, <1>5 DEF WriteFrame, channelVars
<1>6. ASSUME NEW c \in Client, ReadFrame(c) PROVE Goal
  <2>1. PICK n : n = taken[c] + 1
    OBVIOUS
  <2>2. PICK f : f = [ by |-> c, n |-> n ]
    OBVIOUS
  <2>3. Publish("hub", f) \/ UNCHANGED channelVars
    BY <1>6, <2>1, <2>2 DEF ReadFrame
  <2>4. n \in Nat /\ n >= 1
    BY <2>1 DEF Flow, FlowTyped
  <2>5. f \in Frame
    BY <2>2, <2>4 DEF Frame, Source
  <2> QED
    BY <1>1, <1>3, <1>4, <2>3, <2>5 DEF channelVars
<1>7. ASSUME InjectIncoming PROVE Goal
  <2>1. PICK f : f = [ by |-> "ble", n |-> Len(sent'["ble"]) ]
    OBVIOUS
  <2>2. Publish("ble", f) /\ sent' = [ sent EXCEPT !["ble"] = Append(@, "good") ]
    BY <1>7, <2>1 DEF InjectIncoming
  <2>3. sent["ble"] \in Seq(Kind) /\ "good" \in Kind /\ "ble" \in Source /\ sent \in [Source -> Seq(Kind)]
    BY DEF Flow, FlowTyped, Source, Kind
  <2>4. Len(Append(sent["ble"], "good")) = Len(sent["ble"]) + 1 /\ Len(sent["ble"]) \in Nat
    BY <2>3, AppendIs
  <2>5. Len(sent'["ble"]) \in Nat /\ Len(sent'["ble"]) >= 1
    BY <2>2, <2>3, <2>4
  <2>6. f \in Frame
    BY <2>1, <2>3, <2>5 DEF Frame
  <2> QED
    BY <1>1, <1>3, <2>2, <2>6
<1>8. ASSUME NEW t \in Transport, Forward(t) PROVE Goal
  <2>1. CASE /\ CanReceive(chan[t])
             /\ chan' = [ chan EXCEPT ![t] = Received(@) ]
             /\ incoming' = Sent(incoming, Head(chan[t].buf))
             /\ lost' = lost \union Casualties(incoming, Head(chan[t].buf))
    <3>1. PICK f : f = Head(chan[t].buf)
      OBVIOUS
    <3>2. f \in Frame
      BY <1>1, <2>1, <3>1, AfterReceive
    <3>3. Fits(Sent(incoming, f)) /\ Casualties(incoming, f) \subseteq Frame /\ Fits(Received(chan[t]))
      BY <1>1, <2>1, <3>2, ChannelFits
    <3>4. chan'[t] = Received(chan[t]) /\ \A u \in Transport \ {t} : chan'[u] = chan[u]
      BY <1>1, <2>1
    <3>5. \A u \in Transport : Fits(chan'[u])
      BY <1>1, <3>3, <3>4
    <3> QED
      BY <1>1, <1>2, <2>1, <3>1, <3>3, <3>5
  <2>2. CASE /\ IsLagged(chan[t])
             /\ chan' = [ chan EXCEPT ![t] = None ]
             /\ lost' = lost \union ToSet(chan[t].buf)
             /\ incoming' = incoming
    <3>1. Fits(None) /\ ToSet(chan[t].buf) \subseteq Frame
      BY <1>1, <2>2, ChannelFits DEF IsLagged
    <3>2. chan'[t] = None /\ \A u \in Transport \ {t} : chan'[u] = chan[u]
      BY <1>1, <2>2
    <3>3. \A u \in Transport : Fits(chan'[u])
      BY <1>1, <3>1, <3>2
    <3> QED
      BY <1>1, <1>2, <2>2, <3>1, <3>3
  <2> QED
    BY <1>8, <2>1, <2>2 DEF Forward
<1>9. ASSUME NEW relayed \in BOOLEAN, ReceiveInbound(relayed) PROVE Goal
  <2>1. CanReceive(incoming) /\ incoming' = Received(incoming) /\ chan' = chan /\ lost' = lost
    BY <1>9 DEF ReceiveInbound
  <2>2. Fits(Received(incoming))
    BY <1>1, <2>1, ChannelFits
  <2> QED
    BY <1>1, <1>2, <2>1, <2>2
<1>10. ASSUME NEW t \in Transport, NEW here, NEW next, Subscribe(t, here, next) PROVE Goal
  <2>1. chan' = [ chan EXCEPT ![t] = Subscribed ] /\ incoming' = incoming /\ lost' = lost
    BY <1>10 DEF Subscribe
  <2>2. Fits(Subscribed)
    BY <1>1, ChannelFits
  <2>3. chan'[t] = Subscribed /\ \A u \in Transport \ {t} : chan'[u] = chan[u]
    BY <1>1, <2>1
  <2>4. \A u \in Transport : Fits(chan'[u])
    BY <1>1, <2>2, <2>3
  <2> QED
    BY <1>1, <1>2, <2>1, <2>4
<1>11. ASSUME SubscribeMain PROVE Goal
  <2>1. incoming' = Subscribed /\ chan' = chan /\ lost' = lost
    BY <1>11 DEF SubscribeMain
  <2>2. Fits(Subscribed)
    BY <1>1, ChannelFits
  <2> QED
    BY <1>1, <1>2, <2>1, <2>2
<1>12. /\ (/\ incoming' = incoming /\ chan' = chan /\ sent' = sent
           /\ taken' = taken /\ handled' = handled /\ lost' = lost
           /\ Starting' => Starting) => Goal
       /\ \A c \in Client, kind \in Kind : WriteFrame(c, kind) => Goal
       /\ \A c \in Client : ReadFrame(c) => Goal
       /\ InjectIncoming => Goal
       /\ \A t \in Transport : Forward(t) => Goal
       /\ \A relayed \in BOOLEAN : ReceiveInbound(relayed) => Goal
       /\ Subscribe("hub", "subscribe hub", "start ble") => Goal
       /\ Subscribe("ble", "subscribe ble", "subscribe") => Goal
       /\ SubscribeMain => Goal
  BY <1>1, <1>4, <1>5, <1>6, <1>7, <1>8, <1>9, <1>10, <1>11
<1> HIDE DEF Goal
<1>13. Goal
  BY <1>12, FlowSteps
<1> QED
  BY <1>13 DEF Goal

(* A socket's buffer, the queue and the accept loop keep to their limits.  *)
LEMMA SocketsKept ==
    ASSUME Tasks, Sockets, [Next]_vars
    PROVE  Sockets'
<1>1. /\ down \in [Client -> 0..Room] /\ outgoing \in 0..MaxOutgoing
      /\ acceptor \in {"off", "idle", "accepting", "ended"}
      /\ snd \in [Sender -> Progress]
      /\ Room \in Nat /\ MaxOutgoing \in Nat
  BY NodeConstants DEF Sockets, Tasks
<1> DEFINE Calm == down' = down /\ acceptor' = acceptor /\ outgoing' = outgoing
<1>2. ASSUME Calm PROVE Sockets'
  BY <1>1, <1>2 DEF Sockets
<1>3. ASSUME Startup \/ MainLoop \/ Shutdown \/ Interrupt \/ Announce PROVE Sockets'
  <2>1. CASE StartHub
    <3>1. down' = down /\ acceptor' = "idle" /\ outgoing' = outgoing
      BY <2>1 DEF StartHub, clientVars, bleVars
    <3> QED
      BY <1>1, <3>1 DEF Sockets
  <2>2. CASE StartBle \/ SubscribeMain \/ \E t, here, next : Subscribe(t, here, next)
    BY <1>2, <2>2 DEF StartBle, SubscribeMain, Subscribe, hubVars, clientVars, bleVars
  <2>3. CASE MainLoop
    BY <1>2, <2>3 DEF MainLoop, ReceiveInbound, GoDeaf, ShutDown, hubVars, clientVars, bleVars
  <2>4. CASE Shutdown
    BY <1>2, <2>4 DEF Shutdown, StopHub, DropListener, ClearHalves, StopBle, Exit, hubVars,
       clientVars, bleVars
  <2>5. CASE Interrupt \/ Announce
    BY <1>2, <2>5 DEF Interrupt, Announce, hubVars, clientVars, bleVars
  <2> QED
    BY <1>3, <2>1, <2>2, <2>3, <2>4, <2>5 DEF Startup
<1>4. ASSUME NEW s \in Sender, Send(s) PROVE Sockets'
  <2>1. CASE SendHub(s) \/ DropFailed(s) \/ CheckStarted(s)
    BY <1>2, <2>1 DEF SendHub, DropFailed, CheckStarted, hubVars, clientVars, bleVars
  <2>2. CASE WriteHalf(s)
    <3>1. snd[s].todo \in Seq(Client) /\ snd[s].todo # << >>
      BY <1>1, <2>2, WriteHalfDoes
    <3>2. PICK c \in Client : c = Head(snd[s].todo)
      BY <3>1, TailIs
    <3>3. /\ acceptor' = acceptor /\ outgoing' = outgoing
          /\ client[c] = "left" \/ down[c] < Room
          /\ down' = [ down EXCEPT ![c] = IF client[c] = "left" THEN @ ELSE @ + 1 ]
      BY <2>2, <3>2 DEF WriteHalf, hubVars, bleVars
    <3>4. (IF client[c] = "left" THEN down[c] ELSE down[c] + 1) \in 0..Room
      BY <1>1, <3>3
    <3>5. down' \in [Client -> 0..Room]
      BY <1>1, <3>3, <3>4
    <3> QED
      BY <1>1, <3>3, <3>5 DEF Sockets
  <2>3. CASE Push(s)
    <3>1. /\ down' = down /\ acceptor' = acceptor
          /\ outgoing' = IF outgoing >= MaxOutgoing THEN outgoing ELSE outgoing + 1
      BY <2>3 DEF Push, hubVars, clientVars
    <3>2. outgoing' \in 0..MaxOutgoing
      BY <1>1, <3>1
    <3> QED
      BY <1>1, <3>1, <3>2 DEF Sockets
  <2> QED
    BY <1>4, <2>1, <2>2, <2>3 DEF Send
<1>5. ASSUME AcceptLoop PROVE Sockets'
  <2>1. down' = down /\ outgoing' = outgoing /\ acceptor' \in {"idle", "accepting", "ended"}
    BY <1>5 DEF AcceptLoop, AwaitConnection, Accept, AcceptorEnds, clientVars, bleVars
  <2> QED
    BY <1>1, <2>1 DEF Sockets
<1>6. ASSUME NEW c \in Client, HandleClient(c) \/ Connect(c) PROVE Sockets'
  BY <1>2, <1>6 DEF HandleClient, Register, ReadFrame, EndOfFile, Connect, hubVars, clientVars, bleVars
<1>7. ASSUME NEW c \in Client, ReadHub(c) \/ Leave(c) PROVE Sockets'
  <2>1. /\ acceptor' = acceptor /\ outgoing' = outgoing
        /\ \/ down[c] > 0 /\ down' = [ down EXCEPT ![c] = @ - 1 ]
           \/ down' = [ down EXCEPT ![c] = 0 ]
    BY <1>7 DEF ReadHub, Leave, hubVars, bleVars
  <2>2. down' \in [Client -> 0..Room]
    BY <1>1, <2>1
  <2> QED
    BY <1>1, <2>1, <2>2 DEF Sockets
<1>8. ASSUME (\E c \in Client, kind \in Kind : WriteFrame(c, kind)) \/ InjectIncoming
             \/ \E t \in Transport : Forward(t)
      PROVE  Sockets'
  BY <1>2, <1>8 DEF WriteFrame, InjectIncoming, Forward, hubVars, clientVars, bleVars
<1>9. ASSUME DrainOutgoing PROVE Sockets'
  <2>1. down' = down /\ acceptor' = acceptor /\ outgoing' = 0
    BY <1>9 DEF DrainOutgoing, hubVars, clientVars
  <2> QED
    BY <1>1, <2>1 DEF Sockets
<1>10. ASSUME UNCHANGED vars PROVE Sockets'
  BY <1>2, <1>10 DEF vars, hubVars, clientVars, bleVars
<1> HIDE DEF Calm
<1> DEFINE Goal == Sockets'
<1>11. /\ Startup \/ MainLoop \/ Shutdown \/ Interrupt \/ Announce => Goal
       /\ \A s \in Sender : Send(s) => Goal
       /\ AcceptLoop => Goal
       /\ \A c \in Client : HandleClient(c) \/ Connect(c) \/ ReadHub(c) \/ Leave(c) => Goal
       /\ (\E c \in Client, kind \in Kind : WriteFrame(c, kind)) \/ InjectIncoming
          \/ (\E t \in Transport : Forward(t)) => Goal
       /\ DrainOutgoing => Goal
       /\ UNCHANGED vars => Goal
  BY <1>3, <1>4, <1>5, <1>6, <1>7, <1>8, <1>9, <1>10
<1> HIDE DEF Goal
<1>12. Goal
  BY <1>11 DEF Next
<1> QED
  BY <1>12 DEF Goal

(* A list without repetitions has as many elements as places.              *)
LEMMA OnceCounts ==
    ASSUME NEW S, NEW s \in Seq(S), Once(s)
    PROVE  Cardinality(ToSet(s)) = Len(s)
<1> DEFINE T == ToSet(s)  n == Len(s)  f == [ i \in 1..n |-> s[i] ]
<1>1. n \in Nat /\ DOMAIN s = 1..n
  OBVIOUS
<1>2. T = { s[i] : i \in 1..n }
  BY <1>1 DEF ToSet
<1>3. f \in [1..n -> T] /\ (\A i, j \in 1..n : f[i] = f[j] => i = j) /\ \A t \in T : \E i \in 1..n : f[i] = t
  BY <1>2 DEF Once
<1>4. ExistsBijection(1..n, T)
  <2> HIDE DEF f, T, n
  <2>1. f \in Bijection(1..n, T)
    BY <1>3 DEF Bijection, Injection, Surjection, IsInjective
  <2> QED
    BY <2>1 DEF ExistsBijection
<1> QED
  BY <1>1, <1>4, FS_CountingElements

(* The shapes and limits of the node's state: one task at a time writes to *)
(* the halves (loopback.rs:112), each half is there once, sockets, channels *)
(* and the queue keep to their capacity, and nothing is handled that was   *)
(* not sent.                                                               *)
THEOREM TypeCorrect == Spec => []TypeOK
<1> DEFINE Sizes == Channels /\ Sockets
<1>1. Init => Sizes
  <2> SUFFICES ASSUME Init PROVE Sizes
    OBVIOUS
  <2>1. incoming = None /\ (\A t \in Transport : chan[t] = None) /\ lost = {}
    BY DEF Init
  <2>2. Channels
    BY <2>1 DEF Channels, Fits
  <2>3. Sockets
    BY NodeConstants DEF Init, Sockets
  <2> QED
    BY <2>2, <2>3
<1>2. Flow /\ Order /\ Sizes /\ [Next]_vars => Sizes'
  BY ChannelsKept, SocketsKept DEF Order
<1>3. Flow /\ Order /\ Sizes => TypeOK
  <2> SUFFICES ASSUME Flow, Order, Channels, Sockets PROVE TypeOK
    OBVIOUS
  <2>1. main \in Place /\ snd \in [Sender -> Progress] /\ (main = "relay" <=> snd["main"].at # "idle")
    BY DEF Order, Tasks
  <2>2. \A s \in Sender : snd[s].at \in {"idle", "hub", "write", "ble", "push"}
    BY <2>1 DEF Progress
  <2>3. \A ch \in { chan[t] : t \in Transport } \union {incoming} :
            ch # None => ch \in Channel(Frame) /\ Len(ch.buf) <= Capacity
    <3>1. incoming \in ChannelOrNone /\ \A t \in Transport : chan[t] \in ChannelOrNone
      BY FlowIs
    <3> QED
      BY <3>1 DEF Channels, Fits, ChannelOrNone
  <2>4. Cardinality({ s \in Sender : snd[s].at = "write" }) <= 1
    <3> DEFINE W == { s \in Sender : snd[s].at = "write" }
    <3>1. W = {} \/ \E s \in Sender : W = {s}
      BY SendersAre DEF Order, Tasks, Writing
    <3>2. Cardinality({}) = 0 /\ \A s : Cardinality({s}) = 1
      BY FS_EmptySet, FS_Singleton
    <3>3. Cardinality(W) = 0 \/ Cardinality(W) = 1
      BY <3>1, <3>2
    <3> QED
      BY <3>3
  <2>5. /\ Cardinality(ToSet(halves)) = Len(halves)
        /\ \A c \in ToSet(halves) : handler[c] \in {"reading", "ended"}
    <3>1. halves \in Seq(Client) /\ Once(halves)
      BY DEF Order, Halves
    <3>2. ToSet(halves) = { halves[i] : i \in 1..Len(halves) }
      BY <3>1 DEF ToSet
    <3> QED
      BY <3>1, <3>2, OnceCounts DEF Order, Halves
  <2>6. \A c \in Client : down[c] \in 0..Room
    BY DEF Sockets
  <2>7. outgoing <= MaxOutgoing
    BY NodeConstants DEF Sockets
  <2>8. \A c \in Client : taken[c] <= Len(sent[c])
    <3>1. \A c \in Client : c \in Source /\ Seen(c) = taken[c]
      BY NodeConstants DEF Source, Seen
    <3> QED
      BY <3>1, FlowIs
  <2>9. \A x \in Source : ToSet(handled[x]) \subseteq DOMAIN sent[x]
    <3> SUFFICES ASSUME NEW x \in Source PROVE ToSet(handled[x]) \subseteq DOMAIN sent[x]
      OBVIOUS
    <3>1. /\ sent[x] \in Seq(Kind) /\ Len(sent[x]) \in Nat /\ Seen(x) \in Nat /\ Seen(x) <= Len(sent[x])
          /\ handled[x] \in Seq(Nat) /\ Done(x) \subseteq 1..Seen(x)
      BY FlowIs
    <3>2. ToSet(handled[x]) = Done(x)
      BY <3>1 DEF ToSet, Done
    <3>3. DOMAIN sent[x] = 1..Len(sent[x]) /\ 1..Seen(x) \subseteq 1..Len(sent[x])
      BY <3>1
    <3> QED
      BY <3>1, <3>2, <3>3
  <2>10. lost \subseteq Frame /\ acceptor \in {"off", "idle", "accepting", "ended"}
    BY DEF Channels, Sockets
  <2> QED
    BY <2>1, <2>2, <2>3, <2>4, <2>5, <2>6, <2>7, <2>8, <2>9, <2>10 DEF TypeOK, Place
<1> HIDE DEF Sizes
<1> QED
  BY <1>1, <1>2, <1>3, FlowHolds, OrderHolds, PTL DEF Spec
=============================================================================
