-------------------------------- MODULE Node --------------------------------
(***************************************************************************)
(* One running node (commands/serve.rs) with its loopback hub              *)
(* (transport/loopback.rs) and its BLE transport (transport/ble.rs): the   *)
(* main loop, the announce task, a forwarder task for each transport, the  *)
(* hub's accept loop and a task for each client of the hub.                *)
(*                                                                         *)
(* What an envelope is and whether the router relays it are left to        *)
(* Router; here it is a frame with a number.                               *)
(***************************************************************************)
EXTENDS Naturals, Sequences, FiniteSets, SequencesExt, Broadcast

CONSTANTS
    Client,         \* processes that may connect to the hub
    Room,           \* frames a client's socket holds unread
    MaxOutgoing,    \* envelopes the BLE queue holds: 256
    MaxFrames,      \* bound: frames sent to the node
    MaxDamaged,     \* bound: damaged ones in them
    MaxAnnounced,   \* bound: announcements
    MaxEvents       \* bound: frames and announcements together

ASSUME NodeConstants ==
    /\ Room \in Nat \ {0} /\ MaxOutgoing \in Nat \ {0}
    /\ {MaxFrames, MaxDamaged, MaxAnnounced, MaxEvents} \subseteq Nat
    /\ IsFiniteSet(Client) /\ Client \intersect {"ble"} = {}

Transport == {"hub", "ble"}
Sender == {"main", "announcer"}     \* the tasks that call Transport::send
Source == Client \union {"ble"}     \* where envelopes come from
Frame == [ by : Source, n : Nat \ {0} ]

ASSUME NoneIsNoChannel == None \notin Channel(Frame)

Kind == {"good", "unreadable", "too large"}

VARIABLES
    main,       \* where ServeCmd::run is
    signal,     \* the present select!'s ctrl_c listener was told
    incoming,   \* the node's channel, once main subscribed
    chan,       \* each transport's channel, while its forwarder runs
    snd,        \* each sender's progress through the transports
    acceptor,   \* where the hub's accept loop is
    cancelled,  \* its CancellationToken
    bound,      \* listener is Some
    halves,     \* write_halfs
    handler,    \* where each client's handle_client is
    client,     \* "out", "connected" or "left"
    sent,       \* the frames each source has sent
    taken,      \* how many of each client's the hub has read
    down,       \* frames each client has yet to read
    started,    \* BleTransport::started
    outgoing,   \* how many envelopes are in BleTransport::outgoing
    announced,  \* announcements begun
    handled,    \* history: the numbers of the frames of each source that
                \* handle_inbound was called with
    lost,       \* history: good frames that met no receiver or fell out
    strays,     \* history: clients accepted and not registered at the clear
    late        \* history: pushes onto outgoing after BLE's stop

taskVars == <<main, signal, snd, announced>>
hubVars == <<acceptor, cancelled, bound, halves, handler>>
clientVars == <<client, sent, taken, down>>
bleVars == <<started, outgoing, late>>
channelVars == <<incoming, chan, lost>>
vars == <<taskVars, hubVars, clientVars, bleVars, channelVars, handled, strays>>

FramesSent == FoldSet(LAMBDA x, n : n + Len(sent[x]), 0, Source)
MoreFrames == FramesSent < MaxFrames /\ FramesSent + announced < MaxEvents
MoreAnnouncements == announced < MaxAnnounced /\ FramesSent + announced < MaxEvents
Damaged == { d \in Client \X (1..MaxFrames) : d[2] \in DOMAIN sent[d[1]] /\ sent[d[1]][d[2]] # "good" }

Running == main # "stopped"
Stopping == main \in {"stop hub", "drop listener", "clear", "stop ble", "leave"}

-----------------------------------------------------------------------------
(* Channels.                                                               *)

(* What a send to ch loses.                                                *)
Casualties(ch, m) ==
    CASE ch = None -> {m}
      [] ch # None /\ Len(ch.buf) = Capacity -> {Head(ch.buf)}
      [] OTHER -> {}

(* A transport received f: incoming_tx.send.                               *)
Publish(t, f) ==
    /\ chan' = [ chan EXCEPT ![t] = Sent(@, f) ]
    /\ lost' = lost \union Casualties(chan[t], f)
    /\ UNCHANGED incoming

(* A slip: the forwarder goes on after an overrun.                         *)
ForwardOn(t) ==
    /\ Running
    /\ chan[t] # None /\ chan[t].buf # << >>
    /\ LET f == Head(chan[t].buf) IN
          /\ chan' = [ chan EXCEPT ![t] = [ buf |-> Tail(@.buf), lagged |-> FALSE ] ]
          /\ incoming' = Sent(incoming, f)
          /\ lost' = lost \union Casualties(incoming, f)
    /\ UNCHANGED <<taskVars, hubVars, clientVars, bleVars, handled, strays>>

(* The forwarder tasks: `while let Ok(env) = rx.recv()` ends for good at   *)
(* the first overrun.                                                      *)
Forward(t) ==
    /\ Running
    /\ \/ /\ CanReceive(chan[t])
          /\ LET f == Head(chan[t].buf) IN
                /\ chan' = [ chan EXCEPT ![t] = Received(@) ]
                /\ incoming' = Sent(incoming, f)
                /\ lost' = lost \union Casualties(incoming, f)
       \/ /\ IsLagged(chan[t])
          /\ chan' = [ chan EXCEPT ![t] = None ]
          /\ lost' = lost \union ToSet(chan[t].buf)
          /\ UNCHANGED incoming
    /\ UNCHANGED <<taskVars, hubVars, clientVars, bleVars, handled, strays>>

-----------------------------------------------------------------------------
(* Transport::send, by main's relay and by the announce task: the hub,     *)
(* then BLE.                                                               *)

Quiet == [ at |-> "idle", todo |-> << >>, kept |-> << >> ]
At(place) == [ Quiet EXCEPT !.at = place ]

(* write_halfs is locked from the first write to the last.                 *)
HalvesLocked == \E s \in Sender : snd[s].at = "write"

SendHub(s) ==
    /\ Running /\ snd[s].at = "hub" /\ ~HalvesLocked
    /\ snd' = [ snd EXCEPT ![s] =
                  IF halves = << >> THEN At("ble") ELSE [ At("write") EXCEPT !.todo = halves ] ]
    /\ UNCHANGED <<main, signal, announced, hubVars, clientVars, bleVars, channelVars, handled, strays>>

(* write_all waits while the client's socket is full, and fails if the     *)
(* client has left.  kept are the halves that did not fail.                *)
WriteHalf(s) ==
    /\ Running /\ snd[s].at = "write" /\ snd[s].todo # << >>
    /\ LET c == Head(snd[s].todo)
           gone == client[c] = "left"
       IN
       /\ gone \/ down[c] < Room
       /\ snd' = [ snd EXCEPT ![s].todo = Tail(@), ![s].kept = IF gone THEN @ ELSE Append(@, c) ]
       /\ down' = [ down EXCEPT ![c] = IF gone THEN @ ELSE @ + 1 ]
    /\ UNCHANGED <<main, signal, announced, hubVars, client, sent, taken, bleVars, channelVars, handled, strays>>

DropFailed(s) ==
    /\ Running /\ snd[s].at = "write" /\ snd[s].todo = << >>
    /\ halves' = snd[s].kept
    /\ snd' = [ snd EXCEPT ![s] = At("ble") ]
    /\ UNCHANGED <<main, signal, announced, acceptor, cancelled, bound, handler, clientVars, bleVars, channelVars, handled, strays>>

Finish(s) ==
    /\ snd' = [ snd EXCEPT ![s] = Quiet ]
    /\ main' = IF s = "main" THEN "select" ELSE main
    /\ UNCHANGED <<signal, announced>>

(* A slip: send does not look at started.                                  *)
CheckStartedNot(s) ==
    /\ Running /\ snd[s].at = "ble"
    /\ snd' = [ snd EXCEPT ![s] = At("push") ]
    /\ UNCHANGED <<main, signal, announced, hubVars, clientVars, bleVars, channelVars, handled, strays>>

(* The lock on started is dropped before outgoing is locked.               *)
CheckStarted(s) ==
    /\ Running /\ snd[s].at = "ble"
    /\ IF started THEN snd' = [ snd EXCEPT ![s] = At("push") ] /\ UNCHANGED <<main, signal, announced>>
                  ELSE Finish(s)
    /\ UNCHANGED <<hubVars, clientVars, bleVars, channelVars, handled, strays>>

Push(s) ==
    /\ Running /\ snd[s].at = "push"
    /\ outgoing' = IF outgoing >= MaxOutgoing THEN outgoing ELSE outgoing + 1
    /\ late' = IF started THEN late ELSE late + 1
    /\ Finish(s)
    /\ UNCHANGED <<hubVars, clientVars, started, channelVars, handled, strays>>

(* BleTransport::drain_outgoing, called by the platform.                   *)
DrainOutgoing ==
    /\ Running /\ outgoing > 0
    /\ outgoing' = 0
    /\ UNCHANGED <<taskVars, hubVars, clientVars, started, late, channelVars, handled, strays>>

(* BleTransport::inject_incoming, called by the platform, started or not;  *)
(* what does not parse is refused.                                         *)
InjectIncoming ==
    /\ Running /\ main \notin {"start", "subscribe hub", "start ble"}
    /\ MoreFrames
    /\ sent' = [ sent EXCEPT !["ble"] = Append(@, "good") ]
    /\ Publish("ble", [ by |-> "ble", n |-> Len(sent'["ble"]) ])
    /\ UNCHANGED <<taskVars, hubVars, client, taken, down, bleVars, handled, strays>>

(* The announce task, after a sleep.                                       *)
Announce ==
    /\ main \notin {"start", "subscribe hub", "start ble", "subscribe ble", "subscribe", "stopped"}
    /\ snd["announcer"].at = "idle" /\ MoreAnnouncements
    /\ announced' = announced + 1
    /\ snd' = [ snd EXCEPT !["announcer"] = At("hub") ]
    /\ UNCHANGED <<main, signal, hubVars, clientVars, bleVars, channelVars, handled, strays>>

-----------------------------------------------------------------------------
(* The hub's clients.                                                      *)

(* connect_to_hub, from SendCmd::run.                                      *)
Connect(c) ==
    /\ client[c] = "out" /\ bound
    /\ client' = [ client EXCEPT ![c] = "connected" ]
    /\ UNCHANGED <<taskVars, hubVars, sent, taken, down, bleVars, channelVars, handled, strays>>

(* SendCmd::run writes one frame; another client of the socket may write   *)
(* more, and damaged ones.  Also when nobody reads any more: the hub's     *)
(* half of the socket stays open in write_halfs.                           *)
WriteFrame(c, kind) ==
    /\ Running /\ client[c] = "connected"
    /\ Len(sent[c]) - taken[c] < Room
    /\ MoreFrames /\ (kind # "good" => Cardinality(Damaged) < MaxDamaged)
    /\ sent' = [ sent EXCEPT ![c] = Append(@, kind) ]
    /\ UNCHANGED <<taskVars, hubVars, client, taken, down, bleVars, channelVars, handled, strays>>

(* The reader task of connect_to_hub.                                      *)
ReadHub(c) ==
    /\ client[c] = "connected" /\ down[c] > 0
    /\ down' = [ down EXCEPT ![c] = @ - 1 ]
    /\ UNCHANGED <<taskVars, hubVars, client, sent, taken, bleVars, channelVars, handled, strays>>

Leave(c) ==
    /\ client[c] = "connected"
    /\ client' = [ client EXCEPT ![c] = "left" ]
    /\ down' = [ down EXCEPT ![c] = 0 ]
    /\ UNCHANGED <<taskVars, hubVars, sent, taken, bleVars, channelVars, handled, strays>>

-----------------------------------------------------------------------------
(* The hub's own tasks.                                                    *)

(* The accept loop awaits a connection with the listener locked.           *)
AwaitConnection ==
    /\ Running /\ acceptor = "idle"
    /\ acceptor' = IF bound THEN "accepting" ELSE "ended"
    /\ UNCHANGED <<taskVars, cancelled, bound, halves, handler, clientVars, bleVars, channelVars, handled, strays>>

Accept(c) ==
    /\ Running /\ acceptor = "accepting"
    /\ client[c] # "out" /\ handler[c] = "none"
    /\ acceptor' = "idle"
    /\ handler' = [ handler EXCEPT ![c] = "accepted" ]
    /\ UNCHANGED <<taskVars, cancelled, bound, halves, clientVars, bleVars, channelVars, handled, strays>>

(* select! sees the cancellation, at once or after one more connection.    *)
AcceptorEnds ==
    /\ Running /\ cancelled /\ acceptor \in {"idle", "accepting"}
    /\ acceptor' = "ended"
    /\ UNCHANGED <<taskVars, cancelled, bound, halves, handler, clientVars, bleVars, channelVars, handled, strays>>

(* handle_client: its write half joins the list, and stays there when      *)
(* reading ends.                                                           *)
Register(c) ==
    /\ Running /\ handler[c] = "accepted" /\ ~HalvesLocked
    /\ halves' = Append(halves, c)
    /\ handler' = [ handler EXCEPT ![c] = "reading" ]
    /\ UNCHANGED <<taskVars, acceptor, cancelled, bound, clientVars, bleVars, channelVars, handled, strays>>

(* A slip: a frame that does not parse ends the reading.                   *)
EndsReadingIfUnreadable(kind) == kind # "good"

(* A frame that is too large ends the reading; one that does not parse is  *)
(* skipped.                                                                *)
EndsReading(kind) == kind = "too large"

ReadFrame(c) ==
    LET n == taken[c] + 1
        kind == sent[c][n]
    IN
    /\ Running /\ handler[c] = "reading" /\ n \in DOMAIN sent[c]
    /\ taken' = [ taken EXCEPT ![c] = n ]
    /\ handler' = [ handler EXCEPT ![c] = IF EndsReading(kind) THEN "ended" ELSE @ ]
    /\ IF kind = "good" THEN Publish("hub", [ by |-> c, n |-> n ]) ELSE UNCHANGED channelVars
    /\ UNCHANGED <<taskVars, acceptor, cancelled, bound, halves, client, sent, down, bleVars, handled, strays>>

EndOfFile(c) ==
    /\ Running /\ handler[c] = "reading" /\ client[c] = "left"
    /\ taken[c] = Len(sent[c])
    /\ handler' = [ handler EXCEPT ![c] = "ended" ]
    /\ UNCHANGED <<taskVars, acceptor, cancelled, bound, halves, clientVars, bleVars, channelVars, handled, strays>>

-----------------------------------------------------------------------------
(* ServeCmd::run.                                                          *)

Goto(from, to) == main = from /\ main' = to /\ UNCHANGED <<signal, snd, announced>>

StartHub ==
    /\ Goto("start", "subscribe hub")
    /\ bound' = TRUE
    /\ acceptor' = "idle"
    /\ UNCHANGED <<cancelled, halves, handler, clientVars, bleVars, channelVars, handled, strays>>

(* subscribe, and the forwarder is spawned.                                *)
Subscribe(t, here, next) ==
    /\ Goto(here, next)
    /\ chan' = [ chan EXCEPT ![t] = Subscribed ]
    /\ UNCHANGED <<incoming, lost, hubVars, clientVars, bleVars, handled, strays>>

StartBle ==
    /\ Goto("start ble", "subscribe ble")
    /\ started' = TRUE
    /\ UNCHANGED <<hubVars, clientVars, outgoing, late, channelVars, handled, strays>>

SubscribeMain ==
    /\ Goto("subscribe", "select")
    /\ incoming' = Subscribed
    /\ UNCHANGED <<chan, lost, hubVars, clientVars, bleVars, handled, strays>>

(* The main loop's select!: an envelope, which handle_inbound may relay.   *)
(* The ctrl_c listener of this select! is gone with what it was told.      *)
ReceiveInbound(relayed) ==
    /\ main = "select" /\ CanReceive(incoming)
    /\ incoming' = Received(incoming)
    /\ LET f == Head(incoming.buf) IN
          handled' = [ handled EXCEPT ![f.by] = Append(@, f.n) ]
    /\ signal' = FALSE
    /\ IF relayed THEN /\ main' = "relay"
                       /\ snd' = [ snd EXCEPT !["main"] = At("hub") ]
                  ELSE UNCHANGED <<main, snd>>
    /\ UNCHANGED <<announced, hubVars, clientVars, bleVars, chan, lost, strays>>

(* recv is an error after an overrun, `Ok(env) = recv()` does not match,   *)
(* and what is left of this select! is ctrl_c.                             *)
GoDeaf ==
    /\ main = "select" /\ IsLagged(incoming)
    /\ main' = "deaf"
    /\ UNCHANGED <<signal, snd, announced, hubVars, clientVars, bleVars, channelVars, handled, strays>>

(* Ctrl-C.  While main is anywhere else nobody listens, and it is lost.    *)
Interrupt ==
    /\ main \in {"select", "deaf"} /\ ~signal
    /\ signal' = TRUE
    /\ UNCHANGED <<main, snd, announced, hubVars, clientVars, bleVars, channelVars, handled, strays>>

ShutDown ==
    /\ main \in {"select", "deaf"} /\ signal
    /\ main' = "stop hub"
    /\ UNCHANGED <<signal, snd, announced, hubVars, clientVars, bleVars, channelVars, handled, strays>>

(* A slip: the accept loop is not told.                                    *)
StopHubSilently ==
    /\ Goto("stop hub", "drop listener")
    /\ UNCHANGED <<hubVars, clientVars, bleVars, channelVars, handled, strays>>

(* LoopbackTransport::stop.                                                *)
StopHub ==
    /\ Goto("stop hub", "drop listener")
    /\ cancelled' = TRUE
    /\ UNCHANGED <<acceptor, bound, halves, handler, clientVars, bleVars, channelVars, handled, strays>>

DropListener ==
    /\ Goto("drop listener", "clear") /\ acceptor # "accepting"
    /\ bound' = FALSE
    /\ UNCHANGED <<acceptor, cancelled, halves, handler, clientVars, bleVars, channelVars, handled, strays>>

(* A slip: the write halves stay.                                          *)
ClearHalvesNot ==
    /\ Goto("clear", "stop ble") /\ ~HalvesLocked
    /\ strays' = { c \in Client : handler[c] = "accepted" }
    /\ UNCHANGED <<hubVars, clientVars, bleVars, channelVars, handled>>

ClearHalves ==
    /\ Goto("clear", "stop ble") /\ ~HalvesLocked
    /\ halves' = << >>
    /\ strays' = { c \in Client : handler[c] = "accepted" }
    /\ UNCHANGED <<acceptor, cancelled, bound, handler, clientVars, bleVars, channelVars, handled>>

StopBle ==
    /\ Goto("stop ble", "leave")
    /\ started' = FALSE
    /\ UNCHANGED <<hubVars, clientVars, outgoing, late, channelVars, handled, strays>>

(* run returns and the process ends, with every task.                      *)
Exit ==
    /\ Goto("leave", "stopped")
    /\ UNCHANGED <<hubVars, clientVars, bleVars, channelVars, handled, strays>>

-----------------------------------------------------------------------------

TypeOK ==
    /\ main \in {"start", "subscribe hub", "start ble", "subscribe ble", "subscribe"}
                \union {"select", "deaf", "relay", "stopped"}
                \union {"stop hub", "drop listener", "clear", "stop ble", "leave"}
    /\ \A ch \in { chan[t] : t \in Transport } \union {incoming} :
          ch # None => ch \in Channel(Frame) /\ Len(ch.buf) <= Capacity
    /\ acceptor \in {"off", "idle", "accepting", "ended"}
    /\ \A s \in Sender : snd[s].at \in {"idle", "hub", "write", "ble", "push"}
    /\ main = "relay" <=> snd["main"].at # "idle"
    /\ Cardinality({ s \in Sender : snd[s].at = "write" }) <= 1
    /\ Cardinality(ToSet(halves)) = Len(halves)
    /\ \A c \in ToSet(halves) : handler[c] \in {"reading", "ended"}
    /\ \A c \in Client : down[c] \in 0..Room
    /\ outgoing <= MaxOutgoing
    /\ \A c \in Client : taken[c] <= Len(sent[c])
    /\ \A x \in Source : ToSet(handled[x]) \subseteq DOMAIN sent[x]
    /\ lost \subseteq Frame

Init ==
    /\ main = "start" /\ signal = FALSE /\ announced = 0
    /\ incoming = None
    /\ chan = [ t \in Transport |-> None ]
    /\ snd = [ s \in Sender |-> Quiet ]
    /\ acceptor = "off" /\ cancelled = FALSE /\ bound = FALSE
    /\ halves = << >>
    /\ handler = [ c \in Client |-> "none" ]
    /\ client = [ c \in Client |-> "out" ]
    /\ sent = [ x \in Source |-> << >> ]
    /\ taken = [ c \in Client |-> 0 ]
    /\ down = [ c \in Client |-> 0 ]
    /\ started = FALSE /\ outgoing = 0
    /\ handled = [ x \in Source |-> << >> ]
    /\ lost = {} /\ strays = {} /\ late = 0

Startup ==
    \/ StartHub \/ Subscribe("hub", "subscribe hub", "start ble")
    \/ StartBle \/ Subscribe("ble", "subscribe ble", "subscribe")
    \/ SubscribeMain

MainLoop == (\E relayed \in BOOLEAN : ReceiveInbound(relayed)) \/ GoDeaf \/ ShutDown
Shutdown == StopHub \/ DropListener \/ ClearHalves \/ StopBle \/ Exit

Send(s) == SendHub(s) \/ WriteHalf(s) \/ DropFailed(s) \/ CheckStarted(s) \/ Push(s)
AcceptLoop == AwaitConnection \/ (\E c \in Client : Accept(c)) \/ AcceptorEnds
HandleClient(c) == Register(c) \/ ReadFrame(c) \/ EndOfFile(c)

Next ==
    \/ Startup \/ MainLoop \/ Shutdown \/ Interrupt \/ Announce
    \/ \E s \in Sender : Send(s)
    \/ \E t \in Transport : Forward(t)
    \/ AcceptLoop
    \/ \E c \in Client : HandleClient(c) \/ Connect(c) \/ ReadHub(c) \/ Leave(c)
    \/ \E c \in Client, kind \in Kind : WriteFrame(c, kind)
    \/ InjectIncoming \/ DrainOutgoing

(* The runtime runs every task that can go on.  Connecting, leaving,       *)
(* writing, announcing and Ctrl-C need never happen.                       *)
TaskFairness ==
    /\ WF_vars(Startup) /\ WF_vars(MainLoop) /\ WF_vars(Shutdown)
    /\ \A s \in Sender : WF_vars(Send(s))
    /\ \A t \in Transport : WF_vars(Forward(t))
    /\ WF_vars(AcceptLoop) /\ WF_vars(AcceptorEnds)
    /\ \A c \in Client : WF_vars(HandleClient(c))

(* And clients read, as the reader task of connect_to_hub does.            *)
Fairness == TaskFairness /\ \A c \in Client : WF_vars(ReadHub(c))

Spec == Init /\ [][Next]_vars /\ Fairness

(* A client need not read: it is stopped, or has other things to do.       *)
SpecUnread == Init /\ [][Next]_vars /\ TaskFairness

-----------------------------------------------------------------------------

(* From each source main handles an unbroken run of the good frames, once  *)
(* and in order: frames are lost before main subscribed or after an        *)
(* overrun ended a task, never in between, through two channels that drop  *)
(* their oldest (serve.rs:55, :120).                                       *)
HandledInOrder ==
    \A x \in Source : \A i \in 1..(Len(handled[x]) - 1) :
        LET m == handled[x][i]  n == handled[x][i + 1] IN
        m < n /\ \A k \in (m + 1)..(n - 1) : sent[x][k] # "good"

(* After BLE's stop one envelope at most is queued, whatever the announce  *)
(* task goes on to send: the one that looked at started before the stop    *)
(* and pushes after it (ble.rs:75).                                        *)
LateAtMostOnce == late <= 1

(* After the hub's stop only clients that were accepted and not yet        *)
(* registered can join its list: a send under way writes back no half the  *)
(* stop cleared, and nobody is accepted any more (loopback.rs:99, :135).   *)
ClearedStaysClear ==
    main \in {"stop ble", "leave", "stopped"} => ToSet(halves) \subseteq strays

(* Frames of c the node could handle and has neither handled nor lost: the *)
(* good ones with nothing too large before them.                           *)
Outstanding(c) ==
    { n \in DOMAIN sent[c] :
        /\ sent[c][n] = "good"
        /\ \A k \in 1..(n - 1) : sent[c][k] # "too large"
        /\ n \notin ToSet(handled[c])
        /\ [ by |-> c, n |-> n ] \notin lost }

(* Every frame is handled or lost to an absent or overrun receiver, unless *)
(* the node shuts down or main goes deaf (serve.rs:120).  A client that    *)
(* reads slowly or leaves, an announcement or an unreadable frame does not *)
(* hold it up.                                                             *)
EveryFrameHandled ==
    \A c \in Client :
        Outstanding(c) # {} ~>
            Outstanding(c) = {} \/ main \in {"deaf", "stopped"} \/ Stopping

(* Once main left its loop it stops every transport and returns: stop does *)
(* not wait for a connection (loopback.rs:97), and what the announce task  *)
(* has locked it releases.  A deaf node still obeys Ctrl-C.                *)
ShutdownCompletes == (Stopping \/ (main = "deaf" /\ signal)) ~> main = "stopped"

(* loopback.rs:97: LoopbackTransport::stop no longer deadlocks.  That asks *)
(* nothing of the clients, only that the tasks run.                        *)
StopReturns == main = "stop hub" ~> main = "stop ble"

=============================================================================
