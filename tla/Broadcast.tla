----------------------------- MODULE Broadcast -----------------------------
(* tokio's broadcast channel with one receiver, as transport/mod.rs and    *)
(* serve.rs use it.  A channel without a receiver is None, and what is     *)
(* sent to it is gone.                                                     *)
EXTENDS Naturals, Sequences

CONSTANTS
    Capacity,   \* envelopes a channel holds: 256
    None

ASSUME ChannelConstants == Capacity \in Nat \ {0}

Channel(Message) == [ buf : Seq(Message), lagged : BOOLEAN ]

(* subscribe: what was sent before is not received.                        *)
Subscribed == [ buf |-> << >>, lagged |-> FALSE ]

(* A slip: the channel grows.                                              *)
SentUnbounded(ch, m) == IF ch = None THEN None ELSE [ ch EXCEPT !.buf = Append(@, m) ]

(* send: a full channel forgets its oldest message, and its receiver's     *)
(* next recv is an error.                                                  *)
Sent(ch, m) ==
    CASE ch = None -> None
      [] ch # None /\ Len(ch.buf) < Capacity -> [ ch EXCEPT !.buf = Append(@, m) ]
      [] OTHER -> [ buf |-> Append(Tail(ch.buf), m), lagged |-> TRUE ]

(* recv: Ok with a message, Err(Lagged), or nothing yet.                   *)
CanReceive(ch) == ch # None /\ ~ch.lagged /\ ch.buf # << >>
IsLagged(ch) == ch # None /\ ch.lagged
Received(ch) == [ ch EXCEPT !.buf = Tail(@) ]

=============================================================================
