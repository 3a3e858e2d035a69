---------------------------- MODULE ReplayFilter ----------------------------
(***************************************************************************)
(* What a node's duplicate suppression promises, with no cache in sight:   *)
(* an envelope is admitted only while it is fresh, and never again within  *)
(* Window of its previous admission.  Router.tla implements this.          *)
(***************************************************************************)
EXTENDS Naturals

CONSTANTS
    Id,         \* envelope ids
    Stamp,      \* the timestamp of each envelope
    Window,     \* no second admission within this long
    MaxAge,     \* an envelope older than this is not admitted
    MaxSkew     \* nor one dated further in the future

VARIABLES
    clock,      \* the node's clock
    admitted    \* per id: how often it was admitted, first and last when

vars == <<clock, admitted>>

History == [ n : Nat, first : Nat, last : Nat ]

Never == [ n |-> 0, first |-> 0, last |-> 0 ]

(* The history with one more admission.                                    *)
Again(h, now) ==
    [ n |-> h.n + 1, first |-> IF h.n = 0 THEN now ELSE h.first, last |-> now ]

Init ==
    /\ clock \in Nat
    /\ admitted = [ i \in Id |-> Never ]

Tick ==
    /\ clock' = clock + 1
    /\ UNCHANGED admitted

Admit(i) ==
    /\ Stamp[i] <= clock + MaxSkew
    /\ clock <= Stamp[i] + MaxAge
    /\ admitted[i].n > 0 => clock - admitted[i].last >= Window
    /\ admitted' = [ admitted EXCEPT ![i] = Again(@, clock) ]
    /\ UNCHANGED clock

Next == Tick \/ \E i \in Id : Admit(i)

Spec == Init /\ [][Next]_vars

=============================================================================
