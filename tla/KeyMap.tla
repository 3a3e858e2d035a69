------------------------------- MODULE KeyMap -------------------------------
(***************************************************************************)
(* What FileKeyStore gives its callers as long as they change it one at a  *)
(* time: the keys stored and not deleted, every change all at once,        *)
(* whenever the program is killed.  A loss of power may bring back any     *)
(* state since the last one known to be on disk.                           *)
(*                                                                         *)
(* This is less than its documentation says: keystore.rs speaks of         *)
(* anti-rollback and a monotonic counter, and its trait lets threads share *)
(* a store.  Once two changes overlap, nothing is said here.               *)
(***************************************************************************)
CONSTANT Key

VARIABLES
    map,        \* the keys that load finds
    past,       \* what a loss of power may bring back
    shared      \* two changes overlapped, some time

Init == map = {} /\ past = {map} /\ ~shared

Change(m) == map' = m /\ past' = past \union {m}

Store(key) == Change(map \union {key})
Delete(key) == Change(map \ {key})
Wiped == Change({})
Settled == map' = map /\ past' = {map}
GoBack == map' \in past /\ past' = {map'}

Next ==
    \/ shared'
    \/ \E key \in Key : Store(key) \/ Delete(key)
    \/ Wiped \/ Settled \/ GoBack

Spec == Init /\ [][Next]_<<map, past, shared>>

=============================================================================
