--------------------------- MODULE MCStoreForward ---------------------------
(* Three envelopes: two for one recipient, one for another.                *)
EXTENDS StoreForward

CONSTANTS a, b, c, alice, bob

MCRecipientOf == [ e \in {a, b, c} |-> IF e = c THEN bob ELSE alice ]

=============================================================================
