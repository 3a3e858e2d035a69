------------------------------ MODULE MCSession ------------------------------
(* Two signed prekeys, one one-time prekey, and ephemeral keys for two      *)
(* sessions, one of them with it.  Ephemeral keys are alike, and so are the *)
(* signed prekeys.                                                          *)
EXTENDS Session, TLC

CONSTANTS e1, e2, e3, s1, s2

Symmetry == Permutations({e1, e2, e3}) \union Permutations({s1, s2})

=============================================================================
