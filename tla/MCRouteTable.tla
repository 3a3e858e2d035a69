---------------------------- MODULE MCRouteTable ----------------------------
(* One honest node, one rogue, and us; sequence numbers of three bits.     *)
EXTENDS RouteTable

CONSTANTS us, honest, rogue

=============================================================================
