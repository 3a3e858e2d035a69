------------------------------- MODULE MCNode -------------------------------
(* Channels for one envelope, sockets for one frame and a BLE queue for    *)
(* one, so that each of them overflows.                                    *)
EXTENDS Node
=============================================================================
