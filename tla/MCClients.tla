----------------------------- MODULE MCClients -----------------------------
(* Instances of ClientLists for TLC. *)
EXTENDS ClientLists

CONSTANTS c1, c2, c3
=============================================================================
