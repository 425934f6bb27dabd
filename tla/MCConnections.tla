--------------------------- MODULE MCConnections ---------------------------
(* Instances of ClientConnections for TLC. *)
EXTENDS ClientConnections

CONSTANTS u1, u2, r1, r2
=============================================================================
