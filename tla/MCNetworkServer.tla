--------------------------- MODULE MCNetworkServer ---------------------------
(* The server for TLC: connections that hand subscriptions to each other. *)
EXTENDS NetworkServer

=============================================================================
