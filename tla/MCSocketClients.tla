-------------------------- MODULE MCSocketClients --------------------------
(* Values for model checking SocketClients. *)
EXTENDS SocketClients
=============================================================================
