--------------------------- MODULE MCSocketStream ---------------------------
(* Values for model checking SocketStream. *)
EXTENDS SocketStream
=============================================================================
