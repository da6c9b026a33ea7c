--------------------------- MODULE MCSubscriptions ---------------------------
(* Values for model checking Subscriptions. *)
EXTENDS Subscriptions
=============================================================================
