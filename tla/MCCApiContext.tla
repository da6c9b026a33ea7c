--------------------------- MODULE MCCApiContext ---------------------------
(* Values for model checking CApiContext. *)
EXTENDS CApiContext

\* Two actions; one of them; an action without a name.
MCLayouts == {<<"on", "off">>, <<"off">>, <<"on", "", "off">>}
=============================================================================
