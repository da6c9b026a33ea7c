-------------------------- MODULE MCActionRequests --------------------------
(* Values for model checking ActionRequests. *)
EXTENDS ActionRequests, TLC

MCCalls      == {<<"EXECUTE", "sync">>, <<"FETCH", "async">>,
                 <<"EXECUTE", "oneway">>, <<"EXECUTE", "unnamed">>}
MCMixedCalls == {<<"FETCH", "sync">>, <<"EXECUTE", "async">>}
MCAllCalls   == {<<"FETCH", "sync">>, <<"EXECUTE", "sync">>, <<"EXECUTE", "async">>}
MCFetchCalls == {<<"FETCH", "async">>}

MCSymmetry == Permutations(Threads)
=============================================================================
