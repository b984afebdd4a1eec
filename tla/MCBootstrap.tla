---------------------------- MODULE MCBootstrap ----------------------------
(* An inventory of one or two entries that may grow, shrink or change.  One entry is a *)
(* project without sessions, so that manifests of two lengths have as many sessions.   *)
EXTENDS Bootstrap

TwoManifests == {<<"a">>, <<"b", "a">>}
ChangingManifests == TwoManifests \cup {<<"b">>}
=============================================================================
