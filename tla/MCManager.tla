------------------------------ MODULE MCManager ------------------------------
(* Instances of Manager for TLC. *)
EXTENDS Manager

\* Node c below the root and below group g, with child k; node d beside it.
MCEdge == {<<"r", "g">>, <<"g", "c">>, <<"c", "k">>, <<"r", "d">>}
MCBorn == {<<"r", "g">>, <<"g", "c">>}

=============================================================================
