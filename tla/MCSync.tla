------------------------------- MODULE MCSync -------------------------------
(* Instances of Sync for TLC. *)
EXTENDS Sync

\* The device node d with the sync node s and node a; node b below a.
MCNode == {"d", "s", "a", "b"}
MCParent == [n \in {"s", "a", "b"} |-> IF n = "b" THEN "a" ELSE "d"]

Both(N) == {"L", "R"} \X N
MCMade == Both({"b"})
MCDeleted == {<<"R", "d">>, <<"L", "a">>}
MCWritten == Both({"a"})

=============================================================================
