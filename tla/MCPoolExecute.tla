--------------------------- MODULE MCPoolExecute ---------------------------
(* Scenarios for the run of PoolExecute. *)
EXTENDS PoolExecute

Scenario(kinds, p, cr, fa) == [kind |-> kinds, prog |-> p, crashes |-> cr, failures |-> fa]
R == "read"
X == "retire"
\* Two threads that nobody restarts retire nodes and repin.
Workers == Scenario(<<"worker", "worker">>, << << <<X, X>>, <<>>, <<>> >>, << <<R>>, <<X>> >> >>, 0, 0)
\* Two threads of execute, one of which dies.
Dying == Scenario(<<"root", "root">>, << << <<X, X>>, <<>> >>, << <<R>>, <<>>  >> >>, 1, 0)
Failing == Scenario(<<"root", "root">>, << << <<X>> >>, << <<R>>  >> >>, 0, 1)
All == {Workers, Dying, Failing}
=============================================================================
