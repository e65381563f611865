------------------------------- MODULE MCRuns -------------------------------
(* Instances of QueryRuns for TLC. *)
EXTENDS QueryRuns, TLC
InterchangeableRequests == Permutations(Requests)
AllOrOne == {<<{}, None>>, <<{"a"}, "a">>}
AsNumber == [l \in Labels |-> IF l = "007" THEN "7" ELSE l]
Catalog == {[spl |-> "labels", field |-> FALSE], [spl |-> "loose", field |-> TRUE],
            [spl |-> "global", field |-> FALSE]}
=============================================================================
