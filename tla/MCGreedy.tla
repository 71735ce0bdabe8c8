------------------------------ MODULE MCGreedy ------------------------------
(***************************************************************************)
(* Greedy over every list of at most two pools whose numbers sit on either *)
(* side of each comparison of Fill.  The pools of a list have the names    *)
(* the buffer policy gives them: a list names a pool once (MCInit).        *)
(***************************************************************************)
EXTENDS Greedy

MCPoolView ==
    [name : {"a", "b"}, priority : {1, 3}, usd : {1, 3}, penalty : {1, 2},
     max : {0, 2}, current : {0, 1, 3}, available : {0, 1}]

MCNeed == -1..3

\* A policy that lists a pool twice is not explored here.
MCInit ==
    /\ Init
    /\ \A i, j \in 1..Len(pools) : i < j => pools[i].name = "a" /\ pools[j].name = "b"

MCSpec == MCInit /\ [][Next]_vars
=============================================================================
