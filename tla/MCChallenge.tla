----------------------------- MODULE MCChallenge -----------------------------
(* A small company for Challenge: the first driver makes most deliveries,  *)
(* and the challenge starts with a reward that two cannot share evenly.    *)
EXTENDS Challenge, TLC

CONSTANTS u1, u2

MCDriver == [l \in 1..MaxLogs |-> IF l = 2 THEN u2 ELSE u1]
MCDistance == [l \in 1..MaxLogs |-> IF l = 1 THEN 2 ELSE 1]

MCInit == Init /\ reward_points = 3
MCSpec == MCInit /\ [][Next]_vars

\* No further than where a removal or an edit runs into another request: what is
\* right then no property says.
OrderedOrAdding == overlap # "any"

Symmetry == Permutations(Reqs)
=============================================================================
