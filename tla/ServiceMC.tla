----------------------------- MODULE ServiceMC -----------------------------
(* An instance of Service for TLC: two releases start on an empty database. *)
EXTENDS Service, TLC

CONSTANTS p1, p2

MCScripts == [p \in Processes |-> IF p = p1 THEN 1 ELSE 2]
MCFound == {-1}
MCLimits == {-1, 3}

Reorder == Permutations(Writers)
=============================================================================
