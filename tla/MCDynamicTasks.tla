--------------------------- MODULE MCDynamicTasks ---------------------------
(* Instances of DynamicTasks for TLC.                                      *)
EXTENDS DynamicTasks

CONSTANTS p, q, tool, job, s1, s2

\* The task q waits for p.
MCDependsOn == [t \in Tasks |-> IF t = q THEN {p} ELSE {}]

\* The structures of a plan are only compared with each other.
Symmetry == Permutations(Shapes)
=============================================================================
