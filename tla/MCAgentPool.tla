----------------------------- MODULE MCAgentPool -----------------------------
(* Instances of AgentPool for TLC.                                         *)
EXTENDS AgentPool, TLC

CONSTANTS a, b, c

\* Tasks outside Graceful are interchangeable.
Symmetry == Permutations(Tasks \ Graceful)
=============================================================================
