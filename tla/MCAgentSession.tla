--------------------------- MODULE MCAgentSession ---------------------------
(* Instances of AgentSession for TLC.                                      *)
EXTENDS AgentSession, TLC

CONSTANTS m1, m2, m3
=============================================================================
