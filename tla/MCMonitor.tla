------------------------------ MODULE MCMonitor ------------------------------
(* Instance of Monitor for TLC.                                            *)
EXTENDS Monitor, TLC

CONSTANTS p, w
=============================================================================
