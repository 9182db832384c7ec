-------------------------- MODULE MCBackgroundTasks --------------------------
(* Instances of BackgroundTasks for TLC.  No symmetry is used: ObserveAll  *)
(* visits the tasks in an arbitrary but fixed order.                       *)
EXTENDS BackgroundTasks

CONSTANTS x, y
=============================================================================
