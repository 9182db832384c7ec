---------------------------- MODULE MCJournal ----------------------------
(* The execution journal on a small instance. *)
EXTENDS Journal

=============================================================================
