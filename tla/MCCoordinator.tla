----------------------------- MODULE MCCoordinator -----------------------------
(* The integration with two releases and any number of restarts. *)
EXTENDS Coordinator
=============================================================================
