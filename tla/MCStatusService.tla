-------------------------- MODULE MCStatusService ---------------------------
(* StatusService on small instances: one request per thread. *)
EXTENDS StatusService
=============================================================================
