------------------------------ MODULE MCUpdater ------------------------------
(* Updater on small instances: requests are POSTs, each served once. *)
EXTENDS Updater
=============================================================================
