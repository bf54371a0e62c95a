--------------------------- MODULE MCReleaseClient ---------------------------
(* ReleaseClient on a small instance; the threads are interchangeable. *)
EXTENDS ReleaseClient, TLC

ThreadSymmetry == Permutations(Threads)
=============================================================================
