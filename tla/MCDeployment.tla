----------------------------- MODULE MCDeployment -----------------------------
(* A post of the running API among two that an API process before it had sent: each *)
(* an update or a restart, in every order, of two sound images and a bad one.       *)
EXTENDS Deployment
=============================================================================
