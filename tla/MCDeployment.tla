---------------------------- MODULE MCDeployment ----------------------------
(***************************************************************************)
(* A small instance of Deployment: the unit and one administrator who runs *)
(* two scripts or requests at a time.                                      *)
(***************************************************************************)
EXTENDS Deployment, TLC

\* Keys are numbered in the order of their use.
Least(unused) == {k \in unused : \A j \in unused : k <= j}
=============================================================================
