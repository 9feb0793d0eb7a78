--------------------------- MODULE MCLogonAlerts ---------------------------
(***************************************************************************)
(* A small instance of LogonAlerts.  The two events are interchangeable.   *)
(***************************************************************************)
EXTENDS LogonAlerts, TLC

Symmetry == Permutations(EventId)
=============================================================================
