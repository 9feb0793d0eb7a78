----------------------------- MODULE MCQueries -----------------------------
(***************************************************************************)
(* A small instance of Queries: two routers whose sources have one name,   *)
(* a third router without sources, and histories of everything, of the     *)
(* closed sessions, and of one user since an instant.                      *)
(***************************************************************************)
EXTENDS Queries, TLC

CONSTANTS r1, r2
OneName == {[router |-> r, name |-> "ovpn"] : r \in {r1, r2}}

Symmetry == Permutations({r1, r2})

Logons == {[type |-> "CONNECT", occurred |-> 2]}

Histories ==
    {NoFilter,
     [NoFilter EXCEPT !.state = "CLOSED"],
     [NoFilter EXCEPT !.user = 1, !.since = 2]}
=============================================================================
