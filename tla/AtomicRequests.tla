--------------------------- MODULE AtomicRequests ---------------------------
(***************************************************************************)
(* The ingestion API as a router that sends one request at a time sees it: *)
(* each request changes the tables in one step, or not at all.  What a     *)
(* service does to them is one of its RequestEffects; there are no         *)
(* workers, statements or locks.                                           *)
(***************************************************************************)
EXTENDS RequestEffects

CONSTANTS
    Events, Snapshots,
    KeyOrder            \* in which the keys of new rows are used, if any

VARIABLES vpnSessions, vpnEvents, sourceSnapshotAt, routerSnapshotAt, routerBootId

tables == <<vpnSessions, vpnEvents, sourceSnapshotAt, routerSnapshotAt, routerBootId>>

Init ==
    /\ vpnSessions = [s \in SessionId |-> None]
    /\ vpnEvents = {}
    /\ sourceSnapshotAt = [s \in Source |-> None]
    /\ routerSnapshotAt = None
    /\ routerBootId = None

-----------------------------------------------------------------------------

StoresEvent(e) ==
    /\ EventInScope(e)
    /\ \A x \in vpnEvents : x.id # e.id
    /\ vpnSessions' \in IF e.type = "CONNECT" THEN Connected(vpnSessions, e, KeyOrder)
                                              ELSE Disconnected(vpnSessions, e)
    /\ vpnEvents' = vpnEvents \cup {e}
    /\ UNCHANGED <<sourceSnapshotAt, routerSnapshotAt, routerBootId>>

AppliesSnapshot(p) ==
    /\ SnapshotInScope(p)
    /\ ~Outdated(p, sourceSnapshotAt[p.source])
    /\ ~(OtherBoot(p, routerBootId) /\ Outdated(p, routerSnapshotAt))
    /\ \E x \in AfterItems(p, AfterReboot(p, vpnSessions, routerBootId), p.items, KeyOrder) :
          vpnSessions' = CloseEach(x.objects, Missing(p, x), p, "RECONCILIATION")
    /\ sourceSnapshotAt' = [sourceSnapshotAt EXCEPT ![p.source] = p.observed]
    /\ routerSnapshotAt' = IF Outdated(p, routerSnapshotAt) THEN routerSnapshotAt ELSE p.observed
    /\ routerBootId' = IF p.boot = None THEN routerBootId ELSE p.boot
    /\ UNCHANGED vpnEvents

-----------------------------------------------------------------------------

Next == (\E e \in Events : StoresEvent(e)) \/ (\E p \in Snapshots : AppliesSnapshot(p))

Spec == Init /\ [][Next]_tables
=============================================================================
