----------------------- MODULE SnapshotReconciliation -----------------------
(***************************************************************************)
(* POST of a session snapshot: process_snapshot of                         *)
(* app/services/snapshots.py, statement by statement.  Until its first     *)
(* flush the request holds no lock, and other requests commit in between.  *)
(***************************************************************************)
EXTENDS SessionStore

\* Assignments to objects this worker loaded, one new row for each.
Edit(w, edited) ==
    dirty' = [dirty EXCEPT ![w] = [s \in SessionId |->
                IF s \in DOMAIN edited THEN [Loaded(w, s) EXCEPT !.new = edited[s]]
                                       ELSE dirty[w][s]]]

\* _close_session for each row of a result.
CloseAll(w, S, why) ==
    Edit(w, [s \in S |-> CloseRow(Loaded(w, s).new, job[w].request.observed, why)])

\* Another boot than the one the authentication loaded.
BootChanged(w) ==
    LET p == job[w].request IN
    p.boot # None /\ job[w].boot # None /\ p.boot # job[w].boot

\* A snapshot not newer than the last one of its source is stale; so is one
\* of another boot that is not newer than the last one of the router, as it
\* was when the request was authenticated.
NeverStale(w) == FALSE

StaleForSource(w) == Outdated(job[w].request, sourceSnapshotAt[job[w].request.source])

StaleForBoot(w) == BootChanged(w) /\ Outdated(job[w].request, job[w].mark)

Stale(w) == StaleForSource(w) \/ StaleForBoot(w)

\* The source's SELECT and the tests that may end the request.
ResolveSnapshot(w) ==
    LET p == job[w].request IN
    /\ pc[w] = "resolve"
    /\ \/ /\ ~SnapshotInScope(p)
          /\ AnswerUnchanged(w, "rejected")
       \/ /\ SnapshotInScope(p)
          /\ Stale(w)
          /\ AnswerUnchanged(w, "stale")
       \/ /\ SnapshotInScope(p)
          /\ ~Stale(w)
          /\ Goto(w, IF BootChanged(w) THEN "reboot" ELSE "items")
          /\ job' = [job EXCEPT ![w].todo = p.items]
          /\ UNCHANGED <<database, lock, work, dirty>>

\* _close_sessions_for_reboot: all sources of the router, in memory.
CloseForReboot(w) ==
    LET covered == Coverable(View(w), job[w].request.observed) IN
    /\ pc[w] = "reboot"
    /\ CloseAll(w, covered, "ROUTER_REBOOT")
    /\ Goto(w, IF covered = {} THEN "items" ELSE "flush")
    /\ UNCHANGED <<database, lock, work, job>>

\* The flush of those closes.
FlushReboot(w) ==
    /\ pc[w] = "flush"
    /\ CanWrite(w)
    /\ lock' = w
    /\ work' = Flushed(w)
    /\ dirty' = [dirty EXCEPT ![w] = Nothing]
    /\ Goto(w, "items")
    /\ UNCHANGED <<database, job>>

\* _refresh_session of the row an item was matched with.
Match(w, item, s) ==
    /\ Edit(w, [t \in {s} |-> RefreshRow(Loaded(w, t).new, job[w].request, item)])
    /\ job' = [job EXCEPT ![w].todo = @ \ {item},
                          ![w].item = None,
                          ![w].matched = @ \cup {s}]
    /\ Goto(w, "items")
    /\ UNCHANGED <<database, lock, work>>

\* _find_by_router_session_id for the next item of the list.
FindByRouterSessionId(w) ==
    /\ pc[w] = "items"
    /\ \E item \in job[w].todo :
        LET found == WithRouterSessionId(View(w), job[w].request, item) IN
        \/ \E s \in Latest(View(w), found) : Match(w, item, s)
        \/ /\ found = {}
           /\ job' = [job EXCEPT ![w].item = item]
           /\ Goto(w, "fallback")
           /\ UNCHANGED <<database, lock, work, dirty>>

\* _find_unique_event_fallback: the WHERE clause runs on the database, the
\* comparison on the objects, edited ones included.
FindEventFallback(w) ==
    LET item == job[w].item
        compatible == {s \in FallbackCandidates(View(w), job[w].request, item) :
                          Compatible(item, Loaded(w, s).new)}
    IN
    /\ pc[w] = "fallback"
    /\ \/ \E s \in compatible : compatible = {s} /\ Match(w, item, s)
       \/ /\ \A s \in compatible : compatible # {s}
          /\ Goto(w, "create")
          /\ UNCHANGED <<database, lock, work, job, dirty>>

\* _create_reconciled_session: its flush writes everything pending.
CreateReconciled(w) ==
    LET p == job[w].request
        item == job[w].item
    IN
    /\ pc[w] = "create"
    /\ CanWrite(w)
    /\ \E s \in SessionId :
        /\ View(w)[s] = None
        /\ lock' = w
        /\ work' = [Flushed(w) EXCEPT ![s] = ReconciledRow(p, item)]
        /\ dirty' = [dirty EXCEPT ![w] = Nothing]
        /\ job' = [job EXCEPT ![w].todo = @ \ {item},
                              ![w].item = None,
                              ![w].matched = @ \cup {s}]
    /\ Goto(w, "items")
    /\ UNCHANGED database

\* The active sessions of the source that the snapshot does not list.
CloseMissing(w) ==
    LET p == job[w].request
        missing == {s \in Coverable(View(w), p.observed) :
                        View(w)[s].source = p.source} \ job[w].matched
    IN
    /\ pc[w] = "items"
    /\ job[w].todo = {}
    /\ CloseAll(w, missing, "RECONCILIATION")
    /\ Goto(w, "commit")
    /\ UNCHANGED <<database, lock, work, job>>

\* routers.last_snapshot_at: advanced if this snapshot is newer than the
\* mark the authentication loaded.
LastRouterMark(w, p) == p.observed

RouterMark(w, p) ==
    IF job[w].mark = None \/ p.observed > job[w].mark
    THEN p.observed ELSE routerSnapshotAt

\* routers.last_boot_id: written if it differs from the one loaded.
RouterBoot(w, p) == IF p.boot \in {None, job[w].boot} THEN routerBootId ELSE p.boot

\* The watermarks and the commit; the source's mark is written as it is.
CommitSnapshot(w) ==
    LET p == job[w].request IN
    /\ pc[w] = "commit"
    /\ CanWrite(w)
    /\ vpnSessions' = Flushed(w)
    /\ work' = Flushed(w)
    /\ sourceSnapshotAt' = [sourceSnapshotAt EXCEPT ![p.source] = p.observed]
    /\ routerSnapshotAt' = RouterMark(w, p)
    /\ routerBootId' = RouterBoot(w, p)
    /\ lock' = None
    /\ dirty' = [dirty EXCEPT ![w] = Nothing]
    /\ Answer(w, "accepted")
    /\ UNCHANGED vpnEvents

SnapshotStep(w) ==
    \/ ResolveSnapshot(w) \/ CloseForReboot(w) \/ FlushReboot(w)
    \/ FindByRouterSessionId(w) \/ FindEventFallback(w) \/ CreateReconciled(w)
    \/ CloseMissing(w) \/ CommitSnapshot(w)
=============================================================================
