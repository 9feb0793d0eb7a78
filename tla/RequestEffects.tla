--------------------------- MODULE RequestEffects ---------------------------
(***************************************************************************)
(* What a whole request makes of the sessions of its router, without       *)
(* statements, transactions or other requests: the outcomes of             *)
(* _apply_connect and _apply_disconnect (app/services/events.py) and of    *)
(* the loop of process_snapshot (app/services/snapshots.py), as sets of    *)
(* tables.                                                                 *)
(***************************************************************************)
EXTENDS SessionRows

\* Any unused key may be a new row's.  Instances that number the rows give an
\* order, {} otherwise, in which the keys are used.
NewKeys(table, order) == {s \in Unused(table) : \A t \in Unused(table) : <<t, s>> \notin order}

Inserted(table, row, order) == {[table EXCEPT ![s] = row] : s \in NewKeys(table, order)}

-----------------------------------------------------------------------------
(* Events.                                                                 *)

\* What a CONNECT may make of the sessions: refreshed on its interface, or new.
Connected(table, e, order) ==
    LET same == IF Blank(e.attrs["iface"]) THEN {} ELSE Latest(table, ActiveFor(table, e))
    IN
    IF same = {}
    THEN Inserted(table, EventRow(e), order)
    ELSE {[table EXCEPT ![s] = ReconnectRow(@, e)] : s \in same}

\* A DISCONNECT ends the latest session that fits, if any.
Disconnected(table, e) ==
    LET fitting == Latest(table, ActiveFor(table, e)) IN
    IF fitting = {}
    THEN {table}
    ELSE {[table EXCEPT ![s] = CloseRow(@, e.occurred, "DISCONNECT")] : s \in fitting}

-----------------------------------------------------------------------------
(* Snapshots.                                                              *)

CloseEach(table, S, p, why) ==
    [s \in SessionId |-> IF s \in S THEN CloseRow(table[s], p.observed, why) ELSE table[s]]

OtherBoot(p, boot) == p.boot # None /\ boot # None /\ p.boot # boot

\* What another boot than the one on record leaves of the sessions.
AfterReboot(p, table, boot) ==
    IF OtherBoot(p, boot)
    THEN CloseEach(table, Coverable(table, p.observed), p, "ROUTER_REBOOT")
    ELSE table

\* For an item the WHERE clauses run on the rows as last flushed, the edits are
\* made to the objects; a row inserted for an item flushes them all.
MatchedWith(p, flushed, objects, item) ==
    LET byId == WithRouterSessionId(flushed, p, item)
        compatible == {s \in FallbackCandidates(flushed, p, item) :
                          Compatible(item, objects[s])}
    IN
    IF byId # {} THEN Latest(flushed, byId) ELSE {s \in compatible : compatible = {s}}

\* What one item makes of the rows.
AfterItem(p, x, item, order) ==
    LET found == MatchedWith(p, x.flushed, x.objects, item) IN
    IF found # {}
    THEN {[x EXCEPT !.objects[s] = RefreshRow(@, p, item), !.matched = @ \cup {s}] :
             s \in found}
    ELSE {[flushed |-> table, objects |-> table,
           matched |-> x.matched \cup {s \in SessionId : table[s] # x.objects[s]}] :
             table \in Inserted(x.objects, ReconciledRow(p, item), order)}

\* What several of them do, taken in any order.
AfterItems(p, table, items, order) ==
    LET after[done \in SUBSET items] ==
            IF done = {}
            THEN {[flushed |-> table, objects |-> table, matched |-> {}]}
            ELSE UNION {UNION {AfterItem(p, x, item, order) : x \in after[done \ {item}]} :
                        item \in done}
    IN  after[items]

\* A mistake: what no snapshot has identified is not missed.
MissingIdentified(p, x) ==
    {s \in Coverable(x.flushed, p.observed) : x.flushed[s].source = p.source
                                              /\ x.flushed[s].rsid # None} \ x.matched

\* The sessions of the source, as flushed, that no item was matched with.
Missing(p, x) ==
    {s \in Coverable(x.flushed, p.observed) : x.flushed[s].source = p.source} \ x.matched
=============================================================================
